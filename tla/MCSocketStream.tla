--------------------------- MODULE MCSocketStream ---------------------------
EXTENDS SocketStream

\* The server's messages fit in its queue, the client's do not.
StreamCapacity == [client |-> 4, server |-> 20]
StreamMaxSent  == [client |-> 3, server |-> 2]
=============================================================================
