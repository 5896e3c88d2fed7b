---------------------------- MODULE MCConnection ----------------------------
(* Constants for model-checking Connection. *)
EXTENDS Connection

MCServerVer == [p \in Protocols |-> 2]
MCServerVer1 == [p \in Protocols |-> 1]

\* A client of another make may say hello again, send what does not parse and
\* call what is not there.
MCStrayToServer == {Hello, Invalid, Generic(7, "request", 0), Generic(1, "request2", 0)}

\* A server of another make may speak another version, and answer what was
\* not asked.
MCStrayToClient == {Invalid, HandshakeBegin({2}), NewObject(7, 7)}

MCClientVer == [p \in Protocols |-> 2]

\* A client that speaks a newer version of one protocol and not of the others.
MCClientVer1 ==
    LET newer == CHOOSE p \in Protocols : TRUE
    IN  [p \in Protocols |-> IF p = newer THEN 2 ELSE 1]
=============================================================================
