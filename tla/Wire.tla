-------------------------------- MODULE Wire --------------------------------
(***************************************************************************)
(* The messages of the hyprwire protocol and the stream socket that joins  *)
(* one client to one server.  Each direction is a FIFO queue of whole      *)
(* messages; how bytes are cut into reads is the business of SocketStream. *)
(*                                                                         *)
(* The methods of a protocol object are reduced to what the wire machinery *)
(* tells apart: whether a method creates an object (returnsType), destroys *)
(* its object (isDestructor), and since which version it exists.           *)
(***************************************************************************)
EXTENDS Naturals, Sequences

CONSTANTS
    Protocols,      \* names of protocol specifications
    ServerVer,      \* version of each protocol the server implements, 0: none
    ClientVer,      \* version of each protocol the client was built against
    Requests,       \* the c2s methods the applications of this model use
    Events,         \* the s2c methods the applications of this model use
    SplitReads      \* a read may stop before the last message that waits

AllRequests == {"request", "request2", "make", "destroy"}
AllEvents   == {"event", "event2", "gone"}

ASSUME MethodsAssumption == 
    /\ Requests \subseteq AllRequests
    /\ Events \subseteq AllEvents
    /\ SplitReads \in BOOLEAN
ASSUME VersionsAssumption ==
    /\ ServerVer \in [Protocols -> Nat]
    /\ ClientVer \in [Protocols -> Nat \ {0}]

\* The attributes SMethod carries for each of these methods.
Since(m)        == IF m \in {"request2", "event2"} THEN 2 ELSE 0
Creates(m)      == m = "make"
IsDestructor(m) == m \in {"destroy", "gone"}

HYPRWIRE_PROTOCOL_VER == 1

-----------------------------------------------------------------------------
\* One constructor per message class of src/core/message/messages.
Hello                 == [type |-> "SUP"]
HandshakeBegin(vs)    == [type |-> "HANDSHAKE_BEGIN", versions |-> vs]
HandshakeAck(v)       == [type |-> "HANDSHAKE_ACK", version |-> v]
HandshakeProtocols(s) == [type |-> "HANDSHAKE_PROTOCOLS", protocols |-> s]
BindProtocol(q, p, v) == [type |-> "BIND_PROTOCOL", seq |-> q, protocol |-> p, version |-> v]
NewObject(q, i)       == [type |-> "NEW_OBJECT", seq |-> q, id |-> i]
Generic(i, m, q)      == [type |-> "GENERIC", object |-> i, method |-> m, seq |-> q]
FatalError(i)         == [type |-> "FATAL", object |-> i]
RoundtripRequest(q)   == [type |-> "ROUNDTRIP_REQUEST", seq |-> q]
RoundtripDone(q)      == [type |-> "ROUNDTRIP_DONE", seq |-> q]

\* Whatever parseSingleMessage returns 0 for: bytes that do not parse, an
\* unknown code, a message that travels the wrong way.
Invalid == [type |-> "INVALID"]

\* What a server, and what a client, may find on the wire.
ClientMessage ==
    {Hello, Invalid}
      \cup [type : {"HANDSHAKE_ACK"}, version : Nat]
      \cup [type : {"BIND_PROTOCOL"}, seq : Nat, protocol : Protocols, version : Nat]
      \cup [type : {"GENERIC"}, object : Nat, method : AllRequests, seq : Nat]
      \cup [type : {"ROUNDTRIP_REQUEST"}, seq : Nat]

ServerMessage ==
    {Invalid}
      \cup [type : {"HANDSHAKE_BEGIN"}, versions : SUBSET Nat]
      \cup [type : {"HANDSHAKE_PROTOCOLS"}, protocols : SUBSET Protocols]
      \cup [type : {"NEW_OBJECT"}, seq : Nat, id : Nat]
      \cup [type : {"GENERIC"}, object : Nat, method : AllEvents, seq : Nat]
      \cup [type : {"FATAL"}, object : Nat]
      \cup [type : {"ROUNDTRIP_DONE"}, seq : Nat]

-----------------------------------------------------------------------------
VARIABLES
    c2s,        \* messages the client wrote and the server has not read
    s2c,        \* messages the server wrote and the client has not read
    clientOpen, \* the client's end of the socket is open
    serverOpen, \* the server's end of the socket is open
    reset       \* the server closed its end with unread data in it

wireVars == <<c2s, s2c, clientOpen, serverOpen, reset>>

\* CClientSocket::attempt connects and sends the hello at once.
WireInit ==
    /\ c2s = <<Hello>>
    /\ s2c = <<>>
    /\ clientOpen = TRUE
    /\ serverOpen = TRUE
    /\ reset = FALSE

WireTypeOK ==
    /\ c2s \in Seq(ClientMessage)
    /\ s2c \in Seq(ServerMessage)
    /\ clientOpen \in BOOLEAN
    /\ serverOpen \in BOOLEAN
    /\ reset \in BOOLEAN

\* How many of the waiting messages one read may return: all of them, or only
\* the first few when one carries descriptors, for the kernel ends a read there.
ReadLengths(queue) == IF SplitReads THEN 1 .. Len(queue) ELSE {Len(queue)} \ {0}

\* sendmsg on a socket whose peer is gone fails and the message is lost.
ClientSends(msgs) == c2s' = IF clientOpen /\ serverOpen THEN c2s \o msgs ELSE c2s
ServerSends(msgs) == s2c' = IF clientOpen /\ serverOpen THEN s2c \o msgs ELSE s2c
=============================================================================
