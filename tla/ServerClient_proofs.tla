------------------------- MODULE ServerClient_proofs -------------------------
(***************************************************************************)
(* Type correctness of the server's side of a connection, step by step.    *)
(* Connection_proofs puts it together with the client's side.  After the   *)
(* types come lemmas on the messages each handler takes and sends.         *)
(***************************************************************************)
EXTENDS ServerClient, Wire_proofs

\* Every step of the server's side, the library's and the application's.
ServerSteps ==
    \/ ServerDispatches
    \/ ServerCreates
    \/ ServerEmits
    \/ ServerDeclaresError
    \/ ServerRemovesClient

\* The message being parsed is one a client may send, and so are the rest.
LEMMA MessageType ==
    ASSUME ServerTypeOK, ServerParses
    PROVE  /\ Message \in ClientMessage
           /\ Tail(sBatch) \in Seq(ClientMessage)
BY HeadTailProperties DEF ServerTypeOK, ServerParses, Message

\* createObject keeps the counter and the list of objects well formed.
LEMMA CreateObjectType ==
    ASSUME WireTypeOK, ServerTypeOK,
           NEW p \in Protocols, NEW v \in Nat, NEW q \in Nat, CreateObject(p, v, q)
    PROVE  /\ maxId' \in Nat \ {0}
           /\ sObjects' \subseteq ServerObject
           /\ sError' \in BOOLEAN
           /\ s2c' \in Seq(ServerMessage)
<1>1. maxId' \in Nat \ {0}
  BY DEF CreateObject, ServerTypeOK
<1>6. sError' \in BOOLEAN
  BY DEF CreateObject, ServerTypeOK
<1>2. [id |-> maxId, seq |-> q, protocol |-> p, version |-> v, destroyed |-> FALSE] \in ServerObject
  BY DEF ServerTypeOK, ServerObject
<1>3. sObjects' \subseteq ServerObject
  BY <1>2 DEF CreateObject, ServerTypeOK
<1>4. NewObject(q, maxId) \in ServerMessage /\ FatalError(maxId) \in ServerMessage
  BY ServerMessages DEF ServerTypeOK
<1>5. s2c' \in Seq(ServerMessage)
  BY <1>4, ServerSendsOneType DEF CreateObject
<1> QED
  BY <1>1, <1>3, <1>5, <1>6

-----------------------------------------------------------------------------
(* The type invariants of socket and server, cut in two: the Boolean       *)
(* variables, and the others.                                              *)

ServerFlagsOK ==
    /\ sError \in BOOLEAN
    /\ firstPollDone \in BOOLEAN
    /\ sHup \in BOOLEAN
    /\ clientOpen \in BOOLEAN
    /\ serverOpen \in BOOLEAN
    /\ reset \in BOOLEAN

ServerDataOK ==
    /\ exposed \subseteq Implemented
    /\ version \in Nat
    /\ maxId \in Nat \ {0}
    /\ sObjects \subseteq ServerObject
    /\ scheduledRoundtrip \in Nat
    /\ sPhase \in {"idle", "parse", "reap"}
    /\ sBatch \in Seq(ClientMessage)
    /\ sCall \in [id : Nat, method : AllRequests \cup {"bind", "none"}]
    /\ todo \subseteq Todo
    /\ c2s \in Seq(ClientMessage)
    /\ s2c \in Seq(ServerMessage)

\* The two parts together say what the type invariants say.
LEMMA ServerTypeOKParts == WireTypeOK /\ ServerTypeOK <=> ServerFlagsOK /\ ServerDataOK
BY DEF WireTypeOK, ServerTypeOK, ServerFlagsOK, ServerDataOK

\* No step of the server's side changes a flag to anything but a Boolean.
LEMMA ServerStepFlags ==
    ASSUME ServerFlagsOK, ServerSteps
    PROVE  ServerFlagsOK'
<1> USE DEF ServerFlagsOK, sSessionVars, sObjectVars, sReadVars, wireVars
<1>1. CASE ServerReads
  BY <1>1, Zenon DEF ServerReads, CreateObject, ServerRaises, DropClient
<1>2. CASE ServerSeesHangup
  BY <1>2, Zenon DEF ServerSeesHangup, CreateObject, ServerRaises, DropClient
<1>3. CASE ServerHandlesHello
  BY <1>3, Zenon DEF ServerHandlesHello, CreateObject, ServerRaises, DropClient
<1>4. CASE ServerHandlesAck
  BY <1>4, Zenon DEF ServerHandlesAck, CreateObject, ServerRaises, DropClient
<1>5. CASE ServerHandlesBind
  BY <1>5, Zenon DEF ServerHandlesBind, CreateObject, ServerRaises, DropClient
<1>6. CASE ServerHandlesRoundtrip
  BY <1>6, Zenon DEF ServerHandlesRoundtrip, CreateObject, ServerRaises, DropClient
<1>7. CASE ServerHandlesUnknown
  BY <1>7, Zenon DEF ServerHandlesUnknown, CreateObject, ServerRaises, DropClient
<1>8. CASE ServerIgnoresRequest
  BY <1>8, Zenon DEF ServerIgnoresRequest, CreateObject, ServerRaises, DropClient
<1>9. CASE ServerCalled
  BY <1>9, Zenon DEF ServerCalled, CreateObject, ServerRaises, DropClient
<1>10. CASE ServerRejects
  BY <1>10, Zenon DEF ServerRejects, CreateObject, ServerRaises, DropClient
<1>11. CASE ServerListenerReturns
  BY <1>11, Zenon DEF ServerListenerReturns, CreateObject, ServerRaises, DropClient
<1>12. CASE ServerFinishesBatch
  BY <1>12, Zenon DEF ServerFinishesBatch, CreateObject, ServerRaises, DropClient
<1>13. CASE ServerReaps
  BY <1>13, Zenon DEF ServerReaps, CreateObject, ServerRaises, DropClient
<1>14. CASE ServerCreates
  BY <1>14, Zenon DEF ServerCreates, CreateObject, ServerRaises, DropClient
<1>15. CASE ServerEmits
  BY <1>15, Zenon DEF ServerEmits, CreateObject, ServerRaises, DropClient
<1>16. CASE ServerDeclaresError
  BY <1>16, Zenon DEF ServerDeclaresError, CreateObject, ServerRaises, DropClient
<1>17. CASE ServerRemovesClient
  BY <1>17, Zenon DEF ServerRemovesClient, CreateObject, ServerRaises, DropClient
<1> QED
  BY <1>1, <1>2, <1>3, <1>4, <1>5, <1>6, <1>7, <1>8, <1>9, <1>10, <1>11, <1>12, <1>13, <1>14, <1>15, <1>16, <1>17
     DEF ServerSteps, ServerDispatches, ServerHandles

\* No step of the server's side takes the rest of its state, or the socket's
\* queues, out of their types.
LEMMA ServerStepData ==
    ASSUME WireTypeOK, ServerTypeOK, ServerSteps
    PROVE  ServerDataOK'
<1> ServerDataOK
  BY ServerTypeOKParts
<1> USE DEF ServerDataOK, sSessionVars, sObjectVars, sReadVars, wireVars
<1>1. CASE ServerReads
  <2>1. PICK n \in ReadLengths(c2s) : /\ sBatch' = SubSeq(c2s, 1, n)
                                      /\ c2s' = SubSeq(c2s, n + 1, Len(c2s))
    BY <1>1 DEF ServerReads
  <2>2. sBatch' \in Seq(ClientMessage) /\ c2s' \in Seq(ClientMessage)
    BY <2>1, ReadSplitsQueue
  <2> QED
    BY <1>1, <2>2 DEF ServerReads
<1>2. CASE ServerSeesHangup
  BY <1>2 DEF ServerSeesHangup
<1>3. CASE ServerHandlesHello
  <2>1. Message \in ClientMessage /\ Tail(sBatch) \in Seq(ClientMessage)
    BY <1>3, MessageType DEF ServerHandlesHello
  <2>2. HandshakeBegin({HYPRWIRE_PROTOCOL_VER}) \in ServerMessage
    BY ServerMessages DEF HYPRWIRE_PROTOCOL_VER
  <2>3. s2c' \in Seq(ServerMessage)
    BY <1>3, <2>2, ServerSendsOneType DEF ServerHandlesHello
  <2> QED
    BY <1>3, <2>1, <2>3 DEF ServerHandlesHello
<1>4. CASE ServerHandlesAck
  <2>1. Message \in ClientMessage /\ Tail(sBatch) \in Seq(ClientMessage)
    BY <1>4, MessageType DEF ServerHandlesAck
  <2>2. Message.version \in Nat
    BY <1>4, <2>1 DEF ServerHandlesAck, ClientMessage, Hello, Invalid
  <2>3. HandshakeProtocols(exposed) \in ServerMessage
    BY ServerMessages DEF Implemented
  <2>4. s2c' \in Seq(ServerMessage)
    BY <1>4, <2>3, ServerSendsOneType DEF ServerHandlesAck
  <2> QED
    BY <1>4, <2>1, <2>2, <2>4 DEF ServerHandlesAck
<1>5. CASE ServerHandlesBind
  <2>1. Message \in ClientMessage /\ Tail(sBatch) \in Seq(ClientMessage)
    BY <1>5, MessageType DEF ServerHandlesBind
  <2>2. Message.protocol \in Protocols /\ Message.version \in Nat /\ Message.seq \in Nat
    BY <1>5, <2>1 DEF ServerHandlesBind, ClientMessage, Hello, Invalid
  <2>3. /\ maxId' \in Nat \ {0}
        /\ sObjects' \subseteq ServerObject
        /\ s2c' \in Seq(ServerMessage)
    BY <1>5, <2>2, CreateObjectType DEF ServerHandlesBind
  <2>4. sCall' \in [id : Nat, method : AllRequests \cup {"bind", "none"}]
    BY <1>5 DEF ServerHandlesBind, NoCall
  <2> QED
    BY <1>5, <2>1, <2>3, <2>4 DEF ServerHandlesBind
<1>6. CASE ServerHandlesRoundtrip
  <2>1. Message \in ClientMessage /\ Tail(sBatch) \in Seq(ClientMessage)
    BY <1>6, MessageType DEF ServerHandlesRoundtrip
  <2>2. Message.seq \in Nat
    BY <1>6, <2>1 DEF ServerHandlesRoundtrip, ClientMessage, Hello, Invalid
  <2> QED
    BY <1>6, <2>1, <2>2 DEF ServerHandlesRoundtrip
<1>7. CASE ServerHandlesUnknown
  <2>1. Message \in ClientMessage /\ Tail(sBatch) \in Seq(ClientMessage)
    BY <1>7, MessageType DEF ServerHandlesUnknown
  <2>2. FatalError(Message.object) \in ServerMessage
    BY <1>7, <2>1, ServerMessages DEF ServerHandlesUnknown, ClientMessage, Hello, Invalid
  <2>3. s2c' \in Seq(ServerMessage)
    BY <1>7, <2>2, ServerSendsOneType DEF ServerHandlesUnknown, ServerRaises
  <2> QED
    BY <1>7, <2>1, <2>3 DEF ServerHandlesUnknown
<1>8. CASE ServerIgnoresRequest
  <2>1. Message \in ClientMessage /\ Tail(sBatch) \in Seq(ClientMessage)
    BY <1>8, MessageType DEF ServerIgnoresRequest
  <2>2. sObjects' \subseteq ServerObject
    BY <1>8 DEF ServerIgnoresRequest, WithoutObject
  <2> QED
    BY <1>8, <2>1, <2>2 DEF ServerIgnoresRequest
<1>9. CASE ServerCalled
  <2>1. Message \in ClientMessage /\ Tail(sBatch) \in Seq(ClientMessage)
    BY <1>9, MessageType DEF ServerCalled
  <2>2. PICK o \in Addressed(Message.object) :
           IF Since(Message.method) > o.version
             THEN /\ ServerRaises(o.id)
                  /\ UNCHANGED <<sCall, todo>>
             ELSE /\ sCall' = [id |-> o.id, method |-> Message.method]
                  /\ todo' = IF Creates(Message.method)
                               THEN todo \cup {[protocol |-> o.protocol, version |-> o.version,
                                                seq |-> Message.seq]}
                               ELSE todo
                  /\ UNCHANGED <<s2c, sError>>
    BY <1>9 DEF ServerCalled
  <2>3. /\ o.id \in Nat
        /\ o.protocol \in Protocols
        /\ o.version \in Nat
    BY DEF Addressed, ServerObject
  <2>4. Message.method \in AllRequests /\ Message.seq \in Nat
    BY <1>9, <2>1 DEF ServerCalled, ClientMessage, Hello, Invalid
  <2>5. s2c' \in Seq(ServerMessage)
    BY <2>2, <2>3, ServerMessages, ServerSendsOneType DEF ServerRaises
  <2>6. sCall' \in [id : Nat, method : AllRequests \cup {"bind", "none"}]
    BY <2>2, <2>3, <2>4
  <2>7. todo' \subseteq Todo
    BY <2>2, <2>3, <2>4 DEF Todo
  <2> QED
    BY <1>9, <2>1, <2>5, <2>6, <2>7 DEF ServerCalled
<1>10. CASE ServerRejects
  <2>1. Message \in ClientMessage /\ Tail(sBatch) \in Seq(ClientMessage)
    BY <1>10, MessageType DEF ServerRejects
  <2>2. s2c' \in Seq(ServerMessage)
    BY <1>10, ServerMessages, ServerSendsOneType DEF ServerRejects, ServerRaises
  <2> QED
    BY <1>10, <2>1, <2>2 DEF ServerRejects
<1>11. CASE ServerListenerReturns
  <2>1. sObjects' \subseteq ServerObject
    BY <1>11 DEF ServerListenerReturns, WithoutObject
  <2>2. sCall' \in [id : Nat, method : AllRequests \cup {"bind", "none"}]
    BY <1>11 DEF ServerListenerReturns, NoCall
  <2> QED
    BY <1>11, <2>1, <2>2 DEF ServerListenerReturns
<1>12. CASE ServerFinishesBatch
  <2> DEFINE done == IF scheduledRoundtrip > 0 THEN <<RoundtripDone(scheduledRoundtrip)>> ELSE <<>>
  <2>1. RoundtripDone(scheduledRoundtrip) \in ServerMessage
    BY ServerMessages
  <2>2. done \in Seq(ServerMessage)
    BY <2>1
  <2>3. s2c' \in Seq(ServerMessage)
    BY <1>12, <2>2, ServerSendsType DEF ServerFinishesBatch
  <2> QED
    BY <1>12, <2>3 DEF ServerFinishesBatch
<1>13. CASE ServerReaps
  BY <1>13 DEF ServerReaps, DropClient
<1>14. CASE ServerCreates
  <2>1. PICK t \in todo : /\ CreateObject(t.protocol, t.version, t.seq)
                         /\ todo' = todo \ {t}
    BY <1>14 DEF ServerCreates
  <2>2. t.protocol \in Protocols /\ t.version \in Nat /\ t.seq \in Nat
    BY DEF Todo
  <2>3. /\ maxId' \in Nat \ {0}
        /\ sObjects' \subseteq ServerObject
        /\ s2c' \in Seq(ServerMessage)
    BY <2>1, <2>2, CreateObjectType
  <2> QED
    BY <1>14, <2>1, <2>3 DEF ServerCreates
<1>15. CASE ServerEmits
  <2>1. PICK o \in sObjects, m \in Events :
           IF Since(m) > o.version
             THEN ServerRaises(o.id) /\ UNCHANGED sObjects
             ELSE /\ ServerSends(<<Generic(o.id, m, 0)>>)
                  /\ sObjects' = (sObjects \ {o}) \cup
                       {[o EXCEPT !.destroyed = IsDestructor(m)]}
    BY <1>15 DEF ServerEmits, Granted
  <2>2. o.id \in Nat /\ m \in AllEvents
    BY MethodsAssumption DEF ServerObject
  <2>3. s2c' \in Seq(ServerMessage)
    BY <2>1, <2>2, ServerMessages, ServerSendsOneType DEF ServerRaises
  <2>4. [o EXCEPT !.destroyed = IsDestructor(m)] \in ServerObject
    <3>1. IsDestructor(m) \in BOOLEAN
      BY SMT DEF IsDestructor
    <3> QED
      BY <3>1 DEF ServerObject
  <2>5. sObjects' \subseteq ServerObject
    BY <2>1, <2>4
  <2> QED
    BY <1>15, <2>3, <2>5 DEF ServerEmits, Granted
<1>16. CASE ServerDeclaresError
  <2>1. PICK o \in sObjects : ServerRaises(o.id)
    BY <1>16 DEF ServerDeclaresError, Granted
  <2>2. FatalError(o.id) \in ServerMessage
    BY ServerMessages DEF ServerObject
  <2>3. s2c' \in Seq(ServerMessage)
    BY <2>1, <2>2, ServerSendsOneType DEF ServerRaises
  <2> QED
    BY <1>16, <2>3 DEF ServerDeclaresError, Granted
<1>17. CASE ServerRemovesClient
  BY <1>17 DEF ServerRemovesClient, DropClient
<1> QED
  BY <1>1, <1>2, <1>3, <1>4, <1>5, <1>6, <1>7, <1>8, <1>9, <1>10, <1>11, <1>12, <1>13, <1>14, <1>15, <1>16, <1>17
     DEF ServerSteps, ServerDispatches, ServerHandles

\* Every step of the server's side keeps the types of its state and of the
\* socket.
THEOREM ServerStepType ==
    ASSUME WireTypeOK, ServerTypeOK, ServerSteps
    PROVE  WireTypeOK' /\ ServerTypeOK'
<1>1. ServerFlagsOK'
  BY ServerStepFlags, ServerTypeOKParts
<1>2. ServerDataOK'
  BY ServerStepData
<1> QED
  BY <1>1, <1>2 DEF WireTypeOK, ServerTypeOK, ServerFlagsOK, ServerDataOK

-----------------------------------------------------------------------------
(* What a step of the server's may take from the wire and put on it.  The  *)
(* invariants of a connection are proved from these lemmas, not from the   *)
(* actions.                                                                *)

\* The messages on their way to the server, those of the batch included.
Going == Range(c2s) \cup Range(sBatch)

\* The message being parsed is one of them.
LEMMA MessageIsGoing ==
    ASSUME ServerTypeOK, ServerParses
    PROVE  /\ Message \in Going
           /\ Range(Tail(sBatch)) \subseteq Going
BY RangeSplits DEF ServerTypeOK, ServerParses, Message, Going

\* What goes to the server is what it may find on the wire.
LEMMA GoingIsTyped ==
    ASSUME WireTypeOK, ServerTypeOK
    PROVE  Going \subseteq ClientMessage
BY RangeIsTyped DEF WireTypeOK, ServerTypeOK, Going

\* The server only takes messages off the wire to it.
LEMMA ServerTakes ==
    ASSUME WireTypeOK, ServerTypeOK, ServerSteps
    PROVE  Going' \subseteq Going
<1> USE DEF sSessionVars, sObjectVars, sReadVars, wireVars
<1>1. CASE ServerReads
  <2>1. PICK n \in ReadLengths(c2s) : /\ sBatch' = SubSeq(c2s, 1, n)
                                      /\ c2s' = SubSeq(c2s, n + 1, Len(c2s))
    BY <1>1 DEF ServerReads
  <2> QED
    BY <2>1, RangeOfRead DEF Going, WireTypeOK
<1>2. CASE ServerHandles
  <2>1. ServerParses /\ c2s' = c2s
    BY <1>2 DEF ServerHandles, ServerHandlesHello, ServerHandlesAck, ServerHandlesBind,
       ServerHandlesRoundtrip, ServerHandlesUnknown, ServerIgnoresRequest, ServerCalled, ServerRejects
  <2>2. sBatch' = Tail(sBatch) \/ sBatch' = <<>>
    BY <1>2 DEF ServerHandles, ServerHandlesHello, ServerHandlesAck, ServerHandlesBind,
       ServerHandlesRoundtrip, ServerHandlesUnknown, ServerIgnoresRequest, ServerCalled, ServerRejects
  <2> QED
    BY <2>1, <2>2, MessageIsGoing, RangeOfShort DEF Going
<1>3. CASE ServerFinishesBatch
  BY <1>3, RangeOfShort DEF ServerFinishesBatch, Going
<1>4. CASE UNCHANGED <<c2s, sBatch>>
  BY <1>4 DEF Going
<1> QED
  BY <1>1, <1>2, <1>3, <1>4
     DEF ServerSteps, ServerDispatches, ServerSeesHangup, ServerListenerReturns, ServerReaps,
         ServerCreates, ServerEmits, ServerDeclaresError, ServerRemovesClient

\* A request that an object is made for: a bind, or one a listener was given.
Asked == {m \in Going : m.type = "BIND_PROTOCOL"} \cup todo

Made(r) == [id |-> maxId, seq |-> r.seq, protocol |-> r.protocol, version |-> r.version,
            destroyed |-> FALSE]

\* The step makes the object of request r and announces it, or refuses to.
MakesFor(r) ==
    /\ maxId' = maxId + 1
    /\ sObjects' = sObjects \cup {Made(r)}
    /\ \A m \in Range(s2c') :
         \/ m \in Range(s2c)
         \/ m = NewObject(r.seq, maxId) /\ r.protocol \in exposed
         \/ m.type = "FATAL"

\* The step makes no object and announces none.
KeepsObjects ==
    /\ maxId' = maxId
    /\ \/ sObjects' \subseteq sObjects
       \/ \E o \in sObjects, d \in BOOLEAN :
            sObjects' = (sObjects \ {o}) \cup {[o EXCEPT !.destroyed = d]}
    /\ \A m \in Range(s2c') : m \in Range(s2c) \/ m.type # "NEW_OBJECT"

\* createObject makes an object for the request it is given.
LEMMA CreateObjectMakes ==
    ASSUME WireTypeOK, ServerTypeOK, NEW r, r.protocol \in Protocols, r.version \in Nat,
           r.seq \in Nat, CreateObject(r.protocol, r.version, r.seq)
    PROVE  MakesFor(r)
<1>1. NewObject(r.seq, maxId) \in ServerMessage /\ FatalError(maxId) \in ServerMessage
  BY ServerMessages DEF ServerTypeOK
<1>2. <<NewObject(r.seq, maxId)>> \in Seq(ServerMessage) /\ <<FatalError(maxId)>> \in Seq(ServerMessage)
  BY <1>1
<1>3. ASSUME NEW m \in Range(s2c')
      PROVE  \/ m \in Range(s2c)
             \/ m = NewObject(r.seq, maxId) /\ r.protocol \in exposed
             \/ m.type = "FATAL"
  <2>1. CASE r.protocol \in Implemented \cap exposed /\ r.version <= ServerVer[r.protocol]
    <3>1. ServerSends(<<NewObject(r.seq, maxId)>>)
      BY <2>1 DEF CreateObject, Grants
    <3> QED
      BY <1>2, <2>1, <3>1, ServerSendsRange, RangeOfShort
  <2>2. CASE ~(r.protocol \in Implemented \cap exposed /\ r.version <= ServerVer[r.protocol])
    <3>1. ServerSends(<<FatalError(maxId)>>)
      BY <2>2 DEF CreateObject, Grants
    <3>2. m \in Range(s2c) \/ m = FatalError(maxId)
      BY <1>2, <3>1, ServerSendsRange, RangeOfShort
    <3> QED
      BY <3>2 DEF FatalError
  <2> QED
    BY <2>1, <2>2
<1> QED
  BY <1>3 DEF MakesFor, CreateObject, Made

\* A message of another kind announces nothing.
LEMMA SendsNoObject ==
    ASSUME WireTypeOK, NEW n \in ServerMessage, n.type # "NEW_OBJECT", ServerSends(<<n>>),
           NEW m \in Range(s2c')
    PROVE  m \in Range(s2c) \/ m.type # "NEW_OBJECT"
<1>1. <<n>> \in Seq(ServerMessage)
  OBVIOUS
<1> QED
  BY <1>1, ServerSendsRange, RangeOfShort

\* Every step of the server's either makes one object that was asked for or
\* makes none.
LEMMA ServerMakes ==
    ASSUME WireTypeOK, ServerTypeOK, ServerSteps
    PROVE  (\E r \in Asked : MakesFor(r)) \/ KeepsObjects
<1> USE DEF sSessionVars, sObjectVars, sReadVars, wireVars
<1>1. CASE ServerHandlesBind
  <2>1. /\ Message \in ClientMessage
        /\ Message \in Going
        /\ Message.type = "BIND_PROTOCOL"
        /\ CreateObject(Message.protocol, Message.version, Message.seq)
    BY <1>1, MessageType, MessageIsGoing DEF ServerHandlesBind
  <2>2. /\ Message.protocol \in Protocols
        /\ Message.version \in Nat
        /\ Message.seq \in Nat
    BY <2>1 DEF ClientMessage, Hello, Invalid
  <2>3. MakesFor(Message)
    BY <2>1, <2>2, CreateObjectMakes
  <2> QED
    BY <2>1, <2>3 DEF Asked
<1>2. CASE ServerCreates
  <2>1. PICK t \in todo : CreateObject(t.protocol, t.version, t.seq)
    BY <1>2 DEF ServerCreates
  <2>2. t.protocol \in Protocols /\ t.version \in Nat /\ t.seq \in Nat
    BY DEF ServerTypeOK, Todo
  <2>3. MakesFor(t)
    BY <2>1, <2>2, CreateObjectMakes
  <2> QED
    BY <2>3 DEF Asked
<1>3. CASE ServerHandlesHello
  <2>1. HandshakeBegin({HYPRWIRE_PROTOCOL_VER}) \in ServerMessage
    BY ServerMessages DEF HYPRWIRE_PROTOCOL_VER
  <2>2. ServerSends(<<HandshakeBegin({HYPRWIRE_PROTOCOL_VER})>>) /\ UNCHANGED <<maxId, sObjects>>
    BY <1>3 DEF ServerHandlesHello
  <2>3. HandshakeBegin({HYPRWIRE_PROTOCOL_VER}).type # "NEW_OBJECT"
    BY DEF HandshakeBegin
  <2> QED
    BY <2>1, <2>2, <2>3, SendsNoObject DEF KeepsObjects
<1>4. CASE ServerHandlesAck
  <2>1. HandshakeProtocols(exposed) \in ServerMessage
    BY ServerMessages DEF ServerTypeOK, Implemented
  <2>2. ServerSends(<<HandshakeProtocols(exposed)>>) /\ UNCHANGED <<maxId, sObjects>>
    BY <1>4 DEF ServerHandlesAck
  <2>3. HandshakeProtocols(exposed).type # "NEW_OBJECT"
    BY DEF HandshakeProtocols
  <2> QED
    BY <2>1, <2>2, <2>3, SendsNoObject DEF KeepsObjects
<1>5. ASSUME NEW i \in Nat, ServerRaises(i), UNCHANGED <<maxId, sObjects>>
      PROVE  KeepsObjects
  <2>1. FatalError(i) \in ServerMessage /\ FatalError(i).type # "NEW_OBJECT"
    BY ServerMessages DEF FatalError
  <2> QED
    BY <1>5, <2>1, SendsNoObject DEF KeepsObjects, ServerRaises
<1>6. CASE ServerHandlesUnknown
  <2>1. Message.object \in Nat
    BY <1>6, MessageType DEF ServerHandlesUnknown, ClientMessage, Hello, Invalid
  <2> QED
    BY <1>5, <1>6, <2>1 DEF ServerHandlesUnknown
<1>7. CASE ServerRejects
  BY <1>5, <1>7 DEF ServerRejects
<1>8. CASE ServerDeclaresError
  BY <1>5, <1>8 DEF ServerDeclaresError, ServerTypeOK, ServerObject, Granted
<1>9. CASE ServerCalled
  <2>1. PICK o \in sObjects : ServerRaises(o.id) \/ UNCHANGED s2c
    BY <1>9 DEF ServerCalled, Addressed
  <2>2. o.id \in Nat /\ UNCHANGED <<maxId, sObjects>>
    BY <1>9 DEF ServerCalled, ServerTypeOK, ServerObject
  <2> QED
    BY <1>5, <2>1, <2>2 DEF KeepsObjects
<1>10. CASE ServerEmits
  <2>1. PICK o \in sObjects, m \in Events :
           \/ ServerRaises(o.id) /\ UNCHANGED sObjects
           \/ /\ ServerSends(<<Generic(o.id, m, 0)>>)
              /\ sObjects' = (sObjects \ {o}) \cup {[o EXCEPT !.destroyed = IsDestructor(m)]}
    BY <1>10 DEF ServerEmits, Granted
  <2>2. o \in ServerObject /\ maxId' = maxId
    BY <1>10 DEF ServerEmits, ServerTypeOK, Granted
  <2>3. CASE ServerRaises(o.id) /\ UNCHANGED sObjects
    BY <1>5, <2>2, <2>3 DEF ServerObject
  <2>4. CASE /\ ServerSends(<<Generic(o.id, m, 0)>>)
             /\ sObjects' = (sObjects \ {o}) \cup {[o EXCEPT !.destroyed = IsDestructor(m)]}
    <3>1. Generic(o.id, m, 0) \in ServerMessage /\ Generic(o.id, m, 0).type # "NEW_OBJECT"
      BY <2>2, ServerMessages, MethodsAssumption DEF ServerObject, Generic
    <3>2. \A n \in Range(s2c') : n \in Range(s2c) \/ n.type # "NEW_OBJECT"
      BY <2>4, <3>1, SendsNoObject
    <3>3. IsDestructor(m) \in BOOLEAN
      BY DEF IsDestructor
    <3> QED
      BY <2>2, <2>4, <3>2, <3>3 DEF KeepsObjects
  <2> QED
    BY <2>1, <2>3, <2>4
<1>11. CASE ServerFinishesBatch
  <2> DEFINE done == IF scheduledRoundtrip > 0 THEN <<RoundtripDone(scheduledRoundtrip)>> ELSE <<>>
  <2>1. done \in Seq(ServerMessage)
    BY ServerMessages DEF ServerTypeOK
  <2>2. \A m \in Range(done) : m.type # "NEW_OBJECT"
    BY RangeOfShort DEF RoundtripDone
  <2>3. ServerSends(done) /\ UNCHANGED <<maxId, sObjects>>
    BY <1>11 DEF ServerFinishesBatch
  <2> HIDE DEF done
  <2> QED
    BY <2>1, <2>2, <2>3, ServerSendsRange DEF KeepsObjects
<1>12. CASE /\ UNCHANGED <<s2c, maxId>>
            /\ sObjects' \subseteq sObjects
  BY <1>12 DEF KeepsObjects
<1>13. CASE \/ ServerReads
            \/ ServerSeesHangup
            \/ ServerHandlesRoundtrip
            \/ ServerIgnoresRequest
            \/ ServerListenerReturns
            \/ ServerReaps
            \/ ServerRemovesClient
  BY <1>12, <1>13 DEF ServerReads, ServerSeesHangup, ServerHandlesRoundtrip, ServerIgnoresRequest,
     ServerListenerReturns, ServerReaps, ServerRemovesClient, DropClient, WithoutObject
<1> QED
  BY <1>1, <1>2, <1>3, <1>4, <1>6, <1>7, <1>8, <1>9, <1>10, <1>11, <1>13
     DEF ServerSteps, ServerDispatches, ServerHandles

\* An object that is kept keeps its name.
LEMMA KeptKeepTheirNames ==
    ASSUME ServerTypeOK, KeepsObjects
    PROVE  /\ \A o \in sObjects' : \E u \in sObjects :
                /\ o.id = u.id
                /\ o.seq = u.seq
                /\ o.protocol = u.protocol
                /\ o.version = u.version
           /\ (\A o, u \in sObjects : o.id = u.id => o = u)
                => \A o, u \in sObjects' : o.id = u.id => o = u
<1>1. CASE sObjects' \subseteq sObjects
  BY <1>1
<1>2. CASE \E w \in sObjects, d \in BOOLEAN :
             sObjects' = (sObjects \ {w}) \cup {[w EXCEPT !.destroyed = d]}
  <2>1. PICK w \in sObjects, d \in BOOLEAN :
           sObjects' = (sObjects \ {w}) \cup {[w EXCEPT !.destroyed = d]}
    BY <1>2
  <2> DEFINE x == [w EXCEPT !.destroyed = d]
  <2>2. w \in ServerObject
    BY DEF ServerTypeOK
  <2>3. x.id = w.id /\ x.seq = w.seq /\ x.protocol = w.protocol /\ x.version = w.version
    BY <2>2 DEF ServerObject
  <2>4. sObjects' = (sObjects \ {w}) \cup {x}
    BY <2>1
  <2> HIDE DEF x
  <2> QED
    BY <2>3, <2>4
<1> QED
  BY <1>1, <1>2 DEF KeepsObjects

\* A listener is given a request for an object only by a message that asks the
\* object it is for.
LEMMA ServerIsAsked ==
    ASSUME ServerTypeOK, ServerSteps, NEW t \in todo'
    PROVE  \/ t \in todo
           \/ \E o \in sObjects, m \in Going :
                /\ m.type = "GENERIC"
                /\ Creates(m.method)
                /\ m.object = o.id
                /\ t = [protocol |-> o.protocol, version |-> o.version, seq |-> m.seq]
<1>1. CASE ServerCalled
  <2>1. PICK o \in Addressed(Message.object) :
           \/ UNCHANGED todo
           \/ /\ Creates(Message.method)
              /\ todo' = todo \cup {[protocol |-> o.protocol, version |-> o.version,
                                     seq |-> Message.seq]}
    BY <1>1 DEF ServerCalled
  <2>2. Message \in Going /\ Message.type = "GENERIC"
    BY <1>1, MessageIsGoing DEF ServerCalled
  <2> QED
    BY <2>1, <2>2 DEF Addressed
<1>2. CASE todo' \subseteq todo
  BY <1>2
<1> QED
  BY <1>1, <1>2
     DEF ServerSteps, ServerDispatches, ServerHandles, ServerReads, ServerSeesHangup,
         ServerHandlesHello, ServerHandlesAck, ServerHandlesBind, ServerHandlesRoundtrip,
         ServerHandlesUnknown, ServerIgnoresRequest, ServerRejects, ServerListenerReturns,
         ServerFinishesBatch, ServerReaps, ServerCreates, ServerEmits, ServerDeclaresError,
         ServerRemovesClient, DropClient

-----------------------------------------------------------------------------
(* The handshake *)

\* What is exposed is decided once, and the version is one a client chose.
LEMMA ServerSession ==
    ASSUME ServerTypeOK, ServerSteps
    PROVE  /\ firstPollDone => firstPollDone' /\ exposed' = exposed
           /\ \/ version' = version
              \/ \E a \in Going : a.type = "HANDSHAKE_ACK" /\ version' = a.version
           /\ firstPollDone' \/ exposed' = exposed
<1>1. CASE ServerHandlesHello
  BY <1>1 DEF ServerHandlesHello
<1>2. CASE ServerHandlesAck
  BY <1>2, MessageIsGoing DEF ServerHandlesAck
<1>3. CASE UNCHANGED sSessionVars
  BY <1>3 DEF sSessionVars
<1> QED
  BY <1>1, <1>2, <1>3
     DEF ServerSteps, ServerDispatches, ServerHandles, ServerReads, ServerSeesHangup,
         ServerHandlesBind, ServerHandlesRoundtrip,
         ServerHandlesUnknown, ServerIgnoresRequest, ServerCalled, ServerRejects, ServerListenerReturns,
         ServerFinishesBatch, ServerReaps, ServerCreates, ServerEmits, ServerDeclaresError,
         ServerRemovesClient

\* The server begins the handshake when it knows what to expose, and lists that
\* to a client that has chosen a version.
LEMMA ServerShakesHands ==
    ASSUME WireTypeOK, ServerTypeOK, ServerSteps, NEW m \in Range(s2c'), m \notin Range(s2c)
    PROVE  /\ m.type = "HANDSHAKE_BEGIN" => firstPollDone'
           /\ m.type = "HANDSHAKE_PROTOCOLS" =>
                /\ m.protocols = exposed
                /\ exposed' = exposed
                /\ \E a \in Going : a.type = "HANDSHAKE_ACK" /\ version' = a.version
<1> USE DEF sSessionVars, sObjectVars, sReadVars, wireVars
<1>1. CASE ServerHandlesHello
  <2>1. HandshakeBegin({HYPRWIRE_PROTOCOL_VER}) \in ServerMessage
    BY ServerMessages DEF HYPRWIRE_PROTOCOL_VER
  <2>2. <<HandshakeBegin({HYPRWIRE_PROTOCOL_VER})>> \in Seq(ServerMessage)
    BY <2>1
  <2>3. m = HandshakeBegin({HYPRWIRE_PROTOCOL_VER})
    BY <1>1, <2>2, ServerSendsRange, RangeOfShort DEF ServerHandlesHello
  <2> QED
    BY <1>1, <2>3 DEF ServerHandlesHello, HandshakeBegin
<1>2. CASE ServerHandlesAck
  <2>1. HandshakeProtocols(exposed) \in ServerMessage
    BY ServerMessages DEF ServerTypeOK, Implemented
  <2>2. <<HandshakeProtocols(exposed)>> \in Seq(ServerMessage)
    BY <2>1
  <2>3. m = HandshakeProtocols(exposed)
    BY <1>2, <2>2, ServerSendsRange, RangeOfShort DEF ServerHandlesAck
  <2> QED
    BY <1>2, <2>3, MessageIsGoing DEF ServerHandlesAck, HandshakeProtocols
<1>3. ASSUME NEW n \in ServerMessage, ServerSends(<<n>>),
             n.type \notin {"HANDSHAKE_BEGIN", "HANDSHAKE_PROTOCOLS"}
      PROVE  m.type \notin {"HANDSHAKE_BEGIN", "HANDSHAKE_PROTOCOLS"}
  <2>1. <<n>> \in Seq(ServerMessage)
    OBVIOUS
  <2> QED
    BY <1>3, <2>1, ServerSendsRange, RangeOfShort
<1>4. ASSUME NEW r, r.protocol \in Protocols, r.version \in Nat, r.seq \in Nat,
             CreateObject(r.protocol, r.version, r.seq)
      PROVE  m.type \notin {"HANDSHAKE_BEGIN", "HANDSHAKE_PROTOCOLS"}
  <2>1. m = NewObject(r.seq, maxId) \/ m.type = "FATAL"
    BY <1>4, CreateObjectMakes DEF MakesFor
  <2> QED
    BY <2>1 DEF NewObject
<1>5. CASE ServerHandlesBind
  <2>1. /\ Message.protocol \in Protocols
        /\ Message.version \in Nat
        /\ Message.seq \in Nat
        /\ CreateObject(Message.protocol, Message.version, Message.seq)
    BY <1>5, MessageType DEF ServerHandlesBind, ClientMessage, Hello, Invalid
  <2> QED
    BY <1>4, <2>1
<1>6. CASE ServerCreates
  <2>1. PICK t \in todo : CreateObject(t.protocol, t.version, t.seq)
    BY <1>6 DEF ServerCreates
  <2>2. t.protocol \in Protocols /\ t.version \in Nat /\ t.seq \in Nat
    BY DEF ServerTypeOK, Todo
  <2> QED
    BY <1>4, <2>1, <2>2
<1>7. ASSUME NEW i \in Nat, ServerRaises(i)
      PROVE  m.type \notin {"HANDSHAKE_BEGIN", "HANDSHAKE_PROTOCOLS"}
  BY <1>3, <1>7, ServerMessages DEF ServerRaises, FatalError
<1>8. CASE ServerHandlesUnknown
  <2>1. Message.object \in Nat
    BY <1>8, MessageType DEF ServerHandlesUnknown, ClientMessage, Hello, Invalid
  <2> QED
    BY <1>7, <1>8, <2>1 DEF ServerHandlesUnknown
<1>9. CASE ServerRejects
  BY <1>7, <1>9 DEF ServerRejects
<1>10. CASE ServerDeclaresError
  BY <1>7, <1>10 DEF ServerDeclaresError, ServerTypeOK, ServerObject, Granted
<1>11. CASE ServerCalled
  <2>1. PICK o \in sObjects : ServerRaises(o.id) \/ UNCHANGED s2c
    BY <1>11 DEF ServerCalled, Addressed
  <2> QED
    BY <1>7, <2>1 DEF ServerTypeOK, ServerObject
<1>12. CASE ServerEmits
  <2>1. PICK o \in sObjects, e \in Events :
           ServerRaises(o.id) \/ ServerSends(<<Generic(o.id, e, 0)>>)
    BY <1>12 DEF ServerEmits, Granted
  <2>2. o.id \in Nat
    BY DEF ServerTypeOK, ServerObject
  <2>3. Generic(o.id, e, 0) \in ServerMessage /\ Generic(o.id, e, 0).type = "GENERIC"
    BY <2>2, ServerMessages, MethodsAssumption DEF Generic
  <2> QED
    BY <1>3, <1>7, <2>1, <2>2, <2>3
<1>13. CASE ServerFinishesBatch
  <2> DEFINE done == IF scheduledRoundtrip > 0 THEN <<RoundtripDone(scheduledRoundtrip)>> ELSE <<>>
  <2>1. done \in Seq(ServerMessage)
    BY ServerMessages DEF ServerTypeOK
  <2>2. \A n \in Range(done) : n.type = "ROUNDTRIP_DONE"
    BY RangeOfShort DEF RoundtripDone
  <2>3. ServerSends(done)
    BY <1>13 DEF ServerFinishesBatch
  <2> HIDE DEF done
  <2>4. m.type = "ROUNDTRIP_DONE"
    BY <2>1, <2>2, <2>3, ServerSendsRange
  <2> QED
    BY <2>4
<1>14. CASE UNCHANGED s2c
  BY <1>14
<1> QED
  BY <1>1, <1>2, <1>5, <1>6, <1>8, <1>9, <1>10, <1>11, <1>12, <1>13, <1>14
     DEF ServerSteps, ServerDispatches, ServerHandles, ServerReads, ServerSeesHangup,
         ServerHandlesRoundtrip, ServerIgnoresRequest, ServerListenerReturns,
         ServerReaps, ServerRemovesClient, DropClient

-----------------------------------------------------------------------------
(* Errors *)

\* What is written stays written, and is on its way if the client is there.
LEMMA SendsOne ==
    ASSUME WireTypeOK, NEW n \in ServerMessage, ServerSends(<<n>>)
    PROVE  /\ Range(s2c) \subseteq Range(s2c')
           /\ clientOpen /\ serverOpen => n \in Range(s2c')
<1>1. <<n>> \in Seq(ServerMessage)
  OBVIOUS
<1> QED
  BY <1>1, ServerSendsRange, RangeOfShort

\* The server takes nothing back that it wrote, and what it holds against a
\* client is that the client hung up or an error it tells it of.
LEMMA ServerTells ==
    ASSUME WireTypeOK, ServerTypeOK, ServerSteps
    PROVE  /\ Range(s2c) \subseteq Range(s2c')
           /\ clientOpen' = clientOpen
           /\ sHup' => sHup \/ ~clientOpen
           /\ sError' => \/ sError
                         \/ sHup
                         \/ ~clientOpen
                         \/ \E m \in Range(s2c') : m.type = "FATAL"
<1> USE DEF sSessionVars, sObjectVars, sReadVars, wireVars
<1> DEFINE Told == \E m \in Range(s2c') : m.type = "FATAL"
           Goal == /\ Range(s2c) \subseteq Range(s2c')
                   /\ sError' => sError \/ sHup \/ ~clientOpen \/ Told
<1>1. clientOpen' = clientOpen
  BY DEF ServerSteps, ServerDispatches, ServerHandles, ServerReads, ServerSeesHangup,
         ServerHandlesHello, ServerHandlesAck, ServerHandlesBind, ServerHandlesRoundtrip,
         ServerHandlesUnknown, ServerIgnoresRequest, ServerCalled, ServerRejects, ServerListenerReturns,
         ServerFinishesBatch, ServerReaps, ServerCreates, ServerEmits, ServerDeclaresError,
         ServerRemovesClient, DropClient
<1>2. sHup' => sHup \/ ~clientOpen
  BY DEF ServerSteps, ServerDispatches, ServerHandles, ServerReads, ServerSeesHangup,
         ServerHandlesHello, ServerHandlesAck, ServerHandlesBind, ServerHandlesRoundtrip,
         ServerHandlesUnknown, ServerIgnoresRequest, ServerCalled, ServerRejects, ServerListenerReturns,
         ServerFinishesBatch, ServerReaps, ServerCreates, ServerEmits, ServerDeclaresError,
         ServerRemovesClient
<1>3. serverOpen
  BY DEF ServerSteps, ServerDispatches, ServerHandles, ServerReads, ServerSeesHangup,
         ServerHandlesHello, ServerHandlesAck, ServerHandlesBind, ServerHandlesRoundtrip,
         ServerHandlesUnknown, ServerIgnoresRequest, ServerCalled, ServerRejects, ServerListenerReturns,
         ServerFinishesBatch, ServerReaps, ServerCreates, ServerEmits, ServerDeclaresError,
         ServerRemovesClient, ServerParses, ServerAppMayAct
<1> SUFFICES Goal
  BY <1>1, <1>2
<1>4. ASSUME NEW i \in Nat, ServerRaises(i)
      PROVE  Goal
  <2>1. FatalError(i) \in ServerMessage /\ FatalError(i).type = "FATAL"
    BY ServerMessages DEF FatalError
  <2> QED
    BY <1>3, <1>4, <2>1, SendsOne DEF ServerRaises
<1>5. ASSUME NEW n \in ServerMessage, ServerSends(<<n>>), sError' = sError
      PROVE  Goal
  BY <1>5, SendsOne
<1>6. ASSUME NEW p, NEW v, NEW q \in Nat, CreateObject(p, v, q)
      PROVE  Goal
  <2>1. NewObject(q, maxId) \in ServerMessage /\ maxId \in Nat
    BY ServerMessages DEF ServerTypeOK
  <2>2. \/ ServerSends(<<NewObject(q, maxId)>>) /\ sError' = sError
        \/ ServerRaises(maxId)
    BY <1>6 DEF CreateObject, ServerRaises
  <2> QED
    BY <1>4, <1>5, <2>1, <2>2
<1>7. CASE ServerHandlesBind
  <2>1. Message.seq \in Nat
    BY <1>7, MessageType DEF ServerHandlesBind, ClientMessage, Hello, Invalid
  <2> QED
    BY <1>6, <1>7, <2>1 DEF ServerHandlesBind
<1>8. CASE ServerCreates
  <2>1. PICK t \in todo : CreateObject(t.protocol, t.version, t.seq)
    BY <1>8 DEF ServerCreates
  <2> QED
    BY <1>6, <2>1 DEF ServerTypeOK, Todo
<1>9. CASE ServerHandlesHello
  BY <1>5, <1>9, ServerMessages DEF ServerHandlesHello, HYPRWIRE_PROTOCOL_VER
<1>10. CASE ServerHandlesAck
  BY <1>5, <1>10, ServerMessages DEF ServerHandlesAck, ServerTypeOK, Implemented
<1>11. CASE ServerHandlesUnknown
  <2>1. Message.object \in Nat
    BY <1>11, MessageType DEF ServerHandlesUnknown, ClientMessage, Hello, Invalid
  <2> QED
    BY <1>4, <1>11, <2>1 DEF ServerHandlesUnknown
<1>12. CASE ServerRejects
  BY <1>4, <1>12 DEF ServerRejects
<1>13. CASE ServerDeclaresError
  BY <1>4, <1>13 DEF ServerDeclaresError, ServerTypeOK, ServerObject, Granted
<1>14. CASE ServerCalled
  <2>1. PICK o \in sObjects : ServerRaises(o.id) \/ UNCHANGED <<s2c, sError>>
    BY <1>14 DEF ServerCalled, Addressed
  <2> QED
    BY <1>4, <2>1 DEF ServerTypeOK, ServerObject
<1>15. CASE ServerEmits
  <2>1. PICK o \in sObjects, e \in Events :
           \/ ServerRaises(o.id)
           \/ ServerSends(<<Generic(o.id, e, 0)>>) /\ sError' = sError
    BY <1>15 DEF ServerEmits, Granted
  <2>2. o.id \in Nat
    BY DEF ServerTypeOK, ServerObject
  <2>3. Generic(o.id, e, 0) \in ServerMessage
    BY <2>2, ServerMessages, MethodsAssumption
  <2> QED
    BY <1>4, <1>5, <2>1, <2>2, <2>3
<1>16. CASE ServerFinishesBatch
  <2> DEFINE done == IF scheduledRoundtrip > 0 THEN <<RoundtripDone(scheduledRoundtrip)>> ELSE <<>>
  <2>1. done \in Seq(ServerMessage)
    BY ServerMessages DEF ServerTypeOK
  <2>2. ServerSends(done)
    BY <1>16 DEF ServerFinishesBatch
  <2> HIDE DEF done
  <2>3. Range(s2c) \subseteq Range(s2c')
    BY <2>1, <2>2, ServerSendsRange
  <2> QED
    BY <1>16, <2>3 DEF ServerFinishesBatch
<1>17. CASE UNCHANGED s2c /\ (sError' => sError \/ ~clientOpen)
  BY <1>17
<1>18. CASE \/ ServerReads
            \/ ServerSeesHangup
            \/ ServerHandlesRoundtrip
            \/ ServerIgnoresRequest
            \/ ServerListenerReturns
            \/ ServerReaps
            \/ ServerRemovesClient
  <2>1. UNCHANGED s2c /\ (UNCHANGED sError \/ ~clientOpen)
    BY <1>18 DEF ServerReads, ServerSeesHangup, ServerHandlesRoundtrip, ServerIgnoresRequest,
       ServerListenerReturns, ServerReaps, ServerRemovesClient
  <2> QED
    BY <1>17, <2>1, Zenon
<1> HIDE DEF Goal
<1> QED
  BY <1>7, <1>8, <1>9, <1>10, <1>11, <1>12, <1>13, <1>14, <1>15, <1>16, <1>18
     DEF ServerSteps, ServerDispatches, ServerHandles

-----------------------------------------------------------------------------
(* Requests for objects *)

\* The seqs the server has yet to answer.
SeqsTodo == {t.seq : t \in todo}
Awaited  == SeqsAsked(c2s) \cup SeqsAsked(sBatch) \cup SeqsTodo

\* No object is asked for twice.
AskedOnce ==
    /\ AsksOnce(c2s)
    /\ AsksOnce(sBatch)
    /\ \A t, u \in todo : t.seq = u.seq => t = u
    /\ SeqsAsked(c2s) \cap SeqsAsked(sBatch) = {}
    /\ SeqsAsked(c2s) \cap SeqsTodo = {}
    /\ SeqsAsked(sBatch) \cap SeqsTodo = {}

\* An empty batch asks for nothing.
LEMMA EmptyAsksNothing == AsksOnce(<<>>) /\ SeqsAsked(<<>>) = {}
<1>1. <<>> \in Seq({})
  OBVIOUS
<1> QED
  BY <1>1, RangeOfShort, SilentAsksNothing

\* The server loses track of no request: the object it makes was asked for once
\* and is asked for no more.
LEMMA ServerAnswersOnce ==
    ASSUME WireTypeOK, ServerTypeOK, ServerSteps, AskedOnce
    PROVE  /\ AskedOnce'
           /\ Awaited' \subseteq Awaited
           /\ \/ \E r \in Asked : MakesFor(r) /\ r.seq \in Awaited /\ r.seq \notin Awaited'
              \/ KeepsObjects
<1> USE DEF sSessionVars, sObjectVars, sReadVars, wireVars
<1> DEFINE Goal == /\ AskedOnce'
                   /\ Awaited' \subseteq Awaited
                   /\ \/ \E r \in Asked : MakesFor(r) /\ r.seq \in Awaited /\ r.seq \notin Awaited'
                      \/ KeepsObjects
<1> SUFFICES Goal
  OBVIOUS
<1>1. maxId' = maxId => KeepsObjects
  BY ServerMakes DEF MakesFor, ServerTypeOK
<1>2. ASSUME c2s' = c2s, sBatch # <<>>, sBatch' = Tail(sBatch), todo' = todo
      PROVE  /\ AskedOnce'
             /\ Awaited' \subseteq Awaited
             /\ AsksFor(Head(sBatch)) => /\ Head(sBatch).seq \in Awaited
                                         /\ Head(sBatch).seq \notin Awaited'
  <2>1. /\ AsksOnce(sBatch')
        /\ SeqsAsked(sBatch') \subseteq SeqsAsked(sBatch)
        /\ AsksFor(Head(sBatch)) =>
             /\ Head(sBatch).seq \in SeqsAsked(sBatch)
             /\ Head(sBatch).seq \notin SeqsAsked(sBatch')
    BY <1>2, AsksOnceTail DEF AskedOnce, ServerTypeOK
  <2>2. SeqsTodo' = SeqsTodo /\ SeqsAsked(c2s)' = SeqsAsked(c2s) /\ AsksOnce(c2s)'
    BY <1>2 DEF SeqsTodo, AskedOnce
  <2>3. AskedOnce'
    BY <1>2, <2>1, <2>2 DEF AskedOnce
  <2>4. Awaited' \subseteq Awaited
    BY <2>1, <2>2 DEF Awaited
  <2> QED
    BY <2>1, <2>2, <2>3, <2>4 DEF Awaited, AskedOnce
<1>3. ASSUME c2s' = c2s, sBatch' = sBatch \/ sBatch' = <<>>, todo' \subseteq todo
      PROVE  AskedOnce' /\ Awaited' \subseteq Awaited
  <2>1. /\ AsksOnce(sBatch')
        /\ SeqsAsked(sBatch') \subseteq SeqsAsked(sBatch)
    BY <1>3, EmptyAsksNothing DEF AskedOnce
  <2>2. SeqsTodo' \subseteq SeqsTodo
    BY <1>3 DEF SeqsTodo
  <2>3. SeqsAsked(c2s)' = SeqsAsked(c2s) /\ AsksOnce(c2s)'
    BY <1>3 DEF AskedOnce
  <2> QED
    BY <1>3, <2>1, <2>2, <2>3 DEF AskedOnce, Awaited
<1>4. CASE ServerReads
  <2>1. PICK n \in ReadLengths(c2s) : /\ sBatch' = SubSeq(c2s, 1, n)
                                      /\ c2s' = SubSeq(c2s, n + 1, Len(c2s))
    BY <1>4 DEF ServerReads
  <2>2. /\ AsksOnce(sBatch')
        /\ AsksOnce(c2s')
        /\ SeqsAsked(sBatch') \cap SeqsAsked(c2s') = {}
        /\ SeqsAsked(c2s) = SeqsAsked(sBatch') \cup SeqsAsked(c2s')
    BY <2>1, AsksOnceRead DEF WireTypeOK, AskedOnce
  <2>3. todo' = todo /\ SeqsTodo' = SeqsTodo /\ maxId' = maxId
    BY <1>4 DEF ServerReads, SeqsTodo
  <2>4. AskedOnce'
    BY <2>2, <2>3 DEF AskedOnce
  <2>5. Awaited' \subseteq Awaited
    BY <2>2, <2>3 DEF Awaited
  <2> QED
    BY <1>1, <2>3, <2>4, <2>5
<1>5. CASE ServerHandlesBind
  <2>1. /\ Message \in ClientMessage
        /\ Message \in Going
        /\ Message.type = "BIND_PROTOCOL"
        /\ CreateObject(Message.protocol, Message.version, Message.seq)
        /\ c2s' = c2s
        /\ sBatch # <<>>
        /\ sBatch' = Tail(sBatch)
        /\ todo' = todo
    BY <1>5, MessageType, MessageIsGoing DEF ServerHandlesBind, ServerParses
  <2>2. /\ Message.protocol \in Protocols
        /\ Message.version \in Nat
        /\ Message.seq \in Nat
    BY <2>1 DEF ClientMessage, Hello, Invalid
  <2>3. MakesFor(Message) /\ Message \in Asked
    BY <2>1, <2>2, CreateObjectMakes DEF Asked
  <2>4. AsksFor(Message)
    BY <2>1 DEF AsksFor
  <2> QED
    BY <1>2, <2>1, <2>3, <2>4 DEF Message
<1>6. CASE ServerCreates
  <2>1. PICK t \in todo : CreateObject(t.protocol, t.version, t.seq) /\ todo' = todo \ {t}
    BY <1>6 DEF ServerCreates
  <2>2. t.protocol \in Protocols /\ t.version \in Nat /\ t.seq \in Nat
    BY DEF ServerTypeOK, Todo
  <2>3. MakesFor(t) /\ t \in Asked
    BY <2>1, <2>2, CreateObjectMakes DEF Asked
  <2>4. AskedOnce' /\ Awaited' \subseteq Awaited /\ c2s' = c2s /\ sBatch' = sBatch
    BY <1>3, <1>6, <2>1 DEF ServerCreates
  <2>5. t.seq \in SeqsTodo /\ t.seq \notin SeqsTodo'
    BY <2>1 DEF SeqsTodo, AskedOnce
  <2>6. t.seq \in Awaited /\ t.seq \notin Awaited'
    BY <2>4, <2>5 DEF Awaited, AskedOnce
  <2> QED
    BY <2>3, <2>4, <2>6
<1>7. CASE ServerCalled
  <2>1. PICK o \in Addressed(Message.object) :
           \/ UNCHANGED todo
           \/ /\ Creates(Message.method)
              /\ todo' = todo \cup {[protocol |-> o.protocol, version |-> o.version,
                                     seq |-> Message.seq]}
    BY <1>7 DEF ServerCalled
  <2>2. /\ Message.type = "GENERIC"
        /\ c2s' = c2s
        /\ sBatch # <<>>
        /\ sBatch' = Tail(sBatch)
        /\ maxId' = maxId
    BY <1>7 DEF ServerCalled, ServerParses
  <2>3. CASE UNCHANGED todo
    BY <1>1, <1>2, <2>2, <2>3
  <2>4. CASE /\ Creates(Message.method)
             /\ todo' = todo \cup {[protocol |-> o.protocol, version |-> o.version,
                                    seq |-> Message.seq]}
    <3>1. AsksFor(Message)
      BY <2>2, <2>4 DEF AsksFor
    <3>2. /\ AsksOnce(sBatch')
          /\ SeqsAsked(sBatch') \subseteq SeqsAsked(sBatch)
          /\ Message.seq \in SeqsAsked(sBatch)
          /\ Message.seq \notin SeqsAsked(sBatch')
      BY <2>2, <3>1, AsksOnceTail DEF AskedOnce, ServerTypeOK, Message
    <3>3. SeqsTodo' = SeqsTodo \cup {Message.seq}
      <4>1. PICK x : todo' = todo \cup {x} /\ x.seq = Message.seq
        <5> DEFINE x == [protocol |-> o.protocol, version |-> o.version, seq |-> Message.seq]
        <5>1. todo' = todo \cup {x} /\ x.seq = Message.seq
          BY <2>4
        <5> HIDE DEF x
        <5> QED
          BY <5>1
      <4>2. \A t : t \in todo' <=> t \in todo \/ t = x
        BY <4>1
      <4> QED
        BY <4>1, <4>2 DEF SeqsTodo
    <3>4. Message.seq \notin SeqsTodo /\ Message.seq \notin SeqsAsked(c2s)
      BY <3>2 DEF AskedOnce
    <3>5. \A t, u \in todo' : t.seq = u.seq => t = u
      BY <2>4, <3>4 DEF AskedOnce, SeqsTodo
    <3>6. AskedOnce'
      BY <2>2, <3>2, <3>3, <3>4, <3>5 DEF AskedOnce
    <3>7. Awaited' \subseteq Awaited
      BY <2>2, <3>2, <3>3 DEF Awaited
    <3> QED
      BY <1>1, <2>2, <3>6, <3>7
  <2> QED
    BY <2>1, <2>3, <2>4
<1>8. CASE \/ ServerHandlesHello
           \/ ServerHandlesAck
           \/ ServerHandlesRoundtrip
           \/ ServerHandlesUnknown
           \/ ServerIgnoresRequest
  <2>1. /\ c2s' = c2s
        /\ sBatch # <<>>
        /\ sBatch' = Tail(sBatch)
        /\ todo' = todo
        /\ maxId' = maxId
    BY <1>8 DEF ServerHandlesHello, ServerHandlesAck, ServerHandlesRoundtrip,
       ServerHandlesUnknown, ServerIgnoresRequest, ServerParses
  <2> QED
    BY <1>1, <1>2, <2>1
<1>9. CASE \/ ServerRejects
           \/ ServerFinishesBatch
           \/ ServerSeesHangup
           \/ ServerListenerReturns
           \/ ServerReaps
           \/ ServerEmits
           \/ ServerDeclaresError
           \/ ServerRemovesClient
  <2>1. /\ c2s' = c2s
        /\ sBatch' = sBatch \/ sBatch' = <<>>
        /\ todo' \subseteq todo
        /\ maxId' = maxId
    BY <1>9 DEF ServerRejects, ServerFinishesBatch, ServerSeesHangup, ServerListenerReturns,
       ServerReaps, ServerEmits, ServerDeclaresError, ServerRemovesClient, DropClient
  <2> QED
    BY <1>1, <1>3, <2>1
<1> HIDE DEF Goal
<1> QED
  BY <1>4, <1>5, <1>6, <1>7, <1>8, <1>9 DEF ServerSteps, ServerDispatches, ServerHandles

-----------------------------------------------------------------------------
(* Destructors, and what becomes of the objects *)

\* An event is one of the application's, of an object the application has.
LEMMA ServerEventsAreOwn ==
    ASSUME WireTypeOK, ServerTypeOK, ServerSteps, NEW m \in Range(s2c'), m \notin Range(s2c),
           m.type = "GENERIC"
    PROVE  \E o \in Granted : m.object = o.id /\ m.method \in Events
<1> USE DEF sSessionVars, sObjectVars, sReadVars, wireVars
<1> DEFINE Goal == \E o \in Granted : m.object = o.id /\ m.method \in Events
<1> SUFFICES Goal
  OBVIOUS
<1>1. ASSUME NEW n \in ServerMessage, ServerSends(<<n>>), n.type # "GENERIC"
      PROVE  FALSE
  <2>1. <<n>> \in Seq(ServerMessage)
    OBVIOUS
  <2> QED
    BY <1>1, <2>1, ServerSendsRange, RangeOfShort
<1>2. ASSUME NEW i \in Nat, ServerRaises(i)
      PROVE  FALSE
  <2>1. FatalError(i) \in ServerMessage /\ FatalError(i).type # "GENERIC"
    BY ServerMessages DEF FatalError
  <2> QED
    BY <1>1, <1>2, <2>1 DEF ServerRaises
<1>3. ASSUME NEW p, NEW v, NEW q \in Nat, CreateObject(p, v, q)
      PROVE  FALSE
  <2>1. /\ NewObject(q, maxId) \in ServerMessage
        /\ NewObject(q, maxId).type # "GENERIC"
        /\ maxId \in Nat
    BY ServerMessages DEF ServerTypeOK, NewObject
  <2>2. ServerSends(<<NewObject(q, maxId)>>) \/ ServerRaises(maxId)
    BY <1>3 DEF CreateObject, ServerRaises
  <2> QED
    BY <1>1, <1>2, <2>1, <2>2
<1>4. CASE ServerHandlesBind
  <2>1. Message.seq \in Nat
    BY <1>4, MessageType DEF ServerHandlesBind, ClientMessage, Hello, Invalid
  <2> QED
    BY <1>3, <1>4, <2>1 DEF ServerHandlesBind
<1>5. CASE ServerCreates
  <2>1. PICK t \in todo : CreateObject(t.protocol, t.version, t.seq)
    BY <1>5 DEF ServerCreates
  <2> QED
    BY <1>3, <2>1 DEF ServerTypeOK, Todo
<1>6. CASE ServerHandlesHello
  <2>1. /\ HandshakeBegin({HYPRWIRE_PROTOCOL_VER}) \in ServerMessage
        /\ HandshakeBegin({HYPRWIRE_PROTOCOL_VER}).type # "GENERIC"
    BY ServerMessages DEF HYPRWIRE_PROTOCOL_VER, HandshakeBegin
  <2> QED
    BY <1>1, <1>6, <2>1 DEF ServerHandlesHello
<1>7. CASE ServerHandlesAck
  <2>1. /\ HandshakeProtocols(exposed) \in ServerMessage
        /\ HandshakeProtocols(exposed).type # "GENERIC"
    BY ServerMessages DEF ServerTypeOK, Implemented, HandshakeProtocols
  <2> QED
    BY <1>1, <1>7, <2>1 DEF ServerHandlesAck
<1>8. CASE ServerHandlesUnknown
  <2>1. Message.object \in Nat
    BY <1>8, MessageType DEF ServerHandlesUnknown, ClientMessage, Hello, Invalid
  <2> QED
    BY <1>2, <1>8, <2>1 DEF ServerHandlesUnknown
<1>9. CASE ServerRejects
  BY <1>2, <1>9 DEF ServerRejects
<1>10. CASE ServerDeclaresError
  BY <1>2, <1>10 DEF ServerDeclaresError, ServerTypeOK, ServerObject, Granted
<1>11. CASE ServerCalled
  <2>1. PICK o \in sObjects : ServerRaises(o.id) \/ UNCHANGED s2c
    BY <1>11 DEF ServerCalled, Addressed
  <2> QED
    BY <1>2, <2>1 DEF ServerTypeOK, ServerObject
<1>12. CASE ServerEmits
  <2>1. PICK o \in Granted, e \in Events :
           ServerRaises(o.id) \/ ServerSends(<<Generic(o.id, e, 0)>>)
    BY <1>12 DEF ServerEmits
  <2>2. o.id \in Nat
    BY DEF ServerTypeOK, ServerObject, Granted
  <2>3. CASE ServerSends(<<Generic(o.id, e, 0)>>)
    <3>1. Generic(o.id, e, 0) \in ServerMessage
      BY <2>2, ServerMessages, MethodsAssumption
    <3>2. <<Generic(o.id, e, 0)>> \in Seq(ServerMessage)
      BY <3>1
    <3>3. m = Generic(o.id, e, 0)
      BY <2>3, <3>2, ServerSendsRange, RangeOfShort
    <3> QED
      BY <3>3 DEF Generic
  <2> QED
    BY <1>2, <2>1, <2>2, <2>3
<1>13. CASE ServerFinishesBatch
  <2> DEFINE done == IF scheduledRoundtrip > 0 THEN <<RoundtripDone(scheduledRoundtrip)>> ELSE <<>>
  <2>1. done \in Seq(ServerMessage)
    BY ServerMessages DEF ServerTypeOK
  <2>2. \A n \in Range(done) : n.type # "GENERIC"
    BY RangeOfShort DEF RoundtripDone
  <2>3. ServerSends(done)
    BY <1>13 DEF ServerFinishesBatch
  <2> HIDE DEF done
  <2> QED
    BY <2>1, <2>2, <2>3, ServerSendsRange
<1>14. s2c' # s2c
  OBVIOUS
<1> HIDE DEF Goal
<1>15. CASE \/ ServerReads
            \/ ServerSeesHangup
            \/ ServerHandlesRoundtrip
            \/ ServerIgnoresRequest
            \/ ServerListenerReturns
            \/ ServerReaps
            \/ ServerRemovesClient
  BY <1>14, <1>15, Zenon DEF ServerReads, ServerSeesHangup, ServerHandlesRoundtrip,
     ServerIgnoresRequest, ServerListenerReturns, ServerReaps, ServerRemovesClient
<1> QED
  BY <1>4, <1>5, <1>6, <1>7, <1>8, <1>9, <1>10, <1>11, <1>12, <1>13, <1>15
     DEF ServerSteps, ServerDispatches, ServerHandles

\* A destructor runs because a message on the way called it.
LEMMA ServerCallsWhatCame ==
    ASSUME ServerTypeOK, ServerSteps, IsDestructor(sCall'.method)
    PROVE  \/ sCall' = sCall
           \/ \E m \in Going : Ends(m) /\ sCall'.id = m.object
<1>1. CASE ServerHandlesBind
  <2>1. sCall' = NoCall \/ sCall' = [id |-> maxId, method |-> "bind"]
    BY <1>1 DEF ServerHandlesBind
  <2>2. sCall'.method \in {"none", "bind"}
    BY <2>1 DEF NoCall
  <2> QED
    BY <2>2 DEF IsDestructor
<1>2. CASE ServerCalled
  <2>1. PICK o \in Addressed(Message.object) :
           UNCHANGED sCall \/ sCall' = [id |-> o.id, method |-> Message.method]
    BY <1>2 DEF ServerCalled
  <2>2. o.id = Message.object
    BY DEF Addressed
  <2>3. Message \in Going /\ Message.type = "GENERIC"
    BY <1>2, MessageIsGoing DEF ServerCalled
  <2> QED
    BY <2>1, <2>2, <2>3 DEF Ends
<1>3. CASE ServerListenerReturns
  BY <1>3 DEF ServerListenerReturns, NoCall, IsDestructor
<1> QED
  BY <1>1, <1>2, <1>3
     DEF ServerSteps, ServerDispatches, ServerHandles, ServerReads, ServerSeesHangup,
         ServerHandlesHello, ServerHandlesAck, ServerHandlesRoundtrip, ServerHandlesUnknown,
         ServerIgnoresRequest, ServerRejects, ServerFinishesBatch, ServerReaps, ServerCreates,
         ServerEmits, ServerDeclaresError, ServerRemovesClient

\* What a step may do to the objects: add one, mark one, destroy those a
\* destructor is for, or drop them all with the client.
Marks    == \E o \in sObjects, d \in BOOLEAN :
                sObjects' = (sObjects \ {o}) \cup {[o EXCEPT !.destroyed = d]}
Destroys == \E i : /\ sObjects' = WithoutObject(i)
                   /\ \/ \E m \in Going : Ends(m) /\ m.object = i
                      \/ IsDestructor(sCall.method) /\ sCall.id = i

\* There are no other steps.
LEMMA ServerServes ==
    ASSUME ServerTypeOK, ServerSteps
    PROVE  /\ serverOpen
           /\ \/ serverOpen' /\ maxId' = maxId + 1
              \/ serverOpen' /\ maxId' = maxId /\ (sObjects' = sObjects \/ Marks \/ Destroys)
              \/ ~serverOpen' /\ maxId' = maxId /\ sObjects' = {} /\ s2c' = s2c
<1> USE DEF sSessionVars, sObjectVars, sReadVars, wireVars
<1> DEFINE Goal == \/ serverOpen' /\ maxId' = maxId + 1
                   \/ serverOpen' /\ maxId' = maxId /\ (sObjects' = sObjects \/ Marks \/ Destroys)
                   \/ ~serverOpen' /\ maxId' = maxId /\ sObjects' = {} /\ s2c' = s2c
<1>1. serverOpen
  BY DEF ServerSteps, ServerDispatches, ServerHandles, ServerReads, ServerSeesHangup,
         ServerHandlesHello, ServerHandlesAck, ServerHandlesBind, ServerHandlesRoundtrip,
         ServerHandlesUnknown, ServerIgnoresRequest, ServerCalled, ServerRejects, ServerListenerReturns,
         ServerFinishesBatch, ServerReaps, ServerCreates, ServerEmits, ServerDeclaresError,
         ServerRemovesClient, ServerParses, ServerAppMayAct
<1> SUFFICES Goal
  BY <1>1
<1>2. ASSUME UNCHANGED <<maxId, sObjects, serverOpen>>
      PROVE  Goal
  BY <1>1, <1>2
<1>3. CASE ServerHandlesBind \/ ServerCreates
  BY <1>1, <1>3 DEF ServerHandlesBind, ServerCreates, CreateObject
<1>4. CASE ServerReaps \/ ServerRemovesClient
  <2>1. ~serverOpen' /\ maxId' = maxId /\ sObjects' = {} /\ s2c' = s2c
    BY <1>4 DEF ServerReaps, ServerRemovesClient, DropClient
  <2> QED
    BY <2>1
<1>5. CASE ServerIgnoresRequest
  <2>1. /\ UNCHANGED <<maxId, serverOpen>>
        /\ sObjects' = sObjects \/ (IsDestructor(Message.method) /\ sObjects' = WithoutObject(Message.object))
    BY <1>5 DEF ServerIgnoresRequest
  <2>2. Message \in Going /\ Message.type = "GENERIC"
    BY <1>5, MessageIsGoing DEF ServerIgnoresRequest
  <2> QED
    BY <1>1, <2>1, <2>2 DEF Destroys, Ends
<1>6. CASE ServerListenerReturns
  <2>1. /\ UNCHANGED <<maxId, serverOpen>>
        /\ sObjects' = sObjects \/ (IsDestructor(sCall.method) /\ sObjects' = WithoutObject(sCall.id))
    BY <1>6 DEF ServerListenerReturns
  <2> QED
    BY <1>1, <2>1 DEF Destroys
<1>7. CASE ServerEmits
  <2>1. PICK o \in sObjects, m \in Events :
           \/ UNCHANGED sObjects
           \/ sObjects' = (sObjects \ {o}) \cup {[o EXCEPT !.destroyed = IsDestructor(m)]}
    BY <1>7 DEF ServerEmits, Granted
  <2>2. IsDestructor(m) \in BOOLEAN
    BY DEF IsDestructor
  <2>3. UNCHANGED <<maxId, serverOpen>>
    BY <1>7 DEF ServerEmits, Granted
  <2> QED
    BY <1>1, <2>1, <2>2, <2>3 DEF Marks
<1>8. CASE \/ ServerReads
           \/ ServerSeesHangup
           \/ ServerHandlesHello
           \/ ServerHandlesAck
           \/ ServerHandlesRoundtrip
           \/ ServerHandlesUnknown
           \/ ServerCalled
           \/ ServerRejects
           \/ ServerFinishesBatch
           \/ ServerDeclaresError
  <2>1. UNCHANGED <<maxId, sObjects, serverOpen>>
    BY <1>8 DEF ServerReads, ServerSeesHangup, ServerHandlesHello, ServerHandlesAck,
       ServerHandlesRoundtrip, ServerHandlesUnknown, ServerCalled, ServerRejects, ServerFinishesBatch,
       ServerDeclaresError
  <2> QED
    BY <1>2, <2>1
<1> HIDE DEF Goal
<1> QED
  BY <1>3, <1>4, <1>5, <1>6, <1>7, <1>8 DEF ServerSteps, ServerDispatches, ServerHandles

-----------------------------------------------------------------------------
(* What the server writes, and in what order                               *)

\* A server that holds something against its client goes on doing so.
LEMMA ServerErrorStays ==
    ASSUME ServerTypeOK, ServerSteps, sError
    PROVE  sError'
<1>1. ASSUME NEW p, NEW v, NEW q, CreateObject(p, v, q)
      PROVE  sError'
  <2>1. sError' = sError \/ sError' = TRUE
    BY <1>1, Zenon DEF CreateObject
  <2> QED
    BY <2>1
<1>2. CASE ServerHandlesBind
  BY <1>1, <1>2 DEF ServerHandlesBind
<1>3. CASE ServerCreates
  BY <1>1, <1>3 DEF ServerCreates
<1>4. ASSUME sError' = sError \/ sError' = TRUE
      PROVE  sError'
  BY <1>4
<1>5. CASE ServerCalled
  <2>1. sError' = sError \/ sError' = TRUE
    BY <1>5, Zenon DEF ServerCalled, ServerRaises
  <2> QED
    BY <1>4, <2>1
<1>6. CASE ServerEmits
  <2>1. sError' = sError \/ sError' = TRUE
    BY <1>6, Zenon DEF ServerEmits, ServerRaises
  <2> QED
    BY <1>4, <2>1
<1>7. CASE ServerFinishesBatch
  <2>1. sError' = (sError \/ sHup)
    BY <1>7 DEF ServerFinishesBatch
  <2> QED
    BY <2>1
<1>8. CASE \/ ServerReads
           \/ ServerSeesHangup
           \/ ServerHandlesHello
           \/ ServerHandlesAck
           \/ ServerHandlesRoundtrip
           \/ ServerHandlesUnknown
           \/ ServerIgnoresRequest
           \/ ServerListenerReturns
           \/ ServerRejects
           \/ ServerReaps
           \/ ServerDeclaresError
           \/ ServerRemovesClient
  <2>1. sError' = sError \/ sError' = TRUE
    BY <1>8, Zenon DEF ServerReads, ServerSeesHangup, ServerHandlesHello, ServerHandlesAck,
       ServerHandlesRoundtrip, ServerHandlesUnknown, ServerIgnoresRequest, ServerListenerReturns,
       ServerRejects, ServerReaps, ServerDeclaresError, ServerRemovesClient, ServerRaises
  <2> QED
    BY <1>4, <2>1
<1> QED
  BY <1>2, <1>3, <1>5, <1>6, <1>7, <1>8, Zenon DEF ServerSteps, ServerDispatches, ServerHandles

\* What a message the server writes is about: an object it made or an event of
\* one it granted, the roundtrip that was scheduled, or an error it holds.
SaysWhatIs(m) ==
    /\ m.type = "GENERIC" => \E o \in Granted : o.id = m.object
    /\ m.type = "NEW_OBJECT" => \E r \in Asked : MakesFor(r) /\ m = NewObject(r.seq, maxId)
    /\ m.type = "ROUNDTRIP_DONE" => ServerFinishesBatch /\ m.seq = scheduledRoundtrip
    /\ m.type = "FATAL" => sError'

\* Each step of the server writes at most one message.
LEMMA ServerSpeaks ==
    ASSUME WireTypeOK, ServerTypeOK, ServerSteps
    PROVE  s2c' = s2c \/ \E m \in ServerMessage : ServerSends(<<m>>) /\ SaysWhatIs(m)
<1> USE DEF sSessionVars, sObjectVars, sReadVars, wireVars
<1> DEFINE Goal == s2c' = s2c \/ \E m \in ServerMessage : ServerSends(<<m>>) /\ SaysWhatIs(m)
<1> SUFFICES Goal
  OBVIOUS
<1>1. ASSUME NEW m \in ServerMessage, ServerSends(<<m>>),
             m.type \notin {"GENERIC", "NEW_OBJECT", "ROUNDTRIP_DONE", "FATAL"}
      PROVE  Goal
  BY <1>1 DEF SaysWhatIs
<1>2. ASSUME NEW i \in Nat, ServerRaises(i)
      PROVE  Goal
  <2>1. FatalError(i) \in ServerMessage /\ FatalError(i).type = "FATAL"
    BY ServerMessages DEF FatalError
  <2>2. sError' /\ ServerSends(<<FatalError(i)>>)
    BY <1>2, Zenon DEF ServerRaises
  <2>3. SaysWhatIs(FatalError(i))
    BY <2>1, <2>2 DEF SaysWhatIs
  <2> QED
    BY <2>1, <2>2, <2>3, Zenon
<1>3. ASSUME NEW r \in Asked, CreateObject(r.protocol, r.version, r.seq)
      PROVE  Goal
  <2>1. r.protocol \in Protocols /\ r.version \in Nat /\ r.seq \in Nat /\ maxId \in Nat
    BY GoingIsTyped DEF Asked, ServerTypeOK, Todo, ClientMessage, Hello, Invalid
  <2>2. MakesFor(r)
    BY <1>3, <2>1, CreateObjectMakes
  <2>3. NewObject(r.seq, maxId) \in ServerMessage
    BY <2>1, ServerMessages
  <2>4. SaysWhatIs(NewObject(r.seq, maxId))
    BY <2>2 DEF SaysWhatIs, NewObject
  <2>5. ServerSends(<<NewObject(r.seq, maxId)>>) \/ ServerRaises(maxId)
    BY <1>3, Zenon DEF CreateObject, ServerRaises
  <2> QED
    BY <1>2, <2>1, <2>3, <2>4, <2>5, Zenon
<1> HIDE DEF Goal
<1>4. CASE ServerHandlesBind
  <2>1. Message \in Asked
    BY <1>4, MessageIsGoing DEF ServerHandlesBind, Asked
  <2> QED
    BY <1>3, <1>4, <2>1 DEF ServerHandlesBind
<1>5. CASE ServerCreates
  <2>1. PICK t \in todo : CreateObject(t.protocol, t.version, t.seq)
    BY <1>5 DEF ServerCreates
  <2> QED
    BY <1>3, <2>1 DEF Asked
<1>6. CASE ServerHandlesHello
  <2>1. /\ HandshakeBegin({HYPRWIRE_PROTOCOL_VER}) \in ServerMessage
        /\ HandshakeBegin({HYPRWIRE_PROTOCOL_VER}).type = "HANDSHAKE_BEGIN"
    BY ServerMessages DEF HYPRWIRE_PROTOCOL_VER, HandshakeBegin
  <2> QED
    BY <1>1, <1>6, <2>1 DEF ServerHandlesHello
<1>7. CASE ServerHandlesAck
  <2>1. /\ HandshakeProtocols(exposed) \in ServerMessage
        /\ HandshakeProtocols(exposed).type = "HANDSHAKE_PROTOCOLS"
    BY ServerMessages DEF ServerTypeOK, Implemented, HandshakeProtocols
  <2> QED
    BY <1>1, <1>7, <2>1 DEF ServerHandlesAck
<1>8. CASE ServerHandlesUnknown
  <2>1. Message.object \in Nat
    BY <1>8, MessageType DEF ServerHandlesUnknown, ClientMessage, Hello, Invalid
  <2> QED
    BY <1>2, <1>8, <2>1 DEF ServerHandlesUnknown
<1>9. CASE ServerRejects
  BY <1>2, <1>9 DEF ServerRejects
<1>10. CASE ServerDeclaresError
  BY <1>2, <1>10 DEF ServerDeclaresError, ServerTypeOK, ServerObject, Granted
<1>11. CASE ServerCalled
  <2>1. PICK o \in sObjects : ServerRaises(o.id) \/ UNCHANGED s2c
    BY <1>11 DEF ServerCalled, Addressed
  <2> QED
    BY <1>2, <2>1 DEF ServerTypeOK, ServerObject, Goal
<1>12. CASE ServerEmits
  <2>1. PICK o \in Granted, e \in Events :
           ServerRaises(o.id) \/ ServerSends(<<Generic(o.id, e, 0)>>)
    BY <1>12 DEF ServerEmits
  <2>2. o.id \in Nat
    BY DEF ServerTypeOK, ServerObject, Granted
  <2>3. CASE ServerSends(<<Generic(o.id, e, 0)>>)
    <3>1. Generic(o.id, e, 0) \in ServerMessage
      BY <2>2, ServerMessages, MethodsAssumption
    <3>2. SaysWhatIs(Generic(o.id, e, 0))
      BY DEF SaysWhatIs, Generic
    <3> QED
      BY <2>3, <3>1, <3>2, Zenon DEF Goal
  <2> QED
    BY <1>2, <2>1, <2>2, <2>3
<1>13. CASE ServerFinishesBatch
  <2>1. CASE scheduledRoundtrip > 0
    <3>1. ServerSends(<<RoundtripDone(scheduledRoundtrip)>>)
      BY <1>13, <2>1 DEF ServerFinishesBatch
    <3>2. RoundtripDone(scheduledRoundtrip) \in ServerMessage
      BY ServerMessages DEF ServerTypeOK
    <3>3. SaysWhatIs(RoundtripDone(scheduledRoundtrip))
      BY <1>13 DEF SaysWhatIs, RoundtripDone
    <3> QED
      BY <3>1, <3>2, <3>3, Zenon DEF Goal
  <2>2. CASE ~(scheduledRoundtrip > 0)
    <3>1. ServerSends(<<>>)
      BY <1>13, <2>2 DEF ServerFinishesBatch
    <3>2. s2c' = s2c
      BY <3>1, ConcatEmptySeq DEF ServerSends, WireTypeOK
    <3> QED
      BY <3>2 DEF Goal
  <2> QED
    BY <2>1, <2>2
<1>14. CASE \/ ServerReads
            \/ ServerSeesHangup
            \/ ServerHandlesRoundtrip
            \/ ServerIgnoresRequest
            \/ ServerListenerReturns
            \/ ServerReaps
            \/ ServerRemovesClient
  <2>1. s2c' = s2c
    BY <1>14, Zenon DEF ServerReads, ServerSeesHangup, ServerHandlesRoundtrip,
       ServerIgnoresRequest, ServerListenerReturns, ServerReaps, ServerRemovesClient
  <2> QED
    BY <2>1 DEF Goal
<1> QED
  BY <1>4, <1>5, <1>6, <1>7, <1>8, <1>9, <1>10, <1>11, <1>12, <1>13, <1>14, Zenon
     DEF ServerSteps, ServerDispatches, ServerHandles

-----------------------------------------------------------------------------
(* What the server grants                                                  *)

\* The filter is asked before anything is exposed, and an object that was
\* refused is an error at once.
FilterFirst    == ~firstPollDone => exposed = {}
RefusedIsError == ~sError => sObjects \subseteq Granted

\* What createObject does, it does with or without an error.
LEMMA CreateObjectGrants ==
    ASSUME ServerTypeOK, RefusedIsError, UNCHANGED exposed, NEW r,
           CreateObject(r.protocol, r.version, r.seq)
    PROVE  /\ RefusedIsError'
           /\ \A o \in Granted' : o \in Granted \/ ServerSends(<<NewObject(o.seq, o.id)>>)
<1>1. sObjects' = sObjects \cup {Made(r)}
  BY DEF CreateObject, Made
<1>2. \A p, v : Grants(p, v)' = Grants(p, v)
  BY DEF Grants
<1>3. Grants(r.protocol, r.version) =>
        sError' = sError /\ ServerSends(<<NewObject(Made(r).seq, Made(r).id)>>)
  BY Zenon DEF CreateObject, Made
<1>4. ~Grants(r.protocol, r.version) => sError'
  BY Zenon DEF CreateObject
<1>5. Made(r).protocol = r.protocol /\ Made(r).version = r.version
  BY DEF Made
<1>6. \A o \in Granted' : o \in Granted \/ (o = Made(r) /\ Grants(r.protocol, r.version))
  BY <1>1, <1>2, <1>5 DEF Granted
<1>7. RefusedIsError'
  BY <1>1, <1>2, <1>3, <1>4, <1>5 DEF RefusedIsError, Granted
<1> QED
  BY <1>3, <1>6, <1>7, Zenon

\* Every object the server grants is announced by the step that makes it, and
\* the others were granted before.
LEMMA ServerGrants ==
    ASSUME WireTypeOK, ServerTypeOK, ServerSteps, FilterFirst, RefusedIsError
    PROVE  /\ RefusedIsError'
           /\ \A o \in Granted' : \/ \E u \in Granted : u.id = o.id
                                  \/ ServerSends(<<NewObject(o.seq, o.id)>>)
<1> USE DEF sSessionVars, sObjectVars, sReadVars, wireVars
<1> DEFINE Goal == /\ RefusedIsError'
                   /\ \A o \in Granted' : \/ \E u \in Granted : u.id = o.id
                                          \/ ServerSends(<<NewObject(o.seq, o.id)>>)
<1> SUFFICES Goal
  OBVIOUS
<1>1. ASSUME NEW r, CreateObject(r.protocol, r.version, r.seq), UNCHANGED exposed
      PROVE  Goal
  BY <1>1, CreateObjectGrants, Zenon
<1>2. ASSUME KeepsObjects, UNCHANGED exposed, sError => sError'
      PROVE  Goal
  <2>1. \A p, v : Grants(p, v)' = Grants(p, v)
    BY <1>2 DEF Grants
  <2>2. \A o \in sObjects' : \E u \in sObjects :
          o.id = u.id /\ o.protocol = u.protocol /\ o.version = u.version
    BY <1>2, KeptKeepTheirNames
  <2>3. \A o \in Granted' : \E u \in Granted : u.id = o.id
    BY <2>1, <2>2 DEF Granted
  <2>4. RefusedIsError'
    BY <1>2, <2>1, <2>2 DEF RefusedIsError, Granted
  <2> QED
    BY <2>3, <2>4, Zenon
<1> HIDE DEF Goal
<1>3. CASE ServerHandlesBind
  BY <1>1, <1>3 DEF ServerHandlesBind
<1>4. CASE ServerCreates
  BY <1>1, <1>4 DEF ServerCreates
<1>5. CASE ServerHandlesHello
  <2>1. ~sError /\ sObjects' = sObjects /\ sError' = sError
    BY <1>5 DEF ServerHandlesHello, ServerParses
  <2>2. CASE firstPollDone
    <3>1. exposed' = exposed
      BY <1>5, <2>2 DEF ServerHandlesHello
    <3>2. Granted' = Granted
      BY <2>1, <3>1 DEF Granted, Grants
    <3> QED
      BY <2>1, <3>2, Zenon DEF Goal, RefusedIsError
  <2>3. CASE ~firstPollDone
    <3>1. Granted = {}
      BY <2>3 DEF Granted, Grants, FilterFirst
    <3>2. sObjects' = {}
      BY <2>1, <3>1 DEF RefusedIsError
    <3>3. Granted' = {}
      BY <3>2 DEF Granted
    <3> QED
      BY <3>2, <3>3 DEF Goal, RefusedIsError
  <2> QED
    BY <2>2, <2>3
<1>6. CASE UNCHANGED exposed /\ maxId' = maxId
  <2>1. KeepsObjects
    BY <1>6, ServerMakes DEF MakesFor, ServerTypeOK
  <2>2. sError => sError'
    BY <1>6, ServerErrorStays
  <2> QED
    BY <1>2, <1>6, <2>1, <2>2
<1>7. CASE \/ ServerReads
           \/ ServerSeesHangup
           \/ ServerHandlesAck
           \/ ServerHandlesRoundtrip
           \/ ServerHandlesUnknown
           \/ ServerIgnoresRequest
           \/ ServerCalled
           \/ ServerListenerReturns
           \/ ServerRejects
           \/ ServerFinishesBatch
           \/ ServerReaps
           \/ ServerEmits
           \/ ServerDeclaresError
           \/ ServerRemovesClient
  BY <1>6, <1>7 DEF ServerReads, ServerSeesHangup, ServerHandlesAck, ServerHandlesRoundtrip,
     ServerHandlesUnknown, ServerIgnoresRequest, ServerCalled, ServerListenerReturns, ServerRejects,
     ServerFinishesBatch, ServerReaps, ServerEmits, ServerDeclaresError, ServerRemovesClient
<1> QED
  BY <1>3, <1>4, <1>5, <1>7, Zenon DEF ServerSteps, ServerDispatches, ServerHandles

-----------------------------------------------------------------------------
(* What becomes of the calls that came *)

\* Only while a batch is handled are there messages of it left.
IdleIsEmpty == sPhase # "parse" => sBatch = <<>>

\* A step that leaves the loop over the batch leaves nothing of it.
LEMMA BatchEnds ==
    ASSUME ServerSteps, IdleIsEmpty
    PROVE  IdleIsEmpty'
<1> USE DEF sReadVars
<1>1. CASE sPhase' = "parse" \/ sBatch' = <<>>
  BY <1>1 DEF IdleIsEmpty
<1>2. CASE UNCHANGED <<sPhase, sBatch>>
  BY <1>2 DEF IdleIsEmpty
<1>3. CASE ServerHandles
  <2>1. ServerParses
    BY <1>3 DEF ServerHandles, ServerHandlesHello, ServerHandlesAck, ServerHandlesBind,
       ServerHandlesRoundtrip, ServerHandlesUnknown, ServerIgnoresRequest, ServerCalled, ServerRejects
  <2>2. sPhase' = sPhase \/ sBatch' = <<>>
    BY <1>3 DEF ServerHandles, ServerHandlesHello, ServerHandlesAck, ServerHandlesBind,
       ServerHandlesRoundtrip, ServerHandlesUnknown, ServerIgnoresRequest, ServerCalled, ServerRejects
  <2> QED
    BY <2>1, <2>2 DEF ServerParses, IdleIsEmpty
<1>4. CASE ServerSeesHangup \/ ServerReaps
  BY <1>4 DEF ServerSeesHangup, ServerReaps, IdleIsEmpty
<1> QED
  BY <1>1, <1>2, <1>3, <1>4
     DEF ServerSteps, ServerDispatches, ServerReads, ServerListenerReturns, ServerFinishesBatch,
         ServerCreates, ServerEmits, ServerDeclaresError, ServerRemovesClient

\* What comes off the wire is still to be handled, or is the message being
\* parsed, or the server does not go on.
LEMMA ServerLeaves ==
    ASSUME WireTypeOK, ServerTypeOK, ServerSteps, IdleIsEmpty
    PROVE  \/ Going \subseteq Going'
           \/ sError' /\ ~ServerHandles
           \/ ServerHandles /\ (sError' \/ Going = Going' \cup {Message})
<1> DEFINE Goal == \/ Going \subseteq Going'
                   \/ sError' /\ ~ServerHandles
                   \/ ServerHandles /\ (sError' \/ Going = Going' \cup {Message})
<1> SUFFICES Goal
  OBVIOUS
<1>1. CASE ServerReads
  <2>1. PICK n \in ReadLengths(c2s) : /\ sBatch' = SubSeq(c2s, 1, n)
                                      /\ c2s' = SubSeq(c2s, n + 1, Len(c2s))
    BY <1>1 DEF ServerReads
  <2>2. Range(c2s) = Range(sBatch') \cup Range(c2s')
    BY <2>1, RangeOfRead DEF WireTypeOK
  <2>3. Range(sBatch) = {}
    BY <1>1, RangeOfShort DEF ServerReads, IdleIsEmpty
  <2> QED
    BY <2>2, <2>3 DEF Going
<1>2. CASE ServerHandles
  <2>1. ServerParses /\ c2s' = c2s
    BY <1>2 DEF ServerHandles, ServerHandlesHello, ServerHandlesAck, ServerHandlesBind,
       ServerHandlesRoundtrip, ServerHandlesUnknown, ServerIgnoresRequest, ServerCalled, ServerRejects,
       wireVars
  <2>2. sBatch' = Tail(sBatch) \/ ServerRejects
    BY <1>2 DEF ServerHandles, ServerHandlesHello, ServerHandlesAck, ServerHandlesBind,
       ServerHandlesRoundtrip, ServerHandlesUnknown, ServerIgnoresRequest, ServerCalled
  <2>3. CASE sBatch' = Tail(sBatch)
    <3>1. Range(sBatch) = {Message} \cup Range(sBatch')
      BY <2>1, <2>3, RangeSplits DEF ServerTypeOK, ServerParses, Message
    <3> QED
      BY <1>2, <2>1, <3>1 DEF Going
  <2>4. CASE ServerRejects
    BY <1>2, <2>4 DEF ServerRejects, ServerRaises
  <2> QED
    BY <2>3, <2>4, <2>2
<1>3. CASE ServerFinishesBatch
  <2>1. CASE sError
    <3>1. sError'
      BY <1>3, <2>1, ServerErrorStays
    <3>2. sPhase' = "reap" /\ c2s' = c2s /\ sBatch' = <<>>
      BY <1>3, <3>1 DEF ServerFinishesBatch
    <3>3. ~ServerParses
      BY <2>1 DEF ServerParses
    <3>4. ~ServerHandles
      BY <3>3 DEF ServerHandles, ServerHandlesHello, ServerHandlesAck, ServerHandlesBind,
         ServerHandlesRoundtrip, ServerHandlesUnknown, ServerIgnoresRequest, ServerCalled,
         ServerRejects
    <3> QED
      BY <3>1, <3>4
  <2>2. CASE ~sError
    <3>1. sBatch = <<>> /\ sBatch' = <<>> /\ c2s' = c2s
      BY <1>3, <2>2 DEF ServerFinishesBatch
    <3> QED
      BY <3>1 DEF Going
  <2> QED
    BY <2>1, <2>2
<1>4. CASE UNCHANGED <<c2s, sBatch>>
  BY <1>4 DEF Going
<1> HIDE DEF Goal
<1> QED
  BY <1>1, <1>2, <1>3, <1>4
     DEF ServerSteps, ServerDispatches, ServerSeesHangup, ServerListenerReturns, ServerReaps,
         ServerCreates, ServerEmits, ServerDeclaresError, ServerRemovesClient, sReadVars, wireVars

\* The server has done with an object, or does not go on.
DoneWith(i) == sError' \/ \A o \in sObjects' : o.id # i

\* A destructor that came is still to be handled, or runs, or its object is
\* destroyed.
LEMMA EndsComeThrough ==
    ASSUME WireTypeOK, ServerTypeOK, ServerSteps, IdleIsEmpty, NEW m \in Going, Ends(m)
    PROVE  \/ m \in Going'
           \/ IsDestructor(sCall'.method) /\ sCall'.id = m.object
           \/ DoneWith(m.object)
<1>1. CASE ServerHandles /\ m = Message
  <2> DEFINE Runs == IsDestructor(sCall'.method) /\ sCall'.id = Message.object
  <2>1. Message.type = "GENERIC" /\ IsDestructor(Message.method)
    BY <1>1 DEF Ends
  <2>2. CASE ServerHandlesUnknown \/ ServerRejects
    BY <1>1, <2>2 DEF ServerHandlesUnknown, ServerRejects, ServerRaises, DoneWith
  <2>3. CASE ServerIgnoresRequest
    <3>1. sObjects' = WithoutObject(Message.object)
      BY <2>1, <2>3 DEF ServerIgnoresRequest
    <3> QED
      BY <1>1, <3>1 DEF WithoutObject, DoneWith
  <2>4. CASE ServerCalled
    <3>1. PICK o \in Addressed(Message.object) :
             sError' = TRUE \/ sCall' = [id |-> o.id, method |-> Message.method]
      BY <2>4, Zenon DEF ServerCalled, ServerRaises
    <3>2. o.id = Message.object
      BY DEF Addressed
    <3>3. CASE sCall' = [id |-> o.id, method |-> Message.method]
      <4>1. Runs
        BY <2>1, <3>2, <3>3
      <4> QED
        BY <1>1, <4>1
    <3> QED
      BY <3>1, <3>3 DEF DoneWith
  <2> QED
    BY <1>1, <2>1, <2>2, <2>3, <2>4
       DEF ServerHandles, ServerHandlesHello, ServerHandlesAck, ServerHandlesBind, ServerHandlesRoundtrip
<1> QED
  BY <1>1, ServerLeaves DEF DoneWith

\* A destructor that runs goes on running until its object is destroyed.
LEMMA EndsAreDone ==
    ASSUME ServerTypeOK, ServerSteps, IsDestructor(sCall.method)
    PROVE  \/ sCall' = sCall
           \/ DoneWith(sCall.id)
<1>1. sCall # NoCall
  BY DEF NoCall, IsDestructor
<1>2. CASE ServerListenerReturns
  <2>1. sObjects' = WithoutObject(sCall.id)
    BY <1>2 DEF ServerListenerReturns
  <2> QED
    BY <2>1 DEF WithoutObject, DoneWith
<1>3. ~ServerParses
  BY <1>1 DEF ServerParses
<1>4. ~ServerHandles
  BY <1>3 DEF ServerHandles, ServerHandlesHello, ServerHandlesAck, ServerHandlesBind,
     ServerHandlesRoundtrip, ServerHandlesUnknown, ServerIgnoresRequest, ServerCalled, ServerRejects
<1> QED
  BY <1>2, <1>4 DEF ServerSteps, ServerDispatches, ServerReads, ServerSeesHangup, ServerFinishesBatch,
     ServerReaps, ServerCreates, ServerEmits, ServerDeclaresError, ServerRemovesClient

-----------------------------------------------------------------------------
(* In what order the server answers *)

\* The messages the server has yet to handle, in the order they were written.
Inbox == sBatch \o c2s

\* They are those on their way to it.
LEMMA InboxType ==
    ASSUME WireTypeOK, ServerTypeOK
    PROVE  Inbox \in Seq(ClientMessage) /\ Range(Inbox) = Going
BY ConcatProperties, RangeConcatenation DEF Inbox, Going, WireTypeOK, ServerTypeOK

\* Messages leave at the front, one by one, but for what an error leaves
\* unhandled.
LEMMA InboxMoves ==
    ASSUME WireTypeOK, ServerTypeOK, ServerSteps, IdleIsEmpty
    PROVE  \/ Inbox' = Inbox /\ ~ServerHandles
           \/ /\ ServerHandles
              /\ Inbox # <<>>
              /\ Head(Inbox) = Message
              /\ Inbox' = Tail(Inbox) \/ ServerRejects
           \/ ServerFinishesBatch /\ sError
<1> DEFINE Goal == \/ Inbox' = Inbox /\ ~ServerHandles
                   \/ /\ ServerHandles
                      /\ Inbox # <<>>
                      /\ Head(Inbox) = Message
                      /\ Inbox' = Tail(Inbox) \/ ServerRejects
                   \/ ServerFinishesBatch /\ sError
<1> SUFFICES Goal
  OBVIOUS
<1> sBatch \in Seq(ClientMessage) /\ c2s \in Seq(ClientMessage)
  BY DEF ServerTypeOK, WireTypeOK
<1>1. ServerHandles => ServerParses
  BY DEF ServerHandles, ServerHandlesHello, ServerHandlesAck, ServerHandlesBind,
     ServerHandlesRoundtrip, ServerHandlesUnknown, ServerIgnoresRequest, ServerCalled, ServerRejects
<1>2. CASE ServerHandles
  <2>1. c2s' = c2s
    BY <1>2 DEF ServerHandles, ServerHandlesHello, ServerHandlesAck, ServerHandlesBind,
       ServerHandlesRoundtrip, ServerHandlesUnknown, ServerIgnoresRequest, ServerCalled, ServerRejects,
       wireVars
  <2>2. sBatch' = Tail(sBatch) \/ ServerRejects
    BY <1>2 DEF ServerHandles, ServerHandlesHello, ServerHandlesAck, ServerHandlesBind,
       ServerHandlesRoundtrip, ServerHandlesUnknown, ServerIgnoresRequest, ServerCalled
  <2>3. sBatch # <<>>
    BY <1>1, <1>2 DEF ServerParses
  <2>4. Inbox # <<>> /\ Head(Inbox) = Message /\ Tail(Inbox) = Tail(sBatch) \o c2s
    BY <2>3, TailOfConcat DEF Inbox, Message
  <2>5. sBatch' = Tail(sBatch) => Inbox' = Tail(Inbox)
    BY <2>1, <2>4 DEF Inbox
  <2> QED
    BY <1>2, <2>2, <2>4, <2>5
<1>3. CASE ServerReads
  <2>1. PICK n \in ReadLengths(c2s) : /\ sBatch' = SubSeq(c2s, 1, n)
                                      /\ c2s' = SubSeq(c2s, n + 1, Len(c2s))
    BY <1>3 DEF ServerReads
  <2>2. sBatch = <<>> /\ ~ServerParses
    BY <1>3 DEF ServerReads, IdleIsEmpty, ServerParses
  <2>3. n \in 1 .. Len(c2s) /\ Len(c2s) \in Nat
    BY LenProperties DEF ReadLengths
  <2>4. SubSeq(c2s, 1, n) \o SubSeq(c2s, n + 1, Len(c2s)) = SubSeq(c2s, 1, Len(c2s))
    BY <2>3, ConcatAdjacentSubSeq
  <2>5. Inbox' = c2s
    BY <2>1, <2>4, SubSeqFull DEF Inbox
  <2>6. Inbox = c2s
    BY <2>2, ConcatEmptySeq DEF Inbox
  <2> QED
    BY <1>1, <2>2, <2>5, <2>6
<1>4. CASE ServerFinishesBatch /\ ~sError
  <2>1. sBatch = <<>> /\ sBatch' = <<>> /\ c2s' = c2s
    BY <1>4 DEF ServerFinishesBatch
  <2>2. ~ServerParses
    BY <2>1 DEF ServerParses
  <2> QED
    BY <1>1, <2>1, <2>2 DEF Inbox
<1>5. CASE UNCHANGED <<c2s, sBatch>> /\ ~ServerHandles
  BY <1>5 DEF Inbox
<1> HIDE DEF Goal
<1> QED
  BY <1>2, <1>3, <1>4, <1>5 DEF Goal, ServerSteps, ServerDispatches, ServerSeesHangup,
     ServerListenerReturns, ServerReaps, ServerCreates, ServerEmits, ServerDeclaresError,
     ServerRemovesClient, sReadVars, wireVars

\* Which roundtrip is to be acknowledged: none after it was, and the one that
\* was asked for last.
LEMMA ServerSchedules ==
    ASSUME ServerSteps
    PROVE  \/ scheduledRoundtrip' \in {0, scheduledRoundtrip}
           \/ ServerHandlesRoundtrip /\ scheduledRoundtrip' = Message.seq
BY DEF ServerSteps, ServerDispatches, ServerHandles, ServerReads, ServerSeesHangup,
       ServerHandlesHello, ServerHandlesAck, ServerHandlesBind, ServerHandlesRoundtrip,
       ServerHandlesUnknown, ServerIgnoresRequest, ServerCalled, ServerRejects, ServerListenerReturns,
       ServerFinishesBatch, ServerReaps, ServerCreates, ServerEmits, ServerDeclaresError,
       ServerRemovesClient

\* An application that answers at once has answered when its listener returns.
AnswersAtOnce   == ~AnswersLater
TodoIsInListener == sCall = NoCall => todo = {}

\* What a listener was asked for is not left to a later message.
LEMMA TodoStaysInListener ==
    ASSUME AnswersAtOnce, ServerTypeOK, ServerSteps, TodoIsInListener
    PROVE  TodoIsInListener'
<1>1. CASE UNCHANGED sCall /\ todo' \subseteq todo
  BY <1>1 DEF TodoIsInListener
<1>2. CASE todo' = {}
  BY <1>2 DEF TodoIsInListener
<1>3. CASE ServerHandlesBind
  BY <1>3 DEF ServerHandlesBind, ServerParses, TodoIsInListener
<1>4. CASE ServerListenerReturns
  BY <1>4 DEF ServerListenerReturns, TodoIsInListener, AnswersAtOnce
<1>5. CASE ServerCalled
  <2>1. PICK o \in Addressed(Message.object) :
           UNCHANGED <<sCall, todo>> \/ sCall' = [id |-> o.id, method |-> Message.method]
    BY <1>5 DEF ServerCalled
  <2>2. Message \in ClientMessage /\ Message.type = "GENERIC"
    BY <1>5, MessageType DEF ServerCalled
  <2>3. Message.method # "none"
    BY <2>2, MethodsAssumption DEF ClientMessage, Hello, Invalid, AllRequests
  <2>4. sCall' = [id |-> o.id, method |-> Message.method] => sCall' # NoCall
    BY <2>3 DEF NoCall
  <2> QED
    BY <1>1, <2>1, <2>4 DEF TodoIsInListener
<1> QED
  BY <1>1, <1>2, <1>3, <1>4, <1>5
     DEF ServerSteps, ServerDispatches, ServerHandles, ServerReads, ServerSeesHangup,
         ServerHandlesHello, ServerHandlesAck, ServerHandlesRoundtrip, ServerHandlesUnknown,
         ServerIgnoresRequest, ServerRejects, ServerFinishesBatch, ServerReaps, ServerCreates,
         ServerEmits, ServerDeclaresError, ServerRemovesClient, DropClient, sReadVars

\* What asks for object q, what answers that, and the requests of roundtrip n
\* and later ones.
AskingFor(q)  == {m \in ClientMessage : AsksFor(m) /\ m.seq = q}
Answering(q)  == {m \in ServerMessage : m.type = "FATAL" \/ (m.type = "NEW_OBJECT" /\ m.seq = q)}
RoundsFrom(n) == {m \in ClientMessage : m.type = "ROUNDTRIP_REQUEST" /\ m.seq >= n}

\* The server will answer for object q before it acknowledges roundtrip n.
InListener(q)    == \E t \in todo : t.seq = q
AnswersFor(q, n) == /\ scheduledRoundtrip < n
                    /\ InListener(q) \/ Before(Inbox, AskingFor(q), RoundsFrom(n))
AnswersNow(q)    == \E m \in Answering(q) : ServerSends(<<m>>)

\* What createObject sends is an answer.
LEMMA CreateObjectAnswers ==
    ASSUME ServerTypeOK, NEW p, NEW v, NEW q \in Nat, CreateObject(p, v, q)
    PROVE  AnswersNow(q)
<1>1. maxId \in Nat
  BY DEF ServerTypeOK
<1>2. NewObject(q, maxId) \in Answering(q) /\ FatalError(maxId) \in Answering(q)
  BY <1>1, ServerMessages DEF Answering, NewObject, FatalError
<1> QED
  BY <1>2, Zenon DEF CreateObject, AnswersNow

\* So is what an error sends.
LEMMA ErrorAnswers ==
    ASSUME NEW i \in Nat, NEW q, ServerRaises(i)
    PROVE  AnswersNow(q)
<1>1. FatalError(i) \in Answering(q)
  BY ServerMessages DEF Answering, FatalError
<1> QED
  BY <1>1 DEF ServerRaises, AnswersNow

\* A request that is handled is answered, or given to a listener.
LEMMA RequestIsServed ==
    ASSUME WireTypeOK, ServerTypeOK, ServerHandles, "make" \in Listened, NEW q \in Nat,
           Message \in AskingFor(q)
    PROVE  AnswersNow(q) \/ InListener(q)'
<1>1. Message \in ClientMessage /\ AsksFor(Message) /\ Message.seq = q
  BY DEF AskingFor
<1>2. CASE ServerHandlesBind
  BY <1>1, <1>2, CreateObjectAnswers DEF ServerHandlesBind
<1>3. CASE ServerHandlesUnknown
  <2>1. Message.object \in Nat
    BY <1>1, <1>3 DEF ServerHandlesUnknown, ClientMessage, Hello, Invalid
  <2> QED
    BY <1>3, <2>1, ErrorAnswers DEF ServerHandlesUnknown
<1>4. CASE ServerRejects
  BY <1>4, ErrorAnswers DEF ServerRejects
<1>5. ~ServerIgnoresRequest
  BY <1>1 DEF ServerIgnoresRequest, AsksFor, Creates
<1>6. CASE ServerCalled
  <2>1. Creates(Message.method)
    BY <1>1, <1>6 DEF ServerCalled, AsksFor
  <2>2. PICK o \in Addressed(Message.object) :
           \/ ServerRaises(o.id)
           \/ todo' = todo \cup {[protocol |-> o.protocol, version |-> o.version, seq |-> Message.seq]}
    BY <1>6, <2>1, Zenon DEF ServerCalled
  <2>3. o.id \in Nat
    BY DEF Addressed, ServerTypeOK, ServerObject
  <2>4. CASE todo' = todo \cup {[protocol |-> o.protocol, version |-> o.version, seq |-> Message.seq]}
    <3> DEFINE u == [protocol |-> o.protocol, version |-> o.version, seq |-> Message.seq]
    <3>1. u.seq = q
      BY <1>1
    <3>2. u \in todo'
      BY <2>4
    <3> HIDE DEF u
    <3> QED
      BY <3>1, <3>2 DEF InListener
  <2> QED
    BY <2>2, <2>3, <2>4, ErrorAnswers
<1> QED
  BY <1>1, <1>2, <1>3, <1>4, <1>5, <1>6 DEF ServerHandles, AsksFor, ServerHandlesHello,
     ServerHandlesAck, ServerHandlesRoundtrip

\* What a listener was asked for, it still has to answer, or it just did.
LEMMA ListenerAnswers ==
    ASSUME ServerTypeOK, ServerSteps, TodoIsInListener, NEW q \in Nat, InListener(q)
    PROVE  /\ InListener(q)' \/ AnswersNow(q) \/ ~serverOpen'
           /\ scheduledRoundtrip' = scheduledRoundtrip
<1>1. sCall # NoCall
  BY DEF TodoIsInListener, InListener
<1>2. ~ServerHandles /\ ~ServerFinishesBatch
  BY <1>1 DEF ServerParses, ServerFinishesBatch, ServerHandles, ServerHandlesHello, ServerHandlesAck,
     ServerHandlesBind, ServerHandlesRoundtrip, ServerHandlesUnknown, ServerIgnoresRequest,
     ServerCalled, ServerRejects
<1>3. CASE ServerCreates
  <2>1. PICK u \in todo : CreateObject(u.protocol, u.version, u.seq) /\ todo' = todo \ {u}
    BY <1>3 DEF ServerCreates
  <2>2. CASE u.seq = q
    <3>1. AnswersNow(q)
      BY <2>1, <2>2, CreateObjectAnswers
    <3> QED
      BY <1>3, <3>1 DEF ServerCreates
  <2>3. CASE u.seq # q
    <3>1. InListener(q)'
      BY <2>1, <2>3 DEF InListener
    <3> QED
      BY <1>3, <3>1 DEF ServerCreates
  <2> QED
    BY <2>2, <2>3
<1>4. CASE ServerReaps \/ ServerRemovesClient
  BY <1>4 DEF ServerReaps, ServerRemovesClient, DropClient
<1> QED
  BY <1>2, <1>3, <1>4 DEF InListener, ServerSteps, ServerDispatches, ServerReads, ServerSeesHangup,
     ServerListenerReturns, ServerEmits, ServerDeclaresError

\* An answer that is to come before an acknowledgement goes on being so, or
\* comes, unless the server gives up for an error.
LEMMA ServerAnswersInTurn ==
    ASSUME WireTypeOK, ServerTypeOK, ServerSteps, IdleIsEmpty, TodoIsInListener,
           "make" \in Listened, NEW q \in Nat, NEW n \in Nat, AnswersFor(q, n)
    PROVE  \/ AnswersFor(q, n)'
           \/ AnswersNow(q)
           \/ ~serverOpen'
           \/ sError
<1> DEFINE Goal == AnswersFor(q, n)' \/ AnswersNow(q) \/ ~serverOpen' \/ sError
<1> SUFFICES Goal
  OBVIOUS
<1>1. scheduledRoundtrip \in Nat /\ scheduledRoundtrip < n
  BY DEF AnswersFor, ServerTypeOK
<1>2. CASE InListener(q)
  BY <1>1, <1>2, ListenerAnswers DEF AnswersFor
<1>3. CASE Before(Inbox, AskingFor(q), RoundsFrom(n))
  <2>1. Inbox \in Seq(ClientMessage)
    BY InboxType
  <2>2. CASE ~ServerHandles
    <3>1. scheduledRoundtrip' < n
      BY <1>1, <2>2, ServerSchedules DEF ServerHandles
    <3>2. Inbox' = Inbox \/ sError
      BY <2>2, InboxMoves
    <3> QED
      BY <1>3, <3>1, <3>2 DEF AnswersFor
  <2>3. CASE ServerHandles
    <3>1. Inbox # <<>> /\ Head(Inbox) = Message /\ (Inbox' = Tail(Inbox) \/ ServerRejects)
      <4>1. ~ServerFinishesBatch \/ ~sError
        BY <2>3 DEF ServerFinishesBatch, ServerHandles, ServerHandlesHello, ServerHandlesAck,
           ServerHandlesBind, ServerHandlesRoundtrip, ServerHandlesUnknown, ServerIgnoresRequest,
           ServerCalled, ServerRejects, ServerParses
      <4> QED
        BY <2>3, <4>1, InboxMoves
    <3>2. Message \in ClientMessage
      BY <2>1, <3>1, HeadTailProperties
    <3>3. CASE Message \in AskingFor(q)
      <4>1. AnswersNow(q) \/ InListener(q)'
        BY <2>3, <3>3, RequestIsServed
      <4>2. scheduledRoundtrip' < n
        <5>1. Message.type # "ROUNDTRIP_REQUEST"
          BY <3>3 DEF AskingFor, AsksFor
        <5> QED
          BY <1>1, <5>1, ServerSchedules DEF ServerHandlesRoundtrip
      <4> QED
        BY <4>1, <4>2 DEF AnswersFor
    <3>4. CASE Message \notin RoundsFrom(n) /\ Before(Tail(Inbox), AskingFor(q), RoundsFrom(n))
      <4>1. ServerHandlesRoundtrip => Message.seq < n
        BY <3>2, <3>4 DEF ServerHandlesRoundtrip, RoundsFrom, ClientMessage, Hello, Invalid
      <4>2. scheduledRoundtrip' < n
        BY <1>1, <4>1, ServerSchedules
      <4>3. CASE ServerRejects
        BY <4>3, ErrorAnswers DEF ServerRejects
      <4>4. CASE Inbox' = Tail(Inbox)
        BY <3>4, <4>2, <4>4 DEF AnswersFor
      <4> QED
        BY <3>1, <4>3, <4>4
    <3> QED
      BY <1>3, <2>1, <3>1, <3>3, <3>4, FirstIsTaken
  <2> QED
    BY <2>2, <2>3
<1> QED
  BY <1>2, <1>3 DEF AnswersFor

\* What is sent to the server comes behind.
LEMMA InboxAppends ==
    ASSUME WireTypeOK, ServerTypeOK,
           NEW s \in Seq(ClientMessage), c2s' = c2s \o s, UNCHANGED sBatch
    PROVE  Inbox' = Inbox \o s
<1>1. sBatch \in Seq(ClientMessage) /\ c2s \in Seq(ClientMessage)
  BY DEF WireTypeOK, ServerTypeOK
<1>2. \A a, b \in Seq(ClientMessage) : a \o (b \o s) = (a \o b) \o s
  BY AppendsTwice
<1> QED
  BY <1>1, <1>2 DEF Inbox

-----------------------------------------------------------------------------
(* What the server can serve, it holds against nobody *)

\* The server has an object of this id, of this version or a later one, and is
\* not about to destroy it.
EndsCall(i)  == IsDestructor(sCall.method) /\ sCall.id = i
Serves(i, v) == /\ \E o \in sObjects : o.id = i /\ v <= o.version
                /\ ~EndsCall(i)

\* A message that can be handled without an error, objects asked for aside.
Servable(m) ==
    /\ m.type # "INVALID"
    /\ m.type = "GENERIC" => Serves(m.object, Since(m.method))

\* What is served goes on being served, until the server closes its end or
\* handles the message that ends it.
LEMMA ServerGoesOnServing ==
    ASSUME ServerTypeOK, ServerSteps, serverOpen', NEW i, NEW v, Serves(i, v)
    PROVE  Serves(i, v)' \/ (ServerHandles /\ EndsAt(Message, i))
<1> USE DEF sSessionVars, sObjectVars, sReadVars, wireVars
<1> DEFINE Goal == Serves(i, v)' \/ (ServerHandles /\ EndsAt(Message, i))
<1> SUFFICES Goal
  OBVIOUS
<1>1. PICK o \in sObjects : o.id = i /\ v <= o.version
  BY DEF Serves
<1>2. ASSUME \E u \in sObjects' : u.id = i /\ v <= u.version,
             sCall' = sCall \/ ~IsDestructor(sCall'.method)
      PROVE  Goal
  BY <1>2 DEF Serves, EndsCall
<1> HIDE DEF Goal
<1>3. CASE UNCHANGED <<sObjects, sCall>>
  BY <1>1, <1>2, <1>3
<1>4. CASE \/ ServerReads
           \/ ServerSeesHangup
           \/ ServerHandlesHello
           \/ ServerHandlesAck
           \/ ServerHandlesRoundtrip
           \/ ServerHandlesUnknown
           \/ ServerRejects
           \/ ServerFinishesBatch
           \/ ServerDeclaresError
  BY <1>3, <1>4 DEF ServerReads, ServerSeesHangup, ServerHandlesHello, ServerHandlesAck,
     ServerHandlesRoundtrip, ServerHandlesUnknown, ServerRejects, ServerFinishesBatch,
     ServerDeclaresError
<1>5. CASE ServerHandlesBind \/ ServerCreates
  <2>1. sObjects \subseteq sObjects'
    BY <1>5 DEF ServerHandlesBind, ServerCreates, CreateObject
  <2>2. sCall' = sCall \/ ~IsDestructor(sCall'.method)
    <3>1. CASE ServerCreates
      BY <3>1 DEF ServerCreates
    <3>2. CASE ServerHandlesBind
      <4>1. sCall' = NoCall \/ sCall' = [id |-> maxId, method |-> "bind"]
        BY <3>2, Zenon DEF ServerHandlesBind
      <4> QED
        BY <4>1 DEF NoCall, IsDestructor
    <3> QED
      BY <1>5, <3>1, <3>2
  <2> QED
    BY <1>1, <1>2, <2>1, <2>2
<1>6. CASE ServerIgnoresRequest
  <2>1. ServerHandles /\ sCall' = sCall /\ Message.type = "GENERIC"
    BY <1>6 DEF ServerIgnoresRequest, ServerHandles
  <2>2. CASE sObjects' = sObjects
    BY <1>3, <2>1, <2>2
  <2>3. CASE IsDestructor(Message.method) /\ sObjects' = WithoutObject(Message.object)
    <3>1. CASE Message.object = i
      BY <2>1, <2>3, <3>1 DEF EndsAt, Ends, Goal
    <3>2. CASE Message.object # i
      BY <1>1, <1>2, <2>1, <2>3, <3>2 DEF WithoutObject
    <3> QED
      BY <3>1, <3>2
  <2> QED
    BY <1>6, <2>2, <2>3 DEF ServerIgnoresRequest
<1>7. CASE ServerCalled
  <2>1. ServerHandles /\ sObjects' = sObjects /\ Message.type = "GENERIC"
    BY <1>7 DEF ServerCalled, ServerHandles
  <2>2. CASE sCall' = sCall
    BY <1>3, <2>1, <2>2
  <2>3. CASE sCall' = [id |-> Message.object, method |-> Message.method]
    <3>1. CASE EndsAt(Message, i)
      BY <2>1, <3>1 DEF Goal
    <3>2. CASE ~EndsAt(Message, i)
      BY <1>1, <2>1, <2>3, <3>2 DEF EndsAt, Ends, Serves, EndsCall, Goal
    <3> QED
      BY <3>1, <3>2
  <2> QED
    BY <1>7, <2>2, <2>3 DEF ServerCalled, Addressed
<1>8. CASE ServerListenerReturns
  <2>1. sCall' = NoCall /\ ~IsDestructor(NoCall.method)
    BY <1>8 DEF ServerListenerReturns, NoCall, IsDestructor
  <2>2. o \in sObjects'
    BY <1>1, <1>8 DEF ServerListenerReturns, WithoutObject, Serves, EndsCall
  <2> QED
    BY <1>1, <1>2, <2>1, <2>2
<1>9. CASE ServerEmits
  <2>1. sCall' = sCall /\ ServerSteps
    BY <1>9 DEF ServerEmits
  <2>2. CASE sObjects' = sObjects
    BY <1>3, <2>1, <2>2
  <2>3. CASE \E u \in sObjects, d \in BOOLEAN :
               sObjects' = (sObjects \ {u}) \cup {[u EXCEPT !.destroyed = d]}
    <3>1. PICK u \in sObjects, d \in BOOLEAN :
                 sObjects' = (sObjects \ {u}) \cup {[u EXCEPT !.destroyed = d]}
      BY <2>3
    <3>2. /\ [u EXCEPT !.destroyed = d].id = u.id
          /\ [u EXCEPT !.destroyed = d].version = u.version
      BY DEF ServerTypeOK, ServerObject
    <3>3. \E w \in sObjects' : w.id = i /\ v <= w.version
      BY <1>1, <3>1, <3>2
    <3> QED
      BY <1>2, <2>1, <3>3
  <2>4. \A m : IsDestructor(m) \in BOOLEAN
    BY DEF IsDestructor
  <2> QED
    BY <1>9, <2>2, <2>3, <2>4 DEF ServerEmits, Granted
<1>10. CASE ServerReaps \/ ServerRemovesClient
  BY <1>10, Zenon DEF ServerReaps, ServerRemovesClient, DropClient
<1> QED
  BY <1>4, <1>5, <1>6, <1>7, <1>8, <1>9, <1>10, Zenon DEF ServerSteps, ServerDispatches, ServerHandles

\* The server finds nothing wrong with a client that is there, asks for what
\* it is granted and sends what can be handled.
LEMMA ServerFindsNoFault ==
    ASSUME ServerTypeOK, ServerDispatches \/ ServerCreates \/ ServerRemovesClient,
           ~sError, clientOpen, ~sHup,
           \A r \in Asked : Grants(r.protocol, r.version),
           \A m \in Going : Servable(m),
           \A o, u \in sObjects : o.id = u.id => o = u
    PROVE  ~sError'
<1> USE DEF sSessionVars, sObjectVars, sReadVars, wireVars
<1>1. CASE sError' = sError
  BY <1>1
<1>2. ASSUME NEW r \in Asked, CreateObject(r.protocol, r.version, r.seq)
      PROVE  ~sError'
  <2>1. Grants(r.protocol, r.version)
    OBVIOUS
  <2>2. sError' = sError
    BY <1>2, <2>1, Zenon DEF CreateObject
  <2> QED
    BY <1>1, <2>2
<1>3. CASE ServerHandlesBind
  <2>1. Message \in Asked
    BY <1>3, MessageIsGoing DEF ServerHandlesBind, Asked
  <2> QED
    BY <1>2, <1>3, <2>1 DEF ServerHandlesBind
<1>4. CASE ServerCreates
  <2>1. PICK t \in todo : CreateObject(t.protocol, t.version, t.seq)
    BY <1>4 DEF ServerCreates
  <2> QED
    BY <1>2, <2>1 DEF Asked
<1>5. CASE ServerHandlesUnknown \/ ServerRejects
  <2>1. Servable(Message)
    BY <1>5, MessageIsGoing DEF ServerHandlesUnknown, ServerRejects
  <2> QED
    BY <1>5, <2>1 DEF Servable, Serves, ServerHandlesUnknown, ServerRejects, Addressed
<1>6. CASE ServerCalled
  <2>1. PICK o \in sObjects :
           /\ o.id = Message.object
           /\ Since(Message.method) > o.version \/ sError' = sError
    BY <1>6 DEF ServerCalled, Addressed
  <2>2. Servable(Message) /\ Message.type = "GENERIC"
    BY <1>6, MessageIsGoing DEF ServerCalled
  <2>3. PICK u \in sObjects : u.id = Message.object /\ Since(Message.method) <= u.version
    BY <2>2 DEF Servable, Serves
  <2>4. u = o /\ o.version \in Nat /\ Since(Message.method) \in Nat
    BY <2>1, <2>3 DEF ServerTypeOK, ServerObject, Since
  <2> QED
    BY <1>1, <2>1, <2>3, <2>4
<1>7. CASE ServerFinishesBatch
  BY <1>7, Zenon DEF ServerFinishesBatch
<1>8. CASE ServerSeesHangup
  BY <1>8, Zenon DEF ServerSeesHangup
<1>9. CASE \/ ServerReads
           \/ ServerHandlesHello
           \/ ServerHandlesAck
           \/ ServerHandlesRoundtrip
           \/ ServerIgnoresRequest
           \/ ServerListenerReturns
           \/ ServerReaps
           \/ ServerRemovesClient
  BY <1>1, <1>9, Zenon DEF ServerReads, ServerHandlesHello, ServerHandlesAck, ServerHandlesRoundtrip,
     ServerIgnoresRequest, ServerListenerReturns, ServerReaps, ServerRemovesClient
<1> QED
  BY <1>3, <1>4, <1>5, <1>6, <1>7, <1>8, <1>9, Zenon DEF ServerDispatches, ServerHandles

\* What is asked for goes on being granted: a new request is made of an object
\* that was granted, and what is exposed does not change once something is.
LEMMA ServerGoesOnGranting ==
    ASSUME WireTypeOK, ServerTypeOK, ServerSteps, FilterFirst, RefusedIsError, ~sError,
           \A r \in Asked : Grants(r.protocol, r.version)
    PROVE  \A r \in Asked' : Grants(r.protocol, r.version)'
<1>1. ASSUME NEW r \in Asked'
      PROVE  Grants(r.protocol, r.version)
  <2>1. CASE r \in Asked
    BY <2>1
  <2>2. CASE r \notin Asked
    <3>1. r \in todo' /\ r \notin todo
      BY <1>1, <2>2, ServerTakes DEF Asked
    <3>2. \E o \in sObjects : r.protocol = o.protocol /\ r.version = o.version
      BY <3>1, ServerIsAsked
    <3>3. sObjects \subseteq Granted
      BY DEF RefusedIsError
    <3> QED
      BY <3>2, <3>3 DEF Granted
  <2> QED
    BY <2>1, <2>2
<1>2. ASSUME NEW p, NEW v, Grants(p, v)
      PROVE  Grants(p, v)'
  <2>1. firstPollDone
    BY <1>2 DEF Grants, FilterFirst
  <2>2. exposed' = exposed
    BY <2>1, ServerSession
  <2> QED
    BY <1>2, <2>2 DEF Grants
<1> QED
  BY <1>1, <1>2
=============================================================================
