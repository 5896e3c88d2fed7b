-------------------------- MODULE Connection_proofs --------------------------
(***************************************************************************)
(* Theorems about a connection as a whole, for every choice of protocols,  *)
(* versions, methods, applications and peers' stray messages.              *)
(***************************************************************************)
EXTENDS Connection, ClientSocket_proofs, ServerClient_proofs

-----------------------------------------------------------------------------
(* Type correctness *)

\* The inductive form of TypeOK.
TypeInv == WireTypeOK /\ ServerTypeOK /\ ClientInv

\* A fresh pair of sockets satisfies it.
LEMMA TypeInit == Init => TypeInv
<1> SUFFICES ASSUME Init PROVE TypeInv
  OBVIOUS
<1>1. WireTypeOK
  <2>1. c2s \in Seq(ClientMessage)
    BY ClientMessages DEF Init, WireInit
  <2>2. s2c \in Seq(ServerMessage)
    BY EmptySeq DEF Init, WireInit
  <2> QED
    BY <2>1, <2>2 DEF Init, WireInit, WireTypeOK
<1>2. ServerTypeOK
  <2>1. /\ sError \in BOOLEAN
        /\ firstPollDone \in BOOLEAN
        /\ sHup \in BOOLEAN
    BY Zenon DEF Init, ServerInit
  <2>2. /\ exposed \subseteq Implemented
        /\ version \in Nat
        /\ maxId \in Nat \ {0}
        /\ sObjects \subseteq ServerObject
        /\ scheduledRoundtrip \in Nat
        /\ sPhase \in {"idle", "parse", "reap"}
        /\ todo \subseteq Todo
    BY DEF Init, ServerInit, FirstId
  <2>3. sBatch \in Seq(ClientMessage)
    BY EmptySeq DEF Init, ServerInit
  <2>4. sCall \in [id : Nat, method : AllRequests \cup {"bind", "none"}]
    BY DEF Init, ServerInit, NoCall
  <2> QED
    BY <2>1, <2>2, <2>3, <2>4 DEF ServerTypeOK
<1>3. ClientInv
  <2>1. cError \in BOOLEAN /\ handshakeDone \in BOOLEAN
    BY Zenon DEF Init, ClientInit
  <2>2. /\ serverSpecs \subseteq Protocols
        /\ cObjects \in Seq(ClientObject)
        /\ lastSent \in Nat
        /\ lastAckd \in Nat
        /\ pendingOutgoing \in Seq(Deferred)
        /\ stack \in Seq(Frame)
        /\ DeferredInRange
    BY EmptySeq DEF Init, ClientInit, DeferredInRange
  <2> QED
    BY <2>1, <2>2 DEF ClientInv, ClientTypeOK
<1> QED
  BY <1>1, <1>2, <1>3 DEF TypeInv

\* A stray message is one of those the reader of the queue must expect.
LEMMA StraysType ==
    ASSUME TypeInv
    PROVE  /\ ClientStrays => c2s' \in Seq(ClientMessage)
           /\ ServerStrays => s2c' \in Seq(ServerMessage)
BY ConnectionAssumption, ClientSendsOneType, ServerSendsOneType
   DEF TypeInv, ClientStrays, ServerStrays

\* What one side's variables are is not touched by the other side's steps.
LEMMA ServerUntouched ==
    ASSUME ServerTypeOK, UNCHANGED serverVars
    PROVE  ServerTypeOK'
BY DEF ServerTypeOK, serverVars, sSessionVars, sObjectVars, sReadVars

\* Nor are the client's by the server's steps.
LEMMA ClientUntouched ==
    ASSUME ClientInv, UNCHANGED clientVars
    PROVE  ClientInv'
BY DEF ClientInv, ClientTypeOK, DeferredInRange, clientVars

\* Every step of either end, of either application and of a stray keeps it.
LEMMA TypeStep == TypeInv /\ [Next]_vars => TypeInv'
<1> SUFFICES ASSUME TypeInv, [Next]_vars PROVE TypeInv'
  OBVIOUS
<1> USE DEF TypeInv
<1>1. CASE ClientSteps /\ UNCHANGED serverVars
  BY <1>1, ClientStepType, ServerUntouched
<1>2. CASE ServerSteps /\ UNCHANGED clientVars
  BY <1>2, ServerStepType, ClientUntouched
<1>3. CASE ClientStrays /\ UNCHANGED serverVars
  BY <1>3, StraysType, ServerUntouched, ClientUntouched DEF ClientStrays, WireTypeOK
<1>4. CASE ServerStrays /\ UNCHANGED clientVars
  BY <1>4, StraysType, ServerUntouched, ClientUntouched DEF ServerStrays, WireTypeOK
<1>5. CASE UNCHANGED vars
  BY <1>5, ServerUntouched, ClientUntouched DEF vars, wireVars, WireTypeOK
<1> QED
  BY <1>1, <1>2, <1>3, <1>4, <1>5
     DEF Next, ClientLibrary, ClientApp, ServerLibrary, ServerApp, ClientSteps, ServerSteps

\* Every variable of the connection keeps its type, and every deferred call
\* names an object, whatever either end does or receives.
THEOREM TypeInvariant == Spec => []TypeInv
<1>1. Init => TypeInv
  BY TypeInit
<1>2. TypeInv /\ [Next]_vars => TypeInv'
  BY TypeStep
<1> QED
  BY <1>1, <1>2, PTL DEF Spec

\* In particular every variable of a connection always has its type: ids,
\* versions and sequence numbers are numbers, and both queues and both
\* batches hold only messages their readers must expect.
THEOREM TypeCorrect == Spec => []TypeOK
<1>1. TypeInv => TypeOK
  BY DEF TypeInv, TypeOK, ClientInv
<1> QED
  BY <1>1, TypeInvariant, PTL

-----------------------------------------------------------------------------
(* Errors *)

\* A listener starts only from a message that is being parsed, and nothing is
\* parsed for a client that erred.
LEMMA CallsStartWithoutError ==
    ASSUME Next, sError, sCall = NoCall
    PROVE  sCall' = NoCall
<1> USE DEF sSessionVars, sObjectVars, sReadVars, wireVars
<1>1. CASE UNCHANGED serverVars
  BY <1>1 DEF serverVars
<1>2. CASE ServerHandles
  BY <1>2 DEF ServerHandles, ServerHandlesHello, ServerHandlesAck, ServerHandlesBind,
     ServerHandlesRoundtrip, ServerHandlesUnknown, ServerIgnoresRequest, ServerCalled,
     ServerRejects, ServerParses
<1>3. CASE ServerReads \/ ServerSeesHangup \/ ServerListenerReturns \/ ServerFinishesBatch \/ ServerReaps
  BY <1>3 DEF ServerReads, ServerSeesHangup, ServerListenerReturns, ServerFinishesBatch, ServerReaps
<1>4. CASE ServerCreates \/ ServerEmits \/ ServerDeclaresError \/ ServerRemovesClient
  BY <1>4 DEF ServerCreates, ServerEmits, ServerDeclaresError, ServerRemovesClient
<1>5. CASE ServerStrays
  BY <1>5 DEF ServerStrays, serverVars
<1> QED
  BY <1>1, <1>2, <1>3, <1>4, <1>5
     DEF Next, ClientLibrary, ClientApp, ServerLibrary, ServerApp, ServerDispatches

\* The server calls no listener for a client that erred, be it in the middle of
\* a batch (handleMessage's test of m_error).
THEOREM ErrorStops == Spec => ErrorStopsDispatch
<1>1. [Next]_vars => [sError /\ sCall = NoCall => sCall' = NoCall]_vars
  BY CallsStartWithoutError DEF vars
<1> QED
  BY <1>1, PTL DEF Spec, ErrorStopsDispatch

\* Who takes a step: the two ends one at a time, or a stray at either end.
LEMMA WhoSteps ==
    ASSUME [Next]_vars
    PROVE  \/ ClientSteps /\ UNCHANGED serverVars
           \/ ServerSteps /\ UNCHANGED clientVars
           \/ ClientStrays /\ UNCHANGED serverVars
           \/ ServerStrays /\ UNCHANGED clientVars
           \/ UNCHANGED vars
BY DEF Next, ClientLibrary, ClientApp, ServerLibrary, ServerApp, ClientSteps, ServerSteps

\* Only a stray adds to the queues what no end would write.
LEMMA StraysRange ==
    ASSUME TypeInv
    PROVE  /\ ClientStrays /\ UNCHANGED serverVars =>
                /\ Coming' = Coming
                /\ Going \subseteq Going'
                /\ Going' \subseteq Going \cup StrayToServer
           /\ ServerStrays /\ UNCHANGED clientVars =>
                /\ Going' = Going
                /\ Coming \subseteq Coming'
                /\ Coming' \subseteq Coming \cup StrayToClient
<1>1. ASSUME ClientStrays, UNCHANGED serverVars
      PROVE  /\ Coming' = Coming
             /\ Going \subseteq Going'
             /\ Going' \subseteq Going \cup StrayToServer
  <2>1. PICK m \in StrayToServer : ClientSends(<<m>>)
    BY <1>1 DEF ClientStrays
  <2>2. <<m>> \in Seq(ClientMessage)
    BY ConnectionAssumption
  <2>3. Range(c2s) \subseteq Range(c2s') /\ Range(c2s') \subseteq Range(c2s) \cup {m}
    BY <2>1, <2>2, ClientSendsRange, RangeOfShort DEF TypeInv
  <2> QED
    BY <1>1, <2>3 DEF ClientStrays, clientVars, serverVars, sReadVars, Going, Coming, Batches
<1>2. ASSUME ServerStrays, UNCHANGED clientVars
      PROVE  /\ Going' = Going
             /\ Coming \subseteq Coming'
             /\ Coming' \subseteq Coming \cup StrayToClient
  <2>1. PICK m \in StrayToClient : ServerSends(<<m>>)
    BY <1>2 DEF ServerStrays
  <2>2. <<m>> \in Seq(ServerMessage)
    BY ConnectionAssumption
  <2>3. Range(s2c) \subseteq Range(s2c') /\ Range(s2c') \subseteq Range(s2c) \cup {m}
    BY <2>1, <2>2, ServerSendsRange, RangeOfShort DEF TypeInv
  <2> QED
    BY <1>2, <2>3 DEF ServerStrays, clientVars, serverVars, sReadVars, Going, Coming, Batches
<1> QED
  BY <1>1, <1>2

\* Nothing is on the way that was not, when nothing moves, and the messages on
\* their way to one end are those of the queue while the other end steps.
LEMMA WireUntouched ==
    /\ UNCHANGED <<c2s, serverVars>> => Going' = Going
    /\ UNCHANGED <<s2c, clientVars>> => Coming' = Coming
    /\ UNCHANGED clientVars => Batches' = Batches
BY DEF serverVars, clientVars, sReadVars, Going, Coming, Batches

\* The base of the invariants below: types, and no batch but where messages
\* are parsed.
Sane == TypeInv /\ BatchesWhenParsing

\* A fresh connection is sane.
LEMMA SaneInit == Init => Sane
<1> SUFFICES ASSUME Init PROVE Sane
  OBVIOUS
<1>1. BatchesWhenParsing
  BY DEF Init, ClientInit, BatchesWhenParsing
<1> QED
  BY <1>1, TypeInit DEF Sane

\* Every step keeps it so.
LEMMA SaneStep == Sane /\ [Next]_vars => Sane'
<1> SUFFICES ASSUME Sane, [Next]_vars PROVE Sane'
  OBVIOUS
<1> USE DEF Sane
<1>1. TypeInv'
  BY TypeStep
<1>2. CASE ClientSteps
  BY <1>1, <1>2, BatchesWhenParsingStep DEF TypeInv
<1>3. CASE UNCHANGED clientVars
  BY <1>1, <1>3 DEF clientVars, BatchesWhenParsing
<1> QED
  BY <1>2, <1>3, WhoSteps DEF vars, ClientStrays

-----------------------------------------------------------------------------
(* Errors are told *)

\* What a hangup that was noticed, an error and a batch mean for the client.
HangupIsReal == sHup => ~clientOpen
ErrorKnown   == sError /\ clientOpen /\ ~cError => \E m \in Coming : m.type = "FATAL"

ToldInv == Sane /\ HangupIsReal /\ ErrorKnown

\* At the start there is no error and no batch.
LEMMA ToldInit == Init => ToldInv
<1> SUFFICES ASSUME Init PROVE ToldInv
  OBVIOUS
<1>1. HangupIsReal /\ ErrorKnown
  BY Zenon DEF Init, ServerInit, HangupIsReal, ErrorKnown
<1> QED
  BY <1>1, SaneInit DEF ToldInv

\* Every step keeps it: the server writes before it errs, and the client takes
\* a fatal error off the wire only by knowing of it.
LEMMA ToldStep == ToldInv /\ [Next]_vars => ToldInv'
<1> SUFFICES ASSUME ToldInv, [Next]_vars PROVE ToldInv'
  OBVIOUS
<1> /\ TypeInv
    /\ BatchesWhenParsing
    /\ HangupIsReal
    /\ ErrorKnown
    /\ WireTypeOK
    /\ ServerTypeOK
    /\ ClientInv
  BY DEF ToldInv, Sane, TypeInv
<1>1. Sane'
  BY SaneStep DEF Sane
<1>3. CASE ClientSteps /\ UNCHANGED serverVars
  <2>1. /\ cError => cError'
        /\ clientOpen' => clientOpen
        /\ \A m \in Coming : m.type = "FATAL" => m \in Coming' \/ cError'
    BY <1>3, ClientStaysClosed, ClientTakes
  <2>2. sError' = sError /\ sHup' = sHup
    BY <1>3 DEF serverVars, sReadVars
  <2>3. HangupIsReal'
    BY <2>1, <2>2, Zenon DEF HangupIsReal
  <2>4. ErrorKnown'
    BY <2>1, <2>2, Zenon DEF ErrorKnown
  <2> QED
    BY <1>1, <2>3, <2>4 DEF ToldInv
<1>4. CASE ServerSteps /\ UNCHANGED clientVars
  <2>1. /\ Range(s2c) \subseteq Range(s2c')
        /\ clientOpen' = clientOpen
        /\ sHup' => sHup \/ ~clientOpen
        /\ sError' => sError \/ sHup \/ ~clientOpen \/ \E m \in Range(s2c') : m.type = "FATAL"
    BY <1>4, ServerTells
  <2>2. cError' = cError /\ Batches' = Batches
    BY <1>4, WireUntouched DEF clientVars
  <2>3. HangupIsReal'
    BY <2>1, Zenon DEF HangupIsReal
  <2>4. Coming \subseteq Coming' /\ Range(s2c') \subseteq Coming'
    BY <2>1, <2>2 DEF Coming
  <2>5. ErrorKnown'
    BY <2>1, <2>2, <2>4, Zenon DEF ErrorKnown, HangupIsReal
  <2> QED
    BY <1>1, <2>3, <2>5 DEF ToldInv
<1>5. ASSUME UNCHANGED <<sError, sHup, clientOpen, cError>>, Coming \subseteq Coming'
      PROVE  ToldInv'
  <2>1. HangupIsReal'
    BY <1>5, Zenon DEF HangupIsReal
  <2>2. ErrorKnown'
    BY <1>5, Zenon DEF ErrorKnown
  <2> QED
    BY <1>1, <2>1, <2>2 DEF ToldInv
<1>6. CASE ClientStrays /\ UNCHANGED serverVars
  BY <1>5, <1>6, StraysRange DEF ClientStrays, serverVars, sReadVars, clientVars
<1>7. CASE ServerStrays /\ UNCHANGED clientVars
  BY <1>5, <1>7, StraysRange DEF ServerStrays, serverVars, sReadVars, clientVars
<1>8. CASE UNCHANGED vars
  BY <1>5, <1>8, WireUntouched DEF vars, wireVars, serverVars, sReadVars, clientVars
<1> QED
  BY <1>3, <1>4, <1>6, <1>7, <1>8, WhoSteps

\* What is on its way to the client is found in the queue or in a batch.
LEMMA ComingIsSomewhere ==
    ASSUME TypeInv
    PROVE  \A m : m \in Coming <=>
                    \/ \E k \in 1 .. Len(s2c) : s2c[k] = m
                    \/ \E f \in 1 .. Len(stack) :
                         \E k \in 1 .. Len(stack[f].batch) : stack[f].batch[k] = m
<1>1. Range(s2c) = {s2c[k] : k \in 1 .. Len(s2c)}
  BY RangeEquality DEF TypeInv, WireTypeOK
<1>2. ASSUME NEW f \in 1 .. Len(stack)
      PROVE  Range(stack[f].batch) = {stack[f].batch[k] : k \in 1 .. Len(stack[f].batch)}
  <2>1. stack[f] \in Frame
    BY ElementOfSeq DEF TypeInv, ClientInv, ClientTypeOK
  <2>2. stack[f].batch \in Seq(ServerMessage)
    BY <2>1 DEF Frame
  <2> QED
    BY <2>2, RangeEquality
<1> TAKE m
<1>3. m \in Range(s2c) <=> \E k \in 1 .. Len(s2c) : s2c[k] = m
  BY <1>1
<1>4. m \in Batches <=> \E f \in 1 .. Len(stack) : m \in Range(stack[f].batch)
  BY DEF Batches
<1>5. ASSUME NEW f \in 1 .. Len(stack)
      PROVE  m \in Range(stack[f].batch) <=>
               \E k \in 1 .. Len(stack[f].batch) : stack[f].batch[k] = m
  BY <1>2, <1>5
<1> QED
  BY <1>3, <1>4, <1>5, Zenon DEF Coming

\* Whatever the peers are and whatever strays write, a client is never cut off
\* without being told: as long as it is there and has not given up, every error
\* the server holds against it has a fatal error on its way to it.
THEOREM ErrorTold == Spec => []ErrorIsTold
<1>1. Init => ToldInv
  BY ToldInit
<1>2. ToldInv /\ [Next]_vars => ToldInv'
  BY ToldStep
<1>3. ToldInv => ErrorIsTold
  BY ComingIsSomewhere, Zenon DEF ToldInv, Sane, ErrorKnown, ErrorIsTold, IsFatal
<1> QED
  BY <1>1, <1>2, <1>3, PTL DEF Spec

-----------------------------------------------------------------------------
(* The handshake *)

\* No peer of another make takes part in the handshake under this
\* connection's name: strays neither choose a version nor list protocols, nor
\* offer the version this client speaks.
NoForgedHandshake ==
    /\ \A m \in StrayToServer : m.type # "HANDSHAKE_ACK"
    /\ \A m \in StrayToClient :
         /\ m.type # "HANDSHAKE_PROTOCOLS"
         /\ m.type = "HANDSHAKE_BEGIN" => HYPRWIRE_PROTOCOL_VER \notin m.versions

\* What the messages of the handshake say while they are on their way.
BeginIsMeant == \A m \in Coming :
    m.type = "HANDSHAKE_BEGIN" /\ HYPRWIRE_PROTOCOL_VER \in m.versions => firstPollDone
AckIsMeant == \A m \in Going :
    m.type = "HANDSHAKE_ACK" => m.version = HYPRWIRE_PROTOCOL_VER /\ firstPollDone
Settled == firstPollDone /\ version = HYPRWIRE_PROTOCOL_VER
ListIsMeant == \A m \in Coming :
    m.type = "HANDSHAKE_PROTOCOLS" => m.protocols = exposed /\ Settled
ClientAgrees ==
    IF handshakeDone THEN serverSpecs = exposed /\ Settled ELSE serverSpecs = {}

HandshakeParts == BeginIsMeant /\ AckIsMeant /\ ListIsMeant /\ ClientAgrees
HandshakeInv   == Sane /\ HandshakeParts

\* At the start only the hello is on its way.
LEMMA HandshakeInit == Init => HandshakeInv
<1> SUFFICES ASSUME Init PROVE HandshakeInv
  OBVIOUS
<1>1. Coming = {} /\ Going = {Hello}
  BY RangeOfShort DEF Init, WireInit, ServerInit, ClientInit, Coming, Batches, Going
<1>2. BeginIsMeant /\ AckIsMeant /\ ListIsMeant
  BY <1>1 DEF Hello, BeginIsMeant, AckIsMeant, ListIsMeant
<1>3. ClientAgrees
  BY Zenon DEF Init, ClientInit, ClientAgrees
<1> QED
  BY <1>2, <1>3, SaneInit DEF HandshakeInv, HandshakeParts

\* The client's part: it acknowledges what the server began, and knows what
\* the server listed.
LEMMA HandshakeClientStep ==
    ASSUME HandshakeInv, ClientSteps, UNCHANGED serverVars
    PROVE  HandshakeParts'
<1> /\ WireTypeOK
    /\ ClientInv
    /\ BatchesWhenParsing
    /\ BeginIsMeant
    /\ AckIsMeant
    /\ ListIsMeant
    /\ ClientAgrees
  BY DEF HandshakeInv, HandshakeParts, Sane, TypeInv
<1>1. UNCHANGED <<firstPollDone, exposed, version, sBatch>>
  BY DEF serverVars, sSessionVars, sReadVars
<1>2. Coming' \subseteq Coming
  BY ClientTakes
<1>3. BeginIsMeant'
  BY <1>1, <1>2, Zenon DEF BeginIsMeant
<1>4. ListIsMeant'
  BY <1>1, <1>2, Zenon DEF ListIsMeant, Settled
<1>5. ASSUME NEW m \in Going', m.type = "HANDSHAKE_ACK"
      PROVE  m.version = HYPRWIRE_PROTOCOL_VER /\ firstPollDone
  <2>1. CASE m \in Going
    BY <1>5, <2>1 DEF AckIsMeant
  <2>2. CASE m \notin Going
    <3>1. m \in Range(c2s') /\ m \notin Range(c2s)
      BY <1>1, <2>2 DEF Going
    <3>2. Acking(m)
      BY <1>5, <3>1, ClientWrites
         DEF Binding, BindProtocol, Calling, Generic, Flushing, Departing, FarewellTo,
            RoundtripRequest
    <3>3. firstPollDone
      BY <3>2, Zenon DEF Acking, BeginIsMeant
    <3> QED
      BY <3>2, <3>3 DEF Acking, HandshakeAck
  <2> QED
    BY <2>1, <2>2
<1>6. AckIsMeant'
  BY <1>1, <1>5, Zenon DEF AckIsMeant
<1>7. ClientAgrees'
  <2>1. CASE handshakeDone' = handshakeDone /\ serverSpecs' = serverSpecs
    BY <1>1, <2>1, Zenon DEF ClientAgrees, Settled
  <2>2. CASE \E n \in Coming : /\ n.type = "HANDSHAKE_PROTOCOLS"
                              /\ serverSpecs' = serverSpecs \cup n.protocols
                              /\ handshakeDone' = TRUE
    <3>1. PICK n \in Coming : /\ n.type = "HANDSHAKE_PROTOCOLS"
                              /\ serverSpecs' = serverSpecs \cup n.protocols
                              /\ handshakeDone' = TRUE
      BY <2>2, Zenon
    <3>2. n.protocols = exposed /\ Settled
      BY <3>1, Zenon DEF ListIsMeant
    <3>3. serverSpecs = exposed \/ serverSpecs = {}
      BY Zenon DEF ClientAgrees
    <3>4. serverSpecs' = exposed
      <4>1. serverSpecs' = serverSpecs \cup exposed
        BY <3>1, <3>2, Zenon
      <4> QED
        BY <3>3, <4>1
    <3>5. handshakeDone'
      BY <3>1, Zenon
    <3> QED
      BY <1>1, <3>2, <3>4, <3>5, Zenon DEF ClientAgrees, Settled
  <2> QED
    BY <2>1, <2>2, ClientShakesHands, Zenon
<1> QED
  BY <1>3, <1>4, <1>6, <1>7 DEF HandshakeParts

\* The server's part: it begins when the filter is settled, and lists what it
\* exposes to a client that chose the version.
LEMMA HandshakeServerStep ==
    ASSUME HandshakeInv, ServerSteps, UNCHANGED clientVars
    PROVE  HandshakeParts'
<1> /\ WireTypeOK
    /\ ServerTypeOK
    /\ BeginIsMeant
    /\ AckIsMeant
    /\ ListIsMeant
    /\ ClientAgrees
  BY DEF HandshakeInv, HandshakeParts, Sane, TypeInv
<1>1. /\ firstPollDone => firstPollDone' /\ exposed' = exposed
      /\ version' = version \/ \E a \in Going : a.type = "HANDSHAKE_ACK" /\ version' = a.version
  BY ServerSession, Zenon
<1>2. Settled => Settled'
  BY <1>1, Zenon DEF Settled, AckIsMeant
<1>3. Going' \subseteq Going
  BY ServerTakes
<1>4. AckIsMeant'
  BY <1>1, <1>3, Zenon DEF AckIsMeant
<1>5. UNCHANGED <<handshakeDone, serverSpecs>> /\ Batches' = Batches
  BY WireUntouched DEF clientVars
<1>6. ClientAgrees'
  BY <1>1, <1>2, <1>5, Zenon DEF ClientAgrees, Settled
<1>7. ASSUME NEW m \in Coming', m \notin Coming
      PROVE  /\ m.type = "HANDSHAKE_BEGIN" => firstPollDone'
             /\ m.type = "HANDSHAKE_PROTOCOLS" => m.protocols = exposed' /\ Settled'
  <2>1. m \in Range(s2c') /\ m \notin Range(s2c)
    BY <1>5, <1>7 DEF Coming
  <2>2. /\ m.type = "HANDSHAKE_BEGIN" => firstPollDone'
        /\ m.type = "HANDSHAKE_PROTOCOLS" =>
             /\ m.protocols = exposed
             /\ exposed' = exposed
             /\ \E a \in Going : a.type = "HANDSHAKE_ACK" /\ version' = a.version
    BY <2>1, ServerShakesHands
  <2> QED
    BY <1>1, <2>2, Zenon DEF AckIsMeant, Settled
<1>8. BeginIsMeant'
  BY <1>1, <1>7, Zenon DEF BeginIsMeant
<1>9. ListIsMeant'
  BY <1>1, <1>2, <1>7, Zenon DEF ListIsMeant, Settled
<1> QED
  BY <1>4, <1>6, <1>8, <1>9 DEF HandshakeParts

\* Nothing else counts: what strays write says nothing of the handshake.
LEMMA HandshakeStep ==
    ASSUME NoForgedHandshake
    PROVE  HandshakeInv /\ [Next]_vars => HandshakeInv'
<1> SUFFICES ASSUME HandshakeInv, [Next]_vars PROVE HandshakeInv'
  OBVIOUS
<1>1. Sane' /\ TypeInv
  BY SaneStep DEF HandshakeInv, Sane
<1>2. CASE ClientSteps /\ UNCHANGED serverVars
  BY <1>1, <1>2, HandshakeClientStep DEF HandshakeInv
<1>3. CASE ServerSteps /\ UNCHANGED clientVars
  BY <1>1, <1>3, HandshakeServerStep DEF HandshakeInv
<1>4. ASSUME UNCHANGED <<firstPollDone, exposed, version, handshakeDone, serverSpecs>>,
             Going' \subseteq Going \cup StrayToServer, Coming' \subseteq Coming \cup StrayToClient
      PROVE  HandshakeInv'
  <2> /\ BeginIsMeant
      /\ AckIsMeant
      /\ ListIsMeant
      /\ ClientAgrees
    BY DEF HandshakeInv, HandshakeParts
  <2>1. BeginIsMeant'
    BY <1>4, Zenon DEF BeginIsMeant, NoForgedHandshake
  <2>2. AckIsMeant'
    BY <1>4, Zenon DEF AckIsMeant, NoForgedHandshake
  <2>3. ListIsMeant'
    BY <1>4, Zenon DEF ListIsMeant, NoForgedHandshake, Settled
  <2>4. ClientAgrees'
    BY <1>4, Zenon DEF ClientAgrees, Settled
  <2> QED
    BY <1>1, <2>1, <2>2, <2>3, <2>4 DEF HandshakeInv, HandshakeParts
<1>5. CASE ClientStrays /\ UNCHANGED serverVars
  BY <1>1, <1>4, <1>5, StraysRange DEF ClientStrays, serverVars, sSessionVars, clientVars
<1>6. CASE ServerStrays /\ UNCHANGED clientVars
  BY <1>1, <1>4, <1>6, StraysRange DEF ServerStrays, serverVars, sSessionVars, clientVars
<1>7. CASE UNCHANGED vars
  BY <1>4, <1>7, WireUntouched DEF vars, wireVars, serverVars, sSessionVars, clientVars
<1> QED
  BY <1>2, <1>3, <1>5, <1>6, <1>7, WhoSteps

\* A client that has finished the handshake knows exactly what the server
\* exposes, and the server the version it speaks, however often either
\* says hello again and whatever else strays write.
THEOREM HandshakeAgrees ==
    ASSUME NoForgedHandshake
    PROVE  Spec => []HandshakeAgreed
<1>1. Init => HandshakeInv
  BY HandshakeInit
<1>2. HandshakeInv /\ [Next]_vars => HandshakeInv'
  BY HandshakeStep
<1>3. HandshakeInv => HandshakeAgreed
  BY Zenon DEF HandshakeInv, HandshakeParts, ClientAgrees, Settled, HandshakeAgreed
<1> QED
  BY <1>1, <1>2, <1>3, PTL DEF Spec

-----------------------------------------------------------------------------
(* Objects *)

\* No peer of another make asks for objects or announces them under this
\* connection's name: strays neither bind nor call what creates, and announce
\* nothing this client could have asked for.
NoForgedObjects ==
    /\ \A m \in StrayToServer :
         /\ m.type # "BIND_PROTOCOL"
         /\ m.type = "GENERIC" => ~Creates(m.method)
    /\ \A m \in StrayToClient : m.type = "NEW_OBJECT" => m.seq \notin 1 .. MaxSeq

\* What a request, or the object made for it, has in common with the client's
\* object: creating calls do not fix a version.
Fits(r) ==
    /\ r.seq \in 1 .. Len(cObjects)
    /\ r.protocol = cObjects[r.seq].protocol
    /\ cObjects[r.seq].version \in {0, r.version}

\* An object a creating call asks for, whose parent has protocol p.
FitsCall(q, p) ==
    /\ q \in 1 .. Len(cObjects)
    /\ cObjects[q].version = 0
    /\ cObjects[q].protocol = p

SeqsBounded == Len(cObjects) <= MaxSeq
RequestsFit == \A r \in Asked : Fits(r)
ServedFit   == \A o \in sObjects : Fits(o)
DeferredFit == \A k \in 1 .. Len(pendingOutgoing) :
    Creates(pendingOutgoing[k].method)
      => FitsCall(pendingOutgoing[k].seq, cObjects[pendingOutgoing[k].dependsOn].protocol)
CallsFit == \A m \in Going :
    m.type = "GENERIC" /\ Creates(m.method)
      => /\ m.object < maxId
         /\ \E p \in Protocols : FitsCall(m.seq, p)
         /\ \A o \in sObjects : o.id = m.object => FitsCall(m.seq, o.protocol)

\* Where a seq and an id are tied together: in an announcement on its way, at
\* the client that read it, and at the server.
Announced == {m \in Coming : m.type = "NEW_OBJECT" /\ m.seq \in 1 .. MaxSeq}
Pair(q, i) == [seq |-> q, id |-> i]
Ties == {Pair(m.seq, m.id) : m \in Announced}
          \cup {Pair(q, cObjects[q].id) : q \in {r \in 1 .. Len(cObjects) : cObjects[r].id # 0}}
          \cup {Pair(o.seq, o.id) : o \in sObjects}

IdsSpent   == \A b \in Ties : 0 < b.id /\ b.id < maxId
IdsTieOnce == \A b, c \in Ties : b.id = c.id => b.seq = c.seq
IdsUnique  == \A o, u \in sObjects : o.id = u.id => o = u

\* What is announced or known was not hidden.
FilterHolds  ==
    /\ \A m \in Announced : m.seq \in 1 .. Len(cObjects) /\ cObjects[m.seq].protocol \in exposed
    /\ \A q \in 1 .. Len(cObjects) : cObjects[q].id # 0 => cObjects[q].protocol \in exposed

ObjectsParts ==
    /\ SeqsBounded
    /\ RequestsFit
    /\ ServedFit
    /\ DeferredFit
    /\ CallsFit
    /\ IdsSpent
    /\ IdsTieOnce
    /\ IdsUnique
    /\ FilterFirst
    /\ FilterHolds

ObjectsInv == Sane /\ ObjectsParts

\* At the start there is nothing to fit or to tie.
LEMMA ObjectsInit == Init => ObjectsInv
<1> SUFFICES ASSUME Init PROVE ObjectsInv
  OBVIOUS
<1>1. Coming = {} /\ Going = {Hello}
  BY RangeOfShort DEF Init, WireInit, ServerInit, ClientInit, Coming, Batches, Going
<1>2. Len(cObjects) = 0 /\ Len(pendingOutgoing) = 0 /\ sObjects = {} /\ todo = {}
  BY DEF Init, ClientInit, ServerInit
<1>3. Asked = {} /\ Ties = {}
  BY <1>1, <1>2 DEF Asked, Hello, Ties, Announced
<1>4. SeqsBounded /\ RequestsFit /\ ServedFit /\ DeferredFit
  BY <1>2, <1>3, ClientAssumption DEF SeqsBounded, RequestsFit, ServedFit, DeferredFit
<1>5. CallsFit
  BY <1>1 DEF CallsFit, Hello
<1>6. IdsSpent /\ IdsTieOnce /\ IdsUnique
  BY <1>2, <1>3 DEF IdsSpent, IdsTieOnce, IdsUnique
<1>7. FilterFirst
  BY Zenon DEF Init, ServerInit, FilterFirst
<1>8. FilterHolds
  BY <1>1, <1>2 DEF FilterHolds, Announced
<1> QED
  BY <1>4, <1>5, <1>6, <1>7, <1>8, SaneInit DEF ObjectsInv, ObjectsParts

\* What fits an object of the client's goes on fitting it.
LEMMA FitsStays ==
    ASSUME TypeInv, ObjectsGoOn
    PROVE  /\ \A r : Fits(r) => Fits(r)'
           /\ \A q, p : FitsCall(q, p) => FitsCall(q, p)'
<1>1. Len(cObjects) \in Nat
  BY LenProperties DEF TypeInv, ClientInv, ClientTypeOK
<1>2. \A q \in 1 .. Len(cObjects) :
        /\ q \in 1 .. Len(cObjects')
        /\ cObjects'[q].protocol = cObjects[q].protocol
        /\ cObjects'[q].version = cObjects[q].version
  BY <1>1 DEF ObjectsGoOn, Succeeds
<1> QED
  BY <1>2, Zenon DEF Fits, FitsCall

\* The newest object fits its request.
LEMMA FreshFits ==
    ASSUME TypeInv, NEW p, NEW v, Fresh(p, v)
    PROVE  /\ Len(cObjects) + 1 \in 1 .. Len(cObjects')
           /\ cObjects'[Len(cObjects) + 1].protocol = p
           /\ cObjects'[Len(cObjects) + 1].version = v
<1>1. Len(cObjects) \in Nat
  BY LenProperties DEF TypeInv, ClientInv, ClientTypeOK
<1> QED
  BY <1>1 DEF Fresh

\* The client learns ids only from announcements, so it ties no seq to an id
\* anew.
LEMMA ClientTies ==
    ASSUME ObjectsInv, ClientSteps, UNCHANGED serverVars
    PROVE  /\ Announced' \subseteq Announced
           /\ Ties' \subseteq Ties
           /\ \A q \in 1 .. Len(cObjects') : cObjects'[q].id # 0
                => /\ q \in 1 .. Len(cObjects)
                   /\ \/ cObjects'[q].id = cObjects[q].id
                      \/ \E n \in Announced : n.seq = q /\ n.id = cObjects'[q].id
<1> /\ WireTypeOK
    /\ ClientInv
    /\ BatchesWhenParsing
    /\ Len(cObjects) \in Nat
    /\ ObjectsParts
  BY LenProperties DEF ObjectsInv, Sane, TypeInv, ClientInv, ClientTypeOK
<1>1. /\ sObjects' = sObjects
      /\ Coming' \subseteq Coming
      /\ ObjectsGoOn
  BY ClientTakes, ClientKeepsNames DEF serverVars, sObjectVars
<1>2. /\ Len(cObjects') \in {Len(cObjects), Len(cObjects) + 1}
      /\ \A q \in 1 .. Len(cObjects) : cObjects'[q].id = cObjects[q].id \/ Learns(q)
  BY <1>1 DEF ObjectsGoOn
<1>3. Announced' \subseteq Announced
  BY <1>1 DEF Announced
<1>4. ASSUME NEW q \in 1 .. Len(cObjects'), cObjects'[q].id # 0
       PROVE  /\ q \in 1 .. Len(cObjects)
              /\ \/ cObjects'[q].id = cObjects[q].id
                 \/ \E n \in Announced : n.seq = q /\ n.id = cObjects'[q].id
  <2>1. q \in 1 .. Len(cObjects)
    BY <1>1, <1>2, <1>4 DEF ObjectsGoOn
  <2>2. CASE Learns(q)
    <3>1. PICK n \in Coming : n.type = "NEW_OBJECT" /\ n.seq = q /\ n.id = cObjects'[q].id
      BY <2>2 DEF Learns
    <3>2. q \in 1 .. MaxSeq
      BY <2>1, ClientAssumption DEF ObjectsParts, SeqsBounded
    <3> QED
      BY <2>1, <3>1, <3>2 DEF Announced
  <2> QED
    BY <1>2, <2>1, <2>2
<1>5. Ties' \subseteq Ties
  <2>1. ASSUME NEW q \in 1 .. Len(cObjects'), cObjects'[q].id # 0
        PROVE  Pair(q, cObjects'[q].id) \in Ties
    BY <1>4, <2>1 DEF Ties
  <2>2. ASSUME NEW m \in Announced'
        PROVE  Pair(m.seq, m.id) \in Ties
    BY <1>3 DEF Ties
  <2>3. ASSUME NEW o \in sObjects
        PROVE  Pair(o.seq, o.id) \in Ties
    BY DEF Ties
  <2> QED
    BY <1>1, <2>1, <2>2, <2>3 DEF Ties, Pair
<1> QED
  BY <1>3, <1>4, <1>5

\* The client's part: its requests fit, and it learns only announced ids.
LEMMA ObjectsClientStep ==
    ASSUME ObjectsInv, ClientSteps, UNCHANGED serverVars
    PROVE  ObjectsParts'
<1> /\ WireTypeOK
    /\ ClientInv
    /\ TypeInv
    /\ BatchesWhenParsing
    /\ Len(cObjects) \in Nat
    /\ ObjectsParts
  BY LenProperties DEF ObjectsInv, Sane, TypeInv, ClientInv, ClientTypeOK
<1>1. /\ UNCHANGED <<firstPollDone, exposed, sBatch, maxId, sObjects, todo>>
      /\ Coming' \subseteq Coming
      /\ ObjectsGoOn
  BY ClientTakes, ClientKeepsNames DEF serverVars, sSessionVars, sReadVars, sObjectVars
<1>2. /\ Len(cObjects') \in {Len(cObjects), Len(cObjects) + 1}
      /\ \A q \in 1 .. Len(cObjects) :
           /\ q \in 1 .. Len(cObjects')
           /\ cObjects'[q].protocol = cObjects[q].protocol
           /\ cObjects'[q].version = cObjects[q].version
           /\ cObjects'[q].id = cObjects[q].id \/ Learns(q)
  BY <1>1 DEF ObjectsGoOn, Succeeds
<1>3. /\ \A r : Fits(r) => Fits(r)'
      /\ \A q, p : FitsCall(q, p) => FitsCall(q, p)'
  BY <1>1, FitsStays
<1>4. ASSUME NEW m \in Going'
      PROVE  m \in Going \/ (m \in Range(c2s') /\ m \notin Range(c2s))
  BY <1>1, <1>4 DEF Going
<1>5. SeqsBounded'
  BY <1>1, ClientAssumption DEF ObjectsGoOn, ObjectsParts, SeqsBounded
<1>6. RequestsFit'
  <2>1. ASSUME NEW m \in Going', m.type = "BIND_PROTOCOL"
        PROVE  Fits(m)'
    <3>1. CASE m \in Going
      BY <1>3, <2>1, <3>1 DEF ObjectsParts, RequestsFit, Asked
    <3>2. CASE m \notin Going
      <4>1. Binding(m)
        BY <1>4, <2>1, <3>2, ClientWrites
           DEF Acking, HandshakeAck, Calling, Generic, Flushing, Departing, FarewellTo, RoundtripRequest
      <4>2. PICK p \in Protocols, v \in 1 .. 2 :
               m = BindProtocol(Len(cObjects) + 1, p, v) /\ Fresh(p, v)
        BY <4>1 DEF Binding
      <4>3. m.seq = Len(cObjects) + 1 /\ m.protocol = p /\ m.version = v
        BY <4>2 DEF BindProtocol
      <4> QED
        BY <4>2, <4>3, FreshFits DEF Fits
    <3> QED
      BY <3>1, <3>2
  <2>2. ASSUME NEW t \in todo
        PROVE  Fits(t)'
    BY <1>3 DEF ObjectsParts, RequestsFit, Asked
  <2> QED
    BY <1>1, <2>1, <2>2 DEF RequestsFit, Asked
<1>7. ServedFit'
  BY <1>1, <1>3 DEF ObjectsParts, ServedFit
<1>8. DeferredFit'
  <2>1. ASSUME NEW k \in 1 .. Len(pendingOutgoing'), Creates(pendingOutgoing'[k].method)
        PROVE  FitsCall(pendingOutgoing[k].seq, cObjects[pendingOutgoing[k].dependsOn].protocol)'
    <3>1. CASE \E j \in 1 .. Len(pendingOutgoing) : pendingOutgoing'[k] = pendingOutgoing[j]
      <4>1. PICK j \in 1 .. Len(pendingOutgoing) : pendingOutgoing'[k] = pendingOutgoing[j]
        BY <3>1
      <4>2. /\ FitsCall(pendingOutgoing[j].seq, cObjects[pendingOutgoing[j].dependsOn].protocol)
            /\ pendingOutgoing[j].dependsOn \in 1 .. Len(cObjects)
        BY <2>1, <4>1 DEF ObjectsParts, DeferredFit, ClientInv, DeferredInRange
      <4> QED
        BY <1>2, <1>3, <4>1, <4>2 DEF FitsCall
    <3>2. CASE Deferring(pendingOutgoing'[k])
      <4>1. PICK q \in 1 .. Len(cObjects), x \in Requests :
               /\ pendingOutgoing'[k] = [dependsOn |-> q, method |-> x, seq |-> CallSeq(x)]
               /\ Creates(x) => Fresh(cObjects[q].protocol, 0)
        BY <3>2 DEF Deferring
      <4>2. Creates(x) /\ pendingOutgoing'[k].seq = Len(cObjects) + 1 /\ pendingOutgoing'[k].dependsOn = q
        BY <2>1, <4>1 DEF CallSeq
      <4> QED
        BY <1>2, <4>1, <4>2, FreshFits DEF FitsCall
    <3> QED
      BY <3>1, <3>2, ClientDefers
  <2> QED
    BY <2>1 DEF DeferredFit
<1>9. ASSUME NEW q \in 1 .. Len(cObjects), cObjects[q].id # 0
      PROVE  /\ cObjects[q].id < maxId
             /\ \A o \in sObjects : o.id = cObjects[q].id => o.protocol = cObjects[q].protocol
  <2>1. Pair(q, cObjects[q].id) \in Ties
    BY <1>9 DEF Ties
  <2>2. \A o \in sObjects : Pair(o.seq, o.id) \in Ties
    BY DEF Ties
  <2>3. cObjects[q].id < maxId
    BY <2>1 DEF ObjectsParts, IdsSpent, Pair
  <2>4. ASSUME NEW o \in sObjects, o.id = cObjects[q].id
        PROVE  o.protocol = cObjects[q].protocol
    <3>1. o.seq = q
      BY <2>1, <2>2, <2>4 DEF ObjectsParts, IdsTieOnce, Pair
    <3> QED
      BY <3>1 DEF ObjectsParts, ServedFit, Fits
  <2> QED
    BY <2>3, <2>4
<1>10. CallsFit'
  <2>1. ASSUME NEW m \in Going', m.type = "GENERIC", Creates(m.method)
        PROVE  /\ m.object < maxId
               /\ \E p \in Protocols : FitsCall(m.seq, p)'
               /\ \A o \in sObjects : o.id = m.object => FitsCall(m.seq, o.protocol)'
    <3>1. CASE m \in Going
      BY <1>3, <2>1, <3>1 DEF ObjectsParts, CallsFit
    <3>2. ASSUME NEW q \in 1 .. Len(cObjects), cObjects[q].id # 0, m.object = cObjects[q].id,
                 FitsCall(m.seq, cObjects[q].protocol)'
          PROVE  /\ m.object < maxId
                 /\ \E p \in Protocols : FitsCall(m.seq, p)'
                 /\ \A o \in sObjects : o.id = m.object => FitsCall(m.seq, o.protocol)'
      <4>1. cObjects[q].protocol \in Protocols
        <5>1. cObjects[q] \in ClientObject
          BY ElementOfSeq DEF ClientInv, ClientTypeOK
        <5> QED
          BY <5>1 DEF ClientObject
      <4>2. cObjects'[q].protocol = cObjects[q].protocol
        BY <1>2
      <4> QED
        BY <1>9, <3>2, <4>1, <4>2 DEF FitsCall
    <3>3. CASE m \notin Going
      <4>1. Calling(m) \/ Flushing(m)
        <5>1. ~Departing(m)
          BY <2>1 DEF Departing, FarewellTo, Generic, Creates
        <5> QED
          BY <1>4, <2>1, <3>3, <5>1, ClientWrites DEF Acking, HandshakeAck, Binding, BindProtocol,
             RoundtripRequest
      <4>2. CASE Calling(m)
        <5>1. PICK q \in 1 .. Len(cObjects), x \in Requests :
                 /\ m = Generic(cObjects[q].id, x, CallSeq(x))
                 /\ cObjects[q].id # 0
                 /\ Creates(x) => Fresh(cObjects[q].protocol, 0)
          BY <4>2 DEF Calling
        <5>2. Creates(x) /\ m.seq = Len(cObjects) + 1 /\ m.object = cObjects[q].id
          BY <2>1, <5>1 DEF Generic, CallSeq
        <5>3. FitsCall(m.seq, cObjects[q].protocol)'
          BY <1>2, <5>1, <5>2, FreshFits DEF FitsCall
        <5> QED
          BY <3>2, <5>1, <5>2, <5>3
      <4>3. CASE Flushing(m)
        <5>1. PICK k \in 1 .. Len(pendingOutgoing) :
                 /\ cObjects[pendingOutgoing[k].dependsOn].id # 0
                 /\ m = Generic(cObjects[pendingOutgoing[k].dependsOn].id, pendingOutgoing[k].method,
                                pendingOutgoing[k].seq)
          BY <4>3 DEF Flushing
        <5>2. /\ m.seq = pendingOutgoing[k].seq
              /\ m.object = cObjects[pendingOutgoing[k].dependsOn].id
              /\ Creates(pendingOutgoing[k].method)
          BY <2>1, <5>1 DEF Generic
        <5>3. PICK q \in 1 .. Len(cObjects) : pendingOutgoing[k].dependsOn = q
          BY DEF ClientInv, DeferredInRange
        <5>4. FitsCall(m.seq, cObjects[q].protocol)
          BY <5>2, <5>3 DEF ObjectsParts, DeferredFit
        <5>5. FitsCall(m.seq, cObjects[q].protocol)'
          BY <1>2, <1>3, <5>4 DEF FitsCall
        <5> QED
          BY <3>2, <5>1, <5>2, <5>3, <5>5
      <4> QED
        BY <4>1, <4>2, <4>3
    <3> QED
      BY <3>1, <3>3
  <2> QED
    BY <1>1, <2>1 DEF CallsFit, FitsCall
<1>11. /\ Announced' \subseteq Announced
       /\ Ties' \subseteq Ties
       /\ \A q \in 1 .. Len(cObjects') : cObjects'[q].id # 0
            => /\ q \in 1 .. Len(cObjects)
               /\ \/ cObjects'[q].id = cObjects[q].id
                  \/ \E n \in Announced : n.seq = q /\ n.id = cObjects'[q].id
  BY ClientTies
<1>14. IdsSpent' /\ IdsTieOnce' /\ IdsUnique'
  BY <1>1, <1>11 DEF ObjectsParts, IdsSpent, IdsTieOnce, IdsUnique
<1>15. FilterFirst'
  BY <1>1, Zenon DEF ObjectsParts, FilterFirst
<1>16. FilterHolds'
  BY <1>1, <1>2, <1>11 DEF ObjectsParts, FilterHolds
<1> QED
  BY <1>5, <1>6, <1>7, <1>8, <1>10, <1>14, <1>15, <1>16 DEF ObjectsParts

\* Both halves of a tie are numbers.
LEMMA TiesAreNumbers ==
    ASSUME TypeInv
    PROVE  \A b \in Ties : b.seq \in Nat /\ b.id \in Nat
<1>1. \A m \in Announced : m.seq \in Nat /\ m.id \in Nat
  BY ComingIsTyped DEF TypeInv, ClientInv, Announced, ServerMessage, Invalid
<1>2. ASSUME NEW q \in 1 .. Len(cObjects)
      PROVE  cObjects[q].id \in Nat /\ q \in Nat
  <2>1. cObjects[q] \in ClientObject
    BY ElementOfSeq DEF TypeInv, ClientInv, ClientTypeOK
  <2> QED
    BY <2>1, LenProperties DEF ClientObject, TypeInv, ClientInv, ClientTypeOK
<1>3. \A o \in sObjects : o.seq \in Nat /\ o.id \in Nat
  BY DEF TypeInv, ServerTypeOK, ServerObject
<1> QED
  BY <1>1, <1>2, <1>3 DEF Ties, Pair

\* The server ties a seq to an id when it makes the object, and only then.
LEMMA ServerTies ==
    ASSUME TypeInv, ServerSteps, UNCHANGED clientVars
    PROVE  /\ KeepsObjects => /\ Announced' \subseteq Announced
                              /\ Ties' \subseteq Ties
           /\ \A r : MakesFor(r) =>
                /\ \A m \in Announced' :
                     m \in Announced \/ (m = NewObject(r.seq, maxId) /\ r.protocol \in exposed)
                /\ \A b \in Ties' : b \in Ties \/ b = Pair(r.seq, maxId)
<1>1. UNCHANGED <<cObjects, stack>>
  BY DEF clientVars
<1>2. ASSUME KeepsObjects
      PROVE  Announced' \subseteq Announced /\ Ties' \subseteq Ties
  <2>1. /\ \A o \in sObjects' : \E u \in sObjects : o.id = u.id /\ o.seq = u.seq
        /\ Announced' \subseteq Announced
    BY <1>1, <1>2, KeptKeepTheirNames DEF TypeInv, KeepsObjects, Announced, Coming, Batches
  <2> QED
    BY <1>1, <2>1 DEF Ties, Pair
<1>3. ASSUME NEW r, MakesFor(r)
      PROVE  /\ \A m \in Announced' :
                  m \in Announced \/ (m = NewObject(r.seq, maxId) /\ r.protocol \in exposed)
             /\ \A b \in Ties' : b \in Ties \/ b = Pair(r.seq, maxId)
  <2>1. sObjects' = sObjects \cup {Made(r)}
    BY <1>3 DEF MakesFor
  <2>2. Made(r).id = maxId /\ Made(r).seq = r.seq
    BY DEF Made
  <2>3. ASSUME NEW m \in Announced'
        PROVE  m \in Announced \/ (m = NewObject(r.seq, maxId) /\ r.protocol \in exposed)
    BY <1>1, <1>3 DEF MakesFor, Announced, Coming, Batches
  <2>4. ASSUME NEW b \in Ties'
        PROVE  b \in Ties \/ b = Pair(r.seq, maxId)
    BY <1>1, <2>1, <2>2, <2>3 DEF Ties, NewObject
  <2> QED
    BY <2>3, <2>4
<1> QED
  BY <1>2, <1>3

\* The server's part: it makes objects only as asked, under fresh ids, and
\* announces only what it exposes.
LEMMA ObjectsServerStep ==
    ASSUME ObjectsInv, ServerSteps, UNCHANGED clientVars
    PROVE  ObjectsParts'
<1> /\ WireTypeOK
    /\ ServerTypeOK
    /\ TypeInv
    /\ ObjectsParts
    /\ Len(cObjects) \in Nat
  BY LenProperties DEF ObjectsInv, Sane, TypeInv, ClientInv, ClientTypeOK
<1>1. UNCHANGED <<cObjects, stack, pendingOutgoing>>
  BY DEF clientVars
<1>2. Going' \subseteq Going
  BY ServerTakes
<1>3. exposed \subseteq exposed' /\ FilterFirst'
  BY ServerSession, Zenon DEF ObjectsParts, FilterFirst
<1>4. /\ \A r : Fits(r)' <=> Fits(r)
      /\ \A q, p : FitsCall(q, p)' <=> FitsCall(q, p)
  BY <1>1 DEF Fits, FitsCall
<1>5. SeqsBounded' /\ DeferredFit'
  BY <1>1, <1>4 DEF ObjectsParts, SeqsBounded, DeferredFit
<1>6. RequestsFit'
  <2>1. ASSUME NEW t \in todo'
        PROVE  Fits(t)
    <3>1. CASE t \in todo
      BY <3>1 DEF ObjectsParts, RequestsFit, Asked
    <3>2. CASE \E o \in sObjects, m \in Going :
                 /\ m.type = "GENERIC"
                 /\ Creates(m.method)
                 /\ m.object = o.id
                 /\ t = [protocol |-> o.protocol, version |-> o.version, seq |-> m.seq]
      BY <3>2 DEF ObjectsParts, CallsFit, FitsCall, Fits
    <3> QED
      BY <2>1, <3>1, <3>2, ServerIsAsked
  <2>2. ASSUME NEW m \in Going', m.type = "BIND_PROTOCOL"
        PROVE  Fits(m)
    BY <1>2, <2>2 DEF ObjectsParts, RequestsFit, Asked
  <2> QED
    BY <1>4, <2>1, <2>2 DEF RequestsFit, Asked
<1>7. ASSUME NEW o \in sObjects
      PROVE  Pair(o.seq, o.id) \in Ties /\ o.id < maxId
  <2>1. Pair(o.seq, o.id) \in Ties
    BY DEF Ties
  <2> QED
    BY <2>1 DEF ObjectsParts, IdsSpent, Pair
<1>8. CASE KeepsObjects
  <2>1. /\ maxId' = maxId
        /\ \A o \in sObjects' : \E u \in sObjects :
             /\ o.id = u.id
             /\ o.seq = u.seq
             /\ o.protocol = u.protocol
             /\ o.version = u.version
        /\ Announced' \subseteq Announced
        /\ Ties' \subseteq Ties
    BY <1>8, KeptKeepTheirNames, ServerTies DEF KeepsObjects
  <2>2. ServedFit'
    BY <1>4, <2>1 DEF ObjectsParts, ServedFit, Fits
  <2>3. CallsFit'
    BY <1>2, <1>4, <2>1 DEF ObjectsParts, CallsFit
  <2>5. IdsSpent' /\ IdsTieOnce'
    BY <2>1 DEF ObjectsParts, IdsSpent, IdsTieOnce
  <2>6. IdsUnique'
    BY <1>8, KeptKeepTheirNames DEF ObjectsParts, IdsUnique
  <2>7. FilterHolds'
    BY <1>1, <1>3, <2>1 DEF ObjectsParts, FilterHolds
  <2> QED
    BY <1>3, <1>5, <1>6, <2>2, <2>3, <2>5, <2>6, <2>7 DEF ObjectsParts
<1>9. CASE \E r \in Asked : MakesFor(r)
  <2>1. PICK r \in Asked : MakesFor(r)
    BY <1>9
  <2>2. /\ maxId' = maxId + 1
        /\ sObjects' = sObjects \cup {Made(r)}
        /\ Fits(r)
        /\ maxId \in Nat \ {0}
    BY <2>1 DEF MakesFor, ObjectsParts, RequestsFit, ServerTypeOK
  <2>3. /\ Made(r).id = maxId
        /\ Made(r).seq = r.seq
        /\ Made(r).protocol = r.protocol
        /\ Made(r).version = r.version
    BY DEF Made
  <2>4. ASSUME NEW m \in Announced'
        PROVE  m \in Announced \/ (m = NewObject(r.seq, maxId) /\ r.protocol \in exposed)
    BY <2>1, ServerTies
  <2>5. ServedFit'
    BY <1>4, <2>2, <2>3 DEF ObjectsParts, ServedFit, Fits
  <2>6. CallsFit'
    <3>1. ASSUME NEW m \in Going, m.type = "GENERIC", Creates(m.method)
          PROVE  /\ m.object < maxId'
                 /\ \A o \in sObjects' : o.id = m.object => FitsCall(m.seq, o.protocol)
      <4>1. m.object < maxId
        BY <3>1 DEF ObjectsParts, CallsFit
      <4>2. m.object \in Nat
        BY <3>1, GoingIsTyped DEF ClientMessage, Hello, Invalid
      <4> QED
        BY <2>2, <2>3, <3>1, <4>1, <4>2 DEF ObjectsParts, CallsFit
    <3> QED
      BY <1>2, <1>4, <3>1 DEF ObjectsParts, CallsFit
  <2>7. ASSUME NEW b \in Ties'
        PROVE  b \in Ties \/ b = Pair(r.seq, maxId)
    BY <2>1, ServerTies
  <2>8. IdsSpent' /\ IdsTieOnce'
    <3>1. \A b \in Ties : 0 < b.id /\ b.id < maxId /\ b.id \in Nat
      BY TiesAreNumbers DEF ObjectsInv, Sane, ObjectsParts, IdsSpent
    <3>2. \A b \in Ties' : b \in Ties \/ (b.id = maxId /\ b.seq = r.seq)
      BY <2>7 DEF Pair
    <3>3. IdsSpent'
      BY <2>2, <3>1, <3>2 DEF IdsSpent
    <3>4. ASSUME NEW b \in Ties', NEW c \in Ties', b.id = c.id
          PROVE  b.seq = c.seq
      BY <3>1, <3>2, <3>4 DEF ObjectsParts, IdsTieOnce
    <3> QED
      BY <3>3, <3>4 DEF IdsTieOnce
  <2>9. IdsUnique'
    BY <1>7, <2>2, <2>3 DEF ObjectsParts, IdsUnique
  <2>10. FilterHolds'
    <3>1. ASSUME NEW m \in Announced'
          PROVE  m.seq \in 1 .. Len(cObjects) /\ cObjects[m.seq].protocol \in exposed
      <4>1. CASE m \in Announced
        BY <4>1 DEF ObjectsParts, FilterHolds
      <4>2. CASE m = NewObject(r.seq, maxId) /\ r.protocol \in exposed
        <5>1. m.seq = r.seq
          BY <4>2 DEF NewObject
        <5> QED
          BY <2>2, <4>2, <5>1 DEF Fits
      <4> QED
        BY <2>4, <3>1, <4>1, <4>2
    <3> QED
      BY <1>1, <1>3, <3>1 DEF ObjectsParts, FilterHolds
  <2> QED
    BY <1>3, <1>5, <1>6, <2>5, <2>6, <2>8, <2>9, <2>10 DEF ObjectsParts
<1> QED
  BY <1>8, <1>9, ServerMakes

\* No step disturbs the objects, unless a stray asks for one or announces one.
LEMMA ObjectsStep ==
    ASSUME NoForgedObjects
    PROVE  ObjectsInv /\ [Next]_vars => ObjectsInv'
<1> SUFFICES ASSUME ObjectsInv, [Next]_vars PROVE ObjectsInv'
  OBVIOUS
<1>1. Sane' /\ TypeInv
  BY SaneStep DEF ObjectsInv, Sane
<1>2. CASE ClientSteps /\ UNCHANGED serverVars
  BY <1>1, <1>2, ObjectsClientStep DEF ObjectsInv
<1>3. CASE ServerSteps /\ UNCHANGED clientVars
  BY <1>1, <1>3, ObjectsServerStep DEF ObjectsInv
<1>4. ASSUME UNCHANGED <<firstPollDone, exposed, maxId, sObjects, todo, cObjects, pendingOutgoing>>,
             Going' \subseteq Going \cup StrayToServer, Coming' \subseteq Coming \cup StrayToClient
      PROVE  ObjectsInv'
  <2> ObjectsParts
    BY DEF ObjectsInv
  <2>1. /\ \A r : Fits(r)' <=> Fits(r)
        /\ \A q, p : FitsCall(q, p)' <=> FitsCall(q, p)
    BY <1>4 DEF Fits, FitsCall
  <2>2. Asked' \subseteq Asked
    BY <1>4 DEF Asked, NoForgedObjects
  <2>3. Announced' \subseteq Announced
    BY <1>4 DEF Announced, NoForgedObjects
  <2>4. Ties' \subseteq Ties
    BY <1>4, <2>3 DEF Ties, Pair
  <2>5. SeqsBounded' /\ RequestsFit' /\ ServedFit' /\ DeferredFit'
    BY <1>4, <2>1, <2>2 DEF ObjectsParts, SeqsBounded, RequestsFit, ServedFit, DeferredFit
  <2>6. CallsFit'
    BY <1>4, <2>1 DEF ObjectsParts, CallsFit, NoForgedObjects
  <2>7. IdsSpent' /\ IdsTieOnce' /\ IdsUnique'
    BY <1>4, <2>4 DEF ObjectsParts, IdsSpent, IdsTieOnce, IdsUnique
  <2>8. FilterFirst'
    BY <1>4, Zenon DEF ObjectsParts, FilterFirst
  <2>9. FilterHolds'
    BY <1>4, <2>3 DEF ObjectsParts, FilterHolds
  <2> QED
    BY <1>1, <2>5, <2>6, <2>7, <2>8, <2>9 DEF ObjectsInv, ObjectsParts
<1>5. CASE ClientStrays /\ UNCHANGED serverVars
  BY <1>1, <1>4, <1>5, StraysRange
     DEF ClientStrays, serverVars, sSessionVars, sObjectVars, clientVars
<1>6. CASE ServerStrays /\ UNCHANGED clientVars
  BY <1>1, <1>4, <1>6, StraysRange
     DEF ServerStrays, serverVars, sSessionVars, sObjectVars, clientVars
<1>7. CASE UNCHANGED vars
  BY <1>4, <1>7, WireUntouched DEF vars, wireVars, serverVars, sSessionVars, sObjectVars, clientVars
<1> QED
  BY <1>2, <1>3, <1>5, <1>6, <1>7, WhoSteps

\* Both ends mean the same object by an id, whatever the strays write that
\* neither asks for an object nor announces one.
LEMMA ObjectsMatch == ObjectsInv => IdsMatch /\ VersionsAgreeOnBind
<1> SUFFICES ASSUME ObjectsInv PROVE IdsMatch /\ VersionsAgreeOnBind
  OBVIOUS
<1> ObjectsParts
  BY DEF ObjectsInv
<1>1. ASSUME NEW q \in 1 .. Len(cObjects), cObjects[q].id # 0
      PROVE  Pair(q, cObjects[q].id) \in Ties
  BY <1>1 DEF Ties
<1>2. ASSUME NEW o \in sObjects
      PROVE  Pair(o.seq, o.id) \in Ties /\ o.id # 0
  <2>1. Pair(o.seq, o.id) \in Ties
    BY DEF Ties
  <2> QED
    BY <2>1 DEF ObjectsParts, IdsSpent, Pair
<1>3. \A b, c \in Ties : b.id = c.id => b.seq = c.seq
  BY DEF ObjectsParts, IdsTieOnce
<1>4. ASSUME NEW q \in 1 .. Len(cObjects), NEW r \in 1 .. Len(cObjects),
             cObjects[q].id # 0, cObjects[q].id = cObjects[r].id
      PROVE  q = r
  BY <1>1, <1>3, <1>4 DEF Pair
<1>5. ASSUME NEW q \in 1 .. Len(cObjects), NEW o \in sObjects, cObjects[q].id = o.id
      PROVE  /\ o.seq = q
             /\ o.protocol = cObjects[q].protocol
             /\ cObjects[q].version \in {0, o.version}
  <2>1. o.seq = q
    BY <1>1, <1>2, <1>3, <1>5 DEF Pair
  <2> QED
    BY <2>1 DEF ObjectsParts, ServedFit, Fits
<1>6. ASSUME NEW q \in 1 .. Len(cObjects)
      PROVE  cObjects[q].id < maxId
  <2>1. CASE cObjects[q].id = 0
    BY <2>1 DEF ObjectsInv, Sane, TypeInv, ServerTypeOK
  <2>2. CASE cObjects[q].id # 0
    BY <1>1, <2>2 DEF ObjectsParts, IdsSpent, Pair
  <2> QED
    BY <2>1, <2>2
<1>7. \A o, u \in sObjects : o.id = u.id => o = u
  BY DEF ObjectsParts, IdsUnique
<1>8. IdsMatch
  BY <1>4, <1>5, <1>6, <1>7 DEF IdsMatch
<1>9. VersionsAgreeOnBind
  BY <1>5 DEF VersionsAgreeOnBind
<1> QED
  BY <1>8, <1>9

\* Both ends mean the same object by an id, for every pair of applications and
\* every peer that asks for nothing and announces nothing of its own.
THEOREM IdsAlwaysMatch ==
    ASSUME NoForgedObjects
    PROVE  Spec => []IdsMatch
<1>1. Init => ObjectsInv
  BY ObjectsInit
<1>2. ObjectsInv /\ [Next]_vars => ObjectsInv'
  BY ObjectsStep
<1>3. ObjectsInv => IdsMatch
  BY ObjectsMatch
<1> QED
  BY <1>1, <1>2, <1>3, PTL DEF Spec

\* A bound object has one version, at whichever end it is asked for its methods.
THEOREM VersionsAgree ==
    ASSUME NoForgedObjects
    PROVE  Spec => []VersionsAgreeOnBind
<1>1. Init => ObjectsInv
  BY ObjectsInit
<1>2. ObjectsInv /\ [Next]_vars => ObjectsInv'
  BY ObjectsStep
<1>3. ObjectsInv => VersionsAgreeOnBind
  BY ObjectsMatch
<1> QED
  BY <1>1, <1>2, <1>3, PTL DEF Spec

\* What the filter hides is neither listed to the client nor bound by it, even
\* if its application asks for what was not announced.
THEOREM FilterAlwaysRespected ==
    ASSUME NoForgedObjects, NoForgedHandshake
    PROVE  Spec => []FilterRespected
<1>1. Init => ObjectsInv /\ HandshakeInv
  BY ObjectsInit, HandshakeInit
<1>2. (ObjectsInv /\ HandshakeInv) /\ [Next]_vars => (ObjectsInv /\ HandshakeInv)'
  BY ObjectsStep, HandshakeStep
<1>3. ObjectsInv /\ HandshakeInv => FilterRespected
  <2> SUFFICES ASSUME ObjectsInv, HandshakeInv PROVE FilterRespected
    OBVIOUS
  <2>1. serverSpecs = {} \/ serverSpecs = exposed
    BY Zenon DEF HandshakeInv, HandshakeParts, ClientAgrees
  <2> QED
    BY <2>1 DEF ObjectsInv, ObjectsParts, FilterHolds, FilterRespected
<1> QED
  BY <1>1, <1>2, <1>3, PTL DEF Spec

-----------------------------------------------------------------------------
(* Each request is answered once *)

\* The requests that are on their way to the server, that it read or that its
\* application has yet to answer, and those the client defers.
Pending == Awaited \cup SeqsDeferred(pendingOutgoing)

DeferredOnce  == DefersOnce(pendingOutgoing) /\ Awaited \cap SeqsDeferred(pendingOutgoing) = {}
PendingIsReal == Pending \subseteq 1 .. Len(cObjects)
NotAnswered   == \A b \in Ties : b.seq \notin Pending
SeqsTieOnce   == \A b, c \in Ties : b.seq = c.seq => b.id = c.id

AnswerParts == AskedOnce /\ DeferredOnce /\ PendingIsReal /\ NotAnswered /\ SeqsTieOnce
AnswerInv   == ObjectsInv /\ AnswerParts

\* At the start nothing is asked for.
LEMMA AnswerInit == Init => AnswerInv
<1> SUFFICES ASSUME Init PROVE AnswerInv
  OBVIOUS
<1>1. ~AsksFor(Hello)
  BY DEF AsksFor, Hello
<1>2. /\ AsksOnce(c2s) /\ SeqsAsked(c2s) = {}
      /\ AsksOnce(sBatch) /\ SeqsAsked(sBatch) = {}
  BY <1>1, OneAsksOnce, EmptyAsksNothing DEF Init, WireInit, ServerInit
<1>3. todo = {} /\ SeqsTodo = {}
  BY DEF Init, ServerInit, SeqsTodo
<1>4. Len(pendingOutgoing) = 0 /\ 1 .. 0 = {}
  BY DEF Init, ClientInit
<1>5. DefersOnce(pendingOutgoing) /\ SeqsDeferred(pendingOutgoing) = {}
  BY <1>4 DEF DefersOnce, SeqsDeferred
<1>6. Ties = {}
  <2>1. Coming = {} /\ Len(cObjects) = 0 /\ sObjects = {}
    BY RangeOfShort DEF Init, WireInit, ServerInit, ClientInit, Coming, Batches
  <2> QED
    BY <2>1 DEF Ties, Announced
<1>7. AskedOnce /\ Awaited = {}
  BY <1>2, <1>3 DEF AskedOnce, Awaited
<1>8. DeferredOnce /\ PendingIsReal /\ NotAnswered /\ SeqsTieOnce
  BY <1>5, <1>6, <1>7 DEF DeferredOnce, PendingIsReal, Pending, NotAnswered, SeqsTieOnce
<1> QED
  BY <1>7, <1>8, ObjectsInit DEF AnswerInv, AnswerParts

\* A tie is of an object the client asked for.
LEMMA TiesAreReal ==
    ASSUME ObjectsInv
    PROVE  \A b \in Ties : b.seq \in 1 .. Len(cObjects)
BY DEF ObjectsInv, ObjectsParts, FilterHolds, ServedFit, Fits, Ties, Pair

\* The client's part: what it asks for anew is its newest object.
LEMMA AnswerClientStep ==
    ASSUME AnswerInv, ClientSteps, UNCHANGED serverVars
    PROVE  AnswerParts'
<1> /\ WireTypeOK
    /\ ClientInv
    /\ ObjectsInv
    /\ AnswerParts
    /\ Len(cObjects) \in Nat
  BY LenProperties DEF AnswerInv, ObjectsInv, Sane, TypeInv, ClientInv, ClientTypeOK
<1> DEFINE n == Len(cObjects)
<1>1. ClientOnce
  BY DEF ClientOnce, Outstanding, AnswerParts, AskedOnce, DeferredOnce, PendingIsReal, Pending, Awaited
<1>2. /\ AsksOnce(c2s')
      /\ DefersOnce(pendingOutgoing')
      /\ SeqsAsked(c2s') \cap SeqsDeferred(pendingOutgoing') = {}
      /\ \A q \in Outstanding' :
           q \in Outstanding \/ (q = Len(cObjects) + 1 /\ Len(cObjects') = Len(cObjects) + 1)
  BY <1>1, ClientAsksOnce
<1>3. UNCHANGED <<sBatch, todo>> /\ SeqsTodo' = SeqsTodo
  BY DEF serverVars, sReadVars, SeqsTodo
<1>4. /\ Ties' \subseteq Ties
      /\ \A b \in Ties : b.seq \in 1 .. n
  BY ClientTies, TiesAreReal
<1>5. n + 1 \notin 1 .. n
  OBVIOUS
<1>6. AskedOnce'
  <2>1. ASSUME NEW q \in SeqsAsked(c2s')
        PROVE  q \in Outstanding \/ q = n + 1
    BY <1>2, <2>1 DEF Outstanding
  <2>2. /\ SeqsAsked(sBatch) \cup SeqsTodo \subseteq 1 .. n
        /\ (SeqsAsked(sBatch) \cup SeqsTodo) \cap Outstanding = {}
    BY DEF AnswerParts, AskedOnce, DeferredOnce, PendingIsReal, Pending, Awaited, Outstanding
  <2>3. SeqsAsked(c2s') \cap (SeqsAsked(sBatch) \cup SeqsTodo) = {}
    BY <1>5, <2>1, <2>2
  <2> QED
    BY <1>2, <1>3, <2>3 DEF AnswerParts, AskedOnce
<1>7. DeferredOnce'
  <2>1. ASSUME NEW q \in SeqsDeferred(pendingOutgoing')
        PROVE  q \in Outstanding \/ q = n + 1
    BY <1>2, <2>1 DEF Outstanding
  <2>2. /\ SeqsAsked(sBatch) \cup SeqsTodo \subseteq 1 .. n
        /\ (SeqsAsked(sBatch) \cup SeqsTodo) \cap Outstanding = {}
    BY DEF AnswerParts, AskedOnce, DeferredOnce, PendingIsReal, Pending, Awaited, Outstanding
  <2>3. SeqsDeferred(pendingOutgoing') \cap (SeqsAsked(sBatch) \cup SeqsTodo) = {}
    BY <1>5, <2>1, <2>2
  <2> QED
    BY <1>2, <1>3, <2>3 DEF DeferredOnce, Awaited
<1>8. \A q \in Pending' : q \in Pending \/ (q = n + 1 /\ Len(cObjects') = n + 1)
  BY <1>2, <1>3 DEF Pending, Awaited, Outstanding
<1>9. PendingIsReal'
  <2>1. Len(cObjects') \in {n, n + 1}
    BY ClientKeepsNames DEF ObjectsGoOn
  <2> QED
    <3>1. ASSUME NEW q \in Pending'
          PROVE  q \in 1 .. Len(cObjects')
      <4>1. CASE q \in Pending
        <5>1. q \in 1 .. n
          BY <4>1 DEF AnswerParts, PendingIsReal
        <5> QED
          BY <2>1, <5>1
      <4>2. CASE q = n + 1 /\ Len(cObjects') = n + 1
        BY <4>2
      <4> QED
        BY <1>8, <4>1, <4>2
    <3> QED
      BY <3>1 DEF PendingIsReal
<1>10. NotAnswered'
  BY <1>4, <1>5, <1>8 DEF AnswerParts, NotAnswered
<1>11. SeqsTieOnce'
  BY <1>4 DEF AnswerParts, SeqsTieOnce
<1> QED
  BY <1>6, <1>7, <1>9, <1>10, <1>11 DEF AnswerParts

\* The server's part: it answers what was asked, and then no longer awaits it.
LEMMA AnswerServerStep ==
    ASSUME AnswerInv, ServerSteps, UNCHANGED clientVars
    PROVE  AnswerParts'
<1> /\ WireTypeOK
    /\ ServerTypeOK
    /\ TypeInv
    /\ AnswerParts
  BY DEF AnswerInv, ObjectsInv, Sane, TypeInv
<1>1. /\ AskedOnce'
      /\ Awaited' \subseteq Awaited
      /\ \/ \E r \in Asked : MakesFor(r) /\ r.seq \in Awaited /\ r.seq \notin Awaited'
         \/ KeepsObjects
  BY ServerAnswersOnce DEF AnswerParts
<1>2. UNCHANGED <<cObjects, pendingOutgoing>>
  BY DEF clientVars
<1>3. DeferredOnce' /\ PendingIsReal' /\ Pending' \subseteq Pending
  BY <1>1, <1>2 DEF AnswerParts, DeferredOnce, PendingIsReal, Pending
<1>4. CASE KeepsObjects
  <2>1. Ties' \subseteq Ties
    BY <1>4, ServerTies
  <2> QED
    BY <1>1, <1>3, <2>1 DEF AnswerParts, NotAnswered, SeqsTieOnce
<1>5. CASE \E r \in Asked : MakesFor(r) /\ r.seq \in Awaited /\ r.seq \notin Awaited'
  <2>1. PICK r \in Asked : MakesFor(r) /\ r.seq \in Awaited /\ r.seq \notin Awaited'
    BY <1>5
  <2>2. \A b \in Ties' : b \in Ties \/ (b.seq = r.seq /\ b.id = maxId)
    BY <2>1, ServerTies DEF Pair
  <2>3. \A b \in Ties : b.seq # r.seq
    BY <2>1 DEF AnswerParts, NotAnswered, Pending
  <2>4. r.seq \notin Pending'
    BY <1>2, <2>1 DEF Pending, AnswerParts, DeferredOnce
  <2>5. NotAnswered'
    BY <1>3, <2>2, <2>4 DEF AnswerParts, NotAnswered
  <2>6. SeqsTieOnce'
    BY <2>2, <2>3 DEF AnswerParts, SeqsTieOnce
  <2> QED
    BY <1>1, <1>3, <2>5, <2>6 DEF AnswerParts
<1> QED
  BY <1>1, <1>4, <1>5

\* No step answers a request twice or asks twice, unless a stray does.
LEMMA AnswerStep ==
    ASSUME NoForgedObjects
    PROVE  AnswerInv /\ [Next]_vars => AnswerInv'
<1> SUFFICES ASSUME AnswerInv, [Next]_vars PROVE AnswerInv'
  OBVIOUS
<1> /\ WireTypeOK
    /\ TypeInv
    /\ AnswerParts
  BY DEF AnswerInv, ObjectsInv, Sane, TypeInv
<1>1. ObjectsInv'
  BY ObjectsStep DEF AnswerInv
<1>2. CASE ClientSteps /\ UNCHANGED serverVars
  BY <1>1, <1>2, AnswerClientStep DEF AnswerInv
<1>3. CASE ServerSteps /\ UNCHANGED clientVars
  BY <1>1, <1>3, AnswerServerStep DEF AnswerInv
<1>4. ASSUME UNCHANGED <<sBatch, todo, sObjects, cObjects, pendingOutgoing>>,
             AsksOnce(c2s'), SeqsAsked(c2s') \subseteq SeqsAsked(c2s),
             Coming' \subseteq Coming \cup StrayToClient
      PROVE  AnswerInv'
  <2>1. SeqsTodo' = SeqsTodo
    BY <1>4 DEF SeqsTodo
  <2>2. AskedOnce' /\ Awaited' \subseteq Awaited
    BY <1>4, <2>1 DEF AnswerParts, AskedOnce, Awaited
  <2>3. Announced' \subseteq Announced
    BY <1>4 DEF Announced, NoForgedObjects
  <2>4. Ties' \subseteq Ties
    BY <1>4, <2>3 DEF Ties, Pair
  <2>5. DeferredOnce' /\ PendingIsReal' /\ Pending' \subseteq Pending
    BY <1>4, <2>2 DEF AnswerParts, DeferredOnce, PendingIsReal, Pending
  <2>6. NotAnswered' /\ SeqsTieOnce'
    BY <2>4, <2>5 DEF AnswerParts, NotAnswered, SeqsTieOnce
  <2> QED
    BY <1>1, <2>2, <2>5, <2>6 DEF AnswerInv, AnswerParts
<1>5. CASE ClientStrays /\ UNCHANGED serverVars
  <2>1. PICK m \in StrayToServer : ClientSends(<<m>>)
    BY <1>5 DEF ClientStrays
  <2>2. <<m>> \in Seq(ClientMessage) /\ ~AsksFor(m)
    BY ConnectionAssumption DEF NoForgedObjects, AsksFor
  <2>3. AsksOnce(<<m>>) /\ SeqsAsked(<<m>>) = {}
    BY <2>2, OneAsksOnce
  <2>4. AsksOnce(c2s') /\ SeqsAsked(c2s') \subseteq SeqsAsked(c2s)
    BY <2>1, <2>2, <2>3, ClientSendsOnce DEF AnswerParts, AskedOnce
  <2> QED
    BY <1>4, <1>5, <2>4, StraysRange DEF ClientStrays, serverVars, sReadVars, sObjectVars, clientVars
<1>6. CASE ServerStrays /\ UNCHANGED clientVars
  BY <1>4, <1>6, StraysRange
     DEF ServerStrays, serverVars, sReadVars, sObjectVars, clientVars, AnswerParts, AskedOnce
<1>7. CASE UNCHANGED vars
  BY <1>4, <1>7, WireUntouched
     DEF vars, wireVars, serverVars, sReadVars, sObjectVars, clientVars, AnswerParts, AskedOnce
<1> QED
  BY <1>2, <1>3, <1>5, <1>6, <1>7, WhoSteps

-----------------------------------------------------------------------------
(* A destructor comes from a client that is through with the object *)

\* No peer of another make destroys objects under this connection's name.
NoForgedEnds == \A m \in StrayToServer : ~Ends(m)

\* The client knows the object and destroyed it or let it go.
Gone(q)    == cObjects[q].destroyed \/ ~cObjects[q].held
Through(i) == \E q \in 1 .. Len(cObjects) : cObjects[q].id = i /\ i # 0 /\ Gone(q)

EndsAreMeant    == \A m \in Going : Ends(m) => Through(m.object)
CallIsMeant     == IsDestructor(sCall.method) => Through(sCall.id)

EndParts == EndsAreMeant /\ CallIsMeant /\ DeferredAreGone
EndInv   == AnswerInv /\ EndParts

\* At the start nothing is destroyed.
LEMMA EndInit == Init => EndInv
<1> SUFFICES ASSUME Init PROVE EndInv
  OBVIOUS
<1>1. Going = {Hello} /\ ~Ends(Hello)
  BY RangeOfShort DEF Init, WireInit, ServerInit, Going, Ends, Hello
<1>2. ~IsDestructor(sCall.method)
  BY DEF Init, ServerInit, NoCall, IsDestructor
<1>3. Len(pendingOutgoing) = 0
  BY DEF Init, ClientInit
<1>4. EndsAreMeant /\ CallIsMeant /\ DeferredAreGone
  BY <1>1, <1>2, <1>3 DEF EndsAreMeant, CallIsMeant, DeferredAreGone
<1> QED
  BY <1>4, AnswerInit DEF EndInv, EndParts

\* What the client knows of an object never changes.
LEMMA KnownStays ==
    ASSUME AnswerInv, ClientSteps, UNCHANGED serverVars,
           NEW q \in 1 .. Len(cObjects), cObjects[q].id # 0
    PROVE  q \in 1 .. Len(cObjects') /\ cObjects'[q].id = cObjects[q].id
<1> /\ WireTypeOK
    /\ ClientInv
    /\ Len(cObjects) \in Nat
    /\ ObjectsParts
    /\ AnswerParts
  BY LenProperties DEF AnswerInv, ObjectsInv, Sane, TypeInv, ClientInv, ClientTypeOK
<1>1. q \in 1 .. Len(cObjects') /\ (cObjects'[q].id = cObjects[q].id \/ Learns(q))
  BY ClientKeepsNames DEF ObjectsGoOn
<1>2. CASE Learns(q)
  <2>1. PICK n \in Coming : n.type = "NEW_OBJECT" /\ n.seq = q /\ n.id = cObjects'[q].id
    BY <1>2 DEF Learns
  <2>2. q \in 1 .. MaxSeq
    BY ClientAssumption DEF ObjectsParts, SeqsBounded
  <2>3. Pair(q, n.id) \in Ties
    BY <2>1, <2>2 DEF Ties, Announced
  <2>4. Pair(q, cObjects[q].id) \in Ties
    BY DEF Ties
  <2>5. n.id = cObjects[q].id
    BY <2>3, <2>4 DEF Pair, AnswerParts, SeqsTieOnce
  <2> QED
    BY <1>1, <2>1, <2>5
<1> QED
  BY <1>1, <1>2

\* A client that is through with an object stays so.
LEMMA ThroughStays ==
    ASSUME AnswerInv, ClientSteps, UNCHANGED serverVars, NEW i, Through(i)
    PROVE  Through(i)'
<1>1. PICK q \in 1 .. Len(cObjects) : cObjects[q].id = i /\ i # 0 /\ Gone(q)
  BY DEF Through
<1>2. q \in 1 .. Len(cObjects') /\ cObjects'[q].id = i
  BY <1>1, KnownStays
<1>3. Succeeds(cObjects'[q], cObjects[q])
  BY ClientKeepsNames DEF ObjectsGoOn, AnswerInv, ObjectsInv, Sane, TypeInv
<1>4. cObjects'[q].destroyed \/ ~cObjects'[q].held
  BY <1>1, <1>3, Zenon DEF Gone, Succeeds
<1> QED
  BY <1>1, <1>2, <1>4 DEF Through, Gone

\* The client's part: it calls a destructor, now or deferred, of what it is
\* through with.
LEMMA EndClientStep ==
    ASSUME EndInv, ClientSteps, UNCHANGED serverVars
    PROVE  EndParts'
<1> /\ WireTypeOK
    /\ ClientInv
    /\ AnswerInv
    /\ Len(cObjects) \in Nat
    /\ EndParts
  BY LenProperties DEF EndInv, AnswerInv, ObjectsInv, Sane, TypeInv, ClientInv, ClientTypeOK
<1>1. UNCHANGED <<sBatch, sCall>>
  BY DEF serverVars, sReadVars
<1>2. \A q \in 1 .. Len(cObjects) : q \in 1 .. Len(cObjects') /\ Succeeds(cObjects'[q], cObjects[q])
  BY ClientKeepsNames DEF ObjectsGoOn
<1>3. ASSUME NEW m \in Going', Ends(m)
      PROVE  Through(m.object)'
  <2>1. CASE m \in Going
    <3>1. PICK i : i = m.object
      OBVIOUS
    <3>2. Through(i)
      BY <1>3, <2>1, <3>1 DEF EndParts, EndsAreMeant
    <3> QED
      BY <3>1, <3>2, ThroughStays
  <2>2. CASE m \notin Going
    <3>1. m \in Range(c2s') /\ m \notin Range(c2s)
      BY <1>1, <1>3, <2>2 DEF Going
    <3>2. Calling(m) \/ Flushing(m) \/ Departing(m)
      BY <1>3, <3>1, ClientWrites DEF Ends, Acking, HandshakeAck, Binding, BindProtocol, RoundtripRequest
    <3>3. PICK q \in 1 .. Len(cObjects) :
             /\ cObjects[q].id # 0
             /\ m.object = cObjects[q].id
             /\ cObjects'[q].destroyed \/ Gone(q)
      <4>1. CASE Calling(m)
        BY <1>3, <4>1 DEF Calling, Generic, Ends
      <4>2. CASE Flushing(m)
        <5>1. PICK k \in 1 .. Len(pendingOutgoing) :
                 /\ cObjects[pendingOutgoing[k].dependsOn].id # 0
                 /\ m = Generic(cObjects[pendingOutgoing[k].dependsOn].id, pendingOutgoing[k].method,
                                pendingOutgoing[k].seq)
          BY <4>2 DEF Flushing
        <5>2. PICK q \in 1 .. Len(cObjects) : pendingOutgoing[k].dependsOn = q
          BY DEF ClientInv, DeferredInRange
        <5>3. IsDestructor(pendingOutgoing[k].method) /\ m.object = cObjects[q].id
          BY <1>3, <5>1, <5>2 DEF Generic, Ends
        <5>4. Gone(q)
          BY <5>2, <5>3 DEF EndParts, DeferredAreGone, Gone
        <5> QED
          BY <5>1, <5>2, <5>3, <5>4
      <4>3. CASE Departing(m)
        BY <4>3 DEF Departing, FarewellTo, Generic, Gone
      <4> QED
        BY <3>2, <4>1, <4>2, <4>3
    <3>4. q \in 1 .. Len(cObjects') /\ cObjects'[q].id = cObjects[q].id
      BY <3>3, KnownStays
    <3>5. cObjects'[q].destroyed \/ ~cObjects'[q].held
      BY <1>2, <3>3, Zenon DEF Gone, Succeeds
    <3> QED
      BY <3>3, <3>4, <3>5 DEF Through, Gone
  <2> QED
    BY <2>1, <2>2
<1>4. ASSUME IsDestructor(sCall.method)
      PROVE  Through(sCall.id)'
  <2>1. PICK i : i = sCall.id
    OBVIOUS
  <2>2. Through(i)
    BY <1>4, <2>1 DEF EndParts, CallIsMeant
  <2> QED
    BY <1>1, <2>1, <2>2, ThroughStays
<1>5. ASSUME NEW k \in 1 .. Len(pendingOutgoing'), IsDestructor(pendingOutgoing'[k].method)
      PROVE  cObjects'[pendingOutgoing'[k].dependsOn].destroyed
  <2>1. CASE \E j \in 1 .. Len(pendingOutgoing) : pendingOutgoing'[k] = pendingOutgoing[j]
    <3>1. PICK j \in 1 .. Len(pendingOutgoing) : pendingOutgoing'[k] = pendingOutgoing[j]
      BY <2>1
    <3>2. PICK q \in 1 .. Len(cObjects) : pendingOutgoing[j].dependsOn = q
      BY DEF ClientInv, DeferredInRange
    <3>3. cObjects[q].destroyed
      BY <1>5, <3>1, <3>2 DEF EndParts, DeferredAreGone
    <3>4. cObjects'[q].destroyed
      BY <1>2, <3>3, Zenon DEF Succeeds
    <3> QED
      BY <3>1, <3>2, <3>4
  <2>2. CASE Deferring(pendingOutgoing'[k])
    BY <1>5, <2>2 DEF Deferring
  <2> QED
    BY <2>1, <2>2, ClientDefers
<1>6. EndsAreMeant' /\ CallIsMeant' /\ DeferredAreGone'
  BY <1>1, <1>3, <1>4, <1>5 DEF EndsAreMeant, CallIsMeant, DeferredAreGone
<1> QED
  BY <1>6 DEF EndParts

\* No step calls a destructor for somebody else, unless a stray does.
LEMMA EndStep ==
    ASSUME NoForgedObjects, NoForgedEnds
    PROVE  EndInv /\ [Next]_vars => EndInv'
<1> SUFFICES ASSUME EndInv, [Next]_vars PROVE EndInv'
  OBVIOUS
<1> /\ WireTypeOK
    /\ ServerTypeOK
    /\ TypeInv
    /\ EndParts
  BY DEF EndInv, AnswerInv, ObjectsInv, Sane, TypeInv
<1>1. AnswerInv'
  BY AnswerStep DEF EndInv
<1>2. CASE ClientSteps /\ UNCHANGED serverVars
  BY <1>1, <1>2, EndClientStep DEF EndInv
<1>3. CASE ServerSteps /\ UNCHANGED clientVars
  <2>1. \A i : Through(i)' <=> Through(i)
    BY <1>3 DEF clientVars, Through, Gone
  <2>2. Going' \subseteq Going
    BY <1>3, ServerTakes
  <2>3. EndsAreMeant'
    BY <2>1, <2>2 DEF EndParts, EndsAreMeant
  <2>4. CallIsMeant'
    <3>1. ASSUME IsDestructor(sCall'.method)
          PROVE  Through(sCall'.id)
      BY <1>3, <3>1, ServerCallsWhatCame DEF EndParts, CallIsMeant, EndsAreMeant
    <3> QED
      BY <2>1, <3>1 DEF CallIsMeant
  <2>5. DeferredAreGone'
    BY <1>3 DEF clientVars, EndParts, DeferredAreGone
  <2> QED
    BY <1>1, <2>3, <2>4, <2>5 DEF EndInv, EndParts
<1>4. ASSUME UNCHANGED <<sCall, cObjects, pendingOutgoing>>, Going' \subseteq Going \cup StrayToServer
      PROVE  EndInv'
  <2>1. \A i : Through(i)' <=> Through(i)
    BY <1>4 DEF Through, Gone
  <2>2. EndsAreMeant'
    BY <1>4, <2>1 DEF EndParts, EndsAreMeant, NoForgedEnds
  <2>3. CallIsMeant' /\ DeferredAreGone'
    BY <1>4, <2>1 DEF EndParts, CallIsMeant, DeferredAreGone
  <2> QED
    BY <1>1, <2>2, <2>3 DEF EndInv, EndParts
<1>5. CASE ClientStrays /\ UNCHANGED serverVars
  BY <1>4, <1>5, StraysRange DEF ClientStrays, serverVars, clientVars
<1>6. CASE ServerStrays /\ UNCHANGED clientVars
  BY <1>4, <1>6, StraysRange DEF ServerStrays, serverVars, clientVars
<1>7. CASE UNCHANGED vars
  BY <1>4, <1>7, WireUntouched DEF vars, wireVars, serverVars, clientVars
<1> QED
  BY <1>2, <1>3, <1>5, <1>6, <1>7, WhoSteps

-----------------------------------------------------------------------------
(* An awaited object is listed *)

\* No peer of another make sends events that are for no object at all.
EventsAreNamed == \A m \in StrayToClient : m.type = "GENERIC" => m.object # 0

\* Events are for objects, so that a listener runs for an object the client
\* knows, and only such an object leaves m_objects before the client gives up.
EventsHaveObject == \A m \in Coming : m.type = "GENERIC" => m.object # 0
CalledIsKnown    == \A f \in 1 .. Len(stack) :
    \/ stack[f].called.seq = 0
    \/ stack[f].called.seq \in 1 .. Len(cObjects) /\ cObjects[stack[f].called.seq].id # 0
AwaitedAreListed ==
    ~cError => \A q \in 1 .. Len(cObjects) : cObjects[q].id = 0 => cObjects[q].listed

ListedParts == EventsHaveObject /\ CalledIsKnown /\ AwaitedAreListed
ListedInv   == AnswerInv /\ ListedParts

\* At the start there is no object.
LEMMA ListedInit == Init => ListedInv
<1> SUFFICES ASSUME Init PROVE ListedInv
  OBVIOUS
<1>1. Coming = {}
  BY RangeOfShort DEF Init, WireInit, ClientInit, Coming, Batches
<1>2. Len(cObjects) = 0 /\ Len(stack) = 0
  BY DEF Init, ClientInit
<1>3. EventsHaveObject /\ CalledIsKnown /\ AwaitedAreListed
  BY <1>1, <1>2 DEF EventsHaveObject, CalledIsKnown, AwaitedAreListed
<1> QED
  BY <1>3, AnswerInit DEF ListedInv, ListedParts

\* An awaited object stays on the list, until the client closes its socket.
LEMMA AwaitedStayListed ==
    ASSUME ListedInv, ClientSteps, \A r \in 1 .. Len(cObjects) : cObjects[r].id = 0 => cObjects[r].listed
    PROVE  ClientCloses \/ \A q \in 1 .. Len(cObjects') : cObjects'[q].id = 0 => cObjects'[q].listed
<1> SUFFICES ASSUME ~ClientCloses, NEW q \in 1 .. Len(cObjects'), cObjects'[q].id = 0
             PROVE  cObjects'[q].listed
  OBVIOUS
<1> /\ WireTypeOK
    /\ ClientInv
    /\ ClientTypeOK
    /\ BatchesWhenParsing
    /\ Len(cObjects) \in Nat
    /\ \A r \in 1 .. Len(cObjects) : cObjects[r] \in ClientObject
    /\ ListedParts
  BY LenProperties, ElementOfSeq
     DEF ListedInv, AnswerInv, ObjectsInv, Sane, TypeInv, ClientInv, ClientTypeOK
<1>0. ASSUME NEW i, HeardOf(i)
      PROVE  i \in 1 .. Len(cObjects) /\ cObjects[i].id # 0
  BY <1>0 DEF HeardOf, ListedParts, EventsHaveObject
<1>1. \A r \in 1 .. Len(cObjects) : cObjects[r].id = 0 => cObjects[r].listed
  OBVIOUS
<1>2. \A r \in 1 .. Len(cObjects) :
        Keeps(cObjects'[r], cObjects[r]) /\ cObjects'[r].id = 0 => cObjects'[r].listed
  BY <1>1, Zenon DEF Keeps
<1>3. CASE Idles
  BY <1>2, <1>3, Zenon DEF Idles
<1>4. CASE \E i : Frees(i)
  <2>1. PICK i : Frees(i)
    BY <1>4
  <2>2. CASE q # i
    BY <1>2, <2>1, <2>2, Zenon DEF Frees
  <2>3. CASE q = i
    <3>1. cObjects[i].id = 0 /\ i \in 1 .. Len(cObjects)
      BY <2>1, <2>3 DEF Frees
    <3>2. i # 0
      BY <3>1
    <3>3. ~CalledFor(i)
      BY <1>0, <3>1, <3>2 DEF CalledFor, ListedParts, CalledIsKnown
    <3> QED
      BY <1>1, <2>1, <2>3, <3>1, <3>3, Zenon DEF Frees
  <2> QED
    BY <2>2, <2>3
<1>5. CASE \E n : Hears(n)
  <2>1. PICK n : Hears(n)
    BY <1>5
  <2>2. CASE n.seq \in 1 .. Len(cObjects) /\ cObjects[n.seq].listed
    <3>1. cObjects' = [cObjects EXCEPT ![n.seq] = [cObjects[n.seq] EXCEPT !.id = n.id]]
      BY <2>1, <2>2 DEF Hears
    <3>2. n \in ServerMessage /\ n.type = "NEW_OBJECT"
      BY <2>1, ComingIsTyped DEF Hears
    <3>3. n.id \in Nat
      BY <3>2 DEF ServerMessage, Invalid
    <3>4. [cObjects[n.seq] EXCEPT !.id = n.id] \in ClientObject
      BY <2>2, <3>3 DEF ClientObject
    <3>5. Len(cObjects') = Len(cObjects)
      BY <3>1, <3>4, UpdateType
    <3>6. /\ cObjects'[n.seq].listed
          /\ \A r \in 1 .. Len(cObjects) : r # n.seq => cObjects'[r] = cObjects[r]
      BY <2>2, <3>1 DEF ClientTypeOK, ClientObject
    <3> QED
      BY <1>1, <3>5, <3>6
  <2>3. CASE ~(n.seq \in 1 .. Len(cObjects) /\ cObjects[n.seq].listed)
    <3>1. cObjects' = cObjects
      BY <2>1, <2>3 DEF Hears
    <3> QED
      BY <1>1, <3>1
  <2> QED
    BY <2>2, <2>3
<1>6. CASE Asks
  <2>1. q \in 1 .. Len(cObjects) \/ q = Len(cObjects) + 1
    BY <1>6 DEF Asks
  <2> QED
    BY <1>2, <1>6, <2>1, Zenon DEF Asks
<1>7. CASE LetsAllGo
  BY <1>7, Zenon DEF LetsAllGo
<1> QED
  BY <1>3, <1>4, <1>5, <1>6, <1>7, ClientMoves

\* The client's part.
LEMMA ListedClientStep ==
    ASSUME ListedInv, ClientSteps, UNCHANGED serverVars
    PROVE  ListedParts'
<1> /\ WireTypeOK
    /\ ClientInv
    /\ ClientTypeOK
    /\ BatchesWhenParsing
    /\ AnswerInv
    /\ Len(cObjects) \in Nat
    /\ \A q \in 1 .. Len(cObjects) : cObjects[q] \in ClientObject
    /\ ListedParts
  BY LenProperties, ElementOfSeq
     DEF ListedInv, EndInv, AnswerInv, ObjectsInv, Sane, TypeInv, ClientInv, ClientTypeOK
<1>1. EventsHaveObject'
  BY ClientTakes DEF ListedParts, EventsHaveObject
<1>2. ASSUME NEW q, HeardOf(q)
      PROVE  q \in 1 .. Len(cObjects) /\ cObjects[q].id # 0
  BY <1>2 DEF HeardOf, ListedParts, EventsHaveObject
<1>3. ASSUME NEW k \in 1 .. Len(stack'), stack'[k].called.seq # 0
      PROVE  /\ stack'[k].called.seq \in 1 .. Len(cObjects')
             /\ cObjects'[stack'[k].called.seq].id # 0
  <2>1. PICK q : q = stack'[k].called.seq
    OBVIOUS
  <2>2. q \in 1 .. Len(cObjects) /\ cObjects[q].id # 0
    <3>1. CASE \E g \in 1 .. Len(stack) : stack'[k].called = stack[g].called
      BY <1>3, <2>1, <3>1 DEF ListedParts, CalledIsKnown
    <3>2. CASE HeardOf(q)
      BY <1>2, <3>2
    <3> QED
      BY <1>3, <2>1, <3>1, <3>2, CalledStays DEF Idle
  <2>3. q \in 1 .. Len(cObjects') /\ cObjects'[q].id = cObjects[q].id
    BY <2>2, KnownStays
  <2> QED
    BY <2>1, <2>2, <2>3
<1>4. CalledIsKnown'
  BY <1>3 DEF CalledIsKnown
<1>5. ASSUME ~cError'
      PROVE  \A q \in 1 .. Len(cObjects') : cObjects'[q].id = 0 => cObjects'[q].listed
  <2>1. \A r \in 1 .. Len(cObjects) : cObjects[r].id = 0 => cObjects[r].listed
    BY <1>5, ClientStaysClosed, Zenon DEF ListedParts, AwaitedAreListed
  <2>2. ~ClientCloses
    BY <1>5, Zenon DEF ClientCloses
  <2> QED
    BY <2>1, <2>2, AwaitedStayListed, Zenon
<1>6. AwaitedAreListed'
  BY <1>5, Zenon DEF AwaitedAreListed
<1> QED
  BY <1>1, <1>4, <1>6 DEF ListedParts

\* No step takes an awaited object off the list, unless a stray sends an event
\* for no object.
LEMMA ListedStep ==
    ASSUME NoForgedObjects, EventsAreNamed
    PROVE  ListedInv /\ [Next]_vars => ListedInv'
<1> SUFFICES ASSUME ListedInv, [Next]_vars PROVE ListedInv'
  OBVIOUS
<1> /\ WireTypeOK
    /\ ServerTypeOK
    /\ TypeInv
    /\ ObjectsParts
    /\ ListedParts
  BY DEF ListedInv, EndInv, AnswerInv, ObjectsInv, Sane, TypeInv
<1>1. AnswerInv'
  BY AnswerStep DEF ListedInv
<1>2. CASE ClientSteps /\ UNCHANGED serverVars
  BY <1>1, <1>2, ListedClientStep DEF ListedInv
<1>3. ASSUME UNCHANGED <<cError, cObjects, stack>>,
             \A m \in Coming' : m \in Coming \/ (m.type = "GENERIC" => m.object # 0)
      PROVE  ListedInv'
  <2>1. EventsHaveObject'
    BY <1>3 DEF ListedParts, EventsHaveObject
  <2>2. CalledIsKnown'
    BY <1>3 DEF ListedParts, CalledIsKnown
  <2>3. AwaitedAreListed'
    BY <1>3, Zenon DEF ListedParts, AwaitedAreListed
  <2> QED
    BY <1>1, <2>1, <2>2, <2>3 DEF ListedInv, ListedParts
<1>4. CASE ServerSteps /\ UNCHANGED clientVars
  <2>1. ASSUME NEW m \in Coming', m \notin Coming, m.type = "GENERIC"
        PROVE  m.object # 0
    <3>1. m \in Range(s2c') /\ m \notin Range(s2c)
      BY <1>4, <2>1, WireUntouched DEF Coming
    <3>2. PICK o \in sObjects : m.object = o.id
      BY <1>4, <2>1, <3>1, ServerEventsAreOwn DEF Granted
    <3>3. Pair(o.seq, o.id) \in Ties
      BY DEF Ties
    <3>4. 0 < o.id
      BY <3>3 DEF ObjectsParts, IdsSpent, Pair
    <3> QED
      BY <3>2, <3>4
  <2> QED
    BY <1>3, <1>4, <2>1 DEF clientVars
<1>5. CASE ClientStrays /\ UNCHANGED serverVars
  BY <1>3, <1>5, StraysRange DEF ClientStrays, clientVars
<1>6. CASE ServerStrays /\ UNCHANGED clientVars
  BY <1>3, <1>6, StraysRange DEF clientVars, EventsAreNamed
<1>7. CASE UNCHANGED vars
  BY <1>3, <1>7, WireUntouched DEF vars, wireVars, clientVars
<1> QED
  BY <1>2, <1>4, <1>5, <1>6, <1>7, WhoSteps

-----------------------------------------------------------------------------
(* The refinement of Objects *)

\* What the refinement rests on.
SoundInv == EndInv /\ ListedInv

\* What Promise is offered, in terms of the messages on their way.
OffersAnnounced ==
    \A o : o \in Offered <=>
             \E m \in Announced : cObjects[m.seq].id = 0 /\ o = Pair(m.seq, m.id)

\* No announcement is of an object the client never asked for, or of an id the
\* server has not spent, so that none is left out of the offers.
LEMMA OffersAreAnnounced == ObjectsInv => OffersAnnounced
<1> SUFFICES ASSUME ObjectsInv, NEW o
             PROVE  o \in Offered <=>
                      \E m \in Announced : cObjects[m.seq].id = 0 /\ o = Pair(m.seq, m.id)
  BY DEF OffersAnnounced
<1> /\ TypeInv
    /\ WireTypeOK
    /\ ClientTypeOK
    /\ ObjectsParts
    /\ Len(cObjects) \in Nat
    /\ maxId \in Nat
    /\ Len(cObjects) <= MaxSeq
    /\ MaxSeq \in Nat
  BY LenProperties, ClientAssumption
     DEF ObjectsInv, ObjectsParts, SeqsBounded, Sane, TypeInv, ClientInv, ClientTypeOK, ServerTypeOK
<1>1. \A m : InFlight(m) <=> m \in Coming
  BY ComingIsSomewhere, Zenon DEF InFlight
<1>2. ASSUME NEW q \in 1 .. Len(cObjects), NEW i \in 1 .. maxId, o = Pair(q, i),
             cObjects[q].id = 0, InFlight(NewObject(q, i))
      PROVE  \E m \in Announced : cObjects[m.seq].id = 0 /\ o = Pair(m.seq, m.id)
  <2>1. NewObject(q, i) \in Announced
    BY <1>1, <1>2 DEF Announced, NewObject
  <2> QED
    BY <1>2, <2>1 DEF NewObject
<1>3. ASSUME NEW m \in Announced, cObjects[m.seq].id = 0, o = Pair(m.seq, m.id)
      PROVE  o \in Offered
  <2>1. m \in Coming /\ m.type = "NEW_OBJECT" /\ m \in ServerMessage
    BY ComingIsTyped DEF Announced
  <2>2. m \in [type : {"NEW_OBJECT"}, seq : Nat, id : Nat]
    BY <2>1 DEF ServerMessage, Invalid
  <2>3. m = NewObject(m.seq, m.id)
    BY <2>2 DEF NewObject
  <2>4. m.seq \in 1 .. Len(cObjects)
    BY DEF ObjectsParts, FilterHolds
  <2>5. o \in Ties
    BY <1>3 DEF Ties
  <2>6. m.id \in 1 .. maxId
    BY <1>3, <2>2, <2>5 DEF ObjectsParts, IdsSpent, Pair
  <2>7. InFlight(NewObject(m.seq, m.id))
    BY <1>1, <2>1, <2>3
  <2>8. o \in Offers /\ o.seq = m.seq /\ o.id = m.id
    BY <1>3, <2>4, <2>6 DEF Offers, Pair
  <2> QED
    BY <1>3, <2>7, <2>8 DEF Offered
<1>4. ASSUME o \in Offered
      PROVE  \E q \in 1 .. Len(cObjects), i \in 1 .. maxId :
                /\ o = Pair(q, i)
                /\ cObjects[q].id = 0
                /\ InFlight(NewObject(q, i))
  <2>1. o \in Offers /\ cObjects[o.seq].id = 0 /\ InFlight(NewObject(o.seq, o.id))
    BY <1>4 DEF Offered
  <2>2. PICK q \in 1 .. Len(cObjects), i \in 1 .. maxId : o = [seq |-> q, id |-> i]
    BY <2>1 DEF Offers
  <2>3. o.seq = q /\ o.id = i
    BY <2>2
  <2> QED
    BY <2>1, <2>2, <2>3 DEF Pair
<1> QED
  BY <1>2, <1>3, <1>4

\* What Promise knows of the objects stays when their names do.
LEMMA NamesStay ==
    ASSUME Len(cObjects') = Len(cObjects),
           \A q \in 1 .. Len(cObjects) : /\ cObjects'[q].id = cObjects[q].id
                                         /\ cObjects'[q].protocol = cObjects[q].protocol
    PROVE  Wanted' = Wanted /\ Known' = Known /\ KnownIds' = KnownIds
<1>1. Known' = Known
  BY DEF Known
<1>2. Wanted' = Wanted
  BY DEF Wanted
<1>3. \A q \in Known : cObjects'[q].id = cObjects[q].id
  BY DEF Known
<1> QED
  BY <1>1, <1>2, <1>3 DEF KnownIds

\* A step of the client offers it nothing, and takes nothing from it unless it
\* learns an id or loses an announcement.
LEMMA ClientOffers ==
    ASSUME AnswerInv, OffersAnnounced, OffersAnnounced', ClientSteps, UNCHANGED serverVars
    PROVE  /\ UNCHANGED <<maxId, Serving, serverOpen>>
           /\ Offered' \subseteq Offered
           /\ (/\ \A m \in Announced : cObjects[m.seq].id = 0 => m \in Coming'
               /\ \A q \in 1 .. Len(cObjects) : cObjects'[q].id = cObjects[q].id)
                => Offered' = Offered
           /\ OffersStay /\ (\A q \in 1 .. Len(cObjects) : cObjects'[q].id = cObjects[q].id)
                => Offered' = Offered
<1> /\ ObjectsInv
    /\ TypeInv
    /\ ObjectsParts
  BY DEF AnswerInv, ObjectsInv, Sane
<1>1. UNCHANGED <<maxId, sObjects, serverOpen>>
  BY ServerEndUntouched DEF serverVars, sObjectVars
<1>2. UNCHANGED <<maxId, Serving, serverOpen>>
  BY <1>1 DEF Serving
<1>3. \A m \in Announced : m.seq \in 1 .. Len(cObjects)
  BY DEF ObjectsParts, FilterHolds
<1>4. ASSUME NEW o \in Offered'
      PROVE  o \in Offered
  <2>1. PICK m \in Announced' : cObjects'[m.seq].id = 0 /\ o = Pair(m.seq, m.id)
    BY <1>4 DEF OffersAnnounced, Pair
  <2>2. m \in Announced
    BY ClientTies
  <2>3. PICK q : q = m.seq
    OBVIOUS
  <2>4. q \in 1 .. Len(cObjects)
    BY <1>3, <2>2, <2>3
  <2>5. cObjects[q].id = 0
    <3> SUFFICES ASSUME cObjects[q].id # 0 PROVE FALSE
      OBVIOUS
    <3>1. cObjects'[q].id = cObjects[q].id
      BY <2>4, KnownStays
    <3> QED
      BY <2>1, <2>3, <3>1
  <2> QED
    BY <2>1, <2>2, <2>3, <2>5 DEF OffersAnnounced
<1>5. ASSUME \A m \in Announced : cObjects[m.seq].id = 0 => m \in Coming',
             \A q \in 1 .. Len(cObjects) : cObjects'[q].id = cObjects[q].id,
             NEW o \in Offered
      PROVE  o \in Offered'
  <2>1. PICK m \in Announced : cObjects[m.seq].id = 0 /\ o = Pair(m.seq, m.id)
    BY <1>5 DEF OffersAnnounced
  <2>2. m \in Announced'
    BY <1>5, <2>1 DEF Announced
  <2>3. cObjects'[m.seq].id = 0
    BY <1>3, <1>5, <2>1
  <2> QED
    BY <2>1, <2>2, <2>3 DEF OffersAnnounced, Pair
<1>6. OffersStay => \A m \in Announced : cObjects[m.seq].id = 0 => m \in Coming'
  BY DEF OffersStay, Announced
<1> QED
  BY <1>2, <1>4, <1>5, <1>6

\* The client learns an id: it takes that offer and no other.
LEMMA ClientLearns ==
    ASSUME SoundInv, SoundInv', OffersAnnounced, OffersAnnounced', ClientSteps,
           UNCHANGED serverVars, NEW n, Hears(n), n.seq \in 1 .. Len(cObjects),
           cObjects[n.seq].listed, cObjects[n.seq].id = 0
    PROVE  /\ Pair(n.seq, n.id) \in Offered
           /\ Promise!Learn(Pair(n.seq, n.id))
<1> /\ AnswerInv
    /\ ObjectsInv
    /\ ObjectsParts
    /\ AnswerParts
    /\ WireTypeOK
    /\ ClientInv
    /\ ClientTypeOK
    /\ Len(cObjects) \in Nat
    /\ Len(cObjects) <= MaxSeq
    /\ MaxSeq \in Nat
    /\ \A q \in 1 .. Len(cObjects) : cObjects[q] \in ClientObject
  BY LenProperties, ElementOfSeq, ClientAssumption
     DEF SoundInv, EndInv, AnswerInv, ObjectsInv, ObjectsParts, SeqsBounded, Sane, TypeInv,
         ClientInv, ClientTypeOK
<1> DEFINE k == n.seq
           i == n.id
           o == Pair(k, i)
<1>1. n \in Announced
  BY DEF Hears, Announced
<1>2. o \in Ties
  BY <1>1 DEF Ties
<1>3. i \in Nat /\ i # 0
  <2>1. n \in ServerMessage /\ n.type = "NEW_OBJECT"
    BY ComingIsTyped DEF Hears
  <2> QED
    BY <1>2, <2>1 DEF ServerMessage, Invalid, ObjectsParts, IdsSpent, Pair
<1>4. o \in Offered
  BY <1>1 DEF OffersAnnounced
<1>5. cObjects' = [cObjects EXCEPT ![k] = [cObjects[k] EXCEPT !.id = i]]
  BY DEF Hears
<1>6. [cObjects[k] EXCEPT !.id = i] \in ClientObject
  BY <1>3 DEF ClientObject
<1>7. Len(cObjects') = Len(cObjects)
  BY <1>5, <1>6, UpdateType
<1>8. /\ cObjects'[k].id = i
      /\ cObjects'[k].protocol = cObjects[k].protocol
      /\ cObjects'[k].destroyed = cObjects[k].destroyed
      /\ cObjects'[k].held = cObjects[k].held
      /\ \A r \in 1 .. Len(cObjects) : r # k => cObjects'[r] = cObjects[r]
  BY <1>5 DEF ClientTypeOK, ClientObject
<1>9. Wanted' = Wanted /\ DOMAIN Wanted = 1 .. Len(cObjects)
  BY <1>7, <1>8 DEF Wanted
<1>10. Released' = Released
  BY <1>7, <1>8, Zenon DEF Released
<1>11. /\ k \notin Known
       /\ Known' = Known \cup {k}
       /\ DOMAIN KnownIds = Known
       /\ \A q \in Known : q # k /\ cObjects'[q].id = cObjects[q].id
  BY <1>3, <1>7, <1>8 DEF Known, KnownIds
<1>12. KnownIds' = [q \in DOMAIN KnownIds \cup {k} |-> IF q = k THEN i ELSE KnownIds[q]]
  BY <1>8, <1>11 DEF KnownIds
<1>13. Offered' = Offered \ {o}
  <2>1. Offered' \subseteq Offered
    BY ClientOffers
  <2>2. o \notin Offered'
    BY <1>3, <1>8 DEF OffersAnnounced, Pair
  <2>3. ASSUME NEW u \in Offered, u # o
        PROVE  u \in Offered'
    <3>1. PICK m \in Announced : cObjects[m.seq].id = 0 /\ u = Pair(m.seq, m.id)
      BY <2>3 DEF OffersAnnounced
    <3>2. m # n
      BY <2>3, <3>1
    <3>3. m \in Announced'
      BY <3>2 DEF Hears, Announced
    <3>4. m.seq # k
      <4>1. Pair(m.seq, m.id) \in Ties
        BY DEF Ties
      <4> QED
        BY <1>2, <2>3, <3>1, <4>1 DEF AnswerParts, SeqsTieOnce, Pair
    <3>5. m.seq \in 1 .. Len(cObjects)
      BY DEF ObjectsParts, FilterHolds
    <3>6. cObjects'[m.seq].id = 0
      BY <1>8, <3>1, <3>4, <3>5
    <3> QED
      BY <3>1, <3>3, <3>6 DEF OffersAnnounced, Pair
  <2> QED
    BY <2>1, <2>2, <2>3
<1>14. o = Pair(n.seq, n.id) /\ o.seq = k /\ o.id = i
  BY DEF Pair
<1>15. UNCHANGED <<maxId, Serving, serverOpen>> /\ cError' = cError
  BY ClientOffers DEF Hears
<1>16. (~serverOpen)' = (~serverOpen)
  BY <1>15, Zenon
<1> HIDE DEF o
<1> QED
  BY <1>4, <1>9, <1>10, <1>11, <1>12, <1>13, <1>14, <1>15, <1>16 DEF Promise!Learn

\* The client asks for one more object.
LEMMA ClientAsks ==
    ASSUME SoundInv, SoundInv', OffersAnnounced, OffersAnnounced', ClientSteps,
           UNCHANGED serverVars, Asks
    PROVE  \E p \in Protocols, keeps \in BOOLEAN : Promise!Ask(p, keeps)
<1> /\ AnswerInv
    /\ Len(cObjects) \in Nat
    /\ Len(cObjects') = Len(cObjects) + 1
    /\ \A q \in 1 .. Len(cObjects) : cObjects[q] \in ClientObject
    /\ cObjects' \in Seq(ClientObject)
  BY LenProperties, ElementOfSeq
     DEF SoundInv, EndInv, AnswerInv, ObjectsInv, Sane, TypeInv, ClientInv, ClientTypeOK, Asks
<1> DEFINE n == Len(cObjects)
<1>1. PICK p \in Protocols : p = cObjects'[n + 1].protocol
  BY DEF Asks
<1>2. /\ \A q \in 1 .. n : /\ cObjects'[q].id = cObjects[q].id
                           /\ cObjects'[q].protocol = cObjects[q].protocol
                           /\ cObjects'[q].destroyed = cObjects[q].destroyed
                           /\ cObjects'[q].held = cObjects[q].held
      /\ cObjects'[n + 1].id = 0
      /\ OffersStay
      /\ cError' = cError
  BY DEF Asks, Keeps
<1>3. cObjects'[n + 1] \in ClientObject
  BY ElementOfSeq
<1>4. PICK keeps \in BOOLEAN : keeps = cObjects'[n + 1].held
  BY <1>3 DEF ClientObject
<1>5. ~cObjects'[n + 1].destroyed
  BY Zenon DEF Asks
<1>6. Wanted \in Seq(Protocols) /\ Len(Wanted) = n
  BY DEF Wanted, ClientObject
<1>7. Wanted' = Append(Wanted, p)
  <2>1. Wanted' = [q \in 1 .. n + 1 |-> cObjects'[q].protocol]
    BY DEF Wanted
  <2>2. /\ Append(Wanted, p) \in Seq(Protocols)
        /\ Len(Append(Wanted, p)) = n + 1
        /\ Append(Wanted, p)[n + 1] = p
        /\ \A q \in 1 .. n : Append(Wanted, p)[q] = Wanted[q]
    BY <1>6, AppendProperties
  <2>3. \A q \in 1 .. n : Wanted[q] = cObjects'[q].protocol
    BY <1>2 DEF Wanted
  <2>4. \A q \in 1 .. n + 1 : q \in 1 .. n \/ q = n + 1
    OBVIOUS
  <2>5. \A q \in 1 .. n + 1 : cObjects'[q].protocol = Append(Wanted, p)[q]
    BY <1>1, <2>2, <2>3, <2>4
  <2> DEFINE w == Append(Wanted, p)
  <2>6. w \in Seq(Protocols) /\ Len(w) = n + 1
    BY <2>2
  <2>7. \A q \in 1 .. n + 1 : cObjects'[q].protocol = w[q]
    BY <2>5
  <2> HIDE DEF w
  <2>8. w = [q \in 1 .. n + 1 |-> w[q]]
    BY <2>6
  <2>9. Wanted' = w
    BY <2>1, <2>7, <2>8
  <2> QED
    BY <2>9 DEF w
<1>8. Released' = IF keeps THEN Released ELSE Released \cup {n + 1}
  <2>1. \A q : q \in 1 .. Len(cObjects') <=> q \in 1 .. n \/ q = n + 1
    OBVIOUS
  <2>2. ~(n + 1 \in 1 .. n)
    OBVIOUS
  <2>3. \A q : q \in Released' <=> q \in Released \/ (q = n + 1 /\ ~keeps)
    BY <1>2, <1>4, <1>5, <2>1, <2>2, Zenon DEF Released
  <2> QED
    BY <2>3
<1>9. KnownIds' = KnownIds
  <2>1. Known' = Known
    BY <1>2 DEF Known
  <2>2. \A q \in Known : cObjects'[q].id = cObjects[q].id
    BY <1>2 DEF Known
  <2> QED
    BY <2>1, <2>2 DEF KnownIds
<1>10. UNCHANGED <<maxId, Serving, serverOpen, Offered>>
  BY <1>2, ClientOffers
<1>11. (~serverOpen)' = (~serverOpen)
  BY <1>10, Zenon
<1>12. Promise!Ask(p, keeps)
  BY <1>2, <1>6, <1>7, <1>8, <1>9, <1>10, <1>11 DEF Promise!Ask
<1> QED
  BY <1>12

\* Every step of the client is one the client of Promise may take.
LEMMA ClientKeepsPromise ==
    ASSUME SoundInv, SoundInv', OffersAnnounced, OffersAnnounced', ClientSteps,
           UNCHANGED serverVars
    PROVE  Promise!Next \/ UNCHANGED Promise!objectVars
<1> /\ AnswerInv
    /\ ObjectsParts
    /\ WireTypeOK
    /\ ClientInv
    /\ BatchesWhenParsing
    /\ Len(cObjects) \in Nat
    /\ Len(cObjects') \in Nat
    /\ MaxSeq \in Nat
    /\ \A q \in 1 .. Len(cObjects) : cObjects[q] \in ClientObject
  BY LenProperties, ElementOfSeq, ClientAssumption
     DEF SoundInv, EndInv, AnswerInv, ObjectsInv, Sane, TypeInv, ClientInv, ClientTypeOK
<1>1. cError \in BOOLEAN /\ cError' \in BOOLEAN
  BY Zenon DEF SoundInv, EndInv, AnswerInv, ObjectsInv, Sane, TypeInv, ClientInv, ClientTypeOK
<1>2. /\ UNCHANGED <<maxId, Serving, serverOpen>>
      /\ Offered' \subseteq Offered
      /\ (~serverOpen)' = (~serverOpen)
  <2>1. UNCHANGED <<maxId, Serving, serverOpen>> /\ Offered' \subseteq Offered
    BY ClientOffers
  <2>2. (~serverOpen)' = (~serverOpen)
    BY <2>1, Zenon
  <2> QED
    BY <2>1, <2>2
<1> DEFINE SameNames == /\ Len(cObjects') = Len(cObjects)
                        /\ \A q \in 1 .. Len(cObjects) :
                             /\ cObjects'[q].id = cObjects[q].id
                             /\ cObjects'[q].protocol = cObjects[q].protocol
<1>3. DOMAIN Wanted = 1 .. Len(cObjects)
  BY DEF Wanted
<1>4. ASSUME SameNames, cError', Released' \in {Released, DOMAIN Wanted}
      PROVE  Promise!Next
  <2>1. cError' = TRUE
    BY <1>1, <1>4, Zenon
  <2>2. UNCHANGED <<Wanted, KnownIds>>
    BY <1>4, NamesStay
  <2>3. Promise!GiveUp
    BY <1>2, <1>4, <2>1, <2>2 DEF Promise!GiveUp
  <2> QED
    BY <2>3 DEF Promise!Next
<1>5. ASSUME SameNames, cError' = cError, Released' = Released,
             \A m \in Announced : cObjects[m.seq].id = 0 => m \in Coming'
      PROVE  UNCHANGED Promise!objectVars
  <2>1. UNCHANGED <<Wanted, KnownIds, Offered>>
    BY <1>5, NamesStay, ClientOffers
  <2> QED
    BY <1>2, <1>5, <2>1 DEF Promise!objectVars
<1>6. OffersStay => \A m \in Announced : cObjects[m.seq].id = 0 => m \in Coming'
  BY DEF OffersStay, Announced
<1> DEFINE Goal == Promise!Next \/ UNCHANGED Promise!objectVars
<1> SUFFICES Goal
  OBVIOUS
<1>7. CASE Idles
  <2>1. SameNames
    BY <1>7 DEF Idles, Keeps
  <2>2. Released' = Released
    BY <1>7, Zenon DEF Idles, Keeps, Released
  <2> QED
    BY <1>4, <1>5, <1>6, <1>7, <2>1, <2>2, Zenon DEF Idles
<1>8. CASE \E i : Frees(i)
  <2>1. PICK i : Frees(i)
    BY <1>8
  <2>2. SameNames /\ i \in 1 .. Len(cObjects)
    BY <2>1 DEF Frees, Keeps
  <2>3. Released' = Released \cup {i}
    <3>1. \A q : q \in Released' <=> q \in Released \/ q = i
      BY <2>1, Zenon DEF Frees, Keeps, Released
    <3> QED
      BY <3>1
  <2>4. cError' = cError /\ OffersStay
    BY <2>1 DEF Frees
  <2>5. CASE i \in Released
    BY <1>5, <1>6, <2>2, <2>3, <2>4, <2>5
  <2>6. CASE i \notin Released
    <3>1. UNCHANGED <<Wanted, KnownIds, Offered>>
      BY <2>2, <2>4, NamesStay, ClientOffers
    <3>2. Promise!Release(i)
      BY <1>2, <1>3, <2>2, <2>3, <2>4, <2>6, <3>1 DEF Promise!Release
    <3> QED
      BY <1>3, <2>2, <3>2 DEF Promise!Next
  <2> QED
    BY <2>5, <2>6
<1>9. CASE \E n : Hears(n)
  <2>1. PICK n : Hears(n)
    BY <1>9
  <2>2. CASE n.seq \in 1 .. Len(cObjects) /\ cObjects[n.seq].listed /\ cObjects[n.seq].id = 0
    <3>1. Pair(n.seq, n.id) \in Offered /\ Promise!Learn(Pair(n.seq, n.id))
      BY <2>1, <2>2, ClientLearns
    <3> QED
      BY <3>1 DEF Promise!Next
  <2>3. CASE n.seq \in 1 .. Len(cObjects) /\ cObjects[n.seq].listed /\ cObjects[n.seq].id # 0
    <3>1. cObjects' = [cObjects EXCEPT ![n.seq] = [cObjects[n.seq] EXCEPT !.id = n.id]]
      BY <2>1, <2>3 DEF Hears
    <3>2. n.seq \in 1 .. Len(cObjects')
      BY <2>3, KnownStays
    <3>3. cObjects'[n.seq].id = cObjects[n.seq].id
      BY <2>3, KnownStays
    <3>4. cObjects'[n.seq] = [cObjects[n.seq] EXCEPT !.id = n.id]
      BY <2>3, <3>1 DEF ClientInv, ClientTypeOK
    <3>5. n.id = cObjects[n.seq].id
      BY <2>3, <3>3, <3>4 DEF ClientObject
    <3>6. cObjects' = cObjects
      BY <2>3, <3>1, <3>5 DEF ClientInv, ClientTypeOK, ClientObject
    <3>7. SameNames /\ Released' = Released
      BY <3>6 DEF Released
    <3>8. \A m \in Announced : cObjects[m.seq].id = 0 => m \in Coming'
      BY <2>1, <2>3 DEF Hears, Announced
    <3>9. cError' = cError
      BY <2>1 DEF Hears
    <3> QED
      BY <1>5, <3>7, <3>8, <3>9
  <2>4. CASE ~(n.seq \in 1 .. Len(cObjects) /\ cObjects[n.seq].listed)
    <3>1. cObjects' = cObjects /\ cError' = cError
      BY <2>1, <2>4 DEF Hears
    <3>2. SameNames /\ Released' = Released
      BY <3>1 DEF Released
    <3>3. CASE cError'
      BY <1>4, <3>2, <3>3
    <3>4. CASE ~cError'
      <4>1. ~cError
        BY <3>1, <3>4, Zenon
      <4>2. n.seq \in 1 .. Len(cObjects) => cObjects[n.seq].id # 0
        BY <2>4, <4>1, Zenon DEF SoundInv, ListedInv, ListedParts, AwaitedAreListed
      <4>3. \A m \in Announced : m.seq \in 1 .. Len(cObjects)
        BY DEF ObjectsParts, FilterHolds
      <4>4. \A m \in Announced : cObjects[m.seq].id = 0 => m \in Coming'
        BY <2>1, <4>2, <4>3 DEF Hears, Announced
      <4> QED
        BY <1>5, <3>1, <3>2, <4>4
    <3> QED
      BY <3>3, <3>4
  <2> QED
    BY <2>2, <2>3, <2>4
<1>10. CASE Asks
  BY <1>10, ClientAsks DEF Promise!Next
<1>11. CASE LetsAllGo
  <2>1. SameNames
    BY <1>11 DEF LetsAllGo
  <2>2. Released' = 1 .. Len(cObjects)
    BY <1>11, Zenon DEF LetsAllGo, Released
  <2>3. cError'
    BY <1>11, Zenon DEF LetsAllGo
  <2> QED
    BY <1>3, <1>4, <2>1, <2>2, <2>3
<1> HIDE DEF Goal
<1> QED
  BY <1>7, <1>8, <1>9, <1>10, <1>11, ClientMoves

\* A step of the server leaves what the client has to itself, and offers
\* something only when it makes an object.
LEMMA ServerOffers ==
    ASSUME AnswerInv, OffersAnnounced, OffersAnnounced', ServerSteps, UNCHANGED clientVars
    PROVE  /\ UNCHANGED <<Wanted, Released, Known, KnownIds, cError>>
           /\ Offered \subseteq Offered'
           /\ KeepsObjects => Offered' = Offered
           /\ \A r : MakesFor(r) => Offered' \subseteq Offered \cup {Pair(r.seq, maxId)}
<1> /\ TypeInv
    /\ WireTypeOK
    /\ ServerTypeOK
  BY DEF AnswerInv, ObjectsInv, Sane, TypeInv
<1>1. UNCHANGED <<cObjects, stack, cError>>
  BY DEF clientVars
<1>2. UNCHANGED <<Wanted, Released, Known, KnownIds, cError>>
  BY <1>1 DEF Wanted, Released, Known, KnownIds
<1>3. Announced \subseteq Announced'
  BY <1>1, ServerTells DEF Announced, Coming, Batches
<1>4. Offered \subseteq Offered'
  BY <1>1, <1>3 DEF OffersAnnounced, Pair
<1>5. KeepsObjects => Offered' = Offered
  <2>1. KeepsObjects => Announced' \subseteq Announced
    BY ServerTies
  <2> QED
    BY <1>1, <1>3, <2>1 DEF OffersAnnounced, Pair
<1>6. ASSUME NEW r, MakesFor(r), NEW o \in Offered'
      PROVE  o \in Offered \/ o = Pair(r.seq, maxId)
  <2>1. PICK m \in Announced' : cObjects[m.seq].id = 0 /\ o = Pair(m.seq, m.id)
    BY <1>1, <1>6 DEF OffersAnnounced, Pair
  <2>2. CASE m \in Announced
    BY <2>1, <2>2 DEF OffersAnnounced
  <2>3. CASE m = NewObject(r.seq, maxId)
    BY <2>1, <2>3 DEF NewObject
  <2>4. m \in Announced \/ m = NewObject(r.seq, maxId)
    BY <1>6, ServerTies
  <2> QED
    BY <2>2, <2>3, <2>4
<1> QED
  BY <1>2, <1>4, <1>5, <1>6

\* The server makes an object: of those asked for, one it has not answered.
LEMMA ServerMakesPromised ==
    ASSUME SoundInv, OffersAnnounced, OffersAnnounced', ServerSteps, UNCHANGED clientVars,
           serverOpen, serverOpen', NEW r \in Asked, MakesFor(r), r.seq \in Awaited
    PROVE  r.seq \in DOMAIN Wanted /\ Promise!Make(r.seq)
<1> /\ AnswerInv
    /\ ObjectsParts
    /\ AnswerParts
    /\ serverOpen \in BOOLEAN
    /\ serverOpen' = serverOpen
  BY Zenon DEF SoundInv, EndInv, AnswerInv, ObjectsInv, Sane, TypeInv, WireTypeOK
<1> DEFINE q == r.seq
           x == [seq |-> q, id |-> maxId, protocol |-> Wanted[q]]
<1>1. q \in DOMAIN Wanted /\ Wanted[q] = r.protocol
  BY DEF ObjectsParts, RequestsFit, Fits, Wanted
<1>2. \A b \in Ties : b.seq # q
  BY DEF AnswerParts, NotAnswered, Pending
<1>3. \A o \in Serving : o.seq # q
  <2>1. \A o \in sObjects : Pair(o.seq, o.id) \in Ties
    BY DEF Ties
  <2>2. \A o \in sObjects : o.seq # q
    BY <1>2, <2>1 DEF Pair
  <2> QED
    BY <2>2 DEF Serving
<1>4. \A o \in Offered : o.seq # q
  BY <1>2 DEF OffersAnnounced, Ties, Pair
<1>5. q \notin DOMAIN KnownIds
  <2>1. \A k \in 1 .. Len(cObjects) : cObjects[k].id # 0 => Pair(k, cObjects[k].id) \in Ties
    BY DEF Ties
  <2> QED
    BY <1>2, <2>1 DEF KnownIds, Known, Pair
<1>6. q \notin Promise!Answered
  BY <1>3, <1>4, <1>5 DEF Promise!Answered
<1>7. Serving' = Serving \cup {x}
  <2>1. sObjects' = sObjects \cup {Made(r)}
    BY DEF MakesFor
  <2>2. x = [seq |-> Made(r).seq, id |-> Made(r).id, protocol |-> Made(r).protocol]
    BY <1>1 DEF Made
  <2> DEFINE m == Made(r)
  <2>3. sObjects' = sObjects \cup {m} /\ x = [seq |-> m.seq, id |-> m.id, protocol |-> m.protocol]
    BY <2>1, <2>2
  <2> HIDE DEF m, x
  <2> QED
    BY <2>3 DEF Serving
<1>8. Offered' \in {Offered, Offered \cup {[seq |-> q, id |-> maxId]}}
  <2>1. Offered \subseteq Offered' /\ Offered' \subseteq Offered \cup {Pair(q, maxId)}
    BY ServerOffers
  <2> QED
    BY <2>1 DEF Pair
<1>9. UNCHANGED <<Wanted, Released, KnownIds, cError>> /\ maxId' = maxId + 1
  BY ServerOffers DEF MakesFor
<1>10. (~serverOpen)' = (~serverOpen)
  BY Zenon
<1>11. Promise!Make(q)
  BY <1>1, <1>6, <1>7, <1>8, <1>9, <1>10 DEF Promise!Make
<1> QED
  BY <1>1, <1>11

\* The server destroys an object: one the client is through with.
LEMMA ServerDestroysPromised ==
    ASSUME SoundInv, OffersAnnounced, OffersAnnounced', ServerSteps, UNCHANGED clientVars,
           serverOpen' = serverOpen, KeepsObjects, Destroys
    PROVE  (\E o \in Serving : Promise!Destroy(o)) \/ Serving' = Serving
<1> /\ AnswerInv
    /\ ObjectsParts
    /\ EndParts
  BY DEF SoundInv, EndInv, AnswerInv, ObjectsInv
<1>1. PICK i : /\ sObjects' = WithoutObject(i)
               /\ \/ \E m \in Going : Ends(m) /\ m.object = i
                  \/ IsDestructor(sCall.method) /\ sCall.id = i
  BY DEF Destroys
<1>2. Through(i)
  BY <1>1 DEF EndParts, EndsAreMeant, CallIsMeant
<1>3. PICK q \in 1 .. Len(cObjects) : cObjects[q].id = i /\ i # 0 /\ Gone(q)
  BY <1>2 DEF Through
<1>4. q \in Released /\ q \in DOMAIN KnownIds /\ KnownIds[q] = i
  <2>1. q \in Released
    BY <1>3, Zenon DEF Released, Gone
  <2> QED
    BY <1>3, <2>1 DEF KnownIds, Known
<1>5. sObjects' = {o \in sObjects : o.id # i}
  BY <1>1 DEF WithoutObject
<1>6. CASE \A o \in sObjects : o.id # i
  <2>1. sObjects' = sObjects
    BY <1>5, <1>6
  <2> QED
    BY <2>1 DEF Serving
<1>7. CASE \E o \in sObjects : o.id = i
  <2>1. PICK o \in sObjects : o.id = i
    BY <1>7
  <2>2. sObjects' = sObjects \ {o}
    BY <1>5, <2>1 DEF ObjectsParts, IdsUnique
  <2>3. o.seq = q
    <3>1. Pair(o.seq, i) \in Ties /\ Pair(q, i) \in Ties
      BY <1>3, <2>1 DEF Ties
    <3> QED
      BY <3>1 DEF ObjectsParts, IdsTieOnce, Pair
  <2> DEFINE x == [seq |-> o.seq, id |-> o.id, protocol |-> o.protocol]
  <2>4. x \in Serving /\ x.seq = q /\ x.id = i
    BY <2>1, <2>3 DEF Serving
  <2>5. Serving' = Serving \ {x}
    <3>1. \A u \in sObjects : u # o
            => [seq |-> u.seq, id |-> u.id, protocol |-> u.protocol] # x
      BY <2>1 DEF ObjectsParts, IdsUnique
    <3>2. x \in Serving
      BY <2>4
    <3>3. x = [seq |-> o.seq, id |-> o.id, protocol |-> o.protocol]
      OBVIOUS
    <3> HIDE DEF x
    <3> QED
      BY <2>2, <3>1, <3>2, <3>3 DEF Serving
  <2>6. UNCHANGED <<Wanted, Released, KnownIds, cError, Offered, maxId>>
    BY ServerOffers DEF KeepsObjects
  <2>7. (~serverOpen)' = (~serverOpen)
    BY Zenon
  <2> HIDE DEF x
  <2>8. Promise!Destroy(x)
    BY <1>4, <2>4, <2>5, <2>6, <2>7 DEF Promise!Destroy
  <2> QED
    BY <2>4, <2>8
<1> QED
  BY <1>6, <1>7

\* Every step of the server is one the server of Promise may take.
LEMMA ServerKeepsPromise ==
    ASSUME SoundInv, OffersAnnounced, OffersAnnounced', ServerSteps, UNCHANGED clientVars,
           serverOpen' \in BOOLEAN
    PROVE  Promise!Next \/ UNCHANGED Promise!objectVars
<1> /\ AnswerInv
    /\ AskedOnce
    /\ WireTypeOK
    /\ ServerTypeOK
    /\ maxId \in Nat
  BY DEF SoundInv, EndInv, AnswerInv, AnswerParts, ObjectsInv, Sane, TypeInv, ServerTypeOK
<1> DEFINE Goal == Promise!Next \/ UNCHANGED Promise!objectVars
<1> SUFFICES Goal
  OBVIOUS
<1>1. serverOpen \in BOOLEAN /\ serverOpen = TRUE
  BY ServerServes, Zenon DEF WireTypeOK
<1>2. ASSUME maxId' = maxId
      PROVE  KeepsObjects
  BY <1>2, ServerMakes DEF MakesFor
<1>3. ASSUME serverOpen' = serverOpen, KeepsObjects, Serving' = Serving
      PROVE  Goal
  <2>1. (~serverOpen)' = (~serverOpen)
    BY <1>3, Zenon
  <2>2. UNCHANGED <<Wanted, Released, KnownIds, cError, Offered, maxId>>
    BY <1>3, ServerOffers DEF KeepsObjects
  <2> QED
    BY <1>3, <2>1, <2>2 DEF Promise!objectVars
<1>4. CASE serverOpen' /\ maxId' = maxId + 1
  <2>1. ~KeepsObjects
    BY <1>4 DEF KeepsObjects
  <2>2. PICK r \in Asked : MakesFor(r) /\ r.seq \in Awaited
    BY <2>1, ServerAnswersOnce
  <2>3. r.seq \in DOMAIN Wanted /\ Promise!Make(r.seq)
    BY <1>1, <1>4, <2>2, ServerMakesPromised
  <2> QED
    BY <2>3 DEF Promise!Next
<1>5. CASE serverOpen' /\ maxId' = maxId /\ (sObjects' = sObjects \/ Marks \/ Destroys)
  <2>1. serverOpen' = serverOpen
    BY <1>1, <1>5, Zenon
  <2>2. CASE sObjects' = sObjects
    BY <1>2, <1>3, <1>5, <2>1, <2>2 DEF Serving
  <2>3. CASE Marks
    <3>1. PICK o \in sObjects, d \in BOOLEAN :
             sObjects' = (sObjects \ {o}) \cup {[o EXCEPT !.destroyed = d]}
      BY <2>3 DEF Marks
    <3> DEFINE u == [o EXCEPT !.destroyed = d]
    <3>2. u.seq = o.seq /\ u.id = o.id /\ u.protocol = o.protocol
      BY DEF ServerTypeOK, ServerObject
    <3>3. sObjects' = (sObjects \ {o}) \cup {u}
      BY <3>1
    <3> HIDE DEF u
    <3>4. Serving' = Serving
      BY <3>2, <3>3 DEF Serving
    <3> QED
      BY <1>2, <1>3, <1>5, <2>1, <3>4
  <2>4. CASE Destroys
    <3>1. (\E o \in Serving : Promise!Destroy(o)) \/ Serving' = Serving
      BY <1>2, <1>5, <2>1, <2>4, ServerDestroysPromised
    <3> QED
      BY <1>2, <1>3, <1>5, <2>1, <3>1 DEF Promise!Next
  <2> QED
    BY <1>5, <2>2, <2>3, <2>4
<1>6. CASE ~serverOpen' /\ maxId' = maxId /\ sObjects' = {} /\ s2c' = s2c
  <2>1. (~serverOpen)' = TRUE
    BY <1>6, Zenon
  <2>2. UNCHANGED <<Wanted, Released, KnownIds, cError, Offered>>
    BY <1>2, <1>6, ServerOffers
  <2>3. Serving' = {}
    BY <1>6 DEF Serving
  <2>4. Promise!Drop
    BY <1>1, <1>6, <2>1, <2>2, <2>3 DEF Promise!Drop
  <2> QED
    BY <2>4 DEF Promise!Next
<1> HIDE DEF Goal
<1> QED
  BY <1>4, <1>5, <1>6, ServerServes

\* At the start nothing is asked for, made or offered.
LEMMA PromiseInit == Init => Promise!Init
<1> SUFFICES ASSUME Init PROVE Promise!Init
  OBVIOUS
<1>1. /\ cObjects = <<>>
      /\ Len(cObjects) = 0
      /\ sObjects = {}
      /\ maxId = 1
      /\ 1 .. 0 = {}
  BY DEF Init, ServerInit, ClientInit, FirstId
<1>2. cError = FALSE /\ (~serverOpen) = FALSE
  BY Zenon DEF Init, ClientInit, WireInit
<1>3. Known = {} /\ Released = {} /\ Serving = {} /\ Offered = {}
  BY <1>1 DEF Known, Released, Serving, Offered, Offers
<1>4. Wanted = <<>>
  BY <1>1 DEF Wanted
<1>5. KnownIds = <<>>
  BY <1>3 DEF KnownIds
<1> QED
  BY <1>1, <1>2, <1>3, <1>4, <1>5 DEF Promise!Init

\* Every step keeps the promise, unless a stray asks, announces or destroys in
\* somebody's name.
LEMMA PromiseStep ==
    ASSUME NoForgedObjects
    PROVE  SoundInv /\ SoundInv' /\ OffersAnnounced /\ OffersAnnounced' /\ [Next]_vars
             => [Promise!Next]_Promise!objectVars
<1> SUFFICES ASSUME SoundInv, SoundInv', OffersAnnounced, OffersAnnounced', [Next]_vars
             PROVE  Promise!Next \/ UNCHANGED Promise!objectVars
  BY Zenon
<1>1. serverOpen' \in BOOLEAN
  BY DEF SoundInv, EndInv, AnswerInv, ObjectsInv, Sane, TypeInv, WireTypeOK
<1>2. TypeInv /\ ObjectsParts
  BY DEF SoundInv, EndInv, AnswerInv, ObjectsInv, Sane
<1>3. CASE ClientSteps /\ UNCHANGED serverVars
  BY <1>3, ClientKeepsPromise
<1>4. CASE ServerSteps /\ UNCHANGED clientVars
  BY <1>1, <1>4, ServerKeepsPromise
<1>5. ASSUME UNCHANGED <<cObjects, cError, sObjects, maxId, serverOpen>>, Announced' = Announced
      PROVE  UNCHANGED Promise!objectVars
  <2>1. UNCHANGED <<Wanted, Released, KnownIds, Serving>>
    BY <1>5 DEF Wanted, Released, Known, KnownIds, Serving
  <2>2. Offered' = Offered
    BY <1>5 DEF OffersAnnounced, Pair
  <2>3. (~serverOpen)' = (~serverOpen)
    BY <1>5, Zenon
  <2> QED
    BY <1>5, <2>1, <2>2, <2>3 DEF Promise!objectVars
<1>6. CASE ClientStrays /\ UNCHANGED serverVars
  <2>1. UNCHANGED <<cObjects, cError, sObjects, maxId, serverOpen>>
    BY <1>6 DEF ClientStrays, serverVars, sObjectVars, clientVars
  <2>2. Announced' = Announced
    BY <1>2, <1>6, StraysRange DEF Announced
  <2> QED
    BY <1>5, <2>1, <2>2
<1>7. CASE ServerStrays /\ UNCHANGED clientVars
  <2>1. UNCHANGED <<cObjects, cError, sObjects, maxId, serverOpen>>
    BY <1>7 DEF ServerStrays, serverVars, sObjectVars, clientVars
  <2>2. Announced' = Announced
    BY <1>2, <1>7, StraysRange DEF Announced, NoForgedObjects
  <2> QED
    BY <1>5, <2>1, <2>2
<1>8. CASE UNCHANGED vars
  <2>1. UNCHANGED <<cObjects, cError, sObjects, maxId, serverOpen>>
    BY <1>8 DEF vars, wireVars, serverVars, sObjectVars, clientVars
  <2>2. Announced' = Announced
    BY <1>8, WireUntouched DEF vars, wireVars, Announced
  <2> QED
    BY <1>5, <2>1, <2>2
<1> QED
  BY <1>3, <1>4, <1>6, <1>7, <1>8, WhoSteps

\* Between peers that were built from this code, and whatever strays write that
\* is not in their name, a connection implements Objects: each object is made
\* once, under an id never used again, the client learns that id and no other,
\* and the server keeps the object until the client that knows it is through
\* with it.
THEOREM PromiseKept ==
    ASSUME NoForgedObjects, NoForgedEnds, EventsAreNamed
    PROVE  Spec => ObjectsAsPromised
<1>1. Init => SoundInv
  BY EndInit, ListedInit DEF SoundInv
<1>2. SoundInv /\ [Next]_vars => SoundInv'
  BY EndStep, ListedStep DEF SoundInv
<1>3. SoundInv => OffersAnnounced
  BY OffersAreAnnounced DEF SoundInv, EndInv, AnswerInv
<1>4. Init => Promise!Init
  BY PromiseInit
<1>5. SoundInv /\ SoundInv' /\ OffersAnnounced /\ OffersAnnounced' /\ [Next]_vars
        => [Promise!Next]_Promise!objectVars
  BY PromiseStep
<1> QED
  BY <1>1, <1>2, <1>3, <1>4, <1>5, PTL DEF Spec, ObjectsAsPromised, Promise!Spec

-----------------------------------------------------------------------------
(* A deferred call is not forgotten                                          *)

\* The server's application destroys nothing of its own accord: events are not
\* destructors.
NoEndEvents ==
    /\ \A x \in Events : ~IsDestructor(x)
    /\ \A m \in StrayToClient : m.type = "GENERIC" => ~IsDestructor(m.method)

KeptParts == OneCall /\ ~ServerEnded /\ HeldAreListed /\ DeferredAreListed
KeptInv   == Sane /\ KeptParts

\* At the start there is neither a call nor an object.
LEMMA KeptInit == Init => KeptInv
<1> SUFFICES ASSUME Init PROVE KeptInv
  OBVIOUS
<1>1. Coming = {}
  BY RangeOfShort DEF Init, WireInit, ClientInit, Coming, Batches
<1>2. Len(cObjects) = 0 /\ Len(stack) = 0 /\ Len(pendingOutgoing) = 0
  BY DEF Init, ClientInit
<1>3. OneCall /\ ~ServerEnded
  BY <1>1, <1>2 DEF OneCall, ServerEnded, CameFor
<1>4. HeldAreListed /\ DeferredAreListed
  BY <1>2 DEF HeldAreListed, DeferredAreListed
<1> QED
  BY <1>3, <1>4, SaneInit DEF KeptInv, KeptParts

\* The client's part.
LEMMA KeptClientStep ==
    ASSUME DispatchesDoNotNest, KeptInv, ClientSteps
    PROVE  KeptParts'
<1> /\ WireTypeOK
    /\ ClientInv
    /\ ClientTypeOK
    /\ BatchesWhenParsing
    /\ Len(cObjects) \in Nat
    /\ OneCall
    /\ KeptParts
  BY LenProperties DEF KeptInv, KeptParts, Sane, TypeInv, ClientInv, ClientTypeOK
<1>1. /\ OneCall'
      /\ Rests \/ Acts \/ Reads \/ Takes \/ Resumes \/ Finishes \/ GivesUp
  BY ClientTurns
<1>2. ~ServerEnded'
  <2> SUFFICES ASSUME NEW x, IsDestructor(x),
                      CameFor(x)' \/ \E k \in 1 .. Len(stack') : stack'[k].called.method = x
               PROVE  FALSE
    BY DEF ServerEnded
  <2>1. ~CameFor(x) /\ \A g \in 1 .. Len(stack) : stack[g].called.method # x
    BY DEF KeptParts, ServerEnded
  <2>2. ~CameFor(x)'
    BY <2>1, ClientTakes DEF CameFor
  <2>3. PICK k \in 1 .. Len(stack') : stack'[k].called.method = x
    BY <2>2
  <2>4. CASE stack'[k].called = Idle
    BY <2>3, <2>4 DEF Idle, IsDestructor
  <2>5. CASE \E g \in 1 .. Len(stack) : stack'[k].called = stack[g].called
    BY <2>1, <2>3, <2>5
  <2> QED
    BY <2>1, <2>3, <2>4, <2>5, CalledStays
<1>3. \A q \in 1 .. Len(cObjects) :
        /\ q \in 1 .. Len(cObjects')
        /\ cObjects'[q].held => cObjects[q].held
  BY ClientKeepsNames DEF ObjectsGoOn, Succeeds
<1>4. ASSUME NEW q \in 1 .. Len(cObjects), cObjects[q].listed, ~cObjects'[q].listed
      PROVE  Collects(q) \/ ClientCloses
  BY <1>4, ClientSpares, Zenon DEF Spares, Destructs, KeptParts
<1>5. ASSUME NEW q \in 1 .. Len(cObjects'), cObjects'[q].held
      PROVE  cObjects'[q].listed
  <2>1. CASE q \in 1 .. Len(cObjects)
    <3>1. cObjects[q].held /\ cObjects[q].listed
      BY <1>3, <1>5, <2>1 DEF KeptParts, HeldAreListed
    <3>2. ~Collects(q)
      BY <3>1 DEF Collects, IsOrphan
    <3>3. CASE ClientCloses
      <4>1. cObjects'[q] = [cObjects[q] EXCEPT !.listed = FALSE, !.held = FALSE, !.listening = FALSE]
        BY <2>1, <3>3 DEF ClientCloses
      <4>2. ~cObjects'[q].held
        BY <2>1, <4>1 DEF ClientTypeOK, ClientObject
      <4> QED
        BY <1>5, <4>2
    <3> QED
      BY <1>4, <2>1, <3>1, <3>2, <3>3
  <2>2. CASE q \notin 1 .. Len(cObjects)
    <3>1. CASE Len(cObjects') = Len(cObjects)
      BY <1>5, <2>2, <3>1
    <3>2. CASE Len(cObjects') # Len(cObjects)
      <4>1. Asks
        <5>1. ASSUME NEW n, Hears(n)
              PROVE  FALSE
          <6>1. CASE cObjects' = cObjects
            BY <3>2, <6>1
          <6>2. CASE n.seq \in 1 .. Len(cObjects) /\ cObjects' = [cObjects EXCEPT ![n.seq].id = n.id]
            <7>1. n \in ServerMessage /\ n.type = "NEW_OBJECT"
              BY <5>1, ComingIsTyped DEF Hears
            <7>2. n.id \in Nat
              BY <7>1 DEF ServerMessage, Invalid
            <7>3. cObjects[n.seq] \in ClientObject
              BY <6>2, ElementOfSeq DEF ClientTypeOK
            <7>4. [cObjects[n.seq] EXCEPT !.id = n.id] \in ClientObject
              BY <7>2, <7>3, ObjectUpdates
            <7> QED
              BY <3>2, <6>2, <7>4, UpdateType
          <6> QED
            BY <5>1, <6>1, <6>2 DEF Hears
        <5> QED
          BY <3>2, <5>1, ClientMoves DEF Idles, Frees, LetsAllGo
      <4>2. q = Len(cObjects) + 1
        BY <1>5, <2>2, <4>1 DEF Asks
      <4> QED
        BY <4>1, <4>2 DEF Asks
    <3> QED
      BY <3>1, <3>2
  <2> QED
    BY <2>1, <2>2
<1>6. ASSUME NEW q \in 1 .. Len(cObjects), cObjects[q].id = 0
      PROVE  cObjects'[q].id = 0 \/ (Phase = "parse" /\ Phase' = "parse")
  <2>1. CASE \E n : Hears(n)
    <3>1. ClientParses("NEW_OBJECT") /\ SetTop(Consumed)
      BY <2>1 DEF Hears, ClientHandlesNewObject
    <3>2. stack # <<>> /\ Top.phase = "parse" /\ Consumed \in Frame /\ Top \in Frame
      BY <3>1, ReceivedType, TopType DEF ClientParses, InPhase
    <3>3. Consumed.phase = "parse"
      BY <3>2 DEF Consumed, Frame
    <3>4. stack' = <<Consumed>>
      BY <3>1, <3>2, OneFrame
    <3> QED
      BY <3>2, <3>3, <3>4 DEF Phase, Top
  <2>2. CASE Idles \/ (\E i : Frees(i)) \/ Asks \/ LetsAllGo
    BY <1>6, <2>2 DEF Idles, Frees, Asks, LetsAllGo, Keeps
  <2> QED
    BY <2>1, <2>2, ClientMoves
<1>7. cError => cError'
  BY ClientStaysClosed
<1>8. ASSUME NEW k \in 1 .. Len(pendingOutgoing')
      PROVE  /\ cObjects'[pendingOutgoing'[k].dependsOn].listed
             /\ \/ cObjects'[pendingOutgoing'[k].dependsOn].id = 0
                \/ cError'
                \/ Phase' \in {"parse", "call"}
  <2>1. PICK q \in 1 .. Len(cObjects) :
           /\ pendingOutgoing'[k].dependsOn = q
           /\ cObjects[q].listed
           /\ HasTime(q)
    <3>1. CASE \E j \in 1 .. Len(pendingOutgoing) : pendingOutgoing'[k] = pendingOutgoing[j]
      <4>1. PICK j \in 1 .. Len(pendingOutgoing) : pendingOutgoing'[k] = pendingOutgoing[j]
        BY <3>1
      <4>2. PICK q \in 1 .. Len(cObjects) : pendingOutgoing[j].dependsOn = q
        BY DEF ClientInv, DeferredInRange
      <4> QED
        BY <4>1, <4>2 DEF KeptParts, DeferredAreListed
    <3>2. CASE Deferring(pendingOutgoing'[k])
      BY <3>2 DEF Deferring, KeptParts, HeldAreListed, HasTime
    <3> QED
      BY <3>1, <3>2, ClientDefers
  <2>2. ClientFinishesBatch => cObjects[q].id = 0
    <3> SUFFICES ASSUME ClientFinishesBatch PROVE cObjects[q].id = 0
      OBVIOUS
    <3>1. PICK waiting \in InOrder(AwaitingDeferrals) :
             pendingOutgoing' = [j \in DOMAIN waiting |-> pendingOutgoing[waiting[j]]]
      BY Zenon DEF ClientFinishesBatch
    <3>2. Awaiting(pendingOutgoing'[k])
      BY <3>1, WaitingType
    <3> QED
      BY <2>1, <3>2 DEF Awaiting
  <2>3. ~ClientCloses
    <3>1. pendingOutgoing' # <<>>
      BY LenProperties
    <3> QED
      BY <3>1, Zenon DEF ClientCloses
  <2>4. ~Collects(q)
    <3>1. cObjects[q].id = 0 => ~IsOrphan(q)
      BY DEF IsOrphan
    <3>2. ClientBeginsDispatch => cObjects[q].id = 0
      <4>1. ClientBeginsDispatch => Phase = "loop" /\ ~cError
        BY DEF ClientBeginsDispatch, InPhase, Phase
      <4> QED
        BY <2>1, <4>1 DEF HasTime
    <3> QED
      BY <2>2, <3>1, <3>2 DEF Collects
  <2>5. cObjects'[q].listed
    BY <1>4, <2>1, <2>3, <2>4
  <2>6. cObjects'[q].id = 0 \/ cError' \/ Phase' \in {"parse", "call"}
    <3>1. CASE cObjects[q].id = 0
      BY <1>6, <3>1
    <3>2. CASE cError
      BY <1>7, <3>2
    <3>3. CASE cObjects[q].id # 0 /\ Phase \in {"parse", "call"}
      <4>1. ~Finishes
        BY <2>2, <3>3 DEF Finishes
      <4>2. ~Rests
        BY <3>3 DEF Rests
      <4>3. Acts => Phase' = Phase
        BY DEF Acts, Phase, Top
      <4>4. GivesUp => cError'
        BY Zenon DEF GivesUp
      <4>5. Reads \/ Takes \/ Resumes => Phase' \in {"parse", "call"}
        BY DEF Reads, Takes, Resumes
      <4> QED
        BY <1>1, <3>3, <4>1, <4>2, <4>3, <4>4, <4>5, Zenon
    <3> QED
      BY <2>1, <3>1, <3>2, <3>3, Zenon DEF HasTime
  <2> QED
    BY <2>1, <2>5, <2>6, Zenon
<1>9. HeldAreListed'
  BY <1>5 DEF HeldAreListed
<1>10. DeferredAreListed'
  BY <1>8, Zenon DEF DeferredAreListed, HasTime
<1> QED
  BY <1>1, <1>2, <1>9, <1>10 DEF KeptParts

\* No step takes from the list what a call waits for.
LEMMA KeptStep ==
    ASSUME DispatchesDoNotNest, NoEndEvents
    PROVE  KeptInv /\ [Next]_vars => KeptInv'
<1> SUFFICES ASSUME KeptInv, [Next]_vars PROVE KeptInv'
  OBVIOUS
<1> /\ WireTypeOK
    /\ ServerTypeOK
    /\ TypeInv
    /\ KeptParts
  BY DEF KeptInv, Sane, TypeInv
<1>1. Sane'
  BY SaneStep DEF KeptInv
<1>2. CASE ClientSteps
  BY <1>1, <1>2, KeptClientStep DEF KeptInv
<1>3. ASSUME UNCHANGED clientVars,
             \A m \in Coming' : m \in Coming \/ (m.type = "GENERIC" => ~IsDestructor(m.method))
      PROVE  KeptInv'
  <2>1. OneCall' /\ HeldAreListed'
    BY <1>3 DEF clientVars, KeptParts, OneCall, HeldAreListed
  <2>2. ~ServerEnded'
    BY <1>3 DEF clientVars, KeptParts, ServerEnded, CameFor
  <2>3. DeferredAreListed'
    BY <1>3, Zenon DEF clientVars, KeptParts, DeferredAreListed, HasTime, Phase, Top
  <2> QED
    BY <1>1, <2>1, <2>2, <2>3 DEF KeptInv, KeptParts
<1>4. CASE ServerSteps /\ UNCHANGED clientVars
  <2>1. ASSUME NEW m \in Coming', m \notin Coming, m.type = "GENERIC"
        PROVE  ~IsDestructor(m.method)
    <3>1. m \in Range(s2c') /\ m \notin Range(s2c)
      BY <1>4, <2>1, WireUntouched DEF Coming
    <3> QED
      BY <1>4, <2>1, <3>1, ServerEventsAreOwn DEF NoEndEvents
  <2> QED
    BY <1>3, <1>4, <2>1
<1>5. CASE ServerStrays /\ UNCHANGED clientVars
  BY <1>3, <1>5, StraysRange DEF NoEndEvents
<1>6. CASE ClientStrays /\ UNCHANGED serverVars
  BY <1>3, <1>6, StraysRange DEF ClientStrays
<1>7. CASE UNCHANGED vars
  BY <1>3, <1>7, WireUntouched DEF vars, wireVars
<1> QED
  BY <1>2, <1>4, <1>5, <1>6, <1>7, WhoSteps

\* A call deferred until its object has an id is not forgotten, as long as
\* listeners do not dispatch and the server destroys nothing of its own accord
\* (IWireObject::call, m_pendingOutgoing, collectOrphanedObjects).
THEOREM DeferredAlwaysKept ==
    ASSUME DispatchesDoNotNest, NoEndEvents
    PROVE  Spec => []DeferredKept
<1>1. KeptInv => DeferredKept
  BY DEF KeptInv, KeptParts, DeferredAreListed, DeferredKept, Forgotten
<1> QED
  BY <1>1, KeptInit, KeptStep, PTL DEF Spec

-----------------------------------------------------------------------------
(* An event comes after its object                                         *)

\* No peer of another make sends events under this connection's name.
NoForgedEvents == \A m \in StrayToClient : m.type # "GENERIC"

\* A client that gave up reads no more, but it finishes the batch it is in.
Reading == ~cError \/ Phase \in {"parse", "call"}

\* The client knows an object by this id; or it will learn it from m, or from
\* one of the first n messages of a queue.
KnownAs(i)       == \E q \in 1 .. Len(cObjects) : cObjects[q].id = i
Tells(m, i)      == m.type = "NEW_OBJECT" /\ m.id = i /\ m.seq \in 1 .. Len(cObjects)
Reaches(s, n, i) == KnownAs(i) \/ \E j \in 1 .. n : Tells(s[j], i)

PollIsSound    == Phase = "poll" => ~cError
ReadingListed  == Reading => \A q \in 1 .. Len(cObjects) : cObjects[q].id = 0 => cObjects[q].listed
EventsFollow   == Reading => \A k \in 1 .. Len(Stream) :
    Stream[k].type = "GENERIC" => Reaches(Stream, k - 1, Stream[k].object)
GrantedAreTold == clientOpen /\ Reading => \A o \in Granted : Reaches(Stream, Len(Stream), o.id)

FollowParts == /\ OneCall
               /\ PollIsSound
               /\ ReadingListed
               /\ RefusedIsError
               /\ EventsFollow
               /\ GrantedAreTold
FollowInv   == ListedInv /\ FollowParts

\* At the start nothing is known and nothing on its way.
LEMMA FollowInit == Init => FollowInv
<1> SUFFICES ASSUME Init
             PROVE  FollowInv
  OBVIOUS
<1>1. ListedInv
  BY ListedInit
<1>2. stack = <<>> /\ s2c = <<>> /\ cObjects = <<>> /\ sObjects = {}
  BY DEF Init, WireInit, ServerInit, ClientInit
<1>3. OneCall /\ Phase = "app" /\ Stream = <<>> /\ Granted = {}
  BY <1>2 DEF OneCall, Phase, Stream, Batch, Granted
<1> QED
  BY <1>1, <1>2, <1>3 DEF FollowInv, FollowParts, PollIsSound, ReadingListed, RefusedIsError,
     EventsFollow, GrantedAreTold

\* What waits for the client is a sequence of its messages, the first of them
\* the one it handles next.
StreamTyped == /\ Batch \in Seq(ServerMessage)
               /\ s2c \in Seq(ServerMessage)
               /\ Stream \in Seq(ServerMessage)
LEMMA StreamIsTyped == TypeInv => StreamTyped
<1> SUFFICES ASSUME TypeInv
             PROVE  StreamTyped
  OBVIOUS
<1>1. stack # <<>> => Top \in Frame
  BY TopType DEF TypeInv, ClientInv
<1>2. Batch \in Seq(ServerMessage)
  BY <1>1, EmptySeq DEF Batch, Frame
<1> QED
  BY <1>2, ConcatProperties DEF Stream, TypeInv, WireTypeOK, StreamTyped

\* What the client knows of objects, it goes on knowing.
LEMMA KnowledgeStays ==
    ASSUME ListedInv, ClientSteps, UNCHANGED serverVars
    PROVE  /\ \A i : i # 0 /\ KnownAs(i) => KnownAs(i)'
           /\ \A m, i : Tells(m, i) => Tells(m, i)'
<1>1. ObjectsGoOn
  BY ClientKeepsNames DEF ListedInv, AnswerInv, ObjectsInv, Sane, TypeInv
<1>2. Len(cObjects) \in Nat /\ Len(cObjects') \in Nat /\ Len(cObjects) <= Len(cObjects')
  BY <1>1, LenProperties DEF ObjectsGoOn, ListedInv, AnswerInv, ObjectsInv, Sane, TypeInv, ClientInv,
     ClientTypeOK
<1>3. \A m, i : Tells(m, i) => Tells(m, i)'
  BY <1>2 DEF Tells
<1>4. ASSUME NEW i, i # 0, KnownAs(i)
      PROVE  KnownAs(i)'
  <2>1. PICK q \in 1 .. Len(cObjects) : cObjects[q].id = i
    BY <1>4 DEF KnownAs
  <2>2. q \in 1 .. Len(cObjects') /\ cObjects'[q].id = i
    BY <1>4, <2>1, KnownStays DEF ListedInv
  <2> QED
    BY <2>2 DEF KnownAs
<1> QED
  BY <1>3, <1>4

\* What the first message that waits tells, the client knows once it took it.
LEMMA TakenIsKnown ==
    ASSUME FollowInv, ClientSteps, UNCHANGED serverVars, Reading, Takes, NEW i, i # 0,
           Tells(Head(Batch), i)
    PROVE  KnownAs(i)'
<1> /\ WireTypeOK
    /\ ClientTypeOK
    /\ ClientInv
    /\ cObjects \in Seq(ClientObject)
    /\ ObjectsParts
    /\ AnswerParts
  BY DEF FollowInv, ListedInv, AnswerInv, ObjectsInv, Sane, TypeInv, ClientInv, ClientTypeOK
<1> DEFINE q == Received.seq
<1>1. /\ ClientHandlesNewObject
      /\ Received.type = "NEW_OBJECT"
      /\ Received.id = i
      /\ q \in 1 .. Len(cObjects)
  BY DEF Takes, Tells
<1>2. cObjects' = IF q \in 1 .. Len(cObjects) /\ cObjects[q].listed
                    THEN [cObjects EXCEPT ![q].id = Received.id]
                    ELSE cObjects
  BY <1>1 DEF ClientHandlesNewObject
<1>3. CASE cObjects[q].listed
  <2>1. cObjects' = [cObjects EXCEPT ![q].id = Received.id]
    BY <1>1, <1>2, <1>3
  <2>2. cObjects[q] \in ClientObject
    BY <1>1, ElementOfSeq
  <2>3. Len(cObjects') = Len(cObjects) /\ cObjects'[q].id = i
    BY <1>1, <2>1, <2>2 DEF ClientObject
  <2> QED
    BY <1>1, <2>3 DEF KnownAs
<1>4. CASE ~cObjects[q].listed
  <2>1. cObjects' = cObjects
    BY <1>2, <1>4
  <2>2. cObjects[q].id # 0
    BY <1>1, <1>4 DEF FollowInv, FollowParts, ReadingListed
  <2>3. Received \in Coming
    BY <1>1, ParsedIsComing DEF ClientHandlesNewObject
  <2>4. Len(cObjects) \in Nat /\ q \in 1 .. MaxSeq
    BY <1>1, LenProperties, ClientAssumption DEF ObjectsParts, SeqsBounded
  <2>5. Pair(q, i) \in Ties
    BY <1>1, <2>3, <2>4 DEF Ties, Announced
  <2>6. Pair(q, cObjects[q].id) \in Ties
    BY <1>1, <2>2 DEF Ties
  <2>7. cObjects[q].id = i
    BY <2>5, <2>6 DEF Pair, AnswerParts, SeqsTieOnce
  <2> QED
    BY <1>1, <2>1, <2>7 DEF KnownAs
<1> QED
  BY <1>3, <1>4

\* How the stages of a call change what waits for a client that reads.
LEMMA StreamMoves ==
    ASSUME DispatchesDoNotNest, FollowInv, ClientSteps
    PROVE  /\ OneCall' /\ PollIsSound'
           /\ Reading' => Reading
           /\ Stream' = Stream \/ Takes \/ ~Reading'
<1> /\ WireTypeOK
    /\ ClientInv
    /\ BatchesWhenParsing
    /\ OneCall
    /\ PollIsSound
    /\ TypeInv
    /\ s2c \in Seq(ServerMessage)
  BY DEF FollowInv, FollowParts, ListedInv, AnswerInv, ObjectsInv, Sane, TypeInv, WireTypeOK
<1>1. OneCall' /\ (Rests \/ Acts \/ Reads \/ Takes \/ Resumes \/ Finishes \/ GivesUp)
  BY ClientTurns
<1>2. cError => cError'
  BY ClientStaysClosed
<1>3. stack # <<>> /\ Top.phase = "poll" => Top.batch = <<>>
  <2> SUFFICES ASSUME stack # <<>>, Top.phase = "poll"
               PROVE  Top.batch = <<>>
    OBVIOUS
  <2>1. 1 \in 1 .. Len(stack) /\ Top = stack[1]
    BY StackSteps DEF ClientInv
  <2> QED
    BY <2>1 DEF BatchesWhenParsing
<1>4. Phase = "poll" => Batch = <<>>
  BY <1>3 DEF Phase, Batch
<1>5. <<>> \o s2c = s2c
  BY ConcatEmptySeq
<1>6. CASE Rests
  <2>1. Stream' = Stream
    BY <1>6 DEF Rests, Stream
  <2>2. Phase \notin {"parse", "call"} /\ Phase' \notin {"parse", "call"}
    BY <1>6 DEF Rests
  <2>3. PollIsSound'
    BY <1>6 DEF Rests, PollIsSound
  <2> QED
    BY <1>1, <1>2, <2>1, <2>2, <2>3, Zenon DEF Reading
<1>7. CASE Acts
  <2>1. Stream' = Stream /\ Phase' = Phase /\ Phase # "poll"
    BY <1>7 DEF Acts, Stream, Batch, Phase, Top
  <2> QED
    BY <1>1, <1>2, <2>1, Zenon DEF Reading, PollIsSound
<1>8. CASE Reads
  <2>1. Stream' = Stream
    BY <1>4, <1>5, <1>8 DEF Reads, Stream
  <2>2. ~cError /\ Phase' # "poll"
    BY <1>8 DEF Reads, PollIsSound
  <2> QED
    BY <1>1, <2>1, <2>2, Zenon DEF Reading, PollIsSound
<1>9. CASE Takes
  <2>1. Phase = "parse" /\ Phase' # "poll"
    BY <1>9 DEF Takes
  <2>2. Reading
    BY <2>1 DEF Reading
  <2> QED
    BY <1>1, <1>9, <2>1, <2>2, Zenon DEF PollIsSound
<1>10. CASE Resumes
  <2>1. Stream' = Stream
    BY <1>10 DEF Resumes, Stream
  <2>2. Phase = "call" /\ Phase' # "poll"
    BY <1>10 DEF Resumes
  <2>3. Reading
    BY <2>2 DEF Reading
  <2> QED
    BY <1>1, <2>1, <2>2, <2>3, Zenon DEF PollIsSound
<1>11. CASE Finishes
  <2>1. Stream' = Stream
    BY <1>11 DEF Finishes, Stream
  <2>2. Phase = "parse" /\ Phase' # "poll"
    BY <1>11 DEF Finishes
  <2>3. Reading
    BY <2>2 DEF Reading
  <2> QED
    BY <1>1, <2>1, <2>2, <2>3, Zenon DEF PollIsSound
<1>12. CASE GivesUp
  <2>1. cError' /\ Phase' \notin {"parse", "call", "poll"}
    BY <1>12 DEF GivesUp
  <2> QED
    BY <1>1, <2>1, Zenon DEF Reading, PollIsSound
<1> QED
  BY <1>1, <1>6, <1>7, <1>8, <1>9, <1>10, <1>11, <1>12, Zenon

\* With one call at most, what waits for the client is what is on its way.
LEMMA StreamIsComing == TypeInv /\ OneCall => Range(Stream) = Coming
<1> SUFFICES ASSUME TypeInv, OneCall
             PROVE  Range(Stream) = Coming
  OBVIOUS
<1>1. Batch \in Seq(ServerMessage) /\ s2c \in Seq(ServerMessage)
  BY StreamIsTyped DEF StreamTyped
<1>2. Range(Stream) = Range(Batch) \cup Range(s2c)
  BY <1>1, RangeConcatenation DEF Stream
<1>3. Range(Batch) = Batches
  <2>1. stack \in Seq(Frame)
    BY DEF TypeInv, ClientInv, ClientTypeOK
  <2>2. CASE stack = <<>>
    <3>1. Batches = {}
      BY <2>2 DEF Batches
    <3> QED
      BY <2>2, <3>1, RangeOfShort DEF Batch
  <2>3. CASE stack # <<>>
    <3>1. Len(stack) = 1 /\ Top = stack[1]
      <4>1. Len(stack) \in Nat \ {0} /\ Top = stack[1]
        BY <2>1, <2>3, EmptySeq, HeadTailProperties DEF Top
      <4> QED
        BY <4>1 DEF OneCall
    <3>2. Batches = UNION {Range(stack[f].batch) : f \in {1}}
      BY <3>1 DEF Batches
    <3> QED
      BY <2>3, <3>1, <3>2 DEF Batch
  <2> QED
    BY <2>2, <2>3
<1> QED
  BY <1>2, <1>3 DEF Coming

\* The client's part: it takes an announcement only by learning what it tells.
LEMMA FollowClientStep ==
    ASSUME DispatchesDoNotNest, FollowInv, FollowInv => ListedInv', ClientSteps, UNCHANGED serverVars
    PROVE  FollowParts'
<1> /\ ListedInv
    /\ ListedInv'
    /\ TypeInv
    /\ FollowParts
  BY DEF FollowInv, ListedInv, AnswerInv, ObjectsInv, Sane
<1>1. OneCall' /\ PollIsSound' /\ (Reading' => Reading)
  BY StreamMoves
<1>2. ReadingListed'
  <2>1. CASE ClientCloses
    <3>1. stack' = <<>> /\ cError'
      BY <2>1, Zenon DEF ClientCloses
    <3>2. Phase' = "app"
      BY <3>1 DEF Phase
    <3>3. ~Reading'
      BY <3>1, <3>2 DEF Reading
    <3> QED
      BY <3>3, Zenon DEF ReadingListed
  <2>2. CASE ~ClientCloses /\ Reading
    <3>1. \A q \in 1 .. Len(cObjects') : cObjects'[q].id = 0 => cObjects'[q].listed
      BY <2>2, AwaitedStayListed DEF FollowParts, ReadingListed
    <3> QED
      BY <3>1, Zenon DEF ReadingListed
  <2>3. CASE ~Reading
    BY <1>1, <2>3, Zenon DEF ReadingListed
  <2> QED
    BY <2>1, <2>2, <2>3
<1>3. RefusedIsError'
  BY DEF FollowParts, RefusedIsError, Granted, Grants, serverVars, sSessionVars, sObjectVars
<1>4. Granted' = Granted
  BY DEF Granted, Grants, serverVars, sSessionVars, sObjectVars
<1>5. clientOpen' => clientOpen
  BY ClientStaysClosed DEF TypeInv
<1>6. /\ \A i : i # 0 /\ KnownAs(i) => KnownAs(i)'
      /\ \A m, i : Tells(m, i) => Tells(m, i)'
  BY KnowledgeStays
<1>7. /\ Batch \in Seq(ServerMessage)
      /\ s2c \in Seq(ServerMessage)
      /\ Stream \in Seq(ServerMessage)
      /\ Stream' \in Seq(ServerMessage)
  <2>1. StreamTyped
    BY StreamIsTyped
  <2>2. TypeInv'
    BY DEF ListedInv, AnswerInv, ObjectsInv, Sane
  <2>3. StreamTyped'
    BY <2>2, StreamIsTyped, PTL
  <2> QED
    BY <2>1, <2>3 DEF StreamTyped
<1>8. \A o \in Granted : o.id # 0
  <2> SUFFICES ASSUME NEW o \in Granted
               PROVE  o.id # 0
    OBVIOUS
  <2>1. Pair(o.seq, o.id) \in Ties
    BY DEF Granted, Ties
  <2> QED
    BY <2>1 DEF ListedInv, AnswerInv, ObjectsInv, ObjectsParts, IdsSpent, Pair
<1>9. \A k \in 1 .. Len(Stream') : Stream'[k].type = "GENERIC" => Stream'[k].object # 0
  <2> SUFFICES ASSUME NEW k \in 1 .. Len(Stream')
               PROVE  Stream'[k] \in Coming'
    BY DEF ListedInv, ListedParts, EventsHaveObject
  <2>1. Stream'[k] \in Range(Stream')
    BY <1>7, RangeEquality
  <2>2. (TypeInv /\ OneCall)'
    BY <1>1 DEF ListedInv, AnswerInv, ObjectsInv, Sane
  <2>3. (Range(Stream) = Coming)'
    BY <2>2, StreamIsComing, PTL
  <2> QED
    BY <2>1, <2>3
<1> DEFINE Goal == EventsFollow' /\ GrantedAreTold'
<1>10. ~Reading' => Goal
  BY Zenon DEF EventsFollow, GrantedAreTold
<1>11. \A n, i : i # 0 /\ Reaches(Stream, n, i)
                  => \/ \E q \in 1 .. Len(cObjects') : cObjects'[q].id = i
                     \/ \E j \in 1 .. n : /\ Stream[j].type = "NEW_OBJECT"
                                         /\ Stream[j].id = i
                                         /\ Stream[j].seq \in 1 .. Len(cObjects')
  BY <1>6 DEF Reaches, KnownAs, Tells
<1>12. ASSUME Reading', Stream' = Stream
       PROVE  Goal
  <2>1. EventsFollow /\ Reading
    BY <1>1, <1>12, Zenon DEF FollowParts
  <2>2. EventsFollow'
    <3>1. \A k \in 1 .. Len(Stream) : Stream[k].type = "GENERIC" =>
            Reaches(Stream, k - 1, Stream[k].object) /\ Stream[k].object # 0
      BY <1>9, <1>12, <2>1 DEF EventsFollow
    <3>2. \A k \in 1 .. Len(Stream) : Stream[k].type = "GENERIC" =>
            \/ \E q \in 1 .. Len(cObjects') : cObjects'[q].id = Stream[k].object
            \/ \E j \in 1 .. k - 1 : /\ Stream[j].type = "NEW_OBJECT"
                                    /\ Stream[j].id = Stream[k].object
                                    /\ Stream[j].seq \in 1 .. Len(cObjects')
      BY <1>11, <3>1
    <3> QED
      BY <1>12, <3>2 DEF EventsFollow, Reaches, KnownAs, Tells
  <2>3. GrantedAreTold'
    <3>1. clientOpen' => \A o \in Granted : Reaches(Stream, Len(Stream), o.id) /\ o.id # 0
      BY <1>5, <1>8, <2>1, Zenon DEF GrantedAreTold, FollowParts
    <3> QED
      BY <1>4, <1>11, <1>12, <3>1 DEF GrantedAreTold, Reaches, KnownAs, Tells
  <2> QED
    BY <2>2, <2>3
<1>13. ASSUME Reading', Takes
       PROVE  Goal
  <2>1. EventsFollow /\ Reading
    BY <1>1, <1>13, Zenon DEF FollowParts
  <2>2. Stream' = Tail(Stream) /\ Stream # <<>> /\ Head(Stream) = Head(Batch)
    BY <1>7, <1>13, TailOfConcat DEF Takes, Stream
  <2>3. /\ Len(Stream) \in Nat
        /\ Len(Stream') = Len(Stream) - 1
        /\ \A k \in 1 .. Len(Stream') : Stream'[k] = Stream[k + 1]
        /\ Head(Batch) = Stream[1]
    BY <1>7, <2>2, HeadTailProperties, LenProperties
  <2>4. ASSUME NEW i, i # 0, NEW n \in Nat, n <= Len(Stream), Reaches(Stream, n, i)
        PROVE  \/ \E q \in 1 .. Len(cObjects') : cObjects'[q].id = i
               \/ \E j \in 1 .. n - 1 : /\ Stream'[j].type = "NEW_OBJECT"
                                       /\ Stream'[j].id = i
                                       /\ Stream'[j].seq \in 1 .. Len(cObjects')
    <3>1. CASE KnownAs(i)
      BY <1>6, <2>4, <3>1 DEF KnownAs
    <3>2. ASSUME NEW j \in 1 .. n, Tells(Stream[j], i), j # 1
          PROVE  \E h \in 1 .. n - 1 : /\ Stream'[h].type = "NEW_OBJECT"
                                       /\ Stream'[h].id = i
                                       /\ Stream'[h].seq \in 1 .. Len(cObjects')
      <4>1. j - 1 \in 1 .. n - 1 /\ j - 1 \in 1 .. Len(Stream') /\ (j - 1) + 1 = j
        BY <2>3, <2>4, <3>2
      <4>2. Stream'[j - 1] = Stream[j]
        BY <2>3, <4>1
      <4> QED
        BY <1>6, <3>2, <4>1, <4>2 DEF Tells
    <3>3. ASSUME Tells(Stream[1], i)
          PROVE  \E q \in 1 .. Len(cObjects') : cObjects'[q].id = i
      BY <1>13, <2>1, <2>3, <2>4, <3>3, TakenIsKnown DEF KnownAs
    <3> QED
      BY <2>4, <3>1, <3>2, <3>3 DEF Reaches
  <2>5. ASSUME NEW k \in 1 .. Len(Stream'), Stream'[k].type = "GENERIC"
        PROVE  \/ \E q \in 1 .. Len(cObjects') : cObjects'[q].id = Stream'[k].object
               \/ \E j \in 1 .. k - 1 : /\ Stream'[j].type = "NEW_OBJECT"
                                       /\ Stream'[j].id = Stream'[k].object
                                       /\ Stream'[j].seq \in 1 .. Len(cObjects')
    <3>1. k \in Nat /\ k <= Len(Stream) /\ k + 1 \in 1 .. Len(Stream) /\ (k + 1) - 1 = k
      BY <2>3
    <3>2. PICK i : i = Stream'[k].object
      OBVIOUS
    <3>3. Stream[k + 1].type = "GENERIC" /\ Stream[k + 1].object = i /\ i # 0
      BY <1>9, <2>3, <2>5, <3>2
    <3>4. Reaches(Stream, k, i)
      BY <2>1, <3>1, <3>3 DEF EventsFollow
    <3> QED
      BY <2>4, <3>1, <3>2, <3>3, <3>4
  <2>6. EventsFollow'
    BY <2>5 DEF EventsFollow, Reaches, KnownAs, Tells
  <2>7. GrantedAreTold'
    <3>1. clientOpen' => \A o \in Granted : Reaches(Stream, Len(Stream), o.id) /\ o.id # 0
      BY <1>5, <1>8, <2>1, Zenon DEF GrantedAreTold, FollowParts
    <3>2. ASSUME clientOpen', NEW o \in Granted
          PROVE  \/ \E q \in 1 .. Len(cObjects') : cObjects'[q].id = o.id
                 \/ \E j \in 1 .. Len(Stream') : /\ Stream'[j].type = "NEW_OBJECT"
                                               /\ Stream'[j].id = o.id
                                               /\ Stream'[j].seq \in 1 .. Len(cObjects')
      <4>1. Reaches(Stream, Len(Stream), o.id) /\ o.id # 0 /\ Len(Stream) <= Len(Stream)
        BY <2>3, <3>1, <3>2
      <4> QED
        BY <2>3, <2>4, <4>1
    <3> QED
      BY <1>4, <3>2 DEF GrantedAreTold, Reaches, KnownAs, Tells
  <2> QED
    BY <2>6, <2>7
<1>14. Stream' = Stream \/ Takes \/ ~Reading'
  BY StreamMoves
<1> HIDE DEF Goal
<1>15. Goal
  BY <1>10, <1>12, <1>13, <1>14, Zenon
<1> QED
  BY <1>1, <1>2, <1>3, <1>15, Zenon DEF FollowParts, Goal

\* A message that is written comes after those that wait.
LEMMA StreamAppends ==
    ASSUME TypeInv, UNCHANGED clientVars, NEW m \in ServerMessage, ServerSends(<<m>>)
    PROVE  Stream' = IF clientOpen /\ serverOpen THEN Stream \o <<m>> ELSE Stream
<1>1. StreamTyped
  BY StreamIsTyped
<1>2. <<m>> \in Seq(ServerMessage)
  OBVIOUS
<1>3. Batch' = Batch
  BY DEF Batch, Top, clientVars
<1>4. CASE clientOpen /\ serverOpen
  <2>1. Stream' = Batch \o (s2c \o <<m>>)
    BY <1>3, <1>4 DEF Stream, ServerSends
  <2>2. Stream' = Stream \o <<m>>
    BY <1>1, <1>2, <2>1, ConcatAssociative DEF Stream, StreamTyped
  <2> QED
    BY <1>4, <2>2
<1>5. CASE ~(clientOpen /\ serverOpen)
  <2>1. s2c' = s2c
    BY <1>5 DEF ServerSends
  <2> QED
    BY <1>3, <1>5, <2>1 DEF Stream
<1> QED
  BY <1>4, <1>5

\* It is the last of them.
LEMMA StreamGrows ==
    ASSUME TypeInv, UNCHANGED clientVars, NEW m \in ServerMessage, ServerSends(<<m>>)
    PROVE  /\ Len(Stream) \in Nat
           /\ ~(clientOpen /\ serverOpen) => Stream' = Stream
           /\ clientOpen /\ serverOpen =>
                /\ Len(Stream') = Len(Stream) + 1
                /\ \A k \in 1 .. Len(Stream) : Stream'[k] = Stream[k]
                /\ Stream'[Len(Stream) + 1] = m
<1>1. Stream \in Seq(ServerMessage)
  BY StreamIsTyped DEF StreamTyped
<1>2. Stream' = IF clientOpen /\ serverOpen THEN Stream \o <<m>> ELSE Stream
  BY StreamAppends
<1> HIDE DEF Stream
<1>3. /\ Len(Stream) \in Nat
      /\ Len(Stream \o <<m>>) = Len(Stream) + 1
      /\ \A k \in 1 .. Len(Stream) : (Stream \o <<m>>)[k] = Stream[k]
      /\ (Stream \o <<m>>)[Len(Stream) + 1] = m
  BY <1>1
<1> QED
  BY <1>2, <1>3

\* The server's part, and a stray's: what is written is no event, or one of an
\* object that was told of.
LEMMA FollowSent ==
    ASSUME FollowInv, UNCHANGED clientVars, NEW m \in ServerMessage, ServerSends(<<m>>),
           m.type = "GENERIC" => \E o \in Granted : o.id = m.object
    PROVE  /\ EventsFollow'
           /\ clientOpen /\ Reading =>
                \A o \in Granted :
                   \/ \E q \in 1 .. Len(cObjects') : cObjects'[q].id = o.id
                   \/ \E j \in 1 .. Len(Stream') : /\ Stream'[j].type = "NEW_OBJECT"
                                                   /\ Stream'[j].id = o.id
                                                   /\ Stream'[j].seq \in 1 .. Len(cObjects')
<1> /\ TypeInv
    /\ FollowParts
  BY DEF FollowInv, ListedInv, AnswerInv, ObjectsInv, Sane
<1>1. cObjects' = cObjects /\ Reading' = Reading
  BY DEF clientVars, Reading, Phase, Top
<1>2. Stream' = Stream \/ /\ clientOpen
                          /\ Len(Stream') = Len(Stream) + 1
                          /\ \A k \in 1 .. Len(Stream) : Stream'[k] = Stream[k]
                          /\ Stream'[Len(Stream) + 1] = m
  BY StreamGrows
<1>3. Len(Stream) \in Nat
  BY StreamGrows
<1>4. CASE Stream' = Stream
  BY <1>1, <1>4 DEF FollowParts, EventsFollow, GrantedAreTold, Reaches, KnownAs, Tells
<1>5. CASE Stream' # Stream
  <2>1. /\ clientOpen
        /\ Len(Stream') = Len(Stream) + 1
        /\ \A k \in 1 .. Len(Stream) : Stream'[k] = Stream[k]
        /\ Stream'[Len(Stream) + 1] = m
    BY <1>2, <1>5
  <2>2. ASSUME NEW n \in Nat, NEW i, n <= Len(Stream), Reaches(Stream, n, i)
        PROVE  \/ \E q \in 1 .. Len(cObjects') : cObjects'[q].id = i
               \/ \E j \in 1 .. n : /\ Stream'[j].type = "NEW_OBJECT"
                                    /\ Stream'[j].id = i
                                    /\ Stream'[j].seq \in 1 .. Len(cObjects')
    BY <1>1, <1>3, <2>1, <2>2 DEF Reaches, KnownAs, Tells
  <2>3. Reading => \A o \in Granted : Reaches(Stream, Len(Stream), o.id)
    BY <2>1 DEF FollowParts, GrantedAreTold
  <2>4. ASSUME Reading, NEW o \in Granted
        PROVE  \/ \E q \in 1 .. Len(cObjects') : cObjects'[q].id = o.id
               \/ \E j \in 1 .. Len(Stream) : /\ Stream'[j].type = "NEW_OBJECT"
                                              /\ Stream'[j].id = o.id
                                              /\ Stream'[j].seq \in 1 .. Len(cObjects')
    <3>1. Len(Stream) <= Len(Stream) /\ Reaches(Stream, Len(Stream), o.id)
      BY <1>3, <2>3, <2>4
    <3> QED
      BY <1>3, <2>2, <3>1
  <2>5. ASSUME Reading, NEW k \in 1 .. Len(Stream'), Stream'[k].type = "GENERIC"
        PROVE  \/ \E q \in 1 .. Len(cObjects') : cObjects'[q].id = Stream'[k].object
               \/ \E j \in 1 .. k - 1 : /\ Stream'[j].type = "NEW_OBJECT"
                                        /\ Stream'[j].id = Stream'[k].object
                                        /\ Stream'[j].seq \in 1 .. Len(cObjects')
    <3>1. CASE k = Len(Stream) + 1
      <4>1. PICK o \in Granted : o.id = Stream'[k].object
        BY <2>1, <2>5, <3>1
      <4>2. k - 1 = Len(Stream)
        BY <1>3, <3>1
      <4> QED
        BY <2>4, <2>5, <4>1, <4>2
    <3>2. CASE k # Len(Stream) + 1
      <4>1. k \in 1 .. Len(Stream) /\ k - 1 \in Nat /\ k - 1 <= Len(Stream)
        BY <1>3, <2>1, <3>2
      <4>2. Stream'[k] = Stream[k]
        BY <2>1, <4>1
      <4>3. Reaches(Stream, k - 1, Stream[k].object)
        BY <2>5, <4>1, <4>2 DEF FollowParts, EventsFollow
      <4> QED
        BY <2>2, <4>1, <4>2, <4>3
    <3> QED
      BY <3>1, <3>2
  <2>6. EventsFollow'
    BY <1>1, <2>5 DEF EventsFollow, Reaches, KnownAs, Tells
  <2>7. ASSUME clientOpen, Reading, NEW o \in Granted
        PROVE  \/ \E q \in 1 .. Len(cObjects') : cObjects'[q].id = o.id
               \/ \E j \in 1 .. Len(Stream') : /\ Stream'[j].type = "NEW_OBJECT"
                                               /\ Stream'[j].id = o.id
                                               /\ Stream'[j].seq \in 1 .. Len(cObjects')
    <3>1. \A j \in 1 .. Len(Stream) : j \in 1 .. Len(Stream')
      BY <1>3, <2>1
    <3> QED
      BY <2>4, <2>7, <3>1
  <2> QED
    BY <2>6, <2>7
<1> QED
  BY <1>4, <1>5

\* The server tells of an object when it makes it, and sends events only of
\* what it granted.
LEMMA FollowServerStep ==
    ASSUME FollowInv, FollowInv => ListedInv', ServerSteps, UNCHANGED clientVars
    PROVE  FollowParts'
<1> /\ ListedInv'
    /\ TypeInv
    /\ WireTypeOK
    /\ ServerTypeOK
    /\ FollowParts
    /\ FilterFirst
  BY DEF FollowInv, ListedInv, AnswerInv, ObjectsInv, ObjectsParts, Sane, TypeInv
<1>1. OneCall' /\ PollIsSound' /\ ReadingListed'
  BY DEF FollowParts, OneCall, PollIsSound, ReadingListed, Reading, Phase, Top, clientVars
<1>2. /\ RefusedIsError'
      /\ \A o \in Granted' : \/ \E u \in Granted : u.id = o.id
                             \/ ServerSends(<<NewObject(o.seq, o.id)>>)
  BY ServerGrants DEF FollowParts
<1>3. cObjects' = cObjects /\ Reading' = Reading /\ clientOpen' = clientOpen /\ serverOpen
  BY ServerTells, ServerServes DEF clientVars, Reading, Phase, Top
<1>4. /\ EventsFollow'
      /\ clientOpen /\ Reading =>
           \A o \in Granted :
              \/ \E q \in 1 .. Len(cObjects') : cObjects'[q].id = o.id
              \/ \E j \in 1 .. Len(Stream') : /\ Stream'[j].type = "NEW_OBJECT"
                                              /\ Stream'[j].id = o.id
                                              /\ Stream'[j].seq \in 1 .. Len(cObjects')
  <2>1. CASE s2c' = s2c
    <3>1. Stream' = Stream
      BY <2>1 DEF Stream, Batch, Top, clientVars
    <3> QED
      BY <1>3, <3>1 DEF FollowParts, EventsFollow, GrantedAreTold, Reaches, KnownAs, Tells
  <2>2. ASSUME NEW m \in ServerMessage, ServerSends(<<m>>), SaysWhatIs(m)
        PROVE  m.type = "GENERIC" => \E o \in Granted : o.id = m.object
    BY <2>2 DEF SaysWhatIs
  <2> QED
    BY <2>1, <2>2, FollowSent, ServerSpeaks
<1>5. ASSUME NEW o \in Granted', ServerSends(<<NewObject(o.seq, o.id)>>), clientOpen
      PROVE  \E j \in 1 .. Len(Stream') : /\ Stream'[j].type = "NEW_OBJECT"
                                          /\ Stream'[j].id = o.id
                                          /\ Stream'[j].seq \in 1 .. Len(cObjects')
  <2>1. o \in sObjects'
    BY DEF Granted
  <2>2. o.seq \in 1 .. Len(cObjects')
    BY <2>1 DEF ListedInv, AnswerInv, ObjectsInv, ObjectsParts, ServedFit, Fits
  <2>3. NewObject(o.seq, o.id) \in ServerMessage
    BY <2>1, ServerMessages DEF ListedInv, AnswerInv, ObjectsInv, Sane, TypeInv, ServerTypeOK, ServerObject
  <2>4. /\ Len(Stream) \in Nat
        /\ Len(Stream') = Len(Stream) + 1
        /\ Stream'[Len(Stream) + 1] = NewObject(o.seq, o.id)
    BY <1>3, <1>5, <2>3, StreamGrows
  <2>5. Len(Stream) + 1 \in 1 .. Len(Stream')
    BY <2>4
  <2> QED
    BY <2>2, <2>4, <2>5 DEF NewObject
<1>6. ASSUME clientOpen', Reading', NEW o \in Granted'
      PROVE  \/ \E q \in 1 .. Len(cObjects') : cObjects'[q].id = o.id
             \/ \E j \in 1 .. Len(Stream') : /\ Stream'[j].type = "NEW_OBJECT"
                                             /\ Stream'[j].id = o.id
                                             /\ Stream'[j].seq \in 1 .. Len(cObjects')
  <2>1. clientOpen /\ Reading
    BY <1>3, <1>6, Zenon
  <2>2. CASE ServerSends(<<NewObject(o.seq, o.id)>>)
    BY <1>5, <2>1, <2>2, Zenon
  <2>3. CASE \E u \in Granted : u.id = o.id
    <3>1. PICK u \in Granted : u.id = o.id
      BY <2>3
    <3> QED
      BY <1>4, <2>1, <3>1
  <2> QED
    BY <1>2, <1>6, <2>2, <2>3, Zenon
<1>7. GrantedAreTold'
  BY <1>6 DEF GrantedAreTold, Reaches, KnownAs, Tells
<1> QED
  BY <1>1, <1>2, <1>4, <1>7, Zenon DEF FollowParts

\* No step puts an event before its object, unless a stray forges one.
LEMMA FollowStep ==
    ASSUME DispatchesDoNotNest, NoForgedObjects, NoForgedEvents
    PROVE  FollowInv /\ [Next]_vars => FollowInv'
<1> SUFFICES ASSUME FollowInv, [Next]_vars
             PROVE  FollowInv'
  OBVIOUS
<1> USE DEF vars, wireVars, serverVars
<1>1. EventsAreNamed
  BY DEF NoForgedEvents, EventsAreNamed
<1>2. ListedInv'
  BY <1>1, ListedStep DEF FollowInv
<1>3. TypeInv /\ FollowParts
  BY DEF FollowInv, ListedInv, AnswerInv, ObjectsInv, Sane
<1> SUFFICES FollowParts'
  BY <1>2, Zenon DEF FollowInv
<1>4. CASE ClientSteps /\ UNCHANGED serverVars
  BY <1>2, <1>4, FollowClientStep
<1>5. CASE ServerSteps /\ UNCHANGED clientVars
  BY <1>2, <1>5, FollowServerStep
<1>6. ASSUME UNCHANGED <<s2c, clientOpen, sError, sObjects, exposed>>, UNCHANGED clientVars
      PROVE  FollowParts'
  BY <1>3, <1>6 DEF FollowParts, OneCall, PollIsSound, ReadingListed, RefusedIsError, EventsFollow,
     GrantedAreTold, Reaches, KnownAs, Tells, Reading, Phase, Stream, Batch, Top, Granted, Grants, clientVars
<1>7. CASE ClientStrays /\ UNCHANGED serverVars
  BY <1>6, <1>7 DEF ClientStrays, sSessionVars, sObjectVars
<1>8. CASE ServerStrays /\ UNCHANGED clientVars
  <2>1. PICK m \in StrayToClient : ServerSends(<<m>>)
    BY <1>8 DEF ServerStrays
  <2>2. m \in ServerMessage /\ m.type # "GENERIC"
    BY ConnectionAssumption DEF NoForgedEvents
  <2>3. UNCHANGED <<clientOpen, sError, sObjects, exposed>>
    BY <1>8 DEF ServerStrays, sSessionVars, sObjectVars
  <2>4. cObjects' = cObjects /\ Reading' = Reading /\ Granted' = Granted
    BY <1>8, <2>3 DEF clientVars, Reading, Phase, Top, Granted, Grants
  <2>5. /\ EventsFollow'
        /\ clientOpen /\ Reading =>
             \A o \in Granted :
                \/ \E q \in 1 .. Len(cObjects') : cObjects'[q].id = o.id
                \/ \E j \in 1 .. Len(Stream') : /\ Stream'[j].type = "NEW_OBJECT"
                                                /\ Stream'[j].id = o.id
                                                /\ Stream'[j].seq \in 1 .. Len(cObjects')
    BY <1>8, <2>1, <2>2, FollowSent
  <2>6. GrantedAreTold'
    BY <2>3, <2>4, <2>5 DEF GrantedAreTold, Reaches, KnownAs, Tells
  <2>7. OneCall' /\ PollIsSound' /\ ReadingListed' /\ RefusedIsError'
    BY <1>3, <1>8, <2>3, <2>4 DEF FollowParts, OneCall, PollIsSound, ReadingListed, RefusedIsError,
       Reading, Phase, Top, clientVars
  <2> QED
    BY <2>5, <2>6, <2>7, Zenon DEF FollowParts
<1>9. CASE UNCHANGED vars
  BY <1>6, <1>9 DEF sSessionVars, sObjectVars
<1> QED
  BY <1>4, <1>5, <1>7, <1>8, <1>9, WhoSteps

\* The next event the client hands to onGeneric is for an object it was told of
\* before, as long as its listeners do not dispatch: the server announces an
\* object before it gives it to its application (createObject, onSeq,
\* onGeneric).
THEOREM EventsAlwaysFollow ==
    ASSUME DispatchesDoNotNest, NoForgedObjects, NoForgedEvents
    PROVE  Spec => []EventsFollowNewObject
<1>1. FollowInv => EventsFollowNewObject
  <2> SUFFICES ASSUME FollowInv, InPhase("parse"), Top.batch # <<>>, Received.type = "GENERIC"
               PROVE  \E q \in 1 .. Len(cObjects) : cObjects[q].id = Received.object
    BY DEF EventsFollowNewObject
  <2>1. TypeInv /\ EventsFollow
    BY DEF FollowInv, FollowParts, ListedInv, AnswerInv, ObjectsInv, Sane
  <2>2. Phase = "parse" /\ Batch = Top.batch
    BY DEF InPhase, Phase, Batch
  <2>3. StreamTyped
    BY <2>1, StreamIsTyped
  <2>4. Stream # <<>> /\ Head(Stream) = Received /\ Stream \in Seq(ServerMessage)
    BY <2>2, <2>3, TailOfConcat DEF StreamTyped, Stream, Received
  <2>5. 1 \in 1 .. Len(Stream) /\ Stream[1] = Received
    BY <2>4, HeadTailProperties, EmptySeq
  <2>6. Reaches(Stream, 1 - 1, Received.object)
    BY <2>1, <2>2, <2>5 DEF EventsFollow, Reading
  <2> QED
    BY <2>6 DEF Reaches, KnownAs
<1> QED
  BY <1>1, FollowInit, FollowStep, PTL DEF Spec

-----------------------------------------------------------------------------
(* A destructor the application called is not lost                           *)

\* While nothing failed, what ends an object the client destroyed is deferred
\* with it, or on its way, or being handled.
NotFailed      == ~cError /\ ~sError /\ clientOpen /\ serverOpen
WaitsToEnd(q)  == \E k \in 1 .. Len(pendingOutgoing) :
    pendingOutgoing[k].dependsOn = q /\ IsDestructor(pendingOutgoing[k].method)
EndComes(i)    == \/ \E m \in Going : Ends(m) /\ m.object = i
                  \/ IsDestructor(sCall.method) /\ sCall.id = i
AwaitedEndWaits ==
    ~cError => \A q \in 1 .. Len(cObjects) :
                 cObjects[q].destroyed /\ cObjects[q].id = 0 => WaitsToEnd(q)
KnownEndComes  ==
    NotFailed => \A q \in 1 .. Len(cObjects), o \in sObjects :
                   cObjects[q].destroyed /\ cObjects[q].id = o.id => WaitsToEnd(q) \/ EndComes(o.id)

ArriveParts == IdleIsEmpty /\ AwaitedEndWaits /\ KnownEndComes
ArriveInv   == KeptInv /\ AnswerInv /\ ArriveParts

\* At the start nothing is destroyed.
LEMMA ArriveInit == Init => ArriveInv
<1> SUFFICES ASSUME Init PROVE ArriveInv
  OBVIOUS
<1>1. Len(cObjects) = 0 /\ sBatch = <<>>
  BY DEF Init, ClientInit, ServerInit
<1>2. IdleIsEmpty /\ AwaitedEndWaits /\ KnownEndComes
  BY <1>1 DEF IdleIsEmpty, AwaitedEndWaits, KnownEndComes
<1> QED
  BY <1>2, KeptInit, AnswerInit DEF ArriveInv, ArriveParts

\* A call that ends an object still waits, or is on its way once the object
\* has its id.
LEMMA WaitingEndGoes ==
    ASSUME KeptInv, ClientSteps, NEW q \in 1 .. Len(cObjects), WaitsToEnd(q), ~cError'
    PROVE  \/ WaitsToEnd(q)'
           \/ /\ cObjects[q].id # 0
              /\ clientOpen /\ serverOpen => \E m \in Range(c2s') : Ends(m) /\ m.object = cObjects[q].id
<1> /\ WireTypeOK
    /\ ClientInv
    /\ KeptParts
  BY DEF KeptInv, Sane, TypeInv
<1>1. PICK k \in 1 .. Len(pendingOutgoing) :
         pendingOutgoing[k].dependsOn = q /\ IsDestructor(pendingOutgoing[k].method)
  BY DEF WaitsToEnd
<1>2. CASE \E j \in 1 .. Len(pendingOutgoing') : pendingOutgoing'[j] = pendingOutgoing[k]
  BY <1>1, <1>2 DEF WaitsToEnd
<1>3. CASE /\ Resolvable(pendingOutgoing[k])
           /\ clientOpen /\ serverOpen => Resolved(pendingOutgoing[k]) \in Range(c2s')
  <2>1. cObjects[q].id # 0
    BY <1>1, <1>3 DEF Resolvable
  <2>2. Ends(Resolved(pendingOutgoing[k])) /\ Resolved(pendingOutgoing[k]).object = cObjects[q].id
    BY <1>1 DEF Resolved, Ends, Generic
  <2> QED
    BY <1>3, <2>1, <2>2, Zenon
<1>4. ~Forgotten(pendingOutgoing[k])
  BY <1>1 DEF KeptParts, DeferredAreListed, Forgotten
<1>5. ~ClientCloses
  BY Zenon DEF ClientCloses
<1> QED
  BY <1>2, <1>3, <1>4, <1>5, ClientKeepsDeferred, Zenon

\* The client's part: it defers or sends what it calls, and loses neither.
LEMMA ArriveClientStep ==
    ASSUME ArriveInv, ClientSteps, UNCHANGED serverVars
    PROVE  ArriveParts'
<1> /\ KeptInv
    /\ KeptParts
    /\ AnswerInv
    /\ WireTypeOK
    /\ ClientInv
    /\ BatchesWhenParsing
    /\ ArriveParts
  BY DEF ArriveInv, KeptInv, Sane, TypeInv
<1>1. /\ ~cError' => ~cError
      /\ clientOpen' => clientOpen
      /\ serverOpen' = serverOpen
      /\ UNCHANGED <<sError, sObjects, sBatch, sCall, sPhase>>
  BY ClientStaysClosed, ServerEndUntouched, Zenon DEF serverVars, sObjectVars, sReadVars
<1>2. Going \subseteq Going'
  BY <1>1, ClientKeepsWord DEF Going
<1>3. ASSUME NEW i, EndComes(i)
      PROVE  EndComes(i)'
  BY <1>1, <1>2, <1>3 DEF EndComes
<1>4. ASSUME NEW q \in 1 .. Len(cObjects'), cObjects'[q].destroyed, ~cError'
      PROVE  /\ q \in 1 .. Len(cObjects)
             /\ cObjects[q].destroyed \/ Destructs(q)
  <2>1. q \in 1 .. Len(cObjects)
    <3>1. ASSUME q \notin 1 .. Len(cObjects)
          PROVE  FALSE
      <4>1. Asks /\ q = Len(cObjects) + 1
        BY <3>1, NewcomersAreAsked
      <4> QED
        BY <1>4, <4>1, Zenon DEF Asks
    <3> QED
      BY <3>1
  <2>2. ~ClientCloses
    BY <1>4, Zenon DEF ClientCloses
  <2> QED
    BY <1>4, <2>1, <2>2, ClientSpares, Zenon DEF Spares, Collects, KeptParts
<1>5. ASSUME NEW q \in 1 .. Len(cObjects'), cObjects'[q].destroyed, ~cError',
             cObjects'[q].id # 0 => NotFailed' /\ \E o \in sObjects : cObjects'[q].id = o.id
      PROVE  WaitsToEnd(q)' \/ (cObjects'[q].id # 0 /\ EndComes(cObjects[q].id)')
  <2> DEFINE Sent_ == /\ cObjects[q].id # 0
                      /\ clientOpen /\ serverOpen =>
                           \E m \in Range(c2s') : Ends(m) /\ m.object = cObjects[q].id
             Goal == WaitsToEnd(q)' \/ (cObjects'[q].id # 0 /\ EndComes(cObjects[q].id)')
  <2> SUFFICES Goal
    OBVIOUS
  <2>1. q \in 1 .. Len(cObjects) /\ (cObjects[q].destroyed \/ Destructs(q))
    BY <1>4, <1>5
  <2>2. cObjects[q].id # 0 => cObjects'[q].id = cObjects[q].id
    BY <1>1, <2>1, KnownStays
  <2>3. cObjects'[q].id # 0 => clientOpen /\ serverOpen /\ NotFailed
    BY <1>1, <1>5, Zenon DEF NotFailed
  <2>4. ASSUME Sent_
        PROVE  Goal
    <3>1. PICK m \in Range(c2s') : Ends(m) /\ m.object = cObjects[q].id
      BY <2>2, <2>3, <2>4
    <3> QED
      BY <2>2, <2>4, <3>1 DEF EndComes, Going
  <2>5. CASE WaitsToEnd(q)
    BY <1>5, <2>1, <2>4, <2>5, WaitingEndGoes
  <2>6. CASE Destructs(q)
    BY <2>1, <2>4, <2>6, DestructorGoes DEF WaitsToEnd
  <2>7. CASE cObjects[q].destroyed /\ ~WaitsToEnd(q)
    <3>1. cObjects[q].id # 0
      BY <1>1, <1>5, <2>1, <2>7 DEF ArriveParts, AwaitedEndWaits
    <3>2. PICK o \in sObjects : cObjects[q].id = o.id
      BY <1>5, <2>2, <3>1
    <3>3. EndComes(o.id)
      BY <2>1, <2>2, <2>3, <2>7, <3>1, <3>2 DEF ArriveParts, KnownEndComes
    <3>4. PICK i : i = cObjects[q].id
      OBVIOUS
    <3>5. EndComes(i)'
      BY <1>3, <3>2, <3>3, <3>4
    <3> QED
      BY <2>2, <3>1, <3>4, <3>5
  <2> QED
    BY <2>1, <2>5, <2>6, <2>7
<1>6. AwaitedEndWaits'
  BY <1>5 DEF AwaitedEndWaits
<1>7. KnownEndComes'
  <2> SUFFICES ASSUME NotFailed', NEW q \in 1 .. Len(cObjects'), NEW o \in sObjects',
                      cObjects'[q].destroyed, cObjects'[q].id = o.id
               PROVE  WaitsToEnd(q)' \/ EndComes(o.id)'
    BY DEF KnownEndComes
  <2>1. ~cError' /\ o \in sObjects
    BY <1>1 DEF NotFailed
  <2>2. WaitsToEnd(q)' \/ EndComes(cObjects[q].id)'
    BY <1>5, <2>1
  <2> QED
    BY <2>2 DEF EndComes
<1>8. IdleIsEmpty'
  BY <1>1 DEF ArriveParts, IdleIsEmpty
<1> QED
  BY <1>6, <1>7, <1>8 DEF ArriveParts

\* The server's part: it keeps what came until the object is destroyed.
LEMMA ArriveServerStep ==
    ASSUME ArriveInv, ServerSteps, UNCHANGED clientVars
    PROVE  ArriveParts'
<1> /\ WireTypeOK
    /\ ServerTypeOK
    /\ AnswerInv
    /\ ObjectsInv
    /\ ArriveParts
    /\ IdleIsEmpty
  BY DEF ArriveInv, ArriveParts, AnswerInv, ObjectsInv, Sane, TypeInv
<1>1. UNCHANGED <<cError, cObjects, pendingOutgoing>>
  BY DEF clientVars
<1>2. NotFailed' => NotFailed
  <2>1. clientOpen' = clientOpen
    BY ServerTells DEF AnswerInv, ObjectsInv, Sane, TypeInv
  <2>2. serverOpen /\ (sError => sError')
    BY ServerServes, ServerErrorStays
  <2> QED
    BY <1>1, <2>1, <2>2, Zenon DEF NotFailed
<1>3. IdleIsEmpty'
  BY BatchEnds
<1>4. ASSUME NEW i, EndComes(i), ~DoneWith(i)
      PROVE  EndComes(i)'
  <2>1. CASE IsDestructor(sCall.method) /\ sCall.id = i
    BY <1>4, <2>1, EndsAreDone DEF EndComes
  <2>2. ASSUME NEW m \in Going, Ends(m), m.object = i
        PROVE  EndComes(i)'
    BY <1>4, <2>2, EndsComeThrough DEF EndComes
  <2> QED
    BY <1>4, <2>1, <2>2 DEF EndComes
<1>5. ASSUME NEW q \in 1 .. Len(cObjects), NEW o \in sObjects', cObjects[q].id = o.id
      PROVE  \E u \in sObjects : u.id = o.id
  <2>1. CASE KeepsObjects
    BY <2>1, KeptKeepTheirNames
  <2>2. ASSUME NEW r \in Asked, MakesFor(r), o \notin sObjects
        PROVE  FALSE
    <3>1. o.id = maxId
      BY <2>2 DEF MakesFor, Made
    <3>2. maxId # 0
      BY DEF ServerTypeOK
    <3>3. Pair(q, maxId) \in Ties
      BY <1>5, <3>1, <3>2 DEF Ties
    <3> QED
      BY <3>3 DEF ObjectsInv, ObjectsParts, IdsSpent, Pair, ServerTypeOK
  <2> QED
    BY <2>1, <2>2, ServerMakes
<1>6. KnownEndComes'
  <2> SUFFICES ASSUME NotFailed', NEW q \in 1 .. Len(cObjects'), NEW o \in sObjects',
                      cObjects'[q].destroyed, cObjects'[q].id = o.id
               PROVE  WaitsToEnd(q)' \/ EndComes(o.id)'
    BY DEF KnownEndComes
  <2>1. PICK u \in sObjects : u.id = o.id
    BY <1>1, <1>5
  <2>2. WaitsToEnd(q) \/ EndComes(u.id)
    BY <1>1, <1>2, <2>1 DEF ArriveParts, KnownEndComes
  <2>3. CASE WaitsToEnd(q)
    BY <1>1, <2>3 DEF WaitsToEnd
  <2>4. CASE EndComes(u.id)
    <3>1. ~DoneWith(u.id)
      BY <2>1 DEF DoneWith, NotFailed
    <3>2. PICK i : i = u.id
      OBVIOUS
    <3>3. EndComes(i)'
      BY <1>4, <2>4, <3>1, <3>2
    <3> QED
      BY <2>1, <3>2, <3>3 DEF EndComes
  <2> QED
    BY <2>2, <2>3, <2>4
<1>7. AwaitedEndWaits'
  BY <1>1 DEF ArriveParts, AwaitedEndWaits, WaitsToEnd
<1> QED
  BY <1>3, <1>6, <1>7 DEF ArriveParts

\* No step loses a destructor.
LEMMA ArriveStep ==
    ASSUME DispatchesDoNotNest, NoEndEvents, NoForgedObjects
    PROVE  ArriveInv /\ [Next]_vars => ArriveInv'
<1> SUFFICES ASSUME ArriveInv, [Next]_vars PROVE ArriveInv'
  OBVIOUS
<1> TypeInv /\ ArriveParts
  BY DEF ArriveInv, KeptInv, Sane
<1>1. KeptInv' /\ AnswerInv'
  BY KeptStep, AnswerStep DEF ArriveInv
<1>2. ASSUME UNCHANGED <<cError, sError, clientOpen, serverOpen, cObjects, sObjects, pendingOutgoing,
                         sCall, sPhase, sBatch>>,
             Going \subseteq Going'
      PROVE  ArriveParts'
  <2>1. \A i : EndComes(i) => EndComes(i)'
    BY <1>2 DEF EndComes
  <2>2. KnownEndComes'
    BY <1>2, <2>1 DEF ArriveParts, KnownEndComes, NotFailed, WaitsToEnd
  <2>3. AwaitedEndWaits' /\ IdleIsEmpty'
    BY <1>2 DEF ArriveParts, AwaitedEndWaits, WaitsToEnd, IdleIsEmpty
  <2> QED
    BY <2>2, <2>3 DEF ArriveParts
<1>3. CASE ClientSteps /\ UNCHANGED serverVars
  BY <1>1, <1>3, ArriveClientStep DEF ArriveInv
<1>4. CASE ServerSteps /\ UNCHANGED clientVars
  BY <1>1, <1>4, ArriveServerStep DEF ArriveInv
<1> USE DEF serverVars, sObjectVars, sReadVars, clientVars, wireVars
<1>5. CASE ClientStrays /\ UNCHANGED serverVars
  BY <1>1, <1>2, <1>5, StraysRange DEF ArriveInv, ClientStrays
<1>6. CASE ServerStrays /\ UNCHANGED clientVars
  BY <1>1, <1>2, <1>6, StraysRange DEF ArriveInv, ServerStrays
<1>7. CASE UNCHANGED vars
  BY <1>1, <1>2, <1>7, WireUntouched DEF ArriveInv, vars
<1> QED
  BY <1>3, <1>4, <1>5, <1>6, <1>7, WhoSteps

\* An object of the client's that is known to the server by its seq is so by
\* its id, so that what ends it finds it.
LEMMA EndsArrive == ArriveInv => DestructorsArrive
<1> SUFFICES ASSUME ArriveInv, NotFailed, NEW q \in 1 .. Len(cObjects), NEW o \in sObjects,
                    cObjects[q].destroyed, o.seq = q
             PROVE  Ending(q)
  BY Zenon DEF DestructorsArrive, NotFailed
<1> /\ WireTypeOK
    /\ ServerTypeOK
    /\ ArriveParts
    /\ AnswerParts
  BY DEF ArriveInv, AnswerInv, ObjectsInv, Sane, TypeInv
<1>1. CASE cObjects[q].id = 0
  <2>1. WaitsToEnd(q)
    BY <1>1 DEF ArriveParts, AwaitedEndWaits, NotFailed
  <2> QED
    BY <2>1 DEF WaitsToEnd, Ending
<1>2. CASE cObjects[q].id # 0
  <2>1. Pair(q, cObjects[q].id) \in Ties /\ Pair(q, o.id) \in Ties
    BY <1>2 DEF Ties
  <2>2. cObjects[q].id = o.id
    BY <2>1 DEF AnswerParts, SeqsTieOnce, Pair
  <2>3. WaitsToEnd(q) \/ EndComes(o.id)
    BY <2>2 DEF ArriveParts, KnownEndComes
  <2>4. ASSUME NEW m \in Going, Ends(m), m.object = o.id
        PROVE  Ending(q)
    <3>1. /\ Range(c2s) = {c2s[k] : k \in 1 .. Len(c2s)}
          /\ Range(sBatch) = {sBatch[k] : k \in 1 .. Len(sBatch)}
      BY RangeEquality DEF WireTypeOK, ServerTypeOK
    <3>2. \/ \E k \in 1 .. Len(c2s) : m = c2s[k]
          \/ \E k \in 1 .. Len(sBatch) : m = sBatch[k]
      BY <3>1 DEF Going
    <3>3. EndsObject(m, cObjects[q].id)
      BY <2>2, <2>4 DEF EndsObject, Ends
    <3> QED
      BY <3>2, <3>3 DEF Ending
  <2> QED
    BY <2>2, <2>3, <2>4 DEF EndComes, WaitsToEnd, Ending
<1> QED
  BY <1>1, <1>2

\* A destructor the application called is not lost while nothing failed, as
\* long as listeners do not dispatch, the server destroys nothing of its own
\* accord and no stray asks for objects (IWireObject::call, m_pendingOutgoing,
\* onGeneric).
THEOREM DestructorsAlwaysArrive ==
    ASSUME DispatchesDoNotNest, NoEndEvents, NoForgedObjects
    PROVE  Spec => []DestructorsArrive
BY ArriveInit, ArriveStep, EndsArrive, PTL DEF Spec

-----------------------------------------------------------------------------
(* A roundtrip covers what was sent before it                                *)

\* No peer of another make begins or acknowledges roundtrips under this
\* connection's name.
NoForgedRounds ==
    /\ \A m \in StrayToServer : m.type # "ROUNDTRIP_REQUEST"
    /\ \A m \in StrayToClient : m.type # "ROUNDTRIP_DONE"

\* The server's application listens to the requests that create objects.
ListensToMake == "make" \in Listened

\* Before roundtrip n or a later one is acknowledged, the client is told of
\* object q or of an error: that is ahead of it in the queue, or the server will
\* write it first, or one end is closed.
DonesFrom(n)  == {m \in ServerMessage : m.type = "ROUNDTRIP_DONE" /\ m.seq >= n}
Covered(q, n) ==
    /\ lastAckd < n
    /\ \/ Before(Stream, Answering(q), DonesFrom(n))
       \/ /\ Avoids(Stream, DonesFrom(n))
          /\ ~clientOpen \/ ~serverOpen \/ AnswersFor(q, n)

\* The numbers of roundtrips are those the client used; an awaited object whose
\* request was sent is covered by the next roundtrip, and what a roundtrip in
\* progress found on the wire, by that one.
RoundsKnown ==
    /\ lastAckd <= lastSent
    /\ scheduledRoundtrip <= lastSent
    /\ \A m \in Coming : m.type = "ROUNDTRIP_DONE" => m.seq <= lastSent
    /\ \A m \in Going : m.type = "ROUNDTRIP_REQUEST" => m.seq <= lastSent
AwaitedAreCovered ==
    ~cError => \A q \in 1 .. Len(cObjects) : cObjects[q].id = 0 =>
                 q \in SeqsDeferred(pendingOutgoing) \/ Covered(q, lastSent + 1)
SentAreCovered ==
    ~cError => \A f \in 1 .. Len(stack) : stack[f].wait = "roundtrip" =>
                 \A q \in stack[f].sent :
                   q \in 1 .. Len(cObjects) /\ (cObjects[q].id = 0 => Covered(q, stack[f].arg))

CoverParts == /\ IdleIsEmpty
              /\ TodoIsInListener
              /\ AwaitedAreListed
              /\ RoundsKnown
              /\ AwaitedAreCovered
              /\ SentAreCovered
CoverInv   == ToldInv /\ KeptInv /\ AnswerInv /\ CoverParts

\* At the start there is neither an object nor a roundtrip.
LEMMA CoverInit == Init => CoverInv
<1> SUFFICES ASSUME Init PROVE CoverInv
  OBVIOUS
<1>1. /\ Len(cObjects) = 0
      /\ Len(stack) = 0
      /\ sBatch = <<>>
      /\ todo = {}
      /\ lastSent = 0
      /\ lastAckd = 0
      /\ scheduledRoundtrip = 0
  BY DEF Init, ClientInit, ServerInit
<1>2. Coming = {} /\ Going = {Hello}
  BY RangeOfShort DEF Init, WireInit, ClientInit, ServerInit, Coming, Batches, Going
<1>3. RoundsKnown
  BY <1>1, <1>2 DEF RoundsKnown, Hello
<1>4. /\ IdleIsEmpty
      /\ TodoIsInListener
      /\ AwaitedAreListed
      /\ AwaitedAreCovered
      /\ SentAreCovered
  BY <1>1 DEF IdleIsEmpty, TodoIsInListener, AwaitedAreListed, AwaitedAreCovered, SentAreCovered
<1> QED
  BY <1>3, <1>4, ToldInit, KeptInit, AnswerInit DEF CoverInv, CoverParts

\* What one roundtrip covers, the later ones do.
LaterCover == \A q : \A n, k \in Nat : n <= k /\ Covered(q, n) => Covered(q, k)

\* The later a roundtrip, the fewer acknowledgements count.
LEMMA CoveredLater == TypeInv => LaterCover
<1> SUFFICES ASSUME TypeInv, NEW q, NEW n \in Nat, NEW k \in Nat, n <= k, Covered(q, n)
             PROVE  Covered(q, k)
  BY DEF LaterCover
<1>1. /\ DonesFrom(k) \subseteq DonesFrom(n)
      /\ RoundsFrom(k) \subseteq RoundsFrom(n)
  <2>1. \A m \in ServerMessage : m.type = "ROUNDTRIP_DONE" => m.seq \in Nat
    BY DEF ServerMessage, Invalid
  <2>2. \A m \in ClientMessage : m.type = "ROUNDTRIP_REQUEST" => m.seq \in Nat
    BY DEF ClientMessage, Hello, Invalid
  <2> QED
    BY <2>1, <2>2 DEF DonesFrom, RoundsFrom
<1>2. lastAckd \in Nat /\ scheduledRoundtrip \in Nat
  BY DEF TypeInv, ClientInv, ClientTypeOK, ServerTypeOK
<1>3. AnswersFor(q, n) => AnswersFor(q, k)
  BY <1>1, <1>2, BeforeFewer DEF AnswersFor
<1>4. /\ Before(Stream, Answering(q), DonesFrom(n)) => Before(Stream, Answering(q), DonesFrom(k))
      /\ Avoids(Stream, DonesFrom(n)) => Avoids(Stream, DonesFrom(k))
  BY <1>1, BeforeFewer
<1>5. lastAckd < k
  BY <1>2 DEF Covered
<1> QED
  BY <1>3, <1>4, <1>5 DEF Covered

\* What waits for a client that goes on stays, or its first message is taken.
LEMMA StreamStays ==
    ASSUME DispatchesDoNotNest, TypeInv, BatchesWhenParsing, OneCall, ClientSteps, ~cError'
    PROVE  \/ Stream' = Stream /\ UNCHANGED lastAckd
           \/ /\ Takes
              /\ Stream # <<>>
              /\ Received = Head(Stream)
              /\ Stream' = Tail(Stream)
              /\ UNCHANGED lastAckd \/ (Received.type = "ROUNDTRIP_DONE" /\ lastAckd' = Received.seq)
<1> /\ WireTypeOK
    /\ ClientInv
    /\ Batch \in Seq(ServerMessage)
    /\ s2c \in Seq(ServerMessage)
  BY StreamIsTyped DEF TypeInv, StreamTyped
<1>1. Rests \/ Acts \/ Reads \/ Takes \/ Resumes \/ Finishes \/ GivesUp
  BY ClientTurns
<1>2. UNCHANGED lastAckd \/ (ClientHandlesDone /\ lastAckd' = Received.seq)
  BY ClientRounds
<1>3. ClientHandlesDone => Received.type = "ROUNDTRIP_DONE" /\ Phase = "parse" /\ Batch # <<>>
  BY DEF ClientHandlesDone, ClientParses, InPhase, Phase, Batch
<1>4. CASE Takes
  <2>1. /\ Stream # <<>>
        /\ Head(Stream) = Head(Batch)
        /\ Tail(Stream) = Tail(Batch) \o s2c
    BY <1>4, TailOfConcat DEF Takes, Stream
  <2>2. Received = Head(Stream) /\ Stream' = Tail(Stream)
    BY <1>4, <2>1 DEF Takes, Stream
  <2> QED
    BY <1>2, <1>3, <1>4, <2>1, <2>2
<1>5. CASE Rests \/ Acts \/ Resumes
  <2>1. Stream' = Stream
    BY <1>5 DEF Rests, Acts, Resumes, Stream, Batch, Top
  <2>2. ~ClientHandlesDone
    BY <1>3, <1>5 DEF Rests, Acts, Resumes
  <2> QED
    BY <1>2, <2>1, <2>2
<1>6. CASE Reads
  <2>1. Batch = <<>>
    <3>1. stack # <<>> /\ Top.phase = "poll"
      BY <1>6 DEF Reads, Phase
    <3>2. 1 \in 1 .. Len(stack) /\ Top = stack[1]
      BY <3>1, StackSteps DEF ClientInv
    <3> QED
      BY <3>1, <3>2 DEF BatchesWhenParsing, Batch
  <2>2. Stream' = Stream
    BY <1>6, <2>1, ConcatEmptySeq DEF Reads, Stream
  <2>3. ~ClientHandlesDone
    BY <1>3, <2>1
  <2> QED
    BY <1>2, <2>2, <2>3
<1>7. CASE Finishes
  <2>1. Stream' = Stream /\ Batch = <<>>
    BY <1>7 DEF Finishes, Stream
  <2> QED
    BY <1>2, <1>3, <2>1
<1>8. ~GivesUp
  BY Zenon DEF GivesUp
<1> QED
  BY <1>1, <1>4, <1>5, <1>6, <1>7, <1>8

\* The client's steps keep an object covered until it has its id.
LEMMA CoveredStays ==
    ASSUME DispatchesDoNotNest, CoverInv, ClientSteps, UNCHANGED serverVars, ~cError',
           NEW q \in 1 .. Len(cObjects), cObjects'[q].id = 0, NEW n \in Nat, Covered(q, n)
    PROVE  Covered(q, n)'
<1> /\ TypeInv
    /\ WireTypeOK
    /\ ServerTypeOK
    /\ ClientInv
    /\ ClientTypeOK
    /\ BatchesWhenParsing
    /\ OneCall
    /\ AnswerInv
    /\ ObjectsParts
    /\ Stream \in Seq(ServerMessage)
    /\ Inbox \in Seq(ClientMessage)
  BY StreamIsTyped, InboxType
     DEF CoverInv, KeptInv, KeptParts, AnswerInv, ObjectsInv, Sane, TypeInv, StreamTyped, ClientInv
<1>1. /\ clientOpen' => clientOpen
      /\ serverOpen' = serverOpen
      /\ ~cError
  BY ClientStaysClosed, ServerEndUntouched, Zenon
<1>2. cObjects[q].id = 0
  BY KnownStays
<1>3. cObjects[q].listed
  BY <1>1, <1>2 DEF CoverInv, CoverParts, AwaitedAreListed
<1>4. AnswersFor(q, n) => AnswersFor(q, n)'
  <2>1. UNCHANGED <<scheduledRoundtrip, todo, sBatch>>
    BY DEF serverVars, sReadVars
  <2>2. PICK s \in Seq(ClientMessage) : c2s' = c2s \o s
    BY ClientAppends
  <2>3. Inbox' = Inbox \o s
    BY <2>1, <2>2, InboxAppends
  <2>4. Before(Inbox, AskingFor(q), RoundsFrom(n)) => Before(Inbox', AskingFor(q), RoundsFrom(n))
    BY <2>3, BeforeGrows
  <2> QED
    BY <2>1, <2>4 DEF AnswersFor, InListener, AskingFor, RoundsFrom
<1>5. CASE Stream' = Stream /\ UNCHANGED lastAckd
  BY <1>1, <1>4, <1>5 DEF Covered, Answering, DonesFrom
<1>6. ASSUME Takes,
             Stream # <<>>,
             Received = Head(Stream),
             Stream' = Tail(Stream),
             UNCHANGED lastAckd \/ (Received.type = "ROUNDTRIP_DONE" /\ lastAckd' = Received.seq)
      PROVE  Covered(q, n)'
  <2>1. Received \in ServerMessage
    BY <1>6, HeadTailProperties
  <2>2. Received \notin Answering(q)
    <3> SUFFICES ASSUME Received \in Answering(q) PROVE FALSE
      OBVIOUS
    <3>1. Received.type # "FATAL"
      BY <1>6, Zenon DEF Takes
    <3>2. ClientHandlesNewObject /\ Received.type = "NEW_OBJECT" /\ Received.seq = q
      BY <1>6, <3>1 DEF Takes, Answering
    <3>3. cObjects' = [cObjects EXCEPT ![q].id = Received.id]
      BY <1>3, <3>2 DEF ClientHandlesNewObject
    <3>4. Received \in Announced
      <4>1. Received \in Coming
        BY <3>2, ParsedIsComing DEF ClientHandlesNewObject
      <4>2. q \in 1 .. MaxSeq
        BY ClientAssumption, LenProperties DEF ObjectsParts, SeqsBounded, ClientTypeOK
      <4> QED
        BY <3>2, <4>1, <4>2 DEF Announced
    <3>5. Received.id # 0
      <4>1. Pair(Received.seq, Received.id) \in Ties
        BY <3>4 DEF Ties
      <4>2. 0 < Pair(Received.seq, Received.id).id
        BY <4>1 DEF ObjectsParts, IdsSpent
      <4> QED
        BY <4>2 DEF Pair
    <3>6. cObjects[q] \in ClientObject
      BY ElementOfSeq DEF ClientTypeOK
    <3> QED
      BY <3>3, <3>5, <3>6 DEF ClientTypeOK, ClientObject
  <2>3. /\ Before(Stream, Answering(q), DonesFrom(n)) =>
             Head(Stream) \notin DonesFrom(n) /\ Before(Tail(Stream), Answering(q), DonesFrom(n))
        /\ Avoids(Stream, DonesFrom(n)) =>
             Head(Stream) \notin DonesFrom(n) /\ Avoids(Tail(Stream), DonesFrom(n))
    BY <1>6, <2>2, FirstIsTaken
  <2>4. lastAckd' < n
    <3>1. Received \notin DonesFrom(n)
      BY <1>6, <2>3 DEF Covered
    <3>2. Received.type = "ROUNDTRIP_DONE" => Received.seq \in Nat /\ Received.seq < n
      BY <2>1, <3>1 DEF DonesFrom, ServerMessage, Invalid
    <3> QED
      BY <1>6, <3>2 DEF Covered
  <2> QED
    BY <1>1, <1>4, <1>6, <2>3, <2>4 DEF Covered, Answering, DonesFrom
<1> QED
  BY <1>5, <1>6, StreamStays

\* What waits for the client at the next state is what is coming then.
LEMMA StreamNext ==
    ASSUME TypeInv', OneCall'
    PROVE  Stream' \in Seq(ServerMessage) /\ Range(Stream') = Coming'
<1>1. (TypeInv /\ OneCall)'
  OBVIOUS
<1>2. (TypeInv => StreamTyped)' /\ (TypeInv /\ OneCall => Range(Stream) = Coming)'
  BY StreamIsTyped, StreamIsComing, PTL
<1> QED
  BY <1>1, <1>2 DEF StreamTyped

\* An answer that is there, with no acknowledgement at all, is before those.
LEMMA PresentCovers ==
    ASSUME Stream' \in Seq(ServerMessage), NEW q, NEW n,
           lastAckd' < n, Avoids(Stream', DonesFrom(n)),
           NEW m \in Range(Stream'), m.type = "FATAL" \/ (m.type = "NEW_OBJECT" /\ m.seq = q)
    PROVE  Covered(q, n)'
<1>1. m \in ServerMessage
  BY RangeEquality, ElementOfSeq
<1>2. Before(Stream', Answering(q), DonesFrom(n))
  BY <1>1, PresentIsBefore DEF Answering
<1> QED
  BY <1>2 DEF Covered, Answering, DonesFrom

\* The server's steps keep an object covered.
LEMMA CoveredServed ==
    ASSUME ListensToMake, CoverInv, ServerSteps, UNCHANGED clientVars,
           ToldInv', OneCall', ~cError,
           NEW q \in 1 .. Len(cObjects), NEW n \in Nat, Covered(q, n)
    PROVE  Covered(q, n)'
<1> /\ TypeInv
    /\ TypeInv'
    /\ WireTypeOK
    /\ ServerTypeOK
    /\ IdleIsEmpty
    /\ TodoIsInListener
    /\ Stream \in Seq(ServerMessage)
    /\ q \in Nat
  BY StreamIsTyped, LenProperties
     DEF CoverInv, CoverParts, KeptInv, Sane, ToldInv, TypeInv, StreamTyped, ClientInv, ClientTypeOK
<1>1. /\ lastAckd' = lastAckd
      /\ lastAckd < n
      /\ clientOpen' = clientOpen
      /\ serverOpen
      /\ UNCHANGED <<stack, cError>>
  BY ServerTells, ServerServes, Zenon DEF clientVars, Covered
<1>2. \/ Stream' = Stream
      \/ /\ clientOpen
         /\ \E m \in ServerMessage : SaysWhatIs(m) /\ Stream' = Stream \o <<m>>
  <2>1. CASE s2c' = s2c
    BY <1>1, <2>1 DEF Stream, Batch, Top
  <2>2. ASSUME NEW m \in ServerMessage, ServerSends(<<m>>), SaysWhatIs(m)
        PROVE  \/ Stream' = Stream
               \/ clientOpen /\ SaysWhatIs(m) /\ Stream' = Stream \o <<m>>
    BY <2>2, StreamAppends
  <2> QED
    BY <2>1, <2>2, ServerSpeaks
<1>3. ASSUME Before(Stream', Answering(q), DonesFrom(n))
      PROVE  Covered(q, n)'
  BY <1>1, <1>3 DEF Covered, Answering, DonesFrom
<1>4. CASE Before(Stream, Answering(q), DonesFrom(n))
  <2>1. Before(Stream', Answering(q), DonesFrom(n))
    <3>1. CASE Stream' = Stream
      BY <1>4, <3>1
    <3>2. ASSUME NEW m \in ServerMessage, Stream' = Stream \o <<m>>
          PROVE  Before(Stream', Answering(q), DonesFrom(n))
      <4>1. <<m>> \in Seq(ServerMessage)
        OBVIOUS
      <4> QED
        BY <1>4, <3>2, <4>1, BeforeGrows
    <3> QED
      BY <1>2, <3>1, <3>2
  <2> QED
    BY <1>3, <2>1
<1>5. CASE Avoids(Stream, DonesFrom(n)) /\ ~clientOpen
  BY <1>1, <1>2, <1>5 DEF Covered, Answering, DonesFrom
<1>6. CASE Avoids(Stream, DonesFrom(n)) /\ clientOpen /\ AnswersFor(q, n)
  <2>1. Avoids(Stream', DonesFrom(n))
    <3>1. ASSUME NEW m \in ServerMessage, SaysWhatIs(m), Stream' = Stream \o <<m>>
          PROVE  Avoids(Stream', DonesFrom(n))
      <4>1. m \notin DonesFrom(n)
        BY <1>6, <3>1 DEF SaysWhatIs, DonesFrom, AnswersFor, ServerTypeOK
      <4>2. <<m>> \in Seq(ServerMessage) /\ Avoids(<<m>>, DonesFrom(n))
        BY <4>1 DEF Avoids
      <4> QED
        BY <1>6, <3>1, <4>2, BeforeGrows
    <3> QED
      BY <1>2, <1>6, <3>1
  <2>2. CASE AnswersFor(q, n)' \/ ~serverOpen'
    BY <1>1, <2>1, <2>2 DEF Covered, DonesFrom
  <2>3. CASE sError
    <3>1. sError'
      BY <2>3, ServerErrorStays
    <3>2. CASE ~cError
      <4>1. PICK m \in Coming' : m.type = "FATAL"
        BY <1>1, <1>6, <3>1, <3>2 DEF ToldInv, ErrorKnown
      <4>2. Stream' \in Seq(ServerMessage) /\ m \in Range(Stream')
        BY <4>1, StreamNext
      <4> QED
        BY <1>1, <2>1, <4>1, <4>2, PresentCovers
    <3> QED
      BY <3>2
  <2>4. ASSUME NEW m \in Answering(q), ServerSends(<<m>>)
        PROVE  Covered(q, n)'
    <3>1. m \in ServerMessage /\ <<m>> \in Seq(ServerMessage)
      BY DEF Answering
    <3>2. Stream' = Stream \o <<m>>
      BY <1>1, <1>6, <2>4, <3>1, StreamAppends
    <3>3. Before(<<m>>, Answering(q), DonesFrom(n))
      BY DEF Before
    <3>4. Before(Stream', Answering(q), DonesFrom(n))
      BY <1>6, <3>1, <3>2, <3>3, BeforeGrows
    <3> QED
      BY <1>3, <3>4
  <2> QED
    BY <1>6, <2>2, <2>3, <2>4, ServerAnswersInTurn DEF ListensToMake, AnswersNow
<1> QED
  BY <1>1, <1>4, <1>5, <1>6 DEF Covered

\* Strays that are no acknowledgement keep an object covered, and so does a step
\* of neither end.
LEMMA CoveredAstray ==
    ASSUME NoForgedRounds, TypeInv, NEW q, NEW n, Covered(q, n),
           \/ ClientStrays /\ UNCHANGED serverVars
           \/ ServerStrays /\ UNCHANGED clientVars
           \/ UNCHANGED vars
    PROVE  Covered(q, n)'
<1> /\ WireTypeOK
    /\ ServerTypeOK
    /\ Stream \in Seq(ServerMessage)
    /\ Inbox \in Seq(ClientMessage)
  BY StreamIsTyped, InboxType DEF TypeInv, StreamTyped
<1>1. /\ UNCHANGED <<clientVars, serverVars, clientOpen, serverOpen>>
      /\ UNCHANGED <<lastAckd, stack, scheduledRoundtrip, todo, sBatch>>
  BY DEF ClientStrays, ServerStrays, vars, wireVars, clientVars, serverVars, sReadVars
<1>2. Stream' = Stream \/ \E m \in StrayToClient : clientOpen /\ serverOpen /\ Stream' = Stream \o <<m>>
  <2>1. CASE s2c' = s2c
    BY <1>1, <2>1 DEF Stream, Batch, Top
  <2>2. ASSUME NEW m \in StrayToClient, ServerSends(<<m>>)
        PROVE  Stream' = Stream \/ (clientOpen /\ serverOpen /\ Stream' = Stream \o <<m>>)
    BY <1>1, <2>2, StreamAppends, ConnectionAssumption
  <2> QED
    BY <2>1, <2>2 DEF ClientStrays, ServerStrays, vars, wireVars
<1>3. Inbox' = Inbox \/ \E m \in StrayToServer : Inbox' = Inbox \o <<m>>
  <2>1. CASE c2s' = c2s
    BY <1>1, <2>1 DEF Inbox
  <2>2. ASSUME NEW m \in StrayToServer, ClientSends(<<m>>)
        PROVE  c2s' = c2s \/ Inbox' = Inbox \o <<m>>
    <3>1. <<m>> \in Seq(ClientMessage)
      BY ConnectionAssumption
    <3> QED
      BY <1>1, <2>2, <3>1, InboxAppends DEF ClientSends
  <2> QED
    BY <2>1, <2>2 DEF ClientStrays, ServerStrays, vars, wireVars
<1>4. AnswersFor(q, n) => AnswersFor(q, n)'
  <2>1. Before(Inbox, AskingFor(q), RoundsFrom(n)) => Before(Inbox', AskingFor(q), RoundsFrom(n))
    <3>1. ASSUME NEW m \in StrayToServer, Inbox' = Inbox \o <<m>>
          PROVE  Before(Inbox, AskingFor(q), RoundsFrom(n)) => Before(Inbox', AskingFor(q), RoundsFrom(n))
      <4>1. <<m>> \in Seq(ClientMessage)
        BY ConnectionAssumption
      <4> QED
        BY <3>1, <4>1, BeforeGrows
    <3> QED
      BY <1>3, <3>1
  <2> QED
    BY <1>1, <2>1 DEF AnswersFor, InListener, AskingFor, RoundsFrom
<1>5. /\ Before(Stream, Answering(q), DonesFrom(n)) => Before(Stream', Answering(q), DonesFrom(n))
      /\ Avoids(Stream, DonesFrom(n)) => Avoids(Stream', DonesFrom(n))
  <2>1. ASSUME NEW m \in StrayToClient, Stream' = Stream \o <<m>>
        PROVE  /\ Before(Stream, Answering(q), DonesFrom(n)) => Before(Stream', Answering(q), DonesFrom(n))
               /\ Avoids(Stream, DonesFrom(n)) => Avoids(Stream', DonesFrom(n))
    <3>1. <<m>> \in Seq(ServerMessage)
      BY ConnectionAssumption
    <3>2. Avoids(<<m>>, DonesFrom(n))
      BY DEF NoForgedRounds, DonesFrom, Avoids
    <3> QED
      BY <2>1, <3>1, <3>2, BeforeGrows
  <2> QED
    BY <1>2, <2>1
<1> QED
  BY <1>1, <1>4, <1>5 DEF Covered, Answering, DonesFrom

\* Numbers come from the client.
LEMMA RoundsKnownStay ==
    ASSUME NoForgedRounds, Sane, RoundsKnown, [Next]_vars
    PROVE  RoundsKnown'
<1> /\ WireTypeOK
    /\ ServerTypeOK
    /\ ClientInv
    /\ ClientTypeOK
    /\ TypeInv
    /\ BatchesWhenParsing
  BY DEF Sane, TypeInv, ClientInv
<1> USE DEF RoundsKnown
<1>1. lastSent \in Nat /\ scheduledRoundtrip \in Nat
  BY DEF ClientTypeOK, ServerTypeOK
<1>2. CASE ClientSteps /\ UNCHANGED serverVars
  <2>1. lastSent' = lastSent \/ lastSent' = lastSent + 1
    BY <1>2, ClientRounds
  <2>2. Coming' \subseteq Coming
    BY <1>2, ClientTakes
  <2>3. lastAckd' <= lastSent
    <3>1. CASE ClientHandlesDone /\ lastAckd' = Received.seq
      <4>1. Received \in Coming /\ Received.type = "ROUNDTRIP_DONE"
        BY <3>1, ParsedIsComing DEF ClientHandlesDone, ClientParses
      <4> QED
        BY <3>1, <4>1
    <3> QED
      BY <1>2, <3>1, ClientRounds
  <2>4. \A m \in Going' : m.type = "ROUNDTRIP_REQUEST" => m \in Going \/ m.seq = lastSent'
    <3> SUFFICES ASSUME NEW m \in Going', m.type = "ROUNDTRIP_REQUEST", m \notin Going
                 PROVE  m.seq = lastSent'
      OBVIOUS
    <3>1. m \in Range(c2s') /\ m \notin Range(c2s)
      BY <1>2 DEF Going, serverVars, sReadVars
    <3>2. ~Acking(m) /\ ~Binding(m) /\ ~Calling(m) /\ ~Flushing(m) /\ ~Departing(m)
      BY DEF Acking, Binding, Calling, Flushing, Departing, HandshakeAck, BindProtocol, Generic, FarewellTo
    <3>3. m = RoundtripRequest(lastSent')
      BY <1>2, <3>1, <3>2, ClientWrites, Zenon
    <3> QED
      BY <3>3 DEF RoundtripRequest
  <2>5. scheduledRoundtrip' = scheduledRoundtrip
    BY <1>2 DEF serverVars, sReadVars
  <2>6. /\ \A m \in Coming : m.type = "ROUNDTRIP_DONE" => m.seq \in Nat
        /\ \A m \in Going : m.type = "ROUNDTRIP_REQUEST" => m.seq \in Nat
        /\ lastAckd' \in Nat
    <3>1. lastAckd' \in Nat
      BY <1>2, TypeStep DEF TypeInv, ClientInv, ClientTypeOK
    <3> QED
      BY <3>1, ComingIsTyped, GoingIsTyped DEF ServerMessage, ClientMessage, Invalid, Hello
  <2> QED
    BY <1>1, <2>1, <2>2, <2>3, <2>4, <2>5, <2>6
<1>3. CASE ServerSteps /\ UNCHANGED clientVars
  <2>1. lastSent' = lastSent /\ lastAckd' = lastAckd
    BY <1>3 DEF clientVars
  <2>2. Going' \subseteq Going
    BY <1>3, ServerTakes
  <2>3. scheduledRoundtrip' <= lastSent
    <3>1. CASE ServerHandlesRoundtrip /\ scheduledRoundtrip' = Message.seq
      <4>1. Message \in Going /\ Message.type = "ROUNDTRIP_REQUEST"
        BY <3>1, MessageIsGoing DEF ServerHandlesRoundtrip
      <4> QED
        BY <3>1, <4>1
    <3> QED
      BY <1>1, <1>3, <3>1, ServerSchedules
  <2>4. \A m \in Coming' : m.type = "ROUNDTRIP_DONE" => m \in Coming \/ m.seq = scheduledRoundtrip
    <3>1. CASE s2c' = s2c
      BY <1>3, <3>1 DEF Coming, Batches, clientVars
    <3>2. ASSUME NEW m \in ServerMessage, ServerSends(<<m>>), SaysWhatIs(m)
          PROVE  \A k \in Coming' : k \in Coming \/ k = m
      <4>1. Range(s2c') \subseteq Range(s2c) \cup {m}
        <5>1. <<m>> \in Seq(ServerMessage)
          OBVIOUS
        <5> QED
          BY <3>2, <5>1, ServerSendsRange, RangeOfShort
      <4> QED
        BY <1>3, <4>1 DEF Coming, Batches, clientVars
    <3> QED
      BY <1>3, <3>1, <3>2, ServerSpeaks DEF SaysWhatIs
  <2> QED
    BY <2>1, <2>2, <2>3, <2>4
<1>4. CASE ClientStrays /\ UNCHANGED serverVars
  <2>1. UNCHANGED <<lastSent, lastAckd, scheduledRoundtrip>>
    BY <1>4 DEF ClientStrays, clientVars, serverVars, sReadVars
  <2> QED
    BY <1>4, <2>1, StraysRange DEF NoForgedRounds
<1>5. CASE ServerStrays /\ UNCHANGED clientVars
  <2>1. UNCHANGED <<lastSent, lastAckd, scheduledRoundtrip>>
    BY <1>5 DEF ServerStrays, clientVars, serverVars, sReadVars
  <2> QED
    BY <1>5, <2>1, StraysRange DEF NoForgedRounds
<1>6. CASE UNCHANGED vars
  BY <1>6 DEF vars, wireVars, clientVars, serverVars, sReadVars, Coming, Batches, Going
<1> QED
  BY <1>2, <1>3, <1>4, <1>5, <1>6, WhoSteps

\* What is awaited stays listed.
LEMMA AwaitedKeepPlace ==
    ASSUME KeptInv, AnswerInv, AwaitedAreListed, ClientSteps, UNCHANGED serverVars
    PROVE  AwaitedAreListed'
<1> SUFFICES ASSUME ~cError', NEW q \in 1 .. Len(cObjects'), cObjects'[q].id = 0
             PROVE  cObjects'[q].listed
  BY Zenon DEF AwaitedAreListed
<1> /\ WireTypeOK
    /\ ClientInv
    /\ BatchesWhenParsing
  BY DEF KeptInv, Sane, TypeInv
<1>1. ~cError /\ ~ClientCloses
  BY ClientStaysClosed, Zenon DEF ClientCloses
<1>2. CASE q \notin 1 .. Len(cObjects)
  BY <1>2, NewcomersAreAsked, Zenon DEF Asks
<1>3. CASE q \in 1 .. Len(cObjects)
  <2>1. cObjects[q].id = 0 /\ cObjects[q].listed
    BY <1>1, <1>3, KnownStays DEF AwaitedAreListed
  <2>2. Spares(q) \/ Collects(q) \/ Destructs(q)
    BY <1>1, <1>3, ClientSpares DEF KeptInv, KeptParts
  <2>3. ~Collects(q)
    BY <2>1 DEF Collects, IsOrphan
  <2> QED
    BY <2>1, <2>2, <2>3, Zenon DEF Spares, Destructs
<1> QED
  BY <1>2, <1>3

\* An object whose request waits for the server is covered by the roundtrip
\* that begins next.
AskedFor(q) == \/ ~clientOpen
               \/ ~serverOpen
               \/ \E m \in Range(c2s) : AsksFor(m) /\ m.seq = q

NextCoversAsked == \A q : AskedFor(q) => Covered(q, lastSent + 1)

\* So it is, as the numbers are known.
LEMMA AskedAreCovered == TypeInv /\ OneCall /\ RoundsKnown => NextCoversAsked
<1> SUFFICES ASSUME TypeInv, OneCall, RoundsKnown, NEW q, AskedFor(q)
             PROVE  Covered(q, lastSent + 1)
  BY DEF NextCoversAsked
<1> /\ WireTypeOK
    /\ ServerTypeOK
    /\ Stream \in Seq(ServerMessage)
    /\ Inbox \in Seq(ClientMessage)
    /\ lastSent \in Nat
    /\ lastAckd \in Nat
    /\ scheduledRoundtrip \in Nat
  BY StreamIsTyped, InboxType DEF TypeInv, StreamTyped, ClientInv, ClientTypeOK, ServerTypeOK
<1>1. lastAckd < lastSent + 1 /\ scheduledRoundtrip < lastSent + 1
  BY DEF RoundsKnown
<1>2. Avoids(Stream, DonesFrom(lastSent + 1))
  <2>1. \A m \in Coming : m \notin DonesFrom(lastSent + 1)
    BY ComingIsTyped DEF RoundsKnown, DonesFrom, ServerMessage, Invalid
  <2>2. \A k \in 1 .. Len(Stream) : Stream[k] \in Coming
    BY StreamIsComing, RangeEquality
  <2> QED
    BY <2>1, <2>2 DEF Avoids
<1>3. ASSUME NEW m \in Range(c2s), AsksFor(m), m.seq = q
      PROVE  AnswersFor(q, lastSent + 1)
  <2>1. Avoids(Inbox, RoundsFrom(lastSent + 1))
    <3>1. \A x \in Going : x \notin RoundsFrom(lastSent + 1)
      BY GoingIsTyped DEF RoundsKnown, RoundsFrom, ClientMessage, Invalid, Hello
    <3>2. \A k \in 1 .. Len(Inbox) : Inbox[k] \in Going
      BY InboxType, RangeEquality
    <3> QED
      BY <3>1, <3>2 DEF Avoids
  <2>2. m \in Range(Inbox) /\ m \in AskingFor(q)
    BY <1>3, GoingIsTyped, InboxType DEF Going, AskingFor
  <2>3. Before(Inbox, AskingFor(q), RoundsFrom(lastSent + 1))
    BY <2>1, <2>2, PresentIsBefore
  <2> QED
    BY <1>1, <2>3 DEF AnswersFor
<1> QED
  BY <1>1, <1>2, <1>3 DEF Covered, AskedFor

\* The client's steps keep what is awaited or deferred covered.
LEMMA AwaitedStayCovered ==
    ASSUME DispatchesDoNotNest, CoverInv, ClientSteps, UNCHANGED serverVars,
           Sane', OneCall', RoundsKnown'
    PROVE  AwaitedAreCovered'
<1> SUFFICES ASSUME ~cError', NEW q \in 1 .. Len(cObjects'), cObjects'[q].id = 0,
                    q \notin SeqsDeferred(pendingOutgoing')
             PROVE  Covered(q, lastSent + 1)'
  BY Zenon DEF AwaitedAreCovered
<1> /\ TypeInv
    /\ WireTypeOK
    /\ ClientInv
    /\ ClientTypeOK
    /\ AnswerInv
    /\ BatchesWhenParsing
  BY DEF CoverInv, KeptInv, Sane, TypeInv, ClientInv
<1>1. /\ ~cError
      /\ ~ClientCloses
      /\ ~clientOpen => ~clientOpen'
      /\ ~serverOpen => ~serverOpen'
  <2>1. ClientCloses => cError'
    BY Zenon DEF ClientCloses
  <2>2. serverOpen' = serverOpen
    BY ServerEndUntouched
  <2>3. ~serverOpen => ~serverOpen'
    BY <2>2
  <2> QED
    BY <2>1, <2>3, ClientStaysClosed, Zenon
<1>2. AskedFor(q)' => Covered(q, lastSent + 1)'
  <2>1. (TypeInv /\ OneCall /\ RoundsKnown)'
    BY DEF Sane
  <2>2. (TypeInv /\ OneCall /\ RoundsKnown => NextCoversAsked)'
    BY AskedAreCovered, PTL
  <2> QED
    BY <2>1, <2>2 DEF NextCoversAsked
<1>3. CASE q \notin 1 .. Len(cObjects)
  <2>1. Asks /\ q = Len(cObjects) + 1
    BY <1>3, NewcomersAreAsked
  <2>2. clientOpen /\ serverOpen => \E m \in Range(c2s') : AsksFor(m) /\ m.seq = q
    BY <2>1, NewcomerGoes, Zenon DEF Asks
  <2>3. AskedFor(q)'
    BY <1>1, <2>2, Zenon DEF AskedFor
  <2> QED
    BY <1>2, <2>3
<1>4. CASE q \in 1 .. Len(cObjects)
  <2>1. cObjects[q].id = 0
    BY <1>4, KnownStays
  <2>2. CASE q \in SeqsDeferred(pendingOutgoing)
    <3>1. PICK k \in 1 .. Len(pendingOutgoing) : /\ Creates(pendingOutgoing[k].method)
                                                 /\ pendingOutgoing[k].seq = q
      BY <2>2 DEF SeqsDeferred
    <3>2. ~(\E j \in 1 .. Len(pendingOutgoing') : pendingOutgoing'[j] = pendingOutgoing[k])
      BY <3>1 DEF SeqsDeferred
    <3>3. ~Forgotten(pendingOutgoing[k])
      BY DEF Forgotten, CoverInv, KeptInv, KeptParts, DeferredAreListed
    <3>4. clientOpen /\ serverOpen => Resolved(pendingOutgoing[k]) \in Range(c2s')
      BY <1>1, <3>2, <3>3, ClientKeepsDeferred
    <3>5. AsksFor(Resolved(pendingOutgoing[k])) /\ Resolved(pendingOutgoing[k]).seq = q
      BY <3>1 DEF Resolved, AsksFor, Generic
    <3>6. AskedFor(q)'
      BY <1>1, <3>4, <3>5, Zenon DEF AskedFor
    <3> QED
      BY <1>2, <3>6
  <2>3. CASE Covered(q, lastSent + 1)
    <3>1. PICK n \in Nat : n = lastSent + 1
      BY DEF ClientTypeOK
    <3>2. Covered(q, n)
      BY <2>3, <3>1
    <3>3. Covered(q, n)'
      BY <1>4, <3>2, CoveredStays
    <3>4. lastSent' + 1 \in Nat /\ n <= lastSent' + 1
      BY <3>1, ClientRounds DEF ClientTypeOK
    <3>5. PICK k \in Nat : k = lastSent' + 1
      BY <3>4, Zenon
    <3>6. LaterCover'
      <4>1. (TypeInv => LaterCover)' /\ TypeInv'
        BY CoveredLater, PTL DEF Sane
      <4> QED
        BY <4>1
    <3>7. Covered(q, k)'
      BY <3>3, <3>4, <3>5, <3>6 DEF LaterCover
    <3> QED
      BY <3>5, <3>7 DEF Covered, DonesFrom, AnswersFor, RoundsFrom
  <2> QED
    BY <1>1, <1>4, <2>1, <2>2, <2>3 DEF CoverInv, CoverParts, AwaitedAreCovered
<1> QED
  BY <1>3, <1>4

\* What a roundtrip found on the wire stays covered by it.
LEMMA SentStayCovered ==
    ASSUME DispatchesDoNotNest, CoverInv, ClientSteps, UNCHANGED serverVars
    PROVE  SentAreCovered'
<1> SUFFICES ASSUME ~cError', NEW f \in 1 .. Len(stack'), stack'[f].wait = "roundtrip",
                    NEW q \in stack'[f].sent
             PROVE  /\ q \in 1 .. Len(cObjects')
                    /\ cObjects'[q].id = 0 => Covered(q, stack[f].arg)'
  BY Zenon DEF SentAreCovered
<1> /\ TypeInv
    /\ WireTypeOK
    /\ ClientInv
    /\ ClientTypeOK
    /\ AnswerInv
  BY DEF CoverInv, KeptInv, Sane, TypeInv, ClientInv
<1>1. ~cError
  BY ClientStaysClosed, Zenon
<1>2. \E n \in Nat : /\ stack'[f].arg = n
                     /\ q \in 1 .. Len(cObjects)
                     /\ cObjects[q].id = 0 => Covered(q, n)
  <2>1. ASSUME NEW g \in 1 .. Len(stack), WaitsFor(stack'[f]) = WaitsFor(stack[g])
        PROVE  /\ stack'[f].arg = stack[g].arg
               /\ stack[g].arg \in Nat
               /\ q \in 1 .. Len(cObjects)
               /\ cObjects[q].id = 0 => Covered(q, stack[g].arg)
    <3>1. stack[g].wait = "roundtrip" /\ stack'[f].arg = stack[g].arg /\ q \in stack[g].sent
      BY <2>1 DEF WaitsFor
    <3>2. stack[g] \in Frame
      BY ElementOfSeq DEF ClientTypeOK
    <3> QED
      BY <1>1, <3>1, <3>2 DEF Frame, CoverInv, CoverParts, SentAreCovered
  <2>2. ASSUME WaitsFor(stack'[f]) = <<"roundtrip", lastSent + 1, Sent>>
        PROVE  /\ stack'[f].arg = lastSent + 1
               /\ lastSent + 1 \in Nat
               /\ q \in 1 .. Len(cObjects)
               /\ cObjects[q].id = 0 => Covered(q, lastSent + 1)
    <3>1. stack'[f].arg = lastSent + 1 /\ q \in Sent
      BY <2>2 DEF WaitsFor
    <3>2. q \in 1 .. Len(cObjects) /\ q \notin SeqsDeferred(pendingOutgoing)
      BY <3>1 DEF Sent, SeqsDeferred
    <3> QED
      BY <1>1, <3>1, <3>2 DEF ClientTypeOK, CoverInv, CoverParts, AwaitedAreCovered
  <2> QED
    BY <2>1, <2>2, WaitStays
<1>3. PICK n \in Nat : /\ stack'[f].arg = n
                       /\ q \in 1 .. Len(cObjects)
                       /\ cObjects[q].id = 0 => Covered(q, n)
  BY <1>2
<1>4. q \in 1 .. Len(cObjects')
  BY <1>3, ClientKeepsNames, LenProperties DEF ObjectsGoOn, ClientTypeOK
<1>5. ASSUME cObjects'[q].id = 0
      PROVE  Covered(q, stack[f].arg)'
  <2>1. cObjects[q].id = 0
    BY <1>3, <1>5, KnownStays
  <2>2. Covered(q, n)'
    BY <1>3, <1>5, <2>1, CoveredStays
  <2> QED
    BY <1>3, <2>2 DEF Covered, DonesFrom, AnswersFor, RoundsFrom
<1> QED
  BY <1>4, <1>5

\* Every step keeps what the roundtrips cover.
LEMMA CoverStep ==
    ASSUME DispatchesDoNotNest, NoEndEvents, NoForgedObjects, AnswersAtOnce, ListensToMake,
           NoForgedRounds
    PROVE  CoverInv /\ [Next]_vars => CoverInv'
<1> SUFFICES ASSUME CoverInv, [Next]_vars PROVE CoverInv'
  OBVIOUS
<1> /\ TypeInv
    /\ WireTypeOK
    /\ ServerTypeOK
    /\ CoverParts
    /\ Sane
  BY DEF CoverInv, KeptInv, Sane, TypeInv
<1>1. ToldInv' /\ KeptInv' /\ AnswerInv'
  BY ToldStep, KeptStep, AnswerStep DEF CoverInv
<1>2. Sane' /\ OneCall'
  BY <1>1 DEF KeptInv, KeptParts
<1>3. RoundsKnown'
  BY RoundsKnownStay DEF CoverParts
<1>4. CASE ClientSteps /\ UNCHANGED serverVars
  <2>1. IdleIsEmpty' /\ TodoIsInListener'
    BY <1>4 DEF serverVars, sReadVars, CoverParts, IdleIsEmpty, TodoIsInListener
  <2>2. AwaitedAreListed'
    BY <1>4, AwaitedKeepPlace DEF CoverInv, CoverParts
  <2>3. AwaitedAreCovered'
    BY <1>2, <1>3, <1>4, AwaitedStayCovered
  <2>4. SentAreCovered'
    BY <1>4, SentStayCovered
  <2> QED
    BY <1>1, <1>3, <2>1, <2>2, <2>3, <2>4 DEF CoverInv, CoverParts
<1>5. ASSUME UNCHANGED clientVars,
             IdleIsEmpty', TodoIsInListener',
             \A q \in 1 .. Len(cObjects) : \A n \in Nat : ~cError /\ Covered(q, n) => Covered(q, n)'
      PROVE  CoverInv'
  <2>0. UNCHANGED <<cError, cObjects, stack, pendingOutgoing, lastSent>>
    BY <1>5 DEF clientVars
  <2>1. AwaitedAreListed'
    BY <2>0, Zenon DEF CoverParts, AwaitedAreListed
  <2>2. AwaitedAreCovered'
    <3> SUFFICES ASSUME ~cError, NEW q \in 1 .. Len(cObjects), cObjects[q].id = 0,
                        q \notin SeqsDeferred(pendingOutgoing)
                 PROVE  Covered(q, lastSent + 1)'
      BY <2>0, Zenon DEF AwaitedAreCovered
    <3>1. Covered(q, lastSent + 1)
      BY DEF CoverParts, AwaitedAreCovered
    <3>2. PICK n \in Nat : n = lastSent + 1
      BY DEF TypeInv, ClientInv, ClientTypeOK
    <3>3. Covered(q, n)'
      BY <1>5, <3>1, <3>2
    <3> QED
      BY <2>0, <3>2, <3>3 DEF Covered, DonesFrom, AnswersFor, RoundsFrom
  <2>3. SentAreCovered'
    <3> SUFFICES ASSUME ~cError, NEW f \in 1 .. Len(stack), stack[f].wait = "roundtrip",
                        NEW q \in stack[f].sent
                 PROVE  /\ q \in 1 .. Len(cObjects)
                        /\ cObjects[q].id = 0 => Covered(q, stack[f].arg)'
      BY <2>0, Zenon DEF SentAreCovered
    <3>1. q \in 1 .. Len(cObjects) /\ (cObjects[q].id = 0 => Covered(q, stack[f].arg))
      BY DEF CoverParts, SentAreCovered
    <3>2. PICK n \in Nat : n = stack[f].arg
      <4>1. stack[f] \in Frame
        BY ElementOfSeq DEF TypeInv, ClientInv, ClientTypeOK
      <4> QED
        BY <4>1 DEF Frame
    <3>3. cObjects[q].id = 0 => Covered(q, n)'
      BY <1>5, <3>1, <3>2
    <3> QED
      BY <2>0, <3>1, <3>2, <3>3 DEF Covered, DonesFrom, AnswersFor, RoundsFrom
  <2> QED
    BY <1>1, <1>3, <1>5, <2>1, <2>2, <2>3 DEF CoverInv, CoverParts
<1>6. CASE ServerSteps /\ UNCHANGED clientVars
  <2>1. IdleIsEmpty' /\ TodoIsInListener'
    BY <1>6, BatchEnds, TodoStaysInListener DEF CoverParts
  <2>2. \A q \in 1 .. Len(cObjects) : \A n \in Nat : ~cError /\ Covered(q, n) => Covered(q, n)'
    BY <1>1, <1>2, <1>6, CoveredServed
  <2> QED
    BY <1>5, <1>6, <2>1, <2>2
<1>7. ASSUME UNCHANGED <<clientVars, serverVars>>,
             \/ ClientStrays /\ UNCHANGED serverVars
             \/ ServerStrays /\ UNCHANGED clientVars
             \/ UNCHANGED vars
      PROVE  CoverInv'
  <2>1. IdleIsEmpty' /\ TodoIsInListener'
    BY <1>7 DEF serverVars, sReadVars, CoverParts, IdleIsEmpty, TodoIsInListener
  <2>2. \A q \in 1 .. Len(cObjects) : \A n \in Nat : ~cError /\ Covered(q, n) => Covered(q, n)'
    BY <1>7, CoveredAstray
  <2> QED
    BY <1>5, <1>7, <2>1, <2>2
<1> QED
  BY <1>4, <1>6, <1>7, WhoSteps DEF ClientStrays, ServerStrays, vars

\* A roundtrip that returns has been acknowledged, so nothing it covers is left.
LEMMA CoversSent == CoverInv => RoundtripCoversSent
<1> SUFFICES ASSUME CoverInv, RoundtripReturning, NEW q \in Top.sent
             PROVE  cObjects[q].id # 0
  BY DEF RoundtripCoversSent
<1> ClientTypeOK
  BY DEF CoverInv, KeptInv, Sane, TypeInv, ClientInv
<1>1. 1 \in 1 .. Len(stack) /\ Top = stack[1]
  BY StackSteps DEF RoundtripReturning, InPhase
<1>2. cObjects[q].id = 0 => Covered(q, Top.arg)
  BY <1>1 DEF CoverInv, CoverParts, SentAreCovered, RoundtripReturning
<1>3. lastAckd >= Top.arg
  BY DEF RoundtripReturning, Satisfied
<1>4. Top.arg \in Nat /\ lastAckd \in Nat
  <2>1. Top \in Frame
    BY <1>1, ElementOfSeq DEF ClientTypeOK
  <2> QED
    BY <2>1 DEF Frame, ClientTypeOK
<1> QED
  BY <1>2, <1>3, <1>4 DEF Covered

\* When roundtrip returns, every object whose request was on the wire before it
\* has its id, if calls of dispatchEvents do not nest, no event is a destructor,
\* the application of the server listens to the requests that create objects and
\* answers them in the listener, and nobody forges objects or roundtrips.
THEOREM RoundtripsCoverSent ==
    ASSUME DispatchesDoNotNest, NoEndEvents, NoForgedObjects, AnswersAtOnce, ListensToMake,
           NoForgedRounds
    PROVE  Spec => []RoundtripCoversSent
BY CoverInit, CoverStep, CoversSent, PTL DEF Spec

-----------------------------------------------------------------------------
(* A client that keeps to the protocol is not blamed                         *)

\* Both ends were built from this code and keep to the protocol: neither errs
\* on purpose, the server sends no events, nobody else writes to the socket, and
\* the client was built for no version the server does not have.
Conforming ==
    /\ ~Reckless
    /\ ~Blames
    /\ Events = {}
    /\ StrayToServer = {}
    /\ StrayToClient = {}
    /\ \A p \in Protocols : ServerVer[p] > 0 => ClientVer[p] <= ServerVer[p]

\* Then no peer of another make forges anything.
LEMMA ConformingForgesNothing ==
    ASSUME Conforming
    PROVE  NoForgedHandshake /\ NoForgedObjects /\ NoForgedEnds /\ NoEndEvents
BY DEF Conforming, NoForgedHandshake, NoForgedObjects, NoForgedEnds, NoEndEvents

\* What a server does that neither errs on purpose nor sends events.
ServerServesOn == ServerDispatches \/ ServerCreates \/ ServerRemovesClient

\* No other steps are left.
LEMMA ConformingSteps ==
    ASSUME Conforming, [Next]_vars
    PROVE  \/ ClientSteps /\ UNCHANGED serverVars
           \/ ServerSteps /\ ServerServesOn /\ UNCHANGED clientVars
           \/ UNCHANGED vars
BY DEF Conforming, Next, ClientLibrary, ClientApp, ServerLibrary, ServerApp, ClientSteps, ServerSteps,
       ServerServesOn, ClientStrays, ServerStrays, ServerEmits

\* An object the server has, and goes on having: what would end it neither runs
\* nor is on its way.
Live(i) == Serves(i, 0) /\ \A m \in Going : ~EndsAt(m, i)

\* While both ends are open: the client was told of no error and hears no event,
\* what it asks for is granted, what it calls can be served and is not ended by
\* an earlier call, and what it may yet call, or is told of, is there to be called.
Undisturbed      == /\ ~cError
                    /\ Phase # "call"
                    /\ \A m \in Coming : m.type \notin {"FATAL", "GENERIC"}
AskedAreGranted  == \A r \in Asked : Grants(r.protocol, r.version)
CallsAreServable == \A m \in Going : Servable(m)
CallsInTurn      == EndsComeLast(Inbox)
SpeakersLive     == \A q \in 1 .. Len(cObjects) : Speaks(q) => Live(cObjects[q].id)
AnnouncedLive    == \A m \in Announced : cObjects[m.seq].id = 0 => Live(m.id)

Harmony ==
    /\ Undisturbed
    /\ AskedAreGranted
    /\ CallsAreServable
    /\ CallsInTurn
    /\ SpeakersLive
    /\ AnnouncedLive

BlameParts ==
    /\ IdleIsEmpty
    /\ RefusedIsError
    /\ DeferredEndsLast
    /\ DeferredExist
    /\ ConformingIsNotBlamed
    /\ clientOpen /\ serverOpen => Harmony

BlameInv == ToldInv /\ HandshakeInv /\ EndInv /\ KeptInv /\ BlameParts

\* At the start the client says hello.
LEMMA BlameInit == Init => BlameInv
<1> SUFFICES ASSUME Init PROVE BlameInv
  OBVIOUS
<1>1. /\ c2s = <<Hello>> /\ s2c = <<>> /\ sBatch = <<>> /\ stack = <<>>
      /\ cObjects = <<>> /\ pendingOutgoing = <<>> /\ sObjects = {} /\ todo = {}
  BY DEF Init, WireInit, ServerInit, ClientInit
<1>2. Coming = {} /\ Going = {Hello} /\ Hello.type = "SUP"
  BY <1>1, RangeOfShort DEF Coming, Batches, Going, Hello
<1>3. IdleIsEmpty /\ RefusedIsError /\ DeferredEndsLast /\ DeferredExist
  BY <1>1 DEF IdleIsEmpty, RefusedIsError, DeferredEndsLast, DeferredExist
<1>4. ConformingIsNotBlamed
  BY Zenon DEF Init, ServerInit, ConformingIsNotBlamed
<1>5. ~cError
  BY Zenon DEF Init, ClientInit
<1>6. Undisturbed
  BY <1>1, <1>2, <1>5 DEF Undisturbed, Phase
<1>7. AskedAreGranted /\ CallsAreServable
  BY <1>1, <1>2 DEF AskedAreGranted, Asked, CallsAreServable, Servable
<1>8. CallsInTurn
  <2>1. Inbox = <<Hello>>
    BY <1>1 DEF Inbox
  <2>2. Len(<<Hello>>) = 1 /\ <<Hello>>[1] = Hello
    OBVIOUS
  <2> QED
    BY <1>2, <2>1, <2>2 DEF CallsInTurn, EndsComeLast
<1>9. SpeakersLive /\ AnnouncedLive
  BY <1>1, <1>2 DEF SpeakersLive, AnnouncedLive, Announced
<1>10. BlameParts
  BY <1>3, <1>4, <1>6, <1>7, <1>8, <1>9 DEF BlameParts, Harmony
<1> QED
  BY <1>10, ToldInit, HandshakeInit, EndInit, KeptInit DEF BlameInv

\* What the invariant says of either end, and of the two together.
LEMMA BlameHolds ==
    ASSUME BlameInv
    PROVE  /\ TypeInv /\ WireTypeOK /\ ServerTypeOK /\ ClientTypeOK /\ ClientInv /\ BatchesWhenParsing
           /\ HangupIsReal
           /\ ClientAgrees
           /\ AnswerInv /\ ObjectsInv /\ ObjectsParts
           /\ EndParts /\ DeferredAreGone
           /\ KeptInv /\ KeptParts
           /\ BlameParts
           /\ IdsTellApart
           /\ VersionsAgreeOnBind
<1>1. ObjectsInv /\ AnswerInv /\ TypeInv
  BY DEF BlameInv, EndInv, AnswerInv, ObjectsInv, Sane
<1>2. IdsTellApart /\ VersionsAgreeOnBind
  BY <1>1, ObjectsMatch DEF IdsMatch, IdsTellApart
<1> QED
  BY <1>1, <1>2 DEF BlameInv, ToldInv, HandshakeInv, HandshakeParts, EndInv, EndParts, KeptInv, Sane,
     TypeInv, ClientInv, ObjectsInv

\* While both ends stay open the client errs for nothing and calls no listener.
LEMMA UndisturbedStays ==
    ASSUME DispatchesDoNotNest, BlameInv, ClientSteps, clientOpen', serverOpen'
    PROVE  /\ clientOpen
           /\ serverOpen
           /\ Harmony
           /\ ~cError'
           /\ Undisturbed'
<1> /\ TypeInv /\ WireTypeOK /\ ClientInv /\ BatchesWhenParsing
    /\ KeptParts
    /\ BlameParts
  BY BlameHolds
<1>1. clientOpen /\ serverOpen
  BY ClientStaysClosed, ServerEndUntouched, Zenon
<1>2. Harmony /\ Undisturbed
  BY <1>1 DEF BlameParts, Harmony
<1>3. OneCall
  BY DEF KeptParts
<1>4. ~cError'
  BY <1>2, ClientErrs DEF Undisturbed
<1>5. Coming' \subseteq Coming
  BY ClientTakes
<1>6. Phase' # "call"
  <2>1. CASE Takes
    <3>1. Range(Stream) = Coming /\ StreamTyped
      BY <1>3, StreamIsComing, StreamIsTyped
    <3>2. Stream # <<>> /\ Head(Stream) = Received /\ Stream \in Seq(ServerMessage)
      BY <2>1, <3>1, TailOfConcat DEF StreamTyped, Stream, Takes
    <3>3. Received \in Coming
      BY <3>1, <3>2, RangeSplits
    <3> QED
      BY <1>2, <2>1, <3>3 DEF Takes, Undisturbed
  <2>2. CASE Acts
    BY <1>2, <2>2 DEF Acts, Undisturbed, Phase, Top
  <2>3. CASE Rests \/ Reads \/ Resumes \/ Finishes \/ GivesUp
    BY <2>3 DEF Rests, Reads, Resumes, Finishes, GivesUp
  <2> QED
    BY <1>3, <2>1, <2>2, <2>3, ClientTurns
<1> QED
  BY <1>1, <1>2, <1>4, <1>5, <1>6, Zenon DEF Undisturbed

\* Then what it writes keeps to the protocol.
LEMMA ConformingSpeaks ==
    ASSUME Conforming, BlameInv, ClientSteps, UNCHANGED serverVars, Harmony
    PROVE  \E s \in Seq(ClientMessage) : /\ Inbox' = Inbox \o s
                                         /\ Going' = Going \cup Range(s)
                                         /\ EndsComeLast(s)
                                         /\ \A m \in Range(s) : Said(m)
<1> /\ TypeInv /\ WireTypeOK /\ ServerTypeOK /\ ClientTypeOK /\ ClientInv
    /\ KeptParts
    /\ EndParts
    /\ BlameParts
    /\ IdsTellApart
    /\ DeferredAreGone
  BY BlameHolds
<1>1. PICK s \in Seq(ClientMessage) : c2s' = c2s \o s /\ EndsComeLast(s) /\ \A m \in Range(s) : Said(m)
  BY ClientSpeaksWell DEF Conforming, KeptParts, BlameParts, Harmony, Undisturbed
<1>2. UNCHANGED sBatch
  BY DEF serverVars, sReadVars
<1>3. Inbox' = Inbox \o s
  BY <1>1, <1>2, InboxAppends
<1>4. Range(c2s \o s) = Range(c2s) \cup Range(s)
  BY <1>1, RangeConcatenation DEF WireTypeOK
<1>5. Going' = Going \cup Range(s)
  BY <1>1, <1>2, <1>4 DEF Going
<1> QED
  BY <1>1, <1>3, <1>5

\* An object stays one that can be called, when the client ends it only with
\* the last it has to say to it.
LEMMA LiveUntilEnded ==
    ASSUME BlameInv, UNCHANGED serverVars,
           NEW s \in Seq(ClientMessage), Going' = Going \cup Range(s), \A m \in Range(s) : Said(m),
           NEW i, Live(i),
           \A q \in 1 .. Len(cObjects) : Speaks(q) /\ cObjects[q].id = i => Speaks(q)'
    PROVE  Live(i)'
<1>1. Serves(i, 0)'
  BY DEF Live, Serves, EndsCall, serverVars, sObjectVars
<1>2. ASSUME NEW m \in Going', EndsAt(m, i)
      PROVE  FALSE
  <2>1. m \in Range(s) /\ Said(m) /\ m.type = "GENERIC" /\ m.object = i /\ Ends(m)
    BY <1>2 DEF Live, EndsAt, Ends
  <2>2. PICK q \in 1 .. Len(cObjects) : SaidTo(q, m)
    BY <2>1 DEF Said
  <2> QED
    BY <2>1, <2>2 DEF SaidTo
<1> QED
  BY <1>1, <1>2 DEF Live

\* An object whose id stays is called after the step only if it was before.
LEMMA SpeakersWere ==
    ASSUME BlameInv, ClientSteps, ~cError',
           NEW q \in 1 .. Len(cObjects), cObjects[q].id # 0, Speaks(q)'
    PROVE  Speaks(q)
<1> /\ WireTypeOK /\ ClientInv
    /\ KeptParts
  BY BlameHolds
<1>1. Succeeds(cObjects'[q], cObjects[q])
  BY ClientKeepsNames DEF ObjectsGoOn
<1>2. ~ClientCloses
  BY Zenon DEF ClientCloses
<1>3. Spares(q) \/ Collects(q) \/ Destructs(q)
  BY <1>2, ClientSpares, Zenon DEF KeptParts
<1>4. cObjects[q].listed
  BY <1>3, Zenon DEF Spares, Collects, Destructs, IsOrphan, Speaks
<1>5. CASE ~cObjects'[q].destroyed
  BY <1>1, <1>4, <1>5, Zenon DEF Succeeds, Speaks
<1>6. CASE HasDeferred(q)'
  <2>1. PICK k \in 1 .. Len(pendingOutgoing') : pendingOutgoing'[k].dependsOn = q
    BY <1>6 DEF HasDeferred
  <2>2. ASSUME Deferring(pendingOutgoing'[k])
        PROVE  FALSE
    <3>1. PICK r \in 1 .. Len(cObjects), x \in Requests :
             /\ pendingOutgoing'[k] = [dependsOn |-> r, method |-> x, seq |-> CallSeq(x)]
             /\ cObjects[r].id = 0
      BY <2>2, Zenon DEF Deferring
    <3>2. pendingOutgoing'[k].dependsOn = r
      BY <3>1
    <3> QED
      BY <2>1, <3>1, <3>2
  <2>3. HasDeferred(q)
    BY <2>1, <2>2, ClientDefers DEF HasDeferred
  <2> QED
    BY <1>4, <2>3 DEF Speaks
<1> QED
  BY <1>5, <1>6, Zenon DEF Speaks

\* The client's part: what it asks for and calls is there, and what it may yet
\* call stays.
LEMMA HarmonyClientStep ==
    ASSUME DispatchesDoNotNest, Conforming, BlameInv, ClientSteps, UNCHANGED serverVars,
           clientOpen', serverOpen'
    PROVE  Harmony'
<1> /\ TypeInv /\ WireTypeOK /\ ServerTypeOK /\ ClientInv /\ BatchesWhenParsing
    /\ ClientAgrees
    /\ AnswerInv /\ ObjectsInv /\ ObjectsParts
    /\ KeptParts
    /\ IdsTellApart
    /\ VersionsAgreeOnBind
    /\ Len(cObjects) \in Nat
  BY BlameHolds, LenProperties DEF ClientInv, ClientTypeOK
<1>1. Harmony /\ ~cError' /\ Undisturbed'
  BY UndisturbedStays
<1> /\ AskedAreGranted
    /\ CallsAreServable
    /\ CallsInTurn
    /\ SpeakersLive
    /\ AnnouncedLive
  BY <1>1 DEF Harmony
<1>2. UNCHANGED <<sObjects, sCall, todo, exposed, sBatch>>
  BY DEF serverVars, sObjectVars, sReadVars, sSessionVars
<1>3. PICK s \in Seq(ClientMessage) : /\ Inbox' = Inbox \o s
                                      /\ Going' = Going \cup Range(s)
                                      /\ EndsComeLast(s)
                                      /\ \A m \in Range(s) : Said(m)
  BY <1>1, ConformingSpeaks
<1>4. ASSUME NEW m \in Range(s), m.type = "GENERIC"
      PROVE  Live(m.object) /\ Servable(m)
  <2>1. PICK q \in 1 .. Len(cObjects) : SaidTo(q, m)
    BY <1>3, <1>4 DEF Said
  <2>2. Live(cObjects[q].id) /\ m.object = cObjects[q].id /\ Since(m.method) <= cObjects[q].version
    BY <2>1 DEF SaidTo, SpeakersLive
  <2>3. PICK o \in sObjects : o.id = cObjects[q].id
    BY <2>2 DEF Live, Serves
  <2>4. Since(m.method) <= o.version
    <3>1. o.version \in Nat /\ Since(m.method) \in Nat
      BY DEF ServerTypeOK, ServerObject, Since
    <3> cObjects[q] \in ClientObject
      BY ElementOfSeq DEF ClientInv, ClientTypeOK
    <3> cObjects[q].version \in Nat
      BY DEF ClientObject
    <3>2. cObjects[q].version = 0 \/ cObjects[q].version = o.version
      BY <2>3 DEF VersionsAgreeOnBind
    <3> QED
      BY <2>2, <3>1, <3>2
  <2> QED
    BY <1>4, <2>2, <2>3, <2>4 DEF Live, Servable, Serves
<1>5. AskedAreGranted'
  <2>1. ASSUME NEW r \in Asked', r \notin Asked
        PROVE  Grants(r.protocol, r.version)
    <3>1. r \in Range(s) /\ r.type = "BIND_PROTOCOL"
      BY <1>2, <1>3, <2>1 DEF Asked
    <3>2. handshakeDone /\ r.protocol \in serverSpecs /\ r.version <= ClientVer[r.protocol]
      BY <1>3, <3>1 DEF Said
    <3>3. r.protocol \in exposed /\ r.protocol \in Implemented
      BY <3>2, Zenon DEF ClientAgrees, ServerTypeOK
    <3>4. r.version \in Nat /\ r.protocol \in Protocols
      <4>1. r \in ClientMessage
        BY <1>3, <3>1, RangeIsTyped
      <4> QED
        BY <3>1, <4>1 DEF ClientMessage, Hello, Invalid
    <3>5. ServerVer[r.protocol] > 0 /\ ClientVer[r.protocol] <= ServerVer[r.protocol]
      BY <3>3 DEF Implemented, Conforming
    <3>6. ServerVer[r.protocol] \in Nat /\ ClientVer[r.protocol] \in Nat
      BY <3>4, VersionsAssumption
    <3>7. r.version <= ServerVer[r.protocol]
      BY <3>2, <3>4, <3>5, <3>6
    <3> QED
      BY <3>3, <3>7 DEF Grants
  <2>2. \A r \in Asked' : Grants(r.protocol, r.version)
    BY <2>1 DEF AskedAreGranted
  <2> QED
    BY <1>2, <2>2 DEF AskedAreGranted, Grants
<1>6. CallsAreServable'
  <2>1. ASSUME NEW m \in Going'
        PROVE  Servable(m)
    BY <1>3, <1>4, <2>1 DEF CallsAreServable, Servable, Said
  <2>2. \A m \in Going' : Servable(m)'
    BY <1>2, <2>1 DEF Servable, Serves, EndsCall
  <2> QED
    BY <2>2 DEF CallsAreServable
<1>7. CallsInTurn'
  <2>1. Inbox \in Seq(ClientMessage) /\ Range(Inbox) = Going
    BY InboxType
  <2>2. \A n \in Range(Inbox), m \in Range(s) : m.type = "GENERIC" => ~EndsAt(n, m.object)
    BY <1>4, <2>1 DEF Live
  <2>3. EndsComeLast(Inbox \o s)
    BY <1>3, <2>1, <2>2, EndsComeLastJoined DEF CallsInTurn
  <2> QED
    BY <1>3, <2>3 DEF CallsInTurn
<1>8. ASSUME NEW m \in Announced, cObjects[m.seq].id = 0
      PROVE  Live(m.id)'
  <2>1. PICK i : i = m.id
    OBVIOUS
  <2>2. Live(i)
    BY <1>8, <2>1 DEF AnnouncedLive
  <2>3. ASSUME NEW q \in 1 .. Len(cObjects), Speaks(q), cObjects[q].id = i
        PROVE  FALSE
    <3>1. Pair(m.seq, i) \in Ties /\ Pair(q, i) \in Ties
      BY <2>1, <2>3 DEF Ties, Speaks
    <3>2. m.seq = q
      BY <3>1 DEF ObjectsParts, IdsTieOnce, Pair
    <3> QED
      BY <1>8, <2>3, <3>2 DEF Speaks
  <2>4. Live(i)'
    BY <1>3, <2>2, <2>3, LiveUntilEnded
  <2> QED
    BY <2>1, <2>4
<1>9. AnnouncedLive'
  <2> SUFFICES ASSUME NEW m \in Announced', cObjects'[m.seq].id = 0
               PROVE  Live(m.id)'
    BY DEF AnnouncedLive
  <2>1. m \in Announced
    BY ClientTakes DEF Announced
  <2>2. Pair(m.seq, m.id) \in Ties
    BY <2>1 DEF Ties
  <2>3. m.seq \in 1 .. Len(cObjects)
    BY <2>2, TiesAreReal DEF Pair
  <2>4. cObjects[m.seq].id = 0
    BY <2>3, KnownStays
  <2> QED
    BY <1>8, <2>1, <2>4
<1>10. SpeakersLive'
  <2> SUFFICES ASSUME NEW q \in 1 .. Len(cObjects'), Speaks(q)'
               PROVE  Live(cObjects[q].id)'
    BY DEF SpeakersLive
  <2>1. ObjectsGoOn
    BY ClientKeepsNames
  <2>2. q \in 1 .. Len(cObjects)
    BY <2>1 DEF ObjectsGoOn, Speaks
  <2>3. CASE cObjects[q].id # 0
    <3>1. cObjects'[q].id = cObjects[q].id
      BY <2>2, <2>3, KnownStays
    <3>2. PICK i : i = cObjects[q].id
      OBVIOUS
    <3>3. Speaks(q)
      BY <1>1, <2>2, <2>3, SpeakersWere
    <3>4. Live(i)
      BY <2>2, <3>2, <3>3 DEF SpeakersLive
    <3>5. \A r \in 1 .. Len(cObjects) : Speaks(r) /\ cObjects[r].id = i => r = q
      BY <2>2, <2>3, <3>2 DEF IdsTellApart
    <3>6. Live(i)'
      BY <1>3, <3>4, <3>5, LiveUntilEnded
    <3> QED
      BY <3>1, <3>2, <3>6
  <2>4. CASE cObjects[q].id = 0
    <3>1. Learns(q)
      BY <2>1, <2>2, <2>4 DEF ObjectsGoOn, Speaks
    <3>2. PICK n \in Coming : n.type = "NEW_OBJECT" /\ n.seq = q /\ n.id = cObjects'[q].id
      BY <3>1 DEF Learns
    <3>3. q \in 1 .. MaxSeq
      BY <2>2, ClientAssumption DEF ObjectsParts, SeqsBounded
    <3>4. n \in Announced
      BY <3>2, <3>3 DEF Announced
    <3>5. Live(n.id)'
      BY <1>8, <2>4, <3>2, <3>4
    <3> QED
      BY <3>2, <3>5
  <2> QED
    BY <2>3, <2>4
<1> QED
  BY <1>1, <1>5, <1>6, <1>7, <1>9, <1>10 DEF Harmony

\* The server's part: it finds no fault, and ends only what it was told to.
LEMMA HarmonyServerStep ==
    ASSUME Conforming, BlameInv, EndInv', ServerSteps, ServerServesOn, UNCHANGED clientVars,
           clientOpen, serverOpen
    PROVE  ~sError' /\ (serverOpen' => Harmony')
<1> /\ TypeInv /\ WireTypeOK /\ ServerTypeOK
    /\ HangupIsReal
    /\ ObjectsParts
    /\ EndParts
    /\ BlameParts
  BY BlameHolds
<1> /\ IdleIsEmpty
    /\ RefusedIsError
    /\ Undisturbed
    /\ AskedAreGranted
    /\ CallsAreServable
    /\ CallsInTurn
    /\ SpeakersLive
    /\ AnnouncedLive
  BY Zenon DEF BlameParts, Harmony
<1>1. ~sError /\ ~sHup
  BY Zenon DEF BlameParts, ConformingIsNotBlamed, HangupIsReal
<1>2. ~sError'
  <2>1. \A o, u \in sObjects : o.id = u.id => o = u
    BY DEF ObjectsParts, IdsUnique
  <2> QED
    BY <1>1, <2>1, ServerFindsNoFault DEF ServerServesOn, AskedAreGranted, CallsAreServable
<1>3. Going' \subseteq Going
  BY ServerTakes
<1>4. AskedAreGranted'
  <2>1. FilterFirst
    BY DEF ObjectsParts
  <2> QED
    BY <1>1, <2>1, ServerGoesOnGranting DEF AskedAreGranted
<1>5. ASSUME ServerHandles
      PROVE  /\ Message \in Going
             /\ ~ServerRejects
  <2>1. ServerParses
    BY <1>5 DEF ServerHandles, ServerHandlesHello, ServerHandlesAck, ServerHandlesBind,
       ServerHandlesRoundtrip, ServerHandlesUnknown, ServerIgnoresRequest, ServerCalled, ServerRejects
  <2>2. Message \in Going
    BY <2>1, MessageIsGoing
  <2>3. Message.type # "INVALID"
    BY <2>2 DEF CallsAreServable, Servable
  <2> QED
    BY <2>2, <2>3 DEF ServerRejects
<1>6. \/ Inbox' = Inbox /\ ~ServerHandles
      \/ ServerHandles /\ Inbox # <<>> /\ Head(Inbox) = Message /\ Inbox' = Tail(Inbox)
  BY <1>1, <1>5, InboxMoves
<1>7. Inbox \in Seq(ClientMessage) /\ Range(Inbox) = Going
  BY InboxType
<1>8. CallsInTurn' /\ (ServerHandles => \A m \in Going' : m.type = "GENERIC" => ~EndsAt(Message, m.object))
  <2>1. CASE Inbox' = Inbox /\ ~ServerHandles
    BY <2>1 DEF CallsInTurn
  <2>2. CASE ServerHandles /\ Inbox # <<>> /\ Head(Inbox) = Message /\ Inbox' = Tail(Inbox)
    <3>1. /\ EndsComeLast(Tail(Inbox))
          /\ \A m \in Range(Tail(Inbox)) : m.type = "GENERIC" => ~EndsAt(Message, m.object)
      BY <1>7, <2>2, EndsComeLastTail DEF CallsInTurn
    <3>2. Range(Inbox') = Going'
      <4>1. WireTypeOK' /\ ServerTypeOK'
        BY ServerStepType
      <4> QED
        BY <4>1, RangeConcatenation DEF WireTypeOK, ServerTypeOK, Inbox, Going
    <3> QED
      BY <2>2, <3>1, <3>2 DEF CallsInTurn
  <2> QED
    BY <1>6, <2>1, <2>2
<1>9. ASSUME serverOpen', NEW i, Live(i)
      PROVE  Live(i)'
  <2>1. Serves(i, 0)' \/ (ServerHandles /\ EndsAt(Message, i))
    BY <1>9, ServerGoesOnServing DEF Live
  <2>2. Serves(i, 0)'
    BY <1>5, <1>9, <2>1 DEF Live
  <2>3. \A m \in Going' : ~EndsAt(m, i)
    BY <1>3, <1>9 DEF Live
  <2> QED
    BY <2>2, <2>3 DEF Live, EndsAt, Ends
<1>10. ASSUME serverOpen'
       PROVE  CallsAreServable'
  <2>1. ASSUME NEW m \in Going', m.type = "GENERIC"
        PROVE  Serves(m.object, Since(m.method))'
    <3>1. PICK i, v : i = m.object /\ v = Since(m.method)
      OBVIOUS
    <3>2. Serves(i, v)
      BY <1>3, <2>1, <3>1 DEF CallsAreServable, Servable
    <3>3. Serves(i, v)' \/ (ServerHandles /\ EndsAt(Message, i))
      BY <1>10, <3>2, ServerGoesOnServing
    <3>4. Serves(i, v)'
      BY <1>8, <2>1, <3>1, <3>3
    <3> QED
      BY <3>1, <3>4
  <2>2. \A m \in Going' : m.type # "INVALID"
    BY <1>3 DEF CallsAreServable, Servable
  <2> QED
    BY <2>1, <2>2 DEF CallsAreServable, Servable
<1>11. UNCHANGED <<cError, cObjects, pendingOutgoing>> /\ Phase' = Phase /\ Batches' = Batches
  BY WireUntouched DEF clientVars, Phase, Top
<1>12. ASSUME NEW m \in Coming', m \notin Coming
       PROVE  m \in Range(s2c') /\ m \notin Range(s2c)
  BY <1>11, <1>12 DEF Coming
<1>13. ASSUME NEW m \in Coming', m \notin Coming
       PROVE  SaysWhatIs(m)
  <2>1. m \in Range(s2c') /\ m \notin Range(s2c)
    BY <1>12, <1>13
  <2>2. PICK n \in ServerMessage : ServerSends(<<n>>) /\ SaysWhatIs(n)
    BY <2>1, ServerSpeaks
  <2>3. <<n>> \in Seq(ServerMessage)
    OBVIOUS
  <2>4. m = n
    BY <2>1, <2>2, <2>3, ServerSendsRange, RangeOfShort
  <2> QED
    BY <2>2, <2>4
<1>14. Undisturbed'
  <2>1. ASSUME NEW m \in Coming', m \notin Coming
        PROVE  m.type \notin {"FATAL", "GENERIC"}
    <3>1. m.type # "FATAL"
      BY <1>2, <1>13, <2>1 DEF SaysWhatIs
    <3>2. m.type # "GENERIC"
      BY <1>12, <2>1, ServerEventsAreOwn DEF Conforming
    <3> QED
      BY <3>1, <3>2
  <2>2. \A m \in Coming' : m.type \notin {"FATAL", "GENERIC"}
    BY <2>1 DEF Undisturbed
  <2>3. ~cError' /\ Phase' # "call"
    BY <1>11, Zenon DEF Undisturbed
  <2> QED
    BY <2>2, <2>3, Zenon DEF Undisturbed
<1>15. ASSUME serverOpen'
       PROVE  SpeakersLive'
  <2> SUFFICES ASSUME NEW q \in 1 .. Len(cObjects), Speaks(q)
               PROVE  Live(cObjects[q].id)'
    BY <1>11 DEF SpeakersLive, Speaks, HasDeferred
  <2>1. PICK i : i = cObjects[q].id
    OBVIOUS
  <2>2. Live(i)'
    BY <1>9, <1>15, <2>1 DEF SpeakersLive
  <2> QED
    BY <1>11, <2>1, <2>2
<1>16. ASSUME NEW r \in Asked, MakesFor(r), NEW i, i = maxId
       PROVE  Live(i)'
  <2>1. Made(r) \in sObjects' /\ Made(r).id = i
    BY <1>16 DEF MakesFor, Made
  <2>2. 0 <= Made(r).version
    <3>1. Made(r) \in ServerObject
      BY <2>1, ServerStepType DEF ServerTypeOK
    <3> QED
      BY <3>1 DEF ServerObject
  <2>3. ~Through(i)
    <3> SUFFICES ASSUME NEW q \in 1 .. Len(cObjects), cObjects[q].id = i, i # 0
                 PROVE  FALSE
      BY DEF Through
    <3>1. Pair(q, i) \in Ties
      BY DEF Ties
    <3> QED
      BY <1>16, <3>1 DEF ObjectsParts, IdsSpent, Pair, ServerTypeOK
  <2>4. ~Through(i)'
    BY <1>11, <2>3 DEF Through, Gone
  <2>5. ~EndsCall(i)'
    BY <2>4 DEF EndsCall, EndInv, EndParts, CallIsMeant
  <2>6. \A m \in Going' : ~EndsAt(m, i)
    BY <1>3, <2>3 DEF EndParts, EndsAreMeant, EndsAt
  <2> QED
    BY <2>1, <2>2, <2>5, <2>6 DEF Live, Serves, EndsAt, Ends
<1>17. ASSUME serverOpen'
       PROVE  AnnouncedLive'
  <2> SUFFICES ASSUME NEW m \in Announced', cObjects'[m.seq].id = 0
               PROVE  Live(m.id)'
    BY DEF AnnouncedLive
  <2>1. PICK i : i = m.id
    OBVIOUS
  <2>2. CASE m \in Coming
    <3>1. Live(i)
      BY <1>11, <2>1, <2>2 DEF AnnouncedLive, Announced
    <3> QED
      BY <1>9, <1>17, <2>1, <3>1
  <2>3. CASE m \notin Coming
    <3>1. SaysWhatIs(m) /\ m.type = "NEW_OBJECT"
      BY <1>13, <2>3 DEF Announced
    <3>2. PICK r \in Asked : MakesFor(r) /\ m = NewObject(r.seq, maxId)
      BY <3>1 DEF SaysWhatIs
    <3>3. i = maxId
      BY <2>1, <3>2 DEF NewObject
    <3>4. Live(i)'
      BY <1>16, <3>2, <3>3
    <3> QED
      BY <2>1, <3>4
  <2> QED
    BY <2>2, <2>3
<1> QED
  BY <1>2, <1>4, <1>8, <1>10, <1>14, <1>15, <1>17, Zenon DEF Harmony

\* No step lets the server blame a client that keeps to the protocol.
LEMMA BlameStep ==
    ASSUME DispatchesDoNotNest, Conforming
    PROVE  BlameInv /\ [Next]_vars => BlameInv'
<1> SUFFICES ASSUME BlameInv, [Next]_vars PROVE BlameInv'
  OBVIOUS
<1> /\ TypeInv /\ WireTypeOK /\ ServerTypeOK /\ ClientInv
    /\ ObjectsParts
    /\ DeferredAreGone
    /\ BlameParts
  BY BlameHolds
<1>1. ToldInv' /\ HandshakeInv' /\ EndInv' /\ KeptInv'
  BY ToldStep, HandshakeStep, EndStep, KeptStep, ConformingForgesNothing DEF BlameInv
<1> SUFFICES BlameParts'
  BY <1>1 DEF BlameInv
<1>2. CASE ClientSteps /\ UNCHANGED serverVars
  <2>1. UNCHANGED <<sError, sPhase, sBatch, sObjects, exposed>>
    BY <1>2 DEF serverVars, sObjectVars, sReadVars, sSessionVars
  <2>2. IdleIsEmpty' /\ RefusedIsError'
    BY <2>1 DEF BlameParts, IdleIsEmpty, RefusedIsError, Granted, Grants
  <2>3. DeferredEndsLast' /\ DeferredExist'
    BY <1>2, DeferredStayInOrder DEF BlameParts
  <2>4. ConformingIsNotBlamed'
    BY <1>2, <2>1, ClientStaysClosed, Zenon DEF BlameParts, ConformingIsNotBlamed
  <2>5. clientOpen' /\ serverOpen' => Harmony'
    BY <1>2, HarmonyClientStep
  <2> QED
    BY <2>2, <2>3, <2>4, <2>5, Zenon DEF BlameParts
<1>3. CASE ServerSteps /\ ServerServesOn /\ UNCHANGED clientVars
  <2>1. clientOpen' = clientOpen /\ serverOpen
    BY <1>3, ServerTells, ServerServes
  <2>2. IdleIsEmpty' /\ RefusedIsError'
    BY <1>3, BatchEnds, ServerGrants DEF BlameParts, ObjectsParts
  <2>3. DeferredEndsLast' /\ DeferredExist'
    BY <1>3 DEF BlameParts, DeferredEndsLast, DeferredExist, clientVars
  <2>4. clientOpen => ~sError' /\ (serverOpen' => Harmony')
    BY <1>1, <1>3, <2>1, HarmonyServerStep
  <2>5. ConformingIsNotBlamed' /\ (clientOpen' /\ serverOpen' => Harmony')
    BY <2>1, <2>4, Zenon DEF ConformingIsNotBlamed
  <2> QED
    BY <2>2, <2>3, <2>5, Zenon DEF BlameParts
<1>4. CASE UNCHANGED vars
  <2> USE <1>4 DEF vars, wireVars, serverVars, sSessionVars, sObjectVars, sReadVars, clientVars
  <2>1. Going' = Going /\ Coming' = Coming
    BY WireUntouched
  <2>2. /\ IdleIsEmpty' /\ DeferredEndsLast' /\ DeferredExist'
        /\ RefusedIsError'
    BY DEF BlameParts, IdleIsEmpty, DeferredEndsLast, DeferredExist, RefusedIsError, Granted, Grants
  <2>3. ConformingIsNotBlamed'
    BY Zenon DEF BlameParts, ConformingIsNotBlamed
  <2>4. ASSUME clientOpen', serverOpen'
        PROVE  Harmony'
    <3>1. Harmony
      BY <2>4, Zenon DEF BlameParts
    <3>2. Undisturbed'
      BY <2>1, <3>1, Zenon DEF Harmony, Undisturbed, Phase, Top
    <3>3. \A i, v : Serves(i, v)' <=> Serves(i, v)
      BY DEF Serves, EndsCall
    <3>4. AskedAreGranted' /\ CallsAreServable' /\ CallsInTurn'
      BY <2>1, <3>1, <3>3 DEF Harmony, AskedAreGranted, Asked, Grants, CallsAreServable, Servable, CallsInTurn, Inbox
    <3>5. \A i : Live(i)' <=> Live(i)
      BY <2>1, <3>3 DEF Live
    <3>6. SpeakersLive' /\ AnnouncedLive'
      BY <2>1, <3>1, <3>5 DEF Harmony, SpeakersLive, Speaks, HasDeferred, AnnouncedLive, Announced
    <3> QED
      BY <3>2, <3>4, <3>6 DEF Harmony
  <2> QED
    BY <2>2, <2>3, <2>4, Zenon DEF BlameParts
<1> QED
  BY <1>2, <1>3, <1>4, ConformingSteps

\* The server drops a client only for hanging up, when both ends keep to the
\* protocol, no event is sent and no listener dispatches: every message finds
\* its object, of a version that has the method, and every request is granted
\* (IWireObject::call, m_pendingOutgoing, collectOrphanedObjects, onGeneric,
\* createObject).
THEOREM ConformingNeverBlamed ==
    ASSUME DispatchesDoNotNest, Conforming
    PROVE  Spec => []ConformingIsNotBlamed
<1>1. BlameInv => ConformingIsNotBlamed
  BY DEF BlameInv, BlameParts
<1> QED
  BY <1>1, BlameInit, BlameStep, PTL DEF Spec
=============================================================================
