------------------------- MODULE ClientSocket_proofs -------------------------
(***************************************************************************)
(* Type correctness of the client's side of a connection, step by step.    *)
(* The type invariant is not inductive as it stands: a deferred call names *)
(* the object it waits for by its seq, and flushing it looks the object    *)
(* up.  DeferredInRange says that there is such an object.                 *)
(* After the types come lemmas on the messages of the client's side: what  *)
(* each handler takes from those on their way and what it adds.            *)
(***************************************************************************)
EXTENDS ClientSocket, Ordering_proofs, Wire_proofs

\* Every step of the client's side, the library's and the application's.
ClientSteps == ClientRuns \/ ClientActs \/ ClientCloses

DeferredInRange ==
    \A k \in 1 .. Len(pendingOutgoing) : pendingOutgoing[k].dependsOn \in 1 .. Len(cObjects)

ClientInv == ClientTypeOK /\ DeferredInRange

-----------------------------------------------------------------------------
(* The type invariants of socket and client, cut in two: the Boolean       *)
(* variables, and the others.                                              *)

ClientFlagsOK ==
    /\ cError \in BOOLEAN
    /\ handshakeDone \in BOOLEAN
    /\ clientOpen \in BOOLEAN
    /\ serverOpen \in BOOLEAN
    /\ reset \in BOOLEAN

ClientDataOK ==
    /\ serverSpecs \subseteq Protocols
    /\ cObjects \in Seq(ClientObject)
    /\ lastSent \in Nat
    /\ lastAckd \in Nat
    /\ pendingOutgoing \in Seq(Deferred)
    /\ stack \in Seq(Frame)
    /\ c2s \in Seq(ClientMessage)
    /\ s2c \in Seq(ServerMessage)

\* The two parts together say what the type invariants say.
LEMMA ClientTypeOKParts == WireTypeOK /\ ClientTypeOK <=> ClientFlagsOK /\ ClientDataOK
BY DEF WireTypeOK, ClientTypeOK, ClientFlagsOK, ClientDataOK

-----------------------------------------------------------------------------
(* Calls in progress *)

\* The innermost call in progress is a frame, and so are those around it.
LEMMA TopType ==
    ASSUME ClientTypeOK, stack # <<>>
    PROVE  /\ Top \in Frame
           /\ Tail(stack) \in Seq(Frame)
BY HeadTailProperties DEF ClientTypeOK, Top

\* Replacing the innermost call by a frame keeps the stack well formed.
LEMMA SetTopType ==
    ASSUME ClientTypeOK, stack # <<>>, NEW f \in Frame, SetTop(f)
    PROVE  stack' \in Seq(Frame)
<1>1. <<f>> \in Seq(Frame)
  OBVIOUS
<1> QED
  BY <1>1, TopType, ConcatProperties DEF SetTop

\* So does starting a call from a listener.
LEMMA PushType ==
    ASSUME ClientTypeOK, NEW f \in Frame, Push(f)
    PROVE  stack' \in Seq(Frame)
<1>1. <<f>> \in Seq(Frame)
  OBVIOUS
<1> QED
  BY <1>1, ConcatProperties DEF Push, ClientTypeOK

\* What dispatchEvents leaves of the calls in progress.
LEMMA DispatchReturnsType ==
    ASSUME ClientTypeOK, stack # <<>>, NEW ok, DispatchReturns(ok)
    PROVE  stack' \in Seq(Frame)
<1>1. [Top EXCEPT !.phase = "loop", !.batch = <<>>] \in Frame
  BY TopType, EmptySeq DEF Frame, Phases
<1>2. CASE SetTop([Top EXCEPT !.phase = "loop", !.batch = <<>>])
  BY <1>1, <1>2, SetTopType
<1>3. CASE Pop
  BY <1>3, TopType DEF Pop
<1> QED
  BY <1>2, <1>3 DEF DispatchReturns

\* The frame a call of the public interface starts with is one, whatever it
\* waits for.
LEMMA NewFrameType ==
    ASSUME ClientTypeOK, NEW w \in Waits, NEW a \in Nat
    PROVE  NewFrame(w, a) \in Frame
<1>1. Len(cObjects) \in Nat
  BY LenProperties DEF ClientTypeOK
<1>2. Sent \in SUBSET Nat
  BY <1>1 DEF Sent
<1>3. Idle \in [seq : Nat, method : AllEvents \cup {"none"}]
  BY DEF Idle
<1>4. /\ (IF w = "roundtrip" THEN Len(cObjects) ELSE 0) \in Nat
      /\ (IF w = "roundtrip" THEN Sent ELSE {}) \in SUBSET Nat
  BY <1>1, <1>2
<1>5. "loop" \in Phases /\ <<>> \in Seq(ServerMessage)
  BY EmptySeq DEF Phases
<1> QED
  BY <1>3, <1>4, <1>5 DEF NewFrame, Frame

\* The message being parsed is one a server may send, and what is left of the
\* batch makes a frame again.
LEMMA ReceivedType ==
    ASSUME ClientTypeOK, NEW t, ClientParses(t)
    PROVE  /\ Received \in ServerMessage
           /\ Consumed \in Frame
           /\ stack # <<>>
<1>1. stack # <<>> /\ Top \in Frame
  BY TopType DEF ClientParses, InPhase
<1>2. Top.batch \in Seq(ServerMessage) /\ Top.batch # <<>>
  BY <1>1 DEF Frame, ClientParses
<1>3. Received \in ServerMessage /\ Tail(Top.batch) \in Seq(ServerMessage)
  BY <1>2, HeadTailProperties DEF Received
<1> QED
  BY <1>1, <1>3 DEF Consumed, Frame

-----------------------------------------------------------------------------
(* Objects *)

\* Every change the code makes to an object's fields leaves an object.
LEMMA ObjectUpdates ==
    ASSUME NEW o \in ClientObject
    PROVE  /\ \A b \in BOOLEAN : /\ [o EXCEPT !.listed = b] \in ClientObject
                                 /\ [o EXCEPT !.held = b] \in ClientObject
                                 /\ [o EXCEPT !.listening = b] \in ClientObject
                                 /\ [o EXCEPT !.destroyed = b] \in ClientObject
           /\ \A i \in Nat : [o EXCEPT !.id = i] \in ClientObject
           /\ [o EXCEPT !.listed = FALSE, !.destroyed = TRUE] \in ClientObject
           /\ [o EXCEPT !.listed = FALSE, !.held = FALSE, !.listening = FALSE] \in ClientObject
BY DEF ClientObject

\* Collecting orphans keeps the objects and their number.
LEMMA CollectedType ==
    ASSUME ClientTypeOK
    PROVE  /\ Collected \in Seq(ClientObject)
           /\ Len(Collected) = Len(cObjects)
<1> DEFINE n == Len(cObjects)
<1>1. n \in Nat /\ \A q \in 1 .. n : cObjects[q] \in ClientObject
  BY LenProperties, ElementOfSeq DEF ClientTypeOK
<1>2. ASSUME NEW q \in 1 .. n
      PROVE  [cObjects[q] EXCEPT !.listed = @ /\ ~IsOrphan(q)] \in ClientObject
  <2>1. cObjects[q] \in ClientObject
    BY <1>1
  <2>2. (cObjects[q].listed /\ ~IsOrphan(q)) \in BOOLEAN
    OBVIOUS
  <2> QED
    BY <2>1, <2>2, ObjectUpdates
<1>3. Collected \in [1 .. n -> ClientObject]
  BY <1>2 DEF Collected
<1>4. Collected \in Seq(ClientObject)
  BY <1>1, <1>3
<1> QED
  BY <1>1, <1>3, <1>4, LenProperties

\* The destructors collectOrphanedObjects sends are well-formed messages.
LEMMA FarewellsType ==
    ASSUME ClientTypeOK, NEW s \in Farewells
    PROVE  s \in Seq(ClientMessage)
<1> DEFINE n == Len(cObjects)
           K == {q \in 1 .. n : CallsDestructor(q)}
<1>1. n \in Nat /\ \A q \in 1 .. n : cObjects[q] \in ClientObject
  BY LenProperties, ElementOfSeq DEF ClientTypeOK
<1>2. PICK dying \in InOrder(K) : s = [k \in DOMAIN dying |-> FarewellTo(dying[k])]
  BY DEF Farewells
<1>3. /\ Cardinality(K) \in Nat
      /\ DOMAIN dying = 1 .. Cardinality(K)
      /\ \A k \in DOMAIN dying : dying[k] \in 1 .. n
  BY <1>1, InOrderType
<1>4. \A q \in 1 .. n : FarewellTo(q) \in ClientMessage
  BY <1>1, ClientMessages DEF ClientObject, FarewellTo, AllRequests
<1>5. s \in [1 .. Cardinality(K) -> ClientMessage]
  BY <1>2, <1>3, <1>4
<1> QED
  BY <1>3, <1>5, FunctionIsSeq

\* So are the deferred calls that are flushed.
LEMMA FlushedType ==
    ASSUME ClientInv, NEW s \in Flushed
    PROVE  s \in Seq(ClientMessage)
<1> DEFINE n == Len(pendingOutgoing)
           K == {k \in 1 .. n : Resolvable(pendingOutgoing[k])}
           Sending(k) == LET d == pendingOutgoing[k]
                         IN  Generic(cObjects[d.dependsOn].id, d.method, d.seq)
<1>1. n \in Nat /\ \A k \in 1 .. n : pendingOutgoing[k] \in Deferred
  BY LenProperties, ElementOfSeq DEF ClientInv, ClientTypeOK
<1>2. PICK ready \in InOrder(K) : s = [k \in DOMAIN ready |-> Sending(ready[k])]
  BY DEF Flushed, ResolvableDeferrals
<1>3. /\ Cardinality(K) \in Nat
      /\ DOMAIN ready = 1 .. Cardinality(K)
      /\ \A k \in DOMAIN ready : ready[k] \in 1 .. n
  BY <1>1, InOrderType
<1>4. ASSUME NEW k \in 1 .. n
      PROVE  Sending(k) \in ClientMessage
  <2>1. pendingOutgoing[k] \in Deferred
    BY <1>1
  <2>2. pendingOutgoing[k].dependsOn \in 1 .. Len(cObjects)
    BY DEF ClientInv, DeferredInRange
  <2>3. cObjects[pendingOutgoing[k].dependsOn] \in ClientObject
    BY <2>2, ElementOfSeq DEF ClientInv, ClientTypeOK
  <2>4. cObjects[pendingOutgoing[k].dependsOn].id \in Nat
    BY <2>3 DEF ClientObject
  <2> QED
    BY <2>1, <2>4, ClientMessages DEF Deferred
<1>5. s \in [1 .. Cardinality(K) -> ClientMessage]
  <2> HIDE DEF Sending
  <2> QED
    BY <1>2, <1>3, <1>4
<1> QED
  BY <1>3, <1>5, FunctionIsSeq

\* The deferred calls that go on waiting are those that await their object.
LEMMA WaitingType ==
    ASSUME ClientInv, NEW waiting \in InOrder(AwaitingDeferrals),
           NEW s, s = [k \in DOMAIN waiting |-> pendingOutgoing[waiting[k]]]
    PROVE  /\ s \in Seq(Deferred)
           /\ \A k \in 1 .. Len(s) :
                s[k].dependsOn \in 1 .. Len(cObjects) /\ Awaiting(s[k])
           /\ \A j \in AwaitingDeferrals : \E k \in 1 .. Len(s) : s[k] = pendingOutgoing[j]
<1> DEFINE n == Len(pendingOutgoing)
           K == {k \in 1 .. n : Awaiting(pendingOutgoing[k])}
<1>1. n \in Nat /\ \A k \in 1 .. n : pendingOutgoing[k] \in Deferred
  BY LenProperties, ElementOfSeq DEF ClientInv, ClientTypeOK
<1>2. waiting \in InOrder(K) /\ K \in SUBSET (1 .. n)
  BY DEF AwaitingDeferrals
<1>3. /\ Cardinality(K) \in Nat
      /\ DOMAIN waiting = 1 .. Cardinality(K)
      /\ \A k \in DOMAIN waiting : waiting[k] \in 1 .. n /\ waiting[k] \in K
  BY <1>1, <1>2, InOrderType
<1>4. s \in [1 .. Cardinality(K) -> Deferred]
  BY <1>1, <1>3
<1> HIDE DEF K
<1>5. s \in Seq(Deferred) /\ Len(s) = Cardinality(K)
  BY <1>3, <1>4, FunctionIsSeq
<1>6. ASSUME NEW k \in 1 .. Len(s)
      PROVE  s[k].dependsOn \in 1 .. Len(cObjects) /\ Awaiting(s[k])
  <2>1. k \in DOMAIN waiting /\ waiting[k] \in 1 .. n /\ waiting[k] \in K
    BY <1>3, <1>5
  <2>2. s[k] = pendingOutgoing[waiting[k]]
    BY <2>1
  <2>3. Awaiting(pendingOutgoing[waiting[k]])
    BY <2>1 DEF K
  <2> QED
    BY <2>1, <2>2, <2>3 DEF ClientInv, DeferredInRange
<1>7. ASSUME NEW j \in AwaitingDeferrals
      PROVE  \E k \in 1 .. Len(s) : s[k] = pendingOutgoing[j]
  <2>1. j \in K
    BY DEF AwaitingDeferrals, K
  <2>2. PICK k \in DOMAIN waiting : waiting[k] = j
    BY <1>1, <1>2, <2>1, InOrderSurjective
  <2> QED
    BY <1>3, <1>5, <2>2
<1> QED
  BY <1>5, <1>6, <1>7

\* Replacing one object, or none when the index is out of range, keeps the
\* objects and their number.
LEMMA UpdateType ==
    ASSUME ClientTypeOK, NEW q, NEW o, q \in 1 .. Len(cObjects) => o \in ClientObject
    PROVE  /\ [cObjects EXCEPT ![q] = o] \in Seq(ClientObject)
           /\ Len([cObjects EXCEPT ![q] = o]) = Len(cObjects)
<1> DEFINE n == Len(cObjects)
<1>1. n \in Nat /\ cObjects \in [1 .. n -> ClientObject]
  BY LenProperties DEF ClientTypeOK
<1>2. [cObjects EXCEPT ![q] = o] \in [1 .. n -> ClientObject]
  BY <1>1
<1> QED
  BY <1>1, <1>2, FunctionIsSeq

\* destroyObject keeps the objects and their number.
LEMMA DestroyedType ==
    ASSUME ClientTypeOK, NEW q
    PROVE  /\ Destroyed(q) \in Seq(ClientObject)
           /\ Len(Destroyed(q)) = Len(cObjects)
<1>1. q \in 1 .. Len(cObjects) =>
        [cObjects[q] EXCEPT !.listed = FALSE, !.destroyed = TRUE] \in ClientObject
  BY ElementOfSeq, ObjectUpdates DEF ClientTypeOK
<1> QED
  BY <1>1, UpdateType DEF Destroyed

-----------------------------------------------------------------------------
\* No step of the client's side changes a flag to anything but a Boolean.
LEMMA ClientStepFlags ==
    ASSUME ClientFlagsOK, ClientSteps
    PROVE  ClientFlagsOK'
<1> USE DEF ClientFlagsOK, wireVars
<1>1. CASE ClientCallReturns
  BY <1>1, Zenon DEF ClientCallReturns, Disconnect
<1>2. CASE ClientBeginsDispatch
  BY <1>2, Zenon DEF ClientBeginsDispatch, Disconnect
<1>3. CASE ClientTimesOut
  BY <1>3, Zenon DEF ClientTimesOut, Disconnect
<1>4. CASE ClientFindsNothing
  BY <1>4, Zenon DEF ClientFindsNothing, Disconnect
<1>5. CASE ClientReads
  BY <1>5, Zenon DEF ClientReads, Disconnect
<1>6. CASE ClientReadsEnd
  BY <1>6, Zenon DEF ClientReadsEnd, Disconnect
<1>7. CASE ClientHandlesBegin
  BY <1>7, Zenon DEF ClientHandlesBegin, Disconnect
<1>8. CASE ClientHandlesProtocols
  BY <1>8, Zenon DEF ClientHandlesProtocols, Disconnect
<1>9. CASE ClientHandlesNewObject
  BY <1>9, Zenon DEF ClientHandlesNewObject, Disconnect
<1>10. CASE ClientHandlesUnknown
  BY <1>10, Zenon DEF ClientHandlesUnknown, Disconnect
<1>11. CASE ClientDropsEvent
  BY <1>11, Zenon DEF ClientDropsEvent, Disconnect
<1>12. CASE ClientCalled
  BY <1>12, Zenon DEF ClientCalled, Disconnect
<1>13. CASE ClientHandlesFatal
  BY <1>13, Zenon DEF ClientHandlesFatal, Disconnect
<1>14. CASE ClientHandlesDone
  BY <1>14, Zenon DEF ClientHandlesDone, Disconnect
<1>15. CASE ClientRejects
  BY <1>15, Zenon DEF ClientRejects, Disconnect
<1>16. CASE ClientListenerReturns
  BY <1>16, Zenon DEF ClientListenerReturns, Disconnect
<1>17. CASE ClientFinishesBatch
  BY <1>17, Zenon DEF ClientFinishesBatch, Disconnect
<1>18. CASE ClientWaitsForHandshake
  BY <1>18, Zenon DEF ClientWaitsForHandshake, Disconnect
<1>19. CASE ClientDispatches
  BY <1>19, Zenon DEF ClientDispatches, Disconnect
<1>20. CASE \E p \in Protocols, v \in 1 .. 2 : ClientBinds(p, v)
  BY <1>20, Zenon DEF ClientBinds, Disconnect
<1>21. CASE \E p \in Protocols, v \in 1 .. 2 : ClientBindsTooNew(p, v)
  BY <1>21, Zenon DEF ClientBindsTooNew, Disconnect
<1>22. CASE \E q \in 1 .. Len(cObjects), m \in Requests, takes \in BOOLEAN : ClientCalls(q, m, takes)
  BY <1>22, Zenon DEF ClientCalls, Disconnect
<1>23. CASE \E q \in 1 .. Len(cObjects) : ClientLetsGo(q)
  BY <1>23, Zenon DEF ClientLetsGo, Disconnect
<1>24. CASE ClientRoundtrips
  BY <1>24, Zenon DEF ClientRoundtrips, Disconnect
<1>25. CASE ClientCloses
  BY <1>25, Zenon DEF ClientCloses, Disconnect
<1> QED
  BY <1>1, <1>2, <1>3, <1>4, <1>5, <1>6, <1>7, <1>8, <1>9, <1>10, <1>11, <1>12, <1>13, <1>14, <1>15, <1>16, <1>17, <1>18, <1>19, <1>20, <1>21, <1>22, <1>23, <1>24, <1>25, Zenon
     DEF ClientSteps, ClientRuns, ClientHandles, ClientActs

\* No step of the client's side takes the rest of its state, or the socket's
\* queues, out of their types, and deferred calls keep their objects.
LEMMA ClientStepData ==
    ASSUME WireTypeOK, ClientInv, ClientSteps
    PROVE  ClientDataOK' /\ DeferredInRange'
<1> /\ ClientTypeOK
    /\ ClientDataOK
    /\ DeferredInRange
    /\ Len(cObjects) \in Nat
    /\ Len(pendingOutgoing) \in Nat
  BY ClientTypeOKParts, LenProperties DEF ClientInv, ClientTypeOK
<1> USE DEF ClientDataOK, DeferredInRange, wireVars
<1>1. CASE ClientCallReturns
  <2>1. stack' \in Seq(Frame)
    BY <1>1, TopType DEF ClientCallReturns, InPhase, Pop
  <2>2. Top.arg \in 1 .. Len(cObjects) => [cObjects[Top.arg] EXCEPT !.listening = TRUE] \in ClientObject
    BY ElementOfSeq, ObjectUpdates
  <2>3. /\ cObjects' \in Seq(ClientObject)
        /\ Len(cObjects') = Len(cObjects)
    BY <1>1, <2>2, UpdateType DEF ClientCallReturns
  <2> QED
    BY <1>1, <2>1, <2>3 DEF ClientCallReturns
<1>2. CASE ClientBeginsDispatch
  <2>1. c2s' \in Seq(ClientMessage)
    BY <1>2, FarewellsType, ClientSendsType DEF ClientBeginsDispatch
  <2>2. /\ cObjects' \in Seq(ClientObject)
        /\ Len(cObjects') = Len(cObjects)
    BY <1>2, CollectedType DEF ClientBeginsDispatch
  <2>3. [Top EXCEPT !.phase = "poll"] \in Frame
    BY <1>2, TopType DEF ClientBeginsDispatch, InPhase, Frame, Phases
  <2>4. stack' \in Seq(Frame)
    BY <1>2, <2>3, SetTopType DEF ClientBeginsDispatch, InPhase
  <2> QED
    BY <1>2, <2>1, <2>2, <2>4 DEF ClientBeginsDispatch
<1>3. CASE ClientTimesOut
  <2>1. stack' \in Seq(Frame)
    BY <1>3, DispatchReturnsType DEF ClientTimesOut, InPhase
  <2> QED
    BY <1>3, <2>1 DEF ClientTimesOut, Disconnect
<1>4. CASE ClientFindsNothing
  <2>1. stack' \in Seq(Frame)
    BY <1>4, DispatchReturnsType DEF ClientFindsNothing, InPhase
  <2> QED
    BY <1>4, <2>1 DEF ClientFindsNothing, Disconnect
<1>5. CASE ClientReads
  <2>1. PICK n \in ReadLengths(s2c) :
           /\ SetTop([Top EXCEPT !.phase = "parse", !.batch = SubSeq(s2c, 1, n)])
           /\ s2c' = SubSeq(s2c, n + 1, Len(s2c))
    BY <1>5 DEF ClientReads
  <2>2. SubSeq(s2c, 1, n) \in Seq(ServerMessage) /\ s2c' \in Seq(ServerMessage)
    BY <2>1, ReadSplitsQueue
  <2>3. [Top EXCEPT !.phase = "parse", !.batch = SubSeq(s2c, 1, n)] \in Frame
    BY <1>5, <2>2, TopType DEF ClientReads, InPhase, Frame, Phases
  <2>4. stack' \in Seq(Frame)
    BY <1>5, <2>1, <2>3, SetTopType DEF ClientReads, InPhase
  <2> QED
    BY <1>5, <2>2, <2>4 DEF ClientReads
<1>6. CASE ClientReadsEnd
  <2>1. stack' \in Seq(Frame)
    BY <1>6, DispatchReturnsType DEF ClientReadsEnd, InPhase
  <2> QED
    BY <1>6, <2>1 DEF ClientReadsEnd, Disconnect
<1>7. CASE ClientHandlesBegin
  <2>1. Received \in ServerMessage /\ Consumed \in Frame /\ stack # <<>>
    BY <1>7, ReceivedType DEF ClientHandlesBegin
  <2>2. stack' \in Seq(Frame)
    BY <1>7, <2>1, SetTopType, DispatchReturnsType DEF ClientHandlesBegin
  <2>3. HandshakeAck(HYPRWIRE_PROTOCOL_VER) \in ClientMessage
    BY ClientMessages DEF HYPRWIRE_PROTOCOL_VER
  <2>4. c2s' \in Seq(ClientMessage)
    BY <1>7, <2>3, ClientSendsOneType DEF ClientHandlesBegin
  <2> QED
    BY <1>7, <2>2, <2>4 DEF ClientHandlesBegin
<1>8. CASE ClientHandlesProtocols
  <2>1. Received \in ServerMessage /\ Consumed \in Frame /\ stack # <<>>
    BY <1>8, ReceivedType DEF ClientHandlesProtocols
  <2>2. stack' \in Seq(Frame)
    BY <1>8, <2>1, SetTopType DEF ClientHandlesProtocols
  <2>3. Received.protocols \subseteq Protocols
    BY <1>8, <2>1 DEF ClientHandlesProtocols, ClientParses, ServerMessage, Invalid
  <2> QED
    BY <1>8, <2>2, <2>3 DEF ClientHandlesProtocols
<1>9. CASE ClientHandlesNewObject
  <2>1. Received \in ServerMessage /\ Consumed \in Frame /\ stack # <<>>
    BY <1>9, ReceivedType DEF ClientHandlesNewObject
  <2>2. stack' \in Seq(Frame)
    BY <1>9, <2>1, SetTopType DEF ClientHandlesNewObject
  <2>3. Received.id \in Nat
    BY <1>9, <2>1 DEF ClientHandlesNewObject, ClientParses, ServerMessage, Invalid
  <2>4. Received.seq \in 1 .. Len(cObjects) => [cObjects[Received.seq] EXCEPT !.id = Received.id] \in ClientObject
    BY <2>3, ElementOfSeq, ObjectUpdates
  <2>5. /\ cObjects' \in Seq(ClientObject)
        /\ Len(cObjects') = Len(cObjects)
    BY <1>9, <2>4, UpdateType DEF ClientHandlesNewObject
  <2> QED
    BY <1>9, <2>2, <2>5 DEF ClientHandlesNewObject
<1>10. CASE ClientHandlesUnknown
  <2>1. Received \in ServerMessage /\ Consumed \in Frame /\ stack # <<>>
    BY <1>10, ReceivedType DEF ClientHandlesUnknown
  <2>2. stack' \in Seq(Frame)
    BY <1>10, <2>1, SetTopType DEF ClientHandlesUnknown
  <2> QED
    BY <1>10, <2>2 DEF ClientHandlesUnknown, Disconnect
<1>11. CASE ClientDropsEvent
  <2>1. Received \in ServerMessage /\ Consumed \in Frame /\ stack # <<>>
    BY <1>11, ReceivedType DEF ClientDropsEvent
  <2>2. stack' \in Seq(Frame)
    BY <1>11, <2>1, SetTopType DEF ClientDropsEvent
  <2>3. PICK r \in Addressees :
           cObjects' = IF ~cObjects[r].listening /\ IsDestructor(Received.method)
                         THEN Destroyed(r) ELSE cObjects
    BY <1>11 DEF ClientDropsEvent
  <2>4. /\ cObjects' \in Seq(ClientObject)
        /\ Len(cObjects') = Len(cObjects)
    BY <2>3, DestroyedType
  <2> QED
    BY <1>11, <2>2, <2>4 DEF ClientDropsEvent
<1>12. CASE ClientCalled
  <2>1. Received \in ServerMessage /\ Consumed \in Frame /\ stack # <<>>
    BY <1>12, ReceivedType DEF ClientCalled
  <2>2. PICK r \in Addressees :
           SetTop([Consumed EXCEPT !.phase = "call",
                                   !.called = [seq |-> r, method |-> Received.method]])
    BY <1>12 DEF ClientCalled
  <2>3. r \in Nat /\ Received.method \in AllEvents
    BY <1>12, <2>1 DEF ClientCalled, ClientParses, Addressees, ServerMessage, Invalid
  <2>4. [Consumed EXCEPT !.phase = "call",
                         !.called = [seq |-> r, method |-> Received.method]] \in Frame
    BY <2>1, <2>3 DEF Frame, Phases
  <2>5. stack' \in Seq(Frame)
    BY <2>1, <2>2, <2>4, SetTopType
  <2> QED
    BY <1>12, <2>5 DEF ClientCalled
<1>13. CASE ClientHandlesFatal
  <2>1. Received \in ServerMessage /\ Consumed \in Frame /\ stack # <<>>
    BY <1>13, ReceivedType DEF ClientHandlesFatal
  <2>2. stack' \in Seq(Frame)
    BY <1>13, <2>1, SetTopType DEF ClientHandlesFatal
  <2> QED
    BY <1>13, <2>2 DEF ClientHandlesFatal, Disconnect
<1>14. CASE ClientHandlesDone
  <2>1. Received \in ServerMessage /\ Consumed \in Frame /\ stack # <<>>
    BY <1>14, ReceivedType DEF ClientHandlesDone
  <2>2. stack' \in Seq(Frame)
    BY <1>14, <2>1, SetTopType DEF ClientHandlesDone
  <2>3. Received.seq \in Nat
    BY <1>14, <2>1 DEF ClientHandlesDone, ClientParses, ServerMessage, Invalid
  <2> QED
    BY <1>14, <2>2, <2>3 DEF ClientHandlesDone
<1>15. CASE ClientRejects
  <2>1. stack' \in Seq(Frame)
    BY <1>15, DispatchReturnsType DEF ClientRejects, InPhase, ClientParses
  <2> QED
    BY <1>15, <2>1 DEF ClientRejects, Disconnect
<1>16. CASE ClientListenerReturns
  <2>1. [Top EXCEPT !.phase = "parse", !.called = Idle] \in Frame
    BY <1>16, TopType DEF ClientListenerReturns, InPhase, Frame, Phases, Idle
  <2>2. stack' \in Seq(Frame)
    BY <1>16, <2>1, SetTopType DEF ClientListenerReturns, InPhase
  <2>3. /\ cObjects' \in Seq(ClientObject)
        /\ Len(cObjects') = Len(cObjects)
    BY <1>16, DestroyedType DEF ClientListenerReturns
  <2> QED
    BY <1>16, <2>2, <2>3 DEF ClientListenerReturns
<1>17. CASE ClientFinishesBatch
  <2>1. PICK flushed \in Flushed, farewells \in Farewells : ClientSends(flushed \o farewells)
    BY <1>17 DEF ClientFinishesBatch
  <2>2. flushed \o farewells \in Seq(ClientMessage)
    BY FlushedType, FarewellsType, ConcatProperties
  <2>3. c2s' \in Seq(ClientMessage)
    BY <2>1, <2>2, ClientSendsType
  <2>4. /\ pendingOutgoing' \in Seq(Deferred)
        /\ \A k \in 1 .. Len(pendingOutgoing') : pendingOutgoing'[k].dependsOn \in 1 .. Len(cObjects)
    BY <1>17, WaitingType DEF ClientFinishesBatch
  <2>5. /\ cObjects' \in Seq(ClientObject)
        /\ Len(cObjects') = Len(cObjects)
    BY <1>17, CollectedType DEF ClientFinishesBatch
  <2>6. stack' \in Seq(Frame)
    BY <1>17, DispatchReturnsType DEF ClientFinishesBatch, InPhase
  <2> QED
    BY <1>17, <2>3, <2>4, <2>5, <2>6 DEF ClientFinishesBatch
<1>18. CASE ClientWaitsForHandshake
  <2>1. stack' \in Seq(Frame)
    BY <1>18, NewFrameType, PushType DEF ClientWaitsForHandshake, Waits
  <2> QED
    BY <1>18, <2>1 DEF ClientWaitsForHandshake
<1>19. CASE ClientDispatches
  <2>1. stack' \in Seq(Frame)
    BY <1>19, NewFrameType, PushType, ClientAssumption DEF ClientDispatches, Waits
  <2> QED
    BY <1>19, <2>1 DEF ClientDispatches
<1>20. CASE \E p \in Protocols, v \in 1 .. 2 : ClientBinds(p, v)
  <2>1. PICK p \in Protocols, v \in 1 .. 2 : ClientBinds(p, v)
    BY <1>20
  <2>3. NewClientObject(p, v, TRUE) \in ClientObject
    BY DEF NewClientObject, ClientObject
  <2>4. /\ cObjects' \in Seq(ClientObject)
        /\ Len(cObjects') = Len(cObjects) + 1
    BY <2>1, <2>3, AppendProperties DEF ClientBinds
  <2>5. c2s' \in Seq(ClientMessage)
    BY <2>1, ClientMessages, ClientSendsOneType DEF ClientBinds
  <2>6. stack' \in Seq(Frame)
    BY <2>1, NewFrameType, PushType DEF ClientBinds, Waits
  <2>7. \A k \in 1 .. Len(pendingOutgoing) : pendingOutgoing[k].dependsOn \in 1 .. Len(cObjects')
    BY <2>4
  <2> QED
    BY <2>1, <2>4, <2>5, <2>6, <2>7 DEF ClientBinds
<1>21. CASE \E p \in Protocols, v \in 1 .. 2 : ClientBindsTooNew(p, v)
  BY <1>21 DEF ClientBindsTooNew, Disconnect
<1>22. CASE \E q \in 1 .. Len(cObjects), m \in Requests, takes \in BOOLEAN : ClientCalls(q, m, takes)
  <2>1. PICK q \in 1 .. Len(cObjects), m \in Requests, takes \in BOOLEAN : ClientCalls(q, m, takes)
    BY <1>22
  <2> DEFINE returnSeq == IF Creates(m) THEN Len(cObjects) + 1 ELSE 0
             after == IF IsDestructor(m) THEN [cObjects EXCEPT ![q].destroyed = TRUE] ELSE cObjects
             made == [NewClientObject(cObjects[q].protocol, 0, takes) EXCEPT !.listening = takes]
             deferred == [dependsOn |-> q, method |-> m, seq |-> returnSeq]
  <2>2. cObjects[q] \in ClientObject /\ m \in AllRequests /\ returnSeq \in Nat
    BY ElementOfSeq, MethodsAssumption
  <2>3. [cObjects[q] EXCEPT !.destroyed = TRUE] \in ClientObject
    BY <2>2, ObjectUpdates
  <2>4. after \in Seq(ClientObject) /\ Len(after) = Len(cObjects)
    BY <2>3, UpdateType
  <2>5. made \in ClientObject
    BY <2>2 DEF NewClientObject, ClientObject
  <2>6. cObjects' = IF Creates(m) THEN Append(after, made) ELSE after
    BY <2>1 DEF ClientCalls
  <2> HIDE DEF after, made
  <2>7. /\ cObjects' \in Seq(ClientObject)
        /\ Len(cObjects') \in {Len(cObjects), Len(cObjects) + 1}
    <3>1. CASE Creates(m)
      BY <2>4, <2>5, <2>6, <3>1, AppendProperties
    <3>2. CASE ~Creates(m)
      BY <2>4, <2>6, <3>2
    <3> QED
      BY <3>1, <3>2
  <2>8. deferred \in Deferred
    BY <2>2 DEF Deferred
  <2>9. \/ /\ pendingOutgoing' = Append(pendingOutgoing, deferred)
           /\ UNCHANGED c2s
        \/ /\ ClientSends(<<Generic(cObjects[q].id, m, returnSeq)>>)
           /\ UNCHANGED pendingOutgoing
    BY <2>1 DEF ClientCalls
  <2>10. Generic(cObjects[q].id, m, returnSeq) \in ClientMessage
    BY <2>2, ClientMessages DEF ClientObject
  <2>11. c2s' \in Seq(ClientMessage)
    BY <2>9, <2>10, ClientSendsOneType
  <2>12. /\ pendingOutgoing' \in Seq(Deferred)
         /\ \A k \in 1 .. Len(pendingOutgoing') : pendingOutgoing'[k].dependsOn \in 1 .. Len(cObjects)
    <3>1. CASE pendingOutgoing' = Append(pendingOutgoing, deferred)
      BY <2>8, <3>1, AppendProperties
    <3>2. CASE UNCHANGED pendingOutgoing
      BY <3>2
    <3> QED
      BY <2>9, <3>1, <3>2
  <2>13. \A k \in 1 .. Len(pendingOutgoing') : pendingOutgoing'[k].dependsOn \in 1 .. Len(cObjects')
    BY <2>7, <2>12
  <2> QED
    BY <2>1, <2>7, <2>11, <2>12, <2>13 DEF ClientCalls
<1>23. CASE \E q \in 1 .. Len(cObjects) : ClientLetsGo(q)
  <2>1. PICK q \in 1 .. Len(cObjects) : ClientLetsGo(q)
    BY <1>23
  <2>2. [cObjects[q] EXCEPT !.held = FALSE] \in ClientObject
    BY ElementOfSeq, ObjectUpdates
  <2>3. /\ cObjects' \in Seq(ClientObject)
        /\ Len(cObjects') = Len(cObjects)
    BY <2>1, <2>2, UpdateType DEF ClientLetsGo
  <2> QED
    BY <2>1, <2>3 DEF ClientLetsGo
<1>24. CASE ClientRoundtrips
  <2>1. lastSent' \in Nat
    BY <1>24 DEF ClientRoundtrips
  <2>2. c2s' \in Seq(ClientMessage)
    BY <1>24, <2>1, ClientMessages, ClientSendsOneType DEF ClientRoundtrips
  <2>3. stack' \in Seq(Frame)
    BY <1>24, <2>1, NewFrameType, PushType DEF ClientRoundtrips, Waits
  <2> QED
    BY <1>24, <2>1, <2>2, <2>3 DEF ClientRoundtrips
<1>25. CASE ClientCloses
  <2>1. ASSUME NEW q \in 1 .. Len(cObjects)
        PROVE  [cObjects[q] EXCEPT !.listed = FALSE, !.held = FALSE, !.listening = FALSE] \in ClientObject
    BY ElementOfSeq, ObjectUpdates
  <2>2. cObjects' \in [1 .. Len(cObjects) -> ClientObject]
    BY <1>25, <2>1 DEF ClientCloses
  <2>3. /\ cObjects' \in Seq(ClientObject)
        /\ Len(cObjects') = Len(cObjects)
    BY <2>2, FunctionIsSeq
  <2>4. pendingOutgoing' \in Seq(Deferred) /\ Len(pendingOutgoing') = 0
    BY <1>25, EmptySeq DEF ClientCloses
  <2>5. DeferredInRange'
    BY <2>4
  <2> QED
    BY <1>25, <2>3, <2>4, <2>5 DEF ClientCloses
<1> QED
  BY <1>1, <1>2, <1>3, <1>4, <1>5, <1>6, <1>7, <1>8, <1>9, <1>10, <1>11, <1>12, <1>13, <1>14, <1>15, <1>16, <1>17, <1>18, <1>19, <1>20, <1>21, <1>22, <1>23, <1>24, <1>25, Zenon
     DEF ClientSteps, ClientRuns, ClientHandles, ClientActs

\* Every step of the client's side keeps the types of its state and of the
\* socket, and an object for every deferred call.
THEOREM ClientStepType ==
    ASSUME WireTypeOK, ClientInv, ClientSteps
    PROVE  WireTypeOK' /\ ClientInv'
<1>1. ClientFlagsOK'
  BY ClientStepFlags, ClientTypeOKParts DEF ClientInv
<1>2. ClientDataOK' /\ DeferredInRange'
  BY ClientStepData
<1> QED
  BY <1>1, <1>2 DEF WireTypeOK, ClientInv, ClientTypeOK, ClientFlagsOK, ClientDataOK

-----------------------------------------------------------------------------
(* What a step of the client's may take from the wire and put on it.  The  *)
(* invariants of a connection are proved from these lemmas, not from the   *)
(* actions.                                                                *)

\* The messages in the batches of the calls in progress, those of the
\* innermost left out, and all the messages on their way to the client.
Outer   == UNION {Range(stack[f].batch) : f \in 2 .. Len(stack)}
Batches == UNION {Range(stack[f].batch) : f \in 1 .. Len(stack)}
Coming  == Range(s2c) \cup Batches

\* Where the calls in progress are found after the innermost is changed, ended
\* or put around another.
LEMMA StackSteps ==
    ASSUME ClientTypeOK
    PROVE  /\ Len(stack) \in Nat
           /\ stack # <<>> => Len(stack) > 0 /\ Top = stack[1]
           /\ stack # <<>> /\ Pop =>
                /\ Len(stack') = Len(stack) - 1
                /\ \A k \in 1 .. Len(stack') : k + 1 \in 2 .. Len(stack) /\ stack'[k] = stack[k + 1]
           /\ \A f \in Frame :
                /\ stack # <<>> /\ SetTop(f) =>
                     /\ Len(stack') = Len(stack)
                     /\ stack'[1] = f
                     /\ \A k \in 2 .. Len(stack) : stack'[k] = stack[k]
                /\ Push(f) =>
                     /\ Len(stack') = Len(stack) + 1
                     /\ stack'[1] = f
                     /\ \A k \in 2 .. Len(stack') :
                          k - 1 \in 1 .. Len(stack) /\ stack'[k] = stack[k - 1]
<1>1. Len(stack) \in Nat /\ stack \in Seq(Frame)
  BY LenProperties DEF ClientTypeOK
<1>2. ASSUME stack # <<>>
      PROVE  Len(stack) > 0 /\ Top = stack[1]
  BY <1>1, <1>2, EmptySeq, HeadTailProperties DEF Top
<1>3. ASSUME stack # <<>>, Pop
      PROVE  /\ Len(stack') = Len(stack) - 1
             /\ \A k \in 1 .. Len(stack') : k + 1 \in 2 .. Len(stack) /\ stack'[k] = stack[k + 1]
  <2>1. /\ Len(stack') = Len(stack) - 1
        /\ \A k \in 1 .. Len(stack') : stack'[k] = stack[k + 1]
    BY <1>1, <1>3, HeadTailProperties DEF Pop
  <2>2. \A k \in 1 .. Len(stack') : k + 1 \in 2 .. Len(stack)
    BY <1>1, <2>1
  <2> QED
    BY <2>1, <2>2
<1>4. ASSUME NEW f \in Frame, stack # <<>>, SetTop(f)
      PROVE  /\ Len(stack') = Len(stack)
             /\ stack'[1] = f
             /\ \A k \in 2 .. Len(stack) : stack'[k] = stack[k]
  <2>1. /\ Tail(stack) \in Seq(Frame)
        /\ Len(Tail(stack)) = Len(stack) - 1
        /\ Len(stack) > 0
        /\ \A k \in 1 .. Len(Tail(stack)) : Tail(stack)[k] = stack[k + 1]
    BY <1>1, <1>4, HeadTailProperties, EmptySeq
  <2>2. <<f>> \in Seq(Frame) /\ Len(<<f>>) = 1 /\ <<f>>[1] = f
    OBVIOUS
  <2>3. stack' = <<f>> \o Tail(stack)
    BY <1>4 DEF SetTop
  <2>4. Len(stack') = Len(stack) /\ stack'[1] = f
    BY <1>1, <2>1, <2>2, <2>3, ConcatProperties
  <2>5. ASSUME NEW k \in 2 .. Len(stack)
        PROVE  stack'[k] = stack[k]
    <3>1. k \in 1 .. Len(stack) /\ k > 1 /\ k - 1 \in 1 .. Len(Tail(stack)) /\ (k - 1) + 1 = k
      BY <1>1, <2>1
    <3>2. stack'[k] = Tail(stack)[k - 1]
      BY <1>1, <2>1, <2>2, <2>3, <3>1, ConcatProperties
    <3> QED
      BY <2>1, <3>1, <3>2
  <2> QED
    BY <2>4, <2>5
<1>5. ASSUME NEW f \in Frame, Push(f)
      PROVE  /\ Len(stack') = Len(stack) + 1
             /\ stack'[1] = f
             /\ \A k \in 2 .. Len(stack') :
                  k - 1 \in 1 .. Len(stack) /\ stack'[k] = stack[k - 1]
  <2>1. <<f>> \in Seq(Frame) /\ Len(<<f>>) = 1 /\ <<f>>[1] = f
    OBVIOUS
  <2>2. Len(stack') = Len(stack) + 1 /\ stack'[1] = f
    BY <1>1, <1>5, <2>1, ConcatProperties DEF Push
  <2>3. ASSUME NEW k \in 2 .. Len(stack')
        PROVE  k - 1 \in 1 .. Len(stack) /\ stack'[k] = stack[k - 1]
    <3>1. k - 1 \in 1 .. Len(stack) /\ k \in 1 .. Len(stack) + 1 /\ k > 1
      BY <1>1, <2>2
    <3> QED
      BY <1>1, <1>5, <2>1, <3>1, ConcatProperties DEF Push
  <2> QED
    BY <2>2, <2>3
<1> QED
  BY <1>1, <1>2, <1>3, <1>4, <1>5

\* What the batches hold after such a step.
LEMMA StackBatches ==
    ASSUME ClientTypeOK
    PROVE  /\ stack # <<>> => Batches = Range(Top.batch) \cup Outer
           /\ stack # <<>> /\ Pop => Batches' = Outer
           /\ \A f \in Frame : /\ stack # <<>> /\ SetTop(f) => Batches' = Range(f.batch) \cup Outer
                               /\ Push(f) => Batches' = Range(f.batch) \cup Batches
<1>1. Len(stack) \in Nat
  BY StackSteps
<1>2. ASSUME stack # <<>>
      PROVE  Batches = Range(Top.batch) \cup Outer
  <2>1. 1 .. Len(stack) = {1} \cup 2 .. Len(stack) /\ Top = stack[1]
    BY <1>2, StackSteps
  <2> QED
    BY <2>1 DEF Batches, Outer
<1>3. ASSUME stack # <<>>, Pop
      PROVE  Batches' = Outer
  <2>1. /\ Len(stack') = Len(stack) - 1
        /\ \A k \in 1 .. Len(stack') : k + 1 \in 2 .. Len(stack) /\ stack'[k] = stack[k + 1]
    BY <1>3, StackSteps
  <2>2. ASSUME NEW k \in 2 .. Len(stack)
        PROVE  k - 1 \in 1 .. Len(stack') /\ stack'[k - 1] = stack[k]
    <3>1. k - 1 \in 1 .. Len(stack') /\ (k - 1) + 1 = k
      BY <1>1, <2>1
    <3> QED
      BY <2>1, <3>1
  <2>3. Batches' \subseteq Outer
    BY <2>1 DEF Batches, Outer
  <2>4. Outer \subseteq Batches'
    BY <2>2 DEF Batches, Outer
  <2> QED
    BY <2>3, <2>4
<1>4. ASSUME NEW f \in Frame, stack # <<>>, SetTop(f)
      PROVE  Batches' = Range(f.batch) \cup Outer
  <2>1. /\ Len(stack') = Len(stack)
        /\ Len(stack) > 0
        /\ stack'[1] = f
        /\ \A k \in 2 .. Len(stack) : stack'[k] = stack[k]
    BY <1>4, StackSteps
  <2>2. 1 .. Len(stack') = {1} \cup 2 .. Len(stack)
    BY <1>1, <2>1
  <2> QED
    BY <2>1, <2>2 DEF Batches, Outer
<1>5. ASSUME NEW f \in Frame, Push(f)
      PROVE  Batches' = Range(f.batch) \cup Batches
  <2>1. /\ Len(stack') = Len(stack) + 1
        /\ stack'[1] = f
        /\ \A k \in 2 .. Len(stack') : k - 1 \in 1 .. Len(stack) /\ stack'[k] = stack[k - 1]
    BY <1>5, StackSteps
  <2>2. 1 .. Len(stack') = {1} \cup 2 .. Len(stack')
    BY <1>1, <2>1
  <2>3. ASSUME NEW k \in 1 .. Len(stack)
        PROVE  k + 1 \in 2 .. Len(stack') /\ stack'[k + 1] = stack[k]
    <3>1. k + 1 \in 2 .. Len(stack') /\ (k + 1) - 1 = k
      BY <1>1, <2>1
    <3> QED
      BY <2>1, <3>1
  <2>4. Batches' \subseteq Range(f.batch) \cup Batches
    BY <2>1, <2>2 DEF Batches
  <2>5. Batches \subseteq Batches'
    BY <2>2, <2>3 DEF Batches
  <2>6. Range(f.batch) \subseteq Batches'
    BY <2>1, <2>2 DEF Batches
  <2> QED
    BY <2>4, <2>5, <2>6
<1> QED
  BY <1>2, <1>3, <1>4, <1>5

\* When dispatchEvents returns, what was left of its batch is gone.
LEMMA DispatchReturnsBatches ==
    ASSUME ClientTypeOK, stack # <<>>, NEW ok, DispatchReturns(ok)
    PROVE  Batches' = Outer
<1>1. [Top EXCEPT !.phase = "loop", !.batch = <<>>] \in Frame
  BY TopType, EmptySeq DEF Frame, Phases
<1>2. [Top EXCEPT !.phase = "loop", !.batch = <<>>].batch = <<>>
  BY TopType DEF Frame
<1>3. CASE SetTop([Top EXCEPT !.phase = "loop", !.batch = <<>>])
  BY <1>1, <1>2, <1>3, StackBatches, RangeOfShort
<1>4. CASE Pop
  BY <1>4, StackBatches
<1> QED
  BY <1>3, <1>4 DEF DispatchReturns

\* Only a dispatch that handles messages has a batch.
BatchesWhenParsing ==
    \A f \in 1 .. Len(stack) : stack[f].phase \in {"loop", "poll"} => stack[f].batch = <<>>

\* The library keeps it so.
LEMMA BatchesWhenParsingStep ==
    ASSUME ClientInv, WireTypeOK, BatchesWhenParsing, ClientSteps
    PROVE  BatchesWhenParsing'
<1> ClientTypeOK
  BY DEF ClientInv
<1> DEFINE Calm(f) == f.phase \in {"loop", "poll"} => f.batch = <<>>
<1>1. ASSUME NEW f \in Frame, stack # <<>>, SetTop(f), Calm(f)
      PROVE  BatchesWhenParsing'
  <2>1. /\ Len(stack') = Len(stack)
        /\ stack'[1] = f
        /\ \A k \in 2 .. Len(stack) : stack'[k] = stack[k]
        /\ Len(stack) \in Nat
    BY <1>1, StackSteps
  <2>2. \A k \in 1 .. Len(stack') : k = 1 \/ k \in 2 .. Len(stack)
    BY <2>1
  <2>3. \A k \in 2 .. Len(stack) : k \in 1 .. Len(stack)
    BY <2>1
  <2> QED
    BY <1>1, <2>1, <2>2, <2>3 DEF BatchesWhenParsing
<1>2. ASSUME stack # <<>>, Pop
      PROVE  BatchesWhenParsing'
  <2>1. /\ \A k \in 1 .. Len(stack') : k + 1 \in 2 .. Len(stack) /\ stack'[k] = stack[k + 1]
        /\ \A k \in 2 .. Len(stack) : k \in 1 .. Len(stack)
    BY <1>2, StackSteps
  <2> QED
    BY <2>1 DEF BatchesWhenParsing
<1>3. ASSUME NEW f \in Frame, Push(f), Calm(f)
      PROVE  BatchesWhenParsing'
  <2>1. /\ stack'[1] = f
        /\ \A k \in 2 .. Len(stack') : k - 1 \in 1 .. Len(stack) /\ stack'[k] = stack[k - 1]
        /\ \A k \in 1 .. Len(stack') : k = 1 \/ k \in 2 .. Len(stack')
    <3>1. Len(stack') \in Nat
      BY <1>3, StackSteps
    <3> QED
      BY <1>3, <3>1, StackSteps
  <2> QED
    BY <1>3, <2>1 DEF BatchesWhenParsing
<1>4. ASSUME NEW ok, stack # <<>>, DispatchReturns(ok)
      PROVE  BatchesWhenParsing'
  <2>1. [Top EXCEPT !.phase = "loop", !.batch = <<>>] \in Frame
    BY <1>4, TopType, EmptySeq DEF Frame, Phases
  <2>2. Calm([Top EXCEPT !.phase = "loop", !.batch = <<>>])
    BY <1>4, TopType DEF Frame
  <2> HIDE DEF Calm
  <2> QED
    BY <1>1, <1>2, <1>4, <2>1, <2>2 DEF DispatchReturns
<1>5. ASSUME NEW t, ClientParses(t), SetTop(Consumed)
      PROVE  BatchesWhenParsing'
  <2>1. Consumed \in Frame /\ stack # <<>> /\ Consumed.phase = "parse"
    BY <1>5, ReceivedType, TopType DEF Consumed, ClientParses, InPhase, Frame
  <2> QED
    BY <1>1, <1>5, <2>1
<1>6. ASSUME NEW w \in Waits, NEW a \in Nat, Push(NewFrame(w, a))
      PROVE  BatchesWhenParsing'
  <2>1. Calm(NewFrame(w, a))
    BY DEF NewFrame
  <2> QED
    BY <1>3, <1>6, <2>1, NewFrameType
<1>7. CASE ClientCallReturns
  BY <1>2, <1>7 DEF ClientCallReturns, InPhase
<1>8. CASE ClientBeginsDispatch
  <2>1. [Top EXCEPT !.phase = "poll"] \in Frame /\ stack # <<>>
    BY <1>8, TopType DEF ClientBeginsDispatch, InPhase, Frame, Phases
  <2>2. Top.batch = <<>> /\ Top \in Frame
    <3>1. 1 \in 1 .. Len(stack) /\ Top = stack[1] /\ Top.phase = "loop"
      BY <1>8, StackSteps DEF ClientBeginsDispatch, InPhase
    <3> QED
      BY <3>1, <2>1, TopType DEF BatchesWhenParsing
  <2>3. Calm([Top EXCEPT !.phase = "poll"])
    BY <2>2 DEF Frame
  <2> QED
    BY <1>1, <1>8, <2>1, <2>3 DEF ClientBeginsDispatch
<1>9. CASE ClientTimesOut \/ ClientFindsNothing \/ ClientReadsEnd \/ ClientRejects
  BY <1>4, <1>9 DEF ClientTimesOut, ClientFindsNothing, ClientReadsEnd, ClientRejects, ClientParses, InPhase
<1>10. CASE ClientReads
  <2>1. PICK n \in ReadLengths(s2c) :
           SetTop([Top EXCEPT !.phase = "parse", !.batch = SubSeq(s2c, 1, n)])
    BY <1>10, Zenon DEF ClientReads
  <2>2. SubSeq(s2c, 1, n) \in Seq(ServerMessage)
    BY ReadSplitsQueue DEF WireTypeOK
  <2>3. /\ [Top EXCEPT !.phase = "parse", !.batch = SubSeq(s2c, 1, n)] \in Frame
        /\ [Top EXCEPT !.phase = "parse", !.batch = SubSeq(s2c, 1, n)].phase = "parse"
        /\ stack # <<>>
    BY <1>10, <2>2, TopType DEF ClientReads, InPhase, Frame, Phases
  <2> QED
    BY <1>1, <2>1, <2>3
<1>11. CASE ClientHandlesBegin
  <2>1. SetTop(Consumed) \/ DispatchReturns(FALSE)
    BY <1>11 DEF ClientHandlesBegin
  <2> QED
    BY <1>4, <1>5, <1>11, <2>1 DEF ClientHandlesBegin, ClientParses, InPhase
<1>12. CASE \/ ClientHandlesProtocols
            \/ ClientHandlesNewObject
            \/ ClientHandlesUnknown
            \/ ClientDropsEvent
            \/ ClientHandlesFatal
            \/ ClientHandlesDone
  BY <1>5, <1>12 DEF ClientHandlesProtocols, ClientHandlesNewObject, ClientHandlesUnknown,
     ClientDropsEvent, ClientHandlesFatal, ClientHandlesDone
<1>13. CASE ClientCalled
  <2>1. PICK r \in Addressees :
           SetTop([Consumed EXCEPT !.phase = "call",
                                   !.called = [seq |-> r, method |-> Received.method]])
    BY <1>13, Zenon DEF ClientCalled
  <2>2. Received \in ServerMessage /\ Consumed \in Frame /\ stack # <<>>
    BY <1>13, ReceivedType DEF ClientCalled
  <2>3. r \in Nat /\ Received.method \in AllEvents
    BY <1>13, <2>2 DEF ClientCalled, ClientParses, Addressees, ServerMessage, Invalid
  <2>4. /\ [Consumed EXCEPT !.phase = "call",
                            !.called = [seq |-> r, method |-> Received.method]] \in Frame
        /\ Calm([Consumed EXCEPT !.phase = "call",
                                 !.called = [seq |-> r, method |-> Received.method]])
    BY <2>2, <2>3 DEF Frame, Phases
  <2> QED
    BY <1>1, <2>1, <2>2, <2>4
<1>14. CASE ClientListenerReturns
  <2>1. /\ [Top EXCEPT !.phase = "parse", !.called = Idle] \in Frame
        /\ Calm([Top EXCEPT !.phase = "parse", !.called = Idle])
        /\ stack # <<>>
    BY <1>14, TopType DEF ClientListenerReturns, InPhase, Frame, Phases, Idle
  <2> QED
    BY <1>1, <1>14, <2>1 DEF ClientListenerReturns
<1>15. CASE ClientFinishesBatch
  BY <1>4, <1>15 DEF ClientFinishesBatch, InPhase
<1>16. CASE ClientWaitsForHandshake
  BY <1>6, <1>16 DEF ClientWaitsForHandshake, Waits
<1>17. CASE ClientDispatches
  BY <1>6, <1>17, ClientAssumption DEF ClientDispatches, Waits
<1>18. CASE \E p \in Protocols, v \in 1 .. 2 : ClientBinds(p, v)
  <2>1. Push(NewFrame("object", Len(cObjects) + 1)) /\ Len(cObjects) \in Nat
    BY <1>18, LenProperties DEF ClientBinds, ClientTypeOK
  <2> QED
    BY <1>6, <2>1 DEF Waits
<1>19. CASE ClientRoundtrips
  BY <1>6, <1>19 DEF ClientRoundtrips, Waits, ClientTypeOK
<1>20. CASE UNCHANGED stack
  BY <1>20 DEF BatchesWhenParsing
<1>21. CASE \E p \in Protocols, v \in 1 .. 2 : ClientBindsTooNew(p, v)
  BY <1>20, <1>21 DEF ClientBindsTooNew
<1>22. CASE \E q \in 1 .. Len(cObjects), m \in Requests, takes \in BOOLEAN : ClientCalls(q, m, takes)
  BY <1>20, <1>22 DEF ClientCalls
<1>23. CASE \E q \in 1 .. Len(cObjects) : ClientLetsGo(q)
  BY <1>20, <1>23 DEF ClientLetsGo
<1>24. CASE ClientCloses
  <2>1. stack' = stack
    BY <1>24, Zenon DEF ClientCloses
  <2> QED
    BY <1>20, <2>1
<1> QED
  BY <1>7, <1>8, <1>9, <1>10, <1>11, <1>12, <1>13, <1>14, <1>15, <1>16, <1>17, <1>18, <1>19, <1>21, <1>22, <1>23, <1>24, Zenon
     DEF ClientSteps, ClientRuns, ClientHandles, ClientActs

\* What comes to the client is what it may find on the wire.
LEMMA ComingIsTyped ==
    ASSUME WireTypeOK, ClientTypeOK
    PROVE  Coming \subseteq ServerMessage
<1>1. ASSUME NEW f \in 1 .. Len(stack)
      PROVE  Range(stack[f].batch) \subseteq ServerMessage
  <2>1. stack[f] \in Frame
    BY ElementOfSeq DEF ClientTypeOK
  <2> QED
    BY <2>1, RangeIsTyped DEF Frame
<1> QED
  BY <1>1, RangeIsTyped DEF WireTypeOK, Coming, Batches

\* What parsing a message takes from the wire is that message.
LEMMA ParsedIsComing ==
    ASSUME ClientTypeOK, NEW t, ClientParses(t)
    PROVE  /\ Received \in Coming
           /\ Range(Top.batch) = {Received} \cup Range(Consumed.batch)
<1>1. Top \in Frame /\ stack # <<>> /\ Top.batch # <<>>
  BY TopType DEF ClientParses, InPhase
<1>2. Top.batch \in Seq(ServerMessage) /\ Consumed.batch = Tail(Top.batch)
  BY <1>1 DEF Frame, Consumed
<1>3. Range(Top.batch) = {Received} \cup Range(Tail(Top.batch))
  BY <1>1, <1>2, RangeSplits DEF Received
<1> QED
  BY <1>1, <1>2, <1>3, StackBatches DEF Coming

\* The client only takes messages off the wire to it, and the fatal error it
\* takes it knows of, unless it gave up before.  An announcement it takes is
\* handled, unless it gives up.
LEMMA ClientTakes ==
    ASSUME WireTypeOK, ClientInv, BatchesWhenParsing, ClientSteps
    PROVE  /\ Coming' \subseteq Coming
           /\ \A m \in Coming : m.type = "FATAL" => m \in Coming' \/ cError'
           /\ \A m \in Coming : m.type = "NEW_OBJECT" =>
                \/ m \in Coming'
                \/ cError' /\ cObjects' = cObjects
                \/ ClientHandlesNewObject /\ m = Received
<1> ClientTypeOK
  BY DEF ClientInv
<1> DEFINE Goal == /\ Coming' \subseteq Coming
                   /\ \A m \in Coming : m.type = "FATAL" => m \in Coming' \/ cError'
                   /\ \A m \in Coming : m.type = "NEW_OBJECT" =>
                        \/ m \in Coming'
                        \/ cError' /\ cObjects' = cObjects
                        \/ ClientHandlesNewObject /\ m = Received
<1> SUFFICES Goal
  OBVIOUS
<1>0. ASSUME Coming' \subseteq Coming, (cError' /\ cObjects' = cObjects) \/ Coming \subseteq Coming'
      PROVE  Goal
  BY <1>0, Zenon
<1>1. ASSUME NEW f \in Frame, stack # <<>>, SetTop(f), Range(f.batch) = Range(Top.batch), s2c' = s2c
      PROVE  Goal
  BY <1>0, <1>1, StackBatches DEF Coming
<1>2. ASSUME stack # <<>>, Pop, Top.batch = <<>>, s2c' = s2c
      PROVE  Goal
  BY <1>0, <1>2, StackBatches, RangeOfShort DEF Coming
<1>3. ASSUME NEW f \in Frame, Push(f), f.batch = <<>>, s2c' = s2c
      PROVE  Goal
  BY <1>0, <1>3, StackBatches, RangeOfShort DEF Coming
<1>4. ASSUME NEW ok, stack # <<>>, DispatchReturns(ok), s2c' = s2c,
             (cError' /\ cObjects' = cObjects) \/ Top.batch = <<>>
      PROVE  Goal
  <2>1. Coming' \subseteq Coming /\ (Top.batch = <<>> => Coming' = Coming)
    BY <1>4, DispatchReturnsBatches, StackBatches, RangeOfShort DEF Coming
  <2> QED
    BY <1>0, <1>4, <2>1, Zenon
<1>5. ASSUME NEW t, ClientParses(t), NEW f \in Frame, SetTop(f), f.batch = Consumed.batch,
             s2c' = s2c, t = "FATAL" => cError', t = "NEW_OBJECT" => ClientHandlesNewObject
      PROVE  Goal
  <2>1. stack # <<>> /\ Received.type = t
    BY <1>5 DEF ClientParses, InPhase
  <2>2. Coming = Coming' \cup {Received}
    BY <1>5, <2>1, ParsedIsComing, StackBatches DEF Coming
  <2> QED
    BY <1>5, <2>1, <2>2, Zenon
<1>6. ASSUME InPhase("loop") \/ InPhase("poll")
      PROVE  stack # <<>> /\ Top \in Frame /\ Top.batch = <<>>
  <2>1. stack # <<>> /\ Top.phase \in {"loop", "poll"}
    BY <1>6 DEF InPhase
  <2>2. 1 \in 1 .. Len(stack) /\ Top = stack[1]
    BY <2>1, StackSteps
  <2> QED
    BY <2>1, <2>2, TopType DEF BatchesWhenParsing
<1> HIDE DEF Goal
<1> USE DEF wireVars
<1>7. CASE ClientCallReturns
  BY <1>2, <1>6, <1>7 DEF ClientCallReturns
<1>8. CASE ClientBeginsDispatch
  <2>1. stack # <<>> /\ Top \in Frame
    BY <1>6, <1>8 DEF ClientBeginsDispatch
  <2>2. [Top EXCEPT !.phase = "poll"] \in Frame /\ [Top EXCEPT !.phase = "poll"].batch = Top.batch
    BY <2>1 DEF Frame, Phases
  <2> QED
    BY <1>1, <1>8, <2>1, <2>2 DEF ClientBeginsDispatch
<1>9. CASE ClientTimesOut
  BY <1>4, <1>6, <1>9 DEF ClientTimesOut
<1>10. CASE ClientFindsNothing
  BY <1>4, <1>6, <1>10 DEF ClientFindsNothing
<1>11. CASE ClientReadsEnd
  BY <1>4, <1>6, <1>11 DEF ClientReadsEnd
<1>12. CASE ClientReads
  <2>1. PICK n \in ReadLengths(s2c) :
           /\ SetTop([Top EXCEPT !.phase = "parse", !.batch = SubSeq(s2c, 1, n)])
           /\ s2c' = SubSeq(s2c, n + 1, Len(s2c))
    BY <1>12, Zenon DEF ClientReads
  <2>2. stack # <<>> /\ Top \in Frame /\ Top.batch = <<>>
    BY <1>6, <1>12 DEF ClientReads
  <2>3. SubSeq(s2c, 1, n) \in Seq(ServerMessage)
    BY ReadSplitsQueue DEF WireTypeOK
  <2>4. /\ [Top EXCEPT !.phase = "parse", !.batch = SubSeq(s2c, 1, n)] \in Frame
        /\ [Top EXCEPT !.phase = "parse", !.batch = SubSeq(s2c, 1, n)].batch = SubSeq(s2c, 1, n)
    BY <2>2, <2>3 DEF Frame, Phases
  <2>5. Batches' = Range(SubSeq(s2c, 1, n)) \cup Outer /\ Batches = Outer
    BY <2>1, <2>2, <2>4, StackBatches, RangeOfShort
  <2>6. Range(s2c) = Range(SubSeq(s2c, 1, n)) \cup Range(s2c')
    BY <2>1, RangeOfRead DEF WireTypeOK
  <2> QED
    BY <1>0, <2>5, <2>6 DEF Coming
<1>13. CASE ClientHandlesBegin
  <2>1. ClientParses("HANDSHAKE_BEGIN") /\ s2c' = s2c /\ stack # <<>> /\ Consumed \in Frame
    BY <1>13, ReceivedType DEF ClientHandlesBegin
  <2>2. SetTop(Consumed) \/ (DispatchReturns(FALSE) /\ cError' /\ cObjects' = cObjects)
    BY <1>13, Zenon DEF ClientHandlesBegin, Disconnect
  <2>3. "HANDSHAKE_BEGIN" \notin {"FATAL", "NEW_OBJECT"}
    OBVIOUS
  <2>4. CASE SetTop(Consumed)
    BY <1>5, <2>1, <2>3, <2>4, Zenon
  <2>5. CASE DispatchReturns(FALSE) /\ cError' /\ cObjects' = cObjects
    BY <1>4, <2>1, <2>5, Zenon
  <2> QED
    BY <2>2, <2>4, <2>5, Zenon
<1>14. CASE ClientHandlesProtocols
  BY <1>5, <1>14, ReceivedType DEF ClientHandlesProtocols
<1>15. CASE ClientHandlesNewObject
  BY <1>5, <1>15, ReceivedType DEF ClientHandlesNewObject
<1>16. CASE ClientHandlesUnknown
  BY <1>5, <1>16, ReceivedType DEF ClientHandlesUnknown
<1>17. CASE ClientDropsEvent
  BY <1>5, <1>17, ReceivedType DEF ClientDropsEvent
<1>18. CASE ClientHandlesFatal
  BY <1>5, <1>18, ReceivedType DEF ClientHandlesFatal
<1>19. CASE ClientHandlesDone
  BY <1>5, <1>19, ReceivedType DEF ClientHandlesDone
<1>20. CASE ClientCalled
  <2>1. PICK r \in Addressees :
           SetTop([Consumed EXCEPT !.phase = "call",
                                   !.called = [seq |-> r, method |-> Received.method]])
    BY <1>20, Zenon DEF ClientCalled
  <2>2. Received \in ServerMessage /\ Consumed \in Frame /\ ClientParses("GENERIC") /\ s2c' = s2c
    BY <1>20, ReceivedType DEF ClientCalled
  <2>3. r \in Nat /\ Received.method \in AllEvents
    BY <2>2 DEF ClientParses, Addressees, ServerMessage, Invalid
  <2>4. /\ [Consumed EXCEPT !.phase = "call",
                            !.called = [seq |-> r, method |-> Received.method]] \in Frame
        /\ [Consumed EXCEPT !.phase = "call",
                            !.called = [seq |-> r, method |-> Received.method]].batch = Consumed.batch
    BY <2>2, <2>3 DEF Frame, Phases
  <2>5. "GENERIC" \notin {"FATAL", "NEW_OBJECT"}
    OBVIOUS
  <2> QED
    BY <1>5, <2>1, <2>2, <2>4, <2>5, Zenon
<1>21. CASE ClientListenerReturns
  <2>1. stack # <<>> /\ Top \in Frame
    BY <1>21, TopType DEF ClientListenerReturns, InPhase
  <2>2. /\ [Top EXCEPT !.phase = "parse", !.called = Idle] \in Frame
        /\ [Top EXCEPT !.phase = "parse", !.called = Idle].batch = Top.batch
    BY <2>1 DEF Frame, Phases, Idle
  <2> QED
    BY <1>1, <1>21, <2>1, <2>2 DEF ClientListenerReturns
<1>22. CASE ClientRejects
  BY <1>4, <1>22 DEF ClientRejects, ClientParses, InPhase, Disconnect
<1>23. CASE ClientFinishesBatch
  BY <1>4, <1>23 DEF ClientFinishesBatch, InPhase
<1>24. ASSUME NEW w \in Waits, NEW a \in Nat, Push(NewFrame(w, a)), s2c' = s2c
      PROVE  Goal
  <2>1. NewFrame(w, a).batch = <<>>
    BY DEF NewFrame
  <2> QED
    BY <1>3, <1>24, <2>1, NewFrameType
<1>25. CASE ClientWaitsForHandshake
  BY <1>24, <1>25 DEF ClientWaitsForHandshake, Waits
<1>26. CASE ClientDispatches
  BY <1>24, <1>26, ClientAssumption DEF ClientDispatches, Waits
<1>27. CASE \E p \in Protocols, v \in 1 .. 2 : ClientBinds(p, v)
  <2>1. Push(NewFrame("object", Len(cObjects) + 1)) /\ Len(cObjects) \in Nat /\ s2c' = s2c
    BY <1>27, LenProperties DEF ClientBinds, ClientTypeOK
  <2> QED
    BY <1>24, <2>1 DEF Waits
<1>28. CASE ClientRoundtrips
  BY <1>24, <1>28 DEF ClientRoundtrips, Waits, ClientTypeOK
<1>29. ASSUME s2c' = s2c, stack' = stack
       PROVE  Goal
  BY <1>0, <1>29 DEF Coming, Batches
<1>30. CASE \E p \in Protocols, v \in 1 .. 2 : ClientBindsTooNew(p, v)
  BY <1>29, <1>30 DEF ClientBindsTooNew
<1>31. CASE \E q \in 1 .. Len(cObjects), m \in Requests, takes \in BOOLEAN : ClientCalls(q, m, takes)
  BY <1>29, <1>31 DEF ClientCalls
<1>32. CASE \E q \in 1 .. Len(cObjects) : ClientLetsGo(q)
  BY <1>29, <1>32 DEF ClientLetsGo
<1>33. CASE ClientCloses
  BY <1>29, <1>33, Zenon DEF ClientCloses
<1> QED
  BY <1>7, <1>8, <1>9, <1>10, <1>11, <1>12, <1>13, <1>14, <1>15, <1>16, <1>17, <1>18, <1>19, <1>20, <1>21, <1>22, <1>23, <1>25, <1>26, <1>27, <1>28, <1>30, <1>31, <1>32, <1>33, Zenon
     DEF ClientSteps, ClientRuns, ClientHandles, ClientActs

\* A client that gave up stays so, and a descriptor that was closed is not
\* opened again.
LEMMA ClientStaysClosed ==
    ASSUME ClientSteps
    PROVE  /\ cError => cError'
           /\ clientOpen' => clientOpen
<1> DEFINE Goal == /\ cError => cError'
                   /\ clientOpen' => clientOpen
<1> SUFFICES Goal
  OBVIOUS
<1>1. ASSUME cError' = TRUE \/ cError' = cError, clientOpen' = FALSE \/ clientOpen' = clientOpen
      PROVE  Goal
  <2>1. cError => cError'
    <3>1. CASE cError' = TRUE
      BY <3>1, Zenon
    <3>2. CASE cError' = cError
      BY <3>2, Zenon
    <3> QED
      BY <1>1, <3>1, <3>2, Zenon
  <2>2. clientOpen' => clientOpen
    <3>1. CASE clientOpen' = FALSE
      BY <3>1, Zenon
    <3>2. CASE clientOpen' = clientOpen
      BY <3>2, Zenon
    <3> QED
      BY <1>1, <3>1, <3>2, Zenon
  <2> QED
    BY <2>1, <2>2
<1> HIDE DEF Goal
<1> USE <1>1 DEF wireVars
<1>2. CASE ClientCallReturns \/ ClientBeginsDispatch \/ ClientFindsNothing \/ ClientReads
  BY <1>2, Zenon DEF ClientCallReturns, ClientBeginsDispatch, ClientFindsNothing, ClientReads
<1>3. CASE ClientTimesOut \/ ClientReadsEnd \/ ClientListenerReturns \/ ClientFinishesBatch
  BY <1>3, Zenon DEF ClientTimesOut, ClientReadsEnd, ClientListenerReturns, ClientFinishesBatch, Disconnect
<1>4. CASE ClientHandlesBegin
  BY <1>4, Zenon DEF ClientHandlesBegin, Disconnect
<1>5. CASE ClientHandlesProtocols \/ ClientHandlesNewObject \/ ClientHandlesUnknown \/ ClientDropsEvent
  BY <1>5, Zenon DEF ClientHandlesProtocols, ClientHandlesNewObject, ClientHandlesUnknown,
     ClientDropsEvent, Disconnect
<1>6. CASE ClientCalled \/ ClientHandlesFatal \/ ClientHandlesDone \/ ClientRejects
  BY <1>6, Zenon DEF ClientCalled, ClientHandlesFatal, ClientHandlesDone, ClientRejects, Disconnect
<1>7. CASE ClientWaitsForHandshake \/ ClientDispatches \/ ClientRoundtrips \/ ClientCloses
  BY <1>7, Zenon DEF ClientWaitsForHandshake, ClientDispatches, ClientRoundtrips, ClientCloses
<1>8. CASE \E p \in Protocols, v \in 1 .. 2 : ClientBinds(p, v) \/ ClientBindsTooNew(p, v)
  BY <1>8, Zenon DEF ClientBinds, ClientBindsTooNew, Disconnect
<1>9. CASE \E q \in 1 .. Len(cObjects), m \in Requests, takes \in BOOLEAN : ClientCalls(q, m, takes)
  BY <1>9, Zenon DEF ClientCalls
<1>10. CASE \E q \in 1 .. Len(cObjects) : ClientLetsGo(q)
  BY <1>10, Zenon DEF ClientLetsGo
<1> QED
  BY <1>2, <1>3, <1>4, <1>5, <1>6, <1>7, <1>8, <1>9, <1>10, Zenon
     DEF ClientSteps, ClientRuns, ClientHandles, ClientActs

-----------------------------------------------------------------------------
(* What the client writes, and what becomes of its objects *)

\* Why a message of the client's is written: the server began the handshake,
Acking(m) ==
    /\ m = HandshakeAck(HYPRWIRE_PROTOCOL_VER)
    /\ \E b \in Coming : b.type = "HANDSHAKE_BEGIN" /\ HYPRWIRE_PROTOCOL_VER \in b.versions

\* the object it asks for is the newest one,
Fresh(p, v) ==
    /\ Len(cObjects') = Len(cObjects) + 1
    /\ cObjects'[Len(cObjects')].protocol = p
    /\ cObjects'[Len(cObjects')].version = v

Binding(m) ==
    \E p \in Protocols, v \in 1 .. 2 :
        m = BindProtocol(Len(cObjects) + 1, p, v) /\ Fresh(p, v)

CallSeq(x) == IF Creates(x) THEN Len(cObjects) + 1 ELSE 0

Calling(m) ==
    \E q \in 1 .. Len(cObjects), x \in Requests :
        /\ m = Generic(cObjects[q].id, x, CallSeq(x))
        /\ cObjects[q].id # 0
        /\ Creates(x) => Fresh(cObjects[q].protocol, 0)
        /\ IsDestructor(x) => cObjects'[q].destroyed

\* a deferred call can be sent,
Flushing(m) ==
    \E k \in 1 .. Len(pendingOutgoing) :
        LET d == pendingOutgoing[k]
        IN  /\ cObjects[d.dependsOn].id # 0
            /\ m = Generic(cObjects[d.dependsOn].id, d.method, d.seq)

\* or nobody holds the object any more.
Departing(m) ==
    \E q \in 1 .. Len(cObjects) :
        /\ m = FarewellTo(q)
        /\ cObjects[q].id # 0
        /\ ~cObjects[q].held

\* Every farewell is to an object that nobody holds, whose id is known.
LEMMA FarewellsDepart ==
    ASSUME ClientTypeOK, NEW s \in Farewells, NEW m \in Range(s)
    PROVE  Departing(m)
<1> DEFINE n == Len(cObjects)
           K == {q \in 1 .. n : CallsDestructor(q)}
<1>1. n \in Nat
  BY LenProperties DEF ClientTypeOK
<1>2. PICK dying \in InOrder(K) : s = [k \in DOMAIN dying |-> FarewellTo(dying[k])]
  BY DEF Farewells
<1>3. \A k \in DOMAIN dying : dying[k] \in K
  BY <1>1, <1>2, InOrderType
<1>4. PICK k \in DOMAIN dying : m = FarewellTo(dying[k])
  BY <1>2 DEF Range
<1>5. dying[k] \in 1 .. n /\ CallsDestructor(dying[k])
  BY <1>3
<1> QED
  BY <1>4, <1>5 DEF Departing, CallsDestructor, IsOrphan

\* Every flushed message is a deferred call whose object has got its id.
LEMMA FlushedFlush ==
    ASSUME ClientTypeOK, NEW s \in Flushed, NEW m \in Range(s)
    PROVE  Flushing(m)
<1> DEFINE n == Len(pendingOutgoing)
           K == {k \in 1 .. n : Resolvable(pendingOutgoing[k])}
           Sending(k) == LET d == pendingOutgoing[k]
                         IN  Generic(cObjects[d.dependsOn].id, d.method, d.seq)
<1>1. n \in Nat
  BY LenProperties DEF ClientTypeOK
<1>2. PICK ready \in InOrder(K) : s = [k \in DOMAIN ready |-> Sending(ready[k])]
  BY DEF Flushed, ResolvableDeferrals
<1>3. \A k \in DOMAIN ready : ready[k] \in K
  BY <1>1, <1>2, InOrderType
<1>4. PICK k \in DOMAIN ready : m = Sending(ready[k])
  <2> HIDE DEF Sending
  <2> QED
    BY <1>2 DEF Range
<1>5. ready[k] \in 1 .. n /\ Resolvable(pendingOutgoing[ready[k]])
  BY <1>3
<1> QED
  BY <1>4, <1>5 DEF Flushing, Resolvable

\* What bindProtocol and a creating call add to the objects.
LEMMA AppendIsFresh ==
    ASSUME NEW objects \in Seq(ClientObject), Len(objects) = Len(cObjects),
           NEW o \in ClientObject, cObjects' = Append(objects, o)
    PROVE  Fresh(o.protocol, o.version)
<1>1. Len(objects) \in Nat
  BY LenProperties
<1>2. /\ Len(cObjects') = Len(cObjects) + 1
      /\ cObjects'[Len(cObjects) + 1] = o
  BY <1>1, AppendProperties
<1> QED
  BY <1>2 DEF Fresh

\* Everything a step of the client's writes has one of these reasons.
LEMMA ClientWrites ==
    ASSUME WireTypeOK, ClientInv, ClientSteps, NEW m \in Range(c2s'), m \notin Range(c2s)
    PROVE  \/ Acking(m)
           \/ Binding(m)
           \/ Calling(m)
           \/ Flushing(m)
           \/ Departing(m)
           \/ m = RoundtripRequest(lastSent')
<1> /\ ClientTypeOK
    /\ Len(cObjects) \in Nat
  BY LenProperties DEF ClientInv, ClientTypeOK
<1> DEFINE Goal == \/ Acking(m)
                   \/ Binding(m)
                   \/ Calling(m)
                   \/ Flushing(m)
                   \/ Departing(m)
                   \/ m = RoundtripRequest(lastSent')
<1> SUFFICES Goal
  OBVIOUS
<1>1. ASSUME NEW n \in ClientMessage, ClientSends(<<n>>)
      PROVE  m = n
  <2>1. <<n>> \in Seq(ClientMessage)
    OBVIOUS
  <2> QED
    BY <1>1, <2>1, ClientSendsRange, RangeOfShort
<1>2. CASE ClientHandlesBegin
  <2>1. ClientParses("HANDSHAKE_BEGIN") /\ HandshakeAck(HYPRWIRE_PROTOCOL_VER) \in ClientMessage
    BY <1>2, ClientMessages DEF ClientHandlesBegin, HYPRWIRE_PROTOCOL_VER
  <2>2. CASE HYPRWIRE_PROTOCOL_VER \in Received.versions
    <3>1. ClientSends(<<HandshakeAck(HYPRWIRE_PROTOCOL_VER)>>)
      BY <1>2, <2>2, Zenon DEF ClientHandlesBegin
    <3>2. Received \in Coming /\ Received.type = "HANDSHAKE_BEGIN"
      BY <2>1, ParsedIsComing DEF ClientParses
    <3>3. m = HandshakeAck(HYPRWIRE_PROTOCOL_VER)
      BY <1>1, <2>1, <3>1
    <3> QED
      BY <2>2, <3>2, <3>3 DEF Acking
  <2>3. CASE HYPRWIRE_PROTOCOL_VER \notin Received.versions
    BY <1>2, <2>3, Zenon DEF ClientHandlesBegin
  <2> QED
    BY <2>2, <2>3
<1>3. CASE ClientBeginsDispatch
  <2>1. PICK farewells \in Farewells : ClientSends(farewells)
    BY <1>3 DEF ClientBeginsDispatch
  <2>2. m \in Range(farewells)
    BY <2>1, FarewellsType, ClientSendsRange
  <2> QED
    BY <2>2, FarewellsDepart
<1>4. CASE ClientFinishesBatch
  <2>1. PICK flushed \in Flushed, farewells \in Farewells : ClientSends(flushed \o farewells)
    BY <1>4 DEF ClientFinishesBatch
  <2>2. /\ flushed \in Seq(ClientMessage)
        /\ farewells \in Seq(ClientMessage)
    BY FlushedType, FarewellsType
  <2>3. Range(flushed \o farewells) = Range(flushed) \cup Range(farewells)
    BY <2>2, RangeConcatenation
  <2>4. m \in Range(flushed \o farewells)
    BY <2>1, <2>2, ConcatProperties, ClientSendsRange
  <2> QED
    BY <2>3, <2>4, FlushedFlush, FarewellsDepart
<1>5. CASE \E p \in Protocols, v \in 1 .. 2 : ClientBinds(p, v)
  <2>1. PICK p \in Protocols, v \in 1 .. 2 : ClientBinds(p, v)
    BY <1>5
  <2>2. m = BindProtocol(Len(cObjects) + 1, p, v)
    <3>1. BindProtocol(Len(cObjects) + 1, p, v) \in ClientMessage
      BY ClientMessages
    <3> QED
      BY <1>1, <2>1, <3>1 DEF ClientBinds
  <2>3. NewClientObject(p, v, TRUE) \in ClientObject
    BY DEF NewClientObject, ClientObject
  <2>4. Fresh(NewClientObject(p, v, TRUE).protocol, NewClientObject(p, v, TRUE).version)
    BY <2>1, <2>3, AppendIsFresh DEF ClientBinds, ClientTypeOK
  <2>5. Fresh(p, v)
    BY <2>4 DEF NewClientObject
  <2> QED
    BY <2>2, <2>5 DEF Binding
<1>6. CASE \E q \in 1 .. Len(cObjects), x \in Requests, takes \in BOOLEAN : ClientCalls(q, x, takes)
  <2>1. PICK q \in 1 .. Len(cObjects), x \in Requests, takes \in BOOLEAN : ClientCalls(q, x, takes)
    BY <1>6
  <2> DEFINE after == IF IsDestructor(x) THEN [cObjects EXCEPT ![q].destroyed = TRUE] ELSE cObjects
             made == [NewClientObject(cObjects[q].protocol, 0, takes) EXCEPT !.listening = takes]
  <2>2. cObjects[q] \in ClientObject /\ x \in AllRequests /\ CallSeq(x) \in Nat
    BY ElementOfSeq, MethodsAssumption DEF ClientTypeOK, CallSeq
  <2>3. cObjects[q].id # 0 /\ ClientSends(<<Generic(cObjects[q].id, x, CallSeq(x))>>)
    BY <2>1 DEF ClientCalls, CallSeq
  <2>4. m = Generic(cObjects[q].id, x, CallSeq(x))
    <3>1. Generic(cObjects[q].id, x, CallSeq(x)) \in ClientMessage
      BY <2>2, ClientMessages DEF ClientObject
    <3> QED
      BY <1>1, <2>3, <3>1
  <2>5. after \in Seq(ClientObject) /\ Len(after) = Len(cObjects)
    <3>1. [cObjects[q] EXCEPT !.destroyed = TRUE] \in ClientObject
      BY <2>2 DEF ClientObject
    <3>2. cObjects \in Seq(ClientObject)
      BY DEF ClientTypeOK
    <3> QED
      BY <3>1, <3>2, UpdateType
  <2>6. made \in ClientObject /\ made.protocol = cObjects[q].protocol /\ made.version = 0
    BY <2>2 DEF NewClientObject, ClientObject
  <2>7. cObjects' = IF Creates(x) THEN Append(after, made) ELSE after
    BY <2>1 DEF ClientCalls
  <2>8. IsDestructor(x) => after[q].destroyed
    BY <2>2 DEF ClientTypeOK, ClientObject
  <2>9. IsDestructor(x) => ~Creates(x)
    BY DEF IsDestructor, Creates
  <2> HIDE DEF after, made
  <2>10. Creates(x) => Fresh(cObjects[q].protocol, 0)
    BY <2>5, <2>6, <2>7, AppendIsFresh
  <2> QED
    BY <2>3, <2>4, <2>7, <2>8, <2>9, <2>10 DEF Calling
<1>7. CASE ClientRoundtrips
  <2>1. RoundtripRequest(lastSent') \in ClientMessage
    BY <1>7, ClientMessages DEF ClientRoundtrips, ClientTypeOK
  <2>2. m = RoundtripRequest(lastSent')
    BY <1>1, <1>7, <2>1 DEF ClientRoundtrips
  <2> QED
    BY <2>2
<1>8. c2s' # c2s
  OBVIOUS
<1> HIDE DEF Goal
<1> USE <1>8 DEF wireVars
<1>9. CASE ClientCallReturns \/ ClientFindsNothing \/ ClientReads
  BY <1>9, Zenon DEF ClientCallReturns, ClientFindsNothing, ClientReads
<1>10. CASE ClientTimesOut \/ ClientReadsEnd \/ ClientListenerReturns
  BY <1>10, Zenon DEF ClientTimesOut, ClientReadsEnd, ClientListenerReturns
<1>11. CASE ClientHandlesProtocols \/ ClientHandlesNewObject \/ ClientHandlesUnknown \/ ClientDropsEvent
  BY <1>11, Zenon DEF ClientHandlesProtocols, ClientHandlesNewObject, ClientHandlesUnknown,
     ClientDropsEvent
<1>12. CASE ClientCalled \/ ClientHandlesFatal \/ ClientHandlesDone \/ ClientRejects
  BY <1>12, Zenon DEF ClientCalled, ClientHandlesFatal, ClientHandlesDone, ClientRejects
<1>13. CASE ClientWaitsForHandshake \/ ClientDispatches \/ ClientCloses
  BY <1>13, Zenon DEF ClientWaitsForHandshake, ClientDispatches, ClientCloses
<1>14. CASE \E p \in Protocols, v \in 1 .. 2 : ClientBindsTooNew(p, v)
  BY <1>14, Zenon DEF ClientBindsTooNew
<1>15. CASE \E q \in 1 .. Len(cObjects) : ClientLetsGo(q)
  BY <1>15, Zenon DEF ClientLetsGo
<1> QED
  BY <1>2, <1>3, <1>4, <1>5, <1>6, <1>7, <1>9, <1>10, <1>11, <1>12, <1>13, <1>14, <1>15, Zenon
     DEF ClientSteps, ClientRuns, ClientHandles, ClientActs

\* What no step takes from an object: its protocol, its version, that it was
\* destroyed, and that it was let go.
Succeeds(u, o) ==
    /\ u.protocol = o.protocol
    /\ u.version = o.version
    /\ o.destroyed => u.destroyed
    /\ u.held => o.held

Learns(q) ==
    \E n \in Coming : n.type = "NEW_OBJECT" /\ n.seq = q /\ n.id = cObjects'[q].id

ObjectsGoOn ==
    /\ \/ Len(cObjects') = Len(cObjects)
       \/ /\ Len(cObjects) < MaxSeq
          /\ Len(cObjects') = Len(cObjects) + 1
          /\ cObjects'[Len(cObjects')].id = 0
    /\ \A q \in 1 .. Len(cObjects) :
         /\ Succeeds(cObjects'[q], cObjects[q])
         /\ cObjects'[q].id = cObjects[q].id \/ Learns(q)

\* Every step leaves every object its names, but for an id the server gave it,
\* and adds at most one object, of which nothing is known yet.
LEMMA ClientKeepsNames ==
    ASSUME WireTypeOK, ClientInv, ClientSteps
    PROVE  ObjectsGoOn
<1> /\ ClientTypeOK
    /\ Len(cObjects) \in Nat
    /\ \A q \in 1 .. Len(cObjects) : cObjects[q] \in ClientObject
  BY LenProperties, ElementOfSeq DEF ClientInv, ClientTypeOK
<1> DEFINE Kin(u, o) == u \in ClientObject /\ Succeeds(u, o) /\ u.id = o.id
<1>1. \A o \in ClientObject :
        /\ Kin(o, o)
        /\ \A b \in BOOLEAN : Kin([o EXCEPT !.listed = b], o)
        /\ Kin([o EXCEPT !.listening = TRUE], o)
        /\ Kin([o EXCEPT !.destroyed = TRUE], o)
        /\ Kin([o EXCEPT !.held = FALSE], o)
        /\ Kin([o EXCEPT !.listed = FALSE, !.destroyed = TRUE], o)
        /\ Kin([o EXCEPT !.listed = FALSE, !.held = FALSE, !.listening = FALSE], o)
  <2> HIDE DEF Kin
  <2> SUFFICES ASSUME NEW o \in ClientObject
               PROVE  /\ Kin(o, o)
                      /\ \A b \in BOOLEAN : Kin([o EXCEPT !.listed = b], o)
                      /\ Kin([o EXCEPT !.listening = TRUE], o)
                      /\ Kin([o EXCEPT !.destroyed = TRUE], o)
                      /\ Kin([o EXCEPT !.held = FALSE], o)
                      /\ Kin([o EXCEPT !.listed = FALSE, !.destroyed = TRUE], o)
                      /\ Kin([o EXCEPT !.listed = FALSE, !.held = FALSE, !.listening = FALSE], o)
    BY Zenon
  <2> USE DEF Kin
  <2>1. Kin(o, o)
    BY DEF ClientObject, Succeeds
  <2>2. \A b \in BOOLEAN : Kin([o EXCEPT !.listed = b], o)
    BY DEF ClientObject, Succeeds
  <2>3. Kin([o EXCEPT !.listening = TRUE], o)
    BY DEF ClientObject, Succeeds
  <2>4. Kin([o EXCEPT !.destroyed = TRUE], o)
    BY DEF ClientObject, Succeeds
  <2>5. Kin([o EXCEPT !.held = FALSE], o)
    BY DEF ClientObject, Succeeds
  <2>6. Kin([o EXCEPT !.listed = FALSE, !.destroyed = TRUE], o)
    BY DEF ClientObject, Succeeds
  <2>7. Kin([o EXCEPT !.listed = FALSE, !.held = FALSE, !.listening = FALSE], o)
    BY DEF ClientObject, Succeeds
  <2> HIDE DEF Kin
  <2> QED
    BY <2>1, <2>2, <2>3, <2>4, <2>5, <2>6, <2>7
<1>0. \A u, o : Kin(u, o) => u \in ClientObject /\ Succeeds(u, o) /\ u.id = o.id
  OBVIOUS
<1> HIDE DEF Kin
<1>2. ASSUME Len(cObjects') = Len(cObjects),
             \A q \in 1 .. Len(cObjects) : Kin(cObjects'[q], cObjects[q])
      PROVE  ObjectsGoOn
  BY <1>0, <1>2, Zenon DEF ObjectsGoOn
<1>3. ASSUME cObjects' = cObjects
      PROVE  ObjectsGoOn
  BY <1>1, <1>2, <1>3, Zenon
<1>4. ASSUME NEW i, NEW u, cObjects' = [cObjects EXCEPT ![i] = u],
             i \in 1 .. Len(cObjects) => Kin(u, cObjects[i])
      PROVE  ObjectsGoOn
  <2>1. Len(cObjects') = Len(cObjects)
    BY <1>0, <1>4, UpdateType
  <2>2. ASSUME NEW q \in 1 .. Len(cObjects)
        PROVE  Kin(cObjects'[q], cObjects[q])
    <3>1. cObjects'[q] = IF q = i THEN u ELSE cObjects[q]
      BY <1>4 DEF ClientTypeOK
    <3> QED
      BY <1>1, <1>4, <3>1, Zenon
  <2> QED
    BY <1>2, <2>1, <2>2
<1>5. ASSUME NEW i, cObjects' = Destroyed(i)
      PROVE  ObjectsGoOn
  <2>1. cObjects' = [cObjects EXCEPT ![i] = [cObjects[i] EXCEPT !.listed = FALSE, !.destroyed = TRUE]]
    BY <1>5 DEF Destroyed
  <2>2. i \in 1 .. Len(cObjects) =>
          Kin([cObjects[i] EXCEPT !.listed = FALSE, !.destroyed = TRUE], cObjects[i])
    BY <1>1, Zenon
  <2> QED
    BY <1>4, <2>1, <2>2
<1>6. ASSUME cObjects' = Collected
      PROVE  ObjectsGoOn
  <2>1. Len(cObjects') = Len(cObjects)
    BY <1>6, CollectedType
  <2>2. ASSUME NEW q \in 1 .. Len(cObjects)
        PROVE  Kin(cObjects'[q], cObjects[q])
    <3>1. cObjects'[q] = [cObjects[q] EXCEPT !.listed = cObjects[q].listed /\ ~IsOrphan(q)]
      BY <1>6 DEF Collected
    <3>2. (cObjects[q].listed /\ ~IsOrphan(q)) \in BOOLEAN
      OBVIOUS
    <3> QED
      BY <1>1, <3>1, <3>2, Zenon
  <2> QED
    BY <1>2, <2>1, <2>2
<1>7. ASSUME NEW objects \in Seq(ClientObject), Len(objects) = Len(cObjects),
             \A q \in 1 .. Len(cObjects) : Kin(objects[q], cObjects[q]),
             Len(cObjects) < MaxSeq,
             NEW o \in ClientObject, o.id = 0, cObjects' = Append(objects, o)
      PROVE  ObjectsGoOn
  <2>1. /\ Len(cObjects') = Len(cObjects) + 1
        /\ cObjects'[Len(cObjects) + 1] = o
        /\ \A q \in 1 .. Len(cObjects) : cObjects'[q] = objects[q]
    BY <1>7, AppendProperties
  <2> QED
    BY <1>0, <1>7, <2>1 DEF ObjectsGoOn
<1>8. CASE ClientCallReturns
  <2>1. CASE Top.wait = "object"
    <3>1. cObjects' = [cObjects EXCEPT ![Top.arg] = [cObjects[Top.arg] EXCEPT !.listening = TRUE]]
      BY <1>8, <2>1, Zenon DEF ClientCallReturns
    <3>2. Top.arg \in 1 .. Len(cObjects) =>
            Kin([cObjects[Top.arg] EXCEPT !.listening = TRUE], cObjects[Top.arg])
      BY <1>1, Zenon
    <3> QED
      BY <1>4, <3>1, <3>2
  <2>2. CASE Top.wait # "object"
    BY <1>3, <1>8, <2>2, Zenon DEF ClientCallReturns
  <2> QED
    BY <2>1, <2>2
<1>9. CASE ClientBeginsDispatch \/ ClientFinishesBatch
  BY <1>6, <1>9 DEF ClientBeginsDispatch, ClientFinishesBatch
<1>10. CASE ClientHandlesNewObject
  <2>1. ClientParses("NEW_OBJECT") /\ Received \in Coming /\ Received \in ServerMessage
    BY <1>10, ReceivedType, ParsedIsComing DEF ClientHandlesNewObject
  <2>2. Received.type = "NEW_OBJECT" /\ Received.id \in Nat
    BY <2>1 DEF ClientParses, ServerMessage, Invalid
  <2>3. CASE Received.seq \in 1 .. Len(cObjects) /\ cObjects[Received.seq].listed
    <3>1. cObjects' = [cObjects EXCEPT ![Received.seq] = [cObjects[Received.seq] EXCEPT !.id = Received.id]]
      BY <1>10, <2>3, Zenon DEF ClientHandlesNewObject
    <3>2. /\ cObjects'[Received.seq].id = Received.id
          /\ Succeeds(cObjects'[Received.seq], cObjects[Received.seq])
      BY <2>2, <2>3, <3>1 DEF ClientTypeOK, ClientObject, Succeeds
    <3>3. Learns(Received.seq)
      BY <2>1, <2>2, <3>2 DEF Learns
    <3>4. \A q \in 1 .. Len(cObjects) : q # Received.seq => cObjects'[q] = cObjects[q]
      BY <3>1 DEF ClientTypeOK
    <3>5. Len(cObjects') = Len(cObjects)
      <4>1. Received.seq \in 1 .. Len(cObjects) =>
              [cObjects[Received.seq] EXCEPT !.id = Received.id] \in ClientObject
        BY <2>2 DEF ClientObject
      <4> QED
        BY <3>1, <4>1, UpdateType
    <3> QED
      BY <1>0, <1>1, <3>2, <3>3, <3>4, <3>5, Zenon DEF ObjectsGoOn
  <2>4. CASE ~(Received.seq \in 1 .. Len(cObjects) /\ cObjects[Received.seq].listed)
    BY <1>3, <1>10, <2>4, Zenon DEF ClientHandlesNewObject
  <2> QED
    BY <2>3, <2>4
<1>11. CASE ClientDropsEvent
  BY <1>3, <1>5, <1>11 DEF ClientDropsEvent
<1>12. CASE ClientListenerReturns
  BY <1>3, <1>5, <1>12 DEF ClientListenerReturns
<1>13. CASE \E p \in Protocols, v \in 1 .. 2 : ClientBinds(p, v)
  <2>1. PICK p \in Protocols, v \in 1 .. 2 : ClientBinds(p, v)
    BY <1>13
  <2>2. NewClientObject(p, v, TRUE) \in ClientObject /\ NewClientObject(p, v, TRUE).id = 0
    BY DEF NewClientObject, ClientObject
  <2> QED
    BY <1>1, <1>7, <2>1, <2>2, Zenon DEF ClientBinds, ClientTypeOK
<1>14. CASE \E q \in 1 .. Len(cObjects), x \in Requests, takes \in BOOLEAN : ClientCalls(q, x, takes)
  <2>1. PICK q \in 1 .. Len(cObjects), x \in Requests, takes \in BOOLEAN : ClientCalls(q, x, takes)
    BY <1>14
  <2> DEFINE gone == [cObjects EXCEPT ![q] = [cObjects[q] EXCEPT !.destroyed = TRUE]]
             after == IF IsDestructor(x) THEN gone ELSE cObjects
             made == [NewClientObject(cObjects[q].protocol, 0, takes) EXCEPT !.listening = takes]
  <2>2. Kin([cObjects[q] EXCEPT !.destroyed = TRUE], cObjects[q])
    BY <1>1, Zenon
  <2>3. after \in Seq(ClientObject) /\ Len(after) = Len(cObjects)
    BY <1>0, <2>2, UpdateType DEF ClientTypeOK
  <2>4. ASSUME NEW r \in 1 .. Len(cObjects)
        PROVE  Kin(after[r], cObjects[r])
    <3>1. gone[r] = IF r = q THEN [cObjects[q] EXCEPT !.destroyed = TRUE] ELSE cObjects[r]
      BY DEF ClientTypeOK
    <3> QED
      BY <1>1, <2>2, <3>1, Zenon
  <2>5. made \in ClientObject /\ made.id = 0
    <3>1. cObjects[q].protocol \in Protocols
      BY DEF ClientObject
    <3> QED
      BY <3>1 DEF NewClientObject, ClientObject
  <2>6. cObjects' = IF Creates(x) THEN Append(after, made) ELSE after
    BY <2>1 DEF ClientCalls
  <2>7. Creates(x) => Len(cObjects) < MaxSeq
    BY <2>1 DEF ClientCalls
  <2> HIDE DEF after, made
  <2> QED
    BY <1>2, <1>7, <2>3, <2>4, <2>5, <2>6, <2>7
<1>15. CASE \E q \in 1 .. Len(cObjects) : ClientLetsGo(q)
  <2>1. PICK q \in 1 .. Len(cObjects) : ClientLetsGo(q)
    BY <1>15
  <2>2. cObjects' = [cObjects EXCEPT ![q] = [cObjects[q] EXCEPT !.held = FALSE]]
    BY <2>1 DEF ClientLetsGo
  <2>3. Kin([cObjects[q] EXCEPT !.held = FALSE], cObjects[q])
    BY <1>1, Zenon
  <2> QED
    BY <1>4, <2>2, <2>3
<1>16. CASE ClientCloses
  <2>1. cObjects' = [q \in 1 .. Len(cObjects) |->
                       [cObjects[q] EXCEPT !.listed = FALSE, !.held = FALSE, !.listening = FALSE]]
    BY <1>16, Zenon DEF ClientCloses
  <2>2. \A q \in 1 .. Len(cObjects) : Kin(cObjects'[q], cObjects[q])
    BY <1>1, <2>1, Zenon
  <2>3. cObjects' \in [1 .. Len(cObjects) -> ClientObject]
    BY <1>0, <2>1, <2>2, Zenon
  <2> QED
    BY <1>2, <2>2, <2>3, FunctionIsSeq
<1> USE DEF wireVars
<1>17. CASE ClientTimesOut \/ ClientFindsNothing \/ ClientReads \/ ClientReadsEnd
  BY <1>3, <1>17, Zenon DEF ClientTimesOut, ClientFindsNothing, ClientReads, ClientReadsEnd
<1>18. CASE ClientHandlesBegin \/ ClientHandlesProtocols \/ ClientHandlesUnknown \/ ClientCalled
  BY <1>3, <1>18, Zenon DEF ClientHandlesBegin, ClientHandlesProtocols, ClientHandlesUnknown, ClientCalled
<1>19. CASE ClientHandlesFatal \/ ClientHandlesDone \/ ClientRejects
  BY <1>3, <1>19, Zenon DEF ClientHandlesFatal, ClientHandlesDone, ClientRejects
<1>20. CASE ClientWaitsForHandshake \/ ClientDispatches \/ ClientRoundtrips
  BY <1>3, <1>20, Zenon DEF ClientWaitsForHandshake, ClientDispatches, ClientRoundtrips
<1>21. CASE \E p \in Protocols, v \in 1 .. 2 : ClientBindsTooNew(p, v)
  BY <1>3, <1>21, Zenon DEF ClientBindsTooNew
<1> QED
  BY <1>8, <1>9, <1>10, <1>11, <1>12, <1>13, <1>14, <1>15, <1>16, <1>17, <1>18, <1>19, <1>20, <1>21, Zenon
     DEF ClientSteps, ClientRuns, ClientHandles, ClientActs

\* Why a call is deferred: its object has no id.
Deferring(d) ==
    \E q \in 1 .. Len(cObjects), x \in Requests :
        /\ d = [dependsOn |-> q, method |-> x, seq |-> CallSeq(x)]
        /\ cObjects[q].id = 0
        /\ cObjects[q].held
        /\ ~cObjects[q].destroyed
        /\ Since(x) <= cObjects[q].version
        /\ Creates(x) => Fresh(cObjects[q].protocol, 0)
        /\ IsDestructor(x) => cObjects'[q].destroyed

\* A deferred call was deferred before, or is made by this step on an object
\* that has no id, and asks for the newest object if it asks for one.
LEMMA ClientDefers ==
    ASSUME WireTypeOK, ClientInv, ClientSteps, NEW k \in 1 .. Len(pendingOutgoing')
    PROVE  \/ \E j \in 1 .. Len(pendingOutgoing) : pendingOutgoing'[k] = pendingOutgoing[j]
           \/ Deferring(pendingOutgoing'[k])
<1> DEFINE Goal == \/ \E j \in 1 .. Len(pendingOutgoing) : pendingOutgoing'[k] = pendingOutgoing[j]
                   \/ Deferring(pendingOutgoing'[k])
<1> SUFFICES Goal
  OBVIOUS
<1> /\ ClientTypeOK
    /\ Len(cObjects) \in Nat
    /\ Len(pendingOutgoing) \in Nat
    /\ \A q \in 1 .. Len(cObjects) : cObjects[q] \in ClientObject
  BY LenProperties, ElementOfSeq DEF ClientInv, ClientTypeOK
<1>1. ASSUME pendingOutgoing' = pendingOutgoing
      PROVE  Goal
  BY <1>1
<1>2. CASE ClientFinishesBatch
  <2>1. PICK waiting \in InOrder(AwaitingDeferrals) :
           pendingOutgoing' = [j \in DOMAIN waiting |-> pendingOutgoing[waiting[j]]]
    BY <1>2, Zenon DEF ClientFinishesBatch
  <2>2. AwaitingDeferrals \in SUBSET (1 .. Len(pendingOutgoing))
    BY DEF AwaitingDeferrals
  <2>3. /\ Cardinality(AwaitingDeferrals) \in Nat
        /\ DOMAIN waiting = 1 .. Cardinality(AwaitingDeferrals)
        /\ \A j \in DOMAIN waiting : waiting[j] \in AwaitingDeferrals
    BY <2>2, InOrderType
  <2>4. pendingOutgoing' \in Seq(Deferred)
    BY <2>1, WaitingType
  <2>5. k \in DOMAIN waiting
    BY <2>1, <2>3, <2>4
  <2> QED
    BY <2>1, <2>2, <2>3, <2>5
<1>3. CASE \E q \in 1 .. Len(cObjects), x \in Requests, takes \in BOOLEAN : ClientCalls(q, x, takes)
  <2>1. PICK q \in 1 .. Len(cObjects), x \in Requests, takes \in BOOLEAN : ClientCalls(q, x, takes)
    BY <1>3
  <2> DEFINE d == [dependsOn |-> q, method |-> x, seq |-> CallSeq(x)]
  <2>2. CASE cObjects[q].id # 0
    BY <1>1, <2>1, <2>2 DEF ClientCalls
  <2>3. CASE cObjects[q].id = 0
    <3> DEFINE gone == [cObjects EXCEPT ![q] = [cObjects[q] EXCEPT !.destroyed = TRUE]]
               after == IF IsDestructor(x) THEN gone ELSE cObjects
               made == [NewClientObject(cObjects[q].protocol, 0, takes) EXCEPT !.listening = takes]
    <3>1. pendingOutgoing' = Append(pendingOutgoing, d)
      BY <2>1, <2>3, Zenon DEF ClientCalls, CallSeq
    <3>2. [cObjects[q] EXCEPT !.destroyed = TRUE] \in ClientObject
      BY DEF ClientObject
    <3>3. after \in Seq(ClientObject) /\ Len(after) = Len(cObjects)
      BY <3>2, UpdateType DEF ClientTypeOK
    <3>4. made \in ClientObject /\ made.protocol = cObjects[q].protocol /\ made.version = 0
      <4>1. cObjects[q].protocol \in Protocols
        BY DEF ClientObject
      <4> QED
        BY <4>1 DEF NewClientObject, ClientObject
    <3>5. cObjects' = IF Creates(x) THEN Append(after, made) ELSE after
      BY <2>1 DEF ClientCalls
    <3>6. IsDestructor(x) => after[q].destroyed /\ ~Creates(x)
      BY DEF ClientTypeOK, ClientObject, IsDestructor, Creates
    <3> HIDE DEF after, made
    <3>7. Creates(x) => Fresh(cObjects[q].protocol, 0)
      BY <3>3, <3>4, <3>5, AppendIsFresh
    <3>8. Deferring(d)
      <4>1. cObjects[q].held /\ ~cObjects[q].destroyed /\ Since(x) <= cObjects[q].version
        BY <2>1, Zenon DEF ClientCalls
      <4>2. IsDestructor(x) => cObjects'[q].destroyed
        BY <3>5, <3>6
      <4> QED
        BY <2>3, <3>7, <4>1, <4>2, Zenon DEF Deferring
    <3>9. \A j \in 1 .. Len(pendingOutgoing') :
            pendingOutgoing'[j] = d \/ (j \in 1 .. Len(pendingOutgoing) /\ pendingOutgoing'[j] = pendingOutgoing[j])
      <4> HIDE DEF d
      <4> QED
        BY <3>1, AppendProperties DEF ClientTypeOK
    <3> QED
      BY <3>8, <3>9
  <2> QED
    BY <2>2, <2>3
<1>4. CASE ClientCloses
  <2>1. pendingOutgoing' = <<>>
    BY <1>4, Zenon DEF ClientCloses
  <2> QED
    BY <2>1
<1> HIDE DEF Goal
<1> USE <1>1 DEF wireVars
<1>5. CASE ClientCallReturns \/ ClientBeginsDispatch \/ ClientFindsNothing \/ ClientReads
  BY <1>5, Zenon DEF ClientCallReturns, ClientBeginsDispatch, ClientFindsNothing, ClientReads
<1>6. CASE ClientTimesOut \/ ClientReadsEnd \/ ClientListenerReturns \/ ClientHandlesBegin
  BY <1>6, Zenon DEF ClientTimesOut, ClientReadsEnd, ClientListenerReturns, ClientHandlesBegin
<1>7. CASE ClientHandlesProtocols \/ ClientHandlesNewObject \/ ClientHandlesUnknown \/ ClientDropsEvent
  BY <1>7, Zenon DEF ClientHandlesProtocols, ClientHandlesNewObject, ClientHandlesUnknown,
     ClientDropsEvent
<1>8. CASE ClientCalled \/ ClientHandlesFatal \/ ClientHandlesDone \/ ClientRejects
  BY <1>8, Zenon DEF ClientCalled, ClientHandlesFatal, ClientHandlesDone, ClientRejects
<1>9. CASE ClientWaitsForHandshake \/ ClientDispatches \/ ClientRoundtrips
  BY <1>9, Zenon DEF ClientWaitsForHandshake, ClientDispatches, ClientRoundtrips
<1>10. CASE \E p \in Protocols, v \in 1 .. 2 : ClientBinds(p, v) \/ ClientBindsTooNew(p, v)
  BY <1>10, Zenon DEF ClientBinds, ClientBindsTooNew
<1>11. CASE \E q \in 1 .. Len(cObjects) : ClientLetsGo(q)
  BY <1>11, Zenon DEF ClientLetsGo
<1> QED
  BY <1>2, <1>3, <1>4, <1>5, <1>6, <1>7, <1>8, <1>9, <1>10, <1>11, Zenon
     DEF ClientSteps, ClientRuns, ClientHandles, ClientActs

\* The handshake is done when the server's list is read, and stays done.
LEMMA ClientShakesHands ==
    ASSUME ClientInv, ClientSteps
    PROVE  \/ handshakeDone' = handshakeDone /\ serverSpecs' = serverSpecs
           \/ \E n \in Coming : /\ n.type = "HANDSHAKE_PROTOCOLS"
                                /\ serverSpecs' = serverSpecs \cup n.protocols
                                /\ handshakeDone' = TRUE
<1>1. CASE ClientHandlesProtocols
  BY <1>1, ParsedIsComing, Zenon DEF ClientHandlesProtocols, ClientParses, ClientInv
<1> USE DEF wireVars
<1>2. CASE ClientCallReturns \/ ClientBeginsDispatch \/ ClientFindsNothing \/ ClientReads
  BY <1>2, Zenon DEF ClientCallReturns, ClientBeginsDispatch, ClientFindsNothing, ClientReads
<1>3. CASE ClientTimesOut \/ ClientReadsEnd \/ ClientListenerReturns \/ ClientHandlesBegin
  BY <1>3, Zenon DEF ClientTimesOut, ClientReadsEnd, ClientListenerReturns, ClientHandlesBegin
<1>4. CASE ClientFinishesBatch \/ ClientHandlesNewObject \/ ClientHandlesUnknown \/ ClientDropsEvent
  BY <1>4, Zenon DEF ClientFinishesBatch, ClientHandlesNewObject, ClientHandlesUnknown,
     ClientDropsEvent
<1>5. CASE ClientCalled \/ ClientHandlesFatal \/ ClientHandlesDone \/ ClientRejects
  BY <1>5, Zenon DEF ClientCalled, ClientHandlesFatal, ClientHandlesDone, ClientRejects
<1>6. CASE ClientWaitsForHandshake \/ ClientDispatches \/ ClientRoundtrips \/ ClientCloses
  BY <1>6, Zenon DEF ClientWaitsForHandshake, ClientDispatches, ClientRoundtrips, ClientCloses
<1>7. CASE \E p \in Protocols, v \in 1 .. 2 : ClientBinds(p, v) \/ ClientBindsTooNew(p, v)
  BY <1>7, Zenon DEF ClientBinds, ClientBindsTooNew
<1>8. CASE \E q \in 1 .. Len(cObjects), x \in Requests, takes \in BOOLEAN : ClientCalls(q, x, takes)
  BY <1>8, Zenon DEF ClientCalls
<1>9. CASE \E q \in 1 .. Len(cObjects) : ClientLetsGo(q)
  BY <1>9, Zenon DEF ClientLetsGo
<1> QED
  BY <1>1, <1>2, <1>3, <1>4, <1>5, <1>6, <1>7, <1>8, <1>9, Zenon
     DEF ClientSteps, ClientRuns, ClientHandles, ClientActs

-----------------------------------------------------------------------------
(* What the client asks for, and that it asks once *)

\* The objects that deferred calls will ask for, and that each is asked for once.
SeqsDeferred(p) == {p[k].seq : k \in {j \in 1 .. Len(p) : Creates(p[j].method)}}
DefersOnce(p)   ==
    \A j, k \in 1 .. Len(p) :
        Creates(p[j].method) /\ Creates(p[k].method) /\ p[j].seq = p[k].seq => j = k

\* The requests of the client that the server has not read.
Outstanding == SeqsAsked(c2s) \cup SeqsDeferred(pendingOutgoing)
ClientOnce  ==
    /\ AsksOnce(c2s)
    /\ DefersOnce(pendingOutgoing)
    /\ SeqsAsked(c2s) \cap SeqsDeferred(pendingOutgoing) = {}
    /\ Outstanding \subseteq 1 .. Len(cObjects)

\* Farewells ask for nothing.
LEMMA FarewellsAskNothing ==
    ASSUME ClientTypeOK, NEW s \in Farewells
    PROVE  AsksOnce(s) /\ SeqsAsked(s) = {}
<1>1. \A m \in Range(s) : ~AsksFor(m)
  BY FarewellsDepart DEF Departing, FarewellTo, Generic, AsksFor, Creates
<1> QED
  BY <1>1, FarewellsType, SilentAsksNothing

\* What is flushed asks for what was deferred, and what is left deferred is
\* not asked for.
LEMMA FlushedAsksOnce ==
    ASSUME ClientInv, DefersOnce(pendingOutgoing), NEW s \in Flushed,
           NEW waiting \in InOrder(AwaitingDeferrals),
           NEW w, w = [k \in DOMAIN waiting |-> pendingOutgoing[waiting[k]]]
    PROVE  /\ AsksOnce(s)
           /\ DefersOnce(w)
           /\ SeqsAsked(s) \subseteq SeqsDeferred(pendingOutgoing)
           /\ SeqsDeferred(w) \subseteq SeqsDeferred(pendingOutgoing)
           /\ SeqsAsked(s) \cap SeqsDeferred(w) = {}
<1> DEFINE n == Len(pendingOutgoing)
           K == ResolvableDeferrals
           Sending(k) == LET d == pendingOutgoing[k]
                         IN  Generic(cObjects[d.dependsOn].id, d.method, d.seq)
<1>1. n \in Nat
  BY LenProperties DEF ClientInv, ClientTypeOK
<1>2. PICK ready \in InOrder(K) : s = [k \in DOMAIN ready |-> Sending(ready[k])]
  BY DEF Flushed
<1>3. K \in SUBSET (1 .. n) /\ AwaitingDeferrals \in SUBSET (1 .. n)
  BY DEF ResolvableDeferrals, AwaitingDeferrals
<1>4. K \cap AwaitingDeferrals = {}
  BY DEF ResolvableDeferrals, AwaitingDeferrals, Resolvable, Awaiting
<1>5. /\ DOMAIN ready = 1 .. Cardinality(K)
      /\ Cardinality(K) \in Nat
      /\ \A k \in DOMAIN ready : ready[k] \in K
      /\ \A j, k \in DOMAIN ready : ready[j] = ready[k] => j = k
  <2> HIDE DEF K, n
  <2> QED
    BY <1>1, <1>3, InOrderType, InOrderInjective
<1>6. /\ DOMAIN waiting = 1 .. Cardinality(AwaitingDeferrals)
      /\ Cardinality(AwaitingDeferrals) \in Nat
      /\ \A k \in DOMAIN waiting : waiting[k] \in AwaitingDeferrals
      /\ \A j, k \in DOMAIN waiting : waiting[j] = waiting[k] => j = k
  <2> HIDE DEF n
  <2> QED
    BY <1>1, <1>3, InOrderType, InOrderInjective
<1>7. \A k \in 1 .. n :
        /\ AsksFor(Sending(k)) <=> Creates(pendingOutgoing[k].method)
        /\ Sending(k).seq = pendingOutgoing[k].seq
  BY DEF Generic, AsksFor
<1> HIDE DEF Sending, K
<1>8. Len(s) = Cardinality(K) /\ \A k \in 1 .. Len(s) : s[k] = Sending(ready[k])
  <2>1. DOMAIN s = 1 .. Cardinality(K)
    BY <1>2, <1>5
  <2>2. s \in Seq(ClientMessage)
    BY FlushedType
  <2>3. Len(s) = Cardinality(K)
    BY <1>5, <2>1, <2>2, LenProperties
  <2> QED
    BY <1>2, <1>5, <2>3
<1>9. Len(w) = Cardinality(AwaitingDeferrals)
      /\ \A k \in 1 .. Len(w) : w[k] = pendingOutgoing[waiting[k]]
  <2>1. DOMAIN w = 1 .. Cardinality(AwaitingDeferrals)
    BY <1>6
  <2>2. w \in Seq(Deferred)
    BY WaitingType
  <2>3. Len(w) = Cardinality(AwaitingDeferrals)
    BY <1>6, <2>1, <2>2, LenProperties
  <2> QED
    BY <1>6, <2>3
<1>10. \A k \in 1 .. Len(s) :
         /\ ready[k] \in 1 .. n
         /\ ready[k] \in K
         /\ AsksFor(s[k]) => Creates(pendingOutgoing[ready[k]].method)
         /\ s[k].seq = pendingOutgoing[ready[k]].seq
  BY <1>3, <1>5, <1>7, <1>8
<1>11. \A k \in 1 .. Len(w) :
         /\ waiting[k] \in 1 .. n
         /\ waiting[k] \in AwaitingDeferrals
         /\ w[k] = pendingOutgoing[waiting[k]]
  BY <1>3, <1>6, <1>9
<1>21. ASSUME NEW a \in 1 .. n, NEW b \in 1 .. n, Creates(pendingOutgoing[a].method),
              Creates(pendingOutgoing[b].method), pendingOutgoing[a].seq = pendingOutgoing[b].seq
       PROVE  a = b
  BY <1>21 DEF DefersOnce
<1> HIDE DEF n
<1>18. ASSUME NEW j \in 1 .. Len(s), NEW k \in 1 .. Len(s),
              AsksFor(s[j]), AsksFor(s[k]), s[j].seq = s[k].seq
       PROVE  ready[j] = ready[k]
  <2>1. /\ Creates(pendingOutgoing[ready[j]].method)
        /\ Creates(pendingOutgoing[ready[k]].method)
    BY <1>10, <1>18, Zenon
  <2>2. /\ ready[j] \in 1 .. n
        /\ ready[k] \in 1 .. n
        /\ pendingOutgoing[ready[j]].seq = pendingOutgoing[ready[k]].seq
    BY <1>10, <1>18
  <2> QED
    BY <1>21, <2>1, <2>2
<1>19. ASSUME NEW j \in 1 .. Len(w), NEW k \in 1 .. Len(w),
              Creates(w[j].method), Creates(w[k].method), w[j].seq = w[k].seq
       PROVE  waiting[j] = waiting[k]
  <2>1. /\ w[j] = pendingOutgoing[waiting[j]]
        /\ w[k] = pendingOutgoing[waiting[k]]
        /\ waiting[j] \in 1 .. n
        /\ waiting[k] \in 1 .. n
    BY <1>11
  <2>2. /\ Creates(pendingOutgoing[waiting[j]].method)
        /\ Creates(pendingOutgoing[waiting[k]].method)
        /\ pendingOutgoing[waiting[j]].seq = pendingOutgoing[waiting[k]].seq
    BY <1>19, <2>1
  <2> QED
    BY <1>21, <2>1, <2>2
<1>20. ASSUME NEW j \in 1 .. Len(s), NEW k \in 1 .. Len(w), AsksFor(s[j]), Creates(w[k].method),
              s[j].seq = w[k].seq
       PROVE  ready[j] = waiting[k]
  <2>1. /\ Creates(pendingOutgoing[ready[j]].method)
        /\ Creates(pendingOutgoing[waiting[k]].method)
    BY <1>10, <1>11, <1>20, Zenon
  <2>2. /\ ready[j] \in 1 .. n
        /\ waiting[k] \in 1 .. n
        /\ pendingOutgoing[ready[j]].seq = pendingOutgoing[waiting[k]].seq
    BY <1>10, <1>11, <1>20
  <2> QED
    BY <1>21, <2>1, <2>2
<1>12. AsksOnce(s)
  <2>1. \A j, k \in 1 .. Len(s) : ready[j] = ready[k] => j = k
    BY <1>5, <1>8
  <2>2. ASSUME NEW j \in 1 .. Len(s), NEW k \in 1 .. Len(s),
               AsksFor(s[j]), AsksFor(s[k]), s[j].seq = s[k].seq
        PROVE  j = k
    <3>1. ready[j] = ready[k]
      BY <1>18, <2>2
    <3> QED
      BY <2>1, <3>1
  <2> QED
    BY <2>2 DEF AsksOnce
<1>13. DefersOnce(w)
  <2>1. \A j, k \in 1 .. Len(w) : waiting[j] = waiting[k] => j = k
    BY <1>6, <1>9
  <2>2. ASSUME NEW j \in 1 .. Len(w), NEW k \in 1 .. Len(w),
               Creates(w[j].method), Creates(w[k].method), w[j].seq = w[k].seq
        PROVE  j = k
    <3>1. waiting[j] = waiting[k]
      BY <1>19, <2>2
    <3> QED
      BY <2>1, <3>1
  <2> QED
    BY <2>2 DEF DefersOnce
<1>14. SeqsAsked(s) \subseteq SeqsDeferred(pendingOutgoing)
  BY <1>10 DEF SeqsAsked, SeqsDeferred, n
<1>15. SeqsDeferred(w) \subseteq SeqsDeferred(pendingOutgoing)
  BY <1>11 DEF SeqsDeferred, n
<1>16. ASSUME NEW j \in 1 .. Len(s), NEW k \in 1 .. Len(w), AsksFor(s[j]), Creates(w[k].method),
              s[j].seq = w[k].seq
       PROVE  FALSE
  <2>1. ready[j] = waiting[k]
    BY <1>10, <1>16, <1>20
  <2> QED
    BY <1>4, <1>10, <1>11, <2>1
<1>17. SeqsAsked(s) \cap SeqsDeferred(w) = {}
  BY <1>16 DEF SeqsAsked, SeqsDeferred
<1> QED
  BY <1>12, <1>13, <1>14, <1>15, <1>17

\* A call that joins the deferred ones asks for its own object only.
LEMMA DefersOneMore ==
    ASSUME ClientTypeOK, DefersOnce(pendingOutgoing), NEW d \in Deferred,
           Creates(d.method) => d.seq \notin SeqsDeferred(pendingOutgoing)
    PROVE  /\ DefersOnce(Append(pendingOutgoing, d))
           /\ SeqsDeferred(Append(pendingOutgoing, d)) \subseteq
                SeqsDeferred(pendingOutgoing) \cup (IF Creates(d.method) THEN {d.seq} ELSE {})
<1> DEFINE p == Append(pendingOutgoing, d)
           n == Len(pendingOutgoing)
<1>1. /\ n \in Nat
      /\ Len(p) = n + 1
      /\ p[n + 1] = d
      /\ \A k \in 1 .. n : p[k] = pendingOutgoing[k]
  BY LenProperties, AppendProperties DEF ClientTypeOK
<1> HIDE DEF p
<1>2. \A k \in 1 .. Len(p) : (k \in 1 .. n /\ p[k] = pendingOutgoing[k]) \/ (k = n + 1 /\ p[k] = d)
  BY <1>1
<1>3. ASSUME NEW k \in 1 .. n, Creates(pendingOutgoing[k].method), Creates(d.method)
      PROVE  pendingOutgoing[k].seq # d.seq
  BY <1>3 DEF SeqsDeferred
<1>4. ASSUME NEW j \in 1 .. Len(p), NEW k \in 1 .. Len(p),
             Creates(p[j].method), Creates(p[k].method), p[j].seq = p[k].seq
      PROVE  j = k
  <2>1. CASE j \in 1 .. n /\ k \in 1 .. n
    BY <1>1, <1>4, <2>1 DEF DefersOnce
  <2>2. CASE j \in 1 .. n /\ k = n + 1
    BY <1>1, <1>3, <1>4, <2>2
  <2>3. CASE j = n + 1 /\ k \in 1 .. n
    BY <1>1, <1>3, <1>4, <2>3
  <2>4. CASE j = n + 1 /\ k = n + 1
    BY <2>4
  <2> QED
    BY <1>2, <2>1, <2>2, <2>3, <2>4
<1>5. DefersOnce(p)
  BY <1>4 DEF DefersOnce
<1>6. ASSUME NEW k \in 1 .. Len(p), Creates(p[k].method)
      PROVE  p[k].seq \in SeqsDeferred(pendingOutgoing) \/ (Creates(d.method) /\ p[k].seq = d.seq)
  BY <1>2, <1>6 DEF SeqsDeferred
<1>7. SeqsDeferred(p) \subseteq
        SeqsDeferred(pendingOutgoing) \cup (IF Creates(d.method) THEN {d.seq} ELSE {})
  BY <1>6 DEF SeqsDeferred
<1> QED
  BY <1>5, <1>7 DEF p

\* Whatever a step of the client's writes or defers, each object is asked for
\* once, and what is newly asked for is the newest object.
LEMMA ClientAsksOnce ==
    ASSUME WireTypeOK, ClientInv, ClientSteps, ClientOnce
    PROVE  /\ AsksOnce(c2s')
           /\ DefersOnce(pendingOutgoing')
           /\ SeqsAsked(c2s') \cap SeqsDeferred(pendingOutgoing') = {}
           /\ \A q \in Outstanding' :
                q \in Outstanding \/ (q = Len(cObjects) + 1 /\ Len(cObjects') = Len(cObjects) + 1)
<1> /\ ClientTypeOK
    /\ Len(cObjects) \in Nat
    /\ AsksOnce(c2s)
    /\ DefersOnce(pendingOutgoing)
    /\ SeqsAsked(c2s) \cap SeqsDeferred(pendingOutgoing) = {}
    /\ SeqsAsked(c2s) \subseteq 1 .. Len(cObjects)
    /\ SeqsDeferred(pendingOutgoing) \subseteq 1 .. Len(cObjects)
  BY LenProperties DEF ClientInv, ClientTypeOK, ClientOnce, Outstanding
<1> DEFINE Goal == /\ AsksOnce(c2s')
                   /\ DefersOnce(pendingOutgoing')
                   /\ SeqsAsked(c2s') \cap SeqsDeferred(pendingOutgoing') = {}
                   /\ \A q \in Outstanding' :
                        \/ q \in Outstanding
                        \/ q = Len(cObjects) + 1 /\ Len(cObjects') = Len(cObjects) + 1
<1> SUFFICES Goal
  OBVIOUS
<1>1. ASSUME c2s' = c2s, pendingOutgoing' = pendingOutgoing
      PROVE  Goal
  BY <1>1 DEF Outstanding
<1>2. ASSUME pendingOutgoing' = pendingOutgoing,
             NEW msgs \in Seq(ClientMessage), ClientSends(msgs), AsksOnce(msgs), SeqsAsked(msgs) = {}
      PROVE  Goal
  <2>1. /\ AsksOnce(c2s')
        /\ SeqsAsked(c2s') \subseteq SeqsAsked(c2s)
    BY <1>2, ClientSendsOnce
  <2> QED
    BY <1>2, <2>1 DEF Outstanding
<1>3. ASSUME pendingOutgoing' = pendingOutgoing, NEW m \in ClientMessage, ClientSends(<<m>>),
             AsksFor(m) => m.seq = Len(cObjects) + 1 /\ Len(cObjects') = Len(cObjects) + 1
      PROVE  Goal
  <2>1. <<m>> \in Seq(ClientMessage)
    OBVIOUS
  <2>2. CASE AsksFor(m)
    <3>1. SeqsAsked(<<m>>) = {Len(cObjects) + 1} /\ AsksOnce(<<m>>)
      BY <1>3, <2>2, OneAsksOnce
    <3>2. Len(cObjects) + 1 \notin 1 .. Len(cObjects)
      OBVIOUS
    <3>3. /\ AsksOnce(c2s')
          /\ SeqsAsked(c2s') \subseteq SeqsAsked(c2s) \cup {Len(cObjects) + 1}
      <4>1. SeqsAsked(c2s) \cap SeqsAsked(<<m>>) = {}
        BY <3>1, <3>2
      <4> QED
        BY <1>3, <2>1, <3>1, <4>1, ClientSendsOnce
    <3> QED
      BY <1>3, <2>2, <3>2, <3>3 DEF Outstanding
  <2>3. CASE ~AsksFor(m)
    <3>1. SeqsAsked(<<m>>) = {} /\ AsksOnce(<<m>>)
      BY <2>3, OneAsksOnce
    <3> QED
      BY <1>2, <1>3, <2>1, <3>1
  <2> QED
    BY <2>2, <2>3
<1>4. CASE ClientHandlesBegin
  <2>1. pendingOutgoing' = pendingOutgoing
    BY <1>4 DEF ClientHandlesBegin
  <2>2. c2s' = c2s \/ ClientSends(<<HandshakeAck(HYPRWIRE_PROTOCOL_VER)>>)
    BY <1>4, Zenon DEF ClientHandlesBegin
  <2>3. /\ HandshakeAck(HYPRWIRE_PROTOCOL_VER) \in ClientMessage
        /\ ~AsksFor(HandshakeAck(HYPRWIRE_PROTOCOL_VER))
    BY ClientMessages DEF HYPRWIRE_PROTOCOL_VER, HandshakeAck, AsksFor
  <2> HIDE DEF Goal
  <2> QED
    BY <1>1, <1>3, <2>1, <2>2, <2>3
<1>5. CASE ClientBeginsDispatch
  <2>1. PICK farewells \in Farewells : ClientSends(farewells)
    BY <1>5 DEF ClientBeginsDispatch
  <2>2. pendingOutgoing' = pendingOutgoing
    BY <1>5 DEF ClientBeginsDispatch
  <2> HIDE DEF Goal
  <2> QED
    BY <1>2, <2>1, <2>2, FarewellsType, FarewellsAskNothing
<1>6. CASE ClientFinishesBatch
  <2>1. PICK flushed \in Flushed, farewells \in Farewells : ClientSends(flushed \o farewells)
    BY <1>6 DEF ClientFinishesBatch
  <2>2. PICK waiting \in InOrder(AwaitingDeferrals) :
           pendingOutgoing' = [k \in DOMAIN waiting |-> pendingOutgoing[waiting[k]]]
    BY <1>6 DEF ClientFinishesBatch
  <2>3. /\ AsksOnce(flushed)
        /\ DefersOnce(pendingOutgoing')
        /\ SeqsAsked(flushed) \subseteq SeqsDeferred(pendingOutgoing)
        /\ SeqsDeferred(pendingOutgoing') \subseteq SeqsDeferred(pendingOutgoing)
        /\ SeqsAsked(flushed) \cap SeqsDeferred(pendingOutgoing') = {}
    BY <2>2, FlushedAsksOnce
  <2>4. flushed \in Seq(ClientMessage) /\ farewells \in Seq(ClientMessage)
    BY FlushedType, FarewellsType
  <2>5. /\ flushed \o farewells \in Seq(ClientMessage)
        /\ AsksOnce(flushed \o farewells)
        /\ SeqsAsked(flushed \o farewells) = SeqsAsked(flushed)
    <3>1. AsksOnce(farewells) /\ SeqsAsked(farewells) = {}
      BY FarewellsAskNothing
    <3>2. flushed \o farewells \in Seq(ClientMessage)
      BY <2>4, ConcatProperties
    <3>3. /\ AsksOnce(flushed \o farewells)
          /\ SeqsAsked(flushed \o farewells) = SeqsAsked(flushed) \cup SeqsAsked(farewells)
      <4>1. AsksOnce(flushed) /\ SeqsAsked(flushed) \cap SeqsAsked(farewells) = {}
        BY <2>3, <3>1
      <4>2. ASSUME NEW a \in Seq(ClientMessage), NEW b \in Seq(ClientMessage), AsksOnce(a), AsksOnce(b),
                   SeqsAsked(a) \cap SeqsAsked(b) = {}
            PROVE  AsksOnce(a \o b) /\ SeqsAsked(a \o b) = SeqsAsked(a) \cup SeqsAsked(b)
        BY <4>2, AsksOnceJoined
      <4> QED
        BY <2>4, <3>1, <4>1, <4>2
    <3> QED
      BY <3>1, <3>2, <3>3
  <2>6. /\ AsksOnce(c2s')
        /\ SeqsAsked(c2s') \subseteq SeqsAsked(c2s) \cup SeqsAsked(flushed)
    BY <2>1, <2>3, <2>5, ClientSendsOnce
  <2> QED
    BY <2>3, <2>6 DEF Outstanding
<1>7. CASE \E p \in Protocols, v \in 1 .. 2 : ClientBinds(p, v)
  <2>1. PICK p \in Protocols, v \in 1 .. 2 : ClientBinds(p, v)
    BY <1>7
  <2>2. /\ ClientSends(<<BindProtocol(Len(cObjects) + 1, p, v)>>)
        /\ pendingOutgoing' = pendingOutgoing
        /\ cObjects' = Append(cObjects, NewClientObject(p, v, TRUE))
    BY <2>1 DEF ClientBinds
  <2>3. /\ BindProtocol(Len(cObjects) + 1, p, v) \in ClientMessage
        /\ BindProtocol(Len(cObjects) + 1, p, v).seq = Len(cObjects) + 1
    BY ClientMessages DEF BindProtocol
  <2>4. Len(cObjects') = Len(cObjects) + 1
    BY <2>2, AppendProperties DEF ClientTypeOK
  <2> HIDE DEF Goal
  <2> QED
    BY <1>3, <2>2, <2>3, <2>4
<1>8. CASE \E q \in 1 .. Len(cObjects), x \in Requests, takes \in BOOLEAN : ClientCalls(q, x, takes)
  <2>1. PICK q \in 1 .. Len(cObjects), x \in Requests, takes \in BOOLEAN : ClientCalls(q, x, takes)
    BY <1>8
  <2> DEFINE after == IF IsDestructor(x) THEN [cObjects EXCEPT ![q].destroyed = TRUE] ELSE cObjects
             made == [NewClientObject(cObjects[q].protocol, 0, takes) EXCEPT !.listening = takes]
  <2>2. cObjects[q] \in ClientObject /\ x \in AllRequests /\ CallSeq(x) \in Nat
    BY ElementOfSeq, MethodsAssumption DEF ClientTypeOK, CallSeq
  <2>3. after \in Seq(ClientObject) /\ Len(after) = Len(cObjects)
    <3>1. [cObjects[q] EXCEPT !.destroyed = TRUE] \in ClientObject
      BY <2>2 DEF ClientObject
    <3>2. cObjects \in Seq(ClientObject)
      BY DEF ClientTypeOK
    <3> QED
      BY <3>1, <3>2, UpdateType
  <2>4. made \in ClientObject
    BY <2>2 DEF NewClientObject, ClientObject
  <2>5. cObjects' = IF Creates(x) THEN Append(after, made) ELSE after
    BY <2>1 DEF ClientCalls
  <2> HIDE DEF after, made
  <2>6. Creates(x) => CallSeq(x) = Len(cObjects) + 1 /\ Len(cObjects') = Len(cObjects) + 1
    BY <2>3, <2>4, <2>5, AppendProperties DEF CallSeq
  <2>7. CASE cObjects[q].id # 0
    <3>1. /\ ClientSends(<<Generic(cObjects[q].id, x, CallSeq(x))>>)
          /\ pendingOutgoing' = pendingOutgoing
      BY <2>1, <2>7 DEF ClientCalls, CallSeq
    <3>2. Generic(cObjects[q].id, x, CallSeq(x)) \in ClientMessage
      BY <2>2, ClientMessages DEF ClientObject
    <3>3. /\ AsksFor(Generic(cObjects[q].id, x, CallSeq(x))) <=> Creates(x)
          /\ Generic(cObjects[q].id, x, CallSeq(x)).seq = CallSeq(x)
      BY DEF AsksFor, Generic
    <3> HIDE DEF Goal
    <3> QED
      BY <1>3, <2>6, <3>1, <3>2, <3>3
  <2>8. CASE cObjects[q].id = 0
    <3> DEFINE d == [dependsOn |-> q, method |-> x, seq |-> CallSeq(x)]
    <3>1. c2s' = c2s /\ pendingOutgoing' = Append(pendingOutgoing, d)
      BY <2>1, <2>8 DEF ClientCalls, CallSeq
    <3>2. d \in Deferred /\ d.method = x /\ d.seq = CallSeq(x)
      BY <2>2 DEF Deferred
    <3> HIDE DEF d
    <3>3. Len(cObjects) + 1 \notin 1 .. Len(cObjects)
      OBVIOUS
    <3>4. Creates(x) => CallSeq(x) \notin SeqsDeferred(pendingOutgoing)
      BY <2>6, <3>3
    <3>5. /\ DefersOnce(pendingOutgoing')
          /\ SeqsDeferred(pendingOutgoing') \subseteq
               SeqsDeferred(pendingOutgoing) \cup (IF Creates(x) THEN {CallSeq(x)} ELSE {})
      BY <3>1, <3>2, <3>4, DefersOneMore
    <3>6. SeqsAsked(c2s') \cap SeqsDeferred(pendingOutgoing') = {}
      BY <2>6, <3>1, <3>3, <3>5
    <3>7. \A r \in Outstanding' :
             r \in Outstanding \/ (r = Len(cObjects) + 1 /\ Len(cObjects') = Len(cObjects) + 1)
      BY <2>6, <3>1, <3>5 DEF Outstanding
    <3> QED
      BY <3>1, <3>5, <3>6, <3>7
  <2> QED
    BY <2>7, <2>8
<1>9. CASE ClientRoundtrips
  <2>1. RoundtripRequest(lastSent') \in ClientMessage /\ ~AsksFor(RoundtripRequest(lastSent'))
    BY <1>9, ClientMessages DEF ClientRoundtrips, ClientTypeOK, RoundtripRequest, AsksFor
  <2>2. ClientSends(<<RoundtripRequest(lastSent')>>) /\ pendingOutgoing' = pendingOutgoing
    BY <1>9 DEF ClientRoundtrips
  <2> HIDE DEF Goal
  <2> QED
    BY <1>3, <2>1, <2>2
<1>10. CASE ClientCloses
  <2>1. c2s' = c2s /\ pendingOutgoing' = <<>>
    BY <1>10, Zenon DEF ClientCloses
  <2>2. DefersOnce(<<>>) /\ SeqsDeferred(<<>>) = {}
    <3>1. Len(<<>>) = 0 /\ 1 .. 0 = {}
      OBVIOUS
    <3> QED
      BY <3>1 DEF DefersOnce, SeqsDeferred
  <2> QED
    BY <2>1, <2>2 DEF Outstanding
<1> HIDE DEF Goal
<1> USE <1>1 DEF wireVars
<1>11. CASE ClientCallReturns \/ ClientFindsNothing \/ ClientReads
  BY <1>11, Zenon DEF ClientCallReturns, ClientFindsNothing, ClientReads
<1>12. CASE ClientTimesOut \/ ClientReadsEnd \/ ClientListenerReturns
  BY <1>12, Zenon DEF ClientTimesOut, ClientReadsEnd, ClientListenerReturns
<1>13. CASE ClientHandlesProtocols \/ ClientHandlesNewObject \/ ClientHandlesUnknown \/ ClientDropsEvent
  BY <1>13, Zenon DEF ClientHandlesProtocols, ClientHandlesNewObject, ClientHandlesUnknown,
     ClientDropsEvent
<1>14. CASE ClientCalled \/ ClientHandlesFatal \/ ClientHandlesDone \/ ClientRejects
  BY <1>14, Zenon DEF ClientCalled, ClientHandlesFatal, ClientHandlesDone, ClientRejects
<1>15. CASE ClientWaitsForHandshake \/ ClientDispatches
  BY <1>15, Zenon DEF ClientWaitsForHandshake, ClientDispatches
<1>16. CASE \E p \in Protocols, v \in 1 .. 2 : ClientBindsTooNew(p, v)
  BY <1>16, Zenon DEF ClientBindsTooNew
<1>17. CASE \E q \in 1 .. Len(cObjects) : ClientLetsGo(q)
  BY <1>17, Zenon DEF ClientLetsGo
<1> QED
  BY <1>4, <1>5, <1>6, <1>7, <1>8, <1>9, <1>10, <1>11, <1>12, <1>13, <1>14, <1>15, <1>16, <1>17,
     Zenon DEF ClientSteps, ClientRuns, ClientHandles, ClientActs

-----------------------------------------------------------------------------
(* What a listener was called for *)

\* An event came for the object.
HeardOf(q) ==
    /\ q \in 1 .. Len(cObjects)
    /\ \E m \in Coming : m.type = "GENERIC" /\ cObjects[q].id = m.object

\* The method came.
CameFor(x) == \E m \in Coming : m.type = "GENERIC" /\ m.method = x

\* A listener runs for nothing, for what a listener ran before the step, or
\* for an object an event has come for.
LEMMA CalledStays ==
    ASSUME WireTypeOK, ClientInv, ClientSteps, NEW k \in 1 .. Len(stack')
    PROVE  \/ stack'[k].called = Idle
           \/ \E g \in 1 .. Len(stack) : stack'[k].called = stack[g].called
           \/ HeardOf(stack'[k].called.seq) /\ CameFor(stack'[k].called.method)
<1> ClientTypeOK
  BY DEF ClientInv
<1> DEFINE Meant(f) == \/ f.called = Idle
                       \/ \E g \in 1 .. Len(stack) : f.called = stack[g].called
                       \/ HeardOf(f.called.seq) /\ CameFor(f.called.method)
           Goal == Meant(stack'[k])
<1> SUFFICES Goal
  OBVIOUS
<1>0. \A g \in 1 .. Len(stack) : Meant(stack[g])
  OBVIOUS
<1>1. ASSUME NEW f \in Frame, stack # <<>>, SetTop(f), Meant(f)
      PROVE  Goal
  <2> HIDE DEF Meant
  <2>1. /\ Len(stack') = Len(stack)
        /\ stack'[1] = f
        /\ \A j \in 2 .. Len(stack) : stack'[j] = stack[j]
        /\ Len(stack) \in Nat
    BY <1>1, StackSteps
  <2>2. k = 1 \/ (k \in 2 .. Len(stack) /\ k \in 1 .. Len(stack))
    BY <2>1
  <2> QED
    BY <1>0, <1>1, <2>1, <2>2
<1>2. ASSUME stack # <<>>, Pop
      PROVE  Goal
  <2> HIDE DEF Meant
  <2>1. /\ k + 1 \in 2 .. Len(stack) /\ stack'[k] = stack[k + 1]
        /\ \A j \in 2 .. Len(stack) : j \in 1 .. Len(stack)
    BY <1>2, StackSteps
  <2> QED
    BY <1>0, <2>1
<1>3. ASSUME NEW w \in Waits, NEW a \in Nat, Push(NewFrame(w, a))
      PROVE  Goal
  <2>1. Meant(NewFrame(w, a))
    BY DEF NewFrame, Idle
  <2> HIDE DEF Meant
  <2>2. Len(stack') \in Nat /\ NewFrame(w, a) \in Frame
    BY <1>3, StackSteps, NewFrameType
  <2>3. k = 1 \/ k \in 2 .. Len(stack')
    BY <2>2
  <2>4. stack'[k] = NewFrame(w, a) \/ \E j \in 1 .. Len(stack) : stack'[k] = stack[j]
    BY <1>3, <2>2, <2>3, StackSteps
  <2> QED
    BY <1>0, <2>1, <2>4
<1>4. ASSUME stack # <<>>
      PROVE  /\ Top \in Frame
             /\ \A f \in Frame : f.called = Top.called => Meant(f)
  <2>1. 1 \in 1 .. Len(stack) /\ Top = stack[1]
    BY <1>4, StackSteps
  <2> QED
    BY <1>4, <2>1, TopType
<1>5. ASSUME NEW ok, stack # <<>>, DispatchReturns(ok)
      PROVE  Goal
  <2>1. /\ [Top EXCEPT !.phase = "loop", !.batch = <<>>] \in Frame
        /\ [Top EXCEPT !.phase = "loop", !.batch = <<>>].called = Top.called
    BY <1>5, TopType, EmptySeq DEF Frame, Phases
  <2> HIDE DEF Meant, Goal
  <2> QED
    BY <1>1, <1>2, <1>4, <1>5, <2>1 DEF DispatchReturns
<1>6. ASSUME NEW t, ClientParses(t), SetTop(Consumed)
      PROVE  Goal
  <2>1. stack # <<>> /\ Consumed \in Frame
    BY <1>6, ReceivedType
  <2>2. Consumed.called = Top.called
    BY <2>1, TopType DEF Consumed, Frame
  <2> HIDE DEF Meant, Goal
  <2> QED
    BY <1>1, <1>4, <1>6, <2>1, <2>2
<1>7. CASE UNCHANGED stack
  BY <1>7
<1> HIDE DEF Meant, Goal
<1>8. CASE ClientCallReturns
  BY <1>2, <1>8 DEF ClientCallReturns, InPhase
<1>9. CASE ClientBeginsDispatch
  <2>1. stack # <<>> /\ Top \in Frame
    BY <1>9, TopType DEF ClientBeginsDispatch, InPhase
  <2>2. [Top EXCEPT !.phase = "poll"] \in Frame /\ [Top EXCEPT !.phase = "poll"].called = Top.called
    BY <2>1 DEF Frame, Phases
  <2> QED
    BY <1>1, <1>4, <1>9, <2>1, <2>2 DEF ClientBeginsDispatch
<1>10. CASE ClientTimesOut \/ ClientFindsNothing \/ ClientReadsEnd \/ ClientRejects \/ ClientFinishesBatch
  BY <1>5, <1>10 DEF ClientTimesOut, ClientFindsNothing, ClientReadsEnd, ClientRejects, ClientFinishesBatch,
     ClientParses, InPhase
<1>11. CASE ClientReads
  <2>1. PICK n \in ReadLengths(s2c) :
           SetTop([Top EXCEPT !.phase = "parse", !.batch = SubSeq(s2c, 1, n)])
    BY <1>11, Zenon DEF ClientReads
  <2>2. SubSeq(s2c, 1, n) \in Seq(ServerMessage)
    BY ReadSplitsQueue DEF WireTypeOK
  <2>3. stack # <<>> /\ Top \in Frame
    BY <1>11, TopType DEF ClientReads, InPhase
  <2>4. /\ [Top EXCEPT !.phase = "parse", !.batch = SubSeq(s2c, 1, n)] \in Frame
        /\ [Top EXCEPT !.phase = "parse", !.batch = SubSeq(s2c, 1, n)].called = Top.called
    BY <2>2, <2>3 DEF Frame, Phases
  <2> QED
    BY <1>1, <1>4, <2>1, <2>3, <2>4
<1>12. CASE ClientHandlesBegin
  <2>1. SetTop(Consumed) \/ DispatchReturns(FALSE)
    BY <1>12 DEF ClientHandlesBegin
  <2> QED
    BY <1>5, <1>6, <1>12, <2>1 DEF ClientHandlesBegin, ClientParses, InPhase
<1>13. CASE \/ ClientHandlesProtocols
            \/ ClientHandlesNewObject
            \/ ClientHandlesUnknown
            \/ ClientDropsEvent
            \/ ClientHandlesFatal
            \/ ClientHandlesDone
  BY <1>6, <1>13 DEF ClientHandlesProtocols, ClientHandlesNewObject, ClientHandlesUnknown,
     ClientDropsEvent, ClientHandlesFatal, ClientHandlesDone
<1>14. CASE ClientCalled
  <2>1. PICK q \in Addressees :
           SetTop([Consumed EXCEPT !.phase = "call",
                                   !.called = [seq |-> q, method |-> Received.method]])
    BY <1>14, Zenon DEF ClientCalled
  <2>2. Received \in ServerMessage /\ Consumed \in Frame /\ ClientParses("GENERIC") /\ stack # <<>>
    BY <1>14, ReceivedType DEF ClientCalled
  <2>3. q \in Nat /\ Received.method \in AllEvents
    BY <2>2 DEF ClientParses, Addressees, ServerMessage, Invalid
  <2> DEFINE c == [seq |-> q, method |-> Received.method]
             f == [Consumed EXCEPT !.phase = "call", !.called = c]
  <2>4. f \in Frame /\ f.called = c /\ c.seq = q /\ c.method = Received.method
    BY <2>2, <2>3 DEF Frame, Phases
  <2>5. HeardOf(q) /\ CameFor(Received.method)
    BY <2>2, ParsedIsComing DEF HeardOf, CameFor, Addressees, ClientParses
  <2>6. Meant(f)
    BY <2>4, <2>5 DEF Meant
  <2>7. SetTop(f)
    BY <2>1, Zenon
  <2> HIDE DEF c, f
  <2> QED
    BY <1>1, <2>2, <2>4, <2>6, <2>7
<1>15. CASE ClientListenerReturns
  <2>1. /\ [Top EXCEPT !.phase = "parse", !.called = Idle] \in Frame
        /\ [Top EXCEPT !.phase = "parse", !.called = Idle].called = Idle
        /\ stack # <<>>
    BY <1>15, TopType DEF ClientListenerReturns, InPhase, Frame, Phases, Idle
  <2> QED
    BY <1>1, <1>15, <2>1 DEF ClientListenerReturns, Meant
<1>16. CASE ClientWaitsForHandshake
  BY <1>3, <1>16 DEF ClientWaitsForHandshake, Waits
<1>17. CASE ClientDispatches
  BY <1>3, <1>17, ClientAssumption DEF ClientDispatches, Waits
<1>18. CASE \E p \in Protocols, v \in 1 .. 2 : ClientBinds(p, v)
  <2>1. Push(NewFrame("object", Len(cObjects) + 1)) /\ Len(cObjects) \in Nat
    BY <1>18, LenProperties DEF ClientBinds, ClientTypeOK
  <2> QED
    BY <1>3, <2>1 DEF Waits
<1>19. CASE ClientRoundtrips
  BY <1>3, <1>19 DEF ClientRoundtrips, Waits, ClientTypeOK
<1>20. CASE \E p \in Protocols, v \in 1 .. 2 : ClientBindsTooNew(p, v)
  BY <1>7, <1>20 DEF ClientBindsTooNew
<1>21. CASE \E q \in 1 .. Len(cObjects), m \in Requests, takes \in BOOLEAN : ClientCalls(q, m, takes)
  BY <1>7, <1>21 DEF ClientCalls
<1>22. CASE \E q \in 1 .. Len(cObjects) : ClientLetsGo(q)
  BY <1>7, <1>22 DEF ClientLetsGo
<1>23. CASE ClientCloses
  <2>1. stack' = stack
    BY <1>23, Zenon DEF ClientCloses
  <2> QED
    BY <1>7, <2>1
<1> QED
  BY <1>8, <1>9, <1>10, <1>11, <1>12, <1>13, <1>14, <1>15, <1>16, <1>17, <1>18, <1>19, <1>20, <1>21, <1>22, <1>23, Zenon
     DEF ClientSteps, ClientRuns, ClientHandles, ClientActs

-----------------------------------------------------------------------------
(* What becomes of the client's objects, and of what is announced to it, in  *)
(* one step                                                                  *)

\* What the promise of Objects tells of an object stays; one that is awaited
\* stays listed as well.
Keeps(u, o) ==
    /\ u.id = o.id
    /\ u.protocol = o.protocol
    /\ u.destroyed = o.destroyed
    /\ u.held = o.held
    /\ o.id = 0 => u.listed = o.listed

OffersStay == \A m \in Coming : m.type = "NEW_OBJECT" => m \in Coming'

\* No object is seen to change, and no announcement is lost but to a client
\* that gives up.
Idles ==
    /\ Len(cObjects') = Len(cObjects)
    /\ \A q \in 1 .. Len(cObjects) : Keeps(cObjects'[q], cObjects[q])
    /\ cError' \/ (cError' = cError /\ OffersStay)

\* One object is destroyed or let go.  It leaves m_objects only for an event.
CalledFor(i) == HeardOf(i) \/ \E f \in 1 .. Len(stack) : stack[f].called.seq = i

Frees(i) ==
    /\ i \in 1 .. Len(cObjects)
    /\ Len(cObjects') = Len(cObjects)
    /\ \A q \in 1 .. Len(cObjects) : q # i => Keeps(cObjects'[q], cObjects[q])
    /\ cObjects'[i].id = cObjects[i].id
    /\ cObjects'[i].protocol = cObjects[i].protocol
    /\ cObjects'[i].destroyed \/ ~cObjects'[i].held
    /\ cObjects'[i].listed = cObjects[i].listed \/ CalledFor(i)
    /\ cError' = cError
    /\ OffersStay

\* An announcement is handled.
Hears(n) ==
    /\ ClientHandlesNewObject
    /\ n \in Coming
    /\ n.type = "NEW_OBJECT"
    /\ cObjects' = IF n.seq \in 1 .. Len(cObjects) /\ cObjects[n.seq].listed
                     THEN [cObjects EXCEPT ![n.seq].id = n.id]
                     ELSE cObjects
    /\ cError' = cError
    /\ \A m \in Coming : m.type = "NEW_OBJECT" => m \in Coming' \/ m = n

\* An object is asked for.
Requesting ==
    \/ \E p \in Protocols, v \in 1 .. 2 : ClientBinds(p, v)
    \/ \E q \in 1 .. Len(cObjects), x \in Requests, takes \in BOOLEAN :
         ClientCalls(q, x, takes) /\ Creates(x)

Asks ==
    /\ Requesting
    /\ Len(cObjects') = Len(cObjects) + 1
    /\ \A q \in 1 .. Len(cObjects) : Keeps(cObjects'[q], cObjects[q])
    /\ cObjects'[Len(cObjects) + 1].id = 0
    /\ cObjects'[Len(cObjects) + 1].protocol \in Protocols
    /\ cObjects'[Len(cObjects) + 1].listed
    /\ ~cObjects'[Len(cObjects) + 1].destroyed
    /\ cError' = cError
    /\ OffersStay

\* Everything is let go.
LetsAllGo ==
    /\ ClientCloses
    /\ Len(cObjects') = Len(cObjects)
    /\ \A q \in 1 .. Len(cObjects) :
         /\ cObjects'[q].id = cObjects[q].id
         /\ cObjects'[q].protocol = cObjects[q].protocol
         /\ ~cObjects'[q].held
    /\ cError'

\* There are no other steps.
LEMMA ClientMoves ==
    ASSUME WireTypeOK, ClientInv, BatchesWhenParsing, ClientSteps
    PROVE  Idles \/ (\E i : Frees(i)) \/ (\E n : Hears(n)) \/ Asks \/ LetsAllGo
<1> /\ ClientTypeOK
    /\ Len(cObjects) \in Nat
    /\ \A q \in 1 .. Len(cObjects) : cObjects[q] \in ClientObject
  BY LenProperties, ElementOfSeq DEF ClientInv, ClientTypeOK
<1> DEFINE Goal == Idles \/ (\E i : Frees(i)) \/ (\E n : Hears(n)) \/ Asks \/ LetsAllGo
           Kin(u, o) == u \in ClientObject /\ Keeps(u, o)
<1> SUFFICES Goal
  OBVIOUS
<1>1. \A o \in ClientObject :
        /\ Kin(o, o)
        /\ \A b \in BOOLEAN : (o.id = 0 => b = o.listed) => Kin([o EXCEPT !.listed = b], o)
        /\ Kin([o EXCEPT !.listening = TRUE], o)
  <2> SUFFICES ASSUME NEW o \in ClientObject
               PROVE  /\ Kin(o, o)
                      /\ \A b \in BOOLEAN : (o.id = 0 => b = o.listed) => Kin([o EXCEPT !.listed = b], o)
                      /\ Kin([o EXCEPT !.listening = TRUE], o)
    BY Zenon
  <2>1. Kin(o, o)
    BY DEF ClientObject, Keeps
  <2>2. \A b \in BOOLEAN : (o.id = 0 => b = o.listed) => Kin([o EXCEPT !.listed = b], o)
    BY DEF ClientObject, Keeps
  <2>3. Kin([o EXCEPT !.listening = TRUE], o)
    BY DEF ClientObject, Keeps
  <2> HIDE DEF Kin
  <2> QED
    BY <2>1, <2>2, <2>3
<1>0. \A u, o : Kin(u, o) => u \in ClientObject /\ Keeps(u, o)
  OBVIOUS
<1> HIDE DEF Kin, Goal
<1>2. ASSUME cError', cObjects' = cObjects
      PROVE  Goal
  <2>1. \A q \in 1 .. Len(cObjects) : Keeps(cObjects'[q], cObjects[q])
    BY <1>0, <1>1, <1>2, Zenon
  <2> QED
    BY <1>2, <2>1, Zenon DEF Goal, Idles
<1>3. CASE ClientHandlesNewObject
  <2>1. Received \in Coming /\ Received.type = "NEW_OBJECT"
    BY <1>3, ParsedIsComing DEF ClientHandlesNewObject, ClientParses
  <2>2. /\ cObjects' = IF Received.seq \in 1 .. Len(cObjects) /\ cObjects[Received.seq].listed
                         THEN [cObjects EXCEPT ![Received.seq].id = Received.id]
                         ELSE cObjects
        /\ cError' = cError
    BY <1>3, Zenon DEF ClientHandlesNewObject
  <2>3. CASE cError' /\ cObjects' = cObjects
    BY <1>2, <2>3
  <2>4. CASE ~(cError' /\ cObjects' = cObjects)
    <3>1. \A m \in Coming : m.type = "NEW_OBJECT" => m \in Coming' \/ m = Received
      BY <2>4, ClientTakes, Zenon
    <3>2. Hears(Received)
      BY <1>3, <2>1, <2>2, <3>1, Zenon DEF Hears
    <3> QED
      BY <3>2, Zenon DEF Goal
  <2> QED
    BY <2>3, <2>4, Zenon
<1>4. SUFFICES ASSUME OffersStay PROVE Goal
  BY <1>2, <1>3, ClientTakes, Zenon DEF OffersStay
<1>5. ASSUME Len(cObjects') = Len(cObjects),
             \A q \in 1 .. Len(cObjects) : Kin(cObjects'[q], cObjects[q]),
             cError' = cError
      PROVE  Goal
  <2>1. Idles
    BY <1>0, <1>4, <1>5, Zenon DEF Idles
  <2> QED
    BY <2>1, Zenon DEF Goal
<1>6. ASSUME cObjects' = cObjects, cError' = cError
      PROVE  Goal
  BY <1>1, <1>5, <1>6, Zenon
<1>7. ASSUME NEW i \in 1 .. Len(cObjects), NEW u \in ClientObject, cObjects' = [cObjects EXCEPT ![i] = u],
             cError' = cError, u.id = cObjects[i].id, u.protocol = cObjects[i].protocol,
             u.destroyed \/ ~u.held, u.listed = cObjects[i].listed \/ CalledFor(i)
      PROVE  Goal
  <2>1. Len(cObjects') = Len(cObjects)
    BY <1>7, UpdateType
  <2>2. /\ cObjects'[i] = u
        /\ \A q \in 1 .. Len(cObjects) : q # i => cObjects'[q] = cObjects[q]
    BY <1>7 DEF ClientTypeOK
  <2>3. \A q \in 1 .. Len(cObjects) : q # i => Keeps(cObjects'[q], cObjects[q])
    BY <1>0, <1>1, <2>2, Zenon
  <2>4. Frees(i)
    BY <1>4, <1>7, <2>1, <2>2, <2>3, Zenon DEF Frees
  <2> QED
    BY <2>4, Zenon DEF Goal
<1>8. ASSUME NEW i, cObjects' = Destroyed(i), cError' = cError, i \in 1 .. Len(cObjects) => CalledFor(i)
      PROVE  Goal
  <2>1. cObjects' = [cObjects EXCEPT ![i] = [cObjects[i] EXCEPT !.listed = FALSE, !.destroyed = TRUE]]
    BY <1>8 DEF Destroyed
  <2>2. CASE i \in 1 .. Len(cObjects)
    <3> DEFINE u == [cObjects[i] EXCEPT !.listed = FALSE, !.destroyed = TRUE]
    <3>1. /\ u \in ClientObject
          /\ u.id = cObjects[i].id
          /\ u.protocol = cObjects[i].protocol
          /\ u.destroyed
      BY <2>2 DEF ClientObject
    <3> HIDE DEF u
    <3> QED
      BY <1>7, <1>8, <2>1, <2>2, <3>1, Zenon DEF u
  <2>3. CASE i \notin 1 .. Len(cObjects)
    <3>1. cObjects' = cObjects
      BY <2>1, <2>3 DEF ClientTypeOK
    <3> QED
      BY <1>6, <1>8, <3>1
  <2> QED
    BY <2>2, <2>3
<1>9. ASSUME cObjects' = Collected, cError' = cError
      PROVE  Goal
  <2>1. Len(cObjects') = Len(cObjects)
    BY <1>9, CollectedType
  <2>2. ASSUME NEW q \in 1 .. Len(cObjects)
        PROVE  Kin(cObjects'[q], cObjects[q])
    <3>1. cObjects'[q] = [cObjects[q] EXCEPT !.listed = cObjects[q].listed /\ ~IsOrphan(q)]
      BY <1>9 DEF Collected
    <3>2. (cObjects[q].listed /\ ~IsOrphan(q)) \in BOOLEAN
      OBVIOUS
    <3>3. cObjects[q].id = 0 => (cObjects[q].listed /\ ~IsOrphan(q)) = cObjects[q].listed
      BY DEF IsOrphan, ClientObject
    <3> QED
      BY <1>1, <3>1, <3>2, <3>3, Zenon
  <2> QED
    BY <1>5, <1>9, <2>1, <2>2
<1>10. ASSUME NEW o \in ClientObject, cObjects' = Append(cObjects, o), o.id = 0, o.listed, ~o.destroyed,
              cError' = cError, Requesting
       PROVE  Goal
  <2>1. /\ Len(cObjects') = Len(cObjects) + 1
        /\ cObjects'[Len(cObjects) + 1] = o
        /\ \A q \in 1 .. Len(cObjects) : cObjects'[q] = cObjects[q]
    BY <1>10, AppendProperties DEF ClientTypeOK
  <2>2. \A q \in 1 .. Len(cObjects) : Keeps(cObjects'[q], cObjects[q])
    BY <1>0, <1>1, <2>1, Zenon
  <2>3. o.protocol \in Protocols
    BY <1>10 DEF ClientObject
  <2>4. Asks
    BY <1>4, <1>10, <2>1, <2>2, <2>3, Zenon DEF Asks
  <2> QED
    BY <2>4, Zenon DEF Goal

<1> USE DEF wireVars
<1>11. CASE ClientCallReturns
  <2>1. /\ cError' = cError
        /\ cObjects' = IF Top.wait = "object"
                         THEN [cObjects EXCEPT ![Top.arg] = [cObjects[Top.arg] EXCEPT !.listening = TRUE]]
                         ELSE cObjects
    BY <1>11, Zenon DEF ClientCallReturns
  <2>2. CASE Top.wait = "object"
    <3> DEFINE u == [cObjects[Top.arg] EXCEPT !.listening = TRUE]
    <3>1. Top.arg \in 1 .. Len(cObjects) => Kin(u, cObjects[Top.arg])
      BY <1>1, Zenon
    <3>2. cObjects' = [cObjects EXCEPT ![Top.arg] = u]
      BY <2>1, <2>2
    <3> HIDE DEF u
    <3>3. Len(cObjects') = Len(cObjects)
      BY <1>0, <3>1, <3>2, UpdateType
    <3>4. ASSUME NEW q \in 1 .. Len(cObjects)
          PROVE  Kin(cObjects'[q], cObjects[q])
      <4>1. cObjects'[q] = IF q = Top.arg THEN u ELSE cObjects[q]
        BY <3>2 DEF ClientTypeOK
      <4> QED
        BY <1>1, <3>1, <4>1, Zenon
    <3> QED
      BY <1>5, <2>1, <3>3, <3>4
  <2> QED
    BY <1>6, <2>1, <2>2, Zenon
<1>12. CASE ClientBeginsDispatch \/ ClientFinishesBatch
  BY <1>9, <1>12 DEF ClientBeginsDispatch, ClientFinishesBatch
<1>13. CASE ClientDropsEvent
  <2>1. PICK q \in Addressees : cObjects' = cObjects \/ cObjects' = Destroyed(q)
    BY <1>13, Zenon DEF ClientDropsEvent
  <2>2. ClientParses("GENERIC") /\ cError' = cError
    BY <1>13 DEF ClientDropsEvent
  <2>3. HeardOf(q)
    BY <2>2, ParsedIsComing DEF HeardOf, Addressees, ClientParses
  <2> QED
    BY <1>6, <1>8, <2>1, <2>2, <2>3 DEF CalledFor
<1>14. CASE ClientListenerReturns
  <2>1. /\ cObjects' = cObjects \/ cObjects' = Destroyed(Top.called.seq)
        /\ cError' = cError
        /\ stack # <<>>
    BY <1>14 DEF ClientListenerReturns, InPhase
  <2>2. 1 \in 1 .. Len(stack) /\ Top = stack[1]
    BY <2>1, StackSteps
  <2>3. CalledFor(Top.called.seq)
    BY <2>2 DEF CalledFor
  <2> QED
    BY <1>6, <1>8, <2>1, <2>3
<1>15. CASE \E p \in Protocols, v \in 1 .. 2 : ClientBinds(p, v)
  <2>1. PICK p \in Protocols, v \in 1 .. 2 : ClientBinds(p, v)
    BY <1>15
  <2> DEFINE o == NewClientObject(p, v, TRUE)
  <2>2. o \in ClientObject /\ o.id = 0 /\ o.listed /\ ~o.destroyed
    BY DEF NewClientObject, ClientObject
  <2>3. cObjects' = Append(cObjects, o) /\ cError' = cError
    BY <2>1 DEF ClientBinds
  <2>4. Requesting
    BY <1>15 DEF Requesting
  <2> HIDE DEF o
  <2> QED
    BY <1>10, <2>2, <2>3, <2>4
<1>16. CASE \E q \in 1 .. Len(cObjects), x \in Requests, takes \in BOOLEAN : ClientCalls(q, x, takes)
  <2>1. PICK q \in 1 .. Len(cObjects), x \in Requests, takes \in BOOLEAN : ClientCalls(q, x, takes)
    BY <1>16
  <2> DEFINE u == [cObjects[q] EXCEPT !.destroyed = TRUE]
             gone == [cObjects EXCEPT ![q] = u]
             after == IF IsDestructor(x) THEN gone ELSE cObjects
             made == [NewClientObject(cObjects[q].protocol, 0, takes) EXCEPT !.listening = takes]
  <2>2. cObjects' = IF Creates(x) THEN Append(after, made) ELSE after
    BY <2>1 DEF ClientCalls
  <2>3. cError' = cError
    BY <2>1 DEF ClientCalls
  <2>4. made \in ClientObject /\ made.id = 0 /\ made.listed /\ ~made.destroyed
    <3>1. cObjects[q].protocol \in Protocols
      BY DEF ClientObject
    <3> QED
      BY <3>1 DEF NewClientObject, ClientObject
  <2>5. /\ u \in ClientObject
        /\ u.id = cObjects[q].id
        /\ u.protocol = cObjects[q].protocol
        /\ u.destroyed
        /\ u.listed = cObjects[q].listed
    BY DEF ClientObject
  <2>6. ~(Creates(x) /\ IsDestructor(x))
    BY DEF Creates, IsDestructor
  <2> HIDE DEF u, made
  <2>7. CASE Creates(x)
    <3>1. Requesting
      BY <2>1, <2>7, Zenon DEF Requesting
    <3> QED
      BY <1>10, <2>2, <2>3, <2>4, <2>6, <2>7, <3>1
  <2>8. CASE ~Creates(x) /\ IsDestructor(x)
    BY <1>7, <2>2, <2>3, <2>5, <2>8, Zenon
  <2>9. CASE ~Creates(x) /\ ~IsDestructor(x)
    BY <1>6, <2>2, <2>3, <2>9, Zenon
  <2> QED
    BY <2>7, <2>8, <2>9
<1>17. CASE \E q \in 1 .. Len(cObjects) : ClientLetsGo(q)
  <2>1. PICK q \in 1 .. Len(cObjects) : ClientLetsGo(q)
    BY <1>17
  <2> DEFINE u == [cObjects[q] EXCEPT !.held = FALSE]
  <2>2. cObjects' = [cObjects EXCEPT ![q] = u] /\ cError' = cError
    BY <2>1 DEF ClientLetsGo
  <2>3. /\ u \in ClientObject
        /\ u.id = cObjects[q].id
        /\ u.protocol = cObjects[q].protocol
        /\ ~u.held
        /\ u.listed = cObjects[q].listed
    BY DEF ClientObject
  <2> HIDE DEF u
  <2> QED
    BY <1>7, <2>2, <2>3, Zenon
<1>18. CASE ClientCloses
  <2>1. /\ cError'
        /\ cObjects' = [q \in 1 .. Len(cObjects) |->
                          [cObjects[q] EXCEPT !.listed = FALSE, !.held = FALSE, !.listening = FALSE]]
    BY <1>18, Zenon DEF ClientCloses
  <2> DEFINE u(q) == [cObjects[q] EXCEPT !.listed = FALSE, !.held = FALSE, !.listening = FALSE]
  <2>2. ASSUME NEW q \in 1 .. Len(cObjects)
        PROVE  /\ u(q) \in ClientObject
               /\ u(q).id = cObjects[q].id
               /\ u(q).protocol = cObjects[q].protocol
               /\ ~u(q).held
    BY DEF ClientObject
  <2>3. cObjects' = [q \in 1 .. Len(cObjects) |-> u(q)]
    BY <2>1, Zenon
  <2> HIDE DEF u
  <2>4. cObjects' \in [1 .. Len(cObjects) -> ClientObject]
    BY <2>2, <2>3
  <2>5. Len(cObjects') = Len(cObjects)
    BY <2>4, FunctionIsSeq
  <2>6. LetsAllGo
    BY <1>18, <2>1, <2>2, <2>3, <2>5, Zenon DEF LetsAllGo
  <2> QED
    BY <2>6, Zenon DEF Goal
<1>19. CASE ClientTimesOut
  BY <1>2, <1>19, Zenon DEF ClientTimesOut, Disconnect
<1>20. CASE ClientReadsEnd
  BY <1>2, <1>6, <1>20, Zenon DEF ClientReadsEnd, Disconnect
<1>21. CASE ClientHandlesBegin
  BY <1>2, <1>6, <1>21, Zenon DEF ClientHandlesBegin, Disconnect
<1>22. CASE ClientHandlesUnknown \/ ClientRejects \/ ClientHandlesFatal
  BY <1>2, <1>22, Zenon DEF ClientHandlesUnknown, ClientRejects, ClientHandlesFatal, Disconnect
<1>23. CASE \E p \in Protocols, v \in 1 .. 2 : ClientBindsTooNew(p, v)
  BY <1>2, <1>23, Zenon DEF ClientBindsTooNew, Disconnect
<1>24. CASE ClientFindsNothing \/ ClientReads \/ ClientHandlesProtocols \/ ClientCalled
  BY <1>6, <1>24, Zenon DEF ClientFindsNothing, ClientReads, ClientHandlesProtocols, ClientCalled
<1>25. CASE ClientHandlesDone \/ ClientWaitsForHandshake \/ ClientDispatches \/ ClientRoundtrips
  BY <1>6, <1>25, Zenon DEF ClientHandlesDone, ClientWaitsForHandshake, ClientDispatches, ClientRoundtrips
<1> QED
  BY <1>3, <1>11, <1>12, <1>13, <1>14, <1>15, <1>16, <1>17, <1>18, <1>19, <1>20, <1>21, <1>22, <1>23, <1>24, <1>25, Zenon
     DEF ClientSteps, ClientRuns, ClientHandles, ClientActs

\* Whether the server's end is open is not the client's to change.
LEMMA ServerEndUntouched ==
    ASSUME ClientSteps
    PROVE  serverOpen' = serverOpen
<1> USE DEF wireVars
<1>1. CASE ClientCallReturns \/ ClientBeginsDispatch \/ ClientFindsNothing \/ ClientReads
  BY <1>1, Zenon DEF ClientCallReturns, ClientBeginsDispatch, ClientFindsNothing, ClientReads
<1>2. CASE ClientTimesOut \/ ClientReadsEnd \/ ClientListenerReturns \/ ClientFinishesBatch
  BY <1>2, Zenon DEF ClientTimesOut, ClientReadsEnd, ClientListenerReturns, ClientFinishesBatch
<1>3. CASE ClientHandlesBegin \/ ClientHandlesProtocols \/ ClientHandlesNewObject \/ ClientHandlesUnknown
  BY <1>3, Zenon DEF ClientHandlesBegin, ClientHandlesProtocols, ClientHandlesNewObject,
     ClientHandlesUnknown
<1>4. CASE ClientDropsEvent \/ ClientCalled \/ ClientHandlesFatal \/ ClientHandlesDone \/ ClientRejects
  BY <1>4, Zenon DEF ClientDropsEvent, ClientCalled, ClientHandlesFatal, ClientHandlesDone, ClientRejects
<1>5. CASE ClientWaitsForHandshake \/ ClientDispatches \/ ClientRoundtrips \/ ClientCloses
  BY <1>5, Zenon DEF ClientWaitsForHandshake, ClientDispatches, ClientRoundtrips, ClientCloses
<1>6. CASE \E p \in Protocols, v \in 1 .. 2 : ClientBinds(p, v) \/ ClientBindsTooNew(p, v)
  BY <1>6, Zenon DEF ClientBinds, ClientBindsTooNew
<1>7. CASE \E q \in 1 .. Len(cObjects), m \in Requests, takes \in BOOLEAN : ClientCalls(q, m, takes)
  BY <1>7, Zenon DEF ClientCalls
<1>8. CASE \E q \in 1 .. Len(cObjects) : ClientLetsGo(q)
  BY <1>8, Zenon DEF ClientLetsGo
<1> QED
  BY <1>1, <1>2, <1>3, <1>4, <1>5, <1>6, <1>7, <1>8, Zenon
     DEF ClientSteps, ClientRuns, ClientHandles, ClientActs

-----------------------------------------------------------------------------
(* A client whose listeners do not dispatch                                  *)

\* The application calls nothing that dispatches from within a listener.
DispatchesDoNotNest == MaxDepth <= 1

\* Then at most one call is in progress: its phase, "app" while there is none,
\* and the messages it has yet to handle, which are ahead of those in the queue.
OneCall == Len(stack) <= 1
Phase   == IF stack = <<>> THEN "app" ELSE Top.phase
Batch   == IF stack = <<>> THEN <<>> ELSE Top.batch
Stream  == Batch \o s2c

\* What the operations on the stack come to.
LEMMA OneFrame ==
    ASSUME ClientTypeOK, OneCall
    PROVE  /\ stack # <<>> /\ Pop => stack' = <<>>
           /\ \A f \in Frame : stack # <<>> /\ SetTop(f) => stack' = <<f>>
           /\ \A f \in Frame : stack = <<>> /\ Push(f) => stack' = <<f>>
           /\ \A ok : stack # <<>> /\ DispatchReturns(ok) =>
                \/ stack' = <<>>
                \/ stack' = <<[Top EXCEPT !.phase = "loop", !.batch = <<>>]>>
<1> stack \in Seq(Frame)
  BY DEF ClientTypeOK
<1>1. stack # <<>> => Tail(stack) = <<>>
  BY DEF OneCall
<1>2. stack # <<>> /\ Pop => stack' = <<>>
  BY <1>1 DEF Pop
<1>0. ASSUME NEW f \in Frame
      PROVE  <<f>> \o <<>> = <<f>>
  BY <<f>> \in Seq(Frame), EmptySeq, ConcatEmptySeq
<1>3. \A f \in Frame : stack # <<>> /\ SetTop(f) => stack' = <<f>>
  BY <1>0, <1>1 DEF SetTop
<1>4. \A f \in Frame : stack = <<>> /\ Push(f) => stack' = <<f>>
  BY <1>0 DEF Push
<1>5. ASSUME NEW ok, stack # <<>>, DispatchReturns(ok)
      PROVE  stack' = <<>> \/ stack' = <<[Top EXCEPT !.phase = "loop", !.batch = <<>>]>>
  <2>1. [Top EXCEPT !.phase = "loop", !.batch = <<>>] \in Frame
    BY <1>5, TopType, EmptySeq DEF Frame, Phases
  <2> QED
    BY <1>2, <1>3, <1>5, <2>1, Zenon DEF DispatchReturns
<1> QED
  BY <1>2, <1>3, <1>4, <1>5, Zenon

\* The stages of a call, and how a step leads from one to the next.
Rests ==
    /\ {Phase, Phase'} \subseteq {"app", "loop", "poll"}
    /\ Batch' = Batch
    /\ s2c' = s2c
    /\ Phase' = "poll" => ~cError'
Acts == {Phase, Phase'} \subseteq {"app", "call"} /\ UNCHANGED <<stack, s2c>>
Reads == Phase = "poll" /\ Phase' = "parse" /\ Batch' \o s2c' = s2c /\ cError' = cError
Takes ==
    /\ Phase = "parse"
    /\ Phase' \in {"parse", "call"}
    /\ Batch # <<>>
    /\ Batch' = Tail(Batch)
    /\ s2c' = s2c
    /\ Head(Batch) = Received
    /\ Received.type = "NEW_OBJECT" => ClientHandlesNewObject
    /\ Received.type = "ROUNDTRIP_DONE" => ClientHandlesDone
    /\ Received.type = "FATAL" => cError'
    /\ Phase' = "call" => Received.type = "GENERIC"
Resumes == Phase = "call" /\ Phase' = "parse" /\ Batch' = Batch /\ s2c' = s2c /\ cError' = cError
Finishes ==
    /\ ClientFinishesBatch
    /\ Phase = "parse"
    /\ Phase' \in {"app", "loop"}
    /\ Batch = <<>>
    /\ Batch' = <<>>
    /\ s2c' = s2c
    /\ cError' = cError
GivesUp == Phase = "parse" /\ Phase' \in {"app", "loop"} /\ Batch' = <<>> /\ s2c' = s2c /\ cError'

\* Every step of the client is one of these.
LEMMA ClientTurns ==
    ASSUME DispatchesDoNotNest, WireTypeOK, ClientInv, BatchesWhenParsing, OneCall, ClientSteps
    PROVE  /\ OneCall'
           /\ Rests \/ Acts \/ Reads \/ Takes \/ Resumes \/ Finishes \/ GivesUp
<1> ClientTypeOK
  BY DEF ClientInv
<1> DEFINE Goal == OneCall' /\ (Rests \/ Acts \/ Reads \/ Takes \/ Resumes \/ Finishes \/ GivesUp)
<1> SUFFICES Goal
  OBVIOUS
<1> HIDE DEF Goal
<1>1. stack # <<>> => /\ Top \in Frame
                      /\ Phase = Top.phase
                      /\ Batch = Top.batch
                      /\ Top.phase \in {"loop", "poll"} => Top.batch = <<>>
  <2> SUFFICES ASSUME stack # <<>>
               PROVE  Top \in Frame /\ (Top.phase \in {"loop", "poll"} => Top.batch = <<>>)
    BY DEF Phase, Batch
  <2>1. Top \in Frame /\ 1 \in 1 .. Len(stack) /\ Top = stack[1]
    BY TopType, StackSteps
  <2> QED
    BY <2>1 DEF BatchesWhenParsing
<1>2. stack = <<>> => Phase = "app" /\ Batch = <<>>
  BY DEF Phase, Batch
<1>3. ASSUME NEW f \in Frame, stack' = <<f>>
      PROVE  OneCall' /\ Phase' = f.phase /\ Batch' = f.batch
  BY <1>3 DEF OneCall, Phase, Batch, Top
<1>4. ASSUME stack' = <<>>
      PROVE  OneCall' /\ Phase' = "app" /\ Batch' = <<>>
  BY <1>4 DEF OneCall, Phase, Batch
<1>5. ASSUME NEW ok, stack # <<>>, DispatchReturns(ok)
      PROVE  OneCall' /\ Phase' \in {"app", "loop"} /\ Batch' = <<>>
  <2>1. [Top EXCEPT !.phase = "loop", !.batch = <<>>] \in Frame
    BY <1>1, <1>5, EmptySeq DEF Frame, Phases
  <2>2. /\ [Top EXCEPT !.phase = "loop", !.batch = <<>>].phase = "loop"
        /\ [Top EXCEPT !.phase = "loop", !.batch = <<>>].batch = <<>>
    BY <1>1, <1>5 DEF Frame
  <2> QED
    BY <1>3, <1>4, <1>5, <2>1, <2>2, OneFrame, Zenon
<1>6. ASSUME NEW t, ClientParses(t)
      PROVE  /\ Phase = "parse" /\ Batch # <<>>
             /\ stack # <<>>
             /\ Head(Batch) = Received /\ Received.type = t
             /\ SetTop(Consumed) => OneCall' /\ Phase' = "parse" /\ Batch' = Tail(Batch)
  <2>1. stack # <<>> /\ Top.phase = "parse" /\ Top.batch # <<>>
    BY <1>6 DEF ClientParses, InPhase
  <2>2. Consumed \in Frame /\ Received \in ServerMessage
    BY <1>6, ReceivedType
  <2>3. Consumed.phase = "parse" /\ Consumed.batch = Tail(Top.batch)
    BY <1>1, <2>1 DEF Consumed, Frame
  <2>4. SetTop(Consumed) => OneCall' /\ Phase' = "parse" /\ Batch' = Tail(Batch)
    BY <1>1, <1>3, <2>1, <2>2, <2>3, OneFrame, Zenon
  <2>5. Head(Batch) = Received /\ Received.type = t
    BY <1>1, <1>6, <2>1, Zenon DEF ClientParses, Received
  <2> QED
    BY <1>1, <2>1, <2>4, <2>5, Zenon
<1>7. ASSUME NEW w \in Waits, NEW a \in Nat, stack = <<>>, Push(NewFrame(w, a)), s2c' = s2c
      PROVE  Goal
  <2>1. NewFrame(w, a) \in Frame /\ NewFrame(w, a).phase = "loop" /\ NewFrame(w, a).batch = <<>>
    BY NewFrameType DEF NewFrame
  <2>2. OneCall' /\ Phase' = "loop" /\ Batch' = <<>>
    BY <1>3, <1>7, <2>1, OneFrame, Zenon
  <2> QED
    BY <1>2, <1>7, <2>2 DEF Goal, Rests
<1>8. MayNest => stack = <<>>
  <2>1. Len(stack) \in Nat /\ (stack # <<>> => Len(stack) > 0)
    BY StackSteps
  <2> QED
    BY <2>1, ClientAssumption DEF MayNest, DispatchesDoNotNest
<1>9. ASSUME UNCHANGED <<stack, s2c>>, ClientAppMayAct
      PROVE  Goal
  <2>1. Phase \in {"app", "call"} /\ Phase' = Phase /\ OneCall'
    BY <1>1, <1>2, <1>9 DEF ClientAppMayAct, InPhase, Phase, Top, OneCall
  <2> QED
    BY <1>9, <2>1 DEF Goal, Acts
<1> USE DEF wireVars
<1>10. CASE ClientCallReturns
  <2>1. stack # <<>> /\ Top.phase = "loop" /\ Pop /\ s2c' = s2c
    BY <1>10 DEF ClientCallReturns, InPhase
  <2>2. stack' = <<>>
    BY <2>1, OneFrame
  <2>3. OneCall' /\ Phase' = "app" /\ Batch' = <<>>
    BY <1>4, <2>2
  <2> QED
    BY <1>1, <2>1, <2>3 DEF Goal, Rests
<1>11. CASE ClientBeginsDispatch
  <2> DEFINE f == [Top EXCEPT !.phase = "poll"]
  <2>1. stack # <<>> /\ Top.phase = "loop" /\ SetTop(f) /\ s2c' = s2c /\ ~cError /\ cError' = cError
    BY <1>11 DEF ClientBeginsDispatch, InPhase
  <2>2. f \in Frame /\ f.phase = "poll" /\ f.batch = Top.batch
    BY <1>1, <2>1 DEF Frame, Phases
  <2> HIDE DEF f
  <2>3. OneCall' /\ Phase' = "poll" /\ Batch' = Top.batch
    BY <1>3, <2>1, <2>2, OneFrame
  <2> QED
    BY <1>1, <2>1, <2>3 DEF Goal, Rests
<1>12. CASE ClientTimesOut \/ ClientFindsNothing \/ ClientReadsEnd
  <2>1. stack # <<>> /\ Top.phase = "poll" /\ s2c' = s2c /\ \E ok : DispatchReturns(ok)
    BY <1>12 DEF ClientTimesOut, ClientFindsNothing, ClientReadsEnd, InPhase
  <2>2. OneCall' /\ Phase' \in {"app", "loop"} /\ Batch' = <<>>
    BY <1>5, <2>1
  <2> QED
    BY <1>1, <2>1, <2>2 DEF Goal, Rests
<1>13. CASE ClientReads
  <2>1. PICK n \in ReadLengths(s2c) :
           /\ SetTop([Top EXCEPT !.phase = "parse", !.batch = SubSeq(s2c, 1, n)])
           /\ s2c' = SubSeq(s2c, n + 1, Len(s2c))
    BY <1>13, Zenon DEF ClientReads
  <2>2. stack # <<>> /\ Top.phase = "poll" /\ cError' = cError
    BY <1>13 DEF ClientReads, InPhase
  <2>3. SubSeq(s2c, 1, n) \in Seq(ServerMessage)
    BY ReadSplitsQueue DEF WireTypeOK
  <2> DEFINE f == [Top EXCEPT !.phase = "parse", !.batch = SubSeq(s2c, 1, n)]
  <2>4. f \in Frame /\ f.phase = "parse" /\ f.batch = SubSeq(s2c, 1, n)
    BY <1>1, <2>2, <2>3 DEF Frame, Phases
  <2>5. SubSeq(s2c, 1, n) \o SubSeq(s2c, n + 1, Len(s2c)) = s2c
    BY ReadSplitsQueue DEF WireTypeOK
  <2> HIDE DEF f
  <2>6. stack' = <<f>>
    <3>1. SetTop(f)
      BY <2>1, Zenon DEF f
    <3> QED
      BY <2>2, <2>4, <3>1, OneFrame, Zenon
  <2>7. OneCall' /\ Phase' = "parse" /\ Batch' = SubSeq(s2c, 1, n)
    BY <1>3, <2>4, <2>6
  <2> QED
    BY <1>1, <2>1, <2>2, <2>5, <2>7 DEF Goal, Reads
<1>14. CASE ClientHandlesBegin
  <2>1. ClientParses("HANDSHAKE_BEGIN") /\ s2c' = s2c
    BY <1>14 DEF ClientHandlesBegin
  <2>2. CASE SetTop(Consumed)
    <3>1. /\ OneCall' /\ Phase' = "parse" /\ Batch' = Tail(Batch) /\ Phase = "parse" /\ Batch # <<>>
          /\ Head(Batch) = Received /\ Received.type = "HANDSHAKE_BEGIN"
      BY <1>6, <2>1, <2>2, Zenon
    <3> QED
      BY <2>1, <3>1 DEF Goal, Takes
  <2>3. CASE DispatchReturns(FALSE) /\ cError'
    <3>1. Phase = "parse" /\ stack # <<>>
      BY <1>6, <2>1, Zenon
    <3>2. OneCall' /\ Phase' \in {"app", "loop"} /\ Batch' = <<>>
      BY <1>5, <2>3, <3>1, Zenon
    <3> QED
      BY <2>1, <2>3, <3>1, <3>2, Zenon DEF Goal, GivesUp
  <2> QED
    BY <1>14, <2>2, <2>3, Zenon DEF ClientHandlesBegin, Disconnect
<1>15. CASE \/ ClientHandlesProtocols
            \/ ClientHandlesNewObject
            \/ ClientHandlesUnknown
            \/ ClientDropsEvent
            \/ ClientHandlesFatal
            \/ ClientHandlesDone
  <2>1. /\ SetTop(Consumed) /\ s2c' = s2c
        /\ \E t : /\ ClientParses(t)
                  /\ t = "NEW_OBJECT" => ClientHandlesNewObject
                  /\ t = "ROUNDTRIP_DONE" => ClientHandlesDone
                  /\ t = "FATAL" => cError'
    <3>1. CASE ClientHandlesNewObject
      BY <3>1 DEF ClientHandlesNewObject
    <3>2. CASE ClientHandlesDone
      BY <3>2 DEF ClientHandlesDone
    <3>3. CASE ClientHandlesFatal
      BY <3>3 DEF ClientHandlesFatal
    <3>4. CASE ClientHandlesProtocols
      BY <3>4 DEF ClientHandlesProtocols
    <3>5. CASE ClientHandlesUnknown \/ ClientDropsEvent
      <4>1. SetTop(Consumed) /\ s2c' = s2c /\ ClientParses("GENERIC")
        BY <3>5, Zenon DEF ClientHandlesUnknown, ClientDropsEvent
      <4> QED
        BY <4>1
    <3> QED
      BY <1>15, <3>1, <3>2, <3>3, <3>4, <3>5, Zenon
  <2>2. /\ OneCall' /\ Phase' = "parse" /\ Batch' = Tail(Batch) /\ Phase = "parse" /\ Batch # <<>>
        /\ Head(Batch) = Received
        /\ Received.type = "NEW_OBJECT" => ClientHandlesNewObject
        /\ Received.type = "ROUNDTRIP_DONE" => ClientHandlesDone
        /\ Received.type = "FATAL" => cError'
    BY <1>6, <2>1, Zenon
  <2>3. Phase' = "call" => Received.type = "GENERIC"
    BY <2>2
  <2> QED
    BY <2>1, <2>2, <2>3, Zenon DEF Goal, Takes
<1>16. CASE ClientCalled
  <2>1. PICK q \in Addressees :
           SetTop([Consumed EXCEPT !.phase = "call",
                                   !.called = [seq |-> q, method |-> Received.method]])
    BY <1>16, Zenon DEF ClientCalled
  <2>2. ClientParses("GENERIC") /\ s2c' = s2c /\ q \in Nat
    BY <1>16 DEF ClientCalled, Addressees
  <2>3. /\ Phase = "parse" /\ Batch # <<>> /\ stack # <<>> /\ Batch = Top.batch
        /\ Head(Batch) = Received /\ Received.type = "GENERIC"
    BY <1>1, <1>6, <2>2, Zenon
  <2>4. Consumed \in Frame /\ Received.method \in AllEvents
    BY <2>2, ReceivedType DEF ClientParses, ServerMessage, Invalid
  <2> DEFINE f == [Consumed EXCEPT !.phase = "call",
                                   !.called = [seq |-> q, method |-> Received.method]]
  <2>5. f \in Frame /\ f.phase = "call" /\ f.batch = Consumed.batch
    BY <2>2, <2>4 DEF Frame, Phases
  <2>6. Consumed.batch = Tail(Batch)
    BY <1>1, <2>3 DEF Consumed, Frame
  <2> HIDE DEF f
  <2>7. SetTop(f)
    BY <2>1, Zenon DEF f
  <2>8. OneCall' /\ Phase' = "call" /\ Batch' = Tail(Batch)
    BY <1>3, <2>3, <2>5, <2>6, <2>7, OneFrame
  <2> QED
    BY <2>2, <2>3, <2>8 DEF Goal, Takes
<1>17. CASE ClientListenerReturns
  <2> DEFINE f == [Top EXCEPT !.phase = "parse", !.called = Idle]
  <2>1. stack # <<>> /\ Top.phase = "call" /\ SetTop(f) /\ s2c' = s2c /\ cError' = cError
    BY <1>17 DEF ClientListenerReturns, InPhase
  <2>2. f \in Frame /\ f.phase = "parse" /\ f.batch = Top.batch
    BY <1>1, <2>1 DEF Frame, Phases, Idle
  <2> HIDE DEF f
  <2>3. OneCall' /\ Phase' = "parse" /\ Batch' = Top.batch
    BY <1>3, <2>1, <2>2, OneFrame
  <2> QED
    BY <1>1, <2>1, <2>3 DEF Goal, Resumes
<1>18. CASE ClientFinishesBatch
  <2>1. /\ stack # <<>> /\ Top.phase = "parse" /\ Top.batch = <<>>
        /\ DispatchReturns(~cError) /\ s2c' = s2c /\ cError' = cError
    BY <1>18, Zenon DEF ClientFinishesBatch, InPhase
  <2>2. OneCall' /\ Phase' \in {"app", "loop"} /\ Batch' = <<>>
    BY <1>5, <2>1, Zenon
  <2>3. Phase = "parse" /\ Batch = <<>>
    BY <1>1, <2>1
  <2> QED
    BY <1>18, <2>1, <2>2, <2>3, Zenon DEF Goal, Finishes
<1>19. CASE ClientRejects
  <2>1. ClientParses("INVALID") /\ DispatchReturns(FALSE) /\ s2c' = s2c /\ cError'
    BY <1>19, Zenon DEF ClientRejects, Disconnect
  <2>2. Phase = "parse" /\ stack # <<>>
    BY <1>6, <2>1, Zenon
  <2>3. OneCall' /\ Phase' \in {"app", "loop"} /\ Batch' = <<>>
    BY <1>5, <2>1, <2>2, Zenon
  <2> QED
    BY <2>1, <2>2, <2>3, Zenon DEF Goal, GivesUp
<1>20. CASE ClientWaitsForHandshake
  BY <1>7, <1>20 DEF ClientWaitsForHandshake, Waits
<1>21. CASE ClientDispatches
  BY <1>7, <1>8, <1>21, ClientAssumption DEF ClientDispatches, Waits
<1>22. CASE \E p \in Protocols, v \in 1 .. 2 : ClientBinds(p, v)
  <2>1. MayNest /\ Push(NewFrame("object", Len(cObjects) + 1)) /\ s2c' = s2c /\ Len(cObjects) \in Nat
    BY <1>22, LenProperties DEF ClientBinds, ClientTypeOK
  <2> QED
    BY <1>7, <1>8, <2>1 DEF Waits
<1>23. CASE ClientRoundtrips
  BY <1>7, <1>8, <1>23 DEF ClientRoundtrips, Waits, ClientTypeOK
<1>24. CASE \E p \in Protocols, v \in 1 .. 2 : ClientBindsTooNew(p, v)
  BY <1>9, <1>24 DEF ClientBindsTooNew
<1>25. CASE \E q \in 1 .. Len(cObjects), m \in Requests, takes \in BOOLEAN : ClientCalls(q, m, takes)
  BY <1>9, <1>25 DEF ClientCalls
<1>26. CASE \E q \in 1 .. Len(cObjects) : ClientLetsGo(q)
  BY <1>9, <1>26 DEF ClientLetsGo
<1>27. CASE ClientCloses
  <2>1. stack = <<>> /\ UNCHANGED <<stack, s2c>>
    BY <1>27, Zenon DEF ClientCloses
  <2> QED
    BY <1>9, <2>1 DEF ClientAppMayAct
<1> QED
  BY <1>10, <1>11, <1>12, <1>13, <1>14, <1>15, <1>16, <1>17, <1>18, <1>19, <1>20, <1>21, <1>22,
     <1>23, <1>24, <1>25, <1>26, <1>27, Zenon
     DEF Goal, ClientSteps, ClientRuns, ClientHandles, ClientActs

-----------------------------------------------------------------------------
(* How an object leaves the list, and how it is destroyed *)

\* The server called a destructor: the event is on its way or being handled.
ServerEnded ==
    \E x : /\ IsDestructor(x)
           /\ CameFor(x) \/ \E f \in 1 .. Len(stack) : stack[f].called.method = x

\* An object stays as it was, on the list or off, destroyed or not; or else it
\* is collected, the client destroys it, the server does, or all is over.
Spares(q)   == UNCHANGED <<cObjects[q].listed, cObjects[q].destroyed>>
Collects(q) == /\ ClientBeginsDispatch \/ ClientFinishesBatch
               /\ IsOrphan(q)
               /\ cObjects'[q].destroyed = cObjects[q].destroyed
Destructs(q) == /\ \E x \in Requests, takes \in BOOLEAN : ClientCalls(q, x, takes) /\ IsDestructor(x)
                /\ cObjects'[q].listed = cObjects[q].listed

\* There is no other way.
LEMMA ClientSpares ==
    ASSUME WireTypeOK, ClientInv, ClientSteps, NEW q \in 1 .. Len(cObjects)
    PROVE  Spares(q) \/ Collects(q) \/ Destructs(q) \/ ServerEnded \/ ClientCloses
<1> /\ ClientTypeOK
    /\ cObjects \in Seq(ClientObject)
    /\ cObjects[q] \in ClientObject
    /\ Len(cObjects) \in Nat
    /\ \A r \in 1 .. Len(cObjects) : cObjects[r] \in ClientObject
  BY LenProperties, ElementOfSeq DEF ClientInv, ClientTypeOK
<1> DEFINE Goal == Spares(q) \/ Collects(q) \/ Destructs(q) \/ ServerEnded \/ ClientCloses
<1> SUFFICES Goal
  OBVIOUS
<1>1. ASSUME cObjects'[q] = cObjects[q]
      PROVE  Goal
  BY <1>1, Zenon DEF Spares
<1>2. ASSUME cObjects' = cObjects
      PROVE  Goal
  BY <1>1, <1>2
<1>3. ASSUME NEW i \in 1 .. Len(cObjects), NEW u, cObjects' = [cObjects EXCEPT ![i] = u],
             u.listed = cObjects[i].listed, u.destroyed = cObjects[i].destroyed
      PROVE  Goal
  <2>1. cObjects'[q] = cObjects[q] \/ (q = i /\ cObjects'[q] = u)
    BY <1>3
  <2> QED
    BY <1>1, <1>3, <2>1, Zenon DEF Spares
<1>4. ASSUME NEW u, cObjects' = Append(cObjects, u)
      PROVE  Goal
  <2>1. cObjects'[q] = cObjects[q]
    BY <1>4
  <2> QED
    BY <1>1, <2>1
<1>5. ASSUME cObjects' = Collected, ClientBeginsDispatch \/ ClientFinishesBatch
      PROVE  Goal
  <2>1. cObjects'[q] = [cObjects[q] EXCEPT !.listed = cObjects[q].listed /\ ~IsOrphan(q)]
    BY <1>5 DEF Collected
  <2>2. cObjects'[q].destroyed = cObjects[q].destroyed
    BY <2>1 DEF ClientObject
  <2>3. cObjects'[q].listed = (cObjects[q].listed /\ ~IsOrphan(q))
    BY <2>1 DEF ClientObject
  <2>4. CASE IsOrphan(q)
    BY <1>5, <2>2, <2>4, Zenon DEF Collects
  <2>5. CASE ~IsOrphan(q)
    <3>1. cObjects'[q].listed = cObjects[q].listed
      BY <2>3, <2>5 DEF ClientObject
    <3> QED
      BY <2>2, <3>1, Zenon DEF Spares
  <2> QED
    BY <2>4, <2>5
<1> HIDE DEF Goal
<1>6. CASE ClientCallReturns
  <2>1. \/ cObjects' = cObjects
        \/ Top.wait = "object" /\ cObjects' = [cObjects EXCEPT ![Top.arg].listening = TRUE]
    BY <1>6 DEF ClientCallReturns
  <2>2. CASE Top.arg \in 1 .. Len(cObjects) /\ cObjects' = [cObjects EXCEPT ![Top.arg].listening = TRUE]
    <3>1. PICK i \in 1 .. Len(cObjects) : i = Top.arg
      BY <2>2
    <3> DEFINE u == [cObjects[i] EXCEPT !.listening = TRUE]
    <3>2. cObjects' = [cObjects EXCEPT ![i] = u]
      BY <2>2, <3>1
    <3>3. u.listed = cObjects[i].listed /\ u.destroyed = cObjects[i].destroyed
      BY DEF ClientObject
    <3> HIDE DEF u
    <3> QED
      BY <1>3, <3>2, <3>3
  <2>3. CASE Top.arg \notin 1 .. Len(cObjects) /\ cObjects' = [cObjects EXCEPT ![Top.arg].listening = TRUE]
    <3>1. cObjects'[q] = cObjects[q]
      BY <2>3
    <3> QED
      BY <1>1, <3>1
  <2> QED
    BY <1>2, <2>1, <2>2, <2>3
<1>7. CASE ClientBeginsDispatch \/ ClientFinishesBatch
  BY <1>5, <1>7, Zenon DEF ClientBeginsDispatch, ClientFinishesBatch
<1>8. CASE ClientHandlesNewObject
  <2>1. CASE cObjects' = cObjects
    BY <1>2, <2>1
  <2>2. CASE cObjects' # cObjects
    <3>1. PICK i \in 1 .. Len(cObjects) : cObjects' = [cObjects EXCEPT ![i].id = Received.id]
      BY <1>8, <2>2 DEF ClientHandlesNewObject
    <3> DEFINE u == [cObjects[i] EXCEPT !.id = Received.id]
    <3>2. cObjects' = [cObjects EXCEPT ![i] = u]
      BY <3>1
    <3>3. u.listed = cObjects[i].listed /\ u.destroyed = cObjects[i].destroyed
      BY DEF ClientObject
    <3> HIDE DEF u
    <3> QED
      BY <1>3, <3>2, <3>3
  <2> QED
    BY <2>1, <2>2
<1>9. CASE ClientDropsEvent
  <2>1. cObjects' = cObjects \/ IsDestructor(Received.method)
    BY <1>9 DEF ClientDropsEvent
  <2>2. CASE IsDestructor(Received.method)
    <3>1. ClientParses("GENERIC")
      BY <1>9 DEF ClientDropsEvent
    <3>2. Received \in Coming /\ Received.type = "GENERIC"
      BY <3>1, ParsedIsComing DEF ClientParses
    <3> QED
      BY <2>2, <3>2 DEF Goal, ServerEnded, CameFor
  <2> QED
    BY <1>2, <2>1, <2>2
<1>10. CASE ClientListenerReturns
  <2>1. cObjects' = cObjects \/ IsDestructor(Top.called.method)
    BY <1>10 DEF ClientListenerReturns
  <2>2. CASE IsDestructor(Top.called.method)
    <3>1. 1 \in 1 .. Len(stack) /\ Top = stack[1]
      BY <1>10, StackSteps DEF ClientListenerReturns, InPhase
    <3> QED
      BY <2>2, <3>1 DEF Goal, ServerEnded
  <2> QED
    BY <1>2, <2>1, <2>2
<1>11. CASE \E p \in Protocols, v \in 1 .. 2 : ClientBinds(p, v)
  BY <1>4, <1>11, Zenon DEF ClientBinds
<1>12. CASE \E r \in 1 .. Len(cObjects), x \in Requests, takes \in BOOLEAN : ClientCalls(r, x, takes)
  <2>1. PICK r \in 1 .. Len(cObjects), x \in Requests, takes \in BOOLEAN : ClientCalls(r, x, takes)
    BY <1>12
  <2> DEFINE u == [cObjects[r] EXCEPT !.destroyed = TRUE]
             after == IF IsDestructor(x) THEN [cObjects EXCEPT ![r] = u] ELSE cObjects
  <2>2. cObjects' = after \/ \E o : cObjects' = Append(after, o)
    BY <2>1 DEF ClientCalls
  <2>3. u \in ClientObject /\ u.listed = cObjects[r].listed
    BY DEF ClientObject
  <2> HIDE DEF u
  <2>4. cObjects'[q] = after[q]
    <3>1. after \in Seq(ClientObject) /\ Len(after) = Len(cObjects)
      BY <2>3, UpdateType
    <3>2. PICK a \in Seq(ClientObject) : a = after /\ Len(a) = Len(cObjects)
      BY <3>1
    <3>3. cObjects' = a \/ \E o : cObjects' = Append(a, o)
      BY <2>2, <3>2, Zenon
    <3>4. cObjects'[q] = a[q]
      BY <3>2, <3>3
    <3> QED
      BY <3>2, <3>4, Zenon
  <2>5. CASE IsDestructor(x) /\ q = r
    <3>1. cObjects'[q].listed = cObjects[q].listed
      BY <2>3, <2>4, <2>5
    <3> QED
      BY <2>1, <2>5, <3>1 DEF Goal, Destructs
  <2>6. CASE ~(IsDestructor(x) /\ q = r)
    <3>1. cObjects'[q] = cObjects[q]
      BY <2>4, <2>6
    <3> QED
      BY <1>1, <3>1 DEF Goal
  <2> QED
    BY <2>5, <2>6
<1>13. CASE \E r \in 1 .. Len(cObjects) : ClientLetsGo(r)
  <2>1. PICK i \in 1 .. Len(cObjects) : ClientLetsGo(i)
    BY <1>13
  <2> DEFINE u == [cObjects[i] EXCEPT !.held = FALSE]
  <2>2. cObjects' = [cObjects EXCEPT ![i] = u]
    BY <2>1 DEF ClientLetsGo
  <2>3. u.listed = cObjects[i].listed /\ u.destroyed = cObjects[i].destroyed
    BY DEF ClientObject
  <2> HIDE DEF u
  <2> QED
    BY <1>3, <2>2, <2>3
<1>14. CASE ClientCloses
  BY <1>14 DEF Goal
<1>15. CASE ClientTimesOut \/ ClientFindsNothing \/ ClientReads \/ ClientReadsEnd
  BY <1>2, <1>15, Zenon DEF ClientTimesOut, ClientFindsNothing, ClientReads, ClientReadsEnd
<1>16. CASE \/ ClientHandlesBegin
            \/ ClientHandlesProtocols
            \/ ClientHandlesUnknown
            \/ ClientCalled
            \/ ClientHandlesFatal
            \/ ClientHandlesDone
            \/ ClientRejects
  BY <1>2, <1>16, Zenon DEF ClientHandlesBegin, ClientHandlesProtocols, ClientHandlesUnknown, ClientCalled,
     ClientHandlesFatal, ClientHandlesDone, ClientRejects
<1>17. CASE ClientWaitsForHandshake \/ ClientDispatches \/ ClientRoundtrips
  BY <1>2, <1>17, Zenon DEF ClientWaitsForHandshake, ClientDispatches, ClientRoundtrips
<1>18. CASE \E p \in Protocols, v \in 1 .. 2 : ClientBindsTooNew(p, v)
  BY <1>2, <1>18, Zenon DEF ClientBindsTooNew
<1> QED
  BY <1>6, <1>7, <1>8, <1>9, <1>10, <1>11, <1>12, <1>13, <1>14, <1>15, <1>16, <1>17, <1>18, Zenon
     DEF ClientSteps, ClientRuns, ClientHandles, ClientActs

\* An object that was not there is the one the client asks for.
LEMMA NewcomersAreAsked ==
    ASSUME WireTypeOK, ClientInv, BatchesWhenParsing, ClientSteps,
           NEW q \in 1 .. Len(cObjects'), q \notin 1 .. Len(cObjects)
    PROVE  Asks /\ q = Len(cObjects) + 1
<1> /\ ClientTypeOK
    /\ Len(cObjects) \in Nat
    /\ Len(cObjects') # Len(cObjects)
  BY LenProperties DEF ClientInv, ClientTypeOK
<1>1. ASSUME NEW n, Hears(n)
      PROVE  FALSE
  <2>1. CASE cObjects' = cObjects
    BY <2>1
  <2>2. CASE n.seq \in 1 .. Len(cObjects) /\ cObjects' = [cObjects EXCEPT ![n.seq].id = n.id]
    <3>1. n \in ServerMessage /\ n.type = "NEW_OBJECT"
      BY <1>1, ComingIsTyped DEF Hears
    <3>2. n.id \in Nat
      BY <3>1 DEF ServerMessage, Invalid
    <3>3. cObjects[n.seq] \in ClientObject
      BY <2>2, ElementOfSeq DEF ClientTypeOK
    <3>4. [cObjects[n.seq] EXCEPT !.id = n.id] \in ClientObject
      BY <3>2, <3>3, ObjectUpdates
    <3> QED
      BY <2>2, <3>4, UpdateType
  <2> QED
    BY <1>1, <2>1, <2>2 DEF Hears
<1>2. Asks
  BY <1>1, ClientMoves DEF Idles, Frees, LetsAllGo
<1> QED
  BY <1>2 DEF Asks

-----------------------------------------------------------------------------
(* What becomes of the calls the client made                               *)

\* What the client writes comes after what it wrote before.
LEMMA ClientAppends ==
    ASSUME WireTypeOK, ClientInv, ClientSteps
    PROVE  \E s \in Seq(ClientMessage) : c2s' = c2s \o s
<1> /\ ClientTypeOK
    /\ Len(cObjects) \in Nat
    /\ c2s \in Seq(ClientMessage)
  BY LenProperties DEF ClientInv, ClientTypeOK, WireTypeOK
<1> DEFINE Goal == \E s \in Seq(ClientMessage) : c2s' = c2s \o s
<1> SUFFICES Goal
  OBVIOUS
<1>2. ASSUME c2s' = c2s
      PROVE  Goal
  <2>1. <<>> \in Seq(ClientMessage) /\ c2s \o <<>> = c2s
    BY EmptySeq, ConcatEmptySeq
  <2> QED
    BY <1>2, <2>1
<1>1. ASSUME NEW s \in Seq(ClientMessage), ClientSends(s)
      PROVE  Goal
  <2>1. CASE c2s' = c2s
    BY <1>2, <2>1
  <2>2. CASE c2s' = c2s \o s
    BY <2>2
  <2> QED
    BY <1>1, <2>1, <2>2, Zenon DEF ClientSends
<1>3. ASSUME NEW n \in ClientMessage, ClientSends(<<n>>)
      PROVE  Goal
  <2>1. <<n>> \in Seq(ClientMessage)
    OBVIOUS
  <2> QED
    BY <1>1, <1>3, <2>1
<1> HIDE DEF Goal
<1>4. CASE ClientHandlesBegin
  <2>1. HandshakeAck(HYPRWIRE_PROTOCOL_VER) \in ClientMessage
    BY ClientMessages DEF HYPRWIRE_PROTOCOL_VER
  <2>2. ClientSends(<<HandshakeAck(HYPRWIRE_PROTOCOL_VER)>>) \/ c2s' = c2s
    BY <1>4, Zenon DEF ClientHandlesBegin
  <2> QED
    BY <1>2, <1>3, <2>1, <2>2
<1>5. CASE ClientBeginsDispatch
  BY <1>1, <1>5, FarewellsType DEF ClientBeginsDispatch
<1>6. CASE ClientFinishesBatch
  <2>1. PICK flushed \in Flushed, farewells \in Farewells : ClientSends(flushed \o farewells)
    BY <1>6 DEF ClientFinishesBatch
  <2>2. flushed \o farewells \in Seq(ClientMessage)
    BY FlushedType, FarewellsType, ConcatProperties
  <2> QED
    BY <1>1, <2>1, <2>2
<1>7. CASE \E p \in Protocols, v \in 1 .. 2 : ClientBinds(p, v)
  <2>1. PICK p \in Protocols, v \in 1 .. 2 : ClientBinds(p, v)
    BY <1>7
  <2>2. BindProtocol(Len(cObjects) + 1, p, v) \in ClientMessage
    BY ClientMessages
  <2> QED
    BY <1>3, <2>1, <2>2 DEF ClientBinds
<1>8. CASE \E q \in 1 .. Len(cObjects), x \in Requests, takes \in BOOLEAN : ClientCalls(q, x, takes)
  <2>1. PICK q \in 1 .. Len(cObjects), x \in Requests, takes \in BOOLEAN : ClientCalls(q, x, takes)
    BY <1>8
  <2>2. cObjects[q] \in ClientObject /\ x \in AllRequests /\ CallSeq(x) \in Nat
    BY ElementOfSeq, MethodsAssumption DEF ClientTypeOK, CallSeq
  <2>3. c2s' = c2s \/ ClientSends(<<Generic(cObjects[q].id, x, CallSeq(x))>>)
    BY <2>1, Zenon DEF ClientCalls, CallSeq
  <2>4. Generic(cObjects[q].id, x, CallSeq(x)) \in ClientMessage
    BY <2>2, ClientMessages DEF ClientObject
  <2> QED
    BY <1>2, <1>3, <2>3, <2>4
<1>9. CASE ClientRoundtrips
  <2>1. RoundtripRequest(lastSent') \in ClientMessage
    BY <1>9, ClientMessages DEF ClientRoundtrips, ClientTypeOK
  <2> QED
    BY <1>3, <1>9, <2>1 DEF ClientRoundtrips
<1> USE <1>2 DEF wireVars
<1>10. CASE ClientCallReturns \/ ClientFindsNothing \/ ClientReads \/ ClientCloses
  BY <1>10, Zenon DEF ClientCallReturns, ClientFindsNothing, ClientReads, ClientCloses
<1>11. CASE ClientTimesOut \/ ClientReadsEnd \/ ClientListenerReturns
  BY <1>11, Zenon DEF ClientTimesOut, ClientReadsEnd, ClientListenerReturns
<1>12. CASE ClientHandlesProtocols \/ ClientHandlesNewObject \/ ClientHandlesUnknown \/ ClientDropsEvent
  BY <1>12, Zenon DEF ClientHandlesProtocols, ClientHandlesNewObject, ClientHandlesUnknown,
     ClientDropsEvent
<1>13. CASE ClientCalled \/ ClientHandlesFatal \/ ClientHandlesDone \/ ClientRejects
  BY <1>13, Zenon DEF ClientCalled, ClientHandlesFatal, ClientHandlesDone, ClientRejects
<1>14. CASE ClientWaitsForHandshake \/ ClientDispatches
  BY <1>14, Zenon DEF ClientWaitsForHandshake, ClientDispatches
<1>15. CASE \E p \in Protocols, v \in 1 .. 2 : ClientBindsTooNew(p, v)
  BY <1>15, Zenon DEF ClientBindsTooNew
<1>16. CASE \E q \in 1 .. Len(cObjects) : ClientLetsGo(q)
  BY <1>16, Zenon DEF ClientLetsGo
<1> QED
  BY <1>4, <1>5, <1>6, <1>7, <1>8, <1>9, <1>10, <1>11, <1>12, <1>13, <1>14, <1>15, <1>16, Zenon
     DEF ClientSteps, ClientRuns, ClientHandles, ClientActs

\* Nothing the client wrote is taken back.
LEMMA ClientKeepsWord ==
    ASSUME WireTypeOK, ClientInv, ClientSteps
    PROVE  Range(c2s) \subseteq Range(c2s')
<1>1. PICK s \in Seq(ClientMessage) : c2s' = c2s \o s
  BY ClientAppends
<1> QED
  BY <1>1, RangeConcatenation DEF WireTypeOK

\* A message that is sent between open ends waits for the server.
LEMMA ClientSentWaits ==
    ASSUME WireTypeOK, clientOpen, serverOpen, NEW msgs \in Seq(ClientMessage), ClientSends(msgs)
    PROVE  Range(msgs) \subseteq Range(c2s')
BY RangeConcatenation DEF WireTypeOK, ClientSends

\* The message a deferred call becomes once its object has its id.
Resolved(d) == Generic(cObjects[d.dependsOn].id, d.method, d.seq)

\* A deferred call stays deferred, unless the batch is over and its object has
\* its id, and then it is sent, or is no longer listed.
LEMMA ClientKeepsDeferred ==
    ASSUME WireTypeOK, ClientInv, ClientSteps, NEW k \in 1 .. Len(pendingOutgoing)
    PROVE  \/ \E j \in 1 .. Len(pendingOutgoing') : pendingOutgoing'[j] = pendingOutgoing[k]
           \/ /\ ClientFinishesBatch
              /\ Resolvable(pendingOutgoing[k])
              /\ clientOpen /\ serverOpen => Resolved(pendingOutgoing[k]) \in Range(c2s')
           \/ Forgotten(pendingOutgoing[k])
           \/ ClientCloses
<1> DEFINE Stays == \E j \in 1 .. Len(pendingOutgoing') : pendingOutgoing'[j] = pendingOutgoing[k]
           Sent_ == /\ ClientFinishesBatch
                    /\ Resolvable(pendingOutgoing[k])
                    /\ clientOpen /\ serverOpen => Resolved(pendingOutgoing[k]) \in Range(c2s')
           Goal == Stays \/ Sent_ \/ Forgotten(pendingOutgoing[k]) \/ ClientCloses
<1> SUFFICES Goal
  OBVIOUS
<1> /\ ClientTypeOK
    /\ Len(pendingOutgoing) \in Nat
    /\ pendingOutgoing \in Seq(Deferred)
  BY LenProperties DEF ClientInv, ClientTypeOK
<1>1. ASSUME pendingOutgoing' = pendingOutgoing
      PROVE  Goal
  BY <1>1
<1>2. CASE ClientFinishesBatch
  <2>1. PICK flushed \in Flushed, farewells \in Farewells : ClientSends(flushed \o farewells)
    BY <1>2 DEF ClientFinishesBatch
  <2>2. PICK waiting \in InOrder(AwaitingDeferrals) :
           pendingOutgoing' = [j \in DOMAIN waiting |-> pendingOutgoing[waiting[j]]]
    BY <1>2, Zenon DEF ClientFinishesBatch
  <2>3. CASE Awaiting(pendingOutgoing[k])
    <3>1. k \in AwaitingDeferrals /\ AwaitingDeferrals \in SUBSET (1 .. Len(pendingOutgoing))
      BY <2>3 DEF AwaitingDeferrals
    <3>2. PICK j \in DOMAIN waiting : waiting[j] = k
      BY <3>1, InOrderSurjective
    <3>3. PICK n \in Nat : DOMAIN waiting = 1 .. n
      BY <3>1, InOrderType
    <3>4. /\ j \in 1 .. Len(pendingOutgoing')
          /\ pendingOutgoing'[j] = pendingOutgoing[waiting[j]]
      BY <2>2, <3>2, <3>3
    <3> QED
      BY <3>2, <3>4
  <2>4. CASE Resolvable(pendingOutgoing[k])
    <3>1. PICK ready \in InOrder(ResolvableDeferrals) :
             flushed = [j \in DOMAIN ready |-> Resolved(pendingOutgoing[ready[j]])]
      BY Zenon DEF Flushed, Resolved
    <3>2. k \in ResolvableDeferrals /\ ResolvableDeferrals \in SUBSET (1 .. Len(pendingOutgoing))
      BY <2>4 DEF ResolvableDeferrals
    <3>3. PICK j \in DOMAIN ready : ready[j] = k
      BY <3>2, InOrderSurjective
    <3>4. Resolved(pendingOutgoing[k]) \in Range(flushed)
      <4> HIDE DEF Resolved
      <4>1. j \in DOMAIN flushed /\ flushed[j] = Resolved(pendingOutgoing[k])
        BY <3>1, <3>3
      <4> QED
        BY <4>1, Zenon DEF Range
    <3>5. flushed \in Seq(ClientMessage) /\ farewells \in Seq(ClientMessage)
      BY FlushedType, FarewellsType
    <3>6. /\ flushed \o farewells \in Seq(ClientMessage)
          /\ Range(flushed) \subseteq Range(flushed \o farewells)
      BY <3>5, RangeConcatenation, ConcatProperties
    <3>7. clientOpen /\ serverOpen => Range(flushed \o farewells) \subseteq Range(c2s')
      BY <2>1, <3>6, ClientSentWaits
    <3>8. clientOpen /\ serverOpen => Resolved(pendingOutgoing[k]) \in Range(c2s')
      BY <3>4, <3>6, <3>7, Zenon
    <3> HIDE DEF Resolved
    <3> QED
      BY <1>2, <2>4, <3>8, Zenon
  <2> QED
    BY <2>3, <2>4, Zenon DEF Awaiting, Resolvable
<1>3. CASE \E q \in 1 .. Len(cObjects), x \in Requests, takes \in BOOLEAN : ClientCalls(q, x, takes)
  <2>1. PICK q \in 1 .. Len(cObjects), x \in Requests, takes \in BOOLEAN : ClientCalls(q, x, takes)
    BY <1>3
  <2>2. PICK d : pendingOutgoing' = pendingOutgoing \/ pendingOutgoing' = Append(pendingOutgoing, d)
    BY <2>1, Zenon DEF ClientCalls
  <2>3. k \in 1 .. Len(pendingOutgoing') /\ pendingOutgoing'[k] = pendingOutgoing[k]
    BY <2>2
  <2> QED
    BY <2>3, Zenon
<1>4. CASE ClientCloses
  BY <1>4
<1> HIDE DEF Goal
<1> USE <1>1 DEF wireVars
<1>5. CASE ClientCallReturns \/ ClientBeginsDispatch \/ ClientFindsNothing \/ ClientReads
  BY <1>5, Zenon DEF ClientCallReturns, ClientBeginsDispatch, ClientFindsNothing, ClientReads
<1>6. CASE ClientTimesOut \/ ClientReadsEnd \/ ClientListenerReturns \/ ClientHandlesBegin
  BY <1>6, Zenon DEF ClientTimesOut, ClientReadsEnd, ClientListenerReturns, ClientHandlesBegin
<1>7. CASE ClientHandlesProtocols \/ ClientHandlesNewObject \/ ClientHandlesUnknown \/ ClientDropsEvent
  BY <1>7, Zenon DEF ClientHandlesProtocols, ClientHandlesNewObject, ClientHandlesUnknown,
     ClientDropsEvent
<1>8. CASE ClientCalled \/ ClientHandlesFatal \/ ClientHandlesDone \/ ClientRejects
  BY <1>8, Zenon DEF ClientCalled, ClientHandlesFatal, ClientHandlesDone, ClientRejects
<1>9. CASE ClientWaitsForHandshake \/ ClientDispatches \/ ClientRoundtrips
  BY <1>9, Zenon DEF ClientWaitsForHandshake, ClientDispatches, ClientRoundtrips
<1>10. CASE \E p \in Protocols, v \in 1 .. 2 : ClientBinds(p, v) \/ ClientBindsTooNew(p, v)
  BY <1>10, Zenon DEF ClientBinds, ClientBindsTooNew
<1>11. CASE \E q \in 1 .. Len(cObjects) : ClientLetsGo(q)
  BY <1>11, Zenon DEF ClientLetsGo
<1> QED
  BY <1>2, <1>3, <1>4, <1>5, <1>6, <1>7, <1>8, <1>9, <1>10, <1>11, Zenon
     DEF ClientSteps, ClientRuns, ClientHandles, ClientActs

\* A destructor the application calls is sent, or deferred when its object has
\* no id.
LEMMA DestructorGoes ==
    ASSUME WireTypeOK, ClientInv, NEW q \in 1 .. Len(cObjects), Destructs(q)
    PROVE  /\ cObjects[q].id = 0 =>
                \E j \in 1 .. Len(pendingOutgoing') :
                   pendingOutgoing'[j].dependsOn = q /\ IsDestructor(pendingOutgoing'[j].method)
           /\ cObjects[q].id # 0 /\ clientOpen /\ serverOpen =>
                \E m \in Range(c2s') : Ends(m) /\ m.object = cObjects[q].id
<1> ClientTypeOK
  BY DEF ClientInv
<1>1. PICK x \in Requests, takes \in BOOLEAN : ClientCalls(q, x, takes) /\ IsDestructor(x)
  BY Zenon DEF Destructs
<1>2. CASE cObjects[q].id = 0
  <2> DEFINE d == [dependsOn |-> q, method |-> x, seq |-> CallSeq(x)]
  <2>1. pendingOutgoing' = Append(pendingOutgoing, d)
    BY <1>1, <1>2, Zenon DEF ClientCalls, CallSeq
  <2>2. d.dependsOn = q /\ d.method = x
    OBVIOUS
  <2> HIDE DEF d
  <2>3. /\ Len(pendingOutgoing) + 1 \in 1 .. Len(pendingOutgoing')
        /\ pendingOutgoing'[Len(pendingOutgoing) + 1] = d
    BY <2>1 DEF ClientTypeOK
  <2> QED
    BY <1>1, <1>2, <2>2, <2>3
<1>3. CASE cObjects[q].id # 0
  <2> DEFINE m == Generic(cObjects[q].id, x, CallSeq(x))
  <2>1. cObjects[q] \in ClientObject /\ x \in AllRequests /\ CallSeq(x) \in Nat
    BY ElementOfSeq, LenProperties, MethodsAssumption DEF ClientTypeOK, CallSeq
  <2>2. ClientSends(<<m>>)
    BY <1>1, <1>3, Zenon DEF ClientCalls, CallSeq
  <2>3. m \in ClientMessage
    BY <2>1, ClientMessages DEF ClientObject
  <2>4. Ends(m) /\ m.object = cObjects[q].id
    BY <1>1 DEF Ends, Generic
  <2> HIDE DEF m
  <2>5. <<m>> \in Seq(ClientMessage) /\ m \in Range(<<m>>)
    BY <2>3, RangeOfShort
  <2>6. clientOpen /\ serverOpen => m \in Range(c2s')
    BY <2>2, <2>5, ClientSentWaits, Zenon
  <2> QED
    BY <1>3, <2>4, <2>6
<1> QED
  BY <1>2, <1>3

\* The request for a new object is sent, or deferred with the call that makes
\* it.
LEMMA NewcomerGoes ==
    ASSUME WireTypeOK, ClientInv, Requesting, NEW q, q = Len(cObjects) + 1
    PROVE  \/ q \in SeqsDeferred(pendingOutgoing')
           \/ clientOpen /\ serverOpen => \E m \in Range(c2s') : AsksFor(m) /\ m.seq = q
<1> /\ ClientTypeOK
    /\ Len(cObjects) \in Nat
    /\ q \in Nat
  BY LenProperties DEF ClientInv, ClientTypeOK
<1>1. ASSUME NEW m \in ClientMessage, ClientSends(<<m>>), AsksFor(m), m.seq = q
      PROVE  clientOpen /\ serverOpen => \E n \in Range(c2s') : AsksFor(n) /\ n.seq = q
  <2>1. <<m>> \in Seq(ClientMessage) /\ m \in Range(<<m>>)
    BY RangeOfShort
  <2>2. clientOpen /\ serverOpen => m \in Range(c2s')
    BY <1>1, <2>1, ClientSentWaits, Zenon
  <2> QED
    BY <1>1, <2>2
<1>2. CASE \E p \in Protocols, v \in 1 .. 2 : ClientBinds(p, v)
  <2>1. PICK p \in Protocols, v \in 1 .. 2 : ClientBinds(p, v)
    BY <1>2
  <2>2. /\ BindProtocol(q, p, v) \in ClientMessage
        /\ AsksFor(BindProtocol(q, p, v))
        /\ BindProtocol(q, p, v).seq = q
    BY ClientMessages DEF AsksFor, BindProtocol
  <2>3. ClientSends(<<BindProtocol(q, p, v)>>)
    BY <2>1, Zenon DEF ClientBinds
  <2> QED
    BY <1>1, <2>2, <2>3
<1>3. CASE \E i \in 1 .. Len(cObjects), x \in Requests, takes \in BOOLEAN :
             ClientCalls(i, x, takes) /\ Creates(x)
  <2>1. PICK i \in 1 .. Len(cObjects), x \in Requests, takes \in BOOLEAN :
           ClientCalls(i, x, takes) /\ Creates(x)
    BY <1>3
  <2>2. CASE cObjects[i].id = 0
    <3> DEFINE d == [dependsOn |-> i, method |-> x, seq |-> q]
    <3>1. pendingOutgoing' = Append(pendingOutgoing, d)
      BY <2>1, <2>2, Zenon DEF ClientCalls
    <3>2. d.method = x /\ d.seq = q
      OBVIOUS
    <3> HIDE DEF d
    <3>3. /\ Len(pendingOutgoing) + 1 \in 1 .. Len(pendingOutgoing')
          /\ pendingOutgoing'[Len(pendingOutgoing) + 1] = d
      BY <3>1 DEF ClientTypeOK
    <3> QED
      BY <2>1, <3>2, <3>3 DEF SeqsDeferred
  <2>3. CASE cObjects[i].id # 0
    <3> DEFINE m == Generic(cObjects[i].id, x, q)
    <3>1. cObjects[i] \in ClientObject /\ x \in AllRequests
      BY ElementOfSeq, MethodsAssumption DEF ClientTypeOK
    <3>2. ClientSends(<<m>>)
      BY <2>1, <2>3, Zenon DEF ClientCalls
    <3>3. m \in ClientMessage
      BY <3>1, ClientMessages DEF ClientObject
    <3>4. AsksFor(m) /\ m.seq = q
      BY <2>1 DEF AsksFor, Generic
    <3> HIDE DEF m
    <3> QED
      BY <1>1, <3>2, <3>3, <3>4
  <2> QED
    BY <2>2, <2>3
<1> QED
  BY <1>2, <1>3 DEF Requesting

-----------------------------------------------------------------------------
(* Roundtrips                                                              *)

\* The numbers of roundtrips change only where one begins and where one is
\* acknowledged.
LEMMA ClientRounds ==
    ASSUME ClientSteps
    PROVE  /\ UNCHANGED lastSent \/ (ClientRoundtrips /\ lastSent' = lastSent + 1)
           /\ UNCHANGED lastAckd \/ (ClientHandlesDone /\ lastAckd' = Received.seq)
<1> DEFINE Goal == /\ UNCHANGED lastSent \/ (ClientRoundtrips /\ lastSent' = lastSent + 1)
                   /\ UNCHANGED lastAckd \/ (ClientHandlesDone /\ lastAckd' = Received.seq)
<1> SUFFICES Goal
  OBVIOUS
<1>1. ASSUME lastSent' = lastSent, lastAckd' = lastAckd
      PROVE  Goal
  BY <1>1
<1>2. CASE ClientHandlesDone
  BY <1>2, Zenon DEF ClientHandlesDone
<1>3. CASE ClientRoundtrips
  BY <1>3, Zenon DEF ClientRoundtrips
<1> HIDE DEF Goal
<1>4. CASE ClientCallReturns \/ ClientBeginsDispatch \/ ClientFindsNothing \/ ClientReads
  BY <1>1, <1>4, Zenon DEF ClientCallReturns, ClientBeginsDispatch, ClientFindsNothing, ClientReads
<1>5. CASE ClientTimesOut \/ ClientReadsEnd \/ ClientListenerReturns \/ ClientFinishesBatch
  BY <1>1, <1>5, Zenon DEF ClientTimesOut, ClientReadsEnd, ClientListenerReturns, ClientFinishesBatch
<1>6. CASE ClientHandlesBegin \/ ClientHandlesProtocols \/ ClientHandlesNewObject \/ ClientHandlesUnknown
  BY <1>1, <1>6, Zenon DEF ClientHandlesBegin, ClientHandlesProtocols, ClientHandlesNewObject,
     ClientHandlesUnknown
<1>7. CASE ClientDropsEvent \/ ClientCalled \/ ClientHandlesFatal \/ ClientRejects
  BY <1>1, <1>7, Zenon DEF ClientDropsEvent, ClientCalled, ClientHandlesFatal, ClientRejects
<1>8. CASE ClientWaitsForHandshake \/ ClientDispatches \/ ClientCloses
  BY <1>1, <1>8, Zenon DEF ClientWaitsForHandshake, ClientDispatches, ClientCloses
<1>9. CASE \E p \in Protocols, v \in 1 .. 2 : ClientBinds(p, v) \/ ClientBindsTooNew(p, v)
  BY <1>1, <1>9, Zenon DEF ClientBinds, ClientBindsTooNew
<1>10. CASE \E q \in 1 .. Len(cObjects), x \in Requests, takes \in BOOLEAN : ClientCalls(q, x, takes)
  BY <1>1, <1>10, Zenon DEF ClientCalls
<1>11. CASE \E q \in 1 .. Len(cObjects) : ClientLetsGo(q)
  BY <1>1, <1>11, Zenon DEF ClientLetsGo
<1> QED
  BY <1>2, <1>3, <1>4, <1>5, <1>6, <1>7, <1>8, <1>9, <1>10, <1>11, Zenon
     DEF ClientSteps, ClientRuns, ClientHandles, ClientActs

\* A call that waits for a roundtrip waits for the same one until it returns.
WaitsFor(f) == <<f.wait, f.arg, f.sent>>

LEMMA WaitStays ==
    ASSUME WireTypeOK, ClientInv, ClientSteps, NEW k \in 1 .. Len(stack'), stack'[k].wait = "roundtrip"
    PROVE  \/ \E g \in 1 .. Len(stack) : WaitsFor(stack'[k]) = WaitsFor(stack[g])
           \/ ClientRoundtrips /\ WaitsFor(stack'[k]) = <<"roundtrip", lastSent + 1, Sent>>
<1> ClientTypeOK
  BY DEF ClientInv
<1> DEFINE Meant(f) == \/ f.wait # "roundtrip"
                       \/ \E g \in 1 .. Len(stack) : WaitsFor(f) = WaitsFor(stack[g])
                       \/ ClientRoundtrips /\ WaitsFor(f) = <<"roundtrip", lastSent + 1, Sent>>
           Goal == Meant(stack'[k])
<1> SUFFICES Goal
  OBVIOUS
<1>0. \A g \in 1 .. Len(stack) : Meant(stack[g])
  OBVIOUS
<1>1. ASSUME NEW f \in Frame, stack # <<>>, SetTop(f), Meant(f)
      PROVE  Goal
  <2> HIDE DEF Meant
  <2>1. /\ Len(stack') = Len(stack)
        /\ stack'[1] = f
        /\ \A j \in 2 .. Len(stack) : stack'[j] = stack[j]
        /\ Len(stack) \in Nat
    BY <1>1, StackSteps
  <2>2. k = 1 \/ (k \in 2 .. Len(stack) /\ k \in 1 .. Len(stack))
    BY <2>1
  <2> QED
    BY <1>0, <1>1, <2>1, <2>2
<1>2. ASSUME stack # <<>>, Pop
      PROVE  Goal
  <2> HIDE DEF Meant
  <2>1. /\ k + 1 \in 2 .. Len(stack) /\ stack'[k] = stack[k + 1]
        /\ \A j \in 2 .. Len(stack) : j \in 1 .. Len(stack)
    BY <1>2, StackSteps
  <2> QED
    BY <1>0, <2>1
<1>3. ASSUME NEW w \in Waits, NEW a \in Nat, Push(NewFrame(w, a)), Meant(NewFrame(w, a))
      PROVE  Goal
  <2> HIDE DEF Meant
  <2>2. Len(stack') \in Nat /\ NewFrame(w, a) \in Frame
    BY <1>3, StackSteps, NewFrameType
  <2>3. k = 1 \/ k \in 2 .. Len(stack')
    BY <2>2
  <2>4. stack'[k] = NewFrame(w, a) \/ \E j \in 1 .. Len(stack) : stack'[k] = stack[j]
    BY <1>3, <2>2, <2>3, StackSteps
  <2> QED
    BY <1>0, <1>3, <2>4
<1>4. ASSUME stack # <<>>
      PROVE  /\ Top \in Frame
             /\ \A f \in Frame : WaitsFor(f) = WaitsFor(Top) => Meant(f)
  <2>1. 1 \in 1 .. Len(stack) /\ Top = stack[1]
    BY <1>4, StackSteps
  <2> QED
    BY <1>4, <2>1, TopType, Zenon
<1>5. ASSUME NEW ok, stack # <<>>, DispatchReturns(ok)
      PROVE  Goal
  <2>1. /\ [Top EXCEPT !.phase = "loop", !.batch = <<>>] \in Frame
        /\ WaitsFor([Top EXCEPT !.phase = "loop", !.batch = <<>>]) = WaitsFor(Top)
    BY <1>5, TopType, EmptySeq DEF Frame, Phases, WaitsFor
  <2> HIDE DEF Meant, Goal
  <2> QED
    BY <1>1, <1>2, <1>4, <1>5, <2>1 DEF DispatchReturns
<1>6. ASSUME NEW t, ClientParses(t), SetTop(Consumed)
      PROVE  Goal
  <2>1. stack # <<>> /\ Consumed \in Frame
    BY <1>6, ReceivedType
  <2>2. WaitsFor(Consumed) = WaitsFor(Top)
    BY <2>1, TopType DEF Consumed, Frame, WaitsFor
  <2> HIDE DEF Meant, Goal
  <2> QED
    BY <1>1, <1>4, <1>6, <2>1, <2>2
<1>7. CASE UNCHANGED stack
  BY <1>7
<1>8. ASSUME NEW w \in Waits, NEW a \in Nat, w # "roundtrip"
      PROVE  Meant(NewFrame(w, a))
  BY <1>8 DEF NewFrame
<1>9. ClientRoundtrips => Meant(NewFrame("roundtrip", lastSent + 1))
  BY DEF NewFrame, WaitsFor
<1> HIDE DEF Meant, Goal
<1>10. CASE ClientCallReturns
  BY <1>2, <1>10 DEF ClientCallReturns, InPhase
<1>11. CASE ClientBeginsDispatch
  <2>1. stack # <<>> /\ Top \in Frame
    BY <1>11, TopType DEF ClientBeginsDispatch, InPhase
  <2>2. /\ [Top EXCEPT !.phase = "poll"] \in Frame
        /\ WaitsFor([Top EXCEPT !.phase = "poll"]) = WaitsFor(Top)
    BY <2>1 DEF Frame, Phases, WaitsFor
  <2> QED
    BY <1>1, <1>4, <1>11, <2>1, <2>2 DEF ClientBeginsDispatch
<1>12. CASE ClientTimesOut \/ ClientFindsNothing \/ ClientReadsEnd \/ ClientRejects \/ ClientFinishesBatch
  BY <1>5, <1>12 DEF ClientTimesOut, ClientFindsNothing, ClientReadsEnd, ClientRejects, ClientFinishesBatch,
     ClientParses, InPhase
<1>13. CASE ClientReads
  <2>1. PICK n \in ReadLengths(s2c) :
           SetTop([Top EXCEPT !.phase = "parse", !.batch = SubSeq(s2c, 1, n)])
    BY <1>13, Zenon DEF ClientReads
  <2>2. SubSeq(s2c, 1, n) \in Seq(ServerMessage)
    BY ReadSplitsQueue DEF WireTypeOK
  <2>3. stack # <<>> /\ Top \in Frame
    BY <1>13, TopType DEF ClientReads, InPhase
  <2>4. /\ [Top EXCEPT !.phase = "parse", !.batch = SubSeq(s2c, 1, n)] \in Frame
        /\ WaitsFor([Top EXCEPT !.phase = "parse", !.batch = SubSeq(s2c, 1, n)]) = WaitsFor(Top)
    BY <2>2, <2>3 DEF Frame, Phases, WaitsFor
  <2> QED
    BY <1>1, <1>4, <2>1, <2>3, <2>4
<1>14. CASE ClientHandlesBegin
  <2>1. SetTop(Consumed) \/ DispatchReturns(FALSE)
    BY <1>14 DEF ClientHandlesBegin
  <2> QED
    BY <1>5, <1>6, <1>14, <2>1 DEF ClientHandlesBegin, ClientParses, InPhase
<1>15. CASE \/ ClientHandlesProtocols
            \/ ClientHandlesNewObject
            \/ ClientHandlesUnknown
            \/ ClientDropsEvent
            \/ ClientHandlesFatal
            \/ ClientHandlesDone
  BY <1>6, <1>15 DEF ClientHandlesProtocols, ClientHandlesNewObject, ClientHandlesUnknown,
     ClientDropsEvent, ClientHandlesFatal, ClientHandlesDone
<1>16. CASE ClientCalled
  <2>1. PICK q \in Addressees :
           SetTop([Consumed EXCEPT !.phase = "call",
                                   !.called = [seq |-> q, method |-> Received.method]])
    BY <1>16, Zenon DEF ClientCalled
  <2>2. Received \in ServerMessage /\ Consumed \in Frame /\ ClientParses("GENERIC") /\ stack # <<>>
    BY <1>16, ReceivedType DEF ClientCalled
  <2>3. q \in Nat /\ Received.method \in AllEvents
    BY <2>2 DEF ClientParses, Addressees, ServerMessage, Invalid
  <2> DEFINE c == [seq |-> q, method |-> Received.method]
             f == [Consumed EXCEPT !.phase = "call", !.called = c]
  <2>4. f \in Frame
    BY <2>2, <2>3 DEF Frame, Phases
  <2>5. WaitsFor(f) = WaitsFor(Top)
    BY <2>2, TopType DEF Frame, WaitsFor, Consumed
  <2>6. SetTop(f)
    BY <2>1, Zenon
  <2> HIDE DEF c, f
  <2> QED
    BY <1>1, <1>4, <2>2, <2>4, <2>5, <2>6
<1>17. CASE ClientListenerReturns
  <2>1. /\ [Top EXCEPT !.phase = "parse", !.called = Idle] \in Frame
        /\ WaitsFor([Top EXCEPT !.phase = "parse", !.called = Idle]) = WaitsFor(Top)
        /\ stack # <<>>
    BY <1>17, TopType DEF ClientListenerReturns, InPhase, Frame, Phases, Idle, WaitsFor
  <2> QED
    BY <1>1, <1>4, <1>17, <2>1 DEF ClientListenerReturns
<1>18. CASE ClientWaitsForHandshake
  <2>1. "handshake" \in Waits /\ "handshake" # "roundtrip"
    BY DEF Waits
  <2> QED
    BY <1>3, <1>8, <1>18, <2>1 DEF ClientWaitsForHandshake
<1>19. CASE ClientDispatches
  <2>1. PICK w \in Dispatches : Push(NewFrame(w, 0))
    BY <1>19, Zenon DEF ClientDispatches
  <2>2. w \in Waits /\ w # "roundtrip"
    BY ClientAssumption DEF Waits
  <2> QED
    BY <1>3, <1>8, <2>1, <2>2
<1>20. CASE \E p \in Protocols, v \in 1 .. 2 : ClientBinds(p, v)
  <2>1. Push(NewFrame("object", Len(cObjects) + 1)) /\ Len(cObjects) \in Nat
    BY <1>20, LenProperties DEF ClientBinds, ClientTypeOK
  <2>2. "object" \in Waits /\ "object" # "roundtrip"
    BY DEF Waits
  <2> QED
    BY <1>3, <1>8, <2>1, <2>2
<1>21. CASE ClientRoundtrips
  <2>1. Push(NewFrame("roundtrip", lastSent + 1)) /\ lastSent + 1 \in Nat
    BY <1>21 DEF ClientRoundtrips, ClientTypeOK
  <2> QED
    BY <1>3, <1>9, <1>21, <2>1 DEF Waits
<1>22. CASE \E p \in Protocols, v \in 1 .. 2 : ClientBindsTooNew(p, v)
  BY <1>7, <1>22 DEF ClientBindsTooNew
<1>23. CASE \E q \in 1 .. Len(cObjects), m \in Requests, takes \in BOOLEAN : ClientCalls(q, m, takes)
  BY <1>7, <1>23 DEF ClientCalls
<1>24. CASE \E q \in 1 .. Len(cObjects) : ClientLetsGo(q)
  BY <1>7, <1>24 DEF ClientLetsGo
<1>25. CASE ClientCloses
  <2>1. stack' = stack
    BY <1>25, Zenon DEF ClientCloses
  <2> QED
    BY <1>7, <2>1
<1> QED
  BY <1>10, <1>11, <1>12, <1>13, <1>14, <1>15, <1>16, <1>17, <1>18, <1>19, <1>20, <1>21, <1>22, <1>23, <1>24, <1>25, Zenon
     DEF ClientSteps, ClientRuns, ClientHandles, ClientActs

-----------------------------------------------------------------------------
(* What the client keeps of its objects and of the calls it deferred       *)

\* The list keeps what the application holds, and what a call waits for: once
\* its id is known, the call is sent when the batch is over, before the next
\* collection.
HeldAreListed     == \A q \in 1 .. Len(cObjects) : cObjects[q].held => cObjects[q].listed
HasTime(q)        == cObjects[q].id = 0 \/ cError \/ Phase \in {"parse", "call"}
DeferredAreListed == \A k \in 1 .. Len(pendingOutgoing) :
    cObjects[pendingOutgoing[k].dependsOn].listed /\ HasTime(pendingOutgoing[k].dependsOn)

\* A call that ends an object is of one that is destroyed, it is the last one
\* that is deferred for it, and only what exists is called.
DeferredAreGone == \A k \in 1 .. Len(pendingOutgoing) :
    IsDestructor(pendingOutgoing[k].method) => cObjects[pendingOutgoing[k].dependsOn].destroyed
DeferredEndsLast == \A k \in 1 .. Len(pendingOutgoing) : \A j \in 1 .. k - 1 :
    pendingOutgoing[j].dependsOn = pendingOutgoing[k].dependsOn
      => ~IsDestructor(pendingOutgoing[j].method)
DeferredExist    == \A k \in 1 .. Len(pendingOutgoing) :
    Since(pendingOutgoing[k].method) <= cObjects[pendingOutgoing[k].dependsOn].version

\* No two objects have the same id.
IdsTellApart == \A q, r \in 1 .. Len(cObjects) :
    cObjects[q].id # 0 /\ cObjects[q].id = cObjects[r].id => q = r

-----------------------------------------------------------------------------
(* What a client says that keeps to the protocol                           *)

\* The client errs for a fatal error it was told of, or it closes its end.
LEMMA ClientErrs ==
    ASSUME WireTypeOK, ClientInv, BatchesWhenParsing, ClientSteps, ~cError, cError'
    PROVE  ~clientOpen' \/ \E m \in Coming : m.type = "FATAL"
<1> DEFINE Goal == ~clientOpen' \/ \E m \in Coming : m.type = "FATAL"
<1> SUFFICES Goal
  OBVIOUS
<1>1. ASSUME cError' = cError \/ clientOpen' = FALSE
      PROVE  Goal
  <2>1. clientOpen' = FALSE
    <3>1. CASE cError' = cError
      BY <3>1, Zenon
    <3> QED
      BY <1>1, <3>1, Zenon
  <2> QED
    BY <2>1, Zenon
<1> HIDE DEF Goal
<1> USE <1>1
<1>2. CASE ClientCallReturns \/ ClientBeginsDispatch \/ ClientFindsNothing \/ ClientReads
  BY <1>2, Zenon DEF ClientCallReturns, ClientBeginsDispatch, ClientFindsNothing, ClientReads
<1>3. CASE ClientTimesOut \/ ClientReadsEnd \/ ClientListenerReturns \/ ClientFinishesBatch
  BY <1>3, Zenon DEF ClientTimesOut, ClientReadsEnd, ClientListenerReturns, ClientFinishesBatch, Disconnect
<1>4. CASE ClientHandlesBegin
  BY <1>4, Zenon DEF ClientHandlesBegin, Disconnect
<1>5. CASE ClientHandlesProtocols \/ ClientHandlesNewObject \/ ClientHandlesUnknown \/ ClientDropsEvent
  BY <1>5, Zenon DEF ClientHandlesProtocols, ClientHandlesNewObject, ClientHandlesUnknown,
     ClientDropsEvent, Disconnect
<1>6. CASE ClientCalled \/ ClientHandlesDone \/ ClientRejects
  BY <1>6, Zenon DEF ClientCalled, ClientHandlesDone, ClientRejects, Disconnect
<1>7. CASE ClientHandlesFatal
  <2>1. ClientParses("FATAL")
    BY <1>7, Zenon DEF ClientHandlesFatal
  <2>2. Received \in Coming /\ Received.type = "FATAL"
    BY <2>1, ParsedIsComing DEF ClientParses, ClientInv
  <2> QED
    BY <2>2, Zenon DEF Goal
<1>8. CASE ClientWaitsForHandshake \/ ClientDispatches \/ ClientRoundtrips \/ ClientCloses
  BY <1>8, Zenon DEF ClientWaitsForHandshake, ClientDispatches, ClientRoundtrips, ClientCloses
<1>9. CASE \E p \in Protocols, v \in 1 .. 2 : ClientBinds(p, v) \/ ClientBindsTooNew(p, v)
  BY <1>9, Zenon DEF ClientBinds, ClientBindsTooNew, Disconnect
<1>10. CASE \E q \in 1 .. Len(cObjects), m \in Requests, takes \in BOOLEAN : ClientCalls(q, m, takes)
  BY <1>10, Zenon DEF ClientCalls
<1>11. CASE \E q \in 1 .. Len(cObjects) : ClientLetsGo(q)
  BY <1>11, Zenon DEF ClientLetsGo
<1> QED
  BY <1>2, <1>3, <1>4, <1>5, <1>6, <1>7, <1>8, <1>9, <1>10, <1>11, Zenon
     DEF ClientSteps, ClientRuns, ClientHandles, ClientActs

\* An object the client may yet send messages to: it knows its id, and did not
\* destroy it or still has a call on it that is deferred.
HasDeferred(q) == \E k \in 1 .. Len(pendingOutgoing) : pendingOutgoing[k].dependsOn = q
Speaks(q)      == /\ cObjects[q].id # 0
                  /\ cObjects[q].listed
                  /\ ~cObjects[q].destroyed \/ HasDeferred(q)

\* A message to one of these, of a method it has; what ends it is the last.
SaidTo(q, m) ==
    /\ Speaks(q)
    /\ m.object = cObjects[q].id
    /\ Since(m.method) <= cObjects[q].version
    /\ Ends(m) => ~Speaks(q)'

\* Farewells end objects of which none was destroyed.
LEMMA FarewellsSay ==
    ASSUME ClientTypeOK, IdsTellApart, NEW s \in Farewells, cObjects' = Collected
    PROVE  /\ EndsComeLast(s)
           /\ \A m \in Range(s) : /\ m.type = "GENERIC"
                                  /\ \E q \in 1 .. Len(cObjects) : SaidTo(q, m) /\ ~cObjects[q].destroyed
<1> DEFINE n == Len(cObjects)
           K == {q \in 1 .. n : CallsDestructor(q)}
<1>1. n \in Nat /\ \A q \in 1 .. n : cObjects[q] \in ClientObject
  BY LenProperties, ElementOfSeq DEF ClientTypeOK
<1>2. PICK dying \in InOrder(K) : s = [k \in DOMAIN dying |-> FarewellTo(dying[k])]
  BY DEF Farewells
<1>3. PICK c \in Nat : /\ DOMAIN dying = 1 .. c
                       /\ \A k \in 1 .. c : dying[k] \in K
  BY <1>1, <1>2, InOrderType
<1>4. s \in Seq(ClientMessage)
  BY FarewellsType
<1>5. Len(s) = c /\ \A k \in 1 .. c : s[k] = FarewellTo(dying[k])
  BY <1>2, <1>3, <1>4
<1>6. ASSUME NEW k \in 1 .. c
      PROVE  dying[k] \in 1 .. n /\ IsOrphan(dying[k]) /\ ~cObjects[dying[k]].destroyed
  BY <1>3, <1>6 DEF CallsDestructor
<1>7. ASSUME NEW k \in 1 .. Len(s), NEW j \in 1 .. k - 1
      PROVE  s[j].object # s[k].object
  <2>1. j \in 1 .. c /\ k \in 1 .. c /\ j # k
    BY <1>3, <1>5
  <2>2. dying[j] # dying[k]
    <3>1. K \in SUBSET (1 .. n)
      OBVIOUS
    <3> HIDE DEF K
    <3> QED
      BY <1>1, <1>2, <1>3, <2>1, <3>1, InOrderInjective
  <2>3. cObjects[dying[j]].id # cObjects[dying[k]].id
    BY <1>6, <2>1, <2>2 DEF IsOrphan, IdsTellApart
  <2> QED
    BY <1>5, <2>1, <2>3 DEF FarewellTo, Generic
<1>8. ASSUME NEW m \in Range(s)
      PROVE  /\ m.type = "GENERIC"
             /\ \E q \in 1 .. n : SaidTo(q, m) /\ ~cObjects[q].destroyed
  <2>1. PICK k \in 1 .. c : m = FarewellTo(dying[k])
    BY <1>4, <1>5, <1>8, RangeEquality
  <2>2. PICK q \in 1 .. n : q = dying[k] /\ IsOrphan(q) /\ ~cObjects[q].destroyed
    BY <1>6
  <2>3. Speaks(q) /\ m.object = cObjects[q].id /\ m.type = "GENERIC" /\ m.method = "destroy"
    BY <2>1, <2>2 DEF Speaks, IsOrphan, FarewellTo, Generic
  <2>4. Since(m.method) <= cObjects[q].version
    BY <1>1, <2>3 DEF Since, ClientObject
  <2>5. ~Speaks(q)'
    <3>1. cObjects'[q] = [cObjects[q] EXCEPT !.listed = cObjects[q].listed /\ ~IsOrphan(q)]
      BY DEF Collected
    <3>2. ~cObjects'[q].listed
      BY <1>1, <2>2, <3>1 DEF ClientObject
    <3> QED
      BY <3>2 DEF Speaks
  <2> QED
    BY <2>2, <2>3, <2>4, <2>5, Zenon DEF SaidTo
<1>9. EndsComeLast(s)
  BY <1>7 DEF EndsComeLast, EndsAt
<1> QED
  BY <1>8, <1>9

\* So do deferred calls that can be sent, of those that were.
LEMMA FlushedSay ==
    ASSUME ClientInv, IdsTellApart, DeferredAreGone, DeferredEndsLast, DeferredExist,
           NEW s \in Flushed, cObjects' = Collected,
           NEW waiting \in InOrder(AwaitingDeferrals),
           pendingOutgoing' = [k \in DOMAIN waiting |-> pendingOutgoing[waiting[k]]]
    PROVE  /\ EndsComeLast(s)
           /\ \A m \in Range(s) : /\ m.type = "GENERIC"
                                  /\ \E q \in 1 .. Len(cObjects) :
                                       SaidTo(q, m) /\ (Ends(m) => cObjects[q].destroyed)
<1> DEFINE n == Len(pendingOutgoing)
           K == {k \in 1 .. n : Resolvable(pendingOutgoing[k])}
<1>1. /\ n \in Nat
      /\ \A q \in 1 .. Len(cObjects) : cObjects[q] \in ClientObject
      /\ \A k \in 1 .. n : pendingOutgoing[k].dependsOn \in 1 .. Len(cObjects)
  BY LenProperties, ElementOfSeq DEF ClientInv, ClientTypeOK, DeferredInRange
<1>2. PICK ready \in InOrder(K) : s = [k \in DOMAIN ready |-> Resolved(pendingOutgoing[ready[k]])]
  BY DEF Flushed, ResolvableDeferrals, Resolved
<1>3. PICK c \in Nat : /\ DOMAIN ready = 1 .. c
                       /\ \A k \in 1 .. c : ready[k] \in K
                       /\ \A j, k \in 1 .. c : j < k => ready[j] < ready[k]
  <2>1. K \in SUBSET (1 .. n)
    OBVIOUS
  <2>2. \A j, k \in DOMAIN ready : j < k => ready[j] < ready[k]
    BY DEF InOrder
  <2> HIDE DEF K
  <2>3. /\ Cardinality(K) \in Nat
        /\ DOMAIN ready = 1 .. Cardinality(K)
        /\ \A k \in DOMAIN ready : ready[k] \in K
    BY <1>1, <1>2, <2>1, InOrderType
  <2> QED
    BY <2>2, <2>3
<1>4. s \in Seq(ClientMessage)
  BY FlushedType
<1>5. Len(s) = c /\ \A k \in 1 .. c : s[k] = Resolved(pendingOutgoing[ready[k]])
  <2> HIDE DEF Resolved
  <2> QED
    BY <1>2, <1>3, <1>4
<1>6. ASSUME NEW k \in 1 .. c
      PROVE  ready[k] \in 1 .. n /\ Resolvable(pendingOutgoing[ready[k]])
  BY <1>3, <1>6
<1>7. ASSUME NEW k \in 1 .. Len(s), NEW j \in 1 .. k - 1
      PROVE  ~EndsAt(s[j], s[k].object)
  <2>1. j \in 1 .. c /\ k \in 1 .. c /\ j < k
    BY <1>3, <1>5
  <2>2. PICK a \in 1 .. n, b \in 1 .. n :
           /\ a = ready[j] /\ b = ready[k] /\ a < b
           /\ Resolvable(pendingOutgoing[a])
    BY <1>3, <1>6, <2>1
  <2>3. s[j] = Resolved(pendingOutgoing[a]) /\ s[k] = Resolved(pendingOutgoing[b])
    BY <1>5, <2>1, <2>2
  <2>4. SUFFICES ASSUME EndsAt(s[j], s[k].object)
                 PROVE  FALSE
    OBVIOUS
  <2>5. /\ IsDestructor(pendingOutgoing[a].method)
        /\ cObjects[pendingOutgoing[a].dependsOn].id = cObjects[pendingOutgoing[b].dependsOn].id
    BY <2>3, <2>4 DEF EndsAt, Ends, Resolved, Generic
  <2>6. pendingOutgoing[a].dependsOn = pendingOutgoing[b].dependsOn
    BY <1>1, <2>2, <2>5 DEF Resolvable, IdsTellApart
  <2>7. a \in 1 .. b - 1
    BY <1>1, <2>2
  <2> QED
    BY <2>5, <2>6, <2>7 DEF DeferredEndsLast
<1>8. ASSUME NEW m \in Range(s)
      PROVE  /\ m.type = "GENERIC"
             /\ \E q \in 1 .. Len(cObjects) : SaidTo(q, m) /\ (Ends(m) => cObjects[q].destroyed)
  <2>1. PICK k \in 1 .. c : m = Resolved(pendingOutgoing[ready[k]])
    BY <1>4, <1>5, <1>8, RangeEquality
  <2>2. PICK a \in 1 .. n : m = Resolved(pendingOutgoing[a]) /\ Resolvable(pendingOutgoing[a])
    BY <1>6, <2>1
  <2>3. PICK q \in 1 .. Len(cObjects) : q = pendingOutgoing[a].dependsOn
    BY <1>1
  <2>4. /\ m.type = "GENERIC" /\ m.object = cObjects[q].id /\ m.method = pendingOutgoing[a].method
        /\ cObjects[q].id # 0 /\ cObjects[q].listed
    BY <2>2, <2>3 DEF Resolved, Generic, Resolvable, Forgotten
  <2>5. Speaks(q)
    BY <2>3, <2>4 DEF Speaks, HasDeferred
  <2>6. Since(m.method) <= cObjects[q].version
    BY <2>3, <2>4 DEF DeferredExist
  <2>7. Ends(m) => cObjects[q].destroyed
    BY <2>3, <2>4 DEF DeferredAreGone, Ends
  <2>8. Ends(m) => ~Speaks(q)'
    <3>1. SUFFICES ASSUME Ends(m)
                   PROVE  ~Speaks(q)'
      OBVIOUS
    <3>2. cObjects'[q] = [cObjects[q] EXCEPT !.listed = cObjects[q].listed /\ ~IsOrphan(q)]
      BY DEF Collected
    <3>3. cObjects'[q].destroyed
      BY <1>1, <2>7, <3>1, <3>2 DEF ClientObject
    <3>4. PICK w \in Seq(Deferred) : /\ w = pendingOutgoing'
                                     /\ \A i \in 1 .. Len(w) : Awaiting(w[i])
      BY WaitingType
    <3>5. ~HasDeferred(q)'
      BY <2>4, <3>4 DEF HasDeferred, Awaiting
    <3> QED
      BY <3>3, <3>5 DEF Speaks
  <2> QED
    BY <2>4, <2>5, <2>6, <2>7, <2>8, Zenon DEF SaidTo
<1>9. EndsComeLast(s)
  BY <1>7 DEF EndsComeLast
<1> QED
  BY <1>8, <1>9

\* What a client says that keeps to the protocol: it binds what the server
\* lists, in a version it was built for, and calls what it may yet call.
Said(m) ==
    /\ m.type # "INVALID"
    /\ m.type = "BIND_PROTOCOL" => /\ handshakeDone
                                   /\ m.protocol \in serverSpecs
                                   /\ m.version <= ClientVer[m.protocol]
    /\ m.type = "GENERIC" => \E q \in 1 .. Len(cObjects) : SaidTo(q, m)

\* A client whose listeners are not called says nothing else, and what ends an
\* object last.
LEMMA ClientSpeaksWell ==
    ASSUME WireTypeOK, ClientInv, ClientSteps, ~Reckless, ~cError, Phase # "call",
           HeldAreListed, DeferredAreListed, DeferredAreGone, DeferredEndsLast, DeferredExist,
           IdsTellApart
    PROVE  \E s \in Seq(ClientMessage) :
              c2s' = c2s \o s /\ EndsComeLast(s) /\ \A m \in Range(s) : Said(m)
<1> /\ ClientTypeOK
    /\ Len(cObjects) \in Nat
    /\ c2s \in Seq(ClientMessage)
  BY LenProperties DEF ClientInv, ClientTypeOK, WireTypeOK
<1> DEFINE Goal == \E s \in Seq(ClientMessage) :
                      c2s' = c2s \o s /\ EndsComeLast(s) /\ \A m \in Range(s) : Said(m)
<1> SUFFICES Goal
  OBVIOUS
<1>1. ASSUME c2s' = c2s
      PROVE  Goal
  <2>1. <<>> \in Seq(ClientMessage) /\ c2s \o <<>> = c2s
    BY EmptySeq, ConcatEmptySeq
  <2>2. EndsComeLast(<<>>) /\ Range(<<>>) = {}
    BY RangeOfShort DEF EndsComeLast
  <2> QED
    BY <1>1, <2>1, <2>2
<1>2. ASSUME NEW s \in Seq(ClientMessage), ClientSends(s), EndsComeLast(s), \A m \in Range(s) : Said(m)
      PROVE  Goal
  <2>1. CASE c2s' = c2s
    BY <1>1, <2>1
  <2>2. CASE c2s' = c2s \o s
    BY <1>2, <2>2
  <2> QED
    BY <1>2, <2>1, <2>2, Zenon DEF ClientSends
<1>3. ASSUME NEW n \in ClientMessage, ClientSends(<<n>>), Said(n)
      PROVE  Goal
  <2>1. <<n>> \in Seq(ClientMessage) /\ Len(<<n>>) = 1 /\ Range(<<n>>) = {n}
    BY RangeOfShort
  <2>2. EndsComeLast(<<n>>)
    BY <2>1 DEF EndsComeLast
  <2> QED
    BY <1>2, <1>3, <2>1, <2>2
<1> HIDE DEF Goal
<1>4. CASE ClientHandlesBegin
  <2>1. HandshakeAck(HYPRWIRE_PROTOCOL_VER) \in ClientMessage
    BY ClientMessages DEF HYPRWIRE_PROTOCOL_VER
  <2>2. Said(HandshakeAck(HYPRWIRE_PROTOCOL_VER))
    BY DEF Said, HandshakeAck
  <2>3. ClientSends(<<HandshakeAck(HYPRWIRE_PROTOCOL_VER)>>) \/ c2s' = c2s
    BY <1>4, Zenon DEF ClientHandlesBegin
  <2> QED
    BY <1>1, <1>3, <2>1, <2>2, <2>3
<1>5. ASSUME NEW s, cObjects' = Collected, s \in Farewells
      PROVE  /\ s \in Seq(ClientMessage)
             /\ EndsComeLast(s)
             /\ \A m \in Range(s) : /\ Said(m)
                                    /\ \E q \in 1 .. Len(cObjects) : /\ m.object = cObjects[q].id
                                                                     /\ cObjects[q].id # 0
                                                                     /\ ~cObjects[q].destroyed
  BY <1>5, FarewellsType, FarewellsSay DEF Said, SaidTo, Speaks
<1>6. CASE ClientBeginsDispatch
  <2>1. PICK s \in Farewells : ClientSends(s)
    BY <1>6 DEF ClientBeginsDispatch
  <2>2. cObjects' = Collected
    BY <1>6, Zenon DEF ClientBeginsDispatch
  <2> QED
    BY <1>2, <1>5, <2>1, <2>2
<1>7. CASE ClientFinishesBatch
  <2>1. PICK flushed \in Flushed, farewells \in Farewells : ClientSends(flushed \o farewells)
    BY <1>7, Zenon DEF ClientFinishesBatch
  <2>2. PICK waiting \in InOrder(AwaitingDeferrals) :
           pendingOutgoing' = [k \in DOMAIN waiting |-> pendingOutgoing[waiting[k]]]
    BY <1>7, Zenon DEF ClientFinishesBatch
  <2>3. cObjects' = Collected
    BY <1>7, Zenon DEF ClientFinishesBatch
  <2>4. /\ EndsComeLast(flushed)
        /\ \A m \in Range(flushed) : /\ m.type = "GENERIC"
                                     /\ \E q \in 1 .. Len(cObjects) :
                                          SaidTo(q, m) /\ (Ends(m) => cObjects[q].destroyed)
    BY <2>2, <2>3, FlushedSay
  <2>5. flushed \in Seq(ClientMessage)
    BY FlushedType
  <2>6. ASSUME NEW n \in Range(flushed), NEW m \in Range(farewells)
        PROVE  ~EndsAt(n, m.object)
    <3>1. PICK q \in 1 .. Len(cObjects) : SaidTo(q, n) /\ (Ends(n) => cObjects[q].destroyed)
      BY <2>4
    <3>2. PICK r \in 1 .. Len(cObjects) : /\ m.object = cObjects[r].id
                                          /\ cObjects[r].id # 0
                                          /\ ~cObjects[r].destroyed
      BY <1>5, <2>3
    <3>3. SUFFICES ASSUME Ends(n), n.object = m.object
                   PROVE  FALSE
      BY DEF EndsAt
    <3>4. q = r
      BY <3>1, <3>2, <3>3 DEF SaidTo, IdsTellApart
    <3> QED
      BY <3>1, <3>2, <3>3, <3>4, Zenon
  <2>7. EndsComeLast(flushed \o farewells)
    BY <1>5, <2>3, <2>4, <2>5, <2>6, EndsComeLastJoined
  <2>8. /\ flushed \o farewells \in Seq(ClientMessage)
        /\ Range(flushed \o farewells) = Range(flushed) \cup Range(farewells)
    BY <1>5, <2>3, <2>5, RangeConcatenation, ConcatProperties
  <2>9. \A m \in Range(flushed \o farewells) : Said(m)
    BY <1>5, <2>3, <2>4, <2>8 DEF Said
  <2> QED
    BY <1>2, <2>1, <2>7, <2>8, <2>9
<1>8. CASE \E p \in Protocols, v \in 1 .. 2 : ClientBinds(p, v)
  <2>1. PICK p \in Protocols, v \in 1 .. 2 : ClientBinds(p, v)
    BY <1>8
  <2>2. BindProtocol(Len(cObjects) + 1, p, v) \in ClientMessage
    BY ClientMessages
  <2>3. handshakeDone /\ p \in serverSpecs /\ v <= ClientVer[p]
    BY <2>1, Zenon DEF ClientBinds
  <2>4. Said(BindProtocol(Len(cObjects) + 1, p, v))
    BY <2>3 DEF Said, BindProtocol
  <2> QED
    BY <1>3, <2>1, <2>2, <2>4 DEF ClientBinds
<1>9. CASE \E q \in 1 .. Len(cObjects), x \in Requests, takes \in BOOLEAN : ClientCalls(q, x, takes)
  <2>1. PICK q \in 1 .. Len(cObjects), x \in Requests, takes \in BOOLEAN : ClientCalls(q, x, takes)
    BY <1>9
  <2> DEFINE m == Generic(cObjects[q].id, x, CallSeq(x))
  <2>2. cObjects[q] \in ClientObject /\ x \in AllRequests /\ CallSeq(x) \in Nat
    BY ElementOfSeq, MethodsAssumption DEF ClientTypeOK, CallSeq
  <2>3. m \in ClientMessage
    BY <2>2, ClientMessages DEF ClientObject
  <2>4. c2s' = c2s \/ (cObjects[q].id # 0 /\ ClientSends(<<m>>) /\ UNCHANGED pendingOutgoing)
    BY <2>1, Zenon DEF ClientCalls, CallSeq
  <2>5. ASSUME cObjects[q].id # 0, UNCHANGED pendingOutgoing
        PROVE  Said(m)
    <3>1. /\ m.type = "GENERIC" /\ m.object = cObjects[q].id /\ m.method = x
      BY DEF Generic
    <3>2. /\ cObjects[q].held
          /\ ~cObjects[q].destroyed
          /\ Since(x) <= cObjects[q].version
      BY <2>1, Zenon DEF ClientCalls
    <3>3. Speaks(q)
      BY <2>5, <3>2 DEF Speaks, HeldAreListed
    <3>4. Phase = "app"
      BY <2>1 DEF ClientCalls, ClientAppMayAct, InPhase, Phase
    <3>5. ~HasDeferred(q)
      BY <2>5, <3>4 DEF HasDeferred, DeferredAreListed, HasTime
    <3>6. ~HasDeferred(q)'
      BY <2>5, <3>5 DEF HasDeferred
    <3>7. IsDestructor(x) => cObjects'[q].destroyed
      <4> DEFINE u == [cObjects[q] EXCEPT !.destroyed = TRUE]
      <4>1. IsDestructor(x) => ~Creates(x)
        BY DEF IsDestructor, Creates
      <4>2. IsDestructor(x) => cObjects' = [cObjects EXCEPT ![q] = u]
        BY <2>1, <4>1 DEF ClientCalls
      <4>3. u.destroyed
        BY <2>2 DEF ClientObject
      <4>4. cObjects \in Seq(ClientObject)
        BY DEF ClientTypeOK
      <4> HIDE DEF u
      <4>5. [cObjects EXCEPT ![q] = u][q] = u
        BY <4>4
      <4> QED
        BY <4>2, <4>3, <4>5, Zenon
    <3>8. Ends(m) => ~Speaks(q)'
      BY <3>1, <3>6, <3>7 DEF Ends, Speaks
    <3>9. SaidTo(q, m)
      BY <3>1, <3>2, <3>3, <3>8, Zenon DEF SaidTo
    <3> QED
      BY <3>1, <3>9 DEF Said
  <2> HIDE DEF m
  <2> QED
    BY <1>1, <1>3, <2>3, <2>4, <2>5
<1>10. CASE ClientRoundtrips
  <2>1. RoundtripRequest(lastSent') \in ClientMessage
    BY <1>10, ClientMessages DEF ClientRoundtrips, ClientTypeOK
  <2>2. Said(RoundtripRequest(lastSent'))
    BY DEF Said, RoundtripRequest
  <2> QED
    BY <1>3, <1>10, <2>1, <2>2 DEF ClientRoundtrips
<1> USE <1>1 DEF wireVars
<1>11. CASE ClientCallReturns \/ ClientFindsNothing \/ ClientReads \/ ClientCloses
  BY <1>11, Zenon DEF ClientCallReturns, ClientFindsNothing, ClientReads, ClientCloses
<1>12. CASE ClientTimesOut \/ ClientReadsEnd \/ ClientListenerReturns
  BY <1>12, Zenon DEF ClientTimesOut, ClientReadsEnd, ClientListenerReturns
<1>13. CASE ClientHandlesProtocols \/ ClientHandlesNewObject \/ ClientHandlesUnknown \/ ClientDropsEvent
  BY <1>13, Zenon DEF ClientHandlesProtocols, ClientHandlesNewObject, ClientHandlesUnknown,
     ClientDropsEvent
<1>14. CASE ClientCalled \/ ClientHandlesFatal \/ ClientHandlesDone \/ ClientRejects
  BY <1>14, Zenon DEF ClientCalled, ClientHandlesFatal, ClientHandlesDone, ClientRejects
<1>15. CASE ClientWaitsForHandshake \/ ClientDispatches
  BY <1>15, Zenon DEF ClientWaitsForHandshake, ClientDispatches
<1>16. CASE \E p \in Protocols, v \in 1 .. 2 : ClientBindsTooNew(p, v)
  BY <1>16, Zenon DEF ClientBindsTooNew
<1>17. CASE \E q \in 1 .. Len(cObjects) : ClientLetsGo(q)
  BY <1>17, Zenon DEF ClientLetsGo
<1> QED
  BY <1>4, <1>6, <1>7, <1>8, <1>9, <1>10, <1>11, <1>12, <1>13, <1>14, <1>15, <1>16, <1>17, Zenon
     DEF ClientSteps, ClientRuns, ClientHandles, ClientActs

\* What is deferred keeps its order, and what is deferred anew comes last.
LEMMA DeferredStayInOrder ==
    ASSUME WireTypeOK, ClientInv, ClientSteps, DeferredAreGone, DeferredEndsLast, DeferredExist
    PROVE  DeferredEndsLast' /\ DeferredExist'
<1> /\ ClientTypeOK
    /\ Len(cObjects) \in Nat
    /\ Len(pendingOutgoing) \in Nat
    /\ pendingOutgoing \in Seq(Deferred)
    /\ \A k \in 1 .. Len(pendingOutgoing) : pendingOutgoing[k].dependsOn \in 1 .. Len(cObjects)
  BY LenProperties DEF ClientInv, ClientTypeOK, DeferredInRange
<1> DEFINE Goal == DeferredEndsLast'
<1>1. DeferredExist'
  <2> SUFFICES ASSUME NEW k \in 1 .. Len(pendingOutgoing')
               PROVE  Since(pendingOutgoing'[k].method) <= cObjects'[pendingOutgoing'[k].dependsOn].version
    BY DEF DeferredExist
  <2>1. \A q \in 1 .. Len(cObjects) : cObjects'[q].version = cObjects[q].version
    BY ClientKeepsNames DEF ObjectsGoOn, Succeeds
  <2>2. CASE \E j \in 1 .. Len(pendingOutgoing) : pendingOutgoing'[k] = pendingOutgoing[j]
    BY <2>1, <2>2 DEF DeferredExist
  <2>3. CASE Deferring(pendingOutgoing'[k])
    BY <2>1, <2>3 DEF Deferring
  <2> QED
    BY <2>2, <2>3, ClientDefers
<1> SUFFICES Goal
  BY <1>1
<1>2. ASSUME pendingOutgoing' = pendingOutgoing
      PROVE  Goal
  BY <1>2 DEF DeferredEndsLast
<1>3. CASE ClientFinishesBatch
  <2>1. PICK waiting \in InOrder(AwaitingDeferrals) :
           pendingOutgoing' = [j \in DOMAIN waiting |-> pendingOutgoing[waiting[j]]]
    BY <1>3, Zenon DEF ClientFinishesBatch
  <2>2. AwaitingDeferrals \in SUBSET (1 .. Len(pendingOutgoing))
    BY DEF AwaitingDeferrals
  <2>3. /\ Cardinality(AwaitingDeferrals) \in Nat
        /\ DOMAIN waiting = 1 .. Cardinality(AwaitingDeferrals)
        /\ \A j \in DOMAIN waiting : waiting[j] \in AwaitingDeferrals
    BY <2>2, InOrderType
  <2>4. PICK c \in Nat : /\ DOMAIN waiting = 1 .. c
                         /\ \A j \in 1 .. c : waiting[j] \in 1 .. Len(pendingOutgoing)
    BY <2>2, <2>3
  <2>5. \A j, k \in 1 .. c : j < k => waiting[j] < waiting[k]
    BY <2>4 DEF InOrder
  <2>6. pendingOutgoing' \in Seq(Deferred)
    BY <2>1, WaitingType
  <2>7. Len(pendingOutgoing') = c
    BY <2>1, <2>4, <2>6
  <2> SUFFICES ASSUME NEW k \in 1 .. c, NEW j \in 1 .. k - 1,
                      pendingOutgoing'[j].dependsOn = pendingOutgoing'[k].dependsOn
               PROVE  ~IsDestructor(pendingOutgoing'[j].method)
    BY <2>7 DEF DeferredEndsLast
  <2>8. /\ j \in 1 .. c
        /\ pendingOutgoing'[j] = pendingOutgoing[waiting[j]]
        /\ pendingOutgoing'[k] = pendingOutgoing[waiting[k]]
    BY <2>1, <2>4
  <2>9. waiting[j] \in 1 .. waiting[k] - 1
    BY <2>4, <2>5, <2>8
  <2> QED
    BY <2>4, <2>8, <2>9 DEF DeferredEndsLast
<1>4. CASE \E q \in 1 .. Len(cObjects), x \in Requests, takes \in BOOLEAN : ClientCalls(q, x, takes)
  <2>1. PICK q \in 1 .. Len(cObjects), x \in Requests, takes \in BOOLEAN : ClientCalls(q, x, takes)
    BY <1>4
  <2>2. ~cObjects[q].destroyed
    BY <2>1, Zenon DEF ClientCalls
  <2>3. PICK d : /\ d.dependsOn = q
                 /\ pendingOutgoing' = pendingOutgoing \/ pendingOutgoing' = Append(pendingOutgoing, d)
    <3> DEFINE e == [dependsOn |-> q, method |-> x, seq |-> CallSeq(x)]
    <3>1. pendingOutgoing' = pendingOutgoing \/ pendingOutgoing' = Append(pendingOutgoing, e)
      BY <2>1, Zenon DEF ClientCalls, CallSeq
    <3>2. e.dependsOn = q
      OBVIOUS
    <3> HIDE DEF e
    <3> QED
      BY <3>1, <3>2, Zenon
  <2>4. CASE pendingOutgoing' = Append(pendingOutgoing, d)
    <3>1. /\ Len(pendingOutgoing') = Len(pendingOutgoing) + 1
          /\ \A k \in 1 .. Len(pendingOutgoing) : pendingOutgoing'[k] = pendingOutgoing[k]
          /\ pendingOutgoing'[Len(pendingOutgoing) + 1] = d
      BY <2>4, AppendProperties
    <3> SUFFICES ASSUME NEW k \in 1 .. Len(pendingOutgoing) + 1, NEW j \in 1 .. k - 1,
                        pendingOutgoing'[j].dependsOn = pendingOutgoing'[k].dependsOn
                 PROVE  ~IsDestructor(pendingOutgoing'[j].method)
      BY <3>1 DEF DeferredEndsLast
    <3>2. j \in 1 .. Len(pendingOutgoing) /\ pendingOutgoing'[j] = pendingOutgoing[j]
      BY <3>1
    <3>3. CASE k \in 1 .. Len(pendingOutgoing)
      BY <3>1, <3>2, <3>3 DEF DeferredEndsLast
    <3>4. CASE k = Len(pendingOutgoing) + 1
      <4>1. pendingOutgoing[j].dependsOn = q
        BY <2>3, <3>1, <3>2, <3>4
      <4> QED
        BY <2>2, <3>2, <4>1 DEF DeferredAreGone
    <3> QED
      BY <3>3, <3>4
  <2> QED
    BY <1>2, <2>3, <2>4
<1>5. CASE ClientCloses
  <2>1. pendingOutgoing' = <<>>
    BY <1>5, Zenon DEF ClientCloses
  <2> QED
    BY <2>1 DEF DeferredEndsLast
<1> HIDE DEF Goal
<1> USE <1>2 DEF wireVars
<1>6. CASE ClientCallReturns \/ ClientBeginsDispatch \/ ClientFindsNothing \/ ClientReads
  BY <1>6, Zenon DEF ClientCallReturns, ClientBeginsDispatch, ClientFindsNothing, ClientReads
<1>7. CASE ClientTimesOut \/ ClientReadsEnd \/ ClientListenerReturns \/ ClientHandlesBegin
  BY <1>7, Zenon DEF ClientTimesOut, ClientReadsEnd, ClientListenerReturns, ClientHandlesBegin
<1>8. CASE ClientHandlesProtocols \/ ClientHandlesNewObject \/ ClientHandlesUnknown \/ ClientDropsEvent
  BY <1>8, Zenon DEF ClientHandlesProtocols, ClientHandlesNewObject, ClientHandlesUnknown,
     ClientDropsEvent
<1>9. CASE ClientCalled \/ ClientHandlesFatal \/ ClientHandlesDone \/ ClientRejects
  BY <1>9, Zenon DEF ClientCalled, ClientHandlesFatal, ClientHandlesDone, ClientRejects
<1>10. CASE ClientWaitsForHandshake \/ ClientDispatches \/ ClientRoundtrips
  BY <1>10, Zenon DEF ClientWaitsForHandshake, ClientDispatches, ClientRoundtrips
<1>11. CASE \E p \in Protocols, v \in 1 .. 2 : ClientBinds(p, v) \/ ClientBindsTooNew(p, v)
  BY <1>11, Zenon DEF ClientBinds, ClientBindsTooNew
<1>12. CASE \E q \in 1 .. Len(cObjects) : ClientLetsGo(q)
  BY <1>12, Zenon DEF ClientLetsGo
<1> QED
  BY <1>3, <1>4, <1>5, <1>6, <1>7, <1>8, <1>9, <1>10, <1>11, <1>12, Zenon
     DEF ClientSteps, ClientRuns, ClientHandles, ClientActs
=============================================================================
