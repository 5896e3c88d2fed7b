---------------------------- MODULE ClientSocket ----------------------------
(***************************************************************************)
(* The client's side of a connection: CClientSocket, the CClientObjects it *)
(* lists, and the message parser's client half.                            *)
(*                                                                         *)
(* The client is one thread, but its calls nest: a listener that runs from *)
(* within handleMessage may call roundtrip or bindProtocol, which dispatch *)
(* again.  The variable stack holds the calls in progress, innermost       *)
(* first; the application acts when the stack is empty or when the         *)
(* innermost call is inside a listener.                                    *)
(***************************************************************************)
EXTENDS Wire, Ordering

CONSTANTS
    Dispatches, \* how the application calls dispatchEvents: "block", "noblock"
    MaxSeq,     \* bound on m_seq: the objects the client asks for
    MaxRound,   \* bound on m_lastSentRoundtripSeq
    MaxDepth,   \* bound on nested dispatches
    MaxPending, \* bound: the application calls only while fewer messages are unread or deferred
    Impatient,  \* the handshake timeout may strike
    Reckless,   \* the application also binds what getSpec does not find
    Forgetful   \* the application may let go of its objects

ASSUME ClientAssumption ==
    /\ Dispatches \subseteq {"block", "noblock"}
    /\ MaxSeq \in Nat
    /\ MaxRound \in Nat
    /\ MaxDepth \in Nat
    /\ MaxPending \in Nat
    /\ Impatient \in BOOLEAN
    /\ Reckless \in BOOLEAN
    /\ Forgetful \in BOOLEAN

VARIABLES
    cError,           \* m_error
    handshakeDone,    \* m_handshakeDone
    serverSpecs,      \* m_serverSpecs
    cObjects,         \* every object the client made, by the seq it was given
    lastSent,         \* m_lastSentRoundtripSeq
    lastAckd,         \* m_lastAckdRoundtripSeq
    pendingOutgoing,  \* m_pendingOutgoing
    stack             \* the blocking and dispatching calls in progress

clientVars == <<cError, handshakeDone, serverSpecs, cObjects, lastSent, lastAckd,
                pendingOutgoing, stack>>

\* listed: in m_objects; held: the application has a strong reference;
\* listening: it has set its listeners; destroyed: m_destroyed.
ClientObject == [id : Nat, protocol : Protocols, version : Nat, listed : BOOLEAN,
                 held : BOOLEAN, listening : BOOLEAN, destroyed : BOOLEAN]

\* A generic message whose object has no id yet; dependsOn is its seq.
Deferred == [dependsOn : Nat, method : AllRequests, seq : Nat]

\* A call in progress.  wait says which function loops around dispatchEvents,
\* arg is what it waits for.  For a roundtrip two fields of history are kept:
\* asked, how many objects the client had asked for when it began, and sent,
\* those of them that were still awaited and whose request was on the wire.
Waits  == {"handshake", "object", "roundtrip", "block", "noblock"}
Phases == {"loop", "poll", "parse", "call"}
Idle   == [seq |-> 0, method |-> "none"]
Frame  == [wait : Waits, arg : Nat, phase : Phases, batch : Seq(ServerMessage),
           called : [seq : Nat, method : AllEvents \cup {"none"}],
           asked : Nat, sent : SUBSET Nat]

\* The objects that are awaited and whose request is not deferred.
Sent == {q \in 1 .. Len(cObjects) :
           /\ cObjects[q].id = 0
           /\ \A k \in 1 .. Len(pendingOutgoing) : pendingOutgoing[k].seq # q}

NewFrame(w, a) ==
    [wait |-> w, arg |-> a, phase |-> "loop", batch |-> <<>>, called |-> Idle,
     asked |-> IF w = "roundtrip" THEN Len(cObjects) ELSE 0,
     sent  |-> IF w = "roundtrip" THEN Sent ELSE {}]

ClientTypeOK ==
    /\ cError \in BOOLEAN
    /\ handshakeDone \in BOOLEAN
    /\ serverSpecs \subseteq Protocols
    /\ cObjects \in Seq(ClientObject)
    /\ lastSent \in Nat
    /\ lastAckd \in Nat
    /\ pendingOutgoing \in Seq(Deferred)
    /\ stack \in Seq(Frame)

ClientInit ==
    /\ cError = FALSE
    /\ handshakeDone = FALSE
    /\ serverSpecs = {}
    /\ cObjects = <<>>
    /\ lastSent = 0
    /\ lastAckd = 0
    /\ pendingOutgoing = <<>>
    /\ stack = <<>>

-----------------------------------------------------------------------------
Top        == Head(stack)
InPhase(p) == stack # <<>> /\ Top.phase = p
Push(f)    == stack' = <<f>> \o stack
Pop        == stack' = Tail(stack)
SetTop(f)  == stack' = <<f>> \o Tail(stack)

\* dispatchEvents returns ok to the function that called it.
DispatchReturns(ok) ==
    IF Top.wait = "object" \/ (ok /\ Top.wait \in {"handshake", "roundtrip"})
      THEN SetTop([Top EXCEPT !.phase = "loop", !.batch = <<>>])
      ELSE Pop

\* bindProtocol has not given the object to the application yet.
BeingBound(q) == \E k \in 1 .. Len(stack) : stack[k].wait = "object" /\ stack[k].arg = q

\* onGeneric and bindProtocol keep a reference of their own while they run.
InUse(q) == BeingBound(q) \/ \E k \in 1 .. Len(stack) : stack[k].called.seq = q

\* Mutant: an object still without id is collected as well.
IsOrphan_Early(q) == cObjects[q].listed /\ ~cObjects[q].held /\ ~InUse(q)

IsOrphan(q) == /\ cObjects[q].listed
               /\ cObjects[q].id # 0
               /\ ~cObjects[q].held
               /\ ~InUse(q)

\* Mutant: a destructor the application called is called again.
CallsDestructor_Again(q) == IsOrphan(q) /\ "destroy" \in Requests

\* The destructor of an object the application let go calls the protocol's
\* destructor, if there is one and it was not called before.
CallsDestructor(q) == IsOrphan(q) /\ ~cObjects[q].destroyed /\ "destroy" \in Requests

\* collectOrphanedObjects: what it sends, in the order of m_objects, and what
\* it leaves.
FarewellTo(q) == Generic(cObjects[q].id, "destroy", 0)

Farewells ==
    {[k \in DOMAIN dying |-> FarewellTo(dying[k])] :
        dying \in InOrder({q \in 1 .. Len(cObjects) : CallsDestructor(q)})}

Collected ==
    [q \in 1 .. Len(cObjects) |->
        [cObjects[q] EXCEPT !.listed = @ /\ ~IsOrphan(q)]]

\* disconnectOnError closes the descriptor.
Disconnect ==
    /\ cError' = TRUE
    /\ clientOpen' = FALSE

-----------------------------------------------------------------------------
(* dispatchEvents and the loops around it *)

\* Mutant: the acknowledgement before is enough.
Satisfied_OneShort(f) ==
    CASE f.wait = "handshake" -> handshakeDone
      [] f.wait = "object"    -> cObjects[f.arg].id # 0
      [] f.wait = "roundtrip" -> lastAckd + 1 >= f.arg
      [] OTHER                -> FALSE

\* Mutant: the acknowledgement after is needed.
Satisfied_OneLong(f) ==
    CASE f.wait = "handshake" -> handshakeDone
      [] f.wait = "object"    -> cObjects[f.arg].id > f.arg
      [] f.wait = "roundtrip" -> lastAckd > f.arg
      [] OTHER                -> FALSE

\* The condition under which the waiting function stops looping; dispatchEvents
\* itself gives up at once after an error.
Satisfied(f) ==
    CASE f.wait = "handshake" -> handshakeDone
      [] f.wait = "object"    -> cObjects[f.arg].id # 0
      [] f.wait = "roundtrip" -> lastAckd >= f.arg
      [] OTHER                -> FALSE

\* A bound object comes back to the application, which sets its listeners.
ClientCallReturns ==
    /\ InPhase("loop")
    /\ Satisfied(Top) \/ cError
    /\ cObjects' = IF Top.wait = "object"
                     THEN [cObjects EXCEPT ![Top.arg].listening = TRUE]
                     ELSE cObjects
    /\ Pop
    /\ UNCHANGED <<wireVars, cError, handshakeDone, serverSpecs, lastSent, lastAckd, pendingOutgoing>>

\* dispatchEvents begins by collecting orphans, before it polls.
ClientBeginsDispatch ==
    /\ InPhase("loop")
    /\ ~Satisfied(Top)
    /\ ~cError
    /\ \E farewells \in Farewells : ClientSends(farewells)
    /\ cObjects' = Collected
    /\ SetTop([Top EXCEPT !.phase = "poll"])
    /\ UNCHANGED <<s2c, clientOpen, serverOpen, reset, cError, handshakeDone, serverSpecs, lastSent,
                   lastAckd, pendingOutgoing>>

\* Before the handshake is done a blocking dispatch gives up at its deadline.
ClientTimesOut ==
    /\ Impatient
    /\ InPhase("poll")
    /\ ~handshakeDone
    /\ Top.wait # "noblock"
    /\ Disconnect
    /\ DispatchReturns(FALSE)
    /\ UNCHANGED <<c2s, s2c, serverOpen, reset, handshakeDone, serverSpecs, cObjects, lastSent,
                   lastAckd, pendingOutgoing>>

\* Nothing to read: only a dispatch that may not block returns.
ClientFindsNothing ==
    /\ InPhase("poll")
    /\ s2c = <<>>
    /\ serverOpen
    /\ Top.wait = "noblock"
    /\ DispatchReturns(TRUE)
    /\ UNCHANGED <<wireVars, cError, handshakeDone, serverSpecs, cObjects, lastSent, lastAckd,
                   pendingOutgoing>>

ClientReads ==
    /\ InPhase("poll")
    /\ \E n \in ReadLengths(s2c) :
         /\ SetTop([Top EXCEPT !.phase = "parse", !.batch = SubSeq(s2c, 1, n)])
         /\ s2c' = SubSeq(s2c, n + 1, Len(s2c))
    /\ UNCHANGED <<c2s, clientOpen, serverOpen, reset, cError, handshakeDone, serverSpecs, cObjects,
                   lastSent, lastAckd, pendingOutgoing>>

\* Mutant: a clean end is taken for an idle socket.
ClientReadsEnd_Idle ==
    /\ InPhase("poll")
    /\ s2c = <<>>
    /\ ~serverOpen
    /\ IF reset THEN Disconnect ELSE UNCHANGED <<cError, clientOpen>>
    /\ DispatchReturns(TRUE)
    /\ UNCHANGED <<c2s, s2c, serverOpen, reset, handshakeDone, serverSpecs, cObjects, lastSent,
                   lastAckd, pendingOutgoing>>

\* The server closed: a clean end returns false and is no error, an end with
\* our data unread fails the read.
ClientReadsEnd ==
    /\ InPhase("poll")
    /\ s2c = <<>>
    /\ ~serverOpen
    /\ IF reset THEN Disconnect ELSE UNCHANGED <<cError, clientOpen>>
    /\ DispatchReturns(FALSE)
    /\ UNCHANGED <<c2s, s2c, serverOpen, reset, handshakeDone, serverSpecs, cObjects, lastSent,
                   lastAckd, pendingOutgoing>>

\* A deferred message whose object is no longer listed is dropped, one whose
\* object got its id is sent, the others stay.
Forgotten(d)  == ~cObjects[d.dependsOn].listed
Awaiting(d)   == ~Forgotten(d) /\ cObjects[d.dependsOn].id = 0
Resolvable(d) == ~Forgotten(d) /\ cObjects[d.dependsOn].id # 0

ResolvableDeferrals == {k \in 1 .. Len(pendingOutgoing) : Resolvable(pendingOutgoing[k])}
AwaitingDeferrals   == {k \in 1 .. Len(pendingOutgoing) : Awaiting(pendingOutgoing[k])}

Flushed ==
    {[k \in DOMAIN ready |->
        LET d == pendingOutgoing[ready[k]]
        IN  Generic(cObjects[d.dependsOn].id, d.method, d.seq)] :
        ready \in InOrder(ResolvableDeferrals)}

\* handleMessage is through: deferred messages first, orphans after.
ClientFinishesBatch ==
    /\ InPhase("parse")
    /\ Top.batch = <<>>
    /\ \E flushed \in Flushed, farewells \in Farewells : ClientSends(flushed \o farewells)
    /\ \E waiting \in InOrder(AwaitingDeferrals) :
         pendingOutgoing' = [k \in DOMAIN waiting |-> pendingOutgoing[waiting[k]]]
    /\ cObjects' = Collected
    /\ DispatchReturns(~cError)
    /\ UNCHANGED <<s2c, clientOpen, serverOpen, reset, cError, handshakeDone, serverSpecs, lastSent, lastAckd>>

-----------------------------------------------------------------------------
(* Handling one message: parseSingleMessage.  The loop around it does not  *)
(* look at m_error, so a batch is handled to its end.                      *)

Received       == Head(Top.batch)
ClientParses(t) == InPhase("parse") /\ Top.batch # <<>> /\ Received.type = t
Consumed       == [Top EXCEPT !.batch = Tail(@)]

\* A version we speak is acknowledged, any other list ends the connection.
ClientHandlesBegin ==
    /\ ClientParses("HANDSHAKE_BEGIN")
    /\ IF HYPRWIRE_PROTOCOL_VER \in Received.versions
         THEN /\ ClientSends(<<HandshakeAck(HYPRWIRE_PROTOCOL_VER)>>)
              /\ SetTop(Consumed)
              /\ UNCHANGED <<cError, clientOpen>>
         ELSE /\ Disconnect
              /\ DispatchReturns(FALSE)
              /\ UNCHANGED c2s
    /\ UNCHANGED <<s2c, serverOpen, reset, handshakeDone, serverSpecs, cObjects, lastSent, lastAckd,
                   pendingOutgoing>>

ClientHandlesProtocols ==
    /\ ClientParses("HANDSHAKE_PROTOCOLS")
    /\ serverSpecs' = serverSpecs \cup Received.protocols
    /\ handshakeDone' = TRUE
    /\ SetTop(Consumed)
    /\ UNCHANGED <<wireVars, cError, cObjects, lastSent, lastAckd, pendingOutgoing>>

\* onSeq: an unknown sequence is only warned about.
ClientHandlesNewObject ==
    /\ ClientParses("NEW_OBJECT")
    /\ LET q == Received.seq
       IN  cObjects' = IF q \in 1 .. Len(cObjects) /\ cObjects[q].listed
                         THEN [cObjects EXCEPT ![q].id = Received.id]
                         ELSE cObjects
    /\ SetTop(Consumed)
    /\ UNCHANGED <<wireVars, cError, handshakeDone, serverSpecs, lastSent, lastAckd, pendingOutgoing>>

Addressees == {q \in 1 .. Len(cObjects) : cObjects[q].listed /\ cObjects[q].id = Received.object}

\* onGeneric for an id that is not listed.
ClientHandlesUnknown ==
    /\ ClientParses("GENERIC")
    /\ Addressees = {}
    /\ Disconnect
    /\ SetTop(Consumed)
    /\ UNCHANGED <<c2s, s2c, serverOpen, reset, handshakeDone, serverSpecs, cObjects, lastSent,
                   lastAckd, pendingOutgoing>>

Destroyed(q) == [cObjects EXCEPT ![q] = [@ EXCEPT !.listed = FALSE, !.destroyed = TRUE]]

\* An event nobody listens to is dropped, but a destructor still destroys;
\* one the object's version lacks is dropped without a trace, for error() does
\* nothing on a client object.
ClientDropsEvent ==
    /\ ClientParses("GENERIC")
    /\ \E q \in Addressees :
         /\ ~cObjects[q].listening \/ Since(Received.method) > cObjects[q].version
         /\ cObjects' = IF ~cObjects[q].listening /\ IsDestructor(Received.method)
                          THEN Destroyed(q) ELSE cObjects
    /\ SetTop(Consumed)
    /\ UNCHANGED <<wireVars, cError, handshakeDone, serverSpecs, lastSent, lastAckd, pendingOutgoing>>

ClientCalled ==
    /\ ClientParses("GENERIC")
    /\ \E q \in Addressees :
         /\ cObjects[q].listening
         /\ Since(Received.method) <= cObjects[q].version
         /\ SetTop([Consumed EXCEPT !.phase = "call",
                                    !.called = [seq |-> q, method |-> Received.method]])
    /\ UNCHANGED <<wireVars, cError, handshakeDone, serverSpecs, cObjects, lastSent, lastAckd,
                   pendingOutgoing>>

ClientListenerReturns ==
    /\ InPhase("call")
    /\ cObjects' = IF IsDestructor(Top.called.method) THEN Destroyed(Top.called.seq) ELSE cObjects
    /\ SetTop([Top EXCEPT !.phase = "parse", !.called = Idle])
    /\ UNCHANGED <<wireVars, cError, handshakeDone, serverSpecs, lastSent, lastAckd, pendingOutgoing>>

\* A message that does not parse ends the connection.
ClientRejects ==
    /\ ClientParses("INVALID")
    /\ Disconnect
    /\ DispatchReturns(FALSE)
    /\ UNCHANGED <<c2s, s2c, serverOpen, reset, handshakeDone, serverSpecs, cObjects, lastSent,
                   lastAckd, pendingOutgoing>>

\* The server declared an error: the descriptor stays open.
ClientHandlesFatal ==
    /\ ClientParses("FATAL")
    /\ cError' = TRUE
    /\ SetTop(Consumed)
    /\ UNCHANGED <<wireVars, handshakeDone, serverSpecs, cObjects, lastSent, lastAckd, pendingOutgoing>>

ClientHandlesDone ==
    /\ ClientParses("ROUNDTRIP_DONE")
    /\ lastAckd' = Received.seq
    /\ SetTop(Consumed)
    /\ UNCHANGED <<wireVars, cError, handshakeDone, serverSpecs, cObjects, lastSent, pendingOutgoing>>

-----------------------------------------------------------------------------
(* What the client's application does *)

ClientAppMayAct == stack = <<>> \/ InPhase("call")

\* A call that dispatches fits under the bound on nesting.
MayNest == ClientAppMayAct /\ Len(stack) < MaxDepth

ClientWaitsForHandshake ==
    /\ stack = <<>>
    /\ ~handshakeDone
    /\ ~cError
    /\ Push(NewFrame("handshake", 0))
    /\ UNCHANGED <<wireVars, cError, handshakeDone, serverSpecs, cObjects, lastSent, lastAckd,
                   pendingOutgoing>>

\* dispatchEvents, called by the application's loop.
ClientDispatches ==
    /\ MayNest
    /\ ~cError
    /\ \E w \in Dispatches : Push(NewFrame(w, 0))
    /\ UNCHANGED <<wireVars, cError, handshakeDone, serverSpecs, cObjects, lastSent, lastAckd,
                   pendingOutgoing>>

NewClientObject(p, v, takes) ==
    [id |-> 0, protocol |-> p, version |-> v, listed |-> TRUE, held |-> takes,
     listening |-> FALSE, destroyed |-> FALSE]

Unread == Len(c2s) + Len(pendingOutgoing) < MaxPending

\* bindProtocol sends the request and waits for the object.  The application
\* binds after the handshake.
ClientBinds(p, v) ==
    /\ MayNest
    /\ handshakeDone
    /\ Unread
    /\ p \in serverSpecs \/ Reckless
    /\ v <= ClientVer[p]
    /\ Len(cObjects) < MaxSeq
    /\ LET q == Len(cObjects) + 1
       IN  /\ cObjects' = Append(cObjects, NewClientObject(p, v, TRUE))
           /\ ClientSends(<<BindProtocol(q, p, v)>>)
           /\ Push(NewFrame("object", q))
    /\ UNCHANGED <<s2c, clientOpen, serverOpen, reset, cError, handshakeDone, serverSpecs, lastSent,
                   lastAckd, pendingOutgoing>>

\* bindProtocol with a version above the specification's.
ClientBindsTooNew(p, v) ==
    /\ ClientAppMayAct
    /\ handshakeDone
    /\ p \in serverSpecs \/ Reckless
    /\ v > ClientVer[p]
    /\ Disconnect
    /\ UNCHANGED <<c2s, s2c, serverOpen, reset, handshakeDone, serverSpecs, cObjects, lastSent,
                   lastAckd, pendingOutgoing, stack>>

\* IWireObject::call on an object the application holds and has not
\* destroyed.  A method the object's version lacks is refused without a
\* trace.  Without an id the message is deferred.
ClientCalls(q, m, takes) ==
    /\ ClientAppMayAct
    /\ Unread
    /\ cObjects[q].held
    /\ ~cObjects[q].destroyed
    /\ ~BeingBound(q)
    /\ Since(m) <= cObjects[q].version
    /\ Creates(m) => Len(cObjects) < MaxSeq
    /\ LET returnSeq == IF Creates(m) THEN Len(cObjects) + 1 ELSE 0
           after == IF IsDestructor(m) THEN [cObjects EXCEPT ![q].destroyed = TRUE] ELSE cObjects
       IN  /\ IF cObjects[q].id = 0
                THEN /\ pendingOutgoing' =
                          Append(pendingOutgoing, [dependsOn |-> q, method |-> m, seq |-> returnSeq])
                     /\ UNCHANGED c2s
                ELSE /\ ClientSends(<<Generic(cObjects[q].id, m, returnSeq)>>)
                     /\ UNCHANGED pendingOutgoing
           /\ cObjects' =
                IF Creates(m)
                  THEN Append(after, [NewClientObject(cObjects[q].protocol, 0, takes)
                                        EXCEPT !.listening = takes])
                  ELSE after
    /\ UNCHANGED <<s2c, clientOpen, serverOpen, reset, cError, handshakeDone, serverSpecs, lastSent,
                   lastAckd, stack>>

\* The application lets an object go; the next collection notices.
ClientLetsGo(q) ==
    /\ Forgetful
    /\ ClientAppMayAct
    /\ cObjects[q].held
    /\ ~BeingBound(q)
    /\ cObjects' = [cObjects EXCEPT ![q].held = FALSE]
    /\ UNCHANGED <<wireVars, cError, handshakeDone, serverSpecs, lastSent, lastAckd,
                   pendingOutgoing, stack>>

ClientRoundtrips ==
    /\ MayNest
    /\ ~cError
    /\ Unread
    /\ lastSent < MaxRound
    /\ lastSent' = lastSent + 1
    /\ ClientSends(<<RoundtripRequest(lastSent')>>)
    /\ Push(NewFrame("roundtrip", lastSent'))
    /\ UNCHANGED <<s2c, clientOpen, serverOpen, reset, cError, handshakeDone, serverSpecs, cObjects,
                   lastAckd, pendingOutgoing>>

\* The application drops its socket, or exits.
ClientCloses ==
    /\ stack = <<>>
    /\ clientOpen
    /\ clientOpen' = FALSE
    /\ cObjects' = [q \in 1 .. Len(cObjects) |->
                      [cObjects[q] EXCEPT !.listed = FALSE, !.held = FALSE, !.listening = FALSE]]
    /\ pendingOutgoing' = <<>>
    /\ cError' = TRUE
    /\ UNCHANGED <<c2s, s2c, serverOpen, reset, handshakeDone, serverSpecs, lastSent, lastAckd, stack>>

-----------------------------------------------------------------------------
ClientHandles ==
    \/ ClientHandlesBegin
    \/ ClientHandlesProtocols
    \/ ClientHandlesNewObject
    \/ ClientHandlesUnknown
    \/ ClientDropsEvent
    \/ ClientCalled
    \/ ClientHandlesFatal
    \/ ClientHandlesDone
    \/ ClientRejects

\* Everything the library does inside the calls in progress.
ClientRuns ==
    \/ ClientCallReturns
    \/ ClientBeginsDispatch
    \/ ClientTimesOut
    \/ ClientFindsNothing
    \/ ClientReads
    \/ ClientReadsEnd
    \/ ClientHandles
    \/ ClientListenerReturns
    \/ ClientFinishesBatch

\* What the application may do of its own accord.
ClientActs ==
    \/ ClientWaitsForHandshake
    \/ ClientDispatches
    \/ \E p \in Protocols, v \in 1 .. 2 : ClientBinds(p, v) \/ ClientBindsTooNew(p, v)
    \/ \E q \in 1 .. Len(cObjects), m \in Requests :
         ClientCalls(q, m, TRUE) \/ (Creates(m) /\ ClientCalls(q, m, FALSE))
    \/ \E q \in 1 .. Len(cObjects) : ClientLetsGo(q)
    \/ ClientRoundtrips
=============================================================================
