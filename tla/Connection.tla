----------------------------- MODULE Connection -----------------------------
(***************************************************************************)
(* One client and one server joined by a socket: the composition of        *)
(* ClientSocket and ServerClient with the applications at both ends, and   *)
(* the properties a connection has as a whole.                             *)
(***************************************************************************)
EXTENDS ClientSocket, ServerClient

CONSTANTS
    Hasty,          \* the client may close its socket, the server may remove the client
    Blames,         \* the server's application may declare a protocol error
    StrayToServer,  \* messages a client of another make may write at any time
    StrayToClient   \* messages a server of another make may write at any time

ASSUME ConnectionAssumption ==
    /\ Hasty \in BOOLEAN
    /\ Blames \in BOOLEAN
    /\ StrayToServer \subseteq ClientMessage
    /\ StrayToClient \subseteq ServerMessage

vars == <<wireVars, serverVars, clientVars>>

Init == WireInit /\ ServerInit /\ ClientInit

\* A peer that was not built from this code.  Bound: it writes only while few
\* messages wait in either direction.
ClientStrays ==
    /\ Unread
    /\ Len(s2c) < MaxQueue
    /\ \E m \in StrayToServer : ClientSends(<<m>>)
    /\ UNCHANGED <<s2c, clientOpen, serverOpen, reset, clientVars>>

ServerStrays ==
    /\ Unread
    /\ Len(s2c) < MaxQueue
    /\ \E m \in StrayToClient : ServerSends(<<m>>)
    /\ UNCHANGED <<c2s, clientOpen, serverOpen, reset, serverVars>>

ClientLibrary == ClientRuns /\ UNCHANGED serverVars
ClientApp     == (ClientActs \/ ClientStrays \/ (Hasty /\ ClientCloses)) /\ UNCHANGED serverVars
ServerLibrary == ServerDispatches /\ UNCHANGED clientVars
ServerApp     == /\ \/ ServerCreates
                    \/ ServerEmits
                    \/ ServerStrays
                    \/ Blames /\ ServerDeclaresError
                    \/ Hasty /\ ServerRemovesClient
                 /\ UNCHANGED clientVars

Next == ClientLibrary \/ ClientApp \/ ServerLibrary \/ ServerApp

Spec == Init /\ [][Next]_vars

\* Calls in progress go on, listeners return, and both applications run an
\* event loop: the server's dispatches what is readable and answers requests,
\* the client's calls dispatchEvents again and again.
Fairness ==
    /\ WF_vars(ClientLibrary)
    /\ WF_vars(ServerLibrary)
    /\ WF_vars(ServerCreates /\ UNCHANGED clientVars)
    /\ WF_vars(stack = <<>> /\ ClientDispatches /\ UNCHANGED serverVars)

FairSpec == Spec /\ Fairness

-----------------------------------------------------------------------------
\* The type invariant of the whole connection.
TypeOK == WireTypeOK /\ ServerTypeOK /\ ClientTypeOK

-----------------------------------------------------------------------------
(* Objects *)

\* Both ends mean the same object by an id: an id the client got for a seq is
\* one the server spent on that seq and protocol, and no two objects of either
\* end share an id (createObject, onSeq).
IdsMatch ==
    /\ \A o, u \in sObjects : o.id = u.id => o = u
    /\ \A q, r \in 1 .. Len(cObjects) :
         cObjects[q].id # 0 /\ cObjects[q].id = cObjects[r].id => q = r
    /\ \A q \in 1 .. Len(cObjects), o \in sObjects :
         cObjects[q].id = o.id => o.seq = q /\ o.protocol = cObjects[q].protocol
    /\ \A q \in 1 .. Len(cObjects) : cObjects[q].id < maxId

\* A bound object has the same version at both ends, which decides at either
\* end which methods exist.
VersionsAgreeOnBind ==
    \A q \in 1 .. Len(cObjects), o \in sObjects :
        cObjects[q].id = o.id /\ cObjects[q].version # 0 => cObjects[q].version = o.version

\* The next event the client hands to onGeneric is for an object it was told
\* of before, so that an unknown id can only be that of an object it let go.
EventsFollowNewObject ==
    InPhase("parse") /\ Top.batch # <<>> /\ Received.type = "GENERIC"
        => \E q \in 1 .. Len(cObjects) : cObjects[q].id = Received.object

\* A call deferred until its object has an id is not forgotten: its object
\* stays listed while the call waits.
DeferredKept == \A k \in 1 .. Len(pendingOutgoing) : ~Forgotten(pendingOutgoing[k])

\* A destructor the application called is not lost: while nothing failed and
\* the server still has the object, the call waits for the object's id, is on
\* the wire, or is being handled (IWireObject::call, m_pendingOutgoing,
\* docs/WIRE.md, Destroying objects).
EndsObject(m, i) == m.type = "GENERIC" /\ IsDestructor(m.method) /\ m.object = i
Ending(q) ==
    \/ \E k \in 1 .. Len(pendingOutgoing) :
         pendingOutgoing[k].dependsOn = q /\ IsDestructor(pendingOutgoing[k].method)
    \/ \E k \in 1 .. Len(c2s) : EndsObject(c2s[k], cObjects[q].id)
    \/ \E k \in 1 .. Len(sBatch) : EndsObject(sBatch[k], cObjects[q].id)
    \/ IsDestructor(sCall.method) /\ sCall.id = cObjects[q].id

DestructorsArrive ==
    ~cError /\ ~sError /\ clientOpen /\ serverOpen
      => \A q \in 1 .. Len(cObjects), o \in sObjects :
           cObjects[q].destroyed /\ o.seq = q /\ ~o.destroyed => Ending(q)

\* What the filter hides is neither announced nor bound.
FilterRespected ==
    /\ serverSpecs \subseteq exposed
    /\ \A q \in 1 .. Len(cObjects) : cObjects[q].id # 0 => cObjects[q].protocol \in exposed

\* A client that has finished the handshake knows exactly what the server
\* exposes, and the server knows which version of the wire it speaks.
HandshakeAgreed ==
    handshakeDone => serverSpecs = exposed /\ version = HYPRWIRE_PROTOCOL_VER

-----------------------------------------------------------------------------
(* Roundtrips *)

\* roundtrip is about to return, and not for an error.
RoundtripReturning == InPhase("loop") /\ Top.wait = "roundtrip" /\ Satisfied(Top) /\ ~cError

\* When roundtrip returns, every object whose request was on the wire before it
\* has its id.
RoundtripCoversSent == RoundtripReturning => \A q \in Top.sent : cObjects[q].id # 0

\* When roundtrip returns, every object the application asked for before has
\* its id, deferred requests included.
RoundtripCoversAsked == RoundtripReturning => \A q \in 1 .. Top.asked : cObjects[q].id # 0

\* An acknowledgement is never for a roundtrip that was not asked for, and a
\* caller still waiting has not been passed over: its request, or the answer
\* to it or to a later one, is on the way while nothing failed.
Acknowledges(m, n) == m.type = "ROUNDTRIP_DONE" /\ m.seq >= n
Requests_(m, n)    == m.type = "ROUNDTRIP_REQUEST" /\ m.seq >= n

InSeq(s, Test(_, _), n) == \E k \in 1 .. Len(s) : Test(s[k], n)

RoundtripNotLost ==
    /\ lastAckd <= lastSent
    /\ \A f \in 1 .. Len(stack) :
         LET n == stack[f].arg
         IN  stack[f].wait = "roundtrip" /\ lastAckd < n
               /\ ~cError /\ ~sError /\ clientOpen /\ serverOpen
               => \/ InSeq(c2s, Requests_, n)
                  \/ InSeq(sBatch, Requests_, n)
                  \/ scheduledRoundtrip >= n
                  \/ InSeq(s2c, Acknowledges, n)
                  \/ \E g \in 1 .. Len(stack) : InSeq(stack[g].batch, Acknowledges, n)

-----------------------------------------------------------------------------
(* Errors *)

\* The server holds nothing against a client whose application keeps to the
\* protocol: it drops it only for hanging up.
ConformingIsNotBlamed == sError => ~clientOpen

\* An error of the server's is always told: while the client is there and does
\* not know, the fatal error is on its way (CServerObject::error, the error
\* branches of parseSingleMessage, docs/WIRE.md, Fatal errors).
IsFatal(m) == m.type = "FATAL"
ErrorIsTold ==
    sError /\ clientOpen /\ ~cError
      => \/ \E k \in 1 .. Len(s2c) : IsFatal(s2c[k])
         \/ \E f \in 1 .. Len(stack) :
              \E k \in 1 .. Len(stack[f].batch) : IsFatal(stack[f].batch[k])

\* Once a client erred the server calls no listener for it.
ErrorStopsDispatch == [][sError /\ sCall = NoCall => sCall' = NoCall]_vars

\* A client that erred is eventually disconnected.
ErrorTerminatesConnection == sError ~> ~serverOpen

\* At least one that erred while its messages were handled is.
ErrorInBatchTerminates == sError /\ sPhase # "idle" ~> ~serverOpen

-----------------------------------------------------------------------------
(* Progress *)

InCall(w) == \E k \in 1 .. Len(stack) : stack[k].wait = w

\* waitForHandshake returns, whatever becomes of the server.
HandshakeReturns == InCall("handshake") ~> ~InCall("handshake")

\* roundtrip returns, whatever becomes of the server.
RoundtripReturns == InCall("roundtrip") ~> ~InCall("roundtrip")

\* bindProtocol returns as long as the server keeps its end open; when it
\* closes without unread data waitForObject loops for ever.
BindReturns == InCall("object") ~> ~InCall("object") \/ ~serverOpen

\* An object the application let go is destroyed on the server without its
\* doing anything more than dispatching.
Lost(q)      == q \in 1 .. Len(cObjects) /\ ~cObjects[q].held
SettledAt(q) == /\ q \in 1 .. Len(cObjects)
                /\ ~cObjects[q].listed
                /\ \A o \in sObjects : o.seq # q
LostIsDestroyed ==
    \A q \in 1 .. MaxSeq : Lost(q) ~> SettledAt(q) \/ cError \/ sError \/ ~serverOpen

-----------------------------------------------------------------------------
(* What the connection promises: the refinement of Objects *)

\* The messages written by the server that the client has not handled.
InFlight(m) ==
    \/ \E k \in 1 .. Len(s2c) : s2c[k] = m
    \/ \E f \in 1 .. Len(stack) : \E k \in 1 .. Len(stack[f].batch) : stack[f].batch[k] = m

Wanted   == [q \in 1 .. Len(cObjects) |-> cObjects[q].protocol]
Known    == {q \in 1 .. Len(cObjects) : cObjects[q].id # 0}
KnownIds == [q \in Known |-> cObjects[q].id]
Released == {q \in 1 .. Len(cObjects) : cObjects[q].destroyed \/ ~cObjects[q].held}
Offers   == {[seq |-> q, id |-> i] : q \in 1 .. Len(cObjects), i \in 1 .. maxId}
Offered  == {o \in Offers : cObjects[o.seq].id = 0 /\ InFlight(NewObject(o.seq, o.id))}
Serving  == {[seq |-> o.seq, id |-> o.id, protocol |-> o.protocol] : o \in sObjects}

Promise == INSTANCE Objects WITH
    wanted   <- Wanted,
    released <- Released,
    nextId   <- maxId,
    served   <- Serving,
    offered  <- Offered,
    known    <- KnownIds,
    over     <- cError,
    dropped  <- ~serverOpen

\* Objects behave as Objects promises, between peers that were built from this
\* code: each request is answered once, under an id of its own, and the server
\* keeps an object until the client that knows it is through with it
\* (createObject, onSeq, onGeneric, collectOrphanedObjects).
ObjectsAsPromised == Promise!Spec
=============================================================================
