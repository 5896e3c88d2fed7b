---------------------------- MODULE ServerClient ----------------------------
(***************************************************************************)
(* The server's side of one connection: CServerClient, the CServerObjects  *)
(* it owns, the message parser's server half, and what CServerSocket does  *)
(* with a readable client.  The server reads a batch of messages, handles  *)
(* them one by one, calls the application's listeners from within, and     *)
(* reaps the client when the batch is over.                                *)
(***************************************************************************)
EXTENDS Wire

CONSTANTS
    Listened,      \* the requests the server's application listens to
    AnswersLater,  \* the application may create a requested object after its listener returned
    MaxQueue       \* bound: an application sends of its own accord only while fewer messages wait

ASSUME ServerAssumption ==
    /\ Listened \subseteq AllRequests
    /\ AnswersLater \in BOOLEAN
    /\ MaxQueue \in Nat

VARIABLES
    sError,         \* m_error
    firstPollDone,  \* m_firstPollDone
    exposed,        \* m_exposedProtocols
    version,        \* m_version
    maxId,          \* m_maxId
    sObjects,       \* m_objects
    scheduledRoundtrip, \* m_scheduledRoundtripSeq
    sPhase,         \* what the server is doing with this client
    sBatch,         \* the messages of the current read still to be handled
    sHup,           \* POLLHUP was in the revents of the current read
    sCall,          \* the listener that is running
    todo            \* requested objects the application has not created yet

sObjectVars  == <<maxId, sObjects>>
sSessionVars == <<firstPollDone, exposed, version>>
sReadVars    == <<sPhase, sBatch, sHup>>
serverVars   == <<sError, sSessionVars, sObjectVars, scheduledRoundtrip, sReadVars, sCall, todo>>

Implemented  == {p \in Protocols : ServerVer[p] > 0}
ServerObject == [id : Nat, seq : Nat, protocol : Protocols, version : Nat, destroyed : BOOLEAN]
Todo         == [protocol : Protocols, version : Nat, seq : Nat]
NoCall       == [id |-> 0, method |-> "none"]

ServerTypeOK ==
    /\ sError \in BOOLEAN
    /\ firstPollDone \in BOOLEAN
    /\ exposed \subseteq Implemented
    /\ version \in Nat
    /\ maxId \in Nat \ {0}
    /\ sObjects \subseteq ServerObject
    /\ scheduledRoundtrip \in Nat
    /\ sPhase \in {"idle", "parse", "reap"}
    /\ sBatch \in Seq(ClientMessage)
    /\ sHup \in BOOLEAN
    /\ sCall \in [id : Nat, method : AllRequests \cup {"bind", "none"}]
    /\ todo \subseteq Todo

\* Mutant: ids from zero, which stands for no object.
FirstId_FromZero == 0
FirstId == 1

ServerInit ==
    /\ sError = FALSE
    /\ firstPollDone = FALSE
    /\ exposed = {}
    /\ version = 0
    /\ maxId = FirstId
    /\ sObjects = {}
    /\ scheduledRoundtrip = 0
    /\ sPhase = "idle"
    /\ sBatch = <<>>
    /\ sHup = FALSE
    /\ sCall = NoCall
    /\ todo = {}

Message == Head(sBatch)

\* Mutant: the batch is handled to its end after an error.
ServerParses_Undeterred ==
    /\ serverOpen
    /\ sPhase = "parse"
    /\ sCall = NoCall
    /\ sBatch # <<>>

\* The message at the head of the batch is about to be parsed.
ServerParses ==
    /\ serverOpen
    /\ sPhase = "parse"
    /\ sCall = NoCall
    /\ sBatch # <<>>
    /\ ~sError

-----------------------------------------------------------------------------
(* Reading *)

ServerReads ==
    /\ serverOpen
    /\ sPhase = "idle"
    /\ \E n \in ReadLengths(c2s) :
         /\ sBatch' = SubSeq(c2s, 1, n)
         /\ c2s' = SubSeq(c2s, n + 1, Len(c2s))
    /\ sHup' \in {FALSE, ~clientOpen}
    /\ sPhase' = "parse"
    /\ UNCHANGED <<s2c, clientOpen, serverOpen, reset, sError, sSessionVars, sObjectVars,
                   scheduledRoundtrip, sCall, todo>>

\* The client is gone and everything it wrote was read: only POLLHUP is left.
ServerSeesHangup ==
    /\ serverOpen
    /\ sPhase = "idle"
    /\ c2s = <<>>
    /\ ~clientOpen
    /\ sError' = TRUE
    /\ sPhase' = "reap"
    /\ UNCHANGED <<wireVars, sSessionVars, sObjectVars, scheduledRoundtrip, sBatch, sHup, sCall, todo>>

-----------------------------------------------------------------------------
(* Handling one message *)

\* SUP: the new-client handler may install a filter, which decides what is
\* exposed; the handshake is then begun, again for a repeated SUP.
ServerHandlesHello ==
    /\ ServerParses
    /\ Message.type = "SUP"
    /\ firstPollDone' = TRUE
    /\ IF firstPollDone THEN UNCHANGED exposed ELSE exposed' \in SUBSET Implemented
    /\ ServerSends(<<HandshakeBegin({HYPRWIRE_PROTOCOL_VER})>>)
    /\ sBatch' = Tail(sBatch)
    /\ UNCHANGED <<c2s, clientOpen, serverOpen, reset, sError, version, sObjectVars,
                   scheduledRoundtrip, sPhase, sHup, sCall, todo>>

\* Mutant: the acknowledged version is not stored.
ServerHandlesAck_Unstored ==
    /\ ServerParses
    /\ Message.type = "HANDSHAKE_ACK"
    /\ version' = version
    /\ ServerSends(<<HandshakeProtocols(exposed)>>)
    /\ sBatch' = Tail(sBatch)
    /\ UNCHANGED <<c2s, clientOpen, serverOpen, reset, sError, firstPollDone, exposed, sObjectVars,
                   scheduledRoundtrip, sPhase, sHup, sCall, todo>>

ServerHandlesAck ==
    /\ ServerParses
    /\ Message.type = "HANDSHAKE_ACK"
    /\ version' = Message.version
    /\ ServerSends(<<HandshakeProtocols(exposed)>>)
    /\ sBatch' = Tail(sBatch)
    /\ UNCHANGED <<c2s, clientOpen, serverOpen, reset, sError, firstPollDone, exposed, sObjectVars,
                   scheduledRoundtrip, sPhase, sHup, sCall, todo>>

\* createObject makes the object it was asked for only of what is exposed, in a
\* version the server has; else it returns none.
Grants(p, v) == p \in Implemented \cap exposed /\ v <= ServerVer[p]

\* Mutant: the id announced is the next one.
CreateObject_NextId(p, v, q) ==
    /\ maxId' = maxId + 1
    /\ sObjects' = sObjects \cup
         {[id |-> maxId, seq |-> q, protocol |-> p, version |-> v, destroyed |-> FALSE]}
    /\ IF Grants(p, v)
         THEN /\ ServerSends(<<NewObject(q, maxId')>>)
              /\ sError' = sError
         ELSE /\ ServerSends(<<FatalError(maxId)>>)
              /\ sError' = TRUE

\* Mutant: the filter is not asked.
CreateObject_Unfiltered(p, v, q) ==
    /\ maxId' = maxId + 1
    /\ sObjects' = sObjects \cup
         {[id |-> maxId, seq |-> q, protocol |-> p, version |-> v, destroyed |-> FALSE]}
    /\ IF p \in Implemented /\ v <= ServerVer[p]
         THEN /\ ServerSends(<<NewObject(q, maxId)>>)
              /\ sError' = sError
         ELSE /\ ServerSends(<<FatalError(maxId)>>)
              /\ sError' = TRUE

\* Mutant: the object gets the server's version, not the one bound.
CreateObject_OwnVersion(p, v, q) ==
    /\ maxId' = maxId + 1
    /\ sObjects' = sObjects \cup
         {[id |-> maxId, seq |-> q, protocol |-> p, version |-> ServerVer[p], destroyed |-> FALSE]}
    /\ IF Grants(p, v)
         THEN /\ ServerSends(<<NewObject(q, maxId)>>)
              /\ sError' = sError
         ELSE /\ ServerSends(<<FatalError(maxId)>>)
              /\ sError' = TRUE

\* Mutant: a refused object is an error nobody is told of.
CreateObject_Silent(p, v, q) ==
    /\ maxId' = maxId + 1
    /\ sObjects' = sObjects \cup
         {[id |-> maxId, seq |-> q, protocol |-> p, version |-> v, destroyed |-> FALSE]}
    /\ IF Grants(p, v)
         THEN /\ ServerSends(<<NewObject(q, maxId)>>)
              /\ sError' = sError
         ELSE /\ UNCHANGED s2c
              /\ sError' = TRUE

\* The object is listed, and its id spent, before the request is checked.
CreateObject(p, v, q) ==
    /\ maxId' = maxId + 1
    /\ sObjects' = sObjects \cup
         {[id |-> maxId, seq |-> q, protocol |-> p, version |-> v, destroyed |-> FALSE]}
    /\ IF Grants(p, v)
         THEN /\ ServerSends(<<NewObject(q, maxId)>>)
              /\ sError' = sError
         ELSE /\ ServerSends(<<FatalError(maxId)>>)
              /\ sError' = TRUE

\* BIND_PROTOCOL: a created object is announced before onBind is called.
ServerHandlesBind ==
    /\ ServerParses
    /\ Message.type = "BIND_PROTOCOL"
    /\ CreateObject(Message.protocol, Message.version, Message.seq)
    /\ sCall' = IF sError' THEN NoCall ELSE [id |-> maxId, method |-> "bind"]
    /\ sBatch' = Tail(sBatch)
    /\ UNCHANGED <<c2s, clientOpen, serverOpen, reset, sSessionVars, scheduledRoundtrip,
                   sPhase, sHup, todo>>

ServerHandlesRoundtrip ==
    /\ ServerParses
    /\ Message.type = "ROUNDTRIP_REQUEST"
    /\ scheduledRoundtrip' = Message.seq
    /\ sBatch' = Tail(sBatch)
    /\ UNCHANGED <<wireVars, sError, sSessionVars, sObjectVars, sPhase, sHup, sCall, todo>>

\* The object a generic message is for, as onGeneric looks it up.
Addressed(i) == {o \in sObjects : o.id = i}

ServerRaises(i) ==
    /\ ServerSends(<<FatalError(i)>>)
    /\ sError' = TRUE

\* GENERIC for an id that is not listed.
ServerHandlesUnknown ==
    /\ ServerParses
    /\ Message.type = "GENERIC"
    /\ Addressed(Message.object) = {}
    /\ ServerRaises(Message.object)
    /\ sBatch' = Tail(sBatch)
    /\ UNCHANGED <<c2s, clientOpen, serverOpen, reset, sSessionVars, sObjectVars,
                   scheduledRoundtrip, sPhase, sHup, sCall, todo>>

WithoutObject(i) == {o \in sObjects : o.id # i}

\* GENERIC nobody listens to: dropped, but a destructor still destroys.
ServerIgnoresRequest ==
    /\ ServerParses
    /\ Message.type = "GENERIC"
    /\ Addressed(Message.object) # {}
    /\ Message.method \notin Listened
    /\ sObjects' = IF IsDestructor(Message.method) THEN WithoutObject(Message.object) ELSE sObjects
    /\ sBatch' = Tail(sBatch)
    /\ UNCHANGED <<wireVars, sError, sSessionVars, maxId, scheduledRoundtrip, sPhase, sHup,
                   sCall, todo>>

\* GENERIC with a listener: refused when the object's version lacks the
\* method, otherwise the listener starts.
ServerCalled ==
    /\ ServerParses
    /\ Message.type = "GENERIC"
    /\ Message.method \in Listened
    /\ \E o \in Addressed(Message.object) :
         IF Since(Message.method) > o.version
           THEN /\ ServerRaises(o.id)
                /\ UNCHANGED <<sCall, todo>>
           ELSE /\ sCall' = [id |-> o.id, method |-> Message.method]
                /\ todo' = IF Creates(Message.method)
                             THEN todo \cup {[protocol |-> o.protocol, version |-> o.version,
                                              seq |-> Message.seq]}
                             ELSE todo
                /\ UNCHANGED <<s2c, sError>>
    /\ sBatch' = Tail(sBatch)
    /\ UNCHANGED <<c2s, clientOpen, serverOpen, reset, sSessionVars, sObjectVars,
                   scheduledRoundtrip, sPhase, sHup>>

\* Mutant: a destructor's object stays listed.
ServerListenerReturns_Keeps ==
    /\ serverOpen
    /\ sCall # NoCall
    /\ AnswersLater \/ todo = {}
    /\ sCall' = NoCall
    /\ UNCHANGED <<wireVars, sError, sSessionVars, sObjectVars, scheduledRoundtrip, sReadVars, todo>>

\* The listener returns; a destructor's object leaves m_objects.  An
\* application that answers at once has created what was asked for.
ServerListenerReturns ==
    /\ serverOpen
    /\ sCall # NoCall
    /\ AnswersLater \/ todo = {}
    /\ sObjects' = IF IsDestructor(sCall.method) THEN WithoutObject(sCall.id) ELSE sObjects
    /\ sCall' = NoCall
    /\ UNCHANGED <<wireVars, sError, sSessionVars, maxId, scheduledRoundtrip, sReadVars, todo>>

\* A message that does not parse ends the batch.
ServerRejects ==
    /\ ServerParses
    /\ Message.type = "INVALID"
    /\ ServerRaises(0)
    /\ sBatch' = <<>>
    /\ sPhase' = "reap"
    /\ UNCHANGED <<c2s, clientOpen, serverOpen, reset, sSessionVars, sObjectVars,
                   scheduledRoundtrip, sHup, sCall, todo>>

-----------------------------------------------------------------------------
(* After the batch *)

\* Mutant: only a hangup condemns the client.
ServerFinishesBatch_Lenient ==
    /\ serverOpen
    /\ sPhase = "parse"
    /\ sCall = NoCall
    /\ sBatch = <<>> \/ sError
    /\ ServerSends(IF scheduledRoundtrip > 0 THEN <<RoundtripDone(scheduledRoundtrip)>> ELSE <<>>)
    /\ scheduledRoundtrip' = 0
    /\ sBatch' = <<>>
    /\ sError' = (sError \/ sHup)
    /\ sPhase' = IF sHup THEN "reap" ELSE "idle"
    /\ UNCHANGED <<c2s, clientOpen, serverOpen, reset, sSessionVars, sObjectVars, sHup, sCall, todo>>

\* The loop of handleMessage ends with the data or with m_error.  Either way
\* a scheduled roundtrip is acknowledged; a hangup or an error condemns the
\* client.
ServerFinishesBatch ==
    /\ serverOpen
    /\ sPhase = "parse"
    /\ sCall = NoCall
    /\ sBatch = <<>> \/ sError
    /\ ServerSends(IF scheduledRoundtrip > 0 THEN <<RoundtripDone(scheduledRoundtrip)>> ELSE <<>>)
    /\ scheduledRoundtrip' = 0
    /\ sBatch' = <<>>
    /\ sError' = (sError \/ sHup)
    /\ sPhase' = IF sError' THEN "reap" ELSE "idle"
    /\ UNCHANGED <<c2s, clientOpen, serverOpen, reset, sSessionVars, sObjectVars, sHup, sCall, todo>>

\* The client leaves m_clients and its descriptor is closed with it.
DropClient ==
    /\ serverOpen' = FALSE
    /\ reset' = (c2s # <<>>)
    /\ sObjects' = {}
    /\ todo' = {}

ServerReaps ==
    /\ serverOpen
    /\ sPhase = "reap"
    /\ DropClient
    /\ sPhase' = "idle"
    /\ UNCHANGED <<c2s, s2c, clientOpen, sError, sSessionVars, maxId, scheduledRoundtrip, sBatch,
                   sHup, sCall>>

-----------------------------------------------------------------------------
(* What the server's application does, in a listener or between dispatches *)

\* The objects createObject gave it.
Granted == {o \in sObjects : Grants(o.protocol, o.version)}

ServerAppMayAct ==
    /\ serverOpen
    /\ sCall # NoCall \/ sPhase \in {"idle", "reap"}

\* Answers a request for an object.
ServerCreates ==
    /\ ServerAppMayAct
    /\ \E t \in todo :
         /\ CreateObject(t.protocol, t.version, t.seq)
         /\ todo' = todo \ {t}
    /\ UNCHANGED <<c2s, clientOpen, serverOpen, reset, sSessionVars, scheduledRoundtrip, sReadVars, sCall>>

\* Emits an event, which the object's version may lack.
ServerEmits ==
    /\ ServerAppMayAct
    /\ Len(s2c) < MaxQueue
    /\ \E o \in Granted, m \in Events :
         /\ ~o.destroyed
         /\ IF Since(m) > o.version
              THEN ServerRaises(o.id) /\ UNCHANGED sObjects
              ELSE /\ ServerSends(<<Generic(o.id, m, 0)>>)
                   /\ sObjects' = (sObjects \ {o}) \cup
                        {[o EXCEPT !.destroyed = IsDestructor(m)]}
                   /\ sError' = sError
    /\ UNCHANGED <<c2s, clientOpen, serverOpen, reset, sSessionVars, maxId, scheduledRoundtrip,
                   sReadVars, sCall, todo>>

\* Declares a protocol error on an object.
ServerDeclaresError ==
    /\ ServerAppMayAct
    /\ Len(s2c) < MaxQueue
    /\ \E o \in Granted : ServerRaises(o.id)
    /\ UNCHANGED <<c2s, clientOpen, serverOpen, reset, sSessionVars, sObjectVars, scheduledRoundtrip,
                   sReadVars, sCall, todo>>

\* removeClient, or the server's end: no message, no error.
ServerRemovesClient ==
    /\ serverOpen
    /\ sPhase = "idle"
    /\ DropClient
    /\ UNCHANGED <<c2s, s2c, clientOpen, sError, sSessionVars, maxId, scheduledRoundtrip, sReadVars, sCall>>

-----------------------------------------------------------------------------
ServerHandles ==
    \/ ServerHandlesHello
    \/ ServerHandlesAck
    \/ ServerHandlesBind
    \/ ServerHandlesRoundtrip
    \/ ServerHandlesUnknown
    \/ ServerIgnoresRequest
    \/ ServerCalled
    \/ ServerRejects

\* Everything the library does once the application calls dispatchEvents.
ServerDispatches ==
    \/ ServerReads
    \/ ServerSeesHangup
    \/ ServerHandles
    \/ ServerListenerReturns
    \/ ServerFinishesBatch
    \/ ServerReaps
=============================================================================
