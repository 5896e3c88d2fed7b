----------------------------- MODULE ServerPoll -----------------------------
(***************************************************************************)
(* CServerSocket's polling: the list of its clients, the vector of pollfds *)
(* that mirrors it, dispatchEvents on the application's thread, and the    *)
(* poll thread extractLoopFD starts, which signals the application's event *)
(* loop through a pipe and waits on a condition variable until the events  *)
(* were handled.                                                           *)
(*                                                                         *)
(* What a message says is left to ServerClient; here a client has messages *)
(* unread or none, may have hung up, and may have committed an error.      *)
(***************************************************************************)
EXTENDS Naturals, Sequences, Ordering

CONSTANTS
    Clients,    \* every client there will be
    Listening,  \* the socket listens on a path, otherwise clients are only added
    Habits      \* what the application does, see below

(***************************************************************************)
(* eager: calls dispatchEvents although its event loop saw no signal       *)
(* slow: may let the five seconds pass before the events are handled       *)
(* blocks: calls dispatchEvents(true)                                      *)
(* adds, removes: calls addClient, removeClient between dispatches         *)
(* listenersAdd, listenersRemove: from within a listener                   *)
(* quits: lets its server socket go                                        *)
(***************************************************************************)
ASSUME PollAssumption ==
    /\ IsFiniteSet(Clients)
    /\ Clients \cap {"listen", "exit", "wakeup"} = {}
    /\ Listening \in BOOLEAN
    /\ Habits \subseteq {"eager", "slow", "blocks", "adds", "removes",
                         "listenersAdd", "listenersRemove", "quits"}

VARIABLES
    backlog,   \* connections the kernel holds for accept
    arrived,   \* clients that connected or were added
    unread,    \* clients whose messages wait in their socket
    hungUp,    \* clients that closed their end
    clients,   \* m_clients
    erred,     \* clients whose m_error is set
    pollfds,   \* m_pollfds
    wakeup,    \* the wakeup pipe is not empty
    signalled, \* the exported pipe is not empty
    exit,      \* the exit pipe is not empty
    canPoll,   \* m_threadCanPoll
    pollEvent, \* m_pollEvent
    app,       \* where the application's thread is
    blocking,  \* dispatchEvents was called with block: no, yes, or over when it has blocked
    at,        \* i of dispatchExistingConnections
    hadAny,    \* hadAny
    recheck,   \* needsPollRecheck
    thread,    \* where the poll thread is
    polled     \* the descriptors its poll watches

kernelVars   == <<backlog, arrived, unread, hungUp>>
clientsVars  == <<clients, pollfds, erred>>
pipeVars     == <<wakeup, signalled, exit>>
loopVars     == <<blocking, at, hadAny, recheck>>
threadVars   == <<thread, polled>>
vars == <<kernelVars, clientsVars, pipeVars, canPoll, pollEvent, app, loopVars, threadVars>>

Internal == (IF Listening THEN <<"listen">> ELSE <<>>) \o <<"exit", "wakeup">>
Fds      == Clients \cup {"listen", "exit", "wakeup"}
Pollfd   == [fd : Fds, pollin : BOOLEAN, pollhup : BOOLEAN]

\* The application's thread holds m_pollmtx in these places of dispatchEvents.
Locked   == {"poll", "polled", "serve", "listener", "judge", "clear", "clearWakeup", "block"}
Quitting == {"quit", "notify", "join"}

TypeOK ==
    /\ backlog \in Seq(Clients)
    /\ arrived \subseteq Clients
    /\ unread \subseteq arrived
    /\ hungUp \subseteq arrived
    /\ clients \in Seq(Clients)
    /\ erred \subseteq Clients
    /\ pollfds \in Seq(Pollfd)
    /\ Len(pollfds) <= Len(Internal) + Cardinality(Clients)
    /\ wakeup \in BOOLEAN
    /\ signalled \in BOOLEAN
    /\ exit \in BOOLEAN
    /\ canPoll \in BOOLEAN
    /\ pollEvent \in BOOLEAN
    /\ app \in {"idle", "finish", "thrown", "gone"} \cup Locked \cup Quitting
    /\ blocking \in {"no", "yes", "over"}
    /\ at \in Nat
    /\ hadAny \in BOOLEAN
    /\ recheck \in BOOLEAN
    /\ thread \in {"none", "top", "poll", "signal", "check", "doze", "sleep", "done"}
    /\ polled \subseteq Fds

\* recheckPollFds: the internal descriptors, then the clients' in their order;
\* the fresh entries have no revents.
Entry(fd)   == [fd |-> fd, pollin |-> FALSE, pollhup |-> FALSE]
FdsOf(cs)   == Internal \o cs
EntriesOf(cs) == [k \in 1 .. Len(Internal) + Len(cs) |-> Entry(FdsOf(cs)[k])]
\* Mutant: the vector is not cleared first.
RecheckPollFds_Unclear == pollfds' = pollfds \o EntriesOf(clients')

RecheckPollFds == pollfds' = EntriesOf(clients')

Init ==
    /\ backlog = <<>>
    /\ arrived = {}
    /\ unread = {}
    /\ hungUp = {}
    /\ clients = <<>>
    /\ erred = {}
    /\ pollfds = EntriesOf(<<>>)
    /\ wakeup = FALSE
    /\ signalled = FALSE
    /\ exit = FALSE
    /\ canPoll = FALSE
    /\ pollEvent = FALSE
    /\ app = "idle"
    /\ blocking = "no"
    /\ at = 1
    /\ hadAny = FALSE
    /\ recheck = FALSE
    /\ thread = "none"
    /\ polled = {}

Members(s) == {s[k] : k \in 1 .. Len(s)}

\* What poll finds readable; a client's descriptor only while the server has it.
Readable(fd) ==
    \/ fd = "listen" /\ backlog # <<>>
    \/ fd = "wakeup" /\ wakeup
    \/ fd = "exit" /\ exit
    \/ fd \in Members(clients) /\ fd \in unread \cup hungUp

-----------------------------------------------------------------------------
(* The clients, in processes of their own *)

ClientConnects(c) ==
    /\ Listening
    /\ c \notin arrived
    /\ app # "gone"
    /\ arrived' = arrived \cup {c}
    /\ backlog' = Append(backlog, c)
    /\ UNCHANGED <<unread, hungUp, clientsVars, pipeVars, canPoll, pollEvent, app, loopVars, threadVars>>

ClientWrites(c) ==
    /\ c \in Members(clients) \cup Members(backlog)
    /\ c \notin hungUp
    /\ unread' = unread \cup {c}
    /\ UNCHANGED <<backlog, arrived, hungUp, clientsVars, pipeVars, canPoll, pollEvent, app, loopVars,
                   threadVars>>

ClientHangsUp(c) ==
    /\ c \in Members(clients) \cup Members(backlog)
    /\ c \notin hungUp
    /\ hungUp' = hungUp \cup {c}
    /\ UNCHANGED <<backlog, arrived, unread, clientsVars, pipeVars, canPoll, pollEvent, app, loopVars,
                   threadVars>>

-----------------------------------------------------------------------------
(* Adding and removing clients *)

MayCall(here, inListener) ==
    \/ app = "idle" /\ here \in Habits
    \/ app = "listener" /\ inListener \in Habits

\* addClient: the descriptor may already hold what the client wrote.  It does
\* not take m_pollmtx: here it falls before or after the poll thread's listing,
\* in the code it may fall into it, a data race.
AddClient(c) ==
    /\ MayCall("adds", "listenersAdd")
    /\ c \notin arrived
    /\ arrived' = arrived \cup {c}
    /\ unread' \in {unread, unread \cup {c}}
    /\ clients' = Append(clients, c)
    /\ RecheckPollFds
    /\ wakeup' = TRUE
    /\ UNCHANGED <<backlog, hungUp, erred, signalled, exit, canPoll, pollEvent, app, loopVars, threadVars>>

\* clients without those in the set gone, in their order.
Erased(gone) ==
    {[k \in DOMAIN kept |-> clients[kept[k]]] :
        kept \in InOrder({k \in 1 .. Len(clients) : clients[k] \notin gone})}

\* Mutant: m_pollfds keeps the client.
RemoveClient_NoRecheck(c) ==
    /\ MayCall("removes", "listenersRemove")
    /\ c \in Members(clients)
    /\ clients' \in Erased({c})
    /\ UNCHANGED <<kernelVars, pollfds, erred, pipeVars, canPoll, pollEvent, app, loopVars, threadVars>>

RemoveClient(c) ==
    /\ MayCall("removes", "listenersRemove")
    /\ c \in Members(clients)
    /\ clients' \in Erased({c})
    /\ RecheckPollFds
    /\ UNCHANGED <<kernelVars, erred, pipeVars, canPoll, pollEvent, app, loopVars, threadVars>>

-----------------------------------------------------------------------------
(* dispatchEvents *)

\* An application with an event loop calls it when the exported descriptor is
\* readable, an eager one also when it is not.
BeginDispatch ==
    /\ app = "idle"
    /\ signalled \/ "eager" \in Habits
    /\ app' = "poll"
    /\ blocking' \in {"no"} \cup (IF "blocks" \in Habits THEN {"yes"} ELSE {})
    /\ UNCHANGED <<kernelVars, clientsVars, pipeVars, canPoll, pollEvent, at, hadAny, recheck, threadVars>>

\* dispatchPending polls without waiting, which fills in the revents.
PollNow ==
    /\ app = "poll"
    /\ pollfds' = [k \in 1 .. Len(pollfds) |->
                     LET fd == pollfds[k].fd
                     IN  [fd |-> fd, pollin |-> Readable(fd), pollhup |-> fd \in hungUp]]
    /\ app' = "polled"
    /\ UNCHANGED <<kernelVars, clients, erred, pipeVars, canPoll, pollEvent, loopVars, threadVars>>

NewConnection == Listening /\ pollfds[1].pollin

\* dispatchNewConnections accepts one connection and polls anew.
Accept ==
    /\ app = "polled"
    /\ NewConnection
    /\ clients' = Append(clients, Head(backlog))
    /\ backlog' = Tail(backlog)
    /\ RecheckPollFds
    /\ app' = "poll"
    /\ UNCHANGED <<arrived, unread, hungUp, erred, pipeVars, canPoll, pollEvent, loopVars, threadVars>>

internalFds == Len(Internal)

\* dispatchExistingConnections begins.
BeginServing ==
    /\ app = "polled"
    /\ ~NewConnection
    /\ at' = internalFds + 1
    /\ hadAny' = FALSE
    /\ recheck' = FALSE
    /\ app' = "serve"
    /\ UNCHANGED <<kernelVars, clientsVars, pipeVars, canPoll, pollEvent, blocking, threadVars>>

Skip ==
    /\ app = "serve"
    /\ at <= Len(pollfds)
    /\ ~pollfds[at].pollin
    /\ at' = at + 1
    /\ UNCHANGED <<kernelVars, clientsVars, pipeVars, canPoll, pollEvent, app, blocking, hadAny,
                   recheck, threadVars>>

Served == clients[at - internalFds]

\* Mutant: the revents are not asked.
DispatchClient_Regardless ==
    /\ app = "serve"
    /\ at <= Len(pollfds)
    /\ unread' = unread \ {Served}
    /\ erred' \in {erred} \cup (IF Served \in unread THEN {erred \cup {Served}} ELSE {})
    /\ hadAny' = TRUE
    /\ app' = "listener"
    /\ UNCHANGED <<backlog, arrived, hungUp, clients, pollfds, pipeVars, canPoll, pollEvent, blocking, at,
                   recheck, threadVars>>

\* Mutant: a client with an error is erased within the loop.
DispatchClient_Erases ==
    /\ app = "serve"
    /\ at <= Len(pollfds)
    /\ pollfds[at].pollin
    /\ unread' = unread \ {Served}
    /\ \/ UNCHANGED <<clients, pollfds, erred>>
       \/ /\ Served \in unread
          /\ erred' = erred \cup {Served}
          /\ clients' \in Erased({Served})
          /\ RecheckPollFds
    /\ hadAny' = TRUE
    /\ app' = "listener"
    /\ UNCHANGED <<backlog, arrived, hungUp, pipeVars, canPoll, pollEvent, blocking, at, recheck, threadVars>>

\* dispatchClient reads what waits, calls listeners and may hold an error
\* against the client.
DispatchClient ==
    /\ app = "serve"
    /\ at <= Len(pollfds)
    /\ pollfds[at].pollin
    /\ unread' = unread \ {Served}
    /\ erred' \in {erred} \cup (IF Served \in unread THEN {erred \cup {Served}} ELSE {})
    /\ hadAny' = TRUE
    /\ app' = "listener"
    /\ UNCHANGED <<backlog, arrived, hungUp, clients, pollfds, pipeVars, canPoll, pollEvent, blocking, at,
                   recheck, threadVars>>

ListenersReturn ==
    /\ app = "listener"
    /\ app' = "judge"
    /\ UNCHANGED <<kernelVars, clientsVars, pipeVars, canPoll, pollEvent, loopVars, threadVars>>

\* Mutant: only a hangup makes the clients be looked through.
Judge_HangupOnly ==
    /\ app = "judge"
    /\ IF at > Len(pollfds)
         THEN app' = "thrown" /\ UNCHANGED <<erred, recheck, at>>
         ELSE /\ erred' = IF pollfds[at].pollhup THEN erred \cup {Served} ELSE erred
              /\ recheck' = (recheck \/ pollfds[at].pollhup)
              /\ at' = at + 1
              /\ app' = "serve"
    /\ UNCHANGED <<kernelVars, clients, pollfds, pipeVars, canPoll, pollEvent, blocking, hadAny, threadVars>>

\* After the client was dispatched both vectors are indexed again, with at(),
\* which throws when a listener removed clients.
Judge ==
    /\ app = "judge"
    /\ IF at > Len(pollfds)
         THEN app' = "thrown" /\ UNCHANGED <<erred, recheck, at>>
         ELSE /\ erred' = IF pollfds[at].pollhup THEN erred \cup {Served} ELSE erred
              /\ recheck' = (recheck \/ Served \in erred')
              /\ at' = at + 1
              /\ app' = "serve"
    /\ UNCHANGED <<kernelVars, clients, pollfds, pipeVars, canPoll, pollEvent, blocking, hadAny, threadVars>>

\* The loop is over: clients with an error are dropped.  dispatchEvents polls
\* until nothing is left to do, once more after it blocked.
EndServing ==
    /\ app = "serve"
    /\ at > Len(pollfds)
    /\ IF recheck THEN clients' \in Erased(erred) /\ RecheckPollFds
                  ELSE UNCHANGED <<clients, pollfds>>
    /\ app' = IF hadAny THEN "poll" ELSE IF blocking = "over" THEN "finish" ELSE "clear"
    /\ UNCHANGED <<kernelVars, erred, pipeVars, canPoll, pollEvent, loopVars, threadVars>>

\* clearEventFd, then clearWakeupFd: the pipes are emptied.
ClearEventFd ==
    /\ app = "clear"
    /\ signalled' = FALSE
    /\ app' = "clearWakeup"
    /\ UNCHANGED <<kernelVars, clientsVars, wakeup, exit, canPoll, pollEvent, loopVars, threadVars>>

ClearWakeupFd ==
    /\ app = "clearWakeup"
    /\ wakeup' = FALSE
    /\ app' = IF blocking = "yes" THEN "block" ELSE "finish"
    /\ UNCHANGED <<kernelVars, clientsVars, signalled, exit, canPoll, pollEvent, loopVars, threadVars>>

\* A blocking call polls with m_pollmtx held.
Block ==
    /\ app = "block"
    /\ \E k \in 1 .. Len(pollfds) : Readable(pollfds[k].fd)
    /\ blocking' = "over"
    /\ app' = "poll"
    /\ UNCHANGED <<kernelVars, clientsVars, pipeVars, canPoll, pollEvent, at, hadAny, recheck, threadVars>>

\* The poll thread is in its critical section on m_exportPollMtx.
ThreadHoldsExport == thread \in {"check", "doze"}

\* notify_all wakes the thread only when it sleeps.
Notify == thread' = IF thread = "sleep" THEN "check" ELSE thread

\* Mutant: the waiting thread is not notified.
Finish_Silent ==
    /\ app = "finish"
    /\ ~ThreadHoldsExport
    /\ pollEvent' = FALSE
    /\ app' = "idle"
    /\ UNCHANGED <<kernelVars, clientsVars, pipeVars, canPoll, loopVars, threadVars>>

\* m_pollmtx was unlocked; the thread is told that its event was handled.
Finish ==
    /\ app = "finish"
    /\ ~ThreadHoldsExport
    /\ pollEvent' = FALSE
    /\ Notify
    /\ app' = "idle"
    /\ UNCHANGED <<kernelVars, clientsVars, pipeVars, canPoll, loopVars, polled>>

-----------------------------------------------------------------------------
(* The poll thread *)

\* extractLoopFD starts it.
ExtractLoopFD ==
    /\ app = "idle"
    /\ thread = "none"
    /\ canPoll' = TRUE
    /\ thread' = "top"
    /\ pollfds' = EntriesOf(clients)
    /\ UNCHANGED <<kernelVars, clients, erred, pipeVars, pollEvent, app, loopVars, polled>>

\* Mutant: the thread does not watch the wakeup pipe.
ThreadLists_NoWakeup ==
    /\ thread = "top"
    /\ canPoll
    /\ app \notin Locked
    /\ polled' = Members(FdsOf(clients)) \ {"wakeup"}
    /\ thread' = "poll"
    /\ UNCHANGED <<kernelVars, clientsVars, pipeVars, canPoll, pollEvent, app, loopVars>>

\* The head of its loop: under m_pollmtx it lists what to watch.
ThreadLists ==
    /\ thread = "top"
    /\ canPoll
    /\ app \notin Locked
    /\ polled' = Members(FdsOf(clients))
    /\ thread' = "poll"
    /\ UNCHANGED <<kernelVars, clientsVars, pipeVars, canPoll, pollEvent, app, loopVars>>

ThreadEnds ==
    /\ thread = "top"
    /\ ~canPoll
    /\ thread' = "done"
    /\ UNCHANGED <<kernelVars, clientsVars, pipeVars, canPoll, pollEvent, app, loopVars, polled>>

ThreadReturnsFromPoll ==
    /\ thread = "poll"
    /\ thread' = IF canPoll THEN "signal" ELSE "done"
    /\ UNCHANGED <<kernelVars, clientsVars, pipeVars, canPoll, pollEvent, app, loopVars, polled>>

ThreadSees == (\E fd \in polled : Readable(fd)) /\ ThreadReturnsFromPoll

\* A watched descriptor that was closed may end the poll at once.
Closed(fd) == fd \in Clients \ Members(clients)
ThreadSeesClosed == (\E fd \in polled : Closed(fd)) /\ ThreadReturnsFromPoll

ThreadSignals ==
    /\ thread = "signal"
    /\ pollEvent' = TRUE
    /\ signalled' = TRUE
    /\ thread' = "check"
    /\ UNCHANGED <<kernelVars, clientsVars, wakeup, exit, canPoll, app, loopVars, polled>>

\* wait_for looks at its predicate, then goes to sleep; the lock keeps Finish
\* out in between, but not the destructor.
ThreadChecks ==
    /\ thread = "check"
    /\ thread' = IF pollEvent THEN "doze" ELSE "top"
    /\ UNCHANGED <<kernelVars, clientsVars, pipeVars, canPoll, pollEvent, app, loopVars, polled>>

ThreadFallsAsleep ==
    /\ thread = "doze"
    /\ thread' = "sleep"
    /\ UNCHANGED <<kernelVars, clientsVars, pipeVars, canPoll, pollEvent, app, loopVars, polled>>

\* Mutant: wait instead of wait_for.
ThreadTimesOut_Never ==
    /\ thread = "sleep"
    /\ FALSE
    /\ thread' = "top"
    /\ UNCHANGED <<kernelVars, clientsVars, pipeVars, canPoll, pollEvent, app, loopVars, polled>>

\* After five seconds it goes on; they pass for sure while the thread is joined.
ThreadTimesOut ==
    /\ thread = "sleep"
    /\ "slow" \in Habits \/ app = "join"
    /\ thread' = "top"
    /\ UNCHANGED <<kernelVars, clientsVars, pipeVars, canPoll, pollEvent, app, loopVars, polled>>

-----------------------------------------------------------------------------
(* The destructor *)

Quit ==
    /\ app = "idle"
    /\ "quits" \in Habits
    /\ canPoll' = FALSE
    /\ app' = IF thread = "none" THEN "gone" ELSE "quit"
    /\ UNCHANGED <<kernelVars, clientsVars, pipeVars, pollEvent, loopVars, threadVars>>

\* m_pollEvent is cleared without the lock, and the exit pipe written.
QuitWakes ==
    /\ app = "quit"
    /\ pollEvent' = FALSE
    /\ exit' = TRUE
    /\ app' = "notify"
    /\ UNCHANGED <<kernelVars, clientsVars, wakeup, signalled, canPoll, loopVars, threadVars>>

QuitNotifies ==
    /\ app = "notify"
    /\ Notify
    /\ app' = "join"
    /\ UNCHANGED <<kernelVars, clientsVars, pipeVars, canPoll, pollEvent, loopVars, polled>>

QuitJoins ==
    /\ app = "join"
    /\ thread = "done"
    /\ app' = "gone"
    /\ UNCHANGED <<kernelVars, clientsVars, pipeVars, canPoll, pollEvent, loopVars, threadVars>>

-----------------------------------------------------------------------------
Dispatching ==
    \/ PollNow
    \/ Accept
    \/ BeginServing
    \/ Skip
    \/ DispatchClient
    \/ ListenersReturn
    \/ Judge
    \/ EndServing
    \/ ClearEventFd
    \/ ClearWakeupFd
    \/ Block
    \/ Finish

Destroying == QuitWakes \/ QuitNotifies \/ QuitJoins

PollThread ==
    \/ ThreadLists
    \/ ThreadEnds
    \/ ThreadSees
    \/ ThreadSignals
    \/ ThreadChecks
    \/ ThreadFallsAsleep
    \/ ThreadTimesOut

Peers == \E c \in Clients : ClientConnects(c) \/ ClientWrites(c) \/ ClientHangsUp(c)

Application ==
    \/ \E c \in Clients : AddClient(c) \/ RemoveClient(c)
    \/ BeginDispatch
    \/ ExtractLoopFD
    \/ Quit

Next == Peers \/ Application \/ Dispatching \/ Destroying \/ PollThread \/ ThreadSeesClosed

Spec == Init /\ [][Next]_vars

\* The calls in progress go on, the poll thread is scheduled, and the event
\* loop calls dispatchEvents when the exported descriptor is readable.
Fairness ==
    /\ WF_vars(Dispatching)
    /\ WF_vars(Destroying)
    /\ WF_vars(PollThread)
    /\ WF_vars(BeginDispatch)

FairSpec == Spec /\ Fairness

-----------------------------------------------------------------------------
(* Indices *)

\* m_pollfds mirrors m_clients whenever the loops of dispatchEvents index one
\* by the other.
FdsMirrorClients ==
    /\ Len(pollfds) = internalFds + Len(clients)
    /\ \A k \in 1 .. Len(pollfds) : pollfds[k].fd = FdsOf(clients)[k]

\* No call of at() is out of range (dispatchExistingConnections).
NeverThrows == app # "thrown"

\* The client that is dispatched has something to read or hung up: poll said so
\* of it and not of a neighbour.
ServedHadEvents == [][DispatchClient => Served \in unread \cup hungUp]_vars

\* A client with an error is dropped by the dispatch that met the error.
ErredAreDropped == app = "idle" => \A k \in 1 .. Len(clients) : clients[k] \notin erred

-----------------------------------------------------------------------------
(* Waking up *)

Watched == Members(clients) \cup {"listen"}

\* While the event loop waits for a signal that has not been given, the poll
\* thread's poll sees whatever there is to see.
NoMissedWakeup ==
    /\ app = "idle"
    /\ thread = "poll"
    /\ ~signalled
    /\ \E fd \in Watched : Readable(fd)
    => \E fd \in polled : Readable(fd)

\* With the poll thread running everything a client sends is dispatched.
Waits(c) == c \in Members(backlog) \/ (c \in Members(clients) /\ c \in unread)
EventsAreDispatched ==
    \A c \in Clients :
        thread # "none" /\ Waits(c) ~> ~Waits(c) \/ app \in Quitting \cup {"gone"}

\* The destructor returns, whatever the poll thread was doing.
DestructorReturns == app = "quit" ~> app = "gone"
=============================================================================
