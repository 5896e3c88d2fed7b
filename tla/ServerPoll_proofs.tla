-------------------------- MODULE ServerPoll_proofs --------------------------
(***************************************************************************)
(* Theorems about the server's polling: the two vectors dispatchEvents     *)
(* walks side by side never get out of step, whatever the application and  *)
(* the clients do, and the client dispatched is the one poll reported.     *)
(* Then, with an application that keeps to what the code expects of it: no *)
(* index is out of range, clients that erred go, and no wakeup is lost.    *)
(***************************************************************************)
EXTENDS ServerPoll, Ordering_proofs

-----------------------------------------------------------------------------
(* The vector of pollfds *)

\* There are two or three descriptors before those of the clients.
LEMMA InternalType ==
    /\ Internal \in Seq({"listen", "exit", "wakeup"})
    /\ internalFds \in Nat
    /\ internalFds > 0
    /\ Len(Internal) = internalFds
    /\ \A k \in 1 .. internalFds : Internal[k] \notin Clients
BY PollAssumption DEF Internal, internalFds

\* The clients' descriptors follow in the clients' order.
LEMMA FdsOfClients ==
    ASSUME NEW cs \in Seq(Clients)
    PROVE  /\ Len(cs) \in Nat
           /\ \A k \in 1 .. Len(cs) : FdsOf(cs)[internalFds + k] = cs[k]
           /\ \A k \in 1 .. Len(cs) : cs[k] \in Clients
<1>1. Len(cs) \in Nat /\ \A k \in 1 .. Len(cs) : cs[k] \in Clients
  OBVIOUS
<1>2. Internal \in Seq(Fds) /\ cs \in Seq(Fds)
  <2>1. Internal \in Seq({"listen", "exit", "wakeup"})
    BY InternalType
  <2> QED
    BY <2>1 DEF Fds
<1>3. ASSUME NEW k \in 1 .. Len(cs)
      PROVE  FdsOf(cs)[internalFds + k] = cs[k]
  BY <1>1, <1>2, InternalType DEF FdsOf
<1> QED
  BY <1>1, <1>3

\* What recheckPollFds builds mirrors the clients and reports nothing.
LEMMA EntriesMirror ==
    ASSUME NEW cs \in Seq(Clients), NEW fds, fds = EntriesOf(cs)
    PROVE  /\ Len(fds) = internalFds + Len(cs)
           /\ \A k \in 1 .. Len(fds) : fds[k].fd = FdsOf(cs)[k]
           /\ \A k \in 1 .. Len(fds) : ~fds[k].pollin
<1>1. Len(cs) \in Nat /\ internalFds \in Nat /\ Len(Internal) = internalFds
  BY FdsOfClients, InternalType
<1>2. Len(fds) = internalFds + Len(cs)
  BY <1>1 DEF EntriesOf
<1>3. \A k \in 1 .. Len(fds) : fds[k] = Entry(FdsOf(cs)[k])
  BY <1>1, <1>2 DEF EntriesOf
<1> QED
  BY <1>2, <1>3 DEF Entry

-----------------------------------------------------------------------------
(* The vector of clients *)

\* Nobody is in a vector twice.
NoRepeats(s) == \A j, k \in 1 .. Len(s) : s[j] = s[k] => j = k

\* Erasing from m_clients keeps some of them, in their order, and nobody else
\* and none of those to be erased.
LEMMA ErasedKeeps ==
    ASSUME clients \in Seq(Clients), NoRepeats(clients), NEW gone, NEW s \in Erased(gone)
    PROVE  /\ s \in Seq(Clients)
           /\ NoRepeats(s)
           /\ \A k \in 1 .. Len(s) :
                s[k] \notin gone /\ \E j \in 1 .. Len(clients) : s[k] = clients[j]
<1> DEFINE n == Len(clients)
           K == {k \in 1 .. n : clients[k] \notin gone}
<1>1. n \in Nat /\ \A k \in 1 .. n : clients[k] \in Clients
  BY FdsOfClients
<1>2. PICK kept \in InOrder(K) : s = [k \in DOMAIN kept |-> clients[kept[k]]]
  BY DEF Erased
<1>3. /\ Cardinality(K) \in Nat
      /\ DOMAIN kept = 1 .. Cardinality(K)
      /\ \A k \in DOMAIN kept : kept[k] \in 1 .. n
  BY <1>1, InOrderType
<1>4. \A k \in DOMAIN kept : clients[kept[k]] \notin gone
  <2>1. K \in SUBSET (1 .. n) /\ \A k \in K : clients[k] \notin gone
    OBVIOUS
  <2> HIDE DEF K, n
  <2>2. \A k \in DOMAIN kept : kept[k] \in K
    BY <1>1, <1>2, <2>1, InOrderType
  <2> QED
    BY <2>1, <2>2
<1>5. \A j, k \in DOMAIN kept : kept[j] = kept[k] => j = k
  <2>1. K \in SUBSET (1 .. n)
    OBVIOUS
  <2> HIDE DEF K, n
  <2> QED
    BY <1>1, <1>2, <2>1, InOrderInjective
<1> HIDE DEF K
<1>6. s \in Seq(Clients) /\ Len(s) = Cardinality(K)
  <2>1. s \in [1 .. Cardinality(K) -> Clients]
    BY <1>1, <1>2, <1>3
  <2> QED
    BY <1>3, <2>1, FunctionIsSeq
<1>7. \A k \in 1 .. Len(s) :
        s[k] = clients[kept[k]] /\ kept[k] \in 1 .. n /\ clients[kept[k]] \notin gone
  BY <1>2, <1>3, <1>6, <1>4
<1>8. NoRepeats(s)
  BY <1>3, <1>5, <1>6, <1>7 DEF NoRepeats
<1> QED
  BY <1>6, <1>7, <1>8

\* Putting somebody new at the end repeats nobody.
LEMMA AppendKeeps ==
    ASSUME NEW s \in Seq(Clients), NoRepeats(s), NEW c \in Clients,
           \A k \in 1 .. Len(s) : s[k] # c
    PROVE  /\ Append(s, c) \in Seq(Clients)
           /\ NoRepeats(Append(s, c))
           /\ Len(Append(s, c)) = Len(s) + 1
           /\ \A k \in 1 .. Len(s) : Append(s, c)[k] = s[k]
           /\ Append(s, c)[Len(s) + 1] = c
<1>1. Len(s) \in Nat
  OBVIOUS
<1>2. /\ Append(s, c) \in Seq(Clients)
      /\ Len(Append(s, c)) = Len(s) + 1
      /\ \A k \in 1 .. Len(s) : Append(s, c)[k] = s[k]
      /\ Append(s, c)[Len(s) + 1] = c
  OBVIOUS
<1> QED
  BY <1>1, <1>2 DEF NoRepeats

-----------------------------------------------------------------------------
(* The inductive invariant *)

VectorsOK ==
    /\ clients \in Seq(Clients)
    /\ backlog \in Seq(Clients)
    /\ at \in Nat

\* A client is on the server's list or still waits to be accepted, once.
Distinct ==
    /\ NoRepeats(clients)
    /\ NoRepeats(backlog)
    /\ \A j \in 1 .. Len(clients), k \in 1 .. Len(backlog) : clients[j] # backlog[k]
    /\ \A k \in 1 .. Len(clients) : clients[k] \in arrived
    /\ \A k \in 1 .. Len(backlog) : backlog[k] \in arrived

\* The entries dispatchExistingConnections has yet to look at.
Ahead(k) ==
    \/ app = "polled"
    \/ app = "serve" /\ k >= at
    \/ app \in {"listener", "judge"} /\ k > at

\* What poll reported of them is still so.
FreshRevents ==
    \A k \in internalFds + 1 .. Len(pollfds) :
        Ahead(k) /\ pollfds[k].pollin => clients[k - internalFds] \in unread \cup hungUp

\* i has passed the internal descriptors.
PastInternal == app \in {"serve", "listener", "judge"} => at > internalFds

\* A connection that was reported is still there to be accepted.
Acceptable == app = "polled" /\ NewConnection => backlog # <<>>

PollInv ==
    /\ VectorsOK
    /\ Distinct
    /\ FdsMirrorClients
    /\ PastInternal
    /\ FreshRevents
    /\ Acceptable

\* The first state satisfies it.
LEMMA InvInit == Init => PollInv
<1> SUFFICES ASSUME Init PROVE PollInv
  OBVIOUS
<1>1. clients = <<>> /\ backlog = <<>> /\ at = 1 /\ app = "idle" /\ pollfds = EntriesOf(clients)
  BY DEF Init
<1>2. VectorsOK
  BY <1>1 DEF VectorsOK
<1>3. Distinct
  BY <1>1 DEF Distinct, NoRepeats
<1>4. FdsMirrorClients
  BY <1>1, <1>2, EntriesMirror DEF FdsMirrorClients, VectorsOK
<1>5. PastInternal /\ FreshRevents /\ Acceptable
  BY <1>1 DEF PastInternal, FreshRevents, Ahead, Acceptable
<1> QED
  BY <1>2, <1>3, <1>4, <1>5 DEF PollInv

-----------------------------------------------------------------------------
(* Steps *)

\* The list of clients, those to be accepted and the descriptors stay as they
\* are, sockets only fill, and the loop over them is not entered.
Aside ==
    /\ UNCHANGED <<clients, backlog, pollfds, at>>
    /\ arrived \subseteq arrived'
    /\ unread \subseteq unread'
    /\ hungUp \subseteq hungUp'
    /\ app' = app \/ app' \notin {"polled", "serve", "listener", "judge", "thrown"}

\* Such a step keeps the invariant.
LEMMA AsideStep ==
    ASSUME PollInv, Aside
    PROVE  PollInv'
<1> USE DEF PollInv, Aside
<1>1. VectorsOK'
  BY DEF VectorsOK
<1>2. Distinct'
  BY DEF Distinct, NoRepeats
<1>3. FdsMirrorClients'
  BY DEF FdsMirrorClients
<1>4. PastInternal'
  BY DEF PastInternal
<1>5. FreshRevents'
  BY DEF FreshRevents, Ahead
<1>6. Acceptable'
  BY DEF Acceptable, NewConnection
<1> QED
  BY <1>1, <1>2, <1>3, <1>4, <1>5, <1>6

\* After recheckPollFds the descriptors mirror the clients and none is reported.
LEMMA Rechecked ==
    ASSUME clients' \in Seq(Clients), pollfds' = EntriesOf(clients')
    PROVE  FdsMirrorClients' /\ FreshRevents'
<1>1. /\ Len(pollfds') = internalFds + Len(clients')
      /\ \A k \in 1 .. Len(pollfds') : pollfds'[k].fd = FdsOf(clients')[k]
      /\ \A k \in 1 .. Len(pollfds') : ~pollfds'[k].pollin
  BY EntriesMirror
<1>2. FdsMirrorClients'
  BY <1>1 DEF FdsMirrorClients
<1>3. FreshRevents'
  BY <1>1, InternalType DEF FreshRevents
<1> QED
  BY <1>2, <1>3

\* Erasing clients and rebuilding the descriptors keeps the invariant.
LEMMA EraseStep ==
    ASSUME PollInv, NEW gone, clients' \in Erased(gone), RecheckPollFds,
           UNCHANGED <<backlog, arrived, at>>,
           (app \in {"idle", "listener"} /\ app' = app) \/ app' \in {"poll", "finish", "clear"}
    PROVE  PollInv'
<1> USE DEF PollInv
<1>1. /\ clients' \in Seq(Clients)
      /\ NoRepeats(clients')
      /\ \A k \in 1 .. Len(clients') : \E j \in 1 .. Len(clients) : clients'[k] = clients[j]
  BY ErasedKeeps DEF VectorsOK, Distinct
<1>2. VectorsOK'
  BY <1>1 DEF VectorsOK
<1>3. Distinct'
  BY <1>1 DEF Distinct, NoRepeats
<1>4. FdsMirrorClients' /\ FreshRevents'
  BY <1>1, Rechecked DEF RecheckPollFds
<1>5. PastInternal' /\ Acceptable'
  BY DEF PastInternal, Acceptable
<1> QED
  BY <1>2, <1>3, <1>4, <1>5

\* A new connection waits behind the others.
LEMMA ConnectStep ==
    ASSUME PollInv, NEW c \in Clients, ClientConnects(c)
    PROVE  PollInv'
<1> USE DEF PollInv, ClientConnects, clientsVars, loopVars
<1>1. /\ Append(backlog, c) \in Seq(Clients)
      /\ NoRepeats(Append(backlog, c))
      /\ Len(Append(backlog, c)) = Len(backlog) + 1
      /\ \A k \in 1 .. Len(backlog) : Append(backlog, c)[k] = backlog[k]
      /\ Append(backlog, c)[Len(backlog) + 1] = c
  BY AppendKeeps DEF VectorsOK, Distinct
<1>2. VectorsOK'
  BY <1>1 DEF VectorsOK
<1>3. Distinct'
  <2>1. Len(backlog) \in Nat
    BY DEF VectorsOK
  <2>2. \A k \in 1 .. Len(backlog') : k \in 1 .. Len(backlog) \/ k = Len(backlog) + 1
    BY <1>1, <2>1
  <2>3. UNCHANGED clients /\ backlog' = Append(backlog, c) /\ arrived' = arrived \cup {c}
    OBVIOUS
  <2> QED
    BY <1>1, <2>2, <2>3 DEF Distinct, NoRepeats
<1>4. FdsMirrorClients'
  BY DEF FdsMirrorClients
<1>5. PastInternal'
  BY DEF PastInternal
<1>6. FreshRevents'
  BY DEF FreshRevents, Ahead
<1>7. Acceptable'
  BY <1>1 DEF Acceptable, VectorsOK
<1> QED
  BY <1>2, <1>3, <1>4, <1>5, <1>6, <1>7

\* A client is put at the end of m_clients and the descriptors are rebuilt.
LEMMA AppendStep ==
    ASSUME PollInv, NEW c \in Clients,
           \A k \in 1 .. Len(clients) : clients[k] # c,
           clients' = Append(clients, c), RecheckPollFds,
           arrived \subseteq arrived', c \in arrived',
           backlog' \in Seq(Clients), NoRepeats(backlog'),
           \A k \in 1 .. Len(backlog') :
               backlog'[k] # c /\ \E j \in 1 .. Len(backlog) : backlog'[k] = backlog[j],
           UNCHANGED at, (app \in {"idle", "listener"} /\ app' = app) \/ app' = "poll"
    PROVE  PollInv'
<1> USE DEF PollInv
<1>1. /\ clients' \in Seq(Clients)
      /\ NoRepeats(clients')
      /\ Len(clients') = Len(clients) + 1
      /\ \A k \in 1 .. Len(clients) : clients'[k] = clients[k]
      /\ clients'[Len(clients) + 1] = c
  BY AppendKeeps DEF VectorsOK, Distinct
<1>2. VectorsOK'
  BY <1>1 DEF VectorsOK
<1>3. Distinct'
  <2>1. Len(clients) \in Nat
    BY DEF VectorsOK
  <2>2. \A k \in 1 .. Len(clients') : k \in 1 .. Len(clients) \/ k = Len(clients) + 1
    BY <1>1, <2>1
  <2>3. \A k \in 1 .. Len(clients') :
          clients'[k] = c \/ \E j \in 1 .. Len(clients) : clients'[k] = clients[j]
    BY <1>1, <2>2
  <2>4. ASSUME NEW j \in 1 .. Len(clients'), NEW k \in 1 .. Len(backlog')
        PROVE  clients'[j] # backlog'[k]
    <3>1. PICK m \in 1 .. Len(backlog) : backlog'[k] = backlog[m]
      OBVIOUS
    <3>2. CASE clients'[j] = c
      BY <3>2
    <3>3. CASE \E i \in 1 .. Len(clients) : clients'[j] = clients[i]
      BY <3>1, <3>3 DEF Distinct
    <3> QED
      BY <2>3, <3>2, <3>3
  <2>5. \A k \in 1 .. Len(clients') : clients'[k] \in arrived'
    BY <2>3 DEF Distinct
  <2>6. \A k \in 1 .. Len(backlog') : backlog'[k] \in arrived'
    BY DEF Distinct
  <2> QED
    BY <1>1, <2>4, <2>5, <2>6 DEF Distinct, NoRepeats
<1>4. FdsMirrorClients' /\ FreshRevents'
  BY <1>1, Rechecked DEF RecheckPollFds
<1>5. PastInternal' /\ Acceptable'
  BY DEF PastInternal, Acceptable
<1> QED
  BY <1>2, <1>3, <1>4, <1>5

\* addClient.
LEMMA AddStep ==
    ASSUME PollInv, NEW c \in Clients, AddClient(c)
    PROVE  PollInv'
<1>1. /\ c \notin arrived
      /\ arrived' = arrived \cup {c}
      /\ clients' = Append(clients, c)
      /\ RecheckPollFds
      /\ UNCHANGED <<backlog, at, app>>
      /\ app \in {"idle", "listener"}
  BY DEF AddClient, MayCall, loopVars
<1>2. /\ \A k \in 1 .. Len(clients) : clients[k] # c
      /\ \A k \in 1 .. Len(backlog) : backlog[k] # c
  BY <1>1 DEF PollInv, Distinct
<1>3. backlog' \in Seq(Clients) /\ NoRepeats(backlog')
  BY <1>1 DEF PollInv, VectorsOK, Distinct, NoRepeats
<1>4. \A k \in 1 .. Len(backlog') :
          backlog'[k] # c /\ \E j \in 1 .. Len(backlog) : backlog'[k] = backlog[j]
  BY <1>1, <1>2
<1>5. /\ arrived \subseteq arrived' /\ c \in arrived'
      /\ UNCHANGED at
      /\ ((app \in {"idle", "listener"} /\ app' = app) \/ app' = "poll")
  BY <1>1
<1> QED
  BY <1>1, <1>2, <1>3, <1>4, <1>5, AppendStep

\* dispatchNewConnections moves the first connection that waits.
LEMMA AcceptStep ==
    ASSUME PollInv, Accept
    PROVE  PollInv'
<1> DEFINE c == Head(backlog)
<1>0. backlog # <<>>
  BY DEF PollInv, Acceptable, Accept
<1>1. /\ clients' = Append(clients, c)
      /\ backlog' = Tail(backlog)
      /\ RecheckPollFds
      /\ UNCHANGED <<arrived, at>>
      /\ app' = "poll"
  BY DEF Accept, loopVars
<1>2. /\ Len(backlog) \in Nat \ {0}
      /\ c = backlog[1]
      /\ c \in Clients
      /\ backlog' \in Seq(Clients)
      /\ Len(backlog') = Len(backlog) - 1
      /\ \A k \in 1 .. Len(backlog') : backlog'[k] = backlog[k + 1]
  BY <1>0, <1>1 DEF PollInv, VectorsOK
<1> HIDE DEF c
<1>3. \A k \in 1 .. Len(backlog') : k + 1 \in 1 .. Len(backlog) /\ k + 1 # 1
  BY <1>2
<1>4. 1 \in 1 .. Len(backlog)
  BY <1>2
<1>5. NoRepeats(backlog')
  BY <1>2, <1>3 DEF PollInv, Distinct, NoRepeats
<1>6. \A k \in 1 .. Len(backlog') :
          backlog'[k] # c /\ \E j \in 1 .. Len(backlog) : backlog'[k] = backlog[j]
  BY <1>2, <1>3, <1>4 DEF PollInv, Distinct, NoRepeats
<1>7. (\A k \in 1 .. Len(clients) : clients[k] # c) /\ c \in arrived
  BY <1>2, <1>4 DEF PollInv, Distinct
<1>8. arrived \subseteq arrived' /\ c \in arrived' /\ UNCHANGED at /\ app' = "poll"
  BY <1>1, <1>7
<1> QED
  BY <1>1, <1>2, <1>5, <1>6, <1>7, <1>8, AppendStep

\* removeClient.
LEMMA RemoveStep ==
    ASSUME PollInv, NEW c \in Clients, RemoveClient(c)
    PROVE  PollInv'
<1>1. /\ clients' \in Erased({c})
      /\ RecheckPollFds
      /\ UNCHANGED <<backlog, arrived, at>>
      /\ app \in {"idle", "listener"} /\ app' = app
  BY DEF RemoveClient, MayCall, kernelVars, loopVars
<1> QED
  BY <1>1, EraseStep

\* extractLoopFD rebuilds the descriptors of the same clients.
LEMMA ExtractStep ==
    ASSUME PollInv, ExtractLoopFD
    PROVE  PollInv'
<1>1. /\ UNCHANGED <<clients, backlog, arrived, at, app>>
      /\ app = "idle"
      /\ pollfds' = EntriesOf(clients')
  BY DEF ExtractLoopFD, kernelVars, loopVars
<1>2. VectorsOK'
  BY <1>1 DEF PollInv, VectorsOK
<1>3. Distinct'
  BY <1>1 DEF PollInv, Distinct, NoRepeats
<1>4. FdsMirrorClients' /\ FreshRevents'
  BY <1>1, <1>2, Rechecked DEF VectorsOK
<1>5. PastInternal' /\ Acceptable'
  BY <1>1 DEF PastInternal, Acceptable
<1> QED
  BY <1>2, <1>3, <1>4, <1>5 DEF PollInv

\* A client's descriptor is readable when something waits or it hung up; the
\* listening one, when a connection waits.
LEMMA ReadableFds ==
    ASSUME VectorsOK
    PROVE  /\ \A c \in Clients : Readable(c) => c \in unread \cup hungUp
           /\ Readable("listen") => backlog # <<>>
<1>1. \A c \in Clients : c \notin {"listen", "exit", "wakeup"}
  BY PollAssumption
<1>2. Members(clients) \subseteq Clients
  BY DEF VectorsOK, Members
<1> QED
  BY <1>1, <1>2 DEF Readable

\* dispatchPending's poll reports what is so.
LEMMA PollNowStep ==
    ASSUME PollInv, PollNow
    PROVE  PollInv'
<1>1. /\ UNCHANGED <<clients, backlog, arrived, unread, hungUp, at>>
      /\ app' = "polled"
  BY DEF PollNow, kernelVars, loopVars
<1>2. VectorsOK'
  BY <1>1 DEF PollInv, VectorsOK
<1>3. Distinct'
  BY <1>1 DEF PollInv, Distinct, NoRepeats
<1>4. Len(clients) \in Nat /\ internalFds \in Nat /\ internalFds > 0
  BY InternalType DEF PollInv, VectorsOK
<1>5. Len(pollfds) = internalFds + Len(clients)
  BY DEF PollInv, FdsMirrorClients
<1>6. /\ Len(pollfds') = Len(pollfds)
      /\ \A k \in 1 .. Len(pollfds) : pollfds'[k].fd = pollfds[k].fd
  BY <1>4, <1>5 DEF PollNow
<1>7. \A k \in 1 .. Len(pollfds) : pollfds'[k].pollin = Readable(pollfds[k].fd)
  BY <1>4, <1>5 DEF PollNow
<1>8. FdsMirrorClients'
  BY <1>1, <1>6 DEF PollInv, FdsMirrorClients
<1>9. FreshRevents'
  <2>1. ASSUME NEW k \in internalFds + 1 .. Len(pollfds), pollfds'[k].pollin
        PROVE  clients[k - internalFds] \in unread \cup hungUp
    <3>1. k \in 1 .. Len(pollfds) /\ k - internalFds \in 1 .. Len(clients)
      BY <1>4, <1>5
    <3>2. internalFds + (k - internalFds) = k
      BY <1>4
    <3>3. pollfds[k].fd = clients[k - internalFds] /\ clients[k - internalFds] \in Clients
      BY <3>1, <3>2, FdsOfClients DEF PollInv, VectorsOK, FdsMirrorClients
    <3>4. Readable(pollfds[k].fd)
      BY <1>7, <2>1, <3>1
    <3> QED
      BY <3>3, <3>4, ReadableFds DEF PollInv
  <2> QED
    BY <1>1, <1>6, <2>1 DEF FreshRevents
<1>10. PastInternal'
  BY <1>1 DEF PastInternal
<1>11. Acceptable'
  <2>1. ASSUME Listening, pollfds'[1].pollin
        PROVE  backlog # <<>>
    <3>1. 1 \in 1 .. Len(pollfds)
      BY <1>4, <1>5
    <3>2. pollfds[1].fd = FdsOf(clients)[1]
      BY <3>1 DEF PollInv, FdsMirrorClients
    <3>3. FdsOf(clients)[1] = "listen"
      BY <2>1 DEF FdsOf, Internal, PollInv, VectorsOK
    <3>4. Readable("listen")
      BY <1>7, <2>1, <3>1, <3>2, <3>3
    <3> QED
      BY <3>4, ReadableFds DEF PollInv
  <2> QED
    BY <1>1, <2>1 DEF Acceptable, NewConnection
<1> QED
  BY <1>2, <1>3, <1>8, <1>9, <1>10, <1>11 DEF PollInv

\* A step of the loop that leaves both vectors alone.
LEMMA LoopStep ==
    ASSUME PollInv, UNCHANGED <<clients, backlog, arrived, pollfds>>,
           at' \in Nat, app' # "polled", PastInternal', FreshRevents'
    PROVE  PollInv'
<1>1. VectorsOK'
  BY DEF PollInv, VectorsOK
<1>2. Distinct'
  BY DEF PollInv, Distinct, NoRepeats
<1>3. FdsMirrorClients'
  BY DEF PollInv, FdsMirrorClients
<1>4. Acceptable'
  BY DEF Acceptable
<1> QED
  BY <1>1, <1>2, <1>3, <1>4 DEF PollInv

\* The loop starts behind the internal descriptors.
LEMMA BeginServingStep ==
    ASSUME PollInv, BeginServing
    PROVE  PollInv'
<1>1. /\ UNCHANGED <<clients, backlog, arrived, unread, hungUp, pollfds>>
      /\ at' = internalFds + 1
      /\ app = "polled"
      /\ app' = "serve"
  BY DEF BeginServing, kernelVars, clientsVars
<1>2. at' \in Nat /\ PastInternal'
  BY <1>1, InternalType DEF PastInternal
<1>3. FreshRevents'
  BY <1>1 DEF PollInv, FreshRevents, Ahead
<1> QED
  BY <1>1, <1>2, <1>3, LoopStep

\* A descriptor without data is passed over, never back into the internal ones.
LEMMA SkipStep ==
    ASSUME PollInv, Skip
    PROVE  PollInv'
<1>1. /\ UNCHANGED <<clients, backlog, arrived, unread, hungUp, pollfds>>
      /\ at' = at + 1
      /\ app = "serve"
      /\ app' = "serve"
  BY DEF Skip, kernelVars, clientsVars
<1>2. at \in Nat /\ at > internalFds /\ internalFds \in Nat
  BY <1>1, InternalType DEF PollInv, VectorsOK, PastInternal
<1>3. at' \in Nat /\ PastInternal'
  BY <1>1, <1>2 DEF PastInternal
<1>4. FreshRevents'
  <2>1. \A k \in internalFds + 1 .. Len(pollfds) : k >= at + 1 => k >= at
    BY <1>2
  <2> QED
    BY <1>1, <2>1 DEF PollInv, FreshRevents, Ahead
<1> QED
  BY <1>1, <1>3, <1>4, LoopStep

\* The loop's position denotes a client, that of its descriptor.
LEMMA ServedType ==
    ASSUME PollInv, app \in {"serve", "listener", "judge"}, at <= Len(pollfds)
    PROVE  /\ at \in internalFds + 1 .. Len(pollfds)
           /\ at - internalFds \in 1 .. Len(clients)
<1>1. at \in Nat /\ Len(clients) \in Nat /\ internalFds \in Nat
  BY InternalType DEF PollInv, VectorsOK
<1>2. at > internalFds /\ Len(pollfds) = internalFds + Len(clients)
  BY DEF PollInv, PastInternal, FdsMirrorClients
<1> QED
  BY <1>1, <1>2

\* Reading what one client sent takes nothing from those still to be served.
LEMMA DispatchClientStep ==
    ASSUME PollInv, DispatchClient
    PROVE  PollInv'
<1>1. /\ UNCHANGED <<clients, backlog, arrived, hungUp, pollfds, at>>
      /\ unread' = unread \ {Served}
      /\ app = "serve"
      /\ app' = "listener"
      /\ at <= Len(pollfds)
  BY DEF DispatchClient
<1>2. at \in Nat /\ at - internalFds \in 1 .. Len(clients) /\ internalFds \in Nat
      /\ Len(clients) \in Nat /\ Len(pollfds) = internalFds + Len(clients)
  BY <1>1, ServedType, InternalType DEF PollInv, VectorsOK, FdsMirrorClients
<1>3. at' \in Nat /\ PastInternal'
  BY <1>1, <1>2, InternalType DEF PollInv, PastInternal
<1>4. ASSUME NEW k \in internalFds + 1 .. Len(pollfds), k > at, pollfds[k].pollin
      PROVE  clients[k - internalFds] \in unread' \cup hungUp
  <2>1. k >= at /\ k - internalFds \in 1 .. Len(clients) /\ k - internalFds # at - internalFds
    BY <1>2, <1>4
  <2>2. clients[k - internalFds] \in unread \cup hungUp
    BY <1>1, <1>4, <2>1 DEF PollInv, FreshRevents, Ahead
  <2>3. clients[k - internalFds] # Served
    BY <1>2, <2>1 DEF PollInv, Distinct, NoRepeats, Served
  <2> QED
    BY <1>1, <2>2, <2>3
<1>5. FreshRevents'
  BY <1>1, <1>4 DEF FreshRevents, Ahead
<1> QED
  BY <1>1, <1>3, <1>5, LoopStep

\* Going on to the hangup test moves no vector and no index.
LEMMA ListenersReturnStep ==
    ASSUME PollInv, ListenersReturn
    PROVE  PollInv'
<1>1. /\ UNCHANGED <<clients, backlog, arrived, unread, hungUp, pollfds, at>>
      /\ app = "listener"
      /\ app' = "judge"
  BY DEF ListenersReturn, kernelVars, clientsVars, loopVars
<1>2. at' \in Nat /\ PastInternal'
  BY <1>1 DEF PollInv, VectorsOK, PastInternal
<1>3. FreshRevents'
  BY <1>1 DEF PollInv, FreshRevents, Ahead
<1> QED
  BY <1>1, <1>2, <1>3, LoopStep

\* The hangup test moves to the next descriptor, or throws where it stands.
LEMMA JudgeStep ==
    ASSUME PollInv, Judge
    PROVE  PollInv'
<1>1. /\ UNCHANGED <<clients, backlog, arrived, unread, hungUp, pollfds>>
      /\ app = "judge"
      /\ \/ app' = "thrown" /\ at' = at
         \/ app' = "serve" /\ at' = at + 1
  BY DEF Judge, kernelVars
<1>2. at \in Nat /\ at > internalFds /\ internalFds \in Nat
  BY <1>1, InternalType DEF PollInv, VectorsOK, PastInternal
<1>3. at' \in Nat /\ PastInternal' /\ app' # "polled"
  BY <1>1, <1>2 DEF PastInternal
<1>4. FreshRevents'
  <2>1. \A k \in internalFds + 1 .. Len(pollfds) : k >= at + 1 => k > at
    BY <1>2
  <2> QED
    BY <1>1, <2>1 DEF PollInv, FreshRevents, Ahead
<1> QED
  BY <1>1, <1>3, <1>4, LoopStep

\* The end of the loop erases and rebuilds, or leaves the vectors alone.
LEMMA EndServingStep ==
    ASSUME PollInv, EndServing
    PROVE  PollInv'
<1>1. UNCHANGED <<backlog, arrived, unread, hungUp, at>> /\ app' \in {"poll", "finish", "clear"}
  BY DEF EndServing, kernelVars, loopVars
<1>2. CASE recheck
  BY <1>1, <1>2, EraseStep DEF EndServing
<1>3. CASE ~recheck
  BY <1>1, <1>3, AsideStep DEF EndServing, Aside
<1> QED
  BY <1>2, <1>3

\* The poll thread, the destructor, the pipes and writing clients stay aside.
LEMMA AsideSteps ==
    ASSUME \/ \E c \in Clients : ClientWrites(c) \/ ClientHangsUp(c)
           \/ BeginDispatch \/ Quit \/ ClearEventFd \/ ClearWakeupFd \/ Block \/ Finish
           \/ Destroying \/ PollThread \/ ThreadSeesClosed
           \/ UNCHANGED vars
    PROVE  Aside
<1> USE DEF Aside, kernelVars, clientsVars, loopVars
<1>1. ASSUME NEW c \in Clients, ClientWrites(c) \/ ClientHangsUp(c)
      PROVE  Aside
  BY <1>1 DEF ClientWrites, ClientHangsUp
<1>2. CASE BeginDispatch \/ Quit \/ ClearEventFd \/ ClearWakeupFd \/ Block \/ Finish
  BY <1>2 DEF BeginDispatch, Quit, ClearEventFd, ClearWakeupFd, Block, Finish
<1>3. CASE Destroying
  BY <1>3 DEF Destroying, QuitWakes, QuitNotifies, QuitJoins
<1>4. CASE PollThread \/ ThreadSeesClosed
  BY <1>4 DEF PollThread, ThreadLists, ThreadEnds, ThreadSees, ThreadSignals, ThreadChecks,
              ThreadFallsAsleep, ThreadTimesOut, ThreadSeesClosed, ThreadReturnsFromPoll
<1>5. CASE UNCHANGED vars
  BY <1>5 DEF vars
<1> QED
  BY <1>1, <1>2, <1>3, <1>4, <1>5

\* Every step keeps the invariant.
LEMMA InvStep == PollInv /\ [Next]_vars => PollInv'
<1> SUFFICES ASSUME PollInv, [Next]_vars PROVE PollInv'
  OBVIOUS
<1>1. CASE \/ \E c \in Clients : ClientWrites(c) \/ ClientHangsUp(c)
           \/ BeginDispatch \/ Quit \/ ClearEventFd \/ ClearWakeupFd \/ Block \/ Finish
           \/ Destroying \/ PollThread \/ ThreadSeesClosed
           \/ UNCHANGED vars
  BY <1>1, AsideSteps, AsideStep
<1>2. CASE \E c \in Clients : ClientConnects(c) \/ AddClient(c) \/ RemoveClient(c)
  BY <1>2, ConnectStep, AddStep, RemoveStep
<1>3. CASE ExtractLoopFD
  BY <1>3, ExtractStep
<1>4. CASE PollNow \/ Accept \/ BeginServing \/ Skip
  BY <1>4, PollNowStep, AcceptStep, BeginServingStep, SkipStep
<1>5. CASE DispatchClient \/ ListenersReturn \/ Judge \/ EndServing
  BY <1>5, DispatchClientStep, ListenersReturnStep, JudgeStep, EndServingStep
<1> QED
  BY <1>1, <1>2, <1>3, <1>4, <1>5 DEF Next, Peers, Application, Dispatching

\* In every reachable state the vectors agree, nobody is in them twice, and
\* what poll reported of the clients still to be served is so.
THEOREM PollInvariant == Spec => []PollInv
<1>1. Init => PollInv
  BY InvInit
<1>2. PollInv /\ [Next]_vars => PollInv'
  BY InvStep
<1> QED
  BY <1>1, <1>2, PTL DEF Spec

-----------------------------------------------------------------------------
(* What follows *)

\* m_pollfds mirrors m_clients in every state, for any number of clients and
\* whatever the application does: adding, removing, blocking, quitting, in its
\* loop or in listeners.
THEOREM Mirrored == Spec => []FdsMirrorClients
<1>1. PollInv => FdsMirrorClients
  BY DEF PollInv
<1> QED
  BY <1>1, PollInvariant, PTL

\* The client dispatchExistingConnections serves is one that has something to
\* read or hung up.
THEOREM RightClient == Spec => ServedHadEvents
<1>1. PollInv /\ [Next]_vars => [DispatchClient => Served \in unread \cup hungUp]_vars
  <2> SUFFICES ASSUME PollInv, DispatchClient
               PROVE  Served \in unread \cup hungUp
    OBVIOUS
  <2>1. app = "serve" /\ at <= Len(pollfds) /\ pollfds[at].pollin
    BY DEF DispatchClient
  <2>2. at \in internalFds + 1 .. Len(pollfds) /\ at \in Nat
    BY <2>1, ServedType DEF PollInv, VectorsOK
  <2>3. Ahead(at)
    BY <2>1, <2>2 DEF Ahead
  <2> QED
    BY <2>1, <2>2, <2>3 DEF PollInv, FreshRevents, Served
<1> QED
  BY <1>1, PollInvariant, PTL DEF Spec, ServedHadEvents

-----------------------------------------------------------------------------
(* No index is out of range *)

\* While a listener runs and after it the loop's position is still inside.
InRange ==
    /\ app \in {"listener", "judge"} => at <= Len(pollfds)
    /\ app # "thrown"

\* Every step keeps it when no listener removes a client.
LEMMA InRangeStep ==
    ASSUME "listenersRemove" \notin Habits, PollInv, PollInv', InRange, [Next]_vars
    PROVE  InRange'
<1> USE DEF InRange
<1>1. CASE Aside
  BY <1>1 DEF Aside
<1>2. ASSUME NEW c \in Clients, ClientConnects(c)
      PROVE  InRange'
  BY <1>2 DEF ClientConnects, clientsVars, loopVars
<1>3. ASSUME NEW c \in Clients, AddClient(c)
      PROVE  InRange'
  <2>1. clients' = Append(clients, c) /\ UNCHANGED <<app, at>>
    BY <1>3 DEF AddClient, loopVars
  <2>2. Len(clients) \in Nat /\ Len(clients') = Len(clients) + 1 /\ at \in Nat /\ internalFds \in Nat
    BY <2>1, InternalType DEF PollInv, VectorsOK
  <2>3. Len(pollfds) = internalFds + Len(clients) /\ Len(pollfds') = internalFds + Len(clients')
    BY DEF PollInv, FdsMirrorClients
  <2> QED
    BY <2>1, <2>2, <2>3
<1>4. ASSUME NEW c \in Clients, RemoveClient(c)
      PROVE  InRange'
  BY <1>4 DEF RemoveClient, MayCall
<1>5. CASE ExtractLoopFD
  BY <1>5 DEF ExtractLoopFD
<1>6. CASE PollNow \/ Accept \/ BeginServing \/ Skip \/ EndServing
  BY <1>6 DEF PollNow, Accept, BeginServing, Skip, EndServing
<1>7. CASE DispatchClient
  BY <1>7 DEF DispatchClient
<1>8. CASE ListenersReturn
  BY <1>8 DEF ListenersReturn, clientsVars, loopVars
<1>9. CASE Judge
  <2>1. app = "judge"
    BY <1>9 DEF Judge
  <2>2. at <= Len(pollfds) /\ at \in Nat /\ Len(pollfds) \in Nat
    BY <2>1, InternalType DEF PollInv, VectorsOK, FdsMirrorClients
  <2> QED
    BY <1>9, <2>2 DEF Judge
<1> QED
  BY <1>1, <1>2, <1>3, <1>4, <1>5, <1>6, <1>7, <1>8, <1>9, AsideSteps
     DEF Next, Peers, Application, Dispatching

\* When no listener calls removeClient, dispatchEvents never indexes past the
\* end of a vector: listeners may add clients, and the application may remove
\* them between dispatches.
THEOREM NoThrow ==
    ASSUME "listenersRemove" \notin Habits
    PROVE  Spec => []NeverThrows
<1>1. Init => InRange
  BY DEF Init, InRange
<1>2. PollInv /\ PollInv' /\ InRange /\ [Next]_vars => InRange'
  BY InRangeStep
<1>3. InRange => NeverThrows
  BY DEF InRange, NeverThrows
<1> QED
  BY <1>1, <1>2, <1>3, PollInvariant, PTL DEF Spec

-----------------------------------------------------------------------------
(* Type correctness, cut in three: the Boolean variables, the others, and  *)
(* the descriptors, whose number the number of clients bounds.             *)

FlagsOK ==
    /\ wakeup \in BOOLEAN
    /\ signalled \in BOOLEAN
    /\ exit \in BOOLEAN
    /\ canPoll \in BOOLEAN
    /\ pollEvent \in BOOLEAN
    /\ hadAny \in BOOLEAN
    /\ recheck \in BOOLEAN

PlacesOK ==
    /\ app \in {"idle", "finish", "thrown", "gone"} \cup Locked \cup Quitting
    /\ blocking \in {"no", "yes", "over"}
    /\ thread \in {"none", "top", "poll", "signal", "check", "doze", "sleep", "done"}

SetsOK ==
    /\ arrived \subseteq Clients
    /\ unread \subseteq arrived
    /\ hungUp \subseteq arrived
    /\ erred \subseteq Clients
    /\ polled \subseteq Fds

TypeInv == PollInv /\ FlagsOK /\ PlacesOK /\ SetsOK /\ pollfds \in Seq(Pollfd)

\* A vector that repeats nobody is no longer than there are clients.
LEMMA LengthBound ==
    ASSUME NEW s \in Seq(Clients), NoRepeats(s)
    PROVE  Len(s) <= Cardinality(Clients)
<1>1. Len(s) \in Nat /\ Cardinality(Clients) \in Nat
  BY PollAssumption, FS_CardinalityType
<1>2. IsFiniteSet(1 .. Len(s)) /\ Cardinality(1 .. Len(s)) = Len(s)
  <2>1. 1 \in Int /\ Len(s) \in Int
    BY <1>1
  <2>2. /\ IsFiniteSet(1 .. Len(s))
        /\ Cardinality(1 .. Len(s)) = IF 1 > Len(s) THEN 0 ELSE Len(s) - 1 + 1
    BY <2>1, FS_Interval
  <2> QED
    BY <1>1, <2>2
<1>3. s \in [1 .. Len(s) -> Clients]
  OBVIOUS
<1>4. ~(Cardinality(Clients) < Cardinality(1 .. Len(s)))
  <2> SUFFICES ASSUME Cardinality(Clients) < Cardinality(1 .. Len(s))
               PROVE  FALSE
    OBVIOUS
  <2>1. \E x, y \in 1 .. Len(s) : x # y /\ s[x] = s[y]
    BY <1>2, <1>3, PollAssumption, FS_PigeonHole
  <2> QED
    BY <2>1 DEF NoRepeats
<1> QED
  BY <1>1, <1>2, <1>4

\* The parts give the type invariant.
LEMMA TypeParts == TypeInv => TypeOK
<1> SUFFICES ASSUME TypeInv PROVE TypeOK
  OBVIOUS
<1>1. Len(pollfds) <= Len(Internal) + Cardinality(Clients)
  <2>1. Len(pollfds) = internalFds + Len(clients)
    BY DEF TypeInv, PollInv, FdsMirrorClients
  <2>2. Len(clients) <= Cardinality(Clients)
    BY LengthBound DEF TypeInv, PollInv, VectorsOK, Distinct
  <2>3. Len(clients) \in Nat /\ Cardinality(Clients) \in Nat
    BY PollAssumption, FS_CardinalityType DEF TypeInv, PollInv, VectorsOK
  <2> QED
    BY <2>1, <2>2, <2>3, InternalType
<1> QED
  BY <1>1 DEF TypeInv, PollInv, VectorsOK, FlagsOK, PlacesOK, SetsOK, TypeOK

\* What recheckPollFds builds, and what poll fills in, are pollfds.
LEMMA EntriesType ==
    ASSUME NEW cs \in Seq(Clients)
    PROVE  EntriesOf(cs) \in Seq(Pollfd)
<1>1. Len(cs) \in Nat /\ Len(Internal) \in Nat /\ FdsOf(cs) \in Seq(Fds)
      /\ Len(FdsOf(cs)) = Len(Internal) + Len(cs)
  <2>1. Internal \in Seq({"listen", "exit", "wakeup"})
    BY InternalType
  <2>2. Internal \in Seq(Fds) /\ cs \in Seq(Fds)
    BY <2>1 DEF Fds
  <2> QED
    BY <2>2 DEF FdsOf
<1>2. \A k \in 1 .. Len(Internal) + Len(cs) : Entry(FdsOf(cs)[k]) \in Pollfd
  BY <1>1 DEF Entry, Pollfd
<1>3. EntriesOf(cs) \in [1 .. Len(Internal) + Len(cs) -> Pollfd]
  <2> HIDE DEF Pollfd
  <2> QED
    BY <1>2, Zenon DEF EntriesOf
<1>4. Len(Internal) + Len(cs) \in Nat
  BY <1>1
<1> QED
  BY <1>3, <1>4, FunctionIsSeq

\* So is what poll fills in.
LEMMA PolledType ==
    ASSUME pollfds \in Seq(Pollfd), PollNow
    PROVE  pollfds' \in Seq(Pollfd)
<1>1. Len(pollfds) \in Nat /\ \A k \in 1 .. Len(pollfds) : pollfds[k].fd \in Fds
  <2>1. Len(pollfds) \in Nat /\ \A k \in 1 .. Len(pollfds) : pollfds[k] \in Pollfd
    OBVIOUS
  <2> QED
    BY <2>1 DEF Pollfd
<1>2. \A k \in 1 .. Len(pollfds) :
        Readable(pollfds[k].fd) \in BOOLEAN /\ (pollfds[k].fd \in hungUp) \in BOOLEAN
  BY DEF Readable
<1>3. \A fd \in Fds, in \in BOOLEAN, hup \in BOOLEAN :
        [fd |-> fd, pollin |-> in, pollhup |-> hup] \in Pollfd
  BY DEF Pollfd
<1>4. \A k \in 1 .. Len(pollfds) :
        [fd |-> pollfds[k].fd, pollin |-> Readable(pollfds[k].fd),
         pollhup |-> pollfds[k].fd \in hungUp] \in Pollfd
  BY <1>1, <1>2, <1>3, Zenon
<1>5. pollfds' \in [1 .. Len(pollfds) -> Pollfd]
  BY <1>4, Zenon DEF PollNow
<1> QED
  BY <1>1, <1>5, FunctionIsSeq

\* No step makes a flag anything but a Boolean.
LEMMA FlagsStep ==
    ASSUME FlagsOK, [Next]_vars
    PROVE  FlagsOK'
<1> USE DEF FlagsOK, clientsVars, pipeVars, loopVars
<1>1. ASSUME NEW c \in Clients,
             ClientConnects(c) \/ ClientWrites(c) \/ ClientHangsUp(c) \/ AddClient(c) \/ RemoveClient(c)
      PROVE  FlagsOK'
  BY <1>1, Zenon DEF ClientConnects, ClientWrites, ClientHangsUp, AddClient, RemoveClient
<1>2. CASE BeginDispatch \/ ExtractLoopFD \/ Quit
  BY <1>2, Zenon DEF BeginDispatch, ExtractLoopFD, Quit
<1>3. CASE PollNow \/ Accept \/ BeginServing \/ Skip \/ DispatchClient \/ ListenersReturn
  BY <1>3, Zenon DEF PollNow, Accept, BeginServing, Skip, DispatchClient, ListenersReturn
<1>4. CASE Judge
  BY <1>4, Zenon DEF Judge
<1>5. CASE EndServing \/ ClearEventFd \/ ClearWakeupFd \/ Block \/ Finish
  BY <1>5, Zenon DEF EndServing, ClearEventFd, ClearWakeupFd, Block, Finish
<1>6. CASE Destroying
  BY <1>6, Zenon DEF Destroying, QuitWakes, QuitNotifies, QuitJoins
<1>7. CASE PollThread \/ ThreadSeesClosed
  BY <1>7, Zenon DEF PollThread, ThreadLists, ThreadEnds, ThreadSees, ThreadSignals, ThreadChecks,
              ThreadFallsAsleep, ThreadTimesOut, ThreadSeesClosed, ThreadReturnsFromPoll
<1>8. CASE UNCHANGED vars
  BY <1>8, Zenon DEF vars
<1> QED
  BY <1>1, <1>2, <1>3, <1>4, <1>5, <1>6, <1>7, <1>8 DEF Next, Peers, Application, Dispatching

\* No step leads the threads anywhere else.
LEMMA PlacesStep ==
    ASSUME PlacesOK, [Next]_vars
    PROVE  PlacesOK'
<1> USE DEF PlacesOK, Locked, Quitting, loopVars, threadVars
<1>1. ASSUME NEW c \in Clients,
             ClientConnects(c) \/ ClientWrites(c) \/ ClientHangsUp(c) \/ AddClient(c) \/ RemoveClient(c)
      PROVE  PlacesOK'
  BY <1>1 DEF ClientConnects, ClientWrites, ClientHangsUp, AddClient, RemoveClient
<1>2. CASE BeginDispatch \/ ExtractLoopFD \/ Quit
  BY <1>2 DEF BeginDispatch, ExtractLoopFD, Quit
<1>3. CASE PollNow \/ Accept \/ BeginServing \/ Skip \/ DispatchClient \/ ListenersReturn
  BY <1>3 DEF PollNow, Accept, BeginServing, Skip, DispatchClient, ListenersReturn
<1>4. CASE Judge \/ EndServing \/ ClearEventFd \/ ClearWakeupFd
  BY <1>4 DEF Judge, EndServing, ClearEventFd, ClearWakeupFd
<1>5. CASE Block \/ Finish
  BY <1>5 DEF Block, Finish, Notify
<1>6. CASE Destroying
  BY <1>6 DEF Destroying, QuitWakes, QuitNotifies, QuitJoins, Notify
<1>7. CASE PollThread \/ ThreadSeesClosed
  BY <1>7 DEF PollThread, ThreadLists, ThreadEnds, ThreadSees, ThreadSignals, ThreadChecks,
              ThreadFallsAsleep, ThreadTimesOut, ThreadSeesClosed, ThreadReturnsFromPoll
<1>8. CASE UNCHANGED vars
  BY <1>8 DEF vars
<1> QED
  BY <1>1, <1>2, <1>3, <1>4, <1>5, <1>6, <1>7, <1>8 DEF Next, Peers, Application, Dispatching

\* The client served is one of the server's.
LEMMA ServedIsClient ==
    ASSUME PollInv, app \in {"serve", "listener", "judge"}, at <= Len(pollfds)
    PROVE  Served \in Clients
BY ServedType, FdsOfClients DEF PollInv, VectorsOK, Served

\* The descriptors a thread lists are descriptors.
LEMMA ListedFds ==
    ASSUME VectorsOK
    PROVE  Members(FdsOf(clients)) \subseteq Fds
<1>1. Internal \in Seq({"listen", "exit", "wakeup"})
  BY InternalType
<1>2. Internal \in Seq(Fds) /\ clients \in Seq(Fds)
  BY <1>1 DEF Fds, VectorsOK
<1>3. FdsOf(clients) \in Seq(Fds)
  BY <1>2 DEF FdsOf
<1> QED
  BY <1>3 DEF Members

\* The kernel holds messages and hangups of clients that arrived only.
LEMMA SetsStep ==
    ASSUME PollInv, SetsOK, [Next]_vars
    PROVE  SetsOK'
<1> USE DEF SetsOK, kernelVars, clientsVars, threadVars
<1>1. ASSUME NEW c \in Clients, ClientWrites(c) \/ ClientHangsUp(c)
      PROVE  SetsOK'
  <2>1. c \in arrived
    BY <1>1 DEF PollInv, Distinct, Members, ClientWrites, ClientHangsUp
  <2> QED
    BY <1>1, <2>1 DEF ClientWrites, ClientHangsUp
<1>2. ASSUME NEW c \in Clients, ClientConnects(c) \/ AddClient(c) \/ RemoveClient(c)
      PROVE  SetsOK'
  BY <1>2 DEF ClientConnects, AddClient, RemoveClient
<1>3. CASE BeginDispatch \/ ExtractLoopFD \/ Quit
  BY <1>3 DEF BeginDispatch, ExtractLoopFD, Quit
<1>4. CASE PollNow \/ Accept \/ BeginServing \/ Skip \/ ListenersReturn
  BY <1>4 DEF PollNow, Accept, BeginServing, Skip, ListenersReturn
<1>5. CASE DispatchClient
  <2>1. Served \in Clients
    BY <1>5, ServedIsClient DEF DispatchClient
  <2> QED
    BY <1>5, <2>1 DEF DispatchClient
<1>6. CASE Judge
  <2>1. at <= Len(pollfds) => Served \in Clients
    BY <1>6, ServedIsClient DEF Judge
  <2>2. at \in Nat /\ Len(pollfds) \in Nat
    BY InternalType DEF PollInv, VectorsOK, FdsMirrorClients
  <2> QED
    BY <1>6, <2>1, <2>2 DEF Judge
<1>7. CASE EndServing \/ ClearEventFd \/ ClearWakeupFd \/ Block \/ Finish
  BY <1>7 DEF EndServing, ClearEventFd, ClearWakeupFd, Block, Finish
<1>8. CASE Destroying
  BY <1>8 DEF Destroying, QuitWakes, QuitNotifies, QuitJoins
<1>9. CASE PollThread \/ ThreadSeesClosed
  BY <1>9, ListedFds
     DEF PollInv, PollThread, ThreadLists, ThreadEnds, ThreadSees, ThreadSignals, ThreadChecks,
         ThreadFallsAsleep, ThreadTimesOut, ThreadSeesClosed, ThreadReturnsFromPoll
<1>10. CASE UNCHANGED vars
  BY <1>10 DEF vars
<1> QED
  BY <1>1, <1>2, <1>3, <1>4, <1>5, <1>6, <1>7, <1>8, <1>9, <1>10
     DEF Next, Peers, Application, Dispatching

\* Only recheckPollFds, extractLoopFD and poll change the descriptors.
LEMMA PollfdsStep ==
    ASSUME PollInv, PollInv', pollfds \in Seq(Pollfd), [Next]_vars
    PROVE  pollfds' \in Seq(Pollfd)
<1>1. EntriesOf(clients') \in Seq(Pollfd)
  BY EntriesType DEF PollInv, VectorsOK
<1>2. CASE PollNow
  BY <1>2, PolledType
<1>3. CASE UNCHANGED pollfds
  BY <1>3
<1>4. CASE pollfds' = EntriesOf(clients')
  BY <1>1, <1>4
<1>5. UNCHANGED pollfds \/ pollfds' = EntriesOf(clients') \/ PollNow
  <2>1. CASE Aside
    BY <2>1 DEF Aside
  <2>2. ASSUME NEW c \in Clients, ClientConnects(c) \/ AddClient(c) \/ RemoveClient(c)
        PROVE  UNCHANGED pollfds \/ pollfds' = EntriesOf(clients')
    BY <2>2 DEF ClientConnects, AddClient, RemoveClient, RecheckPollFds, clientsVars
  <2>3. CASE ExtractLoopFD
    BY <2>3 DEF ExtractLoopFD
  <2>4. CASE Accept \/ BeginServing \/ Skip \/ DispatchClient \/ ListenersReturn \/ Judge \/ EndServing
    BY <2>4 DEF Accept, BeginServing, Skip, DispatchClient, ListenersReturn, Judge, EndServing,
                RecheckPollFds, clientsVars
  <2> QED
    BY <2>1, <2>2, <2>3, <2>4, AsideSteps DEF Next, Peers, Application, Dispatching
<1> QED
  BY <1>2, <1>3, <1>4, <1>5

\* Every variable of the server socket keeps its type; in particular there is
\* never a descriptor more than clients and internal pipes, although every
\* recheckPollFds fills the vector anew.
THEOREM PollTypeCorrect == Spec => []TypeOK
<1>1. Init => TypeInv
  <2> SUFFICES ASSUME Init PROVE TypeInv
    OBVIOUS
  <2>1. FlagsOK
    BY Zenon DEF Init, FlagsOK
  <2>2. PlacesOK /\ SetsOK
    BY DEF Init, PlacesOK, SetsOK
  <2>3. pollfds \in Seq(Pollfd)
    <3>1. <<>> \in Seq(Clients)
      OBVIOUS
    <3> QED
      BY <3>1, EntriesType DEF Init
  <2> QED
    BY <2>1, <2>2, <2>3, InvInit DEF TypeInv
<1>2. TypeInv /\ [Next]_vars => TypeInv'
  BY InvStep, FlagsStep, PlacesStep, SetsStep, PollfdsStep DEF TypeInv
<1>3. TypeInv => TypeOK
  BY TypeParts
<1> QED
  BY <1>1, <1>2, <1>3, PTL DEF Spec

-----------------------------------------------------------------------------
(* Clients that erred are dropped *)

\* A client with an error is on the list only while the loop that met it goes
\* on: it is the one being served, or the loop is to end with erasing.
ErredKnown ==
    /\ erred \subseteq arrived
    /\ \A k \in 1 .. Len(backlog) : backlog[k] \notin erred
    /\ \A k \in 1 .. Len(clients) : clients[k] \in erred =>
         \/ app \in {"serve", "listener", "judge"} /\ recheck
         \/ app \in {"listener", "judge"} /\ k = at - internalFds

\* The steps beside the loop hold nothing against a client, and do not leave
\* the loop.
LEMMA AsideBlamesNobody ==
    ASSUME \/ \E c \in Clients : ClientWrites(c) \/ ClientHangsUp(c)
           \/ BeginDispatch \/ Quit \/ ClearEventFd \/ ClearWakeupFd \/ Block \/ Finish
           \/ Destroying \/ PollThread \/ ThreadSeesClosed
           \/ UNCHANGED vars
    PROVE  /\ UNCHANGED <<clients, backlog, arrived, erred, at, recheck>>
           /\ app' = app \/ app \notin {"serve", "listener", "judge"}
<1> USE DEF kernelVars, clientsVars, loopVars
<1> DEFINE Goal == /\ UNCHANGED <<clients, backlog, arrived, erred, at, recheck>>
                   /\ app' = app \/ app \notin {"serve", "listener", "judge"}
<1> SUFFICES Goal
  OBVIOUS
<1>1. ASSUME NEW c \in Clients, ClientWrites(c) \/ ClientHangsUp(c)
      PROVE  Goal
  BY <1>1 DEF ClientWrites, ClientHangsUp
<1>2. CASE BeginDispatch \/ Quit \/ ClearEventFd \/ ClearWakeupFd \/ Block \/ Finish
  BY <1>2 DEF BeginDispatch, Quit, ClearEventFd, ClearWakeupFd, Block, Finish
<1>3. CASE Destroying
  BY <1>3 DEF Destroying, QuitWakes, QuitNotifies, QuitJoins
<1>4. CASE PollThread \/ ThreadSeesClosed
  BY <1>4 DEF PollThread, ThreadLists, ThreadEnds, ThreadSees, ThreadSignals, ThreadChecks,
              ThreadFallsAsleep, ThreadTimesOut, ThreadSeesClosed, ThreadReturnsFromPoll
<1>5. CASE UNCHANGED vars
  BY <1>5 DEF vars
<1> HIDE DEF Goal
<1> QED
  BY <1>1, <1>2, <1>3, <1>4, <1>5

\* Coming and going clients bring and leave no error behind.
LEMMA ErredComeAndGo ==
    ASSUME "listenersRemove" \notin Habits, PollInv, ErredKnown,
           \/ \E c \in Clients : ClientConnects(c) \/ AddClient(c) \/ RemoveClient(c)
           \/ Accept
    PROVE  ErredKnown'
<1> USE DEF ErredKnown, clientsVars, loopVars
<1> /\ clients \in Seq(Clients)
    /\ backlog \in Seq(Clients)
    /\ NoRepeats(clients)
  BY DEF PollInv, VectorsOK, Distinct
<1>1. ASSUME NEW c \in Clients, ClientConnects(c)
      PROVE  ErredKnown'
  BY <1>1 DEF ClientConnects
<1>2. ASSUME NEW c \in Clients, AddClient(c)
      PROVE  ErredKnown'
  <2>1. /\ clients' = Append(clients, c)
        /\ UNCHANGED <<app, at, recheck, erred, backlog>>
        /\ arrived' = arrived \cup {c}
        /\ c \notin erred
    BY <1>2 DEF AddClient
  <2> QED
    BY <2>1
<1>3. ASSUME NEW c \in Clients, RemoveClient(c)
      PROVE  ErredKnown'
  <2>1. /\ clients' \in Erased({c})
        /\ app = "idle"
        /\ UNCHANGED <<app, erred, backlog, arrived>>
    BY <1>3 DEF RemoveClient, MayCall, kernelVars
  <2>2. \A k \in 1 .. Len(clients') : \E j \in 1 .. Len(clients) : clients'[k] = clients[j]
    BY <2>1, ErasedKeeps
  <2> QED
    BY <2>1, <2>2
<1>4. CASE Accept
  <2>1. /\ clients' = Append(clients, Head(backlog))
        /\ backlog' = Tail(backlog)
        /\ backlog # <<>>
        /\ app = "polled"
        /\ app' = "poll"
        /\ UNCHANGED <<erred, arrived>>
    BY <1>4 DEF Accept, PollInv, Acceptable
  <2>2. Head(backlog) = backlog[1] /\ 1 \in 1 .. Len(backlog)
    BY <2>1
  <2>3. \A k \in 1 .. Len(backlog') : \E j \in 1 .. Len(backlog) : backlog'[k] = backlog[j]
    <3>1. Len(backlog') = Len(backlog) - 1 /\ Len(backlog) \in Nat
      BY <2>1
    <3>2. \A k \in 1 .. Len(backlog') : backlog'[k] = backlog[k + 1] /\ k + 1 \in 1 .. Len(backlog)
      BY <2>1, <3>1
    <3> QED
      BY <3>2
  <2> QED
    BY <2>1, <2>2, <2>3
<1> QED
  BY <1>1, <1>2, <1>3, <1>4

\* The loop keeps the invariant: who erred is the one served, and then the
\* loop ends with erasing.
LEMMA ErredLoop ==
    ASSUME PollInv, InRange, ErredKnown,
           PollNow \/ BeginServing \/ Skip \/ DispatchClient \/ ListenersReturn \/ Judge \/ EndServing
    PROVE  ErredKnown'
<1> USE DEF ErredKnown, kernelVars, clientsVars, loopVars
<1> /\ clients \in Seq(Clients)
    /\ NoRepeats(clients)
    /\ \A j \in 1 .. Len(clients), k \in 1 .. Len(backlog) : clients[j] # backlog[k]
    /\ \A k \in 1 .. Len(clients) : clients[k] \in arrived
  BY DEF PollInv, VectorsOK, Distinct
<1>1. CASE PollNow
  BY <1>1 DEF PollNow
<1>2. CASE BeginServing
  BY <1>2 DEF BeginServing
<1>3. CASE Skip
  BY <1>3 DEF Skip
<1>4. CASE ListenersReturn
  BY <1>4 DEF ListenersReturn
<1>5. CASE DispatchClient
  <2>1. /\ app = "serve"
        /\ app' = "listener"
        /\ at <= Len(pollfds)
        /\ UNCHANGED <<clients, backlog, arrived, at, recheck>>
        /\ erred' = erred \/ erred' = erred \cup {Served}
    BY <1>5 DEF DispatchClient
  <2>2. at - internalFds \in 1 .. Len(clients)
    BY <2>1, ServedType
  <2>3. \A k \in 1 .. Len(clients) : clients[k] = Served => k = at - internalFds
    BY <2>2 DEF NoRepeats, Served
  <2>4. Served \in arrived /\ \A k \in 1 .. Len(backlog) : backlog[k] # Served
    BY <2>2 DEF Served
  <2> QED
    BY <2>1, <2>3, <2>4
<1>6. CASE Judge
  <2>1. at \in Nat /\ Len(pollfds) \in Nat
    BY InternalType DEF PollInv, VectorsOK, FdsMirrorClients
  <2>2. /\ app = "judge"
        /\ app' = "serve"
        /\ at <= Len(pollfds)
        /\ UNCHANGED <<clients, backlog, arrived>>
        /\ erred' = erred \/ erred' = erred \cup {Served}
        /\ recheck' = (recheck \/ Served \in erred')
    BY <1>6, <2>1 DEF Judge, InRange
  <2>3. at - internalFds \in 1 .. Len(clients)
    BY <2>2, ServedType
  <2>4. Served \in arrived /\ \A k \in 1 .. Len(backlog) : backlog[k] # Served
    BY <2>3 DEF Served
  <2>5. \A k \in 1 .. Len(clients) : clients[k] \in erred' => recheck'
    BY <2>2 DEF Served
  <2> QED
    BY <2>2, <2>4, <2>5
<1>7. CASE EndServing
  <2>1. /\ app = "serve"
        /\ IF recheck THEN clients' \in Erased(erred) ELSE UNCHANGED clients
        /\ UNCHANGED <<erred, backlog, arrived>>
    BY <1>7 DEF EndServing
  <2>2. recheck => \A k \in 1 .. Len(clients') : clients'[k] \notin erred
    BY <2>1, ErasedKeeps
  <2> QED
    BY <2>1, <2>2
<1> QED
  BY <1>1, <1>2, <1>3, <1>4, <1>5, <1>6, <1>7

\* When no listener calls removeClient, a client that erred is off the list by
\* the time dispatchEvents returns.
THEOREM ErredDropped ==
    ASSUME "listenersRemove" \notin Habits
    PROVE  Spec => []ErredAreDropped
<1>1. Init => InRange /\ ErredKnown
  BY DEF Init, InRange, ErredKnown
<1>2. PollInv /\ PollInv' /\ (InRange /\ ErredKnown) /\ [Next]_vars => (InRange /\ ErredKnown)'
  <2> SUFFICES ASSUME PollInv, PollInv', InRange, ErredKnown, [Next]_vars
               PROVE  InRange' /\ ErredKnown'
    OBVIOUS
  <2>1. InRange'
    BY InRangeStep
  <2>2. CASE \/ \E c \in Clients : ClientWrites(c) \/ ClientHangsUp(c)
             \/ BeginDispatch \/ Quit \/ ClearEventFd \/ ClearWakeupFd \/ Block \/ Finish
             \/ Destroying \/ PollThread \/ ThreadSeesClosed
             \/ UNCHANGED vars
    BY <2>1, <2>2, AsideBlamesNobody DEF ErredKnown
  <2>3. CASE ExtractLoopFD
    BY <2>1, <2>3 DEF ExtractLoopFD, ErredKnown, kernelVars, loopVars
  <2> QED
    BY <2>1, <2>2, <2>3, ErredComeAndGo, ErredLoop DEF Next, Peers, Application, Dispatching
<1>3. ErredKnown => ErredAreDropped
  BY DEF ErredKnown, ErredAreDropped
<1> QED
  BY <1>1, <1>2, <1>3, PollInvariant, PTL DEF Spec

-----------------------------------------------------------------------------
(* Waking up *)

\* The application dispatches or is about to.
Busy == app \in Locked \cup {"finish"} \/ (app = "idle" /\ signalled)

\* Then the poll thread waits until it is done.
ThreadHeld == Busy => thread \in {"check", "doze", "sleep"} /\ pollEvent

\* The signal is taken back before the dispatch is over.
Cleared ==
    \/ app \in {"clearWakeup", "block", "finish"}
    \/ app \in Locked /\ blocking = "over"
    => ~signalled

\* While the application waits, the poll thread watches the internal
\* descriptors and every client the wakeup pipe has not told it of.
PollWatches ==
    app = "idle" /\ thread = "poll" =>
        /\ "wakeup" \in polled
        /\ Listening => "listen" \in polled
        /\ \A k \in 1 .. Len(clients) : clients[k] \in polled \/ wakeup

\* Connections come only to a socket that listens.
OnlyToListeners == backlog # <<>> => Listening

WakeInv == ThreadHeld /\ Cleared /\ PollWatches /\ OnlyToListeners

\* What the thread lists is all there is.
LEMMA ListsAll ==
    ASSUME clients \in Seq(Clients)
    PROVE  /\ "wakeup" \in Members(FdsOf(clients))
           /\ Listening => "listen" \in Members(FdsOf(clients))
           /\ \A k \in 1 .. Len(clients) : clients[k] \in Members(FdsOf(clients))
<1>1. Len(clients) \in Nat
  BY FdsOfClients
<1>2. Internal \in Seq(Fds) /\ clients \in Seq(Fds)
  <2>1. Internal \in Seq({"listen", "exit", "wakeup"})
    BY InternalType
  <2> QED
    BY <2>1 DEF Fds
<1>3. /\ Len(FdsOf(clients)) = internalFds + Len(clients)
      /\ \A k \in 1 .. internalFds : FdsOf(clients)[k] = Internal[k]
  BY <1>1, <1>2, InternalType DEF FdsOf
<1>4. /\ \E k \in 1 .. internalFds : Internal[k] = "wakeup"
      /\ Listening => \E k \in 1 .. internalFds : Internal[k] = "listen"
  <2>1. CASE Listening
    <3>1. Internal = <<"listen">> \o <<"exit", "wakeup">>
      BY <2>1 DEF Internal
    <3>2. internalFds = 3 /\ Internal[1] = "listen" /\ Internal[3] = "wakeup"
      BY <3>1 DEF internalFds
    <3> QED
      BY <3>2
  <2>2. CASE ~Listening
    <3>1. Internal = <<>> \o <<"exit", "wakeup">>
      BY <2>2 DEF Internal
    <3>2. internalFds = 2 /\ Internal[2] = "wakeup"
      BY <3>1 DEF internalFds
    <3> QED
      BY <2>2, <3>2
  <2> QED
    BY <2>1, <2>2
<1>5. ASSUME NEW k \in 1 .. internalFds
      PROVE  Internal[k] \in Members(FdsOf(clients))
  BY <1>1, <1>3, InternalType DEF Members
<1>6. ASSUME NEW k \in 1 .. Len(clients)
      PROVE  clients[k] \in Members(FdsOf(clients))
  <2>1. internalFds + k \in 1 .. Len(FdsOf(clients)) /\ FdsOf(clients)[internalFds + k] = clients[k]
    BY <1>1, <1>3, InternalType, FdsOfClients
  <2> QED
    BY <2>1 DEF Members
<1> QED
  BY <1>4, <1>5, <1>6

\* Every step of the application's thread keeps the invariant, if it dispatches
\* only when it is signalled.
LEMMA AppWakes ==
    ASSUME "eager" \notin Habits, PollInv, WakeInv, Application \/ Dispatching \/ Destroying
    PROVE  WakeInv'
<1> USE DEF WakeInv, ThreadHeld, Busy, Cleared, PollWatches, OnlyToListeners,
            Locked, kernelVars, clientsVars, pipeVars, loopVars, threadVars
<1> clients \in Seq(Clients) /\ NoRepeats(clients)
  BY DEF PollInv, VectorsOK, Distinct
<1>1. ASSUME NEW c \in Clients, AddClient(c)
      PROVE  WakeInv'
  BY <1>1 DEF AddClient
<1>2. ASSUME NEW c \in Clients, RemoveClient(c)
      PROVE  WakeInv'
  <2>1. clients' \in Erased({c})
    BY <1>2 DEF RemoveClient
  <2>2. \A k \in 1 .. Len(clients') : \E j \in 1 .. Len(clients) : clients'[k] = clients[j]
    BY <2>1, ErasedKeeps
  <2>3. UNCHANGED <<backlog, app, blocking, signalled, thread, pollEvent, polled, wakeup>>
    BY <1>2 DEF RemoveClient
  <2> QED
    BY <2>2, <2>3
<1>3. CASE BeginDispatch
  BY <1>3 DEF BeginDispatch
<1>4. CASE ExtractLoopFD \/ Quit
  BY <1>4 DEF ExtractLoopFD, Quit
<1>5. CASE PollNow \/ BeginServing \/ Skip \/ DispatchClient \/ ListenersReturn
  BY <1>5 DEF PollNow, BeginServing, Skip, DispatchClient, ListenersReturn
<1>6. CASE Judge \/ EndServing
  BY <1>6 DEF Judge, EndServing
<1>7. CASE Accept
  BY <1>7 DEF Accept, NewConnection
<1>8. CASE ClearEventFd \/ ClearWakeupFd \/ Block
  BY <1>8 DEF ClearEventFd, ClearWakeupFd, Block
<1>9. CASE Finish
  BY <1>9 DEF Finish, Notify
<1>10. CASE Destroying
  BY <1>10 DEF Destroying, QuitWakes, QuitNotifies, QuitJoins
<1> QED
  BY <1>1, <1>2, <1>3, <1>4, <1>5, <1>6, <1>7, <1>8, <1>9, <1>10 DEF Application, Dispatching

\* So does every step of the poll thread's, if five seconds are never too short,
\* and of the clients'.
LEMMA OthersWake ==
    ASSUME "slow" \notin Habits, PollInv, WakeInv,
           PollThread \/ ThreadSeesClosed \/ Peers \/ UNCHANGED vars
    PROVE  WakeInv'
<1> USE DEF WakeInv, ThreadHeld, Busy, Cleared, PollWatches, OnlyToListeners,
            Locked, kernelVars, clientsVars, pipeVars, loopVars
<1>1. CASE ThreadLists
  <2>1. /\ polled' = Members(FdsOf(clients))
        /\ UNCHANGED <<clients, backlog, app, blocking, signalled, pollEvent, wakeup>>
        /\ thread = "top"
        /\ thread' = "poll"
    BY <1>1 DEF ThreadLists
  <2> QED
    BY <2>1, ListsAll DEF PollInv, VectorsOK
<1>2. CASE ThreadEnds \/ ThreadSees \/ ThreadSeesClosed
  BY <1>2 DEF ThreadEnds, ThreadSees, ThreadSeesClosed, ThreadReturnsFromPoll
<1>3. CASE ThreadSignals
  BY <1>3 DEF ThreadSignals
<1>4. CASE ThreadChecks \/ ThreadFallsAsleep \/ ThreadTimesOut
  BY <1>4 DEF ThreadChecks, ThreadFallsAsleep, ThreadTimesOut
<1>5. ASSUME NEW c \in Clients, ClientConnects(c) \/ ClientWrites(c) \/ ClientHangsUp(c)
      PROVE  WakeInv'
  BY <1>5 DEF ClientConnects, ClientWrites, ClientHangsUp, threadVars
<1>6. CASE UNCHANGED vars
  BY <1>6 DEF vars, threadVars
<1> QED
  BY <1>1, <1>2, <1>3, <1>4, <1>5, <1>6 DEF PollThread, Peers

\* An application that dispatches when it is signalled, and within five seconds,
\* misses nothing: whatever there is to read while it waits, the poll thread's
\* poll sees, however clients come and go in the loop and in listeners.
THEOREM WakeupsReach ==
    ASSUME Habits \cap {"eager", "slow"} = {}
    PROVE  Spec => []NoMissedWakeup
<1>1. Init => WakeInv
  BY DEF Init, WakeInv, ThreadHeld, Busy, Locked, Cleared, PollWatches, OnlyToListeners
<1>2. PollInv /\ WakeInv /\ [Next]_vars => WakeInv'
  BY AppWakes, OthersWake DEF Next
<1>3. PollInv /\ WakeInv => NoMissedWakeup
  <2> SUFFICES ASSUME PollInv, WakeInv, app = "idle", thread = "poll",
                      NEW fd \in Watched, Readable(fd)
               PROVE  \E w \in polled : Readable(w)
    BY DEF NoMissedWakeup
  <2>1. /\ "wakeup" \in polled
        /\ Listening => "listen" \in polled
        /\ \A k \in 1 .. Len(clients) : clients[k] \in polled \/ wakeup
        /\ backlog # <<>> => Listening
    BY DEF WakeInv, PollWatches, OnlyToListeners
  <2>2. wakeup => Readable("wakeup")
    BY DEF Readable
  <2>3. CASE fd = "listen"
    <3>1. backlog # <<>>
      <4>1. "listen" \notin Members(clients)
        BY PollAssumption DEF PollInv, VectorsOK, Members
      <4> QED
        BY <2>3, <4>1 DEF Readable
    <3> QED
      BY <2>1, <2>3, <3>1
  <2>4. CASE fd \in Members(clients)
    BY <2>1, <2>2, <2>4 DEF Members
  <2> QED
    BY <2>3, <2>4 DEF Watched
<1> QED
  BY <1>1, <1>2, <1>3, PollInvariant, PTL DEF Spec
=============================================================================
