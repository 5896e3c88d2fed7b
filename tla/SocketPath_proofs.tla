-------------------------- MODULE SocketPath_proofs --------------------------
(***************************************************************************)
(* Theorems about the path of a server's socket, for any number of servers *)
(* that start, stop and crash around it.                                   *)
(***************************************************************************)
EXTENDS SocketPath, TLAPS

\* While no two servers have been at it at the same time: one at most starts
\* or stops, a server has the file from bind to the destructor's end, and who
\* is about to remove or to bind takes it from nobody.
Orderly ==
    /\ \A s, t \in Servers : Busy(s) /\ Busy(t) => s = t
    /\ \A s \in Servers : at[s] \in {"listen", "serving", "unlink"} => file = s
    /\ \A s \in Servers : at[s] = "remove" => \A t \in Servers : ~Listening(t)
    /\ \A s \in Servers : at[s] = "bind" => file = NoFile

\* A server nobody disturbed still sees what it saw when it looked.
SeesStill ==
    \A s \in Servers : alone[s] => /\ at[s] = "connect" => file # NoFile
                                   /\ at[s] = "bind" => file = NoFile

\* A client that has begun has seen a gap, or a server is there.
GapSeen == client # "off" /\ ~gap => \E t \in Servers : Listening(t)

-----------------------------------------------------------------------------
\* Each server's step keeps the type invariant, and so does each client's.
LEMMA TypeStep == TypeOK /\ [Next]_vars => TypeOK'
<1> SUFFICES ASSUME TypeOK, [Next]_vars PROVE TypeOK'
  OBVIOUS
<1> USE DEF TypeOK
<1>1. ASSUME NEW s \in Servers, Server(s) PROVE TypeOK'
  <2>1. CASE Start(s) \/ Stop(s)
    BY <2>1 DEF Start, Stop, Begins
  <2>2. CASE Connect(s) \/ Remove(s) \/ Bind(s) \/ Listen(s) \/ Unlink(s) \/ Crash(s)
    BY <2>2 DEF Connect, Remove, Bind, Listen, Unlink, Crash, Goes
  <2> QED
    BY <1>1, <2>1, <2>2 DEF Server
<1>2. CASE ClientLooks \/ ClientConnects
  BY <1>2 DEF ClientLooks, ClientConnects
<1>3. CASE UNCHANGED vars
  BY <1>3 DEF vars
<1> QED
  BY <1>1, <1>2, <1>3 DEF Next

\* Every variable always has its type.
THEOREM TypeCorrect == Spec => []TypeOK
<1>1. Init => TypeOK
  BY DEF Init, TypeOK
<1> QED
  BY <1>1, TypeStep, PTL DEF Spec

-----------------------------------------------------------------------------
\* A server that begins while another is at it has raced; one that begins
\* alone leaves everything in order.
LEMMA BeginsInOrder ==
    ASSUME TypeOK, ~raced => Orderly, NEW s \in Servers, Start(s) \/ Stop(s)
    PROVE  ~raced' => Orderly'
<1> SUFFICES ASSUME ~raced' PROVE Orderly'
  OBVIOUS
<1>1. ~raced /\ (\A t \in Servers \ {s} : ~Busy(t)) /\ file' = file
  BY DEF Start, Stop, Begins, TypeOK
<1>2. Orderly
  BY <1>1
<1>3. \A t \in Servers \ {s} : at'[t] = at[t]
  BY DEF Start, Stop, Begins, TypeOK
<1>4. CASE Start(s)
  <2>1. at'[s] = IF file = NoFile THEN "bind" ELSE "connect"
    BY <1>4 DEF Start, Begins, TypeOK
  <2> QED
    BY <1>1, <1>2, <1>3, <2>1 DEF Orderly, Busy, Listening
<1>5. CASE Stop(s)
  <2>1. at'[s] = "unlink" /\ at[s] = "serving"
    BY <1>5 DEF Stop, Begins, TypeOK
  <2> QED
    BY <1>1, <1>2, <1>3, <2>1 DEF Orderly, Busy, Listening
<1> QED
  BY <1>4, <1>5

\* The steps between keep the order.
LEMMA GoesInOrder ==
    ASSUME PathAssumption, TypeOK, ~raced => Orderly, NEW s \in Servers,
           Connect(s) \/ Remove(s) \/ Bind(s) \/ Listen(s) \/ Unlink(s) \/ Crash(s)
    PROVE  ~raced' => Orderly'
<1> SUFFICES ASSUME ~raced' PROVE Orderly'
  OBVIOUS
<1>1. Orderly
  BY DEF Connect, Remove, Bind, Listen, Unlink, Crash
<1>2. \A t \in Servers \ {s} : at'[t] = at[t]
  BY DEF Connect, Remove, Bind, Listen, Unlink, Crash, Goes, TypeOK
<1>3. CASE Connect(s)
  <2>1. /\ at[s] = "connect"
        /\ at'[s] = IF Dead(file) THEN "remove" ELSE "off"
        /\ file' = file
    BY <1>3 DEF Connect, Goes, TypeOK
  <2>2. Dead(file) => \A t \in Servers : ~Listening(t)
    BY <1>1 DEF Dead, Refused, Orderly, Listening
  <2> QED
    BY <1>1, <1>2, <2>1, <2>2 DEF Orderly, Busy, Listening
<1>4. CASE Remove(s)
  <2>1. at[s] = "remove" /\ at'[s] = "bind" /\ file' = NoFile
    BY <1>4 DEF Remove, Goes, TypeOK
  <2> QED
    BY <1>1, <1>2, <2>1 DEF Orderly, Busy, Listening
<1>5. CASE Bind(s)
  <2>1. /\ at[s] = "bind"
        /\ file = NoFile
        /\ at'[s] = "listen"
        /\ file' = s
    BY <1>1, <1>5 DEF Bind, Goes, TypeOK, Orderly
  <2> QED
    BY <1>1, <1>2, <2>1, PathAssumption DEF Orderly, Busy, Listening, PathAssumption
<1>6. CASE Listen(s)
  <2>1. at[s] = "listen" /\ at'[s] = "serving" /\ file' = file
    BY <1>6 DEF Listen, Goes, TypeOK
  <2> QED
    BY <1>1, <1>2, <2>1 DEF Orderly, Busy, Listening
<1>7. CASE Unlink(s)
  <2>1. at[s] = "unlink" /\ at'[s] = "off" /\ file' = NoFile
    BY <1>7 DEF Unlink, Goes, TypeOK
  <2> QED
    BY <1>1, <1>2, <2>1 DEF Orderly, Busy, Listening
<1>8. CASE Crash(s)
  <2>1. at'[s] = "off" /\ file' = file
    BY <1>8 DEF Crash, Goes, TypeOK
  <2> QED
    BY <1>1, <1>2, <2>1 DEF Orderly, Busy, Listening
<1> QED
  BY <1>3, <1>4, <1>5, <1>6, <1>7, <1>8

\* Whoever moves keeps the order, or has raced.
LEMMA OrderStep == TypeOK /\ (~raced => Orderly) /\ [Next]_vars => (~raced => Orderly)'
<1> SUFFICES ASSUME TypeOK, ~raced => Orderly, [Next]_vars PROVE ~raced' => Orderly'
  OBVIOUS
<1>1. ASSUME NEW s \in Servers, Server(s) PROVE ~raced' => Orderly'
  BY <1>1, BeginsInOrder, GoesInOrder, PathAssumption DEF Server
<1>2. CASE ClientLooks \/ ClientConnects \/ UNCHANGED vars
  <2>1. UNCHANGED <<file, at, raced>>
    BY <1>2 DEF ClientLooks, ClientConnects, vars
  <2> QED
    BY <2>1 DEF Orderly, Busy, Listening
<1> QED
  BY <1>1, <1>2 DEF Next

\* Servers are in order for as long as none raced.
LEMMA OrderInvariant == Spec => [](~raced => Orderly)
<1>1. Init => (~raced => Orderly)
  BY DEF Init, Orderly, Busy, Listening
<1> QED
  BY <1>1, OrderStep, TypeCorrect, PTL DEF Spec

\* A server that is alive keeps its path however often others start, stop or
\* crash, unless two of them are at it at the same time.
THEOREM PathKept == Spec => []LiveKeepsPath
<1>1. (~raced => Orderly) => LiveKeepsPath
  BY DEF Orderly, LiveKeepsPath, Listening
<1> QED
  BY <1>1, OrderInvariant, PTL

-----------------------------------------------------------------------------
\* What an undisturbed server saw does not change behind its back.
LEMMA SeenStep == TypeOK /\ SeesStill /\ [Next]_vars => SeesStill'
<1> SUFFICES ASSUME TypeOK, SeesStill, [Next]_vars PROVE SeesStill'
  OBVIOUS
<1>1. ASSUME NEW s \in Servers, Server(s) PROVE SeesStill'
  <2>1. \A t \in Servers \ {s} : ~alone'[t]
    BY <1>1 DEF Server, Start, Connect, Remove, Bind, Listen, Stop, Unlink, Crash, Goes, Begins
  <2>2. \/ at'[s] \notin {"connect", "bind"}
        \/ at'[s] = "connect" /\ file' # NoFile
        \/ at'[s] = "bind" /\ file' = NoFile
    BY <1>1 DEF TypeOK, Server, Start, Connect, Remove, Bind, Listen, Stop, Unlink, Crash, Goes,
       Begins
  <2> QED
    BY <2>1, <2>2 DEF SeesStill
<1>2. CASE ClientLooks \/ ClientConnects \/ UNCHANGED vars
  BY <1>2 DEF ClientLooks, ClientConnects, vars, SeesStill
<1> QED
  BY <1>1, <1>2 DEF Next

\* An undisturbed start fails only on a server that is alive: what a crash left
\* behind keeps nobody out.
THEOREM StaleFilesYield == Spec => FailsOnlyIfAlive
<1>1. Init => SeesStill
  BY DEF Init, SeesStill
<1>2. TypeOK /\ SeesStill => [\A s \in Servers :
         /\ at[s] \in {"connect", "bind"}
         /\ Connect(s) \/ Bind(s)
         /\ at'[s] = "off"
         /\ alone[s]
         => \E t \in Servers : file = t /\ Listening(t)]_vars
  <2> SUFFICES ASSUME SeesStill, NEW s \in Servers, at[s] \in {"connect", "bind"},
                      Connect(s) \/ Bind(s), at'[s] = "off", alone[s], TypeOK
               PROVE  \E t \in Servers : file = t /\ Listening(t)
    OBVIOUS
  <2> QED
    BY DEF SeesStill, Connect, Bind, Goes, Dead, Refused, TypeOK
<1> QED
  BY <1>1, <1>2, SeenStep, TypeCorrect, PTL DEF Spec, FailsOnlyIfAlive

-----------------------------------------------------------------------------
\* Servers come and go, and the client's attempt keeps the account.
LEMMA GapStep == GapSeen /\ [Next]_vars => GapSeen'
<1> SUFFICES ASSUME GapSeen, [Next]_vars PROVE GapSeen'
  OBVIOUS
<1>1. ASSUME NEW s \in Servers, Server(s) PROVE GapSeen'
  <2>1. gap' = (gap \/ ~\E t \in Servers : at'[t] = "serving")
    BY <1>1 DEF Server, Start, Connect, Remove, Bind, Listen, Stop, Unlink, Crash, Goes, Begins
  <2> QED
    BY <2>1 DEF GapSeen, Listening
<1>2. CASE ClientLooks
  BY <1>2 DEF ClientLooks, GapSeen, Listening
<1>3. CASE ClientConnects
  BY <1>3 DEF ClientConnects, GapSeen, Listening
<1>4. CASE UNCHANGED vars
  BY <1>4 DEF vars, GapSeen, Listening
<1> QED
  BY <1>1, <1>2, <1>3, <1>4 DEF Next
\* A client that starts to look finds a server if one is there all along, unless
\* two servers are at it at the same time.
THEOREM ServerFound == Spec => []ClientFindsServer
<1>1. Init => GapSeen /\ ClientFindsServer
  BY DEF Init, GapSeen, ClientFindsServer
<1>2. TypeOK /\ GapSeen /\ (~raced => Orderly) /\ ClientFindsServer /\ [Next]_vars => ClientFindsServer'
  <2> SUFFICES ASSUME TypeOK, GapSeen, ~raced => Orderly, ClientFindsServer, [Next]_vars,
                      client' = "failed", ~raced'
               PROVE  gap'
    BY DEF ClientFindsServer
  <2>1. ASSUME NEW s \in Servers, Server(s) PROVE gap'
    <3>1. (gap => gap') /\ client' = client /\ ~raced
      BY <2>1 DEF TypeOK, Server, Start, Connect, Remove, Bind, Listen, Stop, Unlink, Crash, Goes, Begins
    <3> QED
      BY <3>1 DEF ClientFindsServer
  <2>2. CASE ClientLooks
    <3>1. ~raced /\ file = NoFile
      BY <2>2 DEF ClientLooks
    <3>2. \A t \in Servers : ~Listening(t)
      BY <3>1, PathAssumption DEF Orderly, Listening, PathAssumption
    <3> QED
      BY <2>2, <3>2 DEF ClientLooks
  <2>3. CASE ClientConnects
    <3>1. ~raced /\ (file = NoFile \/ Refused(file)) /\ gap' = gap
      BY <2>3 DEF ClientConnects
    <3>2. \A t \in Servers : ~Listening(t)
      BY <3>1, PathAssumption DEF Orderly, Listening, Refused, PathAssumption
    <3> QED
      BY <2>3, <3>1, <3>2 DEF ClientConnects, GapSeen
  <2>4. CASE UNCHANGED vars
    BY <2>4 DEF vars, ClientFindsServer
  <2> QED
    BY <2>1, <2>2, <2>3, <2>4 DEF Next
<1> QED
  BY <1>1, <1>2, GapStep, OrderInvariant, TypeCorrect, PTL DEF Spec
=============================================================================
