----------------------------- MODULE SocketPath -----------------------------
(***************************************************************************)
(* The path of a server's socket: CServerSocket::attempt, which takes the  *)
(* file over from a server that is dead, the destructor, which removes it, *)
(* and the client that looks for a server there.  Servers start and stop   *)
(* at any time, may crash anywhere, and leave the file behind if they do.  *)
(*                                                                         *)
(* A socket file is named for the server that bound it: whoever binds      *)
(* found no file, so two files of one server are never in each other's way.*)
(***************************************************************************)
EXTENDS Naturals

CONSTANTS
    Servers,  \* server sockets that use the path
    Foreign,  \* a file at the path that is no socket
    NoFile

ASSUME PathAssumption == Foreign # NoFile /\ {Foreign, NoFile} \cap Servers = {}

VARIABLES
    file,   \* what is at the path
    at,     \* at[s]: the next system call of s
    alone,  \* alone[s]: nobody else moved since s began what it is doing
    raced,  \* somebody began to start or stop while another was at it
    client, \* the client that looks for a server
    gap     \* at some time since it began no server was there

vars == <<file, at, alone, raced, client, gap>>

Init ==
    /\ file \in {NoFile, Foreign}
    /\ at = [s \in Servers |-> "off"]
    /\ alone = [s \in Servers |-> TRUE]
    /\ raced = FALSE
    /\ client = "off"
    /\ gap = FALSE

Listening(s) == at[s] = "serving"
Busy(s)      == at[s] \notin {"off", "serving"}

\* connect answers ECONNREFUSED where nobody listens: on the file of a dead
\* server, of one that has bound it and not listened yet, and on any other file.
Refused(f) == f # NoFile /\ ~\E s \in Servers : f = s /\ Listening(s)

\* Server s goes on to step.
Goes(s, step) ==
    /\ at' = [at EXCEPT ![s] = step]
    /\ alone' = [t \in Servers |-> t = s /\ alone[t]]
    /\ gap' = (gap \/ ~\E t \in Servers : at'[t] = "serving")
    /\ UNCHANGED client

\* The same, of a server that begins something.
Begins(s, step) ==
    /\ at' = [at EXCEPT ![s] = step]
    /\ alone' = [t \in Servers |-> t = s]
    /\ gap' = (gap \/ ~\E t \in Servers : at'[t] = "serving")
    /\ raced' = (raced \/ \E t \in Servers \ {s} : Busy(t))
    /\ UNCHANGED client

-----------------------------------------------------------------------------
(* CServerSocket::attempt *)

Start(s) ==
    /\ at[s] = "off"
    /\ Begins(s, IF file = NoFile THEN "bind" ELSE "connect")
    /\ UNCHANGED file

\* Mutant: the file is there, so it is taken over.
Dead_Always(f) == TRUE
\* Mutant: a server that is gone without its file is never told from a live one.
Dead_Never(f) == FALSE
\* ECONNREFUSED: nobody is alive behind the file.  An answer, or any other error,
\* one for a file that is gone by now included, is taken for a live server.
Dead(f) == Refused(f)

Connect(s) ==
    /\ at[s] = "connect"
    /\ Goes(s, IF Dead(file) THEN "remove" ELSE "off")
    /\ UNCHANGED <<file, raced>>

\* remove takes whatever is at the path by now, and no file is no error.
Remove(s) ==
    /\ at[s] = "remove"
    /\ file' = NoFile
    /\ Goes(s, "bind")
    /\ UNCHANGED raced

\* EADDRINUSE if there is a file again.
Bind(s) ==
    /\ at[s] = "bind"
    /\ IF file = NoFile THEN file' = s /\ Goes(s, "listen")
       ELSE Goes(s, "off") /\ UNCHANGED file
    /\ UNCHANGED raced

Listen(s) ==
    /\ at[s] = "listen"
    /\ Goes(s, "serving")
    /\ UNCHANGED <<file, raced>>

-----------------------------------------------------------------------------
\* The destructor closes the socket, and then removes the path it had bound,
\* whoever's file is there.
Stop(s) ==
    /\ at[s] = "serving"
    /\ Begins(s, "unlink")
    /\ UNCHANGED file

Unlink(s) ==
    /\ at[s] = "unlink"
    /\ file' = NoFile
    /\ Goes(s, "off")
    /\ UNCHANGED raced

\* The process dies, and the kernel closes its socket.
Crash(s) ==
    /\ at[s] # "off"
    /\ Goes(s, "off")
    /\ UNCHANGED <<file, raced>>

-----------------------------------------------------------------------------
(* CClientSocket::attempt *)

ClientLooks ==
    /\ client \in {"off", "failed"}
    /\ client' = IF file = NoFile THEN "failed" ELSE "connect"
    /\ gap' = ~\E s \in Servers : Listening(s)
    /\ UNCHANGED <<file, at, alone, raced>>

ClientConnects ==
    /\ client = "connect"
    /\ client' = IF file = NoFile \/ Refused(file) THEN "failed" ELSE "off"
    /\ UNCHANGED <<file, at, alone, raced, gap>>

-----------------------------------------------------------------------------
Server(s) ==
    \/ Start(s) \/ Connect(s) \/ Remove(s) \/ Bind(s) \/ Listen(s)
    \/ Stop(s) \/ Unlink(s) \/ Crash(s)

Next == (\E s \in Servers : Server(s)) \/ ClientLooks \/ ClientConnects

Spec == Init /\ [][Next]_vars

-----------------------------------------------------------------------------
\* The type invariant.
TypeOK ==
    /\ file \in Servers \cup {NoFile, Foreign}
    /\ at \in [Servers -> {"off", "connect", "remove", "bind", "listen", "serving", "unlink"}]
    /\ alone \in [Servers -> BOOLEAN]
    /\ raced \in BOOLEAN
    /\ client \in {"off", "connect", "failed"}
    /\ gap \in BOOLEAN

\* A server that is alive keeps its path, through starts, stops and crashes of
\* others, as long as no two of them start or stop at the same time.
LiveKeepsPath == \A s \in Servers : Listening(s) /\ ~raced => file = s

\* "check if the socket is alive": a start fails only on a live server if nobody
\* else moved meanwhile.  What a crash left behind, in whatever state, keeps no
\* server out.
FailsOnlyIfAlive ==
    [][\A s \in Servers :
         /\ at[s] \in {"connect", "bind"}
         /\ Connect(s) \/ Bind(s)
         /\ at'[s] = "off"
         /\ alone[s]
         => \E t \in Servers : file = t /\ Listening(t)]_vars

\* A client fails only if at some time of its attempt no server was there.
ClientFindsServer == client = "failed" /\ ~raced => gap
=============================================================================
