------------------------------- MODULE Objects -------------------------------
(***************************************************************************)
(* What a connection promises the two applications about their objects,    *)
(* with no messages, batches or calls in sight: the client asks for        *)
(* objects in an order of its own, the server makes each at most once      *)
(* under an id that is never used again, the client learns that id and no  *)
(* other, and the server's object lives until the client is through with   *)
(* it or the server drops the client.                                      *)
(*                                                                         *)
(* Connection implements this specification; its refinement mapping says   *)
(* where each variable is kept.                                            *)
(***************************************************************************)
EXTENDS Naturals, Sequences, FiniteSets

CONSTANT Protocols

VARIABLES
    wanted,     \* the protocol of every object the client asked for, by seq
    released,   \* the seqs whose objects the client destroyed or let go
    nextId,     \* the id the server spends next
    served,     \* the objects the server has
    offered,    \* the ids on their way to the client
    known,      \* the id of every object the client has learnt of, by seq
    over,       \* the client gave the connection up
    dropped     \* the server dropped the client

objectVars == <<wanted, released, nextId, served, offered, known, over, dropped>>

Offer  == [seq : Nat, id : Nat]
Served == [seq : Nat, id : Nat, protocol : Protocols]

Init ==
    /\ wanted = <<>>
    /\ released = {}
    /\ nextId = 1
    /\ served = {}
    /\ offered = {}
    /\ known = <<>>
    /\ over = FALSE
    /\ dropped = FALSE

\* The client asks for an object, which its application may not care to keep.
Ask(p, keeps) ==
    /\ wanted' = Append(wanted, p)
    /\ released' = IF keeps THEN released ELSE released \cup {Len(wanted) + 1}
    /\ UNCHANGED <<nextId, served, offered, known, over, dropped>>

\* It destroys an object or lets it go, with or without knowing its id.
Release(q) ==
    /\ q \in DOMAIN wanted \ released
    /\ released' = released \cup {q}
    /\ UNCHANGED <<wanted, nextId, served, offered, known, over, dropped>>

\* The seqs the server has answered, as far as either end can still tell.
Answered == {o.seq : o \in served \cup offered} \cup DOMAIN known

\* The server makes the object asked for, and offers its id unless it refuses
\* the request or nobody is there to be told.
Make(q) ==
    /\ ~dropped
    /\ q \in DOMAIN wanted \ Answered
    /\ served' = served \cup {[seq |-> q, id |-> nextId, protocol |-> wanted[q]]}
    /\ offered' \in {offered, offered \cup {[seq |-> q, id |-> nextId]}}
    /\ nextId' = nextId + 1
    /\ UNCHANGED <<wanted, released, known, over, dropped>>

Learn(o) ==
    /\ o \in offered
    /\ o.seq \in DOMAIN wanted \ DOMAIN known
    /\ offered' = offered \ {o}
    /\ known' = [q \in DOMAIN known \cup {o.seq} |-> IF q = o.seq THEN o.id ELSE known[q]]
    /\ UNCHANGED <<wanted, released, nextId, served, over, dropped>>

\* The server destroys an object only when the client, which knows it, is
\* through with it.
Destroy(o) ==
    /\ o \in served
    /\ o.seq \in released \cap DOMAIN known
    /\ known[o.seq] = o.id
    /\ served' = served \ {o}
    /\ UNCHANGED <<wanted, released, nextId, offered, known, over, dropped>>

\* The client gives the connection up: offers may be lost, objects let go.
GiveUp ==
    /\ over' = TRUE
    /\ offered' \in SUBSET offered
    /\ released' \in {released, DOMAIN wanted}
    /\ UNCHANGED <<wanted, nextId, served, known, dropped>>

Drop ==
    /\ ~dropped
    /\ dropped' = TRUE
    /\ served' = {}
    /\ UNCHANGED <<wanted, released, nextId, offered, known, over>>

Next ==
    \/ \E p \in Protocols, keeps \in BOOLEAN : Ask(p, keeps)
    \/ \E q \in DOMAIN wanted : Release(q) \/ Make(q)
    \/ \E o \in offered : Learn(o)
    \/ \E o \in served : Destroy(o)
    \/ GiveUp
    \/ Drop

Spec == Init /\ [][Next]_objectVars
=============================================================================
