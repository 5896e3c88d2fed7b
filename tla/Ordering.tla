------------------------------ MODULE Ordering ------------------------------
(***************************************************************************)
(* The loops of the library that walk a vector and keep, or act on, the    *)
(* elements that meet a condition do so in the vector's order.             *)
(***************************************************************************)
EXTENDS Naturals, FiniteSets

\* The increasing enumeration of a finite set of numbers: a set of one.
InOrder(K) ==
    {f \in [1 .. Cardinality(K) -> K] : \A j, k \in DOMAIN f : j < k => f[j] < f[k]}
=============================================================================
