------------------------------- MODULE Places -------------------------------
(***************************************************************************)
(* A sequence cut down to some of its places: what Array.filter returns.   *)
(* SelectSeq of the standard module says the same by recursion, of which   *)
(* nothing can be proved; here the k-th element is that of the k-th place. *)
(***************************************************************************)
EXTENDS Integers, Sequences, FiniteSets

\* How many of the places are up to i.
Rank(P, i) == Cardinality({j \in P : j <= i})

KeepAt(s, P) == [k \in 1 .. Cardinality(P) |-> s[CHOOSE i \in P : Rank(P, i) = k]]

=============================================================================
