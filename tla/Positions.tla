------------------------------ MODULE Positions ------------------------------
(***************************************************************************)
(* What a loop that walks over a slice and appends the elements that pass  *)
(* its test leaves behind: the elements at the positions that passed, in   *)
(* the order of the slice.  It is SelectSeq with the test as a set of      *)
(* positions, written without recursion.                                   *)
(***************************************************************************)
EXTENDS Naturals, FiniteSets

(* The k-th of a set of positions.                                         *)
UpTo(K, i) == {j \in K : j <= i}
Nth(K, k) == CHOOSE i \in K : Cardinality(UpTo(K, i)) = k

Appended(s, K) == [k \in 1..Cardinality(K) |-> s[Nth(K, k)]]

=============================================================================
