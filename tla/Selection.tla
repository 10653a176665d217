----------------------------- MODULE Selection -----------------------------
(***************************************************************************)
(* What is left of an array or a list when some of its elements leave it   *)
(* and the others move up.                                                 *)
(***************************************************************************)
EXTENDS Integers, FiniteSets

(* The j-th position of a set S of positions, counted from the front. *)
Position(S, j) == CHOOSE k \in S : Cardinality({i \in S : i <= k}) = j

(* The elements of s at the positions in S, in their order. *)
AtPositions(s, S) == [j \in 1 .. Cardinality(S) |-> s[Position(S, j)]]

(* The list s when x has been unlinked. *)
Without(s, x) == AtPositions(s, {k \in DOMAIN s : s[k] # x})
=============================================================================
