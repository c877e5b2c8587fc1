------------------------------- MODULE Selection -------------------------------
(***************************************************************************)
(* The items of a sequence at some of its positions, in their order: what  *)
(* the filter method of an array returns.  It is SelectSeq, without the    *)
(* recursion, for the sake of the proofs.                                  *)
(***************************************************************************)
EXTENDS Naturals, Sequences, FiniteSets

\* The k-th smallest number of S.
Nth(S, k) == CHOOSE i \in S : Cardinality({j \in S : j <= i}) = k

Selected(s, S) == [k \in 1 .. Cardinality(S) |-> s[Nth(S, k)]]
=============================================================================
