------------------------------ MODULE Selections ------------------------------
(* What is left of a list when only some positions are kept: the entry at  *)
(* position k is the kept one with k kept positions up to its own.  The    *)
(* recursive SelectSeq returns the same, but nothing can be proved of it.  *)
EXTENDS Integers, FiniteSets

Rank(i, kept) == Cardinality({j \in kept : j <= i})
Selected(s, kept) ==
  [k \in 1..Cardinality(kept) |-> s[CHOOSE i \in kept : Rank(i, kept) = k]]
=============================================================================
