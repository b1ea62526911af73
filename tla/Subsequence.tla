------------------------------ MODULE Subsequence ------------------------------
(***************************************************************************)
(* The members of a sequence at some of its positions, in their order: the *)
(* list comprehensions of the code that keep an element or drop it. By the *)
(* positions and not with SelectSeq, of which the provers know nothing.    *)
(***************************************************************************)
EXTENDS Naturals, Sequences, FiniteSets

Nth(I, k) == CHOOSE i \in I : Cardinality({j \in I : j <= i}) = k

AtPositions(s, I) == [k \in 1..Cardinality(I) |-> s[Nth(I, k)]]
=============================================================================
