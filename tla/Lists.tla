------------------------------- MODULE Lists --------------------------------
(***************************************************************************)
(* What the queries do with lists: keep some of their elements, in their   *)
(* order, and stop after the first few.                                    *)
(***************************************************************************)
EXTENDS Naturals, Sequences, FiniteSets

\* The k-th number of a set: k - 1 of them are below it.
Nth(at, k) == CHOOSE i \in at : Cardinality({j \in at : j < i}) = k - 1

\* The elements of s that are in set.
Filtered(s, set) ==
    LET at == {i \in 1 .. Len(s) : s[i] \in set} IN
    [k \in 1 .. Cardinality(at) |-> s[Nth(at, k)]]

First(s, n) == SubSeq(s, 1, IF n < Len(s) THEN n ELSE Len(s))
=============================================================================
