----------------------------- MODULE StridePlan -----------------------------
(***************************************************************************)
(* How `index` and `index-stream` share a plan between workers: the plan   *)
(* is the CUs left to index in the order of the kzip, CUs are numbered in  *)
(* that order, and worker w of n takes the positions w, w + n, w + 2n, ... *)
(***************************************************************************)
EXTENDS Naturals, FiniteSets

\* The 0-based position of a CU in a plan.
Position(u, plan) == Cardinality({v \in plan : v < u})

\* The CUs of worker w, when the workers are n.
StrideOf(w, n, plan) == {u \in plan : Position(u, plan) % n = w}
=============================================================================
