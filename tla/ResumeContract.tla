--------------------------- MODULE ResumeContract ---------------------------
(***************************************************************************)
(* What `index-stream --keep-graphstore` promises across runs that are     *)
(* killed, fail and are resumed, whatever its threads and files do:        *)
(*                                                                         *)
(*   - what a resumed run may skip has been folded, at every moment;       *)
(*   - a table is published once every CU is folded or reported, and has   *)
(*     everything folded;                                                  *)
(*   - what is folded stays, and a published table changes only by being   *)
(*     withdrawn.                                                          *)
(***************************************************************************)
CONSTANTS Unit,     \* the CUs the flags select
          NoTable   \* no table is published

VARIABLES
    folded,      \* CUs whose entries the GraphStore has
    skippable,   \* CUs a resumed run would skip
    reported,    \* CUs the current run could not index
    table        \* the CUs the published table serves, or NoTable

vars == <<folded, skippable, reported, table>>

Init ==
    /\ folded = {} /\ skippable = {} /\ reported = {}
    /\ table = NoTable

\* A run begins, with no report of its own yet.
Begin ==
    /\ table = NoTable
    /\ reported' = {}
    /\ UNCHANGED <<folded, skippable, table>>

\* Some CUs are folded, completely; never is one lost.
FoldMore ==
    /\ folded' \in SUBSET Unit /\ folded \subseteq folded'
    /\ UNCHANGED <<skippable, reported, table>>

\* The record of what to skip changes; it may forget, never run ahead.
Record ==
    /\ skippable' \in SUBSET folded
    /\ UNCHANGED <<folded, reported, table>>

\* CUs that cannot be indexed are reported.
Report ==
    /\ table = NoTable
    /\ reported' \in SUBSET Unit /\ reported \subseteq reported'
    /\ UNCHANGED <<folded, skippable, table>>

Publish ==
    /\ table = NoTable
    /\ Unit \subseteq folded \cup reported
    /\ table' = folded
    /\ UNCHANGED <<folded, skippable, reported>>

\* The user removes the table.
Withdraw ==
    /\ table' = NoTable
    /\ UNCHANGED <<folded, skippable, reported>>

Next == Begin \/ FoldMore \/ Record \/ Report \/ Publish \/ Withdraw

Spec == Init /\ [][Next]_vars

\* A resumed run skips only what is in the GraphStore.
SkipOnlyFolded == skippable \subseteq folded

\* A published table misses only what was reported.
PublishedComplete == table = NoTable \/ Unit \subseteq table \cup reported
=============================================================================
