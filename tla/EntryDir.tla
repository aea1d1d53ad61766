------------------------------ MODULE EntryDir ------------------------------
(***************************************************************************)
(* The directory of `<sha>.entries` files: what `scry3 index` writes, one  *)
(* entry stream per CU, and what `scry3 build` reads.                      *)
(***************************************************************************)
EXTENDS Naturals, FiniteSets

CONSTANTS NumUnits,  \* CUs the flags select, numbered in kzip order
          NoUnit     \* no CU

Units == 1 .. NumUnits

ASSUME UnitAssumption == NumUnits \in Nat /\ NoUnit \notin Units

\* How much of a CU's entry stream something holds.
Content == {"absent", "part", "whole"}

VARIABLE entries     \* CU -> what its .entries file holds

\* A .entries file is absent, has a part of its CU's stream, or all of it.
EntriesTypeOK == entries \in [Units -> Content]

EntriesInit == entries = [u \in Units |-> "absent"]

\* entry_files: the .entries files in the directory.  (index never leaves an
\* empty one, and resumes past any that has a byte.)
Listed == {u \in Units : entries[u] # "absent"}
=============================================================================
