--------------------------- MODULE IndexAndBuild ----------------------------
(***************************************************************************)
(* `scry3 index` and `scry3 build` over one directory.  Nothing keeps them *)
(* apart: a build may list and read the directory while an index run, or a *)
(* rerun after a kill, renames files into it.  Between runs the user may   *)
(* empty the directory for another corpus.                                 *)
(***************************************************************************)
EXTENDS BatchIndexer, TableBuilder

VARIABLE removed    \* the user has removed .entries files

vars == <<ivars, buildVars, removed>>

\* The user removes files from the directory.
RemoveEntries ==
    /\ ~running /\ bpc = "off"
    /\ removed' = TRUE
    /\ \E gone \in SUBSET Listed :
          entries' = [u \in Units |-> IF u \in gone THEN "absent" ELSE entries[u]]
    /\ UNCHANGED <<indexVars, buildVars>>

Init == IndexInit /\ BuildInit /\ removed = FALSE

Next ==
    \/ IndexNext /\ UNCHANGED <<buildVars, removed>>
    \/ BuildStep /\ UNCHANGED <<ivars, removed>>
    \/ RemoveEntries

Spec == Init /\ [][Next]_vars

\* A built table has nothing that is not in the directory it was built from,
\* however many builds before it were killed: always as long as the directory
\* only grows, and beyond that in mode "sorted", unless its sorted file was
\* shared with an earlier tool.
NothingForeign == ((mode = "sorted" /\ ~overlapped) \/ ~removed) => TableOfDirectory
=============================================================================
