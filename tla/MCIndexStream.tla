--------------------------- MODULE MCIndexStream ---------------------------
(***************************************************************************)
(* Instances of IndexStream for TLC.                                       *)
(***************************************************************************)
EXTENDS IndexStream

CONSTANTS r1, r2, r3

\* Entry files of one byte, but for the first CU's, which alone reaches
\* BatchBytes when a configuration sets that to 3.
MCSize == [u \in Units |-> IF u = 1 THEN 3 ELSE 1]

\* The rows of the CUs: neighbours share one, as CUs that include the same
\* header do.
MCRowsOf == [u \in Units |-> IF u = 1 THEN {r1, r2} ELSE IF u = 2 THEN {r2, r3} ELSE {r3}]

\* Two rows: the first CU has both, the others share one of them with it.
MCTwoRows == [u \in Units |-> IF u = 1 THEN {r1, r2} ELSE {r2}]

\* Every CU has the one row, where the names are not what a run is about.
MCOneRow == [u \in Units |-> {r1}]
=============================================================================
