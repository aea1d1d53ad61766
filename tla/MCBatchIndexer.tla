--------------------------- MODULE MCBatchIndexer ---------------------------
(* Instances of BatchIndexer for TLC. *)
EXTENDS BatchIndexer
=============================================================================
