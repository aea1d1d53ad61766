-------------------------- MODULE MCIndexAndBuild ---------------------------
(* Instances of IndexAndBuild for TLC. *)
EXTENDS IndexAndBuild
=============================================================================
