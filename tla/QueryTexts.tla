----------------------------- MODULE QueryTexts -----------------------------
(***************************************************************************)
(* The texts of the names and tickets of QuerySession: what name-index     *)
(* writes into its rows and what a query reads from them.                  *)
(***************************************************************************)
EXTENDS QuerySession, EntryNames

\* What stands in the rows of an index that is loaded was written by a scan
\* and is read by a query: a ticket is that of its node, and no other's, and a
\* query reads from it what the node has; and a row has the name that a user
\* types, and all of it: a signature loses its descriptor and nothing else, and
\* the bytes under base64 are those that were encoded.
TextsFaithful == loaded => TicketTells /\ TicketReads /\ DescriptorStripped /\ Base64Right
=============================================================================
