------------------------------ MODULE NameSink ------------------------------
(***************************************************************************)
(* The name sink of `scry3 index-stream` (stream.rs, struct NameSink): the *)
(* set of (name, ticket) rows a run has seen, and the append log           *)
(* `<graphstore>.names` behind it, which a later run preloads.             *)
(*                                                                         *)
(* Every row is handed to a BufWriter.  Nothing flushes that writer except *)
(* a full buffer and its drop, so a row is in one of three places:         *)
(*                                                                         *)
(*   nameSet   the process's memory (the rows the final index is made of)  *)
(*   nameBuf   the writer's buffer: rows whose last byte is not on disk    *)
(*   nameLog   the file: what its newline-terminated lines parse to        *)
(*                                                                         *)
(* The writer receives a row as four pieces (name, tab, ticket, newline)   *)
(* and flushes between pieces, so the file may end in a part of a row:     *)
(*                                                                         *)
(*   nameTail  the unterminated last line of the file, or NoTail           *)
(*   tailOpen  the rest of that line leads this process's own buffer; when *)
(*             FALSE the tail was left by a process that is gone, and the  *)
(*             next line written is glued to it                            *)
(*                                                                         *)
(* A row is a member of Row; any pair read back from a torn or glued line  *)
(* that no entry stream contains is the one value Garbage.                 *)
(*                                                                         *)
(* Nothing the sink does to its file is checked: an error of a write, of   *)
(* the last flush or of the preload is dropped.  Each operation that may   *)
(* meet one has a second form here, which the pipeline takes at the price  *)
(* of a failing call; logBad records that one was taken.                   *)
(***************************************************************************)
EXTENDS Naturals, FiniteSets

CONSTANTS
    Row,        \* the (name, ticket) rows the corpus' entry streams contain
    Garbage     \* a pair no entry stream contains

ASSUME GarbageAssumption == Garbage \notin Row

VARIABLES
    nameSet, nameBuf, nameLog, nameTail, tailOpen,
    logBad      \* an error of the log has been dropped, by this run or an earlier one

sinkVars == <<nameSet, nameBuf, nameLog, nameTail, tailOpen, logBad>>

NoTail == [row |-> Garbage, kind |-> "none"]

\* What of a row is on disk: its name; name and tab; all but the newline.
TornRow == [row : Row, kind : {"name", "tab", "full"}]

\* The types of the name sink.
SinkTypeOK ==
    /\ nameSet  \subseteq Row \cup {Garbage}
    /\ nameBuf  \subseteq Row \cup {Garbage}
    /\ nameLog  \subseteq Row \cup {Garbage}
    /\ nameTail \in TornRow \cup {NoTail}
    /\ tailOpen \in BOOLEAN
    /\ logBad   \in BOOLEAN

SinkInit ==
    /\ nameSet = {} /\ nameBuf = {} /\ nameLog = {}
    /\ nameTail = NoTail
    /\ tailOpen = FALSE
    /\ logBad = FALSE

(***************************************************************************)
(* What the preload makes of the file: each line is split at its first     *)
(* tab and a line without a tab is dropped.                                *)
(***************************************************************************)
TailReads(t) ==
    IF t.kind = "full" THEN {t.row} ELSE IF t.kind = "tab" THEN {Garbage} ELSE {}

ReadNames == nameLog \cup TailReads(nameTail)

\* A run opens the sink: it preloads the file, whether or not it resumes.
Preload(read) ==
    /\ nameSet' = read
    /\ nameBuf' = {}
    /\ tailOpen' = FALSE
    /\ UNCHANGED <<nameLog, nameTail>>

OpenSink == Preload(ReadNames) /\ UNCHANGED logBad

\* `if let Ok(s) = read_to_string(..)`: the file cannot be read, or is not
\* UTF-8 (a write that failed may have cut a character), and the run starts
\* with no names at all.
OpenSinkFails == Preload({}) /\ logBad' = TRUE

(***************************************************************************)
(* The rows F reach the file.  After a foreign tail one of them (the       *)
(* first) is glued to it and both are lost: the glued line parses to a     *)
(* pair that is neither.                                                   *)
(***************************************************************************)
Flushed(F) ==
    IF nameTail = NoTail \/ tailOpen
    THEN nameLog' = nameLog \cup F
    ELSE \E r \in F : nameLog' = nameLog \cup (F \ {r}) \cup {Garbage}

\* The rows F reach the file, the one whose head is there first, and perhaps
\* some pieces of a row of `rest`.
Reach(F, rest) ==
    /\ tailOpen /\ F # {} => nameTail.row \in F
    /\ IF F = {} THEN UNCHANGED nameLog ELSE Flushed(F)
    /\ IF F = {} /\ nameTail # NoTail
       THEN UNCHANGED nameTail
       ELSE nameTail' \in {NoTail} \cup [row : rest \cap Row, kind : {"name", "tab", "full"}]

\* The file's last line belongs to the buffer, once Reach(F, _) is done.
Reopens(F) == nameTail' # NoTail /\ (F # {} \/ nameTail = NoTail \/ tailOpen)

\* NameSink::add, when the buffer has room for the genuinely new rows.
AddBuffered(rows) ==
    /\ nameSet' = nameSet \cup rows
    /\ nameBuf' = nameBuf \cup (rows \ nameSet)
    /\ UNCHANGED <<nameLog, nameTail, tailOpen, logBad>>

\* NameSink::add, when the buffer fills up in the middle of the new rows:
\* what precedes the cut is on disk, and perhaps some pieces of the row at it.
AddFlushing(rows) ==
    \E cut \in SUBSET (rows \ nameSet) :
        LET rest == (rows \ nameSet) \ cut IN
        /\ rest # {}
        /\ nameBuf \cup cut # {}
        /\ nameSet' = nameSet \cup rows
        /\ nameBuf' = rest
        /\ Reach(nameBuf \cup cut, rest)
        /\ tailOpen' = Reopens(nameBuf \cup cut)
        /\ UNCHANGED logBad

AddRows(rows) == AddBuffered(rows) \/ AddFlushing(rows)

(***************************************************************************)
(* NameSink::add, when the file takes no more bytes and the buffer is      *)
(* full: `let _ = writeln!(..)` drops the error, so a new row is in the    *)
(* set and nowhere else.  A row of which some pieces had room is glued to  *)
(* the next one, and what the buffer held before stays there.              *)
(***************************************************************************)
AddFails(rows) ==
    \E lost \in SUBSET (rows \ nameSet) \ {{}}, glued \in SUBSET {Garbage} :
        LET held == nameBuf \cup ((rows \ nameSet) \ lost) \cup glued IN
        \E F \in SUBSET held :
            /\ nameSet' = nameSet \cup rows
            /\ nameBuf' = held \ F
            /\ Reach(F, held \ F)
            /\ tailOpen' = Reopens(F)
            /\ logBad' = TRUE

\* The process's memory, the writer's buffer included, is gone.
Forget == nameSet' = {} /\ nameBuf' = {} /\ tailOpen' = FALSE

\* The process is killed.
KillSink == Forget /\ UNCHANGED <<nameLog, nameTail, logBad>>

\* Mutant: an exit path that leaks the writer, so that nothing flushes it.
MutCloseSink == KillSink

\* The sink is dropped: its writer flushes what it still holds.
CloseSink ==
    /\ Forget
    /\ IF nameBuf = {}
       THEN UNCHANGED <<nameLog, nameTail>>
       ELSE Flushed(nameBuf) /\ nameTail' = NoTail
    /\ UNCHANGED logBad

\* ... or part of it: the writer's drop ignores the error of its last flush.
CloseSinkFails ==
    /\ Forget
    /\ \E F \in SUBSET nameBuf : F # nameBuf /\ Reach(F, nameBuf \ F)
    /\ logBad' = TRUE

\* The log file is deleted (by the cleanup of a successful run, after the drop).
RemoveNameLog ==
    /\ nameLog' = {}
    /\ nameTail' = NoTail
    /\ UNCHANGED <<nameSet, nameBuf, tailOpen, logBad>>
=============================================================================
