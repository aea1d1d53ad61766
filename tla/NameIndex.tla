----------------------------- MODULE NameIndex ------------------------------
(***************************************************************************)
(* The name index (nameindex.rs): `scry3 name-index` scans the .entries    *)
(* files of a directory, by stride over its worker threads, and writes the *)
(* rows it finds, sorted, to a file; a query command loads that file and   *)
(* looks names up in it.  The file is plain text: it may be what a failing *)
(* run has left, or several indexes concatenated by hand.                  *)
(***************************************************************************)
EXTENDS Lists, SequencesExt

CONSTANTS
    Names,          \* names, as numbers in the order of the strings
    NumTickets,     \* tickets are numbered in the order of the strings
    NumFiles,       \* .entries files
    RowsIn,         \* file -> the rows of its entry stream
    ScanWorkers,    \* --workers
    MaxScanFaults,  \* bound: fallible calls that fail
    MaxRows         \* bound: rows of the index file

Tickets == 1 .. NumTickets
Torn    == 0        \* the ticket of a line that was cut: no node has it
Files   == 1 .. NumFiles
Scanners == 1 .. ScanWorkers
Row(n, t) == [name |-> n, ticket |-> t]
AnyRow  == [name : Names, ticket : Tickets \cup {Torn}]

ASSUME NameAssumption ==
    /\ Names \subseteq Nat /\ NumTickets \in Nat /\ NumFiles \in Nat \ {0}
    /\ ScanWorkers \in Nat \ {0} /\ MaxScanFaults \in Nat /\ MaxRows \in Nat
    /\ RowsIn \in [Files -> SUBSET [name : Names, ticket : Tickets]]
    /\ \A f \in Files : IsFiniteSet(RowsIn[f])

VARIABLES
    buildPc,   \* name-index: "scan", "written" or "failed"
    next,      \* scanner -> the number of the next file it scans
    local,     \* scanner -> the rows it has found
    merged,    \* the rows of the scanners that are through
    through,   \* the scanners that are through
    wholly,    \* files that were scanned to their end
    idx,       \* the rows of the index file
    rows,      \* the loaded rows; empty before
    loaded,
    scanFaults

scanVars == <<next, local, merged, through, wholly>>
nameVars == <<buildPc, scanVars, idx, rows, loaded, scanFaults>>

Before(a, b) == a.name < b.name \/ (a.name = b.name /\ a.ticket < b.ticket)
IsSortedRows(s) == \A i \in 1 .. Len(s) - 1 : s[i] = s[i + 1] \/ Before(s[i], s[i + 1])

\* Where row i of s stands when s is sorted; equal rows keep their order.
Rank(s, i) == Cardinality({j \in 1 .. Len(s) : Before(s[j], s[i]) \/ (s[j] = s[i] /\ j <= i)})

Sorted(s) == [k \in 1 .. Len(s) |-> s[CHOOSE i \in 1 .. Len(s) : Rank(s, i) = k]]

NameInit ==
    /\ buildPc = "scan"
    /\ next = [w \in Scanners |-> w]
    /\ local = [w \in Scanners |-> {}] /\ merged = {}
    /\ through = {} /\ wholly = {}
    /\ idx = <<>> /\ rows = <<>> /\ loaded = FALSE
    /\ scanFaults = 0

ScanFault == scanFaults < MaxScanFaults /\ scanFaults' = scanFaults + 1

-----------------------------------------------------------------------------
(***************************************************************************)
(* build: the scanners.                                                    *)
(***************************************************************************)
Advance(w) == next' = [next EXCEPT ![w] = @ + ScanWorkers]

CanScan(w) == buildPc = "scan" /\ w \notin through /\ next[w] <= NumFiles

ScanFile(w) ==
    /\ CanScan(w)
    /\ local' = [local EXCEPT ![w] = @ \cup RowsIn[next[w]]]
    /\ wholly' = wholly \cup {next[w]}
    /\ Advance(w)
    /\ UNCHANGED <<buildPc, merged, through, idx, rows, loaded, scanFaults>>

\* entrystream dies, or writes what is not text: scan_file stops reading and
\* succeeds with the rows it has.  (Or it cannot be started: a warning, no row.)
ScanCut(w) ==
    /\ CanScan(w)
    /\ ScanFault
    /\ \E some \in SUBSET RowsIn[next[w]] : local' = [local EXCEPT ![w] = @ \cup some]
    /\ Advance(w)
    /\ UNCHANGED <<buildPc, merged, through, wholly, idx, rows, loaded>>

\* Mutant: a scanner replaces what others have merged.
MutMergeLocal(w) ==
    /\ buildPc = "scan" /\ w \notin through /\ next[w] > NumFiles
    /\ merged' = local[w]
    /\ through' = through \cup {w}
    /\ UNCHANGED <<buildPc, next, local, wholly, idx, rows, loaded, scanFaults>>

\* merged.lock().extend(local)
MergeLocal(w) ==
    /\ buildPc = "scan" /\ w \notin through /\ next[w] > NumFiles
    /\ merged' = merged \cup local[w]
    /\ through' = through \cup {w}
    /\ UNCHANGED <<buildPc, next, local, wholly, idx, rows, loaded, scanFaults>>

InOrder(set) == Sorted(SetToSeq(set))

\* write_index
WriteIndex ==
    /\ buildPc = "scan" /\ through = Scanners
    /\ idx' = InOrder(merged)
    /\ buildPc' = "written"
    /\ local' = [w \in Scanners |-> {}] /\ merged' = {}
    /\ UNCHANGED <<next, through, wholly, rows, loaded, scanFaults>>

\* It fails, and leaves what it has written, perhaps a line that is cut.
WriteIndexFails ==
    /\ buildPc = "scan" /\ through = Scanners
    /\ ScanFault
    /\ \E k \in 0 .. Cardinality(merged) :
          LET kept == SubSeq(InOrder(merged), 1, k) IN
          idx' \in {kept} \cup (IF k < Cardinality(merged)
                                THEN {Append(kept, Row(InOrder(merged)[k + 1].name, Torn))} ELSE {})
    /\ buildPc' = "failed"
    /\ local' = [w \in Scanners |-> {}] /\ merged' = {}
    /\ UNCHANGED <<next, through, wholly, rows, loaded>>

\* The user appends to the index file, if its last line is whole, that of
\* another directory.
Concatenate ==
    /\ buildPc # "scan" /\ ~loaded
    /\ \A i \in 1 .. Len(idx) : idx[i].ticket # Torn
    /\ \E f \in Files :
          /\ Len(idx) + Cardinality(RowsIn[f]) <= MaxRows
          /\ idx' = idx \o InOrder(RowsIn[f])
    /\ UNCHANGED <<buildPc, scanVars, rows, loaded, scanFaults>>

-----------------------------------------------------------------------------
(***************************************************************************)
(* NameIndex::load and the lookups.                                        *)
(***************************************************************************)

\* Mutant: the file is taken to be sorted.
MutSortedRows(s) == s

\* rows.sort(), when a window of two is out of order
SortedRows(s) ==
    IF IsSortedRows(s) THEN s
    ELSE Sorted(s)

LoadIndex ==
    /\ buildPc # "scan" /\ ~loaded
    /\ rows' = SortedRows(idx)
    /\ loaded' = TRUE
    /\ UNCHANGED <<buildPc, scanVars, idx, scanFaults>>

\* partition_point: a boundary between smaller names and the others, found by
\* bisection; there is only one in sorted rows.
PartitionPoint(name) ==
    CHOOSE p \in 0 .. Len(rows) :
        /\ p = 0 \/ rows[p].name < name
        /\ p = Len(rows) \/ ~(rows[p + 1].name < name)

TicketsOf(s) == [i \in 1 .. Len(s) |-> s[i].ticket]

\* exact: the run of rows with the name that begins there
Exact(name) ==
    LET lo == PartitionPoint(name)
        hi == CHOOSE h \in lo .. Len(rows) :
                 /\ \A i \in lo + 1 .. h : rows[i].name = name
                 /\ h = Len(rows) \/ rows[h + 1].name # name
    IN  TicketsOf(SubSeq(rows, lo + 1, hi))

\* substr: the first rows whose name contains the needle, at least one
Containing(names, limit) ==
    LET hits == Filtered(rows, {r \in Range(rows) : r.name \in names}) IN
    TicketsOf(First(hits, IF limit = 0 THEN 1 ELSE limit))

NameStep ==
    \/ \E w \in Scanners : ScanFile(w) \/ ScanCut(w) \/ MergeLocal(w)
    \/ WriteIndex \/ WriteIndexFails
    \/ Concatenate
    \/ LoadIndex

-----------------------------------------------------------------------------
(***************************************************************************)
(* Properties.                                                             *)
(***************************************************************************)

\* An index that was written has the rows of every file that was scanned to
\* its end, whatever became of the other files and in whatever order the
\* scanners finished; and that is every file, but for one for each failure.
IndexHasScanned ==
    buildPc = "written" =>
        /\ \A f \in wholly : RowsIn[f] \subseteq Range(idx)
        /\ Cardinality(Files \ wholly) <= scanFaults

\* Every row of the file is found by its name, and only those, whoever has
\* put the file together.
ExactFinds ==
    loaded => \A n \in Names :
        Range(Exact(n)) = {t \in Tickets \cup {Torn} : Row(n, t) \in Range(idx)}
=============================================================================
