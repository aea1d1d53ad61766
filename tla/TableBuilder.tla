---------------------------- MODULE TableBuilder ----------------------------
(***************************************************************************)
(* `scry3 build` (build.rs): the .entries files of a directory become a    *)
(* serving table.  In mode "sorted" they are fed to `entrystream --unique` *)
(* whose output, a file, is the input of write_tables; in "graphstore" to  *)
(* `write_entries`, which adds them to the GraphStore <work>/graphstore    *)
(* that write_tables then reads.  (In "beam" write_tables reads the        *)
(* directory itself: one external call, not modelled.)  All builds here    *)
(* name the same --work; one without it has a directory and no past.       *)
(***************************************************************************)
EXTENDS EntryDir

CONSTANT MaxBuildFaults   \* bound: kills and fallible calls that fail

ASSUME BuildAssumption == MaxBuildFaults \in Nat

Modes == {"sorted", "graphstore"}

VARIABLES
    mode,         \* --mode of the last build
    work,         \* mode -> CU -> what the sorted file, or the GraphStore, has of it
    table,        \* --out: "absent", "partial" or "built"
    served,       \* CU -> what the table has of it (once it is built)
    bpc,          \* what the command does next; "off" when there is none
    listed,       \* the files it has found, or those of the table that is there
    fed,          \* CU -> what it has read of its file, and fed to the tool
    orphan,       \* mode -> what tools that have outlived their command may yet write
    overlapped,   \* the last build writes a file that such a tool writes, too
    buildFaults

toolVars == <<orphan, overlapped>>
buildVars == <<mode, work, table, served, bpc, listed, fed, toolVars, buildFaults>>

NoEntries == [u \in Units |-> "absent"]

\* The types of `build` and of its work directory.
BuildTypeOK ==
    /\ mode \in Modes
    /\ work \in [Modes -> [Units -> Content]] /\ served \in [Units -> Content]
    /\ table \in {"absent", "partial", "built"}
    /\ bpc \in {"off", "feed", "wait", "tables", "clean"}
    /\ listed \subseteq Units /\ fed \in [Units -> Content]
    /\ orphan \in [Modes -> [Units -> Content]] /\ overlapped \in BOOLEAN
    /\ buildFaults \in 0 .. MaxBuildFaults

BuildInit ==
    /\ mode \in Modes
    /\ work = [m \in Modes |-> NoEntries] /\ served = NoEntries
    /\ table = "absent"
    /\ bpc = "off"
    /\ listed = {} /\ fed = NoEntries
    /\ orphan = [m \in Modes |-> NoEntries] /\ overlapped = FALSE
    /\ buildFaults = 0

BuildFault == buildFaults < MaxBuildFaults /\ buildFaults' = buildFaults + 1

\* Entries are a set: what is added to a CU's that are all there changes nothing.
Join(a, b) == IF "whole" \in {a, b} THEN "whole"
              ELSE IF "part" \in {a, b} THEN "part" ELSE "absent"

Merged(store, more) == [u \in Units |-> Join(store[u], more[u])]

\* What may be there of some entries: of each CU all of them, some or none.
PartsOf(some) == {parts \in [Units -> Content] : Merged(parts, some) = some}

\* What may be left of entries that two tools have written over each other.
Remains(some) == {left \in [Units -> Content] : \A u \in Units : some[u] = "absent" => left[u] = "absent"}

\* "--out already exists; remove it first"
OutFree == table = "absent"

\* Mutant: the sorted file is appended to.
MutFresh(m) == FALSE

\* File::create empties the sorted file of an earlier build; nothing empties
\* its GraphStore.
Fresh(m) == m = "sorted"

\* The command starts: it lists the directory and spawns the tool.
StartBuild(m) ==
    /\ bpc = "off"
    /\ OutFree
    /\ Listed # {}                    \* "no *.entries files"
    /\ mode' = m
    /\ listed' = Listed /\ fed' = NoEntries
    /\ work' = IF Fresh(m) THEN [work EXCEPT ![m] = NoEntries] ELSE work
    /\ bpc' = "feed"
    /\ overlapped' = (m = "sorted" /\ orphan[m] # NoEntries)
    /\ UNCHANGED <<table, served, orphan, buildFaults>>

\* Mutant: the last file is not fed.
MutToFeed == {u \in listed : fed[u] = "absent" /\ \E v \in listed : u < v}

ToFeed == {u \in listed : fed[u] = "absent"}

\* feed_entries: a file is copied into the tool's stdin.  (In the order of the
\* shas, which is not that of the kzip and does not matter to the tools.)
Feed(u) ==
    /\ bpc = "feed" /\ u \in ToFeed
    /\ fed' = [fed EXCEPT ![u] = entries[u]]
    /\ UNCHANGED <<mode, work, table, served, bpc, listed, toolVars, buildFaults>>

\* The end of the input: stdin is closed and the command waits for the tool.
EndFeed ==
    /\ bpc = "feed" /\ ToFeed = {}
    /\ bpc' = "wait"
    /\ UNCHANGED <<mode, work, table, served, listed, fed, toolVars, buildFaults>>

\* The tool succeeds: all it was fed is in the file, or in the GraphStore.
ToolOk ==
    /\ bpc = "wait"
    /\ work' = [work EXCEPT ![mode] = Merged(@, fed)]
    /\ bpc' = "tables" /\ fed' = NoEntries
    /\ UNCHANGED <<mode, table, served, listed, toolVars, buildFaults>>

\* What the tool has been fed by now, a part of the file that is read included.
FedSoFar == {fed} \cup {[fed EXCEPT ![u] = "part"] : u \in IF bpc = "feed" THEN ToFeed ELSE {}}

\* A file cannot be read, the tool dies while it is fed or exits with an
\* error, or the command is killed.  What a tool that died has written stays
\* there; one that lives sees the end of its input and goes on, for nobody
\* kills it or waits for it.
BuildFails ==
    /\ bpc \in {"feed", "wait"}
    /\ BuildFault
    /\ \E some \in FedSoFar :
          \/ /\ \E parts \in PartsOf(some) : work' = [work EXCEPT ![mode] = Merged(@, parts)]
             /\ UNCHANGED orphan
          \/ /\ orphan' = [orphan EXCEPT ![mode] = Merged(@, some)]
             /\ UNCHANGED work
    /\ bpc' = "off" /\ listed' = {} /\ fed' = NoEntries
    /\ UNCHANGED <<mode, table, served, overlapped>>

\* Such a tool writes.  A GraphStore gets entries.  In a sorted file that a later
\* build has emptied, and writes, it writes where it had got to: of each CU of
\* the two anything may be left.
OrphanWrites(m) ==
    /\ orphan[m] # NoEntries
    /\ work' \in {[work EXCEPT ![m] = new] :
                     new \in IF m = "sorted" THEN Remains(Merged(work[m], orphan[m]))
                             ELSE {Merged(work[m], parts) : parts \in PartsOf(orphan[m])}}
    /\ UNCHANGED <<mode, table, served, bpc, listed, fed, toolVars, buildFaults>>

\* It ends, of itself or killed.
OrphanEnds(m) ==
    /\ orphan[m] # NoEntries
    /\ orphan' = [orphan EXCEPT ![m] = NoEntries]
    /\ UNCHANGED <<mode, work, table, served, bpc, listed, fed, overlapped, buildFaults>>

WriteTable ==
    /\ bpc = "tables"
    /\ table' = "built" /\ served' = work[mode]
    /\ bpc' = "clean"
    /\ UNCHANGED <<mode, work, listed, fed, toolVars, buildFaults>>

\* write_tables fails or is killed: a part of the output may be there.
WriteTableFails ==
    /\ bpc = "tables"
    /\ BuildFault
    /\ table' \in {"absent", "partial"}
    /\ bpc' = "off" /\ listed' = {}
    /\ UNCHANGED <<mode, work, served, fed, toolVars>>

\* The intermediate file or store is removed, unless --keep-intermediate is
\* given; that it was not, or not all of a store, nobody looks at.
Clean ==
    /\ bpc = "clean"
    /\ \E left \in IF mode = "sorted" THEN {work[mode], NoEntries} ELSE PartsOf(work[mode]) :
          work' = [work EXCEPT ![mode] = left]
    /\ bpc' = "off"
    /\ UNCHANGED <<mode, table, served, listed, fed, toolVars, buildFaults>>

\* The user removes the output, as the refusal asks.
RemoveTable ==
    /\ bpc = "off" /\ table # "absent"
    /\ table' = "absent" /\ served' = NoEntries /\ listed' = {}
    /\ UNCHANGED <<mode, work, bpc, fed, toolVars, buildFaults>>

BuildStep ==
    \/ \E m \in Modes : StartBuild(m)
    \/ \E u \in Units : Feed(u)
    \/ EndFeed \/ ToolOk \/ BuildFails
    \/ \E m \in Modes : OrphanWrites(m) \/ OrphanEnds(m)
    \/ WriteTable \/ WriteTableFails
    \/ Clean
    \/ RemoveTable

-----------------------------------------------------------------------------
(***************************************************************************)
(* Properties.                                                             *)
(***************************************************************************)

\* A built table has every CU whose file was there when the build began, and
\* all of its entries: after any number of failed builds, unless it has shared
\* its sorted file with the entrystream of one of them.
TableComplete == table = "built" /\ ~overlapped => \A u \in listed : served[u] = "whole"

\* A built table has nothing that is not in the directory it was built from.
TableOfDirectory == table = "built" => \A u \in Units \ listed : served[u] = "absent"
=============================================================================
