---------------------------- MODULE IndexStream ----------------------------
(***************************************************************************)
(* `scry3 index-stream` (stream.rs, run): one pipeline over a kzip.        *)
(*                                                                         *)
(*   worker 0..NumWorkers-1 --- bounded channel ---> folder ---> main      *)
(*   one indexer per CU         (sync_channel)       batches,   write_     *)
(*   and a name scan                                 write_     tables,    *)
(*                                                   entries,   name index *)
(*                                                   done log   cleanup    *)
(*                                                                         *)
(* What outlives a process: the GraphStore, its `.done` log of folded CUs, *)
(* its `.names` log (module NameSink), the serving table and the name      *)
(* index.  A killed or failed run is resumed from the first three.  The    *)
(* environment may kill the process between any two steps, make a fallible *)
(* call fail, and remove what the command's messages ask to have removed.  *)
(***************************************************************************)
EXTENDS NameSink, StridePlan, Sequences

CONSTANTS
    NumUnits,         \* CUs the flags select, numbered in kzip order
    NumWorkers,       \* --workers
    BatchFiles,       \* BATCH_FILES (48 in the code)
    BatchBytes,       \* BATCH_BYTES (2 GiB in the code)
    Size,             \* [Units -> Nat]: bytes of a CU's entry file
    RowsOf,           \* [Units -> SUBSET Row]: the rows of a CU's entry file
    NoUnit, Garbled,  \* no unit; a line of the done log that names no unit
    WantNames,        \* --names is given
    KeepGraphstore,   \* --keep-graphstore
    FixedStaging,     \* --staging DIR is given
    ScanMayFail,      \* the entrystream scan of a CU may fail
    AllowRemoveStore, \* the user may remove the GraphStore directory
    MaxKills,         \* bound: kills of the process
    MaxFaults         \* bound: fallible calls that fail

Units   == 1 .. NumUnits
Workers == 0 .. NumWorkers - 1

ASSUME CountAssumption == /\ NumUnits \in Nat
                          /\ NumWorkers \in Nat \ {0}
                          /\ BatchFiles \in Nat \ {0}
                          /\ BatchBytes \in Nat \ {0}
ASSUME DataAssumption  == /\ Size \in [Units -> Nat]
                          /\ RowsOf \in [Units -> SUBSET Row]
                          /\ NoUnit \notin Units /\ Garbled \notin Units
                          /\ NoUnit # Garbled
ASSUME FlagAssumption  == /\ WantNames \in BOOLEAN
                          /\ KeepGraphstore \in BOOLEAN
                          /\ FixedStaging \in BOOLEAN
                          /\ ScanMayFail \in BOOLEAN
                          /\ AllowRemoveStore \in BOOLEAN
                          /\ MaxKills \in Nat
                          /\ MaxFaults \in Nat

VARIABLES
    \* on disk
    gs,         \* CUs whose entries are all in the GraphStore
    gsExists,   \* the GraphStore directory exists
    doneLog,    \* CUs named by the newline-terminated lines of the done log
    doneTail,   \* the unterminated last line of the done log: a CU, Garbled or NoUnit
    out,        \* the serving table directory: "absent", "partial" or "built"
    served,     \* the CUs in the serving table (once it is built)
    index,      \* the rows of the name index file; {} when there is none or a part
    \* the process
    proc,       \* main thread: what it does next; "exited" is a success, "off" any other end
    plan,       \* the CUs this run indexes, in kzip order
    pos,        \* worker -> i, its next position in the plan
    wpc,        \* worker -> what it does next
    cur,        \* worker -> the CU in its hands, or NoUnit
    staged,     \* CUs of which this run has an entry file in the staging directory
    stale,      \* CUs of which the staging directory has one that no thread will touch
    chan,       \* the bounded channel
    folder,     \* folder thread: what it does next
    batch, batchBytes, logged, folded,   \* its locals
    outcome,    \* CU -> what the last run's workers counted it as
    deserted,   \* CUs of the last run's workers that could not open the kzip: kept for
                \* the properties only, the program counts them nowhere
    \* the environment
    kills, faults

storeVars  == <<gs, gsExists>>
doneVars   == <<doneLog, doneTail>>
outVars    == <<out, served, index>>
workVars   == <<pos, wpc, cur, outcome, deserted>>
fileVars   == <<staged, stale>>
foldVars   == <<folder, batch, batchBytes, logged, folded>>
faultVars  == <<kills, faults>>
vars == <<sinkVars, storeVars, doneVars, outVars, proc, plan, workVars, fileVars,
          chan, foldVars, faultVars>>

\* Mutant: a channel of three files per worker.
MutCap == 3 * NumWorkers

\* sync_channel(workers * 2)
Cap == 2 * NumWorkers

\* Mutant: a worker goes on to the next CU, not to the next of its stride.
MutStride == 1

\* `i += workers`
Stride == NumWorkers

MainState   == {"off", "threads", "tables", "names", "cleanStore", "cleanDone",
                "cleanNames", "staging", "exited"}
WorkerState == {"open", "loop", "index", "scan", "send", "gone"}
FolderState == {"recv", "fold", "log", "lastFold", "lastLog", "done", "err"}
Outcome     == {"none", "ok", "empty", "failed"}

RangeOf(s) == {s[i] : i \in 1 .. Len(s)}

\* The types of the pipeline and of its files.
TypeOK ==
    /\ SinkTypeOK
    /\ gs \subseteq Units /\ gsExists \in BOOLEAN
    /\ doneLog \subseteq Units /\ doneTail \in Units \cup {NoUnit, Garbled}
    /\ out \in {"absent", "partial", "built"} /\ served \subseteq Units
    /\ index \subseteq Row \cup {Garbage}
    /\ proc \in MainState
    /\ plan \subseteq Units
    /\ pos \in [Workers -> Nat]
    /\ wpc \in [Workers -> WorkerState]
    /\ cur \in [Workers -> Units \cup {NoUnit}]
    /\ staged \subseteq Units /\ stale \subseteq Units
    /\ chan \in Seq(Units) /\ batch \in Seq(Units)
    /\ folder \in FolderState
    /\ batchBytes \in Nat /\ logged \in Nat /\ folded \in Nat
    /\ outcome \in [Units -> Outcome] /\ deserted \subseteq Units
    /\ kills \in 0 .. MaxKills /\ faults \in 0 .. MaxFaults

-----------------------------------------------------------------------------
(***************************************************************************)
(* The done log.  A line is written as stem, then newline: a kill between  *)
(* the two leaves a tail that is still a readable line, until the next     *)
(* append glues its own stem to it.                                        *)
(***************************************************************************)
ReadDone == doneLog \cup ({doneTail} \cap Units)

Glued(tail, u) == IF tail = NoUnit THEN u ELSE Garbled

\* Mutant: a glued line counts as a folded CU.
MutAppendDone(u) == doneLog' = doneLog \cup {Glued(doneTail, u)} /\ doneTail' = NoUnit

\* `writeln!(f, "{stem}")` in append_done, newline included.
AppendDone(u) ==
    /\ doneLog' = doneLog \cup ({Glued(doneTail, u)} \cap Units)
    /\ doneTail' = NoUnit

\* ... and when only the stem gets there.
TearDone(u) == doneTail' = Glued(doneTail, u) /\ UNCHANGED doneLog

BatchFull(files, bytes) == files >= BatchFiles \/ bytes >= BatchBytes

AllGone == \A w \in Workers : wpc[w] = "gone"
Running == proc \notin {"off", "exited"}

Fault == /\ faults < MaxFaults
         /\ faults' = faults + 1
         /\ UNCHANGED kills

\* An error of the names log: a fault the first time; a disk that is full, or
\* a file that is not UTF-8, may go on failing.
LogFault == IF logBad THEN UNCHANGED faultVars ELSE Fault

Init ==
    /\ SinkInit
    /\ gs = {} /\ gsExists = FALSE
    /\ doneLog = {} /\ doneTail = NoUnit
    /\ out = "absent" /\ served = {} /\ index = {}
    /\ proc = "off" /\ plan = {}
    /\ pos = [w \in Workers |-> w]
    /\ wpc = [w \in Workers |-> "gone"]
    /\ cur = [w \in Workers |-> NoUnit]
    /\ staged = {} /\ stale = {} /\ chan = <<>>
    /\ folder = "done" /\ batch = <<>> /\ batchBytes = 0 /\ logged = 0 /\ folded = 0
    /\ outcome = [u \in Units |-> "none"] /\ deserted = {}
    /\ kills = 0 /\ faults = 0

-----------------------------------------------------------------------------
(***************************************************************************)
(* The main thread.                                                        *)
(***************************************************************************)

\* Mutant: the output directory is not looked at.
MutOutputFree == TRUE

\* "--out already exists; remove it first"
OutputFree == out = "absent"

\* Mutant: --resume is forgotten in the test.
MutStoreUsable(resume) == ~gsExists

\* "--graphstore already exists; pass --resume to continue, or remove it"
StoreUsable(resume) == gsExists => resume

\* The CUs left to index.  The done log is read only beside a GraphStore.
PlanOf == IF gsExists THEN Units \ ReadDone ELSE Units

(***************************************************************************)
(* The command starts: it refuses an output that exists, and a GraphStore  *)
(* that exists unless told to resume; it reads the logs and spawns the     *)
(* threads.  A log that cannot be read is taken for an empty one.  What    *)
(* the staging directory holds is not looked at.                           *)
(***************************************************************************)
Start(resume) ==
    /\ proc \in {"off", "exited"}
    /\ OutputFree /\ StoreUsable(resume)
    /\ proc' = "threads"
    /\ \/ /\ plan' = PlanOf
          /\ IF WantNames THEN OpenSink ELSE UNCHANGED sinkVars
          /\ UNCHANGED faultVars
       \/ /\ plan' = PlanOf
          /\ WantNames /\ OpenSinkFails /\ LogFault
       \/ /\ plan' = Units
          /\ IF WantNames THEN OpenSink ELSE UNCHANGED sinkVars
          /\ Fault
    /\ pos' = [w \in Workers |-> w]
    /\ wpc' = [w \in Workers |-> "open"]
    /\ folder' = "recv"
    /\ outcome' = [u \in Units |-> "none"] /\ deserted' = {}
    /\ UNCHANGED <<storeVars, doneVars, outVars, cur, fileVars, chan, batch, batchBytes, logged, folded>>

\* What is left of the threads' state when the process ends.  (What its
\* workers counted is printed.)
ThreadsEnd ==
    /\ plan' = {}
    /\ pos' = [w \in Workers |-> w]
    /\ wpc' = [w \in Workers |-> "gone"]
    /\ cur' = [w \in Workers |-> NoUnit]
    /\ chan' = <<>>
    /\ folder' = "done"
    /\ batch' = <<>> /\ batchBytes' = 0 /\ logged' = 0 /\ folded' = 0
    /\ UNCHANGED <<outcome, deserted>>

\* A run that fails or is killed leaves its entry files where they are: in the
\* directory it was given, or in one whose name has its pid and which no later
\* run looks into.
LeaveFiles ==
    /\ staged' = {}
    /\ stale' = IF FixedStaging THEN stale \cup staged ELSE {}

\* The sink is dropped on the way out of a run that fails: the call that failed
\* may have failed for the same reason as the log's last flush.
DropSink == CloseSink \/ CloseSinkFails

\* The scope ends once the folder and every worker have returned.
JoinOk ==
    /\ proc = "threads" /\ folder = "done" /\ AllGone
    /\ proc' = "tables"
    /\ UNCHANGED <<sinkVars, storeVars, doneVars, outVars, plan, workVars, fileVars, chan,
                   foldVars, faultVars>>

\* The folder's error is run's error; the sink is dropped on the way out.
JoinErr ==
    /\ proc = "threads" /\ folder = "err" /\ AllGone
    /\ proc' = "off"
    /\ \/ CloseSink /\ UNCHANGED faultVars
       \/ CloseSinkFails /\ LogFault
    /\ ThreadsEnd /\ LeaveFiles
    /\ UNCHANGED <<storeVars, doneVars, outVars>>

AfterNames == IF KeepGraphstore THEN "staging" ELSE "cleanStore"

\* Opening a GraphStore that is not there may create an empty one.
WriteTables ==
    /\ proc = "tables"
    /\ out' = "built" /\ served' = gs
    /\ gsExists' \in {gsExists, TRUE}
    /\ proc' = IF WantNames THEN "names" ELSE AfterNames
    /\ UNCHANGED <<sinkVars, gs, doneVars, index, plan, workVars, fileVars, chan,
                   foldVars, faultVars>>

\* write_tables fails, with or without having created its output directory.
WriteTablesFails ==
    /\ proc = "tables"
    /\ Fault
    /\ out' \in {"absent", "partial"}
    /\ proc' = "off"
    /\ DropSink
    /\ ThreadsEnd /\ LeaveFiles
    /\ UNCHANGED <<storeVars, doneVars, served, index>>

\* Mutant: the index is made from the log, whose writer still holds rows.
MutIndexRows == ReadNames

\* The rows of the final index: the set in memory, not the log.
IndexRows == nameSet

\* write_index replaces the index file; then the sink goes out of scope.
WriteNames ==
    /\ proc = "names"
    /\ index' = IndexRows
    /\ \/ CloseSink /\ UNCHANGED faultVars
       \/ CloseSinkFails /\ LogFault
    /\ proc' = AfterNames
    /\ UNCHANGED <<storeVars, doneVars, out, served, plan, workVars, fileVars, chan, foldVars>>

\* write_index fails: before it truncates the file, or in the middle.
WriteNamesFails ==
    /\ proc = "names"
    /\ Fault
    /\ index' \in {index, {}}
    /\ proc' = "off"
    /\ DropSink
    /\ ThreadsEnd /\ LeaveFiles
    /\ UNCHANGED <<storeVars, doneVars, out, served>>

(***************************************************************************)
(* The cleanup, one removal after the other.  A removal that fails is      *)
(* ignored, and a directory may be left with a part of what it held.       *)
(***************************************************************************)
CleanStore ==
    /\ proc = "cleanStore"
    /\ \/ gs' = {} /\ gsExists' = FALSE /\ UNCHANGED faultVars
       \/ Fault /\ gs' \in SUBSET gs /\ UNCHANGED gsExists
    /\ proc' = "cleanDone"
    /\ UNCHANGED <<sinkVars, doneVars, outVars, plan, workVars, fileVars, chan, foldVars>>

CleanDone ==
    /\ proc = "cleanDone"
    /\ \/ doneLog' = {} /\ doneTail' = NoUnit /\ UNCHANGED faultVars
       \/ Fault /\ UNCHANGED doneVars
    /\ proc' = "cleanNames"
    /\ UNCHANGED <<sinkVars, storeVars, outVars, plan, workVars, fileVars, chan, foldVars>>

CleanNames ==
    /\ proc = "cleanNames"
    /\ \/ RemoveNameLog /\ UNCHANGED faultVars
       \/ Fault /\ UNCHANGED sinkVars
    /\ proc' = "staging"
    /\ UNCHANGED <<storeVars, doneVars, outVars, plan, workVars, fileVars, chan, foldVars>>

\* The staging directory is removed, as far as that goes, with whatever it
\* holds, and the command succeeds.
Exit ==
    /\ proc = "staging"
    /\ proc' = "exited"
    /\ ThreadsEnd
    /\ staged' = {}
    /\ \/ stale' = {} /\ UNCHANGED faultVars
       \/ FixedStaging /\ Fault /\ stale' \in SUBSET (stale \cup staged)
    /\ UNCHANGED <<sinkVars, storeVars, doneVars, outVars>>

MainStep ==
    \/ JoinOk \/ JoinErr
    \/ WriteTables \/ WriteTablesFails
    \/ WriteNames \/ WriteNamesFails
    \/ CleanStore \/ CleanDone \/ CleanNames \/ Exit

-----------------------------------------------------------------------------
(***************************************************************************)
(* A worker: one CU at a time, from its stride of the plan.                *)
(***************************************************************************)
mainVars == <<storeVars, doneVars, outVars, proc, plan>>

Goto(w, pc) == wpc' = [wpc EXCEPT ![w] = pc]

Count(w, result) == outcome' = [outcome EXCEPT ![cur[w]] = result]

PutDown(w) == cur' = [cur EXCEPT ![w] = NoUnit]

Open(w) ==
    /\ wpc[w] = "open"
    /\ Goto(w, "loop")
    /\ UNCHANGED <<sinkVars, mainVars, pos, cur, outcome, deserted, fileVars, chan, foldVars, faultVars>>

\* The worker cannot open the kzip: it says so on stderr and returns, and
\* nobody takes over its stride or counts it.
OpenFails(w) ==
    /\ wpc[w] = "open"
    /\ Fault
    /\ Goto(w, "gone")
    /\ deserted' = deserted \cup StrideOf(w, Stride, plan)
    /\ UNCHANGED <<sinkVars, mainVars, pos, cur, outcome, fileVars, chan, foldVars>>

\* It takes the CU at its position and runs the indexer into an entry file, a
\* new one or the truncated one that an earlier run left.
Take(w) ==
    /\ wpc[w] = "loop"
    /\ \E u \in plan :
          /\ Position(u, plan) = pos[w]
          /\ cur' = [cur EXCEPT ![w] = u]
          /\ staged' = staged \cup {u}
          /\ stale' = stale \ {u}
    /\ pos' = [pos EXCEPT ![w] = @ + Stride]
    /\ Goto(w, "index")
    /\ UNCHANGED <<sinkVars, mainVars, outcome, deserted, chan, foldVars, faultVars>>

\* The CU cannot be extracted, or its entry file not be created: it is counted
\* and what an earlier run left of it stays.
TakeFails(w) ==
    /\ wpc[w] = "loop"
    /\ \E u \in plan :
          /\ Position(u, plan) = pos[w]
          /\ outcome' = [outcome EXCEPT ![u] = "failed"]
    /\ pos' = [pos EXCEPT ![w] = @ + Stride]
    /\ UNCHANGED <<sinkVars, mainVars, wpc, cur, deserted, fileVars, chan, foldVars, faultVars>>

\* Past the end of the plan the worker returns and drops its sender.
Finish(w) ==
    /\ wpc[w] = "loop"
    /\ pos[w] >= Cardinality(plan)
    /\ Goto(w, "gone")
    /\ UNCHANGED <<sinkVars, mainVars, pos, cur, outcome, deserted, fileVars, chan, foldVars, faultVars>>

\* `let _ = remove_file(..)` of the entry files of the CUs S: with a fault some
\* of them stay.
RemoveEntries(S) ==
    /\ staged' = staged \ S
    /\ \/ UNCHANGED <<stale, faultVars>>
       \/ Fault /\ \E kept \in SUBSET S \ {{}} : stale' = stale \cup kept

\* The indexer cannot be spawned, fails, or writes nothing: the CU is counted
\* and its entry file removed.
Indexed(w, result) ==
    /\ wpc[w] = "index"
    /\ IF result = "ok"
       THEN /\ Goto(w, "scan")
            /\ UNCHANGED <<cur, outcome, fileVars, faultVars>>
       ELSE /\ Goto(w, "loop")
            /\ Count(w, result)
            /\ PutDown(w)
            /\ RemoveEntries({cur[w]})
    /\ UNCHANGED <<sinkVars, mainVars, pos, deserted, chan, foldVars>>

\* The names of the CU go to the sink before its file goes to the folder.
Scan(w) ==
    /\ wpc[w] = "scan"
    /\ \/ /\ IF WantNames THEN AddRows(RowsOf[cur[w]]) ELSE UNCHANGED sinkVars
          /\ UNCHANGED faultVars
       \/ WantNames /\ AddFails(RowsOf[cur[w]]) /\ LogFault
    /\ Count(w, "ok")
    /\ Goto(w, "send")
    /\ UNCHANGED <<mainVars, pos, cur, deserted, fileVars, chan, foldVars>>

\* `let _ = scan_file(..)`: an error leaves a part of the rows, and is dropped.
ScanFails(w) ==
    /\ wpc[w] = "scan" /\ WantNames /\ ScanMayFail
    /\ Fault
    /\ \E rows \in SUBSET RowsOf[cur[w]] : AddRows(rows) \/ AddFails(rows)
    /\ Count(w, "ok")
    /\ Goto(w, "send")
    /\ UNCHANGED <<mainVars, pos, cur, deserted, fileVars, chan, foldVars>>

\* The send blocks while the channel is full.
Send(w) ==
    /\ wpc[w] = "send" /\ folder # "err"
    /\ Len(chan) < Cap
    /\ chan' = Append(chan, cur[w])
    /\ PutDown(w)
    /\ Goto(w, "loop")
    /\ UNCHANGED <<sinkVars, mainVars, pos, outcome, deserted, fileVars, foldVars, faultVars>>

\* Mutant: a send to a dead folder blocks.
MutSendFails(w) == FALSE

\* The folder is gone, and the receiver with it: the send errs, the loop breaks.
SendFails(w) ==
    /\ wpc[w] = "send" /\ folder = "err"
    /\ PutDown(w)
    /\ Goto(w, "gone")
    /\ UNCHANGED <<sinkVars, mainVars, pos, outcome, deserted, fileVars, chan, foldVars, faultVars>>

WorkerStep(w) ==
    \/ Open(w) \/ OpenFails(w)
    \/ Take(w) \/ TakeFails(w) \/ Finish(w)
    \/ \E result \in {"ok", "empty", "failed"} : Indexed(w, result)
    \/ Scan(w) \/ ScanFails(w)
    \/ Send(w) \/ SendFails(w)

-----------------------------------------------------------------------------
(***************************************************************************)
(* The folder thread, the one writer of the GraphStore and the done log.   *)
(***************************************************************************)
Receive ==
    /\ folder = "recv" /\ chan # <<>>
    /\ batch' = Append(batch, Head(chan))
    /\ batchBytes' = batchBytes + Size[Head(chan)]
    /\ chan' = Tail(chan)
    /\ folder' = IF BatchFull(Len(batch'), batchBytes') THEN "fold" ELSE "recv"
    /\ UNCHANGED <<sinkVars, mainVars, workVars, fileVars, logged, folded, faultVars>>

\* Mutant: the last, partial batch is forgotten.
MutDisconnect ==
    /\ folder = "recv" /\ chan = <<>> /\ AllGone
    /\ folder' = "done"
    /\ UNCHANGED <<sinkVars, mainVars, workVars, fileVars, chan, batch, batchBytes, logged,
                   folded, faultVars>>

\* recv errs once the channel is empty and the last sender is dropped.
Disconnect ==
    /\ folder = "recv" /\ chan = <<>> /\ AllGone
    /\ folder' = "lastFold"
    /\ UNCHANGED <<sinkVars, mainVars, workVars, fileVars, chan, batch, batchBytes, logged,
                   folded, faultVars>>

\* Mutant: the last file of a batch is not fed.
MutFed(files) == {files[i] : i \in 1 .. Len(files) - 1}

\* The entry files fed to one write_entries.
Fed(files) == RangeOf(files)

\* fold_batch: write_entries takes the batch, then its files are deleted.
Fold ==
    /\ folder \in {"fold", "lastFold"}
    /\ gs' = gs \cup Fed(batch)
    /\ gsExists' = (gsExists \/ batch # <<>>)
    /\ RemoveEntries(RangeOf(batch))
    /\ folder' = IF folder = "fold" THEN "log" ELSE "lastLog"
    /\ UNCHANGED <<sinkVars, doneVars, outVars, proc, plan, workVars, chan, batch, batchBytes,
                   logged, folded>>

\* What of a batch may be in the GraphStore when a fold does not complete.
PartOf(files) == /\ \E part \in SUBSET RangeOf(files) : gs' = gs \cup part
                 /\ gsExists' \in {gsExists \/ gs' # gs, TRUE}

\* Mutant: the exit status of write_entries is not checked.
MutFoldFails ==
    /\ folder \in {"fold", "lastFold"} /\ batch # <<>>
    /\ Fault
    /\ PartOf(batch)
    /\ staged' = staged \ Fed(batch)
    /\ folder' = IF folder = "fold" THEN "log" ELSE "lastLog"
    /\ UNCHANGED <<sinkVars, doneVars, outVars, proc, plan, workVars, stale, chan, batch,
                   batchBytes, logged, folded>>

\* write_entries fails: the files stay, and the receiver is dropped with
\* what the channel holds.
FoldFails ==
    /\ folder \in {"fold", "lastFold"} /\ batch # <<>>
    /\ Fault
    /\ PartOf(batch)
    /\ folder' = "err"
    /\ chan' = <<>>
    /\ UNCHANGED <<sinkVars, doneVars, outVars, proc, plan, workVars, fileVars, batch, batchBytes,
                   logged, folded>>

\* append_done, one line at a time.
LogLine ==
    /\ folder \in {"log", "lastLog"} /\ logged < Len(batch)
    /\ AppendDone(batch[logged + 1])
    /\ logged' = logged + 1
    /\ UNCHANGED <<sinkVars, storeVars, outVars, proc, plan, workVars, fileVars, chan, folder,
                   batch, batchBytes, folded, faultVars>>

\* The log cannot be opened, or a write to it fails (perhaps the newline's).
LogFails ==
    /\ folder \in {"log", "lastLog"}
    /\ Fault
    /\ \/ UNCHANGED doneVars
       \/ logged < Len(batch) /\ TearDone(batch[logged + 1])
    /\ folder' = "err"
    /\ chan' = <<>>
    /\ UNCHANGED <<sinkVars, storeVars, outVars, proc, plan, workVars, fileVars, batch, batchBytes,
                   logged, folded>>

LogDone ==
    /\ folder \in {"log", "lastLog"} /\ logged = Len(batch)
    /\ folded' = folded + Len(batch)
    /\ batch' = <<>> /\ batchBytes' = 0 /\ logged' = 0
    /\ folder' = IF folder = "log" THEN "recv" ELSE "done"
    /\ UNCHANGED <<sinkVars, mainVars, workVars, fileVars, chan, faultVars>>

FolderStep == Receive \/ Disconnect \/ Fold \/ FoldFails \/ LogLine \/ LogFails \/ LogDone

-----------------------------------------------------------------------------
(***************************************************************************)
(* The environment.                                                        *)
(***************************************************************************)

\* The process is killed.  The step it was in may have reached the disk in part.
Kill ==
    /\ Running
    /\ kills < MaxKills /\ kills' = kills + 1
    /\ proc' = "off"
    /\ KillSink
    /\ ThreadsEnd /\ LeaveFiles
    /\ IF folder \in {"fold", "lastFold"} /\ batch # <<>> THEN PartOf(batch)
       ELSE IF proc = "cleanStore" THEN gs' \in SUBSET gs /\ UNCHANGED gsExists
       ELSE UNCHANGED storeVars
    /\ \/ UNCHANGED doneVars
       \/ folder \in {"log", "lastLog"} /\ logged < Len(batch) /\ TearDone(batch[logged + 1])
    /\ IF proc = "tables" THEN out' \in {"absent", "partial"} ELSE UNCHANGED out
    /\ IF proc = "names" THEN index' \in {index, {}} ELSE UNCHANGED index
    /\ UNCHANGED <<served, faults>>

\* The user removes the output, as the refusal asks, and with it a name index
\* at its default place inside the output directory.
RemoveOut ==
    /\ ~Running /\ out # "absent"
    /\ out' = "absent"
    /\ index' \in {index, {}}
    /\ UNCHANGED <<sinkVars, storeVars, doneVars, served, proc, plan, workVars, fileVars, chan,
                   foldVars, faultVars>>

\* The user removes the GraphStore directory, as the refusal allows.
RemoveStore ==
    /\ AllowRemoveStore /\ ~Running /\ gsExists
    /\ gs' = {} /\ gsExists' = FALSE
    /\ UNCHANGED <<sinkVars, doneVars, outVars, proc, plan, workVars, fileVars, chan, foldVars,
                   faultVars>>

\* The operator reruns the command until it succeeds.
Retry == \/ Start(TRUE)
         \/ proc = "off" /\ RemoveOut

Next ==
    \/ \E resume \in BOOLEAN : Start(resume)
    \/ MainStep
    \/ \E w \in Workers : WorkerStep(w)
    \/ FolderStep
    \/ Kill
    \/ RemoveOut
    \/ RemoveStore

Spec == Init /\ [][Next]_vars

(***************************************************************************)
(* Fairness: the threads are scheduled and the external tools they wait    *)
(* for return; the operator reruns a command that did not succeed.         *)
(***************************************************************************)
ThreadFairness ==
    /\ WF_vars(MainStep)
    /\ WF_vars(FolderStep)
    /\ \A w \in Workers : WF_vars(WorkerStep(w))

FairSpec == Spec /\ ThreadFairness

RetrySpec == FairSpec /\ WF_vars(Retry)

-----------------------------------------------------------------------------
(***************************************************************************)
(* Properties.                                                             *)
(***************************************************************************)

\* The done log of a GraphStore names only CUs whose entries are in it: a
\* resumed run, which skips what the log names, loses nothing.  (append_done
\* runs after write_entries returned; the log has the GraphStore's lifetime.)
DoneImpliesFolded == gsExists => ReadDone \subseteq gs

\* A CU is in one place: two workers never index the same CU, and none that
\* the folder has received or will receive is indexed or received again.
Exclusive ==
    LET queue == batch \o chan IN
    /\ \A v, w \in Workers : v # w /\ cur[v] # NoUnit => cur[v] # cur[w]
    /\ \A w \in Workers : cur[w] \notin RangeOf(queue)
    /\ \A i, j \in 1 .. Len(queue) : queue[i] = queue[j] => i = j

\* One entry file per worker, a full channel and a full batch.
InFlight == NumWorkers + 2 * NumWorkers + BatchFiles

\* A run has at most InFlight entry files in the staging directory; what it
\* finds there is at most as much for each kill and each failing call before
\* it, however often the command is rerun; and a batch at a limit is folded
\* before the folder receives more.
InFlightBounded ==
    /\ Cardinality(staged) <= InFlight
    /\ Cardinality(stale) <= InFlight * (kills + faults)
    /\ folder = "recv" => Len(batch) < BatchFiles /\ batchBytes < BatchBytes

\* When the threads have been joined, the CUs of the plan that nobody counted
\* are exactly those of the workers that could not open the kzip; the CUs
\* counted as ok are in the GraphStore, and `folded` is their number.
SummaryAccounts ==
    proc = "tables" =>
        LET ok == {u \in Units : outcome[u] = "ok"} IN
        /\ {u \in plan : outcome[u] = "none"} = deserted
        /\ ok \subseteq gs
        /\ folded = Cardinality(ok)

\* A published table has every CU but those the publishing run counted as
\* failed or empty, and those it neither counted nor indexed because their
\* worker could not open the kzip: whatever earlier runs were killed or failed
\* in the middle of.
PublishedComplete ==
    out = "built" =>
        \A u \in Units : u \in served \cup deserted \/ outcome[u] \in {"failed", "empty"}

\* An entry file is deleted only if its CU failed, wrote nothing, or is in the
\* GraphStore: until then the file is the only copy of its entries.
DeletedOnlyWhenFolded ==
    [][Running' => \A u \in staged \ staged' :
          u \in gs' \/ outcome'[u] \in {"failed", "empty"}]_vars

\* Beside the table of a run that succeeded, the name index has the rows of
\* every CU the table serves: one that is skipped, or deleted after its fold,
\* was scanned before.
NamesComplete ==
    proc = "exited" /\ out = "built" /\ WantNames => UNION {RowsOf[u] : u \in served} \subseteq index

\* If no run was killed, and no write or read of the log has failed, the index
\* is complete and it has no row that is in no entry stream: other errors leave
\* the log whole.
NamesUnlessLost ==
    kills = 0 /\ ~logBad => /\ NamesComplete
                            /\ proc = "exited" => index \subseteq Row

\* Whatever happened before, it has the rows of every CU the run itself indexed.
NamesOfThisRun ==
    proc = "exited" /\ out = "built" /\ WantNames =>
        \A u \in Units : outcome[u] = "ok" => RowsOf[u] \subseteq index

\* With the GraphStore kept, what is on disk implements the contract of a
\* resumable run: nothing unfolded is ever skippable, nothing folded is lost,
\* and a table is published from a GraphStore that has every CU not reported.
Contract == INSTANCE ResumeContract WITH
    Unit      <- Units,
    NoTable   <- NoUnit,
    folded    <- gs,
    skippable <- ReadDone,
    reported  <- deserted \cup {u \in Units : outcome[u] \in {"failed", "empty"}},
    table     <- IF out = "built" THEN served ELSE NoUnit

\* The pipeline implements the resume contract, when `skippable` is what its
\* done log says and `table` what it has published.
ImplementsContract == Contract!Spec

\* A run ends: no worker stays blocked on a channel whose folder is dead, and
\* the folder does not wait for a sender that is gone.
RunTerminates == Running ~> ~Running

\* An operator who reruns the command gets a table and a name index in the end.
EventuallyPublished == []<>(proc = "exited")
=============================================================================
