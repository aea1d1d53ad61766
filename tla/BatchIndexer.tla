---------------------------- MODULE BatchIndexer ----------------------------
(***************************************************************************)
(* `scry3 index` (indexer.rs, run): every CU of the plan is extracted into *)
(* a sub-kzip and handed to its indexer, a process whose stdout is the     *)
(* file `<sha>.entries.tmp`; when the indexer has succeeded and written    *)
(* something, the file is renamed to `<sha>.entries`.  Workers share the   *)
(* plan by stride.  A run may be killed at any step and resumed: it then   *)
(* skips the CUs that have a .entries file.                                *)
(***************************************************************************)
EXTENDS EntryDir, StridePlan

CONSTANTS
    NumWorkers,   \* --workers
    Poor,         \* CUs whose indexer always fails or writes nothing
    MaxKills,     \* bound: kills of the process
    MaxFaults     \* bound: fallible calls that fail

Workers == 0 .. NumWorkers - 1

ASSUME IndexAssumption == /\ NumWorkers \in Nat \ {0}
                          /\ Poor \subseteq Units
                          /\ MaxKills \in Nat /\ MaxFaults \in Nat

VARIABLES
    temp,       \* CU -> what its .entries.tmp file holds; "empty" when it has no byte
    running,    \* the process is there
    plan,       \* the CUs it indexes, in kzip order
    pos,        \* worker -> i, its next position in the plan
    wpc,        \* worker -> what it does next
    cur,        \* worker -> the CU in its hands, or NoUnit
    outcome,    \* CU -> what the last run counted it as
    ended,      \* the last run got to its end
    kills, faults

planVars  == <<running, plan, ended>>
faultVars == <<kills, faults>>
indexVars == <<temp, planVars, pos, wpc, cur, outcome, faultVars>>
ivars     == <<entries, indexVars>>

TempContent == Content \cup {"empty"}
WorkerState == {"open", "loop", "extract", "spawn", "wait", "rename", "gone"}
Outcome     == {"none", "ok", "empty", "failed", "unopened"}

\* The types of `index`: a .entries file may be whole or cut but never empty
\* (an empty output is not renamed); its .tmp may be.
IndexTypeOK ==
    /\ EntriesTypeOK
    /\ temp \in [Units -> TempContent]
    /\ running \in BOOLEAN /\ ended \in BOOLEAN
    /\ plan \subseteq Units
    /\ pos \in [Workers -> Nat]
    /\ wpc \in [Workers -> WorkerState]
    /\ cur \in [Workers -> Units \cup {NoUnit}]
    /\ outcome \in [Units -> Outcome]
    /\ kills \in 0 .. MaxKills /\ faults \in 0 .. MaxFaults

AllGone == \A w \in Workers : wpc[w] = "gone"

\* Mutant: a worker goes on to the next CU, not to the next of its stride.
MutStride == 1

\* `i += workers`
Stride == NumWorkers

IndexInit ==
    /\ EntriesInit
    /\ temp = [u \in Units |-> "absent"]
    /\ running = FALSE /\ ended = FALSE
    /\ plan = {}
    /\ pos = [w \in Workers |-> w]
    /\ wpc = [w \in Workers |-> "gone"]
    /\ cur = [w \in Workers |-> NoUnit]
    /\ outcome = [u \in Units |-> "none"]
    /\ kills = 0 /\ faults = 0

Fault == /\ faults < MaxFaults
         /\ faults' = faults + 1
         /\ UNCHANGED kills

-----------------------------------------------------------------------------
(***************************************************************************)
(* The main thread.                                                        *)
(***************************************************************************)

\* Mutant: what a killed run has begun counts as done.
MutDone(u) == temp[u] # "absent" \/ entries[u] # "absent"

\* "already-done": metadata(<sha>.entries).len() > 0
Done(u) == entries[u] # "absent"

\* The command starts; with nothing to do it is at its end at once.
StartIndex(resume) ==
    /\ ~running
    /\ plan' = {u \in Units : ~(resume /\ Done(u))}
    /\ running' = (plan' # {})
    /\ ended' = (plan' = {})
    /\ pos' = [w \in Workers |-> w]
    /\ wpc' = [w \in Workers |-> IF plan' = {} THEN "gone" ELSE "open"]
    /\ cur' = [w \in Workers |-> NoUnit]
    /\ outcome' = [u \in Units |-> "none"]
    /\ UNCHANGED <<entries, temp, faultVars>>

\* The scope ends when every worker has returned, with Ok or Err; the summary
\* is printed and the command succeeds.
Summarize ==
    /\ running /\ AllGone
    /\ running' = FALSE /\ ended' = TRUE
    /\ UNCHANGED <<entries, temp, plan, pos, wpc, cur, outcome, faultVars>>

-----------------------------------------------------------------------------
(***************************************************************************)
(* A worker.                                                               *)
(***************************************************************************)
Goto(w, pc) == wpc' = [wpc EXCEPT ![w] = pc]

\* The CU in w's hands is counted, and the worker goes on to its next one.
Count(w, result) ==
    /\ outcome' = [outcome EXCEPT ![cur[w]] = result]
    /\ cur' = [cur EXCEPT ![w] = NoUnit]
    /\ Goto(w, "loop")

\* `let _ = remove_file(&out_tmp)`: it may fail, and nobody looks.
DropTemp(u) == temp' \in {[temp EXCEPT ![u] = "absent"], temp}

OpenKzip(w) ==
    /\ wpc[w] = "open"
    /\ Goto(w, "loop")
    /\ UNCHANGED <<entries, temp, planVars, pos, cur, outcome, faultVars>>

\* `SubKzipWriter::open(kzip_path)?`: the thread returns Err, which nobody
\* reads, and nobody takes over its stride.
OpenKzipFails(w) ==
    /\ wpc[w] = "open"
    /\ Fault
    /\ Goto(w, "gone")
    /\ outcome' = [u \in Units |-> IF u \in StrideOf(w, Stride, plan) THEN "unopened" ELSE outcome[u]]
    /\ UNCHANGED <<entries, temp, planVars, pos, cur>>

Take(w) ==
    /\ wpc[w] = "loop"
    /\ \E u \in plan : Position(u, plan) = pos[w] /\ cur' = [cur EXCEPT ![w] = u]
    /\ pos' = [pos EXCEPT ![w] = @ + Stride]
    /\ Goto(w, "extract")
    /\ UNCHANGED <<entries, temp, planVars, outcome, faultVars>>

\* Mutant: `while i + 1 < plan.len()`.
MutFinish(w) ==
    /\ wpc[w] = "loop"
    /\ pos[w] + 1 >= Cardinality(plan)
    /\ Goto(w, "gone")
    /\ UNCHANGED <<entries, temp, planVars, pos, cur, outcome, faultVars>>

Finish(w) ==
    /\ wpc[w] = "loop"
    /\ pos[w] >= Cardinality(plan)
    /\ Goto(w, "gone")
    /\ UNCHANGED <<entries, temp, planVars, pos, cur, outcome, faultVars>>

\* The extraction, the command or File::create(&out_tmp) fails.
NotStarted(w) ==
    /\ wpc[w] = "extract"
    /\ Fault
    /\ Count(w, "failed")
    /\ UNCHANGED <<entries, temp, planVars, pos>>

\* Mutant: the last run's result is removed first.
MutCreateTemp(w) ==
    /\ wpc[w] = "extract"
    /\ temp' = [temp EXCEPT ![cur[w]] = "empty"]
    /\ entries' = [entries EXCEPT ![cur[w]] = "absent"]
    /\ Goto(w, "spawn")
    /\ UNCHANGED <<planVars, pos, cur, outcome, faultVars>>

\* File::create truncates what a killed run may have left there.
CreateTemp(w) ==
    /\ wpc[w] = "extract"
    /\ temp' = [temp EXCEPT ![cur[w]] = "empty"]
    /\ Goto(w, "spawn")
    /\ UNCHANGED <<entries, planVars, pos, cur, outcome, faultVars>>

Spawn(w) ==
    /\ wpc[w] = "spawn"
    /\ Goto(w, "wait")
    /\ UNCHANGED <<entries, temp, planVars, pos, cur, outcome, faultVars>>

SpawnFails(w) ==
    /\ wpc[w] = "spawn"
    /\ Fault
    /\ DropTemp(cur[w])
    /\ Count(w, "failed")
    /\ UNCHANGED <<entries, planVars, pos>>

\* The indexer writes, on its own time.
IndexerWrites(w) ==
    /\ wpc[w] = "wait" /\ temp[cur[w]] = "empty"
    /\ temp' = [temp EXCEPT ![cur[w]] = "part"]
    /\ UNCHANGED <<entries, planVars, pos, wpc, cur, outcome, faultVars>>

\* The indexer succeeds: it has written the whole of its stream.
IndexerOk(w) ==
    /\ wpc[w] = "wait" /\ cur[w] \notin Poor
    /\ temp' = [temp EXCEPT ![cur[w]] = "whole"]
    /\ Goto(w, "rename")
    /\ UNCHANGED <<entries, planVars, pos, cur, outcome, faultVars>>

\* It succeeds without having written a byte.
IndexerEmpty(w) ==
    /\ wpc[w] = "wait" /\ cur[w] \in Poor /\ temp[cur[w]] = "empty"
    /\ DropTemp(cur[w])
    /\ Count(w, "empty")
    /\ UNCHANGED <<entries, planVars, pos, faultVars>>

\* Mutant: the exit status is not looked at.
MutIndexerFails(w) ==
    /\ wpc[w] = "wait" /\ temp[cur[w]] # "empty"
    /\ \/ cur[w] \in Poor /\ UNCHANGED faultVars
       \/ Fault
    /\ Goto(w, "rename")
    /\ UNCHANGED <<entries, temp, planVars, pos, cur, outcome>>

\* It exits with an error or dies of a signal, whatever it has written.
IndexerFails(w) ==
    /\ wpc[w] = "wait"
    /\ \/ cur[w] \in Poor /\ UNCHANGED faultVars
       \/ Fault
    /\ DropTemp(cur[w])
    /\ Count(w, "failed")
    /\ UNCHANGED <<entries, planVars, pos>>

Rename(w) ==
    /\ wpc[w] = "rename"
    /\ entries' = [entries EXCEPT ![cur[w]] = temp[cur[w]]]
    /\ temp' = [temp EXCEPT ![cur[w]] = "absent"]
    /\ Count(w, "ok")
    /\ UNCHANGED <<planVars, pos, faultVars>>

\* `let _ = rename(..)`: a failure is counted as a success.
RenameFails(w) ==
    /\ wpc[w] = "rename"
    /\ Fault
    /\ Count(w, "ok")
    /\ UNCHANGED <<entries, temp, planVars, pos>>

IndexWorker(w) ==
    \/ OpenKzip(w) \/ OpenKzipFails(w)
    \/ Take(w) \/ Finish(w)
    \/ NotStarted(w) \/ CreateTemp(w)
    \/ Spawn(w) \/ SpawnFails(w)
    \/ IndexerOk(w) \/ IndexerEmpty(w) \/ IndexerFails(w)
    \/ Rename(w) \/ RenameFails(w)

-----------------------------------------------------------------------------
\* The process is killed, and its indexers with it; the files stay.
KillIndex ==
    /\ running
    /\ kills < MaxKills /\ kills' = kills + 1
    /\ running' = FALSE
    /\ wpc' = [w \in Workers |-> "gone"]
    /\ cur' = [w \in Workers |-> NoUnit]
    /\ UNCHANGED <<entries, temp, plan, pos, outcome, ended, faults>>

IndexNext ==
    \/ \E resume \in BOOLEAN : StartIndex(resume)
    \/ Summarize
    \/ \E w \in Workers : IndexWorker(w) \/ IndexerWrites(w)
    \/ KillIndex

IndexSpec == IndexInit /\ [][IndexNext]_ivars

(***************************************************************************)
(* Fairness: the workers are scheduled and the indexers they wait for      *)
(* return; the operator reruns the command with --resume.                  *)
(***************************************************************************)
RerunSpec ==
    /\ IndexSpec
    /\ WF_ivars(Summarize)
    /\ \A w \in Workers : WF_ivars(IndexWorker(w))
    /\ WF_ivars(StartIndex(TRUE))

-----------------------------------------------------------------------------
(***************************************************************************)
(* Properties.                                                             *)
(***************************************************************************)

\* A .entries file has the whole stream of its CU, at every moment and after
\* kills and failures: a resumed run may skip it, and build may read it.
EntriesWhole == \A u \in Units : entries[u] # "part"

\* No two indexers write the same .entries.tmp file.
OneWriter == \A v, w \in Workers : v # w /\ cur[v] # NoUnit => cur[v] # cur[w]

\* What has landed stays: a rerun without --resume that fails or is killed
\* leaves the file of the run before.
LandedStays == [][\A u \in Units : entries[u] = "whole" => entries'[u] = "whole"]_ivars

\* At the end of a run that was not killed every CU of the plan is counted,
\* or belonged to a worker that could not open the kzip.
AllCounted == ended => \A u \in plan : outcome[u] # "none"

\* An operator who reruns the command gets the file of every CU that has one:
\* no CU, worker or file that fails stops the rest of a run.
AllLand == \A u \in Units \ Poor : <>(entries[u] = "whole")
=============================================================================
