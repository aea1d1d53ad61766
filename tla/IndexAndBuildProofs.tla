------------------------- MODULE IndexAndBuildProofs ------------------------
(***************************************************************************)
(* Theorems about BatchIndexer, alone and together with TableBuilder.      *)
(*                                                                         *)
(* A file that is renamed is whole: its worker saw the indexer succeed,    *)
(* and no other worker writes it, since a CU in a worker's hands is in its *)
(* stride and behind its position.  Last, at the end of a run every CU of  *)
(* its plan is counted.                                                    *)
(***************************************************************************)
EXTENDS IndexAndBuild, ListProofs

InHand == \A w \in Workers : wpc[w] \in {"extract", "spawn", "wait", "rename"} => cur[w] \in Units

Taken(u, w) ==
    u \in plan /\ Position(u, plan) % NumWorkers = w /\ Position(u, plan) < pos[w]

PlaceInv == \A w \in Workers : /\ pos[w] % NumWorkers = w
                               /\ cur[w] # NoUnit => Taken(cur[w], w)

WholeInv == /\ EntriesWhole
            /\ \A w \in Workers : wpc[w] = "rename" => temp[cur[w]] = "whole"

IndexInv == IndexTypeOK /\ InHand /\ PlaceInv /\ WholeInv

\* The invariant of `index` holds before its first run.
LEMMA IndexInitInv == IndexInit => IndexInv
<1> SUFFICES ASSUME IndexInit PROVE IndexInv
  OBVIOUS
<1>1. \A w \in Workers : w % NumWorkers = w
  BY IndexAssumption, StrideStart DEF Workers
<1>2. IndexTypeOK
  <2>1. MaxKills \in Nat /\ MaxFaults \in Nat /\ \A w \in Workers : w \in Nat
    BY IndexAssumption DEF Workers
  <2>2. kills \in 0 .. MaxKills /\ faults \in 0 .. MaxFaults /\ pos \in [Workers -> Nat]
    BY <2>1 DEF IndexInit
  <2>3. entries \in [Units -> Content] /\ temp \in [Units -> TempContent]
    BY DEF IndexInit, EntriesInit, Content, TempContent
  <2> QED BY <2>2, <2>3 DEF IndexInit, IndexTypeOK, EntriesTypeOK, WorkerState, Outcome
<1> QED BY <1>1, <1>2 DEF IndexInit, EntriesInit, IndexInv, InHand, PlaceInv, WholeInv, EntriesWhole

\* Every step of `index` keeps the types.
LEMMA IndexTypes ==
    ASSUME IndexInv, IndexNext PROVE IndexTypeOK' /\ InHand'
<1> USE DEF planVars, faultVars
<1>a. IndexTypeOK /\ InHand /\ NoUnit \notin Units /\ NumWorkers \in Nat \ {0}
      /\ MaxKills \in Nat /\ MaxFaults \in Nat
  BY UnitAssumption, IndexAssumption DEF IndexInv
<1> USE DEF IndexTypeOK, EntriesTypeOK, InHand
<1>f. ASSUME Fault PROVE kills' \in 0 .. MaxKills /\ faults' \in 0 .. MaxFaults
  BY <1>f, <1>a DEF Fault
<1>d. ASSUME NEW u \in Units, DropTemp(u) PROVE temp' \in [Units -> TempContent]
  BY <1>d, <1>a DEF DropTemp, TempContent, Content
<1>c. ASSUME NEW w \in Workers, NEW result \in {"ok", "empty", "failed"}, Count(w, result)
      PROVE  /\ outcome' \in [Units -> Outcome] /\ cur' \in [Workers -> Units \cup {NoUnit}]
             /\ wpc' \in [Workers -> WorkerState] /\ InHand'
  BY <1>c, <1>a DEF Count, Goto, Outcome, WorkerState
<1>1. ASSUME NEW resume \in BOOLEAN, StartIndex(resume) PROVE IndexTypeOK' /\ InHand'
  <2>1. pos' \in [Workers -> Nat]
    BY <1>1, <1>a DEF StartIndex, Workers
  <2> QED BY <1>1, <1>a, <2>1 DEF StartIndex, WorkerState, Outcome
<1>2. CASE Summarize
  BY <1>2, <1>a DEF Summarize
<1>3. ASSUME NEW w \in Workers, IndexWorker(w) \/ IndexerWrites(w) PROVE IndexTypeOK' /\ InHand'
  <2>1. CASE OpenKzip(w) \/ Finish(w)
    BY <2>1, <1>a DEF OpenKzip, Finish, Goto, WorkerState
  <2>2. CASE OpenKzipFails(w)
    <3>1. outcome' \in [Units -> Outcome]
      BY <2>2, <1>a DEF OpenKzipFails, Outcome
    <3> QED BY <2>2, <3>1, <1>a, <1>f DEF OpenKzipFails, Goto, WorkerState
  <2>3. CASE Take(w)
    <3>1. PICK u \in plan : cur' = [cur EXCEPT ![w] = u]
      BY <2>3 DEF Take
    <3>2. u \in Units /\ pos' \in [Workers -> Nat]
      BY <2>3, <3>1, <1>a DEF Take, Stride
    <3> QED BY <2>3, <3>1, <3>2, <1>a DEF Take, Goto, WorkerState
  <2>4. CASE NotStarted(w)
    BY <2>4, <1>a, <1>c, <1>f DEF NotStarted
  <2>5. CASE CreateTemp(w)
    BY <2>5, <1>a DEF CreateTemp, Goto, WorkerState, TempContent
  <2>6. CASE Spawn(w)
    BY <2>6, <1>a DEF Spawn, Goto, WorkerState
  <2>7. CASE SpawnFails(w)
    BY <2>7, <1>a, <1>c, <1>d, <1>f DEF SpawnFails
  <2>8. CASE IndexerOk(w)
    BY <2>8, <1>a DEF IndexerOk, Goto, WorkerState, TempContent, Content
  <2>9. CASE IndexerEmpty(w)
    BY <2>9, <1>a, <1>c, <1>d DEF IndexerEmpty
  <2>10. CASE IndexerFails(w)
    BY <2>10, <1>a, <1>c, <1>d, <1>f DEF IndexerFails
  <2>11. CASE Rename(w)
    <3>1. temp[cur[w]] = "whole" /\ cur[w] \in Units
      BY <2>11, <1>a DEF Rename, IndexInv, WholeInv
    <3>2. entries' \in [Units -> Content] /\ temp' \in [Units -> TempContent]
      BY <2>11, <3>1, <1>a DEF Rename, Content, TempContent
    <3> QED BY <2>11, <3>2, <1>a, <1>c DEF Rename
  <2>12. CASE RenameFails(w)
    BY <2>12, <1>a, <1>c, <1>f DEF RenameFails
  <2>13. CASE IndexerWrites(w)
    BY <2>13, <1>a DEF IndexerWrites, TempContent, Content
  <2> QED BY <1>3, <2>1, <2>2, <2>3, <2>4, <2>5, <2>6, <2>7, <2>8, <2>9, <2>10, <2>11, <2>12, <2>13
          DEF IndexWorker
<1>4. CASE KillIndex
  <2>1. kills' \in 0 .. MaxKills
    BY <1>4, <1>a DEF KillIndex
  <2> QED BY <1>4, <1>a, <2>1 DEF KillIndex, WorkerState
<1> QED BY <1>1, <1>2, <1>3, <1>4 DEF IndexNext

\* A worker stays in its stride.
LEMMA IndexPlaces ==
    ASSUME IndexInv, IndexNext PROVE PlaceInv'
<1> USE DEF planVars, faultVars
<1>a. /\ plan \in SUBSET (1 .. NumUnits) /\ NumUnits \in Nat /\ NumWorkers \in Nat \ {0}
      /\ Workers = 0 .. NumWorkers - 1
      /\ pos \in [Workers -> Nat] /\ cur \in [Workers -> Units \cup {NoUnit}]
  BY UnitAssumption, IndexAssumption DEF IndexInv, IndexTypeOK, Units, Workers
\* Workers may put down what they have, and nothing else moves.
<1>s. ASSUME UNCHANGED <<plan, pos>>, \A w \in Workers : cur'[w] \in {cur[w], NoUnit}
      PROVE  PlaceInv'
  BY <1>s DEF IndexInv, PlaceInv, Taken
<1>1. ASSUME NEW resume \in BOOLEAN, StartIndex(resume) PROVE PlaceInv'
  <2>1. \A w \in Workers : pos'[w] % NumWorkers = w /\ cur'[w] = NoUnit
    BY <1>1, <1>a, StrideStart DEF StartIndex
  <2> QED BY <2>1 DEF PlaceInv
<1>2. CASE Summarize
  BY <1>2, <1>s DEF Summarize
<1>3. ASSUME NEW w \in Workers, IndexWorker(w) \/ IndexerWrites(w), ~Take(w) PROVE PlaceInv'
  <2>1. UNCHANGED <<plan, pos>> /\ cur' \in {cur, [cur EXCEPT ![w] = NoUnit]}
    BY <1>3 DEF IndexWorker, OpenKzip, OpenKzipFails, Finish, NotStarted, CreateTemp, Spawn, SpawnFails,
       IndexerOk, IndexerEmpty, IndexerFails, Rename, RenameFails, IndexerWrites, Count
  <2> QED BY <2>1, <1>a, <1>s
<1>4. ASSUME NEW w \in Workers, Take(w) PROVE PlaceInv'
  <2>1. PICK u \in plan : Position(u, plan) = pos[w] /\ cur' = [cur EXCEPT ![w] = u]
    BY <1>4 DEF Take
  <2>2. pos' = [pos EXCEPT ![w] = pos[w] + NumWorkers] /\ plan' = plan
    BY <1>4 DEF Take, Stride
  <2>3. pos[w] % NumWorkers = w /\ (pos[w] + NumWorkers) % NumWorkers = w
    BY <1>a, StrideStep DEF IndexInv, PlaceInv
  <2>4. pos[w] < pos[w] + NumWorkers
    BY <1>a
  <2>5. Taken(u, w)'
    BY <2>1, <2>2, <2>3, <2>4, <1>a DEF Taken
  <2>6. ASSUME NEW v \in Workers, v # w
        PROVE  pos'[v] % NumWorkers = v /\ (cur[v] # NoUnit => Taken(cur[v], v)')
    BY <2>1, <2>2, <2>6, <1>a DEF IndexInv, PlaceInv, Taken
  <2> QED BY <2>1, <2>2, <2>3, <2>5, <2>6, <1>a DEF PlaceInv, Taken
<1>5. CASE KillIndex
  BY <1>5, <1>s DEF KillIndex
<1> QED BY <1>1, <1>2, <1>3, <1>4, <1>5 DEF IndexNext

\* Every step of `index` keeps the files whole and their writers apart.
LEMMA IndexWholes ==
    ASSUME IndexInv, IndexNext
    PROVE  WholeInv' /\ \A u \in Units : entries[u] = "whole" => entries'[u] = "whole"
<1> USE DEF planVars, faultVars
<1>a. /\ entries \in [Units -> Content] /\ temp \in [Units -> TempContent]
      /\ cur \in [Workers -> Units \cup {NoUnit}] /\ wpc \in [Workers -> WorkerState]
      /\ NoUnit \notin Units
  BY UnitAssumption DEF IndexInv, IndexTypeOK, EntriesTypeOK
\* Neither files nor workers that are about to rename come about.
<1>s. ASSUME UNCHANGED <<entries, temp>>,
             \A w \in Workers : wpc'[w] = "rename" => wpc[w] = "rename" /\ cur'[w] = cur[w]
      PROVE  WholeInv' /\ \A u \in Units : entries[u] = "whole" => entries'[u] = "whole"
  BY <1>s DEF IndexInv, WholeInv, EntriesWhole
<1>1. ASSUME NEW resume \in BOOLEAN, StartIndex(resume)
      PROVE  WholeInv' /\ \A u \in Units : entries[u] = "whole" => entries'[u] = "whole"
  BY <1>1, <1>s DEF StartIndex
<1>2. CASE Summarize \/ KillIndex
  BY <1>2, <1>s DEF Summarize, KillIndex
<1>3. ASSUME NEW w \in Workers, IndexWorker(w) \/ IndexerWrites(w)
      PROVE  WholeInv' /\ \A u \in Units : entries[u] = "whole" => entries'[u] = "whole"
  <2>1. CASE OpenKzip(w) \/ OpenKzipFails(w) \/ Take(w) \/ Finish(w) \/ NotStarted(w) \/ Spawn(w)
             \/ RenameFails(w)
    <3>1. UNCHANGED <<entries, temp>> /\ wpc' = [wpc EXCEPT ![w] = wpc'[w]] /\ wpc'[w] # "rename"
          /\ \A v \in Workers : v # w => cur'[v] = cur[v]
      BY <2>1, <1>a DEF OpenKzip, OpenKzipFails, Take, Finish, NotStarted, Spawn, RenameFails, Goto, Count
    <3> QED BY <3>1, <1>a, <1>s
  \* What the other workers have is not what w has.
  <2>o. ASSUME NEW v \in Workers, v # w, cur[w] \in Units PROVE cur[v] # cur[w]
    <3> SUFFICES ASSUME cur[v] = cur[w] PROVE FALSE
      OBVIOUS
    <3>1. Taken(cur[w], w) /\ Taken(cur[w], v)
      BY <2>o, <1>a DEF IndexInv, PlaceInv
    <3> QED BY <2>o, <3>1 DEF Taken
  \* A step of w on its own two files.
  <2>g. ASSUME cur[w] \in Units,
               temp' = [temp EXCEPT ![cur[w]] = temp'[cur[w]]],
               entries' = [entries EXCEPT ![cur[w]] = entries'[cur[w]]],
               entries'[cur[w]] \in {entries[cur[w]], "whole"},
               \A v \in Workers : v # w => wpc'[v] = wpc[v] /\ cur'[v] = cur[v],
               wpc'[w] = "rename" => cur'[w] = cur[w] /\ temp'[cur[w]] = "whole"
        PROVE  WholeInv' /\ \A u \in Units : entries[u] = "whole" => entries'[u] = "whole"
    <3>1. \A u \in Units : entries'[u] \in {entries[u], "whole"}
      BY <2>g, <1>a
    <3>2. ASSUME NEW v \in Workers, wpc'[v] = "rename" PROVE temp'[cur'[v]] = "whole"
      <4>1. CASE v = w
        BY <4>1, <3>2, <2>g
      <4>2. CASE v # w
        <5>1. wpc[v] = "rename" /\ cur'[v] = cur[v] /\ cur[v] # cur[w]
          BY <4>2, <3>2, <2>g, <2>o
        <5>2. cur[v] \in Units /\ temp[cur[v]] = "whole"
          BY <5>1 DEF IndexInv, InHand, WholeInv
        <5> QED BY <5>1, <5>2, <2>g, <1>a
      <4> QED BY <4>1, <4>2
    <3> QED BY <3>1, <3>2 DEF IndexInv, WholeInv, EntriesWhole
  <2>2. CASE CreateTemp(w) \/ IndexerOk(w) \/ IndexerWrites(w)
    <3>1. cur[w] \in Units
      BY <2>2 DEF CreateTemp, IndexerOk, IndexerWrites, IndexInv, InHand
    <3> QED BY <2>2, <3>1, <2>g, <1>a DEF CreateTemp, IndexerOk, IndexerWrites, Goto
  <2>3. CASE SpawnFails(w) \/ IndexerEmpty(w) \/ IndexerFails(w)
    <3>1. cur[w] \in Units
      BY <2>3 DEF SpawnFails, IndexerEmpty, IndexerFails, IndexInv, InHand
    <3> QED BY <2>3, <3>1, <2>g, <1>a DEF SpawnFails, IndexerEmpty, IndexerFails, Count, Goto, DropTemp
  <2>4. CASE Rename(w)
    <3>1. cur[w] \in Units /\ temp[cur[w]] = "whole"
      BY <2>4 DEF Rename, IndexInv, InHand, WholeInv
    <3> QED BY <2>4, <3>1, <2>g, <1>a DEF Rename, Count, Goto
  <2> QED BY <1>3, <2>1, <2>2, <2>3, <2>4 DEF IndexWorker
<1> QED BY <1>1, <1>2, <1>3 DEF IndexNext

\* The invariant of `index` is inductive.
LEMMA IndexStep == IndexInv /\ [IndexNext]_ivars => IndexInv'
<1> SUFFICES ASSUME IndexInv, [IndexNext]_ivars PROVE IndexInv'
  OBVIOUS
<1>1. CASE IndexNext
  BY <1>1, IndexTypes, IndexPlaces, IndexWholes DEF IndexInv
<1>2. CASE UNCHANGED ivars
  BY <1>2 DEF ivars, indexVars, planVars, faultVars, IndexInv, IndexTypeOK, EntriesTypeOK, InHand,
     PlaceInv, Taken, WholeInv, EntriesWhole
<1> QED BY <1>1, <1>2

\* Every variable of the indexer keeps its type.
THEOREM IndexTypesCorrect == IndexSpec => []IndexTypeOK
<1>1. IndexInit => IndexInv
  BY IndexInitInv
<1>2. IndexInv /\ [IndexNext]_ivars => IndexInv'
  BY IndexStep
<1>3. IndexInv => IndexTypeOK
  BY DEF IndexInv
<1> QED BY <1>1, <1>2, <1>3, PTL DEF IndexSpec

\* A .entries file is whole whenever it is there, for any number of CUs,
\* workers, kills and failures.
THEOREM OnlyWholeFiles == IndexSpec => []EntriesWhole
<1>1. IndexInit => IndexInv
  BY IndexInitInv
<1>2. IndexInv /\ [IndexNext]_ivars => IndexInv'
  BY IndexStep
<1>3. IndexInv => EntriesWhole
  BY DEF IndexInv, WholeInv
<1> QED BY <1>1, <1>2, <1>3, PTL DEF IndexSpec

\* No two indexers ever write one file.
THEOREM OneWriterEach == IndexSpec => []OneWriter
<1>1. IndexInit => IndexInv
  BY IndexInitInv
<1>2. IndexInv /\ [IndexNext]_ivars => IndexInv'
  BY IndexStep
<1>3. IndexInv => OneWriter
  BY DEF IndexInv, PlaceInv, Taken, OneWriter
<1> QED BY <1>1, <1>2, <1>3, PTL DEF IndexSpec

\* No rerun loses what an earlier run has landed.
THEOREM NothingUnlands == IndexSpec => LandedStays
<1>1. IndexInit => IndexInv
  BY IndexInitInv
<1>2. IndexInv /\ [IndexNext]_ivars => IndexInv'
  BY IndexStep
<1>3. IndexInv /\ [IndexNext]_ivars
      => [\A u \in Units : entries[u] = "whole" => entries'[u] = "whole"]_ivars
  BY IndexWholes
<1> QED BY <1>1, <1>2, <1>3, PTL DEF IndexSpec, LandedStays

-----------------------------------------------------------------------------
(***************************************************************************)
(* The table.  A file that is listed is whole and stays so while the build *)
(* runs; all that is listed is fed; the tool has all it was fed, and no    *)
(* other tool writes into its file, unless the build began beside one.     *)
(* And what a build finds in its work directory, or a tool that has        *)
(* outlived its build adds to it, is of files that are there, unless the   *)
(* user has removed some or File::create has emptied it.                   *)
(***************************************************************************)
FeedInv ==
    /\ bpc \in {"feed", "wait"} => \A u \in listed : entries[u] = "whole"
    /\ \A u \in Units : fed[u] \in {"absent", "whole"}
    /\ bpc = "wait" => \A u \in listed : fed[u] = "whole"
    /\ bpc \in {"feed", "wait", "tables"} /\ mode = "sorted" /\ ~overlapped => orphan[mode] = NoEntries
    /\ bpc = "tables" /\ ~overlapped => \A u \in listed : work[mode][u] = "whole"
    /\ bpc \in {"feed", "wait", "tables"} => table # "built"
    /\ TableComplete

WorkInv ==
    /\ ~removed => \A m \in Modes, u \in Units :
                      work[m][u] # "absent" \/ orphan[m][u] # "absent" => entries[u] = "whole"
    /\ bpc \in {"feed", "wait"} => \A u \in Units : fed[u] # "absent" => u \in listed
    /\ bpc \in {"feed", "wait", "tables"} /\ ((mode = "sorted" /\ ~overlapped) \/ ~removed) =>
          \A u \in Units : work[mode][u] # "absent" \/ orphan[mode][u] # "absent" => u \in listed
    /\ NothingForeign

BuildInv == IndexInv /\ BuildTypeOK /\ removed \in BOOLEAN /\ FeedInv /\ WorkInv

\* Merging two directories of entries gives one.
LEMMA MergedType ==
    ASSUME NEW a \in [Units -> Content], NEW b \in [Units -> Content]
    PROVE  Merged(a, b) \in [Units -> Content]
BY DEF Merged, Join, Content

\* Something is in a merged set when it is in one of the two.
LEMMA MergedHas ==
    ASSUME NEW a \in [Units -> Content], NEW b \in [Units -> Content], NEW u \in Units
    PROVE  /\ Merged(a, b)[u] # "absent" => a[u] # "absent" \/ b[u] # "absent"
           /\ b[u] # "absent" => Merged(b, a)[u] # "absent"
           /\ "whole" \in {a[u], b[u]} => Merged(a, b)[u] = "whole"
BY DEF Merged, Join, Content

\* Parts of a set have nothing that the set has not.
LEMMA PartsHave ==
    ASSUME NEW some \in [Units -> Content], NEW parts \in PartsOf(some)
    PROVE  /\ parts \in [Units -> Content]
           /\ \A u \in Units : parts[u] # "absent" => some[u] # "absent"
<1>1. parts \in [Units -> Content] /\ Merged(parts, some) = some
  BY DEF PartsOf
<1> QED BY <1>1, MergedHas

\* What is fed is of the files that are listed.
LEMMA FedHas ==
    ASSUME NEW some \in FedSoFar, fed \in [Units -> Content], listed \subseteq Units
    PROVE  /\ some \in [Units -> Content]
           /\ \A u \in Units : some[u] # "absent" => fed[u] # "absent" \/ u \in listed
BY DEF FedSoFar, ToFeed, Content

\* A tool that has outlived its build adds nothing but what it was fed.
LEMMA OrphanHas ==
    ASSUME BuildTypeOK, NEW m \in Modes, OrphanWrites(m)
    PROVE  \E new \in [Units -> Content] :
              /\ work' = [work EXCEPT ![m] = new]
              /\ \A u \in Units : new[u] # "absent" => work[m][u] # "absent" \/ orphan[m][u] # "absent"
              /\ m # "sorted" => \A u \in Units : work[m][u] = "whole" => new[u] = "whole"
<1>a. work[m] \in [Units -> Content] /\ orphan[m] \in [Units -> Content]
  BY DEF BuildTypeOK
<1>1. CASE m = "sorted"
  <2>1. PICK new \in Remains(Merged(work[m], orphan[m])) : work' = [work EXCEPT ![m] = new]
    BY <1>1 DEF OrphanWrites
  <2>2. new \in [Units -> Content] /\ \A u \in Units : new[u] # "absent" => Merged(work[m], orphan[m])[u] # "absent"
    BY <2>1 DEF Remains
  <2>3. \A u \in Units : new[u] # "absent" => work[m][u] # "absent" \/ orphan[m][u] # "absent"
    BY <1>a, <2>2, MergedHas
  <2> QED BY <1>1, <2>1, <2>2, <2>3
<1>2. CASE m # "sorted"
  <2>1. PICK parts \in PartsOf(orphan[m]) : work' = [work EXCEPT ![m] = Merged(work[m], parts)]
    BY <1>2 DEF OrphanWrites
  <2>2. parts \in [Units -> Content] /\ \A u \in Units : parts[u] # "absent" => orphan[m][u] # "absent"
    BY <1>a, <2>1, PartsHave
  <2>3. Merged(work[m], parts) \in [Units -> Content]
    BY <1>a, <2>2, MergedType
  <2> QED BY <1>a, <2>1, <2>2, <2>3, MergedHas
<1> QED BY <1>1, <1>2

\* The invariant of the composition holds before the first command.
LEMMA BuildInitInv == Init => BuildInv
<1> SUFFICES ASSUME Init PROVE BuildInv
  OBVIOUS
<1>1. IndexInv
  BY IndexInitInv DEF Init
<1>2. 0 \in 0 .. MaxBuildFaults
  BY BuildAssumption
<1>3. NoEntries \in [Units -> Content] /\ \A u \in Units : NoEntries[u] = "absent"
  BY DEF NoEntries, Content
<1> QED BY <1>1, <1>2, <1>3 DEF Init, BuildInit, BuildInv, BuildTypeOK, FeedInv, WorkInv, TableComplete,
        NothingForeign, TableOfDirectory

\* Every step of `build` keeps the types.
LEMMA BuildStepTypes ==
    ASSUME BuildInv, BuildStep PROVE BuildTypeOK'
<1>a. BuildTypeOK /\ entries \in [Units -> Content] /\ MaxBuildFaults \in Nat
  BY BuildAssumption DEF BuildInv, IndexInv, IndexTypeOK, EntriesTypeOK
<1> USE DEF BuildTypeOK, toolVars
<1>f. ASSUME BuildFault PROVE buildFaults' \in 0 .. MaxBuildFaults
  BY <1>f, <1>a DEF BuildFault
<1>n. NoEntries \in [Units -> Content] /\ Listed \subseteq Units
  BY DEF NoEntries, Content, Listed
<1>m. ASSUME NEW more \in [Units -> Content], work' = [work EXCEPT ![mode] = Merged(@, more)]
      PROVE  work' \in [Modes -> [Units -> Content]]
  <2>1. Merged(work[mode], more) \in [Units -> Content]
    BY <1>a, MergedType
  <2> QED BY <1>m, <1>a, <2>1
<1>1. ASSUME NEW m \in Modes, StartBuild(m) PROVE BuildTypeOK'
  BY <1>1, <1>a, <1>n DEF StartBuild
<1>2. ASSUME NEW u \in Units, Feed(u) PROVE BuildTypeOK'
  BY <1>2, <1>a DEF Feed
<1>3. CASE EndFeed
  BY <1>3, <1>a DEF EndFeed
<1>4. CASE ToolOk
  BY <1>4, <1>a, <1>n, <1>m DEF ToolOk
<1>5. CASE BuildFails
  <2>1. PICK some \in FedSoFar :
           \/ /\ \E parts \in PartsOf(some) : work' = [work EXCEPT ![mode] = Merged(@, parts)]
              /\ UNCHANGED orphan
           \/ orphan' = [orphan EXCEPT ![mode] = Merged(@, some)] /\ UNCHANGED work
    BY <1>5 DEF BuildFails
  <2>2. some \in [Units -> Content]
    BY <1>a, FedHas
  <2>3. work' \in [Modes -> [Units -> Content]]
    BY <2>1, <2>2, <1>a, <1>m, PartsHave
  <2>4. Merged(orphan[mode], some) \in [Units -> Content]
    BY <2>2, <1>a, MergedType
  <2>5. orphan' \in [Modes -> [Units -> Content]]
    BY <2>1, <2>4, <1>a
  <2> QED BY <1>5, <2>3, <2>5, <1>a, <1>f, <1>n DEF BuildFails
<1>6. CASE WriteTable
  BY <1>6, <1>a DEF WriteTable
<1>7. CASE WriteTableFails
  BY <1>7, <1>a, <1>f DEF WriteTableFails
<1>8. CASE Clean
  <2>1. PICK left \in [Units -> Content] : work' = [work EXCEPT ![mode] = left]
    BY <1>8, <1>a, <1>n, PartsHave DEF Clean
  <2> QED BY <1>8, <1>a, <2>1 DEF Clean
<1>9. CASE RemoveTable
  BY <1>9, <1>a, <1>n DEF RemoveTable
<1>10. ASSUME NEW m \in Modes, OrphanWrites(m) PROVE BuildTypeOK'
  <2>1. PICK new \in [Units -> Content] : work' = [work EXCEPT ![m] = new]
    BY <1>10, <1>a, OrphanHas
  <2> QED BY <1>10, <2>1, <1>a DEF OrphanWrites
<1>11. ASSUME NEW m \in Modes, OrphanEnds(m) PROVE BuildTypeOK'
  BY <1>11, <1>a, <1>n DEF OrphanEnds
<1> QED BY <1>1, <1>2, <1>3, <1>4, <1>5, <1>6, <1>7, <1>8, <1>9, <1>10, <1>11 DEF BuildStep

\* What is fed was listed, and is whole.
LEMMA BuildStepFeed ==
    ASSUME BuildInv, BuildStep, UNCHANGED entries PROVE FeedInv'
<1>n. NoEntries \in [Units -> Content] /\ \A u \in Units : NoEntries[u] = "absent"
  BY DEF NoEntries, Content
<1>a. BuildTypeOK /\ entries \in [Units -> Content] /\ EntriesWhole /\ FeedInv
  BY DEF BuildInv, IndexInv, IndexTypeOK, EntriesTypeOK, WholeInv
<1> USE DEF BuildTypeOK, FeedInv, TableComplete, toolVars
<1>1. ASSUME NEW m \in Modes, StartBuild(m) PROVE FeedInv'
  <2>1. \A u \in Listed : u \in Units /\ entries[u] = "whole"
    BY <1>a DEF Listed, EntriesWhole, Content
  <2>2. \A u \in Units : NoEntries[u] = "absent"
    BY DEF NoEntries
  <2> QED BY <1>1, <1>a, <2>1, <2>2 DEF StartBuild, OutFree
<1>2. ASSUME NEW u \in Units, Feed(u) PROVE FeedInv'
  BY <1>2, <1>a DEF Feed, ToFeed
<1>3. CASE EndFeed
  <2>1. \A u \in listed : fed[u] = "whole"
    BY <1>3, <1>a DEF EndFeed, ToFeed
  <2> QED BY <1>3, <1>a, <2>1 DEF EndFeed
<1>4. CASE ToolOk
  <2>1. \A u \in listed : Merged(work[mode], fed)[u] = "whole"
    BY <1>4, <1>a, MergedHas DEF ToolOk
  <2> QED BY <1>4, <1>a, <1>n, <2>1 DEF ToolOk
<1>5. CASE BuildFails
  BY <1>5, <1>a, <1>n DEF BuildFails
<1>6. CASE WriteTable
  BY <1>6, <1>a DEF WriteTable
<1>7. CASE WriteTableFails
  BY <1>7, <1>a DEF WriteTableFails
<1>8. CASE Clean
  BY <1>8, <1>a DEF Clean
<1>9. CASE RemoveTable
  BY <1>9, <1>a DEF RemoveTable
<1>10. ASSUME NEW m \in Modes, OrphanWrites(m) PROVE FeedInv'
  <2>1. PICK new \in [Units -> Content] :
           /\ work' = [work EXCEPT ![m] = new]
           /\ m # "sorted" => \A u \in Units : work[m][u] = "whole" => new[u] = "whole"
    BY <1>10, <1>a, OrphanHas
  <2>2. orphan[m] # NoEntries /\ UNCHANGED <<mode, table, served, bpc, listed, fed, orphan, overlapped>>
    BY <1>10 DEF OrphanWrites
  <2> QED BY <2>1, <2>2, <1>a
<1>11. ASSUME NEW m \in Modes, OrphanEnds(m) PROVE FeedInv'
  BY <1>11, <1>a DEF OrphanEnds
<1> QED BY <1>1, <1>2, <1>3, <1>4, <1>5, <1>6, <1>7, <1>8, <1>9, <1>10, <1>11 DEF BuildStep

\* What is in a work directory was in the directory of entries.
LEMMA BuildStepWork ==
    ASSUME BuildInv, BuildStep, UNCHANGED <<entries, removed>> PROVE WorkInv'
<1>a. BuildTypeOK /\ FeedInv /\ WorkInv
  BY DEF BuildInv
<1> USE DEF BuildTypeOK, FeedInv, WorkInv, NothingForeign, TableOfDirectory, toolVars
<1>n. \A u \in Units : NoEntries[u] = "absent"
  BY DEF NoEntries
\* Only what is listed is added to the work directory.
<1>m. ASSUME NEW more \in [Units -> Content], bpc \in {"feed", "wait"},
             \A u \in Units : more[u] # "absent" => u \in listed,
             work' = [work EXCEPT ![mode] = Merged(@, more)], UNCHANGED orphan
      PROVE  /\ \A m \in Modes, u \in Units :
                   work'[m][u] # "absent" => work[m][u] # "absent" \/ (m = mode /\ u \in listed)
             /\ ~removed => \A m \in Modes, u \in Units : work'[m][u] # "absent" => entries[u] = "whole"
  <2>1. \A u \in Units : Merged(work[mode], more)[u] # "absent" => work[mode][u] # "absent" \/ u \in listed
    BY <1>m, <1>a, MergedHas
  <2>2. \A m \in Modes, u \in Units :
           work'[m][u] # "absent" => work[m][u] # "absent" \/ (m = mode /\ u \in listed)
    BY <1>m, <1>a, <2>1
  <2>3. \A u \in listed : entries[u] = "whole"
    BY <1>m, <1>a
  <2> QED BY <1>a, <2>2, <2>3
<1>1. ASSUME NEW m \in Modes, StartBuild(m) PROVE WorkInv'
  <2>2. \A k \in Modes, u \in Units : work'[k][u] # "absent" => work[k][u] # "absent" /\ ~(k = m /\ m = "sorted")
    BY <1>1, <1>a, <1>n DEF StartBuild, Fresh
  <2>3. \A u \in Units : entries[u] = "whole" => u \in Listed
    BY DEF Listed
  <2>4. /\ mode' = m /\ listed' = Listed /\ fed' = NoEntries /\ bpc' = "feed" /\ table' # "built"
        /\ UNCHANGED orphan /\ overlapped' = (m = "sorted" /\ orphan[m] # NoEntries)
    BY <1>1 DEF StartBuild, OutFree
  <2>5. ~removed => \A k \in Modes, u \in Units :
                       work'[k][u] # "absent" \/ orphan[k][u] # "absent" => entries[u] = "whole"
    BY <1>a, <2>2
  <2>6. (m = "sorted" /\ ~overlapped') \/ ~removed =>
           \A u \in Units : work'[m][u] # "absent" \/ orphan[m][u] # "absent" => u \in Listed
    <3>1. CASE m = "sorted" /\ ~overlapped'
      BY <3>1, <2>2, <2>4, <1>n
    <3>2. CASE ~removed
      BY <3>2, <2>3, <2>5
    <3> QED BY <3>1, <3>2
  <2> QED BY <1>a, <1>n, <2>4, <2>5, <2>6
<1>2. ASSUME NEW u \in Units, Feed(u) PROVE WorkInv'
  BY <1>2, <1>a DEF Feed, ToFeed
<1>3. CASE EndFeed
  BY <1>3, <1>a DEF EndFeed
<1>4. CASE ToolOk
  BY <1>4, <1>a, <1>m, <1>n DEF ToolOk
<1>5. CASE BuildFails
  <2>1. PICK some \in FedSoFar :
           \/ /\ \E parts \in PartsOf(some) : work' = [work EXCEPT ![mode] = Merged(@, parts)]
              /\ UNCHANGED orphan
           \/ orphan' = [orphan EXCEPT ![mode] = Merged(@, some)] /\ UNCHANGED work
    BY <1>5 DEF BuildFails
  <2>2. /\ bpc \in {"feed", "wait"} /\ bpc' = "off" /\ fed' = NoEntries
        /\ UNCHANGED <<mode, table, served, overlapped>> /\ listed' = {}
    BY <1>5 DEF BuildFails
  <2>3. some \in [Units -> Content] /\ \A u \in Units : some[u] # "absent" => u \in listed
    BY <1>a, <2>2, FedHas
  <2>4. CASE \E parts \in PartsOf(some) : work' = [work EXCEPT ![mode] = Merged(@, parts)] /\ UNCHANGED orphan
    <3>1. PICK parts \in PartsOf(some) : work' = [work EXCEPT ![mode] = Merged(@, parts)] /\ UNCHANGED orphan
      BY <2>4
    <3>2. parts \in [Units -> Content] /\ \A u \in Units : parts[u] # "absent" => u \in listed
      BY <2>3, <3>1, PartsHave
    <3> QED BY <1>a, <1>m, <1>n, <2>2, <3>1, <3>2
  <2>5. CASE orphan' = [orphan EXCEPT ![mode] = Merged(@, some)] /\ UNCHANGED work
    <3>1. \A u \in Units : Merged(orphan[mode], some)[u] # "absent" => orphan[mode][u] # "absent" \/ u \in listed
      BY <2>3, <1>a, MergedHas
    <3>2. \A u \in listed : entries[u] = "whole"
      BY <1>a, <2>2
    <3> QED BY <1>a, <2>2, <2>5, <3>1, <3>2
  <2> QED BY <2>1, <2>4, <2>5
<1>6. CASE WriteTable
  BY <1>6, <1>a DEF WriteTable
<1>7. CASE WriteTableFails
  BY <1>7, <1>a DEF WriteTableFails
<1>8. CASE Clean
  <2>1. PICK left \in [Units -> Content] :
           /\ work' = [work EXCEPT ![mode] = left]
           /\ \A u \in Units : left[u] # "absent" => work[mode][u] # "absent"
    <3>1. NoEntries \in [Units -> Content]
      BY DEF NoEntries, Content
    <3>2. PICK left \in IF mode = "sorted" THEN {work[mode], NoEntries} ELSE PartsOf(work[mode]) :
             work' = [work EXCEPT ![mode] = left]
      BY <1>8 DEF Clean
    <3>3. left \in [Units -> Content] /\ \A u \in Units : left[u] # "absent" => work[mode][u] # "absent"
      <4>1. CASE left \in PartsOf(work[mode])
        BY <4>1, <1>a, PartsHave
      <4>2. CASE left \in {work[mode], NoEntries}
        BY <4>2, <1>a, <1>n, <3>1
      <4> QED BY <3>2, <4>1, <4>2
    <3> QED BY <3>2, <3>3
  <2> QED BY <1>8, <1>a, <2>1 DEF Clean
<1>9. CASE RemoveTable
  BY <1>9, <1>a DEF RemoveTable
<1>10. ASSUME NEW m \in Modes, OrphanWrites(m) PROVE WorkInv'
  <2>1. PICK new \in [Units -> Content] :
           /\ work' = [work EXCEPT ![m] = new]
           /\ \A u \in Units : new[u] # "absent" => work[m][u] # "absent" \/ orphan[m][u] # "absent"
    BY <1>10, <1>a, OrphanHas
  <2>2. orphan[m] # NoEntries /\ UNCHANGED <<mode, table, served, bpc, listed, fed, orphan, overlapped>>
    BY <1>10 DEF OrphanWrites
  <2> QED BY <2>1, <2>2, <1>a
<1>11. ASSUME NEW m \in Modes, OrphanEnds(m) PROVE WorkInv'
  BY <1>11, <1>a, <1>n DEF OrphanEnds
<1> QED BY <1>1, <1>2, <1>3, <1>4, <1>5, <1>6, <1>7, <1>8, <1>9, <1>10, <1>11 DEF BuildStep

\* A user who removes files leaves the rest as it is.
LEMMA RemovalKeeps ==
    ASSUME IndexInv, RemoveEntries PROVE IndexInv' /\ bpc = "off" /\ removed' = TRUE /\ UNCHANGED buildVars
<1>1. entries' \in [Units -> Content] /\ \A u \in Units : entries'[u] \in {"absent", entries[u]}
  BY DEF RemoveEntries, IndexInv, IndexTypeOK, EntriesTypeOK, Content
<1> QED BY <1>1 DEF RemoveEntries, indexVars, planVars, faultVars, IndexInv, IndexTypeOK, EntriesTypeOK,
             InHand, PlaceInv, Taken, WholeInv, EntriesWhole

\* The invariant of the composition is inductive.
LEMMA BuildNextInv == BuildInv /\ [Next]_vars => BuildInv'
<1> SUFFICES ASSUME BuildInv, [Next]_vars PROVE BuildInv'
  OBVIOUS
<1>i. IndexInv
  BY DEF BuildInv
<1>1. CASE IndexNext /\ UNCHANGED <<buildVars, removed>>
  <2>1. IndexInv' /\ \A u \in Units : entries[u] = "whole" => entries'[u] = "whole"
    BY <1>1, <1>i, IndexStep, IndexWholes
  <2>2. listed \subseteq Units
    BY DEF BuildInv, BuildTypeOK
  <2> QED BY <1>1, <2>1, <2>2 DEF buildVars, toolVars, BuildInv, BuildTypeOK, FeedInv, WorkInv, TableComplete,
          NothingForeign, TableOfDirectory
<1>2. CASE BuildStep /\ UNCHANGED <<ivars, removed>>
  <2>1. IndexInv'
    BY <1>2, <1>i, IndexStep
  <2>2. UNCHANGED <<entries, removed>>
    BY <1>2 DEF ivars
  <2>3. (removed \in BOOLEAN)'
    BY <2>2 DEF BuildInv
  <2> QED BY <1>2, <2>1, <2>2, <2>3, BuildStepTypes, BuildStepFeed, BuildStepWork DEF BuildInv
<1>3. CASE RemoveEntries
  <2>1. IndexInv' /\ bpc = "off" /\ removed' = TRUE /\ UNCHANGED buildVars
    BY <1>3, <1>i, RemovalKeeps
  <2> QED BY <2>1 DEF buildVars, toolVars, BuildInv, BuildTypeOK, FeedInv, WorkInv, TableComplete, NothingForeign,
          TableOfDirectory
<1>4. CASE UNCHANGED vars
  <2>1. IndexInv'
    BY <1>4, <1>i, IndexStep DEF vars
  <2> QED BY <1>4, <2>1 DEF vars, ivars, buildVars, toolVars, BuildInv, BuildTypeOK, FeedInv, WorkInv, TableComplete,
          NothingForeign, TableOfDirectory
<1> QED BY <1>1, <1>2, <1>3, <1>4 DEF Next

\* A table has all of every file that was there when its build began, whatever
\* index runs and reruns do to the directory meanwhile.
THEOREM BuiltIsComplete == Spec => []TableComplete
<1>1. Init => BuildInv
  BY BuildInitInv
<1>2. BuildInv /\ [Next]_vars => BuildInv'
  BY BuildNextInv
<1>3. BuildInv => TableComplete
  BY DEF BuildInv, FeedInv
<1> QED BY <1>1, <1>2, <1>3, PTL DEF Spec

\* A table has nothing that is not in its directory: always in mode "sorted",
\* and in mode "graphstore" as long as the directory only grows.
THEOREM BuiltIsOfDirectory == Spec => []NothingForeign
<1>1. Init => BuildInv
  BY BuildInitInv
<1>2. BuildInv /\ [Next]_vars => BuildInv'
  BY BuildNextInv
<1>3. BuildInv => NothingForeign
  BY DEF BuildInv, WorkInv
<1> QED BY <1>1, <1>2, <1>3, PTL DEF Spec
-----------------------------------------------------------------------------
(***************************************************************************)
(* The count.  While a run works, a CU of its plan that is not counted is  *)
(* ahead of its worker, which has not returned, or in its hands.           *)
(***************************************************************************)
Busy == {"extract", "spawn", "wait", "rename"}

Ahead(u, w) ==
    \/ wpc[w] # "gone" /\ pos[w] <= Position(u, plan)
    \/ wpc[w] \in Busy /\ cur[w] = u

CountedInv ==
    /\ running => ~ended
    /\ ~running => AllGone
    /\ running => \A u \in plan, w \in Workers :
                     Position(u, plan) % NumWorkers = w /\ outcome[u] = "none" => Ahead(u, w)
    /\ AllCounted

\* The position of a CU is one of a worker's stride, and within the plan.
LEMMA PlanPosition ==
    ASSUME NEW p \in SUBSET Units, NEW u \in p
    PROVE  /\ Position(u, p) \in Nat /\ Position(u, p) % NumWorkers \in Workers
           /\ Position(u, p) % NumWorkers <= Position(u, p)
           /\ Position(u, p) < Cardinality(p) /\ Cardinality(p) \in Nat
<1>1. p \in SUBSET (1 .. NumUnits) /\ NumUnits \in Nat /\ NumWorkers \in Nat \ {0}
  BY UnitAssumption, IndexAssumption DEF Units
<1>2. Position(u, p) \in Nat /\ Cardinality(p) \in Nat
  BY <1>1, PositionType
<1>3. Position(u, p) % NumWorkers \in 0 .. NumWorkers - 1
  BY <1>1, <1>2, Euclid
<1>4. Position(u, p) % NumWorkers <= Position(u, p)
  BY <1>1, <1>2, RemainderBound
<1>5. Position(u, p) < Cardinality(p)
  BY <1>1, PositionBound
<1> QED BY <1>2, <1>3, <1>4, <1>5 DEF Workers

\* A worker passes no CU of its stride by, and puts none down uncounted.
LEMMA WorkerCounts ==
    ASSUME IndexInv, CountedInv, NEW w \in Workers, IndexWorker(w) \/ IndexerWrites(w)
    PROVE  CountedInv'
<1> USE DEF planVars, faultVars
<1>a. /\ plan \in SUBSET Units /\ pos \in [Workers -> Nat] /\ cur \in [Workers -> Units \cup {NoUnit}]
      /\ wpc \in [Workers -> WorkerState] /\ outcome \in [Units -> Outcome]
      /\ NumWorkers \in Nat \ {0}
  BY IndexAssumption DEF IndexInv, IndexTypeOK
<1>b. UNCHANGED <<plan, running, ended>> /\ wpc[w] # "gone"
  BY DEF IndexWorker, OpenKzip, OpenKzipFails, Take, Finish, NotStarted, CreateTemp, Spawn, SpawnFails,
         IndexerOk, IndexerEmpty, IndexerFails, Rename, RenameFails, IndexerWrites
<1>c. running /\ ~ended
  BY <1>b DEF CountedInv, AllGone
\* The other workers keep what they have; what is left to show is w's part.
<1>g. ASSUME \A v \in Workers : v # w => wpc'[v] = wpc[v] /\ cur'[v] = cur[v] /\ pos'[v] = pos[v],
             \A u \in plan : outcome'[u] = "none" => outcome[u] = "none",
             \A u \in plan : Position(u, plan) % NumWorkers = w /\ outcome'[u] = "none" /\ Ahead(u, w)
                             => Ahead(u, w)'
      PROVE  CountedInv'
  <2>1. ASSUME NEW u \in plan, NEW v \in Workers, Position(u, plan) % NumWorkers = v,
               outcome'[u] = "none"
        PROVE  Ahead(u, v)'
    <3>1. Ahead(u, v)
      BY <2>1, <1>c, <1>g DEF CountedInv
    <3>2. CASE v = w
      BY <2>1, <3>1, <3>2, <1>g
    <3>3. CASE v # w
      BY <3>1, <3>3, <1>b, <1>g DEF Ahead
    <3> QED BY <3>2, <3>3
  <2> QED BY <2>1, <1>b, <1>c DEF CountedInv, AllCounted
\* The worker goes on with the CU it has, or has none.
<1>1. CASE OpenKzip(w) \/ CreateTemp(w) \/ Spawn(w) \/ IndexerOk(w) \/ IndexerWrites(w)
  <2>1. /\ UNCHANGED <<pos, cur, outcome>>
        /\ \/ wpc[w] = "open" /\ wpc' = [wpc EXCEPT ![w] = "loop"]
           \/ wpc[w] \in Busy /\ wpc' = wpc
           \/ wpc[w] \in Busy /\ wpc' \in {[wpc EXCEPT ![w] = pc] : pc \in Busy}
    BY <1>1 DEF OpenKzip, CreateTemp, Spawn, IndexerOk, IndexerWrites, Goto, Busy
  <2>2. \A u \in plan : Ahead(u, w) => Ahead(u, w)'
    BY <2>1, <1>a, <1>b DEF Ahead, Busy
  <2> QED BY <2>1, <2>2, <1>a, <1>g
<1>2. CASE OpenKzipFails(w)
  <2>1. /\ wpc' = [wpc EXCEPT ![w] = "gone"] /\ UNCHANGED <<pos, cur>>
        /\ outcome' = [u \in Units |-> IF u \in StrideOf(w, Stride, plan) THEN "unopened" ELSE outcome[u]]
    BY <1>2 DEF OpenKzipFails, Goto
  <2>2. \A u \in plan : Position(u, plan) % NumWorkers = w => outcome'[u] = "unopened"
    BY <2>1, <1>a DEF StrideOf, Stride
  <2> QED BY <2>1, <2>2, <1>a, <1>g
<1>3. CASE Take(w)
  <2>1. PICK x \in plan : Position(x, plan) = pos[w] /\ cur' = [cur EXCEPT ![w] = x]
    BY <1>3 DEF Take
  <2>2. /\ wpc[w] = "loop" /\ wpc' = [wpc EXCEPT ![w] = "extract"] /\ UNCHANGED outcome
        /\ pos' = [pos EXCEPT ![w] = pos[w] + NumWorkers]
    BY <1>3 DEF Take, Goto, Stride
  <2>3. ASSUME NEW u \in plan, Position(u, plan) % NumWorkers = w, Ahead(u, w) PROVE Ahead(u, w)'
    <3>1. Position(u, plan) \in Nat /\ pos[w] \in Nat /\ pos[w] <= Position(u, plan)
      BY <2>2, <2>3, <1>a, PlanPosition DEF Ahead, Busy
    <3>2. CASE Position(u, plan) = pos[w]
      <4>1. u = x
        BY <3>2, <2>1, <1>a, PositionInjective, UnitAssumption DEF Units
      <4> QED BY <4>1, <2>1, <2>2, <1>a DEF Ahead, Busy
    <3>3. CASE pos[w] < Position(u, plan)
      <4>1. pos[w] % NumWorkers = w
        BY DEF IndexInv, PlaceInv
      <4>2. pos[w] + NumWorkers <= Position(u, plan)
        BY <3>1, <3>3, <4>1, <2>3, <1>a, StrideGap
      <4> QED BY <4>2, <2>2, <1>a, <1>b DEF Ahead
    <3> QED BY <3>1, <3>2, <3>3
  <2> QED BY <2>1, <2>2, <2>3, <1>a, <1>g
<1>4. CASE Finish(w)
  <2>1. /\ wpc[w] = "loop" /\ wpc' = [wpc EXCEPT ![w] = "gone"] /\ UNCHANGED <<pos, cur, outcome>>
        /\ pos[w] >= Cardinality(plan)
    BY <1>4 DEF Finish, Goto
  <2>2. \A u \in plan : ~Ahead(u, w)
    <3> SUFFICES ASSUME NEW u \in plan, Ahead(u, w) PROVE FALSE
      OBVIOUS
    <3>1. pos[w] \in Nat /\ pos[w] <= Position(u, plan)
      BY <2>1, <1>a DEF Ahead, Busy
    <3>2. Position(u, plan) < Cardinality(plan) /\ Position(u, plan) \in Nat /\ Cardinality(plan) \in Nat
      BY <1>a, PlanPosition
    <3> QED BY <2>1, <3>1, <3>2
  <2> QED BY <2>1, <2>2, <1>a, <1>g
\* It counts the CU it has and puts it down.
<1>5. ASSUME wpc[w] \in Busy, NEW result \in {"ok", "empty", "failed"}, Count(w, result), UNCHANGED pos
      PROVE  CountedInv'
  <2>1. cur[w] \in Units
    BY <1>5 DEF Busy, IndexInv, InHand
  <2>2. /\ outcome' = [outcome EXCEPT ![cur[w]] = result] /\ cur' = [cur EXCEPT ![w] = NoUnit]
        /\ wpc' = [wpc EXCEPT ![w] = "loop"]
    BY <1>5 DEF Count, Goto
  <2>3. \A u \in plan : outcome'[u] = "none" => outcome[u] = "none" /\ u # cur[w]
    BY <2>1, <2>2, <1>a
  <2>4. \A u \in plan : outcome'[u] = "none" /\ Ahead(u, w) => Ahead(u, w)'
    BY <2>2, <2>3, <1>5, <1>a, <1>b DEF Ahead
  <2> QED BY <1>5, <2>2, <2>3, <2>4, <1>a, <1>g
<1>6. CASE NotStarted(w) \/ SpawnFails(w) \/ IndexerEmpty(w) \/ IndexerFails(w) \/ Rename(w) \/ RenameFails(w)
  BY <1>6, <1>5 DEF NotStarted, SpawnFails, IndexerEmpty, IndexerFails, Rename, RenameFails, Busy
<1> QED BY <1>1, <1>2, <1>3, <1>4, <1>6 DEF IndexWorker

\* At the end of a run that was not killed every CU of its plan is counted or
\* was given up with its worker, for any number of CUs, workers and reruns.
THEOREM EveryCuIsCounted == IndexSpec => []AllCounted
<1> USE DEF planVars, faultVars
<1>1. IndexInit => IndexInv /\ CountedInv
  <2>1. IndexInit => CountedInv
    BY DEF IndexInit, CountedInv, AllGone, AllCounted
  <2> QED BY <2>1, IndexInitInv
<1>2. IndexInv /\ CountedInv /\ [IndexNext]_ivars => (IndexInv /\ CountedInv)'
  <2> SUFFICES ASSUME IndexInv, CountedInv, [IndexNext]_ivars PROVE CountedInv'
    BY IndexStep
  <2>a. plan \in SUBSET Units
    BY DEF IndexInv, IndexTypeOK
  <2>1. ASSUME NEW resume \in BOOLEAN, StartIndex(resume) PROVE CountedInv'
    <3>1. /\ plan' \in SUBSET Units /\ pos' = [w \in Workers |-> w]
          /\ running' = (plan' # {}) /\ ended' = (plan' = {})
          /\ wpc' = [w \in Workers |-> IF plan' = {} THEN "gone" ELSE "open"]
      BY <2>1 DEF StartIndex
    <3>2. ASSUME NEW u \in plan', NEW w \in Workers, Position(u, plan') % NumWorkers = w
          PROVE  Ahead(u, w)'
      <4>1. w <= Position(u, plan')
        BY <3>1, <3>2, PlanPosition
      <4> QED BY <3>1, <3>2, <4>1 DEF Ahead
    <3> QED BY <3>1, <3>2 DEF CountedInv, AllCounted, AllGone
  <2>2. CASE Summarize
    <3>1. \A u \in plan : outcome[u] # "none"
      <4> SUFFICES ASSUME NEW u \in plan, outcome[u] = "none" PROVE FALSE
        OBVIOUS
      <4>1. Position(u, plan) % NumWorkers \in Workers
        BY <2>a, PlanPosition
      <4>2. Ahead(u, Position(u, plan) % NumWorkers)
        BY <2>2, <4>1 DEF Summarize, CountedInv
      <4> QED BY <2>2, <4>1, <4>2 DEF Summarize, AllGone, Ahead, Busy
    <3> QED BY <2>2, <3>1 DEF Summarize, CountedInv, AllCounted, AllGone
  <2>3. ASSUME NEW w \in Workers, IndexWorker(w) \/ IndexerWrites(w) PROVE CountedInv'
    BY <2>3, WorkerCounts
  <2>4. CASE KillIndex
    BY <2>4 DEF KillIndex, CountedInv, AllCounted, AllGone
  <2>5. CASE UNCHANGED ivars
    BY <2>5 DEF ivars, indexVars, CountedInv, AllCounted, AllGone, Ahead
  <2> QED BY <2>1, <2>2, <2>3, <2>4, <2>5 DEF IndexNext
<1>3. CountedInv => AllCounted
  BY DEF CountedInv
<1> QED BY <1>1, <1>2, <1>3, PTL DEF IndexSpec
=============================================================================
