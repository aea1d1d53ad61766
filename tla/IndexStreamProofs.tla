------------------------- MODULE IndexStreamProofs -------------------------
(***************************************************************************)
(* Theorems about IndexStream, for every number of CUs, workers, kills and *)
(* faults and every batch limit: the types, what a resumed run may skip,   *)
(* that no CU is indexed or folded twice by a run, that no published table *)
(* lacks a CU that was not reported, that the staging directory stays      *)
(* within its bound and no entry file is deleted early, and that the       *)
(* pipeline implements ResumeContract.                                     *)
(***************************************************************************)
EXTENDS IndexStream, ListProofs

-----------------------------------------------------------------------------
(***************************************************************************)
(* The name sink keeps its type under each of its operations.              *)
(***************************************************************************)
LEMMA SinkOpen ==
    ASSUME SinkTypeOK, OpenSink \/ OpenSinkFails PROVE SinkTypeOK'
<1>1. TailReads(nameTail) \subseteq Row \cup {Garbage}
  <2>1. CASE nameTail \in TornRow
    BY <2>1 DEF TornRow, TailReads
  <2>2. CASE nameTail = NoTail
    BY <2>2 DEF NoTail, TailReads
  <2> QED BY <2>1, <2>2 DEF SinkTypeOK
<1>2. nameSet' \subseteq Row \cup {Garbage}
  BY <1>1 DEF SinkTypeOK, OpenSink, OpenSinkFails, Preload, ReadNames
<1> QED BY <1>2 DEF SinkTypeOK, OpenSink, OpenSinkFails, Preload

\* Flushing keeps the types of the sink,
LEMMA SinkFlushed ==
    ASSUME SinkTypeOK, NEW F \in SUBSET (Row \cup {Garbage}), Flushed(F)
    PROVE  nameLog' \subseteq Row \cup {Garbage}
BY DEF SinkTypeOK, Flushed

\* ... in part, too,
LEMMA SinkReach ==
    ASSUME SinkTypeOK, NEW F \in SUBSET (Row \cup {Garbage}), NEW rest, Reach(F, rest)
    PROVE  nameLog' \subseteq Row \cup {Garbage} /\ nameTail' \in TornRow \cup {NoTail}
<1>1. nameLog' \subseteq Row \cup {Garbage}
  BY SinkFlushed DEF Reach, SinkTypeOK
<1>2. nameTail' \in TornRow \cup {NoTail}
  BY DEF Reach, SinkTypeOK, TornRow
<1> QED BY <1>1, <1>2

\* ... and so do adding rows,
LEMMA SinkAdd ==
    ASSUME SinkTypeOK, NEW rows \in SUBSET Row, AddRows(rows) \/ AddFails(rows)
    PROVE  SinkTypeOK'
<1>1. CASE AddBuffered(rows)
  BY <1>1 DEF SinkTypeOK, AddBuffered
<1>2. CASE AddFlushing(rows)
  <2>1. PICK cut \in SUBSET (rows \ nameSet) :
          /\ nameSet' = nameSet \cup rows
          /\ nameBuf' = (rows \ nameSet) \ cut
          /\ Reach(nameBuf \cup cut, (rows \ nameSet) \ cut)
          /\ tailOpen' = Reopens(nameBuf \cup cut)
          /\ UNCHANGED logBad
    BY <1>2 DEF AddFlushing
  <2>2. nameBuf \cup cut \in SUBSET (Row \cup {Garbage})
    BY DEF SinkTypeOK
  <2>3. nameLog' \subseteq Row \cup {Garbage} /\ nameTail' \in TornRow \cup {NoTail}
    BY <2>1, <2>2, SinkReach
  <2> QED BY <2>1, <2>3 DEF SinkTypeOK, Reopens
<1>3. CASE AddFails(rows)
  <2>1. PICK lost \in SUBSET (rows \ nameSet) \ {{}}, glued \in SUBSET {Garbage} :
          \E F \in SUBSET (nameBuf \cup ((rows \ nameSet) \ lost) \cup glued) :
            /\ nameSet' = nameSet \cup rows
            /\ nameBuf' = (nameBuf \cup ((rows \ nameSet) \ lost) \cup glued) \ F
            /\ Reach(F, (nameBuf \cup ((rows \ nameSet) \ lost) \cup glued) \ F)
            /\ tailOpen' = Reopens(F)
            /\ logBad' = TRUE
    BY <1>3 DEF AddFails
  <2> DEFINE held == nameBuf \cup ((rows \ nameSet) \ lost) \cup glued
  <2>2. held \in SUBSET (Row \cup {Garbage})
    BY DEF SinkTypeOK
  <2>3. PICK F \in SUBSET held :
          /\ nameSet' = nameSet \cup rows
          /\ nameBuf' = held \ F
          /\ Reach(F, held \ F)
          /\ tailOpen' = Reopens(F)
          /\ logBad' = TRUE
    BY <2>1
  <2> HIDE DEF held
  <2>4. F \in SUBSET (Row \cup {Garbage})
    BY <2>2
  <2>5. nameLog' \subseteq Row \cup {Garbage} /\ nameTail' \in TornRow \cup {NoTail}
    BY <2>3, <2>4, SinkReach
  <2> QED BY <2>2, <2>3, <2>5 DEF SinkTypeOK, Reopens
<1> QED BY <1>1, <1>2, <1>3 DEF AddRows

\* ... a kill,
LEMMA SinkKill ==
    ASSUME SinkTypeOK, KillSink PROVE SinkTypeOK'
BY DEF SinkTypeOK, KillSink, Forget

\* ... closing it,
LEMMA SinkClose ==
    ASSUME SinkTypeOK, CloseSink \/ CloseSinkFails PROVE SinkTypeOK'
<1>1. CASE CloseSink
  <2>1. nameBuf \in SUBSET (Row \cup {Garbage})
    BY DEF SinkTypeOK
  <2>2. nameLog' \subseteq Row \cup {Garbage}
    BY <1>1, <2>1, SinkFlushed DEF CloseSink, SinkTypeOK
  <2> QED BY <1>1, <2>2 DEF SinkTypeOK, CloseSink, Forget
<1>2. CASE CloseSinkFails
  <2>1. PICK F \in SUBSET nameBuf : Reach(F, nameBuf \ F)
    BY <1>2 DEF CloseSinkFails
  <2>2. F \in SUBSET (Row \cup {Garbage})
    BY DEF SinkTypeOK
  <2>3. nameLog' \subseteq Row \cup {Garbage} /\ nameTail' \in TornRow \cup {NoTail}
    BY <2>1, <2>2, SinkReach
  <2> QED BY <1>2, <2>3 DEF SinkTypeOK, CloseSinkFails, Forget
<1> QED BY <1>1, <1>2

\* ... removing its log,
LEMMA SinkRemove ==
    ASSUME SinkTypeOK, RemoveNameLog PROVE SinkTypeOK'
BY DEF SinkTypeOK, RemoveNameLog

\* ... and leaving it alone.
LEMMA SinkSame ==
    ASSUME SinkTypeOK, UNCHANGED sinkVars PROVE SinkTypeOK'
BY DEF SinkTypeOK, sinkVars

-----------------------------------------------------------------------------
(***************************************************************************)
(* Type correctness.  A worker that indexes, scans or sends has a CU in    *)
(* its hands: without it the types of the channel and of the sink's rows   *)
(* are not inductive.                                                      *)
(***************************************************************************)
InHand == \A w \in Workers : wpc[w] \in {"index", "scan", "send"} => cur[w] \in Units

TypeInv == TypeOK /\ InHand

\* The range of a sequence is a set of its elements.
LEMMA RangeInType ==
    ASSUME NEW S, NEW s \in Seq(S) PROVE RangeOf(s) \subseteq S
BY DEF RangeOf

\* The types hold before the first run.
LEMMA TypeInit == Init => TypeInv
<1> SUFFICES ASSUME Init PROVE TypeInv
  OBVIOUS
<1>1. SinkTypeOK
  BY DEF Init, SinkInit, SinkTypeOK
<1>2. chan \in Seq(Units) /\ batch \in Seq(Units)
  BY DEF Init
<1>3. pos \in [Workers -> Nat] /\ wpc \in [Workers -> WorkerState]
  BY CountAssumption DEF Init, Workers, WorkerState
<1>4. cur \in [Workers -> Units \cup {NoUnit}] /\ outcome \in [Units -> Outcome]
  BY DEF Init, Outcome
<1>5. kills \in 0 .. MaxKills /\ faults \in 0 .. MaxFaults
  BY FlagAssumption DEF Init
<1>6. InHand
  BY DEF Init, InHand
<1> QED BY <1>1, <1>2, <1>3, <1>4, <1>5, <1>6 DEF Init, TypeInv, TypeOK, MainState, FolderState

\* The variables an action may leave alone, by name.
LEMMA TypeNext == TypeInv /\ [Next]_vars => TypeInv'
<1> SUFFICES ASSUME TypeInv, [Next]_vars PROVE TypeInv'
  OBVIOUS
<1> USE DEF TypeInv, storeVars, doneVars, outVars, workVars, fileVars, foldVars, faultVars, mainVars
<1>a. SinkTypeOK /\ InHand /\ TypeOK
  BY DEF TypeOK
<1>b. Workers \subseteq Nat /\ NumWorkers \in Nat
  BY CountAssumption DEF Workers
<1>1. ASSUME NEW resume \in BOOLEAN, Start(resume) PROVE TypeInv'
  <2>1. SinkTypeOK'
    BY <1>1, <1>a, SinkOpen, SinkSame DEF Start
  <2>2. plan' \subseteq Units
    BY <1>1 DEF Start, PlanOf
  <2>3. pos' \in [Workers -> Nat] /\ wpc' \in [Workers -> WorkerState] /\ InHand'
    BY <1>1, <1>b DEF Start, WorkerState, InHand
  <2>4. kills' \in 0 .. MaxKills /\ faults' \in 0 .. MaxFaults
    BY <1>1, <1>a, FlagAssumption DEF Start, LogFault, Fault, TypeOK
  <2> QED BY <1>1, <1>a, <2>1, <2>2, <2>3, <2>4 DEF Start, TypeOK, MainState, FolderState, Outcome
<1>2. CASE JoinOk
  BY <1>2, <1>a, SinkSame DEF JoinOk, TypeOK, MainState, InHand
<1>3. ASSUME ThreadsEnd, SinkTypeOK', gs' \subseteq Units, gsExists' \in BOOLEAN,
             doneLog' \subseteq Units, doneTail' \in Units \cup {NoUnit, Garbled},
             out' \in {"absent", "partial", "built"}, served' \subseteq Units,
             index' \subseteq Row \cup {Garbage}, proc' \in MainState,
             kills' \in 0 .. MaxKills, faults' \in 0 .. MaxFaults,
             staged' \subseteq Units, stale' \subseteq Units
      PROVE  TypeInv'
  <2>1. pos' \in [Workers -> Nat] /\ wpc' \in [Workers -> WorkerState] /\ InHand'
    BY <1>3, <1>b DEF ThreadsEnd, WorkerState, InHand
  <2> QED BY <1>3, <1>a, <2>1 DEF ThreadsEnd, TypeOK, FolderState
<1>e. ASSUME LeaveFiles PROVE staged' \subseteq Units /\ stale' \subseteq Units
  BY <1>e, <1>a DEF LeaveFiles, TypeOK
<1>4. CASE JoinErr
  <2>1. SinkTypeOK'
    BY <1>4, <1>a, SinkClose DEF JoinErr
  <2>2. kills' \in 0 .. MaxKills /\ faults' \in 0 .. MaxFaults
    BY <1>4, <1>a, FlagAssumption DEF JoinErr, LogFault, Fault, TypeOK
  <2> QED BY <1>4, <1>3, <1>e, <1>a, <2>1, <2>2 DEF JoinErr, TypeOK, MainState
<1>5. CASE WriteTables
  BY <1>5, <1>a, SinkSame DEF WriteTables, AfterNames, TypeOK, MainState, InHand
<1>6. CASE WriteTablesFails
  BY <1>6, <1>3, <1>e, <1>a, SinkClose, FlagAssumption
     DEF WriteTablesFails, DropSink, Fault, TypeOK, MainState
<1>7. CASE WriteNames
  <2>1. index' \subseteq Row \cup {Garbage}
    BY <1>7, <1>a DEF WriteNames, IndexRows, SinkTypeOK
  <2>2. SinkTypeOK'
    BY <1>7, <1>a, SinkClose DEF WriteNames
  <2>3. kills' \in 0 .. MaxKills /\ faults' \in 0 .. MaxFaults
    BY <1>7, <1>a, FlagAssumption DEF WriteNames, LogFault, Fault, TypeOK
  <2> QED BY <1>7, <2>1, <2>2, <2>3, <1>a DEF WriteNames, AfterNames, TypeOK, MainState, InHand
<1>8. CASE WriteNamesFails
  BY <1>8, <1>3, <1>e, <1>a, SinkClose, FlagAssumption
     DEF WriteNamesFails, DropSink, Fault, TypeOK, MainState
<1>9. CASE CleanStore
  <2>1. gs' \subseteq Units /\ gsExists' \in BOOLEAN
    BY <1>9, <1>a DEF CleanStore, TypeOK
  <2>2. kills' \in 0 .. MaxKills /\ faults' \in 0 .. MaxFaults
    BY <1>9, <1>a, FlagAssumption DEF CleanStore, Fault, TypeOK
  <2> QED BY <1>9, <2>1, <2>2, <1>a, SinkSame DEF CleanStore, TypeOK, MainState, InHand
<1>10. CASE CleanDone
  BY <1>10, <1>a, SinkSame, FlagAssumption DEF CleanDone, Fault, TypeOK, MainState, InHand
<1>11. CASE CleanNames
  <2>1. SinkTypeOK'
    BY <1>11, <1>a, SinkRemove, SinkSame DEF CleanNames
  <2> QED BY <1>11, <2>1, <1>a, FlagAssumption DEF CleanNames, Fault, TypeOK, MainState, InHand
<1>12. CASE Exit
  <2>1. staged' \subseteq Units /\ stale' \subseteq Units
    BY <1>12, <1>a DEF Exit, TypeOK
  <2>2. kills' \in 0 .. MaxKills /\ faults' \in 0 .. MaxFaults
    BY <1>12, <1>a, FlagAssumption DEF Exit, Fault, TypeOK
  <2> QED BY <1>12, <1>3, <1>a, <2>1, <2>2, SinkSame DEF Exit, TypeOK, MainState
<1>m. ASSUME NEW S, RemoveEntries(S), S \subseteq Units
      PROVE  /\ staged' \subseteq Units /\ stale' \subseteq Units
             /\ kills' \in 0 .. MaxKills /\ faults' \in 0 .. MaxFaults
  BY <1>m, <1>a, FlagAssumption DEF RemoveEntries, Fault, TypeOK
<1>13. ASSUME NEW w \in Workers, WorkerStep(w) PROVE TypeInv'
  <2>1. CASE Open(w)
    BY <2>1, <1>a, SinkSame DEF Open, Goto, TypeOK, WorkerState, InHand
  <2>2. CASE OpenFails(w)
    <3>1. deserted' \subseteq Units
      BY <2>2, <1>a DEF OpenFails, StrideOf, TypeOK
    <3> QED BY <2>2, <3>1, <1>a, SinkSame, FlagAssumption
            DEF OpenFails, Fault, Goto, TypeOK, WorkerState, InHand
  <2>3. CASE Take(w)
    <3>1. PICK u \in plan : cur' = [cur EXCEPT ![w] = u] /\ staged' = staged \cup {u}
      BY <2>3 DEF Take
    <3>2. u \in Units
      BY <3>1, <1>a DEF TypeOK
    <3>3. pos' \in [Workers -> Nat]
      BY <2>3, <1>a, <1>b DEF Take, Stride, TypeOK
    <3>4. SinkTypeOK'
      BY <2>3, <1>a, SinkSame DEF Take
    <3> QED BY <2>3, <3>1, <3>2, <3>3, <3>4, <1>a DEF Take, Goto, TypeOK, WorkerState, InHand
  <2>4. CASE TakeFails(w)
    <3>1. outcome' \in [Units -> Outcome]
      BY <2>4, <1>a DEF TakeFails, TypeOK, Outcome
    <3>2. pos' \in [Workers -> Nat]
      BY <2>4, <1>a, <1>b DEF TakeFails, Stride, TypeOK
    <3> QED BY <2>4, <3>1, <3>2, <1>a, SinkSame DEF TakeFails, TypeOK, InHand
  <2>5. CASE Finish(w)
    BY <2>5, <1>a, SinkSame DEF Finish, Goto, TypeOK, WorkerState, InHand
  <2>6. ASSUME NEW result \in {"ok", "empty", "failed"}, Indexed(w, result) PROVE TypeInv'
    <3>1. CASE result = "ok"
      BY <2>6, <3>1, <1>a, SinkSame DEF Indexed, Goto, TypeOK, WorkerState, InHand
    <3>2. CASE result # "ok"
      <4>1. /\ staged' \subseteq Units /\ stale' \subseteq Units
            /\ kills' \in 0 .. MaxKills /\ faults' \in 0 .. MaxFaults
        BY <2>6, <3>2, <1>a, <1>m DEF Indexed, InHand
      <4>2. outcome' \in [Units -> Outcome] /\ cur' \in [Workers -> Units \cup {NoUnit}]
        BY <2>6, <3>2, <1>a DEF Indexed, Count, PutDown, TypeOK, Outcome
      <4>3. wpc' \in [Workers -> WorkerState] /\ InHand'
        BY <2>6, <3>2, <1>a DEF Indexed, Goto, PutDown, TypeOK, WorkerState, InHand
      <4> QED BY <2>6, <4>1, <4>2, <4>3, <1>a, SinkSame DEF Indexed, TypeOK
    <3> QED BY <3>1, <3>2
  <2>7. CASE Scan(w)
    <3>1. RowsOf[cur[w]] \in SUBSET Row
      BY <2>7, <1>a, DataAssumption DEF Scan, InHand
    <3>2. SinkTypeOK'
      BY <2>7, <3>1, <1>a, SinkAdd, SinkSame DEF Scan
    <3>3. kills' \in 0 .. MaxKills /\ faults' \in 0 .. MaxFaults
      BY <2>7, <1>a, FlagAssumption DEF Scan, LogFault, Fault, TypeOK
    <3> QED BY <2>7, <3>2, <3>3, <1>a DEF Scan, Goto, Count, TypeOK, WorkerState, Outcome, InHand
  <2>8. CASE ScanFails(w)
    <3>1. RowsOf[cur[w]] \in SUBSET Row
      BY <2>8, <1>a, DataAssumption DEF ScanFails, InHand
    <3>2. SinkTypeOK'
      BY <2>8, <3>1, <1>a, SinkAdd DEF ScanFails
    <3> QED BY <2>8, <3>2, <1>a, FlagAssumption
            DEF ScanFails, Fault, Goto, Count, TypeOK, WorkerState, Outcome, InHand
  <2>9. CASE Send(w)
    <3>1. chan' \in Seq(Units)
      BY <2>9, <1>a DEF Send, InHand, TypeOK
    <3> QED BY <2>9, <3>1, <1>a, SinkSame DEF Send, Goto, PutDown, TypeOK, WorkerState, InHand
  <2>10. CASE SendFails(w)
    BY <2>10, <1>a, SinkSame DEF SendFails, Goto, PutDown, TypeOK, WorkerState, InHand
  <2> QED BY <1>13, <2>1, <2>2, <2>3, <2>5, <2>6, <2>7, <2>8, <2>9, <2>10, <2>4 DEF WorkerStep
<1>14. CASE Receive
  <2>1. Head(chan) \in Units /\ Tail(chan) \in Seq(Units)
    BY <1>14, <1>a DEF Receive, TypeOK
  <2>2. Size[Head(chan)] \in Nat
    BY <2>1, DataAssumption
  <2>3. /\ chan' \in Seq(Units) /\ batch' \in Seq(Units) /\ batchBytes' \in Nat /\ folder' \in FolderState
    BY <1>14, <2>1, <2>2, <1>a DEF Receive, TypeOK, FolderState
  <2> QED BY <1>14, <2>3, <1>a, SinkSame DEF Receive, TypeOK, InHand
<1>15. CASE Disconnect
  BY <1>15, <1>a, SinkSame DEF Disconnect, TypeOK, FolderState, InHand
<1>r. RangeOf(batch) \subseteq Units
  BY <1>a, RangeInType DEF TypeOK
<1>16. CASE Fold
  <2>1. /\ staged' \subseteq Units /\ stale' \subseteq Units
        /\ kills' \in 0 .. MaxKills /\ faults' \in 0 .. MaxFaults
    BY <1>16, <1>r, <1>m DEF Fold
  <2> QED BY <1>16, <2>1, <1>r, <1>a, SinkSame DEF Fold, Fed, TypeOK, FolderState, InHand
<1>17. CASE FoldFails
  <2>1. gs' \subseteq Units /\ gsExists' \in BOOLEAN
    BY <1>17, <1>r, <1>a DEF FoldFails, PartOf, TypeOK
  <2>2. kills' \in 0 .. MaxKills /\ faults' \in 0 .. MaxFaults
    BY <1>17, <1>a, FlagAssumption DEF FoldFails, Fault, TypeOK
  <2>3. chan' \in Seq(Units)
    BY <1>17 DEF FoldFails
  <2> QED BY <1>17, <2>1, <2>2, <2>3, <1>a, SinkSame DEF FoldFails, TypeOK, FolderState, InHand
<1>18. CASE LogLine
  BY <1>18, <1>a, SinkSame DEF LogLine, AppendDone, TypeOK, InHand
<1>t. ASSUME logged < Len(batch), TearDone(batch[logged + 1])
      PROVE  doneLog' \subseteq Units /\ doneTail' \in Units \cup {NoUnit, Garbled}
  <2>1. batch[logged + 1] \in Units
    BY <1>t, <1>a DEF TypeOK
  <2> QED BY <1>t, <2>1, <1>a DEF TearDone, Glued, TypeOK
<1>19. CASE LogFails
  <2>1. doneLog' \subseteq Units /\ doneTail' \in Units \cup {NoUnit, Garbled}
    BY <1>19, <1>t, <1>a DEF LogFails, TypeOK
  <2> QED BY <1>19, <2>1, <1>a, SinkSame, FlagAssumption
          DEF LogFails, Fault, TypeOK, FolderState, InHand
<1>20. CASE LogDone
  BY <1>20, <1>a, SinkSame DEF LogDone, TypeOK, FolderState, InHand
<1>21. CASE Kill
  <2>1. doneLog' \subseteq Units /\ doneTail' \in Units \cup {NoUnit, Garbled}
    BY <1>21, <1>t, <1>a DEF Kill, TypeOK
  <2>2. gs' \subseteq Units /\ gsExists' \in BOOLEAN
    BY <1>21, <1>r, <1>a DEF Kill, PartOf, TypeOK
  <2>3. kills' \in 0 .. MaxKills
    BY <1>21, <1>a, FlagAssumption DEF Kill, TypeOK
  <2> QED BY <1>21, <1>3, <1>e, <2>1, <2>2, <2>3, <1>a, SinkKill DEF Kill, TypeOK, MainState
<1>22. CASE RemoveOut
  BY <1>22, <1>a, SinkSame DEF RemoveOut, TypeOK, InHand
<1>23. CASE RemoveStore
  BY <1>23, <1>a, SinkSame DEF RemoveStore, TypeOK, InHand
<1>24. CASE UNCHANGED vars
  BY <1>24, <1>a, SinkSame DEF vars, TypeOK, InHand
<1> QED
  BY <1>1, <1>2, <1>4, <1>5, <1>6, <1>7, <1>8, <1>9, <1>10, <1>11, <1>12, <1>13, <1>14, <1>15,
     <1>16, <1>17, <1>18, <1>19, <1>20, <1>21, <1>22, <1>23, <1>24
     DEF Next, MainStep, FolderStep

\* Every variable keeps its type, in every behaviour of the pipeline.
THEOREM TypeCorrect == Spec => []TypeOK
<1>1. Init => TypeInv
  BY TypeInit
<1>2. TypeInv /\ [Next]_vars => TypeInv'
  BY TypeNext
<1>3. TypeInv => TypeOK
  BY DEF TypeInv
<1> QED BY <1>1, <1>2, <1>3, PTL DEF Spec

-----------------------------------------------------------------------------
(***************************************************************************)
(* What a resumed run skips is folded, while the GraphStore is kept.  The  *)
(* invariant has to say of the batch that is being logged that it is in    *)
(* the GraphStore, and that the store never shrinks: no cleanup runs.      *)
(***************************************************************************)
DoneInv ==
    /\ ReadDone \subseteq gs
    /\ folder \in {"log", "lastLog"} => RangeOf(batch) \subseteq gs
    /\ proc \notin {"cleanStore", "cleanDone", "cleanNames"}

\* Every step keeps what the done log claims in the store.
LEMMA DoneNext ==
    ASSUME KeepGraphstore, ~AllowRemoveStore, TypeInv, DoneInv, [Next]_vars
    PROVE  DoneInv'
<1> USE DEF storeVars, doneVars, outVars, workVars, fileVars, foldVars, faultVars, mainVars
<1>l. ASSUME logged < Len(batch), folder \in {"log", "lastLog"}
      PROVE  batch[logged + 1] \in gs
  <2>1. batch \in Seq(Units) /\ logged \in Nat
    BY DEF TypeInv, TypeOK
  <2> QED BY <1>l, <2>1 DEF DoneInv, RangeOf
\* The steps that touch neither the done log nor the folder's batch.
<1>s. ASSUME UNCHANGED doneVars, gs \subseteq gs',
             proc' \notin {"cleanStore", "cleanDone", "cleanNames"},
             \/ UNCHANGED <<folder, batch>>
             \/ folder' \notin {"log", "lastLog"}
      PROVE  DoneInv'
  BY <1>s DEF DoneInv, ReadDone, RangeOf
<1>1. ASSUME NEW resume \in BOOLEAN, Start(resume) PROVE DoneInv'
  BY <1>1, <1>s DEF Start
<1>2. CASE JoinOk \/ JoinErr \/ WriteTablesFails \/ WriteNamesFails \/ Exit
  BY <1>2, <1>s DEF JoinOk, JoinErr, WriteTablesFails, WriteNamesFails, Exit, ThreadsEnd
<1>3. CASE WriteTables \/ WriteNames
  BY <1>3, <1>s DEF WriteTables, WriteNames, AfterNames
<1>4. CASE CleanStore \/ CleanDone \/ CleanNames
  BY <1>4 DEF DoneInv, CleanStore, CleanDone, CleanNames
<1>5. ASSUME NEW w \in Workers, WorkerStep(w) PROVE DoneInv'
  <2>1. UNCHANGED <<doneVars, gs, proc, folder, batch>>
    BY <1>5 DEF WorkerStep, Open, OpenFails, Take, TakeFails, Finish, Indexed, Scan, ScanFails, Send,
                SendFails
  <2> QED BY <2>1, <1>s DEF DoneInv
<1>6. CASE Receive \/ Disconnect \/ FoldFails
  BY <1>6, <1>s DEF Receive, Disconnect, FoldFails, PartOf, DoneInv
<1>7. CASE Fold
  BY <1>7 DEF Fold, Fed, DoneInv, ReadDone
<1>8. CASE LogLine
  <2>1. ReadDone' \subseteq gs
    BY <1>8, <1>l, DataAssumption DEF LogLine, AppendDone, Glued, ReadDone, DoneInv
  <2> QED BY <1>8, <2>1 DEF LogLine, DoneInv, RangeOf
<1>t. ASSUME logged < Len(batch), folder \in {"log", "lastLog"}, TearDone(batch[logged + 1])
      PROVE  ReadDone' \subseteq gs
  BY <1>t, <1>l, DataAssumption DEF TearDone, Glued, ReadDone, DoneInv
<1>9. CASE LogFails
  <2>1. ReadDone' \subseteq gs
    BY <1>9, <1>t DEF LogFails, ReadDone, DoneInv
  <2> QED BY <1>9, <2>1 DEF LogFails, DoneInv
<1>10. CASE LogDone
  BY <1>10, <1>s DEF LogDone, DoneInv
<1>11. CASE Kill
  <2>1. gs \subseteq gs'
    BY <1>11 DEF Kill, PartOf, DoneInv
  <2>2. ReadDone' \subseteq gs
    BY <1>11, <1>t DEF Kill, ReadDone, DoneInv
  <2> QED BY <1>11, <2>1, <2>2 DEF Kill, ThreadsEnd, DoneInv
<1>12. CASE RemoveOut
  BY <1>12, <1>s DEF RemoveOut, DoneInv
<1>13. CASE RemoveStore
  BY <1>13 DEF RemoveStore
<1>14. CASE UNCHANGED vars
  BY <1>14, <1>s DEF vars, DoneInv
<1> QED
  BY <1>1, <1>2, <1>3, <1>4, <1>5, <1>6, <1>7, <1>8, <1>9, <1>10, <1>11, <1>12, <1>13, <1>14
     DEF Next, MainStep, FolderStep

\* While the GraphStore is kept and not removed, the done log names only CUs
\* that are in it, after any kills, failing calls and resumed runs.
THEOREM SkipsOnlyFolded ==
    ASSUME KeepGraphstore, ~AllowRemoveStore
    PROVE  Spec => []DoneImpliesFolded
<1>1. Init => TypeInv /\ DoneInv
  BY TypeInit, DataAssumption DEF Init, DoneInv, ReadDone
<1>2. TypeInv /\ DoneInv /\ [Next]_vars => (TypeInv /\ DoneInv)'
  BY TypeNext, DoneNext
<1>3. TypeInv /\ DoneInv => DoneImpliesFolded
  BY DEF DoneInv, DoneImpliesFolded
<1> QED BY <1>1, <1>2, <1>3, PTL DEF Spec

-----------------------------------------------------------------------------
Distinct(s) == \A i, j \in 1 .. Len(s) : s[i] = s[j] => i = j

-----------------------------------------------------------------------------
(***************************************************************************)
(* The channel and the batch as sequences.                                 *)
(***************************************************************************)
LEMMA AppendRange ==
    ASSUME NEW S, NEW s \in Seq(S), NEW x \in S
    PROVE  /\ RangeOf(Append(s, x)) = RangeOf(s) \cup {x}
           /\ Distinct(s) /\ x \notin RangeOf(s) => Distinct(Append(s, x))
<1>1. Append(s, x) \in Seq(S) /\ Len(Append(s, x)) = Len(s) + 1 /\ Len(s) \in Nat
  OBVIOUS
<1>2. \A i \in 1 .. Len(s) : Append(s, x)[i] = s[i]
  OBVIOUS
<1>3. Append(s, x)[Len(s) + 1] = x
  OBVIOUS
<1>4. RangeOf(Append(s, x)) = RangeOf(s) \cup {x}
  <2>1. ASSUME NEW y \in RangeOf(Append(s, x)) PROVE y \in RangeOf(s) \cup {x}
    <3>1. PICK i \in 1 .. Len(s) + 1 : y = Append(s, x)[i]
      BY <1>1 DEF RangeOf
    <3>2. CASE i = Len(s) + 1
      BY <3>1, <3>2, <1>3
    <3>3. CASE i \in 1 .. Len(s)
      BY <3>1, <3>3, <1>2 DEF RangeOf
    <3> QED BY <1>1, <3>2, <3>3
  <2>2. ASSUME NEW y \in RangeOf(s) \cup {x} PROVE y \in RangeOf(Append(s, x))
    <3>1. CASE y = x
      BY <3>1, <1>1, <1>3 DEF RangeOf
    <3>2. CASE y \in RangeOf(s)
      <4>1. PICK i \in 1 .. Len(s) : y = s[i]
        BY <3>2 DEF RangeOf
      <4>2. y = Append(s, x)[i] /\ i \in 1 .. Len(Append(s, x))
        BY <4>1, <1>1, <1>2
      <4> QED BY <4>2 DEF RangeOf
    <3> QED BY <3>1, <3>2
  <2> QED BY <2>1, <2>2
<1>5. ASSUME Distinct(s), x \notin RangeOf(s) PROVE Distinct(Append(s, x))
  <2>1. \A i \in 1 .. Len(s) : s[i] # x
    BY <1>5 DEF RangeOf
  <2> SUFFICES ASSUME NEW i \in 1 .. Len(s) + 1, NEW j \in 1 .. Len(s) + 1,
                      Append(s, x)[i] = Append(s, x)[j]
               PROVE  i = j
    BY <1>1 DEF Distinct
  <2>2. CASE i = Len(s) + 1 /\ j # Len(s) + 1
    BY <2>1, <2>2, <1>1, <1>2, <1>3
  <2>3. CASE j = Len(s) + 1 /\ i # Len(s) + 1
    BY <2>1, <2>3, <1>1, <1>2, <1>3
  <2>4. CASE i # Len(s) + 1 /\ j # Len(s) + 1
    BY <2>4, <1>1, <1>2, <1>5 DEF Distinct
  <2> QED BY <2>2, <2>3, <2>4
<1> QED BY <1>4, <1>5

\* A tail has no more than its sequence.
LEMMA TailRange ==
    ASSUME NEW S, NEW s \in Seq(S), s # <<>>
    PROVE  /\ RangeOf(s) = RangeOf(Tail(s)) \cup {Head(s)}
           /\ Distinct(s) => Distinct(Tail(s)) /\ Head(s) \notin RangeOf(Tail(s))
<1>1. Tail(s) \in Seq(S) /\ Len(s) \in Nat /\ Len(s) > 0 /\ Len(Tail(s)) = Len(s) - 1
  OBVIOUS
<1>2. \A i \in 1 .. Len(s) - 1 : Tail(s)[i] = s[i + 1]
  OBVIOUS
<1>3. Head(s) = s[1]
  OBVIOUS
<1>4. ASSUME NEW y \in RangeOf(s) PROVE y \in RangeOf(Tail(s)) \cup {Head(s)}
  <2>1. PICK i \in 1 .. Len(s) : y = s[i]
    BY <1>4 DEF RangeOf
  <2>2. CASE i # 1
    <3>1. i - 1 \in 1 .. Len(Tail(s)) /\ Tail(s)[i - 1] = s[i]
      BY <2>2, <1>1, <1>2
    <3> QED BY <3>1, <2>1 DEF RangeOf
  <2> QED BY <2>1, <2>2, <1>3
<1>5. ASSUME NEW y \in RangeOf(Tail(s)) PROVE \E i \in 2 .. Len(s) : y = s[i]
  <2>1. PICK i \in 1 .. Len(s) - 1 : y = Tail(s)[i]
    BY <1>1, <1>5 DEF RangeOf
  <2>2. i + 1 \in 2 .. Len(s) /\ y = s[i + 1]
    BY <2>1, <1>1, <1>2
  <2> QED BY <2>2
<1>6. RangeOf(s) = RangeOf(Tail(s)) \cup {Head(s)}
  <2>1. Head(s) \in RangeOf(s)
    BY <1>1, <1>3 DEF RangeOf
  <2>2. RangeOf(Tail(s)) \subseteq RangeOf(s)
    BY <1>1, <1>5 DEF RangeOf
  <2> QED BY <2>1, <2>2, <1>4
<1>7. ASSUME Distinct(s) PROVE Distinct(Tail(s)) /\ Head(s) \notin RangeOf(Tail(s))
  <2>1. ASSUME NEW i \in 1 .. Len(s) - 1, NEW j \in 1 .. Len(s) - 1, Tail(s)[i] = Tail(s)[j]
        PROVE  i = j
    <3>1. s[i + 1] = s[j + 1] /\ i + 1 \in 1 .. Len(s) /\ j + 1 \in 1 .. Len(s)
      BY <2>1, <1>1, <1>2
    <3>2. i + 1 = j + 1
      BY <3>1, <1>7 DEF Distinct
    <3> QED BY <3>2
  <2>2. Head(s) \notin RangeOf(Tail(s))
    <3>1. \A i \in 2 .. Len(s) : s[i] # s[1]
      BY <1>1, <1>7 DEF Distinct
    <3> QED BY <3>1, <1>3, <1>5
  <2> QED BY <1>1, <2>1, <2>2 DEF Distinct
<1> QED BY <1>6, <1>7

\* Two sequences without repetition and without a common element have none together.
LEMMA ConcatDistinct ==
    ASSUME NEW S, NEW s \in Seq(S), NEW t \in Seq(S), Distinct(s), Distinct(t),
           RangeOf(s) \cap RangeOf(t) = {}
    PROVE  Distinct(s \o t) /\ RangeOf(s \o t) \subseteq RangeOf(s) \cup RangeOf(t)
<1>1. s \o t \in Seq(S) /\ Len(s \o t) = Len(s) + Len(t) /\ Len(s) \in Nat /\ Len(t) \in Nat
  OBVIOUS
<1>2. \A i \in 1 .. Len(s) : (s \o t)[i] = s[i]
  OBVIOUS
<1>3. \A i \in Len(s) + 1 .. Len(s) + Len(t) :
         (s \o t)[i] = t[i - Len(s)] /\ i - Len(s) \in 1 .. Len(t)
  BY <1>1
<1>4. \A i \in 1 .. Len(s) + Len(t) : i \in 1 .. Len(s) \/ i \in Len(s) + 1 .. Len(s) + Len(t)
  BY <1>1
<1>5. ASSUME NEW i \in 1 .. Len(s), NEW j \in Len(s) + 1 .. Len(s) + Len(t)
      PROVE  (s \o t)[i] # (s \o t)[j]
  <2>1. (s \o t)[i] \in RangeOf(s)
    BY <1>2 DEF RangeOf
  <2>2. (s \o t)[j] \in RangeOf(t)
    BY <1>3 DEF RangeOf
  <2> QED BY <2>1, <2>2
<1>6. ASSUME NEW i \in 1 .. Len(s) + Len(t), NEW j \in 1 .. Len(s) + Len(t),
             (s \o t)[i] = (s \o t)[j]
      PROVE  i = j
  <2>1. CASE i \in 1 .. Len(s) /\ j \in 1 .. Len(s)
    BY <2>1, <1>2, <1>6 DEF Distinct
  <2>2. CASE i \in Len(s) + 1 .. Len(s) + Len(t) /\ j \in Len(s) + 1 .. Len(s) + Len(t)
    <3>1. i - Len(s) = j - Len(s)
      BY <2>2, <1>3, <1>6 DEF Distinct
    <3> QED BY <3>1, <1>1
  <2> QED BY <2>1, <2>2, <1>4, <1>5, <1>6
<1>7. RangeOf(s \o t) \subseteq RangeOf(s) \cup RangeOf(t)
  <2> SUFFICES ASSUME NEW i \in 1 .. Len(s) + Len(t)
               PROVE  (s \o t)[i] \in RangeOf(s) \cup RangeOf(t)
    BY <1>1 DEF RangeOf
  <2> QED BY <1>2, <1>3, <1>4 DEF RangeOf
<1> QED BY <1>1, <1>6, <1>7 DEF Distinct

-----------------------------------------------------------------------------
(***************************************************************************)
(* Exclusive.  A CU in a worker's hands or in the queue was taken by the   *)
(* worker of its stride, whose position is past it: so the CU at a         *)
(* worker's position is nowhere yet.                                       *)
(***************************************************************************)
Taken(u, w) ==
    u \in plan /\ Position(u, plan) % NumWorkers = w /\ Position(u, plan) < pos[w]

TakenInv ==
    /\ \A w \in Workers : pos[w] % NumWorkers = w
    /\ \A w \in Workers : cur[w] # NoUnit => Taken(cur[w], w)
    /\ \A u \in RangeOf(batch) \cup RangeOf(chan) : \E w \in Workers : Taken(u, w)
    /\ ~Running => /\ batch = <<>> /\ chan = <<>> /\ folder = "done"
                   /\ \A w \in Workers : cur[w] = NoUnit /\ wpc[w] = "gone"

QueueInv ==
    /\ \A w \in Workers : cur[w] \notin RangeOf(batch) \cup RangeOf(chan)
    /\ Distinct(batch) /\ Distinct(chan)
    /\ RangeOf(batch) \cap RangeOf(chan) = {}

PlaceInv == TakenInv /\ QueueInv

\* Every step keeps each CU in one place.
LEMMA PlaceNext == TypeInv /\ PlaceInv /\ [Next]_vars => PlaceInv'
<1> SUFFICES ASSUME TypeInv, PlaceInv, [Next]_vars PROVE PlaceInv'
  OBVIOUS
<1> USE DEF storeVars, doneVars, outVars, workVars, fileVars, foldVars, faultVars, mainVars
<1>a. /\ plan \in SUBSET (1 .. NumUnits) /\ NumUnits \in Nat /\ NumWorkers \in Nat \ {0}
      /\ Workers = 0 .. NumWorkers - 1
      /\ pos \in [Workers -> Nat] /\ cur \in [Workers -> Units \cup {NoUnit}]
      /\ chan \in Seq(Units) /\ batch \in Seq(Units)
      /\ NoUnit \notin Units
  BY CountAssumption, DataAssumption DEF TypeInv, TypeOK, Units, Workers
<1>e. RangeOf(<<>>) = {} /\ Distinct(<<>>)
  BY DEF RangeOf, Distinct
<1>p. \A u : Position(u, plan) \in Nat
  BY <1>a, PositionType
\* No thread has anything: the process starts, or ends.
<1>n. ASSUME batch' = <<>>, chan' = <<>>, cur' = [w \in Workers |-> NoUnit],
             pos' = [w \in Workers |-> w],
             Running' \/ (folder' = "done" /\ wpc' = [w \in Workers |-> "gone"])
      PROVE  PlaceInv'
  <2>1. \A w \in Workers : pos'[w] % NumWorkers = w
    BY <1>n, <1>a, StrideStart
  <2> QED BY <1>n, <1>e, <2>1 DEF PlaceInv, TakenInv, QueueInv
\* Nothing moves.
<1>s. ASSUME UNCHANGED <<plan, pos, cur, batch, chan>>,
             Running' \/ UNCHANGED <<proc, wpc, folder>>
      PROVE  PlaceInv'
  <2>1. QueueInv'
    BY <1>s DEF PlaceInv, QueueInv, RangeOf, Distinct
  <2>2. \A u, w : Taken(u, w)' <=> Taken(u, w)
    BY <1>s DEF Taken
  <2>3. \A w \in Workers : pos'[w] % NumWorkers = w
    BY <1>s DEF PlaceInv, TakenInv
  <2>4. \A w \in Workers : cur'[w] # NoUnit => Taken(cur[w], w)'
    BY <1>s, <2>2 DEF PlaceInv, TakenInv
  <2>5. \A u \in RangeOf(batch)' \cup RangeOf(chan)' : \E w \in Workers : Taken(u, w)'
    <3>1. RangeOf(batch)' = RangeOf(batch) /\ RangeOf(chan)' = RangeOf(chan)
      BY <1>s DEF RangeOf
    <3> QED BY <2>2, <3>1 DEF PlaceInv, TakenInv
  <2> QED BY <1>s, <2>1, <2>3, <2>4, <2>5 DEF PlaceInv, TakenInv, Running
<1>1. ASSUME NEW resume \in BOOLEAN, Start(resume) PROVE PlaceInv'
  <2>1. batch = <<>> /\ chan = <<>> /\ \A w \in Workers : cur[w] = NoUnit
    BY <1>1 DEF Start, Running, PlaceInv, TakenInv
  <2>2. batch' = <<>> /\ chan' = <<>> /\ cur' = [w \in Workers |-> NoUnit]
    BY <1>1, <1>a, <2>1 DEF Start
  <2> QED BY <1>1, <1>n, <2>2 DEF Start, Running
<1>2. CASE JoinErr \/ WriteTablesFails \/ WriteNamesFails \/ Exit \/ Kill
  BY <1>2, <1>n DEF JoinErr, WriteTablesFails, WriteNamesFails, Exit, Kill, ThreadsEnd
<1>3. CASE JoinOk \/ WriteTables \/ WriteNames \/ CleanStore \/ CleanDone \/ CleanNames
  BY <1>3, <1>s DEF JoinOk, WriteTables, WriteNames, AfterNames, CleanStore, CleanDone,
                    CleanNames, Running
<1>4. ASSUME NEW w \in Workers, WorkerStep(w) PROVE PlaceInv'
  <2>r. Running /\ Running'
    <3>1. wpc[w] # "gone" /\ proc' = proc
      BY <1>4 DEF WorkerStep, Open, OpenFails, Take, TakeFails, Finish, Indexed, Scan, ScanFails, Send,
                  SendFails
    <3> QED BY <3>1 DEF PlaceInv, TakenInv, Running
  <2>1. CASE Open(w) \/ OpenFails(w) \/ Finish(w) \/ Scan(w) \/ ScanFails(w)
    BY <2>1, <2>r, <1>s DEF Open, OpenFails, Finish, Scan, ScanFails
  <2>2. CASE Take(w)
    <3>1. PICK u \in plan : Position(u, plan) = pos[w] /\ cur' = [cur EXCEPT ![w] = u]
      BY <2>2 DEF Take
    <3>2. /\ pos' = [pos EXCEPT ![w] = @ + NumWorkers]
          /\ UNCHANGED <<plan, batch, chan, proc>>
      BY <2>2 DEF Take, Stride
    <3>3. (pos[w] + NumWorkers) % NumWorkers = w /\ pos[w] % NumWorkers = w
      BY <1>a, StrideStep DEF PlaceInv, TakenInv
    <3>4. pos[w] + NumWorkers > pos[w] /\ pos[w] \in Nat
      BY <1>a
    <3>5. \A x, v : v \in Workers /\ Taken(x, v) => Taken(x, v)'
      BY <3>2, <3>4, <1>a, <1>p DEF Taken
    <3>6. \A v \in Workers : ~Taken(u, v)
      <4> SUFFICES ASSUME NEW v \in Workers, Taken(u, v) PROVE FALSE
        OBVIOUS
      <4>1. v = w
        BY <3>1, <3>3 DEF Taken
      <4> QED BY <4>1, <3>1, <3>4 DEF Taken
    <3>7. u \notin RangeOf(batch) \cup RangeOf(chan)
      BY <3>6 DEF PlaceInv, TakenInv
    <3>8. Taken(u, w)'
      BY <3>1, <3>2, <3>3, <3>4, <1>a DEF Taken
    <3>9. \A v \in Workers : cur'[v] # NoUnit => Taken(cur[v], v)'
      <4>1. \A v \in Workers : v # w => cur'[v] = cur[v]
        BY <3>1, <1>a
      <4>2. cur'[w] = u
        BY <3>1, <1>a
      <4>3. \A v \in Workers : v # w /\ cur[v] # NoUnit => Taken(cur[v], v)' 
        BY <3>5, <4>1, <3>2 DEF PlaceInv, TakenInv, Taken
      <4> QED BY <3>8, <4>1, <4>2, <4>3 DEF Taken
    <3>10. \A v \in Workers : pos'[v] % NumWorkers = v
      BY <3>2, <3>3, <1>a DEF PlaceInv, TakenInv
    <3>11. RangeOf(batch)' = RangeOf(batch) /\ RangeOf(chan)' = RangeOf(chan)
      BY <3>2 DEF RangeOf
    <3>12. \A x \in RangeOf(batch)' \cup RangeOf(chan)' : \E v \in Workers : Taken(x, v)'
      BY <3>5, <3>11 DEF PlaceInv, TakenInv
    <3>13. TakenInv'
      BY <2>r, <3>9, <3>10, <3>12 DEF TakenInv
    <3>14. QueueInv'
      <4>1. \A v \in Workers : cur'[v] \notin RangeOf(batch) \cup RangeOf(chan)
        BY <3>1, <3>7, <1>a DEF PlaceInv, QueueInv
      <4> QED BY <3>2, <3>11, <4>1 DEF PlaceInv, QueueInv, Distinct
    <3> QED BY <3>13, <3>14 DEF PlaceInv
  <2>3. CASE TakeFails(w)
    <3>1. /\ pos' = [pos EXCEPT ![w] = @ + NumWorkers]
          /\ UNCHANGED <<plan, cur, wpc, batch, chan, proc, folder>>
      BY <2>3 DEF TakeFails, Stride
    <3>2. (pos[w] + NumWorkers) % NumWorkers = w
      BY <1>a, StrideStep DEF PlaceInv, TakenInv
    <3>3. pos[w] + NumWorkers > pos[w] /\ pos[w] \in Nat
      BY <1>a
    <3>4. \A x, v : v \in Workers /\ Taken(x, v) => Taken(x, v)'
      BY <3>1, <3>3, <1>a, <1>p DEF Taken
    <3>5. \A v \in Workers : pos'[v] % NumWorkers = v
      BY <3>1, <3>2, <1>a DEF PlaceInv, TakenInv
    <3>6. RangeOf(batch)' = RangeOf(batch) /\ RangeOf(chan)' = RangeOf(chan)
      BY <3>1 DEF RangeOf
    <3>7. \A v \in Workers : cur'[v] # NoUnit => Taken(cur[v], v)'
      BY <3>1, <3>4 DEF PlaceInv, TakenInv
    <3>8. \A x \in RangeOf(batch)' \cup RangeOf(chan)' : \E v \in Workers : Taken(x, v)'
      BY <3>4, <3>6 DEF PlaceInv, TakenInv
    <3>9. TakenInv'
      BY <2>r, <3>1, <3>5, <3>7, <3>8 DEF TakenInv
    <3>10. QueueInv'
      BY <3>1, <3>6 DEF PlaceInv, QueueInv, Distinct
    <3> QED BY <3>9, <3>10 DEF PlaceInv
  \* A worker that gives up its CU, or hands it to the channel.
  <2>4. ASSUME UNCHANGED <<plan, pos, batch>>, cur' = [cur EXCEPT ![w] = NoUnit],
               \/ UNCHANGED chan
               \/ cur[w] \in Units /\ chan' = Append(chan, cur[w])
        PROVE  PlaceInv'
    <3>1. \A u, v : Taken(u, v)' <=> Taken(u, v)
      BY <2>4 DEF Taken
    <3>2. \A v \in Workers : cur'[v] # NoUnit => cur'[v] = cur[v] /\ v # w
      BY <2>4, <1>a
    <3>3. RangeOf(batch)' = RangeOf(batch) /\ Distinct(batch)' = Distinct(batch)
      BY <2>4 DEF RangeOf, Distinct
    <3>4. CASE UNCHANGED chan
      <4>1. RangeOf(chan)' = RangeOf(chan) /\ Distinct(chan)' = Distinct(chan)
        BY <3>4 DEF RangeOf, Distinct
      <4>2. TakenInv'
        BY <2>4, <2>r, <3>1, <3>2, <3>3, <4>1 DEF PlaceInv, TakenInv
      <4>3. NoUnit \notin RangeOf(batch) \cup RangeOf(chan)
        BY <1>a, RangeInType
      <4>4. \A v \in Workers : cur'[v] \notin RangeOf(batch) \cup RangeOf(chan)
        BY <3>2, <4>3 DEF PlaceInv, QueueInv
      <4>5. QueueInv'
        BY <3>3, <4>1, <4>4 DEF PlaceInv, QueueInv
      <4> QED BY <4>2, <4>5 DEF PlaceInv
    <3>5. CASE cur[w] \in Units /\ chan' = Append(chan, cur[w])
      <4>1. /\ RangeOf(chan') = RangeOf(chan) \cup {cur[w]}
            /\ Distinct(chan')
        BY <3>5, <1>a, AppendRange DEF PlaceInv, QueueInv
      <4>2. Taken(cur[w], w)
        BY <3>5, <1>a DEF PlaceInv, TakenInv
      <4>3. \A u \in RangeOf(batch) \cup RangeOf(chan') : \E v \in Workers : Taken(u, v)
        BY <4>1, <4>2 DEF PlaceInv, TakenInv
      <4>4. \A u \in RangeOf(batch)' \cup RangeOf(chan)' : \E v \in Workers : Taken(u, v)'
        BY <3>1, <3>3, <4>3 DEF RangeOf
      <4>5. \A v \in Workers : cur'[v] # NoUnit => Taken(cur'[v], v)
        BY <3>2 DEF PlaceInv, TakenInv
      <4>6. TakenInv'
        BY <2>4, <2>r, <3>1, <4>4, <4>5 DEF PlaceInv, TakenInv, Taken
      <4>7. \A v \in Workers : cur'[v] # cur[w]
        <5> SUFFICES ASSUME NEW v \in Workers, cur'[v] = cur[w] PROVE FALSE
          OBVIOUS
        <5>1. v # w /\ cur[v] = cur[w]
          BY <3>2, <3>5, <1>a
        <5>2. Taken(cur[w], v)
          BY <5>1, <3>5, <1>a DEF PlaceInv, TakenInv
        <5> QED BY <5>1, <5>2, <4>2 DEF Taken
      <4>8. NoUnit \notin RangeOf(batch) \cup RangeOf(chan)
        BY <1>a, RangeInType
      <4>9. \A v \in Workers : cur'[v] \notin RangeOf(batch) \cup RangeOf(chan')
        BY <3>2, <4>1, <4>7, <4>8 DEF PlaceInv, QueueInv
      <4>10. RangeOf(batch) \cap RangeOf(chan') = {}
        BY <4>1 DEF PlaceInv, QueueInv
      <4>11. QueueInv'
        BY <3>3, <4>1, <4>9, <4>10 DEF PlaceInv, QueueInv, RangeOf, Distinct
      <4> QED BY <4>6, <4>11 DEF PlaceInv
    <3> QED BY <2>4, <3>4, <3>5
  <2>5. ASSUME NEW result, Indexed(w, result) PROVE PlaceInv'
    BY <2>5, <2>4, <2>r, <1>s DEF Indexed, PutDown
  <2>6. CASE Send(w)
    <3>1. cur[w] \in Units
      BY <2>6 DEF Send, TypeInv, InHand
    <3> QED BY <2>6, <3>1, <2>4 DEF Send, PutDown
  <2>7. CASE SendFails(w)
    BY <2>7, <2>4 DEF SendFails, PutDown
  <2> QED BY <1>4, <2>1, <2>2, <2>5, <2>6, <2>7, <2>3 DEF WorkerStep
\* The queue loses elements, or moves one from the channel to the batch.
<1>5. ASSUME UNCHANGED <<plan, pos, cur, wpc, proc>>,
             ~Running => UNCHANGED folder \/ folder' = "done",
             Distinct(batch'), Distinct(chan'), RangeOf(batch') \cap RangeOf(chan') = {},
             RangeOf(batch') \cup RangeOf(chan') \subseteq RangeOf(batch) \cup RangeOf(chan),
             ~Running => batch' = <<>> /\ chan' = <<>>
      PROVE  PlaceInv'
  <2>1. \A u, v : Taken(u, v)' <=> Taken(u, v)
    BY <1>5 DEF Taken
  <2>2. \A u \in RangeOf(batch') \cup RangeOf(chan') : \E v \in Workers : Taken(u, v)'
    BY <1>5, <2>1 DEF PlaceInv, TakenInv
  <2>3. TakenInv'
    BY <1>5, <2>1, <2>2 DEF PlaceInv, TakenInv, RangeOf, Running
  <2>4. QueueInv'
    BY <1>5 DEF PlaceInv, QueueInv, RangeOf, Distinct
  <2> QED BY <2>3, <2>4 DEF PlaceInv
<1>6. CASE Receive
  <2>1. chan # <<>> /\ Running
    BY <1>6 DEF Receive, PlaceInv, TakenInv
  <2>2. Head(chan) \in Units /\ Head(chan) \in RangeOf(chan)
    BY <2>1, <1>a, TailRange
  <2>3. /\ RangeOf(batch') = RangeOf(batch) \cup {Head(chan)}
        /\ Distinct(batch')
    BY <1>6, <2>2, <1>a, AppendRange DEF Receive, PlaceInv, QueueInv
  <2>4. /\ RangeOf(chan) = RangeOf(chan') \cup {Head(chan)}
        /\ Distinct(chan') /\ Head(chan) \notin RangeOf(chan')
    BY <1>6, <2>1, <1>a, TailRange DEF Receive, PlaceInv, QueueInv
  <2>5. RangeOf(batch') \cap RangeOf(chan') = {}
    BY <2>3, <2>4 DEF PlaceInv, QueueInv
  <2> QED BY <1>6, <1>5, <2>1, <2>3, <2>4, <2>5 DEF Receive
<1>7. CASE Disconnect \/ Fold \/ LogLine
  BY <1>7, <1>s DEF Disconnect, Fold, LogLine, PlaceInv, TakenInv, Running
<1>8. CASE FoldFails \/ LogFails
  <2>1. Running
    BY <1>8 DEF FoldFails, LogFails, PlaceInv, TakenInv
  <2>2. chan' = <<>> /\ UNCHANGED <<plan, pos, cur, wpc, proc, batch>>
    BY <1>8 DEF FoldFails, LogFails
  <2> QED BY <2>1, <2>2, <1>5, <1>e DEF PlaceInv, QueueInv
<1>9. CASE LogDone
  <2>1. Running
    BY <1>9 DEF LogDone, PlaceInv, TakenInv
  <2>2. batch' = <<>> /\ UNCHANGED <<plan, pos, cur, wpc, proc, chan>>
    BY <1>9 DEF LogDone
  <2> QED BY <2>1, <2>2, <1>5, <1>e DEF PlaceInv, QueueInv
<1>10. CASE RemoveOut \/ RemoveStore \/ UNCHANGED vars
  BY <1>10, <1>s DEF RemoveOut, RemoveStore, vars
<1> QED
  BY <1>1, <1>2, <1>3, <1>4, <1>6, <1>7, <1>8, <1>9, <1>10 DEF Next, MainStep, FolderStep

\* No CU is anywhere before the first run.
LEMMA PlaceInit == Init => PlaceInv
<1> SUFFICES ASSUME Init PROVE PlaceInv
  OBVIOUS
<1>1. RangeOf(<<>>) = {} /\ Distinct(<<>>)
  BY DEF RangeOf, Distinct
<1>2. \A w \in Workers : w % NumWorkers = w
  BY CountAssumption, StrideStart DEF Workers
<1> QED BY <1>1, <1>2 DEF Init, PlaceInv, TakenInv, QueueInv

\* A CU is in one place: in the hands of one worker, or once in the queue.
THEOREM IndexedOnce == Spec => []Exclusive
<1>1. Init => TypeInv /\ PlaceInv
  BY TypeInit, PlaceInit
<1>2. TypeInv /\ PlaceInv /\ [Next]_vars => (TypeInv /\ PlaceInv)'
  BY TypeNext, PlaceNext
<1>3. TypeInv /\ PlaceInv => Exclusive
  <2> SUFFICES ASSUME TypeInv, PlaceInv PROVE Exclusive
    OBVIOUS
  <2>1. chan \in Seq(Units) /\ batch \in Seq(Units)
    BY DEF TypeInv, TypeOK
  <2>2. /\ Distinct(batch \o chan)
        /\ RangeOf(batch \o chan) \subseteq RangeOf(batch) \cup RangeOf(chan)
    BY <2>1, ConcatDistinct DEF PlaceInv, QueueInv
  <2>3. \A w \in Workers : cur[w] \notin RangeOf(batch \o chan)
    BY <2>2 DEF PlaceInv, QueueInv
  <2>4. ASSUME NEW v \in Workers, NEW w \in Workers, v # w, cur[v] # NoUnit PROVE cur[v] # cur[w]
    BY <2>4 DEF PlaceInv, TakenInv, Taken
  <2> QED BY <2>2, <2>3, <2>4 DEF Exclusive, Distinct
<1> QED BY <1>1, <1>2, <1>3, PTL DEF Spec

-----------------------------------------------------------------------------
(***************************************************************************)
(* PublishedComplete.  While the threads work (and the folder has not      *)
(* failed), a CU outside the plan is in the GraphStore; a CU of the plan   *)
(* that is not counted yet is ahead of its worker, which has not returned, *)
(* or in its hands, or its worker could not open the kzip; and one counted *)
(* as ok is in the GraphStore or on its way there.                         *)
(***************************************************************************)
Reported(u) == u \in deserted \/ outcome[u] \in {"failed", "empty"}

Pending(u, w) ==
    \/ wpc[w] # "gone" /\ pos[w] <= Position(u, plan)
    \/ wpc[w] \in {"index", "scan"} /\ cur[w] = u

Held(u) ==
    \/ u \in gs \/ u \in RangeOf(batch) \/ u \in RangeOf(chan)
    \/ \E w \in Workers : wpc[w] = "send" /\ cur[w] = u

PlanInv ==
    proc = "threads" /\ folder # "err" =>
        /\ \A u \in Units \ plan : u \in gs
        /\ \A u \in plan, w \in Workers :
              Position(u, plan) % NumWorkers = w /\ outcome[u] = "none" /\ u \notin deserted
                 => Pending(u, w)
        /\ \A u \in plan : outcome[u] = "ok" => Held(u)
        /\ folder \in {"lastFold", "lastLog", "done"} => AllGone /\ chan = <<>>
        /\ folder = "done" => batch = <<>>

PhaseInv ==
    /\ proc # "threads" => AllGone /\ folder = "done"
    /\ proc \in {"threads", "tables"} => out # "built"
    /\ proc = "tables" => \A u \in Units : u \in gs \/ Reported(u)
    /\ PublishedComplete

AllInv == TypeInv /\ DoneInv /\ PlaceInv /\ PlanInv /\ PhaseInv

\* A position is within the plan, and its remainder is one of the workers.
LEMMA PositionFacts ==
    ASSUME NEW p \in SUBSET Units, NEW u \in p
    PROVE  /\ Position(u, p) \in Nat
           /\ Position(u, p) % NumWorkers \in Workers
           /\ Position(u, p) % NumWorkers <= Position(u, p)
           /\ Position(u, p) < Cardinality(p) /\ Cardinality(p) \in Nat
<1>1. p \in SUBSET (1 .. NumUnits) /\ NumUnits \in Nat /\ NumWorkers \in Nat \ {0}
  BY CountAssumption DEF Units
<1>2. Position(u, p) \in Nat /\ Cardinality(p) \in Nat
  BY <1>1, PositionType
<1>3. Position(u, p) % NumWorkers \in 0 .. NumWorkers - 1
  BY <1>1, <1>2, Euclid
<1>4. Position(u, p) % NumWorkers <= Position(u, p)
  BY <1>1, <1>2, RemainderBound
<1>5. Position(u, p) < Cardinality(p)
  BY <1>1, PositionBound
<1> QED BY <1>2, <1>3, <1>4, <1>5 DEF Workers

\* A run starts with its whole plan ahead.
LEMMA StartPlan ==
    ASSUME AllInv, NEW resume \in BOOLEAN, Start(resume), TypeInv' PROVE PlanInv' /\ PhaseInv'
<1> USE DEF storeVars, doneVars, outVars, workVars, foldVars, faultVars
<1>1. \A u \in Units \ plan' : u \in gs'
  BY DEF AllInv, DoneInv, Start, PlanOf
<1>2. \A u \in plan' : outcome'[u] = "none"
  <2>1. plan' \subseteq Units
    BY DEF TypeInv, TypeOK
  <2> QED BY <2>1 DEF Start
<1>3. ASSUME NEW u \in plan', NEW w \in Workers, Position(u, plan') % NumWorkers = w
      PROVE  Pending(u, w)'
  <2>1. Position(u, plan') % NumWorkers <= Position(u, plan')
    BY <1>3, PositionFacts DEF TypeInv, TypeOK
  <2>2. pos'[w] = w /\ wpc'[w] = "open"
    BY DEF Start
  <2>3. w <= Position(u, plan')
    BY <1>3, <2>1
  <2> QED BY <2>2, <2>3 DEF Pending
<1>4. PlanInv'
  BY <1>1, <1>2, <1>3 DEF PlanInv, Start
<1>5. PhaseInv'
  BY DEF PhaseInv, Start, OutputFree, PublishedComplete
<1> QED BY <1>4, <1>5

\* A worker's step moves its CU to the next place, or counts it.
LEMMA WorkerPlan ==
    ASSUME AllInv, TypeInv', NEW w \in Workers, WorkerStep(w) PROVE PlanInv' /\ PhaseInv'
<1> USE DEF storeVars, doneVars, outVars, workVars, fileVars, foldVars, faultVars, mainVars
<1>a. /\ cur \in [Workers -> Units \cup {NoUnit}] /\ wpc \in [Workers -> WorkerState]
      /\ pos \in [Workers -> Nat] /\ outcome \in [Units -> Outcome] /\ plan \in SUBSET Units
      /\ chan \in Seq(Units) /\ batch \in Seq(Units)
  BY DEF AllInv, TypeInv, TypeOK
<1>b. UNCHANGED <<gs, out, served, proc, plan, folder, batch>>
  BY DEF WorkerStep, Open, OpenFails, Take, TakeFails, Finish, Indexed, Scan, ScanFails, Send, SendFails
<1>c. wpc[w] # "gone" /\ proc = "threads" /\ out # "built"
  <2>1. wpc[w] # "gone"
    BY DEF WorkerStep, Open, OpenFails, Take, TakeFails, Finish, Indexed, Scan, ScanFails, Send, SendFails
  <2> QED BY <2>1 DEF AllInv, PhaseInv, AllGone
<1>j. deserted \subseteq deserted'
  BY DEF WorkerStep, Open, OpenFails, Take, TakeFails, Finish, Indexed, Scan, ScanFails, Send, SendFails
<1>d. PhaseInv'
  BY <1>b, <1>c DEF PhaseInv, PublishedComplete
<1>e. SUFFICES ASSUME folder # "err" PROVE PlanInv'
  BY <1>b, <1>d DEF PlanInv
<1>f. folder \notin {"lastFold", "lastLog", "done"}
  BY <1>c, <1>e DEF AllInv, PlanInv, AllGone
\* What is left to show of each step.
<1>g. ASSUME \A u \in plan, v \in Workers :
                Position(u, plan) % NumWorkers = v /\ outcome'[u] = "none" /\ u \notin deserted' => Pending(u, v)',
             \A u \in plan : outcome'[u] = "ok" => Held(u)'
      PROVE  PlanInv'
  BY <1>b, <1>c, <1>e, <1>f, <1>g DEF AllInv, PlanInv
\* Another worker's CUs.
<1>h. ASSUME NEW u \in plan, NEW v \in Workers, v # w, Position(u, plan) % NumWorkers = v,
             outcome[u] = "none", u \notin deserted',
             wpc'[v] = wpc[v], pos'[v] = pos[v], cur'[v] = cur[v]
      PROVE  Pending(u, v)'
  <2>1. Pending(u, v)
    BY <1>h, <1>j, <1>c, <1>e DEF AllInv, PlanInv
  <2> QED BY <2>1, <1>h, <1>b DEF Pending
\* A CU that is ok already.
<1>i. ASSUME NEW u \in plan, outcome[u] = "ok",
             RangeOf(chan) \subseteq RangeOf(chan'),
             \A v \in Workers : v # w => wpc'[v] = wpc[v] /\ cur'[v] = cur[v],
             wpc[w] = "send" => cur[w] \in RangeOf(chan')
      PROVE  Held(u)'
  <2>1. Held(u)
    BY <1>i, <1>c, <1>e DEF AllInv, PlanInv
  <2>2. u \in gs \/ u \in RangeOf(batch) \/ u \in RangeOf(chan')
        \/ \E v \in Workers : wpc'[v] = "send" /\ cur'[v] = u
    BY <2>1, <1>i DEF Held
  <2>3. RangeOf(batch)' = RangeOf(batch) /\ RangeOf(chan)' = RangeOf(chan')
    BY <1>b DEF RangeOf
  <2> QED BY <2>2, <2>3, <1>b DEF Held
<1>1. CASE Open(w)
  BY <1>1, <1>a, <1>c, <1>e, <1>g, <1>h, <1>i DEF Open, Goto, Pending, AllInv, PlanInv
<1>2. CASE OpenFails(w)
  <2>1. \A u \in plan : Position(u, plan) % NumWorkers = w => u \in deserted'
    BY <1>2 DEF OpenFails, StrideOf, Stride
  <2>2. UNCHANGED outcome
    BY <1>2 DEF OpenFails
  <2>3. \A v \in Workers : v # w => wpc'[v] = wpc[v]
    BY <1>2, <1>a DEF OpenFails, Goto
  <2>4. wpc[w] # "send" /\ UNCHANGED <<pos, cur, chan>>
    BY <1>2 DEF OpenFails
  <2>5. \A u \in plan, v \in Workers :
           Position(u, plan) % NumWorkers = v /\ outcome'[u] = "none" /\ u \notin deserted' => Pending(u, v)'
    BY <2>1, <2>2, <2>3, <2>4, <1>h
  <2>6. \A u \in plan : outcome'[u] = "ok" => Held(u)'
    BY <2>2, <2>3, <2>4, <1>i
  <2> QED BY <2>5, <2>6, <1>g
<1>3. CASE Take(w)
  <2>1. PICK x \in plan : Position(x, plan) = pos[w] /\ cur' = [cur EXCEPT ![w] = x]
    BY <1>3 DEF Take
  <2>2. /\ \A v \in Workers : v # w => wpc'[v] = wpc[v] /\ cur'[v] = cur[v] /\ pos'[v] = pos[v]
        /\ wpc[w] = "loop" /\ wpc'[w] = "index" /\ cur'[w] = x
        /\ pos'[w] = pos[w] + NumWorkers /\ UNCHANGED <<outcome, chan>>
    BY <1>3, <2>1, <1>a DEF Take, Goto, Stride
  <2>3. ASSUME NEW u \in plan, Position(u, plan) % NumWorkers = w, outcome[u] = "none", u # x,
               u \notin deserted
        PROVE  Pending(u, w)'
    <3>1. pos[w] <= Position(u, plan)
      BY <2>2, <2>3, <1>c, <1>e DEF AllInv, PlanInv, Pending
    <3>2. Position(u, plan) # pos[w]
      BY <2>1, <2>3, <1>a, CountAssumption, PositionInjective DEF Units
    <3>3. Position(u, plan) \in Nat /\ pos[w] \in Nat /\ NumWorkers \in Nat \ {0}
      BY <1>a, PositionFacts, CountAssumption
    <3>4. pos[w] % NumWorkers = w
      BY DEF AllInv, PlaceInv, TakenInv
    <3>5. pos[w] < Position(u, plan)
      BY <3>1, <3>2, <3>3
    <3>6. pos[w] + NumWorkers <= Position(u, plan)
      BY <3>3, <3>4, <3>5, <2>3, StrideGap
    <3> QED BY <3>6, <2>2, <1>b DEF Pending
  <2>4. Pending(x, w)'
    BY <2>2 DEF Pending
  <2>5. \A u \in plan, v \in Workers :
           Position(u, plan) % NumWorkers = v /\ outcome'[u] = "none" /\ u \notin deserted' => Pending(u, v)'
    BY <2>2, <2>3, <2>4, <1>h, <1>j
  <2>6. \A u \in plan : outcome'[u] = "ok" => Held(u)'
    BY <2>2, <1>i
  <2> QED BY <2>5, <2>6, <1>g
<1>4. CASE TakeFails(w)
  <2>1. PICK x \in plan : Position(x, plan) = pos[w] /\ outcome' = [outcome EXCEPT ![x] = "failed"]
    BY <1>4 DEF TakeFails
  <2>2. /\ \A v \in Workers : v # w => pos'[v] = pos[v]
        /\ wpc[w] = "loop" /\ pos'[w] = pos[w] + NumWorkers
        /\ UNCHANGED <<wpc, cur, chan, deserted>>
    BY <1>4, <1>a DEF TakeFails, Stride
  <2>3. ASSUME NEW u \in plan, Position(u, plan) % NumWorkers = w, outcome[u] = "none", u # x,
               u \notin deserted
        PROVE  Pending(u, w)'
    <3>1. pos[w] <= Position(u, plan)
      BY <2>2, <2>3, <1>c, <1>e DEF AllInv, PlanInv, Pending
    <3>2. Position(u, plan) # pos[w]
      BY <2>1, <2>3, <1>a, CountAssumption, PositionInjective DEF Units
    <3>3. Position(u, plan) \in Nat /\ pos[w] \in Nat /\ NumWorkers \in Nat \ {0}
      BY <1>a, PositionFacts, CountAssumption
    <3>4. pos[w] % NumWorkers = w
      BY DEF AllInv, PlaceInv, TakenInv
    <3>5. pos[w] < Position(u, plan)
      BY <3>1, <3>2, <3>3
    <3>6. pos[w] + NumWorkers <= Position(u, plan)
      BY <3>3, <3>4, <3>5, <2>3, StrideGap
    <3> QED BY <3>6, <2>2, <1>b DEF Pending
  <2>4. \A u \in plan : outcome'[u] = (IF u = x THEN "failed" ELSE outcome[u])
    BY <2>1, <1>a
  <2>5. \A u \in plan, v \in Workers :
           Position(u, plan) % NumWorkers = v /\ outcome'[u] = "none" /\ u \notin deserted' => Pending(u, v)'
    BY <2>2, <2>3, <2>4, <1>h
  <2>6. \A u \in plan : outcome'[u] = "ok" => Held(u)'
    BY <2>2, <2>4, <1>i
  <2> QED BY <2>5, <2>6, <1>g
<1>5. CASE Finish(w)
  <2>1. /\ \A v \in Workers : v # w => wpc'[v] = wpc[v]
        /\ wpc[w] = "loop" /\ UNCHANGED <<pos, cur, outcome, chan>>
    BY <1>5, <1>a DEF Finish, Goto
  <2>2. ASSUME NEW u \in plan, Position(u, plan) % NumWorkers = w, outcome[u] = "none",
               u \notin deserted
        PROVE  FALSE
    <3>1. pos[w] <= Position(u, plan)
      BY <2>1, <2>2, <1>c, <1>e DEF AllInv, PlanInv, Pending
    <3>2. /\ Position(u, plan) < Cardinality(plan) /\ Position(u, plan) \in Nat
          /\ Cardinality(plan) \in Nat
      BY <1>a, PositionFacts
    <3>3. pos[w] >= Cardinality(plan) /\ pos[w] \in Nat
      BY <1>5, <1>a DEF Finish
    <3> QED BY <3>1, <3>2, <3>3
  <2>3. \A u \in plan, v \in Workers :
           Position(u, plan) % NumWorkers = v /\ outcome'[u] = "none" /\ u \notin deserted' => Pending(u, v)'
    BY <2>1, <2>2, <1>h, <1>j
  <2>4. \A u \in plan : outcome'[u] = "ok" => Held(u)'
    BY <2>1, <1>i
  <2> QED BY <2>3, <2>4, <1>g
<1>6. ASSUME wpc[w] \in {"index", "scan"}, wpc'[w] # "gone", UNCHANGED <<pos, chan>>,
             \A v \in Workers : v # w => wpc'[v] = wpc[v] /\ cur'[v] = cur[v],
             \/ UNCHANGED <<outcome, cur>> /\ wpc'[w] = "scan"
             \/ \E result \in Outcome \ {"none"} :
                   /\ outcome' = [outcome EXCEPT ![cur[w]] = result]
                   /\ result = "ok" => wpc'[w] = "send" /\ cur' = cur
      PROVE  PlanInv'
  <2>1. cur[w] \in Units
    BY <1>6 DEF AllInv, TypeInv, InHand
  <2>2. ASSUME NEW u \in plan, outcome'[u] = "none", Position(u, plan) % NumWorkers = w,
               u \notin deserted'
        PROVE  Pending(u, w)'
    <3>1. /\ outcome[u] = "none"
          /\ (UNCHANGED cur /\ wpc'[w] = "scan") \/ u # cur[w]
      BY <1>6, <2>1, <2>2, <1>a
    <3>2. Pending(u, w)
      BY <3>1, <2>2, <1>j, <1>c, <1>e DEF AllInv, PlanInv
    <3> QED BY <3>1, <3>2, <1>6, <1>b DEF Pending
  <2>3. ASSUME NEW u \in plan, NEW v \in Workers, outcome'[u] = "none", v # w,
               Position(u, plan) % NumWorkers = v, u \notin deserted'
        PROVE  Pending(u, v)'
    <3>1. outcome[u] = "none"
      BY <1>6, <2>1, <2>3, <1>a
    <3> QED BY <3>1, <2>3, <1>6, <1>h
  <2>4. ASSUME NEW u \in plan, outcome'[u] = "ok" PROVE Held(u)'
    <3>1. CASE outcome[u] = "ok"
      BY <3>1, <1>6, <1>i
    <3>2. CASE outcome[u] # "ok"
      <4>1. u = cur[w] /\ wpc'[w] = "send" /\ cur' = cur
        BY <3>2, <2>4, <1>6, <2>1, <1>a
      <4> QED BY <4>1 DEF Held
    <3> QED BY <3>1, <3>2
  <2> QED BY <2>2, <2>3, <2>4, <1>g
<1>7. ASSUME NEW result \in {"ok", "empty", "failed"}, Indexed(w, result) PROVE PlanInv'
  BY <1>7, <1>6, <1>a DEF Indexed, Goto, Count, PutDown, Outcome
<1>8. CASE Scan(w) \/ ScanFails(w)
  BY <1>8, <1>6, <1>a DEF Scan, ScanFails, Goto, Count, Outcome
<1>9. CASE Send(w)
  <2>1. cur[w] \in Units
    BY <1>9 DEF Send, AllInv, TypeInv, InHand
  <2>2. RangeOf(chan') = RangeOf(chan) \cup {cur[w]}
    BY <1>9, <2>1, <1>a, AppendRange DEF Send, AllInv, PlaceInv, QueueInv
  <2>3. /\ \A v \in Workers : v # w => wpc'[v] = wpc[v] /\ cur'[v] = cur[v]
        /\ wpc[w] = "send" /\ wpc'[w] = "loop" /\ UNCHANGED <<pos, outcome>>
    BY <1>9, <1>a DEF Send, Goto, PutDown
  <2>4. \A u \in plan, v \in Workers :
           Position(u, plan) % NumWorkers = v /\ outcome'[u] = "none" /\ u \notin deserted' => Pending(u, v)'
    BY <2>3, <1>b, <1>c, <1>e, <1>h, <1>j DEF AllInv, PlanInv, Pending
  <2>5. \A u \in plan : outcome'[u] = "ok" => Held(u)'
    BY <2>2, <2>3, <1>i
  <2> QED BY <2>4, <2>5, <1>g
<1>10. CASE SendFails(w)
  BY <1>10, <1>e DEF SendFails
<1> QED BY <1>1, <1>2, <1>3, <1>5, <1>7, <1>8, <1>9, <1>10, <1>4 DEF WorkerStep

\* The folder's step moves the batch to the store, or fails the run.
LEMMA FolderPlan ==
    ASSUME AllInv, TypeInv', FolderStep PROVE PlanInv' /\ PhaseInv'
<1> USE DEF storeVars, doneVars, outVars, workVars, fileVars, foldVars, faultVars, mainVars
<1>a. chan \in Seq(Units) /\ batch \in Seq(Units)
  BY DEF AllInv, TypeInv, TypeOK
<1>b. UNCHANGED <<out, served, proc, plan, wpc, pos, cur, outcome, deserted>>
  BY DEF FolderStep, Receive, Disconnect, Fold, FoldFails, LogLine, LogFails, LogDone
<1>c. folder \notin {"done", "err"} /\ proc = "threads" /\ out # "built"
  <2>1. folder \notin {"done", "err"}
    BY DEF FolderStep, Receive, Disconnect, Fold, FoldFails, LogLine, LogFails, LogDone
  <2> QED BY <2>1 DEF AllInv, PhaseInv
<1>d. PhaseInv'
  BY <1>b, <1>c DEF PhaseInv, PublishedComplete
\* A step that keeps every entry that is held.
<1>e. ASSUME gs \subseteq gs',
             RangeOf(batch) \cup RangeOf(chan) \subseteq gs' \cup RangeOf(batch') \cup RangeOf(chan'),
             folder' \in {"lastFold", "lastLog", "done"} => AllGone /\ chan' = <<>>,
             folder' = "done" => batch' = <<>>
      PROVE  PlanInv'
  <2>1. \A u, v : Pending(u, v)' <=> Pending(u, v)
    BY <1>b DEF Pending
  <2>2. \A u : Held(u) => Held(u)'
    BY <1>b, <1>e DEF Held, RangeOf
  <2> QED BY <1>b, <1>c, <1>e, <2>1, <2>2 DEF AllInv, PlanInv, AllGone
<1>1. CASE Receive
  <2>1. chan # <<>> /\ Head(chan) \in Units
    BY <1>1, <1>a DEF Receive
  <2>2. RangeOf(batch') = RangeOf(batch) \cup {Head(chan)}
    BY <1>1, <2>1, <1>a, AppendRange DEF Receive, AllInv, PlaceInv, QueueInv
  <2>3. RangeOf(chan) = RangeOf(chan') \cup {Head(chan)}
    BY <1>1, <2>1, <1>a, TailRange DEF Receive, AllInv, PlaceInv, QueueInv
  <2>4. folder' \in {"recv", "fold"} /\ gs' = gs
    BY <1>1 DEF Receive
  <2> QED BY <2>2, <2>3, <2>4, <1>d, <1>e
<1>2. CASE Disconnect
  BY <1>2, <1>d, <1>e DEF Disconnect
<1>3. CASE Fold
  BY <1>3, <1>c, <1>d, <1>e DEF Fold, Fed, AllInv, PlanInv
<1>4. CASE FoldFails \/ LogFails
  BY <1>4, <1>d DEF FoldFails, LogFails, PlanInv
<1>5. CASE LogLine
  BY <1>5, <1>c, <1>d, <1>e DEF LogLine, AllInv, PlanInv
<1>6. CASE LogDone
  BY <1>6, <1>c, <1>d, <1>e DEF LogDone, AllInv, PlanInv, DoneInv
<1> QED BY <1>1, <1>2, <1>3, <1>4, <1>5, <1>6 DEF FolderStep

\* Every step accounts for every CU of the plan.
LEMMA PlanNext ==
    ASSUME KeepGraphstore, ~AllowRemoveStore, AllInv, TypeInv', [Next]_vars
    PROVE  PlanInv' /\ PhaseInv'
<1> USE DEF storeVars, doneVars, outVars, workVars, foldVars, faultVars
<1>1. ASSUME NEW resume \in BOOLEAN, Start(resume) PROVE PlanInv' /\ PhaseInv'
  BY <1>1, StartPlan
<1>2. CASE JoinOk
  <2>1. \A u \in Units : u \in gs \/ Reported(u)
    <3>1. \A u \in plan : outcome[u] # "none" \/ u \in deserted
      <4> SUFFICES ASSUME NEW u \in plan, outcome[u] = "none", u \notin deserted PROVE FALSE
        OBVIOUS
      <4>1. Position(u, plan) % NumWorkers \in Workers
        BY PositionFacts DEF AllInv, TypeInv, TypeOK
      <4>2. Pending(u, Position(u, plan) % NumWorkers)
        BY <1>2, <4>1 DEF JoinOk, AllInv, PlanInv
      <4> QED BY <1>2, <4>1, <4>2 DEF JoinOk, AllGone, Pending
    <3>2. \A u \in plan : outcome[u] = "ok" => u \in gs
      BY <1>2 DEF JoinOk, AllGone, AllInv, PlanInv, Held, RangeOf
    <3>3. \A u \in Units : outcome[u] \in Outcome
      BY DEF AllInv, TypeInv, TypeOK
    <3> QED BY <1>2, <3>1, <3>2, <3>3 DEF JoinOk, AllInv, PlanInv, Outcome, Reported, TypeInv, TypeOK
  <2> QED BY <1>2, <2>1 DEF JoinOk, AllInv, PlanInv, PhaseInv, PublishedComplete, AllGone, Reported
<1>3. CASE WriteTables
  BY <1>3 DEF WriteTables, AfterNames, AllInv, PlanInv, PhaseInv, PublishedComplete, AllGone, Reported
\* The steps that end the process publish nothing.
<1>4. ASSUME ThreadsEnd, proc' \in {"off", "exited"},
             out' # "built" \/ (out' = out /\ served' = served)
      PROVE  PlanInv' /\ PhaseInv'
  BY <1>4 DEF ThreadsEnd, AllInv, PlanInv, PhaseInv, PublishedComplete, AllGone
<1>5. CASE JoinErr \/ WriteTablesFails \/ WriteNamesFails \/ Exit \/ Kill
  BY <1>5, <1>4 DEF JoinErr, WriteTablesFails, WriteNamesFails, Exit, Kill
<1>6. CASE WriteNames
  BY <1>6 DEF WriteNames, AfterNames, AllInv, PlanInv, PhaseInv, PublishedComplete, AllGone
<1>7. CASE CleanStore \/ CleanDone \/ CleanNames
  BY <1>7 DEF CleanStore, CleanDone, CleanNames, AllInv, DoneInv
<1>8. ASSUME NEW w \in Workers, WorkerStep(w) PROVE PlanInv' /\ PhaseInv'
  BY <1>8, WorkerPlan
<1>9. CASE FolderStep
  BY <1>9, FolderPlan
<1>10. CASE RemoveOut
  BY <1>10 DEF RemoveOut, Running, AllInv, PlanInv, PhaseInv, PublishedComplete, AllGone
<1>11. CASE RemoveStore
  BY <1>11 DEF RemoveStore
<1>12. CASE UNCHANGED vars
  BY <1>12 DEF vars, AllInv, PlanInv, PhaseInv, PublishedComplete, AllGone, Pending, Held, Reported,
               RangeOf
<1> QED
  BY <1>1, <1>2, <1>3, <1>5, <1>6, <1>7, <1>8, <1>9, <1>10, <1>11, <1>12 DEF Next, MainStep

\* The invariant holds before the first run.
LEMMA AllInit == Init => AllInv
<1> SUFFICES ASSUME Init PROVE AllInv
  OBVIOUS
<1>1. TypeInv /\ PlaceInv
  BY TypeInit, PlaceInit
<1>2. DoneInv
  BY DataAssumption DEF Init, DoneInv, ReadDone
<1>3. PlanInv /\ PhaseInv
  BY DEF Init, PlanInv, PhaseInv, PublishedComplete, AllGone
<1> QED BY <1>1, <1>2, <1>3 DEF AllInv

\* The invariant is inductive.
LEMMA AllNext ==
    ASSUME KeepGraphstore, ~AllowRemoveStore, AllInv, [Next]_vars PROVE AllInv'
<1>1. TypeInv' /\ DoneInv' /\ PlaceInv'
  BY TypeNext, DoneNext, PlaceNext DEF AllInv
<1>2. PlanInv' /\ PhaseInv'
  BY <1>1, PlanNext
<1> QED BY <1>1, <1>2 DEF AllInv

\* With the GraphStore kept, a published table has every CU that the run did
\* not report, after any kills, failing calls and resumed runs.
THEOREM PublishedIsComplete ==
    ASSUME KeepGraphstore, ~AllowRemoveStore
    PROVE  Spec => []PublishedComplete
<1>1. Init => AllInv
  BY AllInit
<1>2. AllInv /\ [Next]_vars => AllInv'
  BY AllNext
<1>3. AllInv => PublishedComplete
  BY DEF AllInv, PhaseInv
<1> QED BY <1>1, <1>2, <1>3, PTL DEF Spec
-----------------------------------------------------------------------------
(***************************************************************************)
(* What is in the staging directory.  As long as the folder works, a file  *)
(* is in a worker's hands, queued or in the batch, and the batch that is   *)
(* being logged has none.  When it has failed, the files of the channel    *)
(* and of the batch stay, and so may one of each worker.                   *)
(***************************************************************************)
Waiting == IF folder \in {"log", "lastLog"} THEN RangeOf(chan) ELSE RangeOf(chan) \cup RangeOf(batch)

LeftBehind ==
    \E left \in SUBSET Units, held \in [Workers -> Units \cup {NoUnit}] :
        /\ IsFiniteSet(left) /\ Cardinality(left) <= Cap + BatchFiles
        /\ \A w \in Workers : wpc[w] # "gone" => held[w] = cur[w]
        /\ staged \subseteq left \cup {held[w] : w \in Workers}

StagedInv ==
    /\ ~Running => staged = {} /\ batchBytes = 0
    /\ \A w \in Workers : wpc[w] \in {"open", "loop"} => cur[w] = NoUnit
    /\ IF folder = "err" THEN LeftBehind
       ELSE staged \subseteq Waiting \cup {cur[w] : w \in Workers}
    /\ Len(chan) <= Cap /\ Len(batch) <= BatchFiles
    /\ folder = "recv" => Len(batch) < BatchFiles /\ batchBytes < BatchBytes

\* A sequence has no more elements than places.
LEMMA RangeIsSmall ==
    ASSUME NEW S, NEW s \in Seq(S)
    PROVE  IsFiniteSet(RangeOf(s)) /\ Cardinality(RangeOf(s)) <= Len(s)
<1>0. s \in [1 .. Len(s) -> S]
  OBVIOUS
<1>1. s \in [1 .. Len(s) -> RangeOf(s)] /\ Len(s) \in Nat
  BY <1>0 DEF RangeOf
<1>2. s \in Surjection(1 .. Len(s), RangeOf(s))
  BY <1>1 DEF Surjection, RangeOf
<1>3. ASSUME NEW n \in Nat PROVE IsFiniteSet(1 .. n) /\ Cardinality(1 .. n) = n
  BY FS_Interval
<1> QED BY <1>1, <1>2, <1>3, FS_Surjection

\* Workers hold no more files than there are workers.
LEMMA HandsAreFew ==
    ASSUME NEW S, NEW held \in [Workers -> S]
    PROVE  LET hands == {held[w] : w \in Workers} IN
           IsFiniteSet(hands) /\ Cardinality(hands) <= NumWorkers
<1> DEFINE hands == {held[w] : w \in Workers}
<1>1. NumWorkers \in Nat \ {0} /\ IsFiniteSet(Workers) /\ Cardinality(Workers) = NumWorkers
  BY CountAssumption, FS_Interval DEF Workers
<1>2. held \in Surjection(Workers, hands)
  BY DEF Surjection
<1> QED BY <1>1, <1>2, FS_Surjection, FS_CardinalityType

\* Two small sets are a small set, and so is a part of them.
LEMMA SmallUnion ==
    ASSUME NEW S, NEW T, NEW m \in Nat, NEW n \in Nat, NEW R \in SUBSET (S \cup T),
           IsFiniteSet(S), IsFiniteSet(T), Cardinality(S) <= m, Cardinality(T) <= n
    PROVE  IsFiniteSet(R) /\ Cardinality(R) <= m + n
<1>1. IsFiniteSet(S \cup T)
      /\ Cardinality(S \cup T) = Cardinality(S) + Cardinality(T) - Cardinality(S \cap T)
  BY FS_Union
<1>2. IsFiniteSet(S \cap T)
  BY FS_Subset
<1>3. Cardinality(S) \in Nat /\ Cardinality(T) \in Nat /\ Cardinality(S \cap T) \in Nat
      /\ Cardinality(S \cup T) \in Nat
  BY <1>1, <1>2, FS_CardinalityType
<1>4. IsFiniteSet(R) /\ Cardinality(R) <= Cardinality(S \cup T) /\ Cardinality(R) \in Nat
  BY <1>1, FS_Subset, FS_CardinalityType
<1> QED BY <1>1, <1>3, <1>4

\* What a worker does with its files: none is in two hands, and none gets lost.
LEMMA WorkerStages ==
    ASSUME TypeInv, PlaceInv, StagedInv, NEW w \in Workers, WorkerStep(w)
    PROVE  StagedInv'
<1> USE DEF storeVars, doneVars, outVars, workVars, fileVars, foldVars, faultVars, mainVars
<1>a. /\ cur \in [Workers -> Units \cup {NoUnit}] /\ wpc \in [Workers -> WorkerState]
      /\ staged \subseteq Units /\ chan \in Seq(Units) /\ NoUnit \notin Units
  BY DataAssumption DEF TypeInv, TypeOK
<1>b. Running /\ Running'
  BY DEF WorkerStep, Open, OpenFails, Take, TakeFails, Finish, Indexed, Scan, ScanFails, Send, SendFails,
         PlaceInv, TakenInv, Running
<1>c. UNCHANGED <<batch, batchBytes, folder>>
  BY DEF WorkerStep, Open, OpenFails, Take, TakeFails, Finish, Indexed, Scan, ScanFails, Send, SendFails
\* The worker returns or moves on, with what it has in hand.
<1>1. ASSUME UNCHANGED <<cur, staged, chan>>, NEW pc \in {"loop", "scan", "send", "gone"}, Goto(w, pc),
             pc = "loop" => wpc[w] = "open"
      PROVE  StagedInv'
  <2>1. \A v \in Workers : wpc'[v] \in {"open", "loop"} => cur'[v] = NoUnit
    BY <1>1, <1>a DEF StagedInv, Goto
  <2>2. LeftBehind => LeftBehind'
    <3> SUFFICES ASSUME LeftBehind PROVE LeftBehind'
      OBVIOUS
    <3>1. PICK left \in SUBSET Units, held \in [Workers -> Units \cup {NoUnit}] :
             /\ IsFiniteSet(left) /\ Cardinality(left) <= Cap + BatchFiles
             /\ \A v \in Workers : wpc[v] # "gone" => held[v] = cur[v]
             /\ staged \subseteq left \cup {held[v] : v \in Workers}
      BY DEF LeftBehind
    <3>2. wpc[w] # "gone"
      BY DEF WorkerStep, Open, OpenFails, Take, TakeFails, Finish, Indexed, Scan, ScanFails, Send, SendFails
    <3>3. \A v \in Workers : wpc'[v] # "gone" => held[v] = cur'[v]
      BY <1>1, <1>a, <3>1, <3>2 DEF Goto
    <3> QED BY <1>1, <3>1, <3>3 DEF LeftBehind
  <2> QED BY <1>1, <1>b, <1>c, <2>1, <2>2 DEF StagedInv, Waiting, RangeOf
<1>2. CASE Open(w) \/ OpenFails(w) \/ Finish(w) \/ Indexed(w, "ok") \/ Scan(w) \/ ScanFails(w)
  BY <1>2, <1>1 DEF Open, OpenFails, Finish, Indexed, Scan, ScanFails
\* It takes the file of u into an empty hand, or removes that of u from a hand.
<1>3. CASE Take(w)
  <2>1. PICK u \in Units : /\ cur' = [cur EXCEPT ![w] = u] /\ staged' = staged \cup {u}
                           /\ cur[w] = NoUnit /\ wpc[w] = "loop" /\ wpc' = [wpc EXCEPT ![w] = "index"]
                           /\ chan' = chan
    BY <1>3 DEF Take, Goto, TypeInv, TypeOK, StagedInv
  <2>2. \A v \in Workers : wpc'[v] \in {"open", "loop"} => cur'[v] = NoUnit
    BY <2>1, <1>a DEF StagedInv
  <2>3. CASE folder = "err"
    <3>1. PICK left \in SUBSET Units, held \in [Workers -> Units \cup {NoUnit}] :
             /\ IsFiniteSet(left) /\ Cardinality(left) <= Cap + BatchFiles
             /\ \A v \in Workers : wpc[v] # "gone" => held[v] = cur[v]
             /\ staged \subseteq left \cup {held[v] : v \in Workers}
      BY <2>3 DEF StagedInv, LeftBehind
    <3> DEFINE now == [held EXCEPT ![w] = u]
    <3>2. now \in [Workers -> Units \cup {NoUnit}] /\ now[w] = u
          /\ \A v \in Workers : v # w => now[v] = held[v]
      OBVIOUS
    <3>3. \A v \in Workers : wpc'[v] # "gone" => now[v] = cur'[v]
      BY <2>1, <1>a, <3>1, <3>2
    <3>4. held[w] = NoUnit
      BY <2>1, <3>1
    <3>5. staged' \subseteq left \cup {now[v] : v \in Workers}
      BY <2>1, <1>a, <3>1, <3>2, <3>4
    <3> HIDE DEF now
    <3>6. LeftBehind'
      BY <3>1, <3>2, <3>3, <3>5 DEF LeftBehind
    <3> QED BY <2>1, <2>2, <2>3, <3>6, <1>b, <1>c DEF StagedInv
  <2>4. CASE folder # "err"
    <3>1. staged' \subseteq Waiting \cup {cur'[v] : v \in Workers}
      BY <2>1, <2>4, <1>a DEF StagedInv
    <3>2. Waiting' = Waiting
      BY <2>1, <1>c DEF Waiting, RangeOf
    <3> QED BY <2>1, <2>2, <2>4, <3>1, <3>2, <1>b, <1>c DEF StagedInv
  <2> QED BY <2>3, <2>4
<1>4. CASE \E result \in {"empty", "failed"} : Indexed(w, result)
  <2>1. /\ cur' = [cur EXCEPT ![w] = NoUnit] /\ staged' = staged \ {cur[w]}
        /\ wpc[w] = "index" /\ wpc' = [wpc EXCEPT ![w] = "loop"] /\ chan' = chan
    BY <1>4 DEF Indexed, Goto, PutDown, RemoveEntries
  <2>2. \A v \in Workers : wpc'[v] \in {"open", "loop"} => cur'[v] = NoUnit
    BY <2>1, <1>a DEF StagedInv
  <2>3. CASE folder = "err"
    <3>1. PICK left \in SUBSET Units, held \in [Workers -> Units \cup {NoUnit}] :
             /\ IsFiniteSet(left) /\ Cardinality(left) <= Cap + BatchFiles
             /\ \A v \in Workers : wpc[v] # "gone" => held[v] = cur[v]
             /\ staged \subseteq left \cup {held[v] : v \in Workers}
      BY <2>3 DEF StagedInv, LeftBehind
    <3> DEFINE now == [held EXCEPT ![w] = NoUnit]
    <3>2. now \in [Workers -> Units \cup {NoUnit}] /\ now[w] = NoUnit
          /\ \A v \in Workers : v # w => now[v] = held[v]
      OBVIOUS
    <3>3. \A v \in Workers : wpc'[v] # "gone" => now[v] = cur'[v]
      BY <2>1, <1>a, <3>1, <3>2
    <3>4. held[w] = cur[w]
      BY <2>1, <3>1
    <3>5. staged' \subseteq left \cup {now[v] : v \in Workers}
      BY <2>1, <1>a, <3>1, <3>2, <3>4
    <3> HIDE DEF now
    <3>6. LeftBehind'
      BY <3>1, <3>2, <3>3, <3>5 DEF LeftBehind
    <3> QED BY <2>1, <2>2, <2>3, <3>6, <1>b, <1>c DEF StagedInv
  <2>4. CASE folder # "err"
    <3>1. staged' \subseteq Waiting \cup {cur'[v] : v \in Workers}
      BY <2>1, <2>4, <1>a DEF StagedInv
    <3>2. Waiting' = Waiting
      BY <2>1, <1>c DEF Waiting, RangeOf
    <3> QED BY <2>1, <2>2, <2>4, <3>1, <3>2, <1>b, <1>c DEF StagedInv
  <2> QED BY <2>3, <2>4
\* The file goes from the hand to the channel; or stays when the folder is dead.
<1>5. CASE Send(w)
  <2>1. /\ cur' = [cur EXCEPT ![w] = NoUnit] /\ staged' = staged /\ chan' = Append(chan, cur[w])
        /\ wpc' = [wpc EXCEPT ![w] = "loop"] /\ cur[w] \in Units
        /\ folder # "err" /\ Len(chan) < Cap
    BY <1>5 DEF Send, Goto, PutDown, TypeInv, InHand
  <2>2. \A v \in Workers : wpc'[v] \in {"open", "loop"} => cur'[v] = NoUnit
    BY <2>1, <1>a DEF StagedInv
  <2>3. RangeOf(chan)' = RangeOf(chan) \cup {cur[w]}
    BY <2>1, <1>a, AppendRange
  <2>4. Waiting' = Waiting \cup {cur[w]}
    BY <2>3, <1>c DEF Waiting, RangeOf
  <2>5. staged' \subseteq Waiting' \cup {cur'[v] : v \in Workers}
    BY <2>1, <2>4, <1>a DEF StagedInv
  <2>6. Len(chan') <= Cap
    BY <2>1, <1>a, CountAssumption DEF Cap
  <2> QED BY <2>1, <2>2, <2>5, <2>6, <1>b, <1>c DEF StagedInv
<1>6. CASE SendFails(w)
  <2>1. /\ cur' = [cur EXCEPT ![w] = NoUnit] /\ staged' = staged /\ chan' = chan
        /\ wpc' = [wpc EXCEPT ![w] = "gone"] /\ folder = "err"
    BY <1>6 DEF SendFails, Goto, PutDown
  <2>2. \A v \in Workers : wpc'[v] \in {"open", "loop"} => cur'[v] = NoUnit
    BY <2>1, <1>a DEF StagedInv
  <2>3. PICK left \in SUBSET Units, held \in [Workers -> Units \cup {NoUnit}] :
           /\ IsFiniteSet(left) /\ Cardinality(left) <= Cap + BatchFiles
           /\ \A v \in Workers : wpc[v] # "gone" => held[v] = cur[v]
           /\ staged \subseteq left \cup {held[v] : v \in Workers}
    BY <2>1 DEF StagedInv, LeftBehind
  <2>4. \A v \in Workers : wpc'[v] # "gone" => held[v] = cur'[v]
    BY <2>1, <2>3, <1>a
  <2>5. LeftBehind'
    BY <2>1, <2>3, <2>4 DEF LeftBehind
  <2> QED BY <2>1, <2>2, <2>5, <1>b, <1>c DEF StagedInv
<1>7. CASE TakeFails(w)
  <2>1. UNCHANGED <<wpc, cur, staged, chan>>
    BY <1>7 DEF TakeFails
  <2>2. Waiting' = Waiting /\ LeftBehind' = LeftBehind
    BY <2>1, <1>c DEF Waiting, LeftBehind, RangeOf
  <2> QED BY <2>1, <2>2, <1>b, <1>c DEF StagedInv
<1> QED BY <1>2, <1>3, <1>4, <1>5, <1>6, <1>7 DEF WorkerStep

\* The files of a dead folder are those that were waiting when it failed.
LEMMA FolderDies ==
    ASSUME TypeInv, StagedInv, folder # "err", UNCHANGED <<proc, cur, wpc, staged, batch, batchBytes>>,
           folder' = "err", chan' = <<>>, Running
    PROVE  StagedInv'
<1>1. chan \in Seq(Units) /\ batch \in Seq(Units) /\ cur \in [Workers -> Units \cup {NoUnit}]
      /\ Cap \in Nat /\ BatchFiles \in Nat
  BY CountAssumption DEF TypeInv, TypeOK, Cap
<1> DEFINE left == RangeOf(chan) \cup RangeOf(batch)
<1>2. left \in SUBSET Units
  BY <1>1, RangeInType
<1>3. Len(chan) \in Nat /\ Len(batch) \in Nat /\ Len(chan) <= Cap /\ Len(batch) <= BatchFiles
  BY <1>1 DEF StagedInv
<1>4. IsFiniteSet(left) /\ Cardinality(left) <= Len(chan) + Len(batch)
  BY <1>1, <1>3, RangeIsSmall, SmallUnion
<1>5. Cardinality(left) <= Cap + BatchFiles
  BY <1>1, <1>3, <1>4, FS_CardinalityType
<1>6. staged' \subseteq left \cup {cur'[w] : w \in Workers}
  BY DEF StagedInv, Waiting
<1> HIDE DEF left
<1>7. LeftBehind'
  BY <1>1, <1>2, <1>4, <1>5, <1>6 DEF LeftBehind
<1>8. Len(chan') <= Cap
  BY <1>1
<1> QED BY <1>7, <1>8 DEF StagedInv, Running

\* The folder takes files from the channel to the batch, and removes those of
\* a batch when it is in the store.
LEMMA FolderStages ==
    ASSUME TypeInv, PlaceInv, StagedInv, FolderStep
    PROVE  StagedInv'
<1> USE DEF storeVars, doneVars, outVars, workVars, fileVars, foldVars, faultVars, mainVars
<1>a. /\ chan \in Seq(Units) /\ batch \in Seq(Units) /\ Size \in [Units -> Nat] /\ batchBytes \in Nat
      /\ BatchFiles \in Nat \ {0} /\ BatchBytes \in Nat \ {0} /\ Cap \in Nat
  BY CountAssumption, DataAssumption DEF TypeInv, TypeOK, Cap
<1>b. Running
  BY DEF FolderStep, Receive, Disconnect, Fold, FoldFails, LogLine, LogFails, LogDone, PlaceInv, TakenInv
<1>1. CASE Receive
  <2>1. /\ folder = "recv" /\ chan # <<>> /\ chan' = Tail(chan) /\ batch' = Append(batch, Head(chan))
        /\ batchBytes' = batchBytes + Size[Head(chan)]
        /\ folder' = IF BatchFull(Len(batch'), batchBytes') THEN "fold" ELSE "recv"
        /\ UNCHANGED <<proc, cur, wpc, staged>>
    BY <1>1 DEF Receive
  <2>2. Head(chan) \in Units /\ Len(chan') <= Len(chan) /\ Len(batch') = Len(batch) + 1
    BY <2>1, <1>a
  <2>3. RangeOf(chan) = RangeOf(chan)' \cup {Head(chan)} /\ RangeOf(batch)' = RangeOf(batch) \cup {Head(chan)}
    BY <2>1, <2>2, <1>a, TailRange, AppendRange
  <2>4. Waiting' = Waiting
    BY <2>1, <2>3 DEF Waiting
  <2>5. Len(chan') <= Cap /\ Len(batch') <= BatchFiles /\ batchBytes' \in Nat
    BY <2>1, <2>2, <1>a DEF StagedInv
  <2>6. Len(batch') \in Nat
    BY <2>1, <2>2, <1>a
  <2>7. folder' = "recv" => ~BatchFull(Len(batch'), batchBytes')
    BY <2>1
  <2>8. folder' = "recv" => Len(batch') < BatchFiles /\ batchBytes' < BatchBytes
    BY <2>5, <2>6, <2>7, <1>a DEF BatchFull
  <2> QED BY <2>1, <2>4, <2>5, <2>8, <1>b DEF StagedInv, Running
<1>2. CASE Disconnect
  BY <1>2, <1>b DEF Disconnect, StagedInv, Waiting, Running, RangeOf
<1>3. CASE Fold
  <2>1. /\ folder \in {"fold", "lastFold"} /\ folder' \in {"log", "lastLog"} /\ staged' = staged \ RangeOf(batch)
        /\ UNCHANGED <<proc, cur, wpc, chan, batch, batchBytes>>
    BY <1>3 DEF Fold, RemoveEntries
  <2>2. Waiting = Waiting' \cup RangeOf(batch)
    BY <2>1 DEF Waiting, RangeOf
  <2>3. staged' \subseteq Waiting' \cup {cur'[w] : w \in Workers}
    BY <2>1, <2>2 DEF StagedInv
  <2> QED BY <2>1, <2>3, <1>b DEF StagedInv, Running
<1>4. CASE FoldFails
  BY <1>4, <1>b, FolderDies DEF FoldFails
<1>5. CASE LogLine
  BY <1>5, <1>b DEF LogLine, StagedInv, Waiting, Running, RangeOf
<1>6. CASE LogFails
  BY <1>6, <1>b, FolderDies DEF LogFails
<1>7. CASE LogDone
  <2>1. /\ folder \in {"log", "lastLog"} /\ folder' \in {"recv", "done"} /\ batch' = <<>> /\ batchBytes' = 0
        /\ UNCHANGED <<proc, cur, wpc, staged, chan>>
    BY <1>7 DEF LogDone
  <2>2. Waiting' = Waiting
    BY <2>1 DEF Waiting, RangeOf
  <2> QED BY <2>1, <2>2, <1>a, <1>b DEF StagedInv, Running
<1> QED BY <1>1, <1>2, <1>3, <1>4, <1>5, <1>6, <1>7 DEF FolderStep

\* Every step keeps what is in the staging directory accounted for.
LEMMA StagedNext == ASSUME TypeInv, PlaceInv, StagedInv, [Next]_vars PROVE StagedInv'
<1> USE DEF storeVars, doneVars, outVars, workVars, fileVars, foldVars, faultVars, mainVars
<1>a. BatchFiles \in Nat \ {0} /\ BatchBytes \in Nat \ {0} /\ Cap \in Nat
  BY CountAssumption DEF Cap
<1>n. ASSUME ThreadsEnd, staged' = {} PROVE StagedInv'
  BY <1>n, <1>a DEF ThreadsEnd, StagedInv, Waiting
<1>s. ASSUME UNCHANGED <<cur, wpc, staged, chan, foldVars>>, Running' \/ UNCHANGED proc
      PROVE  StagedInv'
  <2>1. Waiting' = Waiting /\ LeftBehind' = LeftBehind
    BY <1>s DEF Waiting, LeftBehind, RangeOf
  <2> QED BY <1>s, <2>1 DEF StagedInv, Running
<1>1. ASSUME NEW resume \in BOOLEAN, Start(resume) PROVE StagedInv'
  <2>1. /\ ~Running /\ staged' = {} /\ folder' = "recv" /\ UNCHANGED <<cur, chan, batch, batchBytes>>
        /\ Running'
    BY <1>1 DEF Start, Running, StagedInv
  <2>2. chan = <<>> /\ batch = <<>> /\ batchBytes = 0 /\ \A w \in Workers : cur[w] = NoUnit
    BY <2>1 DEF PlaceInv, TakenInv, StagedInv
  <2> QED BY <2>1, <2>2, <1>a DEF StagedInv
<1>2. CASE JoinOk \/ WriteTables \/ WriteNames \/ CleanStore \/ CleanDone \/ CleanNames
  BY <1>2, <1>s DEF JoinOk, WriteTables, WriteNames, CleanStore, CleanDone, CleanNames, Running, AfterNames
<1>3. CASE JoinErr \/ WriteTablesFails \/ WriteNamesFails \/ Exit \/ Kill
  BY <1>3, <1>n DEF JoinErr, WriteTablesFails, WriteNamesFails, Exit, Kill, LeaveFiles
<1>4. ASSUME NEW w \in Workers, WorkerStep(w) PROVE StagedInv'
  BY <1>4, WorkerStages
<1>5. CASE FolderStep
  BY <1>5, FolderStages
<1>6. CASE RemoveOut \/ RemoveStore \/ UNCHANGED vars
  BY <1>6, <1>s DEF RemoveOut, RemoveStore, vars
<1> QED BY <1>1, <1>2, <1>3, <1>4, <1>5, <1>6 DEF Next, MainStep

\* The first state does.
LEMMA StagedInit == Init => StagedInv
<1> SUFFICES ASSUME Init PROVE StagedInv
  OBVIOUS
<1> QED BY CountAssumption DEF Init, StagedInv, Waiting, Running, Cap

\* A run has no more entry files in the staging directory than its workers,
\* its channel and its batch hold.
LEMMA StagedIsSmall ==
    ASSUME TypeInv, StagedInv
    PROVE  IsFiniteSet(staged) /\ Cardinality(staged) <= InFlight /\ InFlight \in Nat
<1>1. \E left \in SUBSET Units, held \in [Workers -> Units \cup {NoUnit}] :
         /\ IsFiniteSet(left) /\ Cardinality(left) <= Cap + BatchFiles
         /\ staged \subseteq left \cup {held[w] : w \in Workers}
  <2>1. CASE folder = "err"
    BY <2>1 DEF StagedInv, LeftBehind
  <2>2. CASE folder # "err"
    <3>1. chan \in Seq(Units) /\ batch \in Seq(Units) /\ cur \in [Workers -> Units \cup {NoUnit}]
          /\ Cap \in Nat /\ BatchFiles \in Nat
      BY CountAssumption DEF TypeInv, TypeOK, Cap
    <3> DEFINE left == RangeOf(chan) \cup RangeOf(batch)
    <3>2. left \in SUBSET Units
      BY <3>1, RangeInType
    <3>3. Len(chan) \in Nat /\ Len(batch) \in Nat /\ Len(chan) <= Cap /\ Len(batch) <= BatchFiles
      BY <3>1 DEF StagedInv
    <3>4. IsFiniteSet(left) /\ Cardinality(left) <= Len(chan) + Len(batch)
      BY <3>1, <3>3, RangeIsSmall, SmallUnion
    <3>5. Cardinality(left) <= Cap + BatchFiles
      BY <3>1, <3>3, <3>4, FS_CardinalityType
    <3>6. staged \subseteq left \cup {cur[w] : w \in Workers}
      BY <2>2 DEF StagedInv, Waiting
    <3> HIDE DEF left
    <3> QED BY <3>1, <3>2, <3>4, <3>5, <3>6
  <2> QED BY <2>1, <2>2
<1>2. PICK left \in SUBSET Units, held \in [Workers -> Units \cup {NoUnit}] :
         /\ IsFiniteSet(left) /\ Cardinality(left) <= Cap + BatchFiles
         /\ staged \subseteq left \cup {held[w] : w \in Workers}
  BY <1>1
<1> DEFINE hands == {held[w] : w \in Workers}
<1>3. IsFiniteSet(hands) /\ Cardinality(hands) <= NumWorkers
  BY HandsAreFew
<1>4. NumWorkers \in Nat /\ BatchFiles \in Nat /\ Cap = 2 * NumWorkers
  BY CountAssumption DEF Cap
<1>5. staged \in SUBSET (left \cup hands)
  BY <1>2
<1> HIDE DEF hands
<1>6. Cardinality(staged) <= (Cap + BatchFiles) + NumWorkers /\ Cardinality(staged) \in Nat
  <2>1. Cap + BatchFiles \in Nat
    BY <1>4
  <2>2. IsFiniteSet(staged) /\ Cardinality(staged) <= (Cap + BatchFiles) + NumWorkers
    BY <2>1, <1>2, <1>3, <1>4, <1>5, SmallUnion
  <2> QED BY <2>2, FS_CardinalityType
<1> QED BY <1>2, <1>3, <1>4, <1>5, <1>6, SmallUnion DEF InFlight

(***************************************************************************)
(* What earlier runs left.  A run that fails leaves its files once, and    *)
(* the failing call that made it fail is counted when the folder dies,     *)
(* before the run ends: until then its share of the bound is set aside.    *)
(***************************************************************************)
Reserved == IF folder = "err" THEN InFlight ELSE 0

StaleInv == Cardinality(stale) + Reserved <= InFlight * (kills + faults)

\* A step that leaves the files S, at most a run's worth of them, keeps the
\* bound if it is counted, or if the space had been set aside.
LEMMA StaleGrows ==
    ASSUME TypeInv, StagedInv, StaleInv, NEW S, IsFiniteSet(S), Cardinality(S) <= InFlight,
           stale' \subseteq stale \cup S, folder' # "err",
           NEW n \in Nat, n = kills + faults,
           \/ kills' + faults' = n + 1 /\ folder # "err"
           \/ kills' + faults' \in {n, n + 1} /\ folder = "err"
    PROVE  StaleInv'
<1>1. InFlight \in Nat /\ IsFiniteSet(stale)
  <2>1. IsFiniteSet(Units)
    BY CountAssumption, FS_Interval DEF Units
  <2> QED BY <2>1, StagedIsSmall, FS_Subset DEF TypeInv, TypeOK
<1>2. Cardinality(stale) \in Nat /\ Cardinality(S) \in Nat
  BY <1>1, FS_CardinalityType
<1>3. IsFiniteSet(stale') /\ Cardinality(stale') <= Cardinality(stale) + InFlight
  BY <1>1, <1>2, SmallUnion
<1>4. Cardinality(stale') \in Nat
  BY <1>3, FS_CardinalityType
<1>5. InFlight * (n + 1) = InFlight * n + InFlight /\ InFlight * n \in Nat
  BY <1>1
<1>6. Cardinality(stale) + Reserved <= InFlight * n
  BY DEF StaleInv
<1>7. InFlight' = InFlight /\ Reserved' = 0
  BY DEF InFlight, Reserved
<1>8. CASE kills' + faults' = n + 1
  <2>1. Cardinality(stale) <= InFlight * n
    BY <1>1, <1>2, <1>5, <1>6 DEF Reserved
  <2>2. Cardinality(stale') <= InFlight * (n + 1)
    BY <1>1, <1>2, <1>3, <1>4, <1>5, <2>1
  <2> QED BY <1>4, <1>7, <1>8, <2>2 DEF StaleInv
<1>9. CASE kills' + faults' = n /\ folder = "err"
  <2>1. Cardinality(stale) + InFlight <= InFlight * n
    BY <1>6, <1>9 DEF Reserved
  <2>2. Cardinality(stale') <= InFlight * n
    BY <1>1, <1>2, <1>3, <1>4, <1>5, <2>1
  <2> QED BY <1>4, <1>7, <1>9, <2>2 DEF StaleInv
<1> QED BY <1>8, <1>9

\* So does one that leaves a few files while the folder's state stays, and one
\* with which the folder dies.
LEMMA StaleCounted ==
    ASSUME TypeInv, StagedInv, StaleInv, NEW S, IsFiniteSet(S), Cardinality(S) <= InFlight,
           stale' \subseteq stale \cup S, NEW n \in Nat, n = kills + faults,
           kills' + faults' = n + 1,
           Reserved' = Reserved \/ (S = {} /\ Reserved = 0)
    PROVE  StaleInv'
<1>1. InFlight \in Nat /\ IsFiniteSet(stale)
  <2>1. IsFiniteSet(Units)
    BY CountAssumption, FS_Interval DEF Units
  <2> QED BY <2>1, StagedIsSmall, FS_Subset DEF TypeInv, TypeOK
<1>2. Cardinality(stale) \in Nat /\ Reserved \in Nat /\ Reserved' \in Nat /\ Reserved' <= InFlight
  BY <1>1, FS_CardinalityType DEF Reserved, InFlight
<1>3. IsFiniteSet(stale') /\ Cardinality(stale') <= Cardinality(stale) + InFlight
  BY <1>1, <1>2, SmallUnion
<1>4. Cardinality(stale') \in Nat
  BY <1>3, FS_CardinalityType
<1>5. InFlight * (n + 1) = InFlight * n + InFlight /\ InFlight * n \in Nat
  BY <1>1
<1>6. Cardinality(stale) + Reserved <= InFlight * n
  BY DEF StaleInv
<1>7. InFlight' = InFlight
  BY DEF InFlight
<1>8. Cardinality(stale') + Reserved' <= InFlight * (n + 1)
  <2>1. CASE Reserved' = Reserved
    BY <2>1, <1>1, <1>2, <1>3, <1>4, <1>5, <1>6
  <2>2. CASE S = {} /\ Reserved = 0
    <3>1. Cardinality(stale') <= Cardinality(stale)
      BY <2>2, <1>1, FS_Subset
    <3> QED BY <2>2, <3>1, <1>1, <1>2, <1>4, <1>5, <1>6
  <2> QED BY <2>1, <2>2
<1> QED BY <1>4, <1>7, <1>8 DEF StaleInv

\* ... and one that leaves nothing.
LEMMA StaleShrinks ==
    ASSUME TypeInv, StagedInv, StaleInv, stale' \subseteq stale, UNCHANGED folder,
           NEW n \in Nat, n = kills + faults, kills' + faults' \in {n, n + 1}
    PROVE  StaleInv'
<1>1. InFlight \in Nat /\ IsFiniteSet(stale)
  <2>1. IsFiniteSet(Units)
    BY CountAssumption, FS_Interval DEF Units
  <2> QED BY <2>1, StagedIsSmall, FS_Subset DEF TypeInv, TypeOK
<1>2. Cardinality(stale') <= Cardinality(stale)
  BY <1>1, FS_Subset
<1>3. Cardinality(stale) \in Nat /\ Cardinality(stale') \in Nat /\ Reserved \in Nat
  BY <1>1, FS_CardinalityType, FS_Subset DEF Reserved, InFlight
<1>4. InFlight' = InFlight /\ Reserved' = Reserved
  BY DEF InFlight, Reserved
<1>5. InFlight * (n + 1) = InFlight * n + InFlight /\ InFlight * n \in Nat
  BY <1>1
<1>6. Cardinality(stale) + Reserved <= InFlight * n
  BY DEF StaleInv
<1>7. Cardinality(stale') + Reserved <= InFlight * n
  BY <1>2, <1>3, <1>5, <1>6
<1>8. Cardinality(stale') + Reserved <= InFlight * (n + 1)
  BY <1>1, <1>3, <1>5, <1>7
<1> QED BY <1>4, <1>7, <1>8 DEF StaleInv

\* The files that one step leaves are few.
LEMMA FewFiles ==
    ASSUME TypeInv, StagedInv
    PROVE  /\ \A x : IsFiniteSet({x}) /\ Cardinality({x}) <= InFlight
           /\ IsFiniteSet(RangeOf(batch)) /\ Cardinality(RangeOf(batch)) <= InFlight
           /\ IsFiniteSet({}) /\ Cardinality({}) <= InFlight
<1>1. NumWorkers \in Nat \ {0} /\ BatchFiles \in Nat \ {0} /\ batch \in Seq(Units)
  BY CountAssumption DEF TypeInv, TypeOK
<1>2. \A x : IsFiniteSet({x}) /\ Cardinality({x}) = 1
  BY FS_Singleton
<1>3. IsFiniteSet({}) /\ Cardinality({}) = 0
  BY FS_EmptySet
<1>4. IsFiniteSet(RangeOf(batch)) /\ Cardinality(RangeOf(batch)) <= Len(batch)
  BY <1>1, RangeIsSmall
<1>5. Len(batch) <= BatchFiles /\ Len(batch) \in Nat /\ Cardinality(RangeOf(batch)) \in Nat
  BY <1>1, <1>4, FS_CardinalityType DEF StagedInv
<1>6. InFlight >= BatchFiles /\ InFlight >= 1 /\ InFlight \in Nat
  BY <1>1 DEF InFlight
<1>7. Cardinality(RangeOf(batch)) <= InFlight
  BY <1>1, <1>4, <1>5, <1>6
<1>8. ASSUME NEW x PROVE IsFiniteSet({x}) /\ Cardinality({x}) <= InFlight
  BY <1>2, <1>6
<1>9. Cardinality({}) <= InFlight
  BY <1>3, <1>6
<1> QED BY <1>3, <1>4, <1>7, <1>8, <1>9

\* Every step keeps what earlier runs left within the bound.
LEMMA StaleNext == ASSUME TypeInv, PlaceInv, StagedInv, StaleInv, [Next]_vars PROVE StaleInv'
<1> USE DEF storeVars, doneVars, outVars, workVars, fileVars, foldVars, faultVars, mainVars
<1> DEFINE n == kills + faults
<1>a. kills \in Nat /\ faults \in Nat /\ n \in Nat
  BY FlagAssumption DEF TypeInv, TypeOK
<1>b. IsFiniteSet(staged) /\ Cardinality(staged) <= InFlight
  BY StagedIsSmall
<1>f. /\ Fault => kills' + faults' = n + 1
      /\ UNCHANGED faultVars => kills' + faults' = n
  BY <1>a DEF Fault
<1>l. LogFault => kills' + faults' \in {n, n + 1}
  BY <1>f DEF LogFault
<1> HIDE DEF n
<1>n. n = kills + faults
  BY DEF n
\* The run fails or is killed, and leaves its files.
<1>e. ASSUME ThreadsEnd, LeaveFiles,
             \/ kills' + faults' = n + 1
             \/ kills' + faults' \in {n, n + 1} /\ folder = "err"
      PROVE  StaleInv'
  <2>1. stale' \subseteq stale \cup staged /\ folder' # "err"
    BY <1>e DEF ThreadsEnd, LeaveFiles
  <2> QED BY <1>e, <1>a, <1>b, <1>n, <2>1, StaleGrows
<1>s. ASSUME UNCHANGED <<stale, folder>>, kills' + faults' \in {n, n + 1} PROVE StaleInv'
  BY <1>s, <1>a, <1>n, StaleShrinks
\* The folder works on: neither before nor after the step has it failed.
<1>w. ASSUME UNCHANGED <<stale, faultVars>>, folder # "err", folder' # "err" PROVE StaleInv'
  BY <1>w DEF StaleInv, Reserved, InFlight
<1>m. ASSUME NEW S, RemoveEntries(S), IsFiniteSet(S), Cardinality(S) <= InFlight,
             Reserved' = Reserved
      PROVE  StaleInv'
  <2>1. CASE UNCHANGED <<stale, faultVars>>
    BY <2>1, <1>m DEF StaleInv, InFlight
  <2>2. CASE Fault /\ stale' \subseteq stale \cup S
    BY <2>2, <1>m, <1>a, <1>f, <1>n, StaleCounted
  <2> QED BY <1>m, <2>1, <2>2 DEF RemoveEntries
<1>1. ASSUME NEW resume \in BOOLEAN, Start(resume) PROVE StaleInv'
  <2>1. folder = "done" /\ folder' = "recv" /\ UNCHANGED stale
    BY <1>1 DEF Start, PlaceInv, TakenInv, Running
  <2>2. kills' + faults' \in {n, n + 1}
    BY <1>1, <1>f, <1>l DEF Start
  <2>3. CASE kills' + faults' = n + 1
    <3>1. Reserved' = Reserved /\ stale' \subseteq stale \cup {}
      BY <2>1 DEF Reserved
    <3> QED BY <2>3, <3>1, <1>a, <1>n, FewFiles, StaleCounted
  <2>4. CASE kills' + faults' = n
    BY <2>1, <2>4, <1>n DEF StaleInv, Reserved, InFlight
  <2> QED BY <2>2, <2>3, <2>4
<1>2. CASE JoinOk \/ WriteTables
  BY <1>2, <1>s, <1>f DEF JoinOk, WriteTables
<1>3. CASE WriteNames \/ CleanStore \/ CleanDone \/ CleanNames
  BY <1>3, <1>s, <1>f, <1>l DEF WriteNames, CleanStore, CleanDone, CleanNames
<1>4. CASE JoinErr
  BY <1>4, <1>e, <1>f, <1>l DEF JoinErr
<1>5. CASE WriteTablesFails \/ WriteNamesFails
  BY <1>5, <1>e, <1>f DEF WriteTablesFails, WriteNamesFails
<1>6. CASE Exit
  <2>1. folder' # "err"
    BY <1>6 DEF Exit, ThreadsEnd
  <2>2. CASE stale' = {} /\ UNCHANGED faultVars
    <3>1. Cardinality(stale') = 0 /\ Reserved' = 0 /\ InFlight' = InFlight
      BY <2>1, <2>2, FS_EmptySet DEF Reserved, InFlight
    <3>2. InFlight * n \in Nat
      BY <1>a, StagedIsSmall
    <3> QED BY <2>2, <3>1, <3>2, <1>n DEF StaleInv
  <2>3. CASE Fault /\ stale' \subseteq stale \cup staged
    BY <2>1, <2>3, <1>a, <1>b, <1>f, <1>n, StaleGrows
  <2> QED BY <1>6, <2>2, <2>3 DEF Exit
<1>7. ASSUME NEW w \in Workers, WorkerStep(w) PROVE StaleInv'
  <2>0. UNCHANGED folder
    BY <1>7 DEF WorkerStep, Open, OpenFails, Take, TakeFails, Finish, Indexed, Scan, ScanFails, Send,
                SendFails
  <2>1. CASE Open(w) \/ TakeFails(w) \/ Finish(w) \/ Send(w) \/ SendFails(w)
    BY <2>1, <1>s, <1>f DEF Open, TakeFails, Finish, Send, SendFails
  <2>2. CASE OpenFails(w) \/ Scan(w) \/ ScanFails(w)
    BY <2>2, <1>s, <1>f, <1>l DEF OpenFails, Scan, ScanFails
  <2>3. CASE Take(w)
    <3>1. stale' \subseteq stale /\ UNCHANGED faultVars
      BY <2>3 DEF Take
    <3> QED BY <2>0, <3>1, <1>a, <1>f, <1>n, StaleShrinks
  <2>4. ASSUME NEW result \in {"ok", "empty", "failed"}, Indexed(w, result) PROVE StaleInv'
    <3>1. CASE result = "ok"
      BY <2>4, <3>1, <1>s, <1>f DEF Indexed
    <3>2. CASE result # "ok"
      <4>1. RemoveEntries({cur[w]}) /\ Reserved' = Reserved
        BY <2>4, <3>2, <2>0 DEF Indexed, Reserved, InFlight
      <4> QED BY <4>1, <1>m, FewFiles
    <3> QED BY <3>1, <3>2
  <2> QED BY <1>7, <2>1, <2>2, <2>3, <2>4 DEF WorkerStep
<1>8. CASE Receive \/ Disconnect \/ LogLine \/ LogDone
  BY <1>8, <1>w DEF Receive, Disconnect, LogLine, LogDone
<1>9. CASE Fold
  <2>1. RemoveEntries(RangeOf(batch)) /\ Reserved' = Reserved
    BY <1>9 DEF Fold, Reserved
  <2> QED BY <2>1, <1>m, FewFiles
<1>10. CASE FoldFails \/ LogFails
  <2>1. Fault /\ stale' \subseteq stale \cup {} /\ Reserved = 0
    BY <1>10 DEF FoldFails, LogFails, Reserved
  <2> QED BY <2>1, <1>a, <1>f, <1>n, FewFiles, StaleCounted
<1>11. CASE Kill
  <2>1. kills' + faults' = n + 1
    BY <1>11, <1>a, <1>n DEF Kill
  <2> QED BY <1>11, <2>1, <1>e DEF Kill
<1>12. CASE RemoveOut \/ RemoveStore \/ UNCHANGED vars
  BY <1>12, <1>s, <1>f DEF RemoveOut, RemoveStore, vars
<1> QED BY <1>1, <1>2, <1>3, <1>4, <1>5, <1>6, <1>7, <1>8, <1>9, <1>10, <1>11, <1>12
        DEF Next, MainStep, FolderStep

\* The entry files on disk stay within their limits, for every number of
\* workers and whatever the limits of a batch are: those of a run within what
\* its threads hold, and those it finds within as much for each kill and each
\* failing call before it.
THEOREM DiskIsBounded == Spec => []InFlightBounded
<1>1. Init => TypeInv /\ PlaceInv /\ StagedInv /\ StaleInv
  <2>1. ASSUME Init PROVE StaleInv
    <3>1. stale = {} /\ folder = "done" /\ kills + faults = 0
      BY <2>1 DEF Init
    <3>2. InFlight * 0 = 0
      BY CountAssumption DEF InFlight
    <3> QED BY <3>1, <3>2, FS_EmptySet DEF StaleInv, Reserved
  <2> QED BY <2>1, TypeInit, PlaceInit, StagedInit
<1>2. TypeInv /\ PlaceInv /\ StagedInv /\ StaleInv /\ [Next]_vars
         => (TypeInv /\ PlaceInv /\ StagedInv /\ StaleInv)'
  BY TypeNext, PlaceNext, StagedNext, StaleNext
<1>3. TypeInv /\ PlaceInv /\ StagedInv /\ StaleInv => InFlightBounded
  <2> SUFFICES ASSUME TypeInv, StagedInv, StaleInv PROVE InFlightBounded
    OBVIOUS
  <2>1. Cardinality(staged) <= InFlight /\ InFlight \in Nat
    BY StagedIsSmall
  <2>2. Cardinality(stale) \in Nat
    <3>1. IsFiniteSet(Units)
      BY CountAssumption, FS_Interval DEF Units
    <3> QED BY <3>1, FS_Subset, FS_CardinalityType DEF TypeInv, TypeOK
  <2>3. InFlight * (kills + faults) \in Nat
    <3>1. kills + faults \in Nat
      BY FlagAssumption DEF TypeInv, TypeOK
    <3> QED BY <2>1, <3>1
  <2>4. Reserved \in Nat
    BY <2>1 DEF Reserved
  <2>5. Cardinality(stale) <= InFlight * (kills + faults)
    BY <2>2, <2>3, <2>4 DEF StaleInv
  <2> QED BY <2>1, <2>5 DEF InFlightBounded, StagedInv
<1> QED BY <1>1, <1>2, <1>3, PTL DEF Spec

\* No entry file is deleted before its CU is in the GraphStore, or has failed.
THEOREM DeletesOnlyFolded == Spec => DeletedOnlyWhenFolded
<1> DEFINE Right == \A u \in staged \ staged' : u \in gs' \/ outcome'[u] \in {"failed", "empty"}
<1>1. Init => TypeInv /\ PlaceInv /\ StagedInv
  BY TypeInit, PlaceInit, StagedInit
<1>2. TypeInv /\ PlaceInv /\ StagedInv /\ [Next]_vars => (TypeInv /\ PlaceInv /\ StagedInv)'
  BY TypeNext, PlaceNext, StagedNext
<1>3. TypeInv /\ PlaceInv /\ StagedInv /\ [Next]_vars => [Running' => Right]_vars
  <2> SUFFICES ASSUME TypeInv, StagedInv, Next, Running' PROVE Right
    BY DEF vars
  <2> USE DEF storeVars, doneVars, outVars, workVars, fileVars, foldVars, faultVars, mainVars
  <2>1. ASSUME NEW resume \in BOOLEAN, Start(resume) PROVE Right
    BY <2>1 DEF Start, Running, StagedInv
  <2>2. CASE MainStep \/ Kill \/ RemoveOut \/ RemoveStore
    BY <2>2 DEF MainStep, JoinOk, JoinErr, WriteTables, WriteTablesFails, WriteNames, WriteNamesFails,
                CleanStore, CleanDone, CleanNames, Exit, Kill, RemoveOut, RemoveStore, Running
  <2>3. ASSUME NEW w \in Workers, WorkerStep(w) PROVE Right
    <3>1. ASSUME NEW result \in {"ok", "empty", "failed"}, Indexed(w, result) PROVE Right
      <4>1. outcome \in [Units -> Outcome] /\ (wpc[w] = "index" => cur[w] \in Units)
        BY DEF TypeInv, TypeOK, InHand
      <4> QED BY <3>1, <4>1 DEF Indexed, Count, RemoveEntries
    <3> QED BY <2>3, <3>1 DEF WorkerStep, Open, OpenFails, Take, TakeFails, Finish, Scan, ScanFails, Send, SendFails
  <2>4. CASE FolderStep
    BY <2>4 DEF FolderStep, Receive, Disconnect, Fold, FoldFails, LogLine, LogFails, LogDone, Fed,
                RemoveEntries
  <2> QED BY <2>1, <2>2, <2>3, <2>4 DEF Next
<1> QED BY <1>1, <1>2, <1>3, PTL DEF Spec, DeletedOnlyWhenFolded

-----------------------------------------------------------------------------
(***************************************************************************)
(* The pipeline implements ResumeContract, while the GraphStore is kept:   *)
(* each of its steps is a step of the contract or leaves it as it is.      *)
(*                                                                         *)
(* Besides the invariant of PublishedComplete this needs that no CU is     *)
(* counted twice (a CU once reported as failed is not reported as ok       *)
(* later): what a worker has in hand or ahead of it is not counted yet.    *)
(* From the same invariants the summary that a run prints adds up, the     *)
(* names of a run's own CUs reach its index and, unless a run was killed   *)
(* or its log failed, so do those of every CU in the table.                *)
(***************************************************************************)
FreshInv ==
    \A w \in Workers :
        /\ wpc[w] \in {"index", "scan"} => outcome[cur[w]] = "none"
        /\ \A u \in plan :
              wpc[w] # "gone" /\ pos[w] <= Position(u, plan) /\ Position(u, plan) % NumWorkers = w
                  => outcome[u] = "none"

\* Every step keeps the CUs ahead of a worker, and in its hands, without an outcome.
LEMMA FreshNext ==
    ASSUME TypeInv, PlaceInv, FreshInv, [Next]_vars PROVE FreshInv'
<1> USE DEF storeVars, doneVars, outVars, workVars, fileVars, foldVars, faultVars, mainVars
<1>a. /\ cur \in [Workers -> Units \cup {NoUnit}] /\ wpc \in [Workers -> WorkerState]
      /\ pos \in [Workers -> Nat] /\ outcome \in [Units -> Outcome] /\ plan \in SUBSET Units
  BY DEF TypeInv, TypeOK
<1>s. ASSUME UNCHANGED <<plan, pos, wpc, cur, outcome>> PROVE FreshInv'
  BY <1>s DEF FreshInv
<1>n. ASSUME ThreadsEnd PROVE FreshInv'
  BY <1>n DEF FreshInv, ThreadsEnd
<1>1. ASSUME NEW resume \in BOOLEAN, Start(resume) PROVE FreshInv'
  <2>1. plan' \subseteq Units
    BY <1>1 DEF Start, PlanOf
  <2>2. /\ outcome' = [u \in Units |-> "none"] /\ wpc' = [w \in Workers |-> "open"]
    BY <1>1 DEF Start
  <2> QED BY <2>1, <2>2 DEF FreshInv
<1>2. CASE MainStep
  BY <1>2, <1>s, <1>n DEF MainStep, JoinOk, JoinErr, WriteTables, WriteTablesFails, WriteNames,
     WriteNamesFails, CleanStore, CleanDone, CleanNames, Exit
<1>3. ASSUME NEW w \in Workers, WorkerStep(w) PROVE FreshInv'
  <2>a. plan' = plan
    BY <1>3 DEF WorkerStep, Open, OpenFails, Take, TakeFails, Finish, Indexed, Scan, ScanFails, Send, SendFails
  \* What the step leaves of the other workers, and does to its own.
  <2>g. ASSUME \A v \in Workers : v # w => wpc'[v] = wpc[v] /\ cur'[v] = cur[v] /\ pos'[v] = pos[v],
               \A v \in Workers : v # w /\ cur[v] # NoUnit => outcome'[cur[v]] = outcome[cur[v]],
               \A u \in plan : Position(u, plan) % NumWorkers # w => outcome'[u] = outcome[u],
               wpc'[w] \in {"index", "scan"} => outcome'[cur'[w]] = "none",
               \A u \in plan : wpc'[w] # "gone" /\ pos'[w] <= Position(u, plan)
                               /\ Position(u, plan) % NumWorkers = w => outcome'[u] = "none"
        PROVE  FreshInv'
    <3>1. ASSUME NEW v \in Workers, wpc'[v] \in {"index", "scan"} PROVE outcome'[cur'[v]] = "none"
      <4>1. CASE v = w
        BY <4>1, <3>1, <2>g
      <4>2. CASE v # w
        <5>1. wpc[v] \in {"index", "scan"} /\ cur'[v] = cur[v]
          BY <4>2, <3>1, <2>g
        <5>2. cur[v] # NoUnit
          BY <5>1, DataAssumption DEF TypeInv, InHand
        <5> QED BY <4>2, <5>1, <5>2, <2>g DEF FreshInv
      <4> QED BY <4>1, <4>2
    <3>2. ASSUME NEW v \in Workers, NEW u \in plan, wpc'[v] # "gone",
                 pos'[v] <= Position(u, plan), Position(u, plan) % NumWorkers = v
          PROVE  outcome'[u] = "none"
      <4>1. CASE v = w
        BY <4>1, <3>2, <2>g
      <4>2. CASE v # w
        BY <4>2, <3>2, <2>g DEF FreshInv
      <4> QED BY <4>1, <4>2
    <3> QED BY <3>1, <3>2, <2>a DEF FreshInv
  <2>1. CASE Open(w) \/ OpenFails(w) \/ Finish(w) \/ Send(w) \/ SendFails(w)
    <3>1. /\ wpc' = [wpc EXCEPT ![w] = wpc'[w]] /\ wpc'[w] \in {"loop", "gone"} /\ wpc[w] # "gone"
          /\ cur' \in {cur, [cur EXCEPT ![w] = NoUnit]} /\ UNCHANGED <<pos, outcome>>
      BY <2>1, <1>a DEF Open, OpenFails, Finish, Send, SendFails, Goto, PutDown
    <3> QED BY <3>1, <1>a, <2>g DEF FreshInv
  <2>2. CASE TakeFails(w)
    <3>1. PICK x \in plan : Position(x, plan) = pos[w] /\ outcome' = [outcome EXCEPT ![x] = "failed"]
      BY <2>2 DEF TakeFails
    <3>2. /\ wpc[w] = "loop" /\ UNCHANGED <<wpc, cur>>
          /\ pos' = [pos EXCEPT ![w] = pos[w] + NumWorkers]
      BY <2>2 DEF TakeFails, Stride
    <3>3. pos[w] % NumWorkers = w
      BY DEF PlaceInv, TakenInv
    <3>4. \A u \in Units : u # x => outcome'[u] = outcome[u]
      BY <3>1, <1>a
    <3>5. ASSUME NEW v \in Workers, v # w, cur[v] # NoUnit PROVE outcome'[cur[v]] = outcome[cur[v]]
      <4>1. Position(cur[v], plan) % NumWorkers = v /\ cur[v] \in Units
        BY <3>5, <1>a DEF PlaceInv, TakenInv, Taken
      <4>2. cur[v] # x
        BY <4>1, <3>1, <3>3, <3>5
      <4> QED BY <4>1, <4>2, <3>4
    <3>6. \A u \in plan : Position(u, plan) % NumWorkers # w => outcome'[u] = outcome[u]
      BY <3>1, <3>3, <3>4, <1>a
    <3>7. ASSUME NEW u \in plan, pos'[w] <= Position(u, plan), Position(u, plan) % NumWorkers = w
          PROVE  outcome'[u] = "none"
      <4>1. /\ pos[w] \in Nat /\ NumWorkers \in Nat \ {0} /\ Position(u, plan) \in Nat
            /\ pos'[w] = pos[w] + NumWorkers
        BY <3>2, <1>a, CountAssumption, PositionFacts
      <4>2. pos[w] < Position(u, plan)
        BY <4>1, <3>7
      <4>3. pos[w] <= Position(u, plan) /\ u # x
        BY <4>1, <4>2, <3>1
      <4>4. outcome[u] = "none"
        BY <4>3, <3>2, <3>7 DEF FreshInv
      <4> QED BY <4>3, <4>4, <3>4, <1>a
    <3> QED BY <3>2, <3>5, <3>6, <3>7, <1>a, <2>g
  <2>3. CASE Take(w)
    <3>1. PICK x \in plan : Position(x, plan) = pos[w] /\ cur' = [cur EXCEPT ![w] = x]
      BY <2>3 DEF Take
    <3>2. /\ wpc[w] = "loop" /\ wpc' = [wpc EXCEPT ![w] = "index"] /\ outcome' = outcome
          /\ pos' = [pos EXCEPT ![w] = pos[w] + NumWorkers]
      BY <2>3 DEF Take, Goto, Stride
    <3>3. pos[w] % NumWorkers = w
      BY DEF PlaceInv, TakenInv
    <3>4. outcome[x] = "none"
      BY <3>1, <3>2, <3>3, <1>a DEF FreshInv
    <3>5. \A u \in plan : pos[w] + NumWorkers <= Position(u, plan) => pos[w] <= Position(u, plan)
      <4>1. pos[w] \in Nat /\ NumWorkers \in Nat
        BY <1>a, CountAssumption
      <4>2. \A u \in plan : Position(u, plan) \in Nat
        BY <1>a, PositionFacts
      <4> QED BY <4>1, <4>2
    <3>6. \A u \in plan : pos'[w] <= Position(u, plan) /\ Position(u, plan) % NumWorkers = w
                          => outcome'[u] = "none"
      BY <3>2, <3>5, <1>a DEF FreshInv
    <3> QED BY <3>1, <3>2, <3>4, <3>6, <1>a, <2>g
  \* A worker that counts the CU in its hands.
  <2>4. ASSUME wpc[w] \in {"index", "scan"}, UNCHANGED pos,
               wpc' = [wpc EXCEPT ![w] = wpc'[w]],
               cur' \in {cur, [cur EXCEPT ![w] = NoUnit]},
               \/ UNCHANGED <<cur, outcome>>
               \/ /\ wpc'[w] \notin {"index", "scan"}
                  /\ outcome' = [outcome EXCEPT ![cur[w]] = outcome'[cur[w]]]
        PROVE  FreshInv'
    <3>1. cur[w] \in Units
      BY <2>4 DEF TypeInv, InHand
    <3>2. Taken(cur[w], w)
      BY <3>1, <1>a, DataAssumption DEF PlaceInv, TakenInv
    <3>3. \A u \in Units : u # cur[w] => outcome'[u] = outcome[u]
      BY <2>4, <3>1, <1>a
    <3>4. ASSUME NEW v \in Workers, v # w, cur[v] # NoUnit PROVE outcome'[cur[v]] = outcome[cur[v]]
      <4>1. Taken(cur[v], v) /\ cur[v] \in Units
        BY <3>4, <1>a DEF PlaceInv, TakenInv
      <4>2. cur[v] # cur[w]
        BY <4>1, <3>2, <3>4 DEF Taken
      <4> QED BY <4>1, <4>2, <3>3
    <3>5. ASSUME NEW u \in plan, wpc'[w] # "gone", pos[w] <= Position(u, plan),
                 Position(u, plan) % NumWorkers = w
          PROVE  outcome'[u] = "none"
      <4>1. u # cur[w]
        <5>1. Position(cur[w], plan) < pos[w] /\ cur[w] \in plan
          BY <3>2 DEF Taken
        <5>2. Position(u, plan) \in Nat /\ Position(cur[w], plan) \in Nat /\ pos[w] \in Nat
          BY <5>1, <1>a, PositionFacts
        <5> QED BY <5>1, <5>2, <3>5
      <4>2. outcome[u] = "none"
        BY <2>4, <3>5 DEF FreshInv
      <4> QED BY <4>1, <4>2, <3>3, <1>a
    <3>6. \A u \in plan : Position(u, plan) % NumWorkers # w => outcome'[u] = outcome[u]
      BY <3>2, <3>3, <1>a DEF Taken
    <3>7. wpc'[w] \in {"index", "scan"} => outcome'[cur'[w]] = "none"
      BY <2>4 DEF FreshInv
    <3>8. \A v \in Workers : v # w => wpc'[v] = wpc[v] /\ cur'[v] = cur[v] /\ pos'[v] = pos[v]
      BY <2>4, <1>a
    <3> QED BY <2>4, <3>4, <3>5, <3>6, <3>7, <3>8, <2>g
  <2>5. ASSUME NEW result \in {"ok", "empty", "failed"}, Indexed(w, result) PROVE FreshInv'
    <3>1. CASE result = "ok"
      BY <2>5, <3>1, <2>4, <1>a DEF Indexed, Goto
    <3>2. CASE result # "ok"
      <4>1. cur[w] \in Units
        BY <2>5 DEF Indexed, TypeInv, InHand
      <4> QED BY <2>5, <3>2, <4>1, <2>4, <1>a DEF Indexed, Goto, Count, PutDown
    <3> QED BY <3>1, <3>2
  <2>6. CASE Scan(w) \/ ScanFails(w)
    <3>1. cur[w] \in Units
      BY <2>6 DEF Scan, ScanFails, TypeInv, InHand
    <3> QED BY <2>6, <3>1, <2>4, <1>a DEF Scan, ScanFails, Goto, Count
  <2> QED BY <1>3, <2>1, <2>2, <2>3, <2>5, <2>6 DEF WorkerStep
<1>4. CASE FolderStep
  BY <1>4, <1>s DEF FolderStep, Receive, Disconnect, Fold, FoldFails, LogLine, LogFails, LogDone
<1>5. CASE Kill
  BY <1>5, <1>n DEF Kill
<1>6. CASE RemoveOut \/ RemoveStore \/ UNCHANGED vars
  BY <1>6, <1>s DEF RemoveOut, RemoveStore, vars
<1> QED BY <1>1, <1>2, <1>3, <1>4, <1>5, <1>6 DEF Next

-----------------------------------------------------------------------------
\* What the contract sees of the pipeline: the mapping of INSTANCE Contract.
SeenReported == deserted \cup {u \in Units : outcome[u] \in {"failed", "empty"}}
SeenTable    == IF out = "built" THEN served ELSE NoUnit

\* Every step of the pipeline is one of the contract, or none.
LEMMA ContractStep ==
    ASSUME KeepGraphstore, ~AllowRemoveStore, AllInv, FreshInv, TypeInv', DoneInv', [Next]_vars
    PROVE  [Contract!Next]_(Contract!vars)
<1> USE DEF storeVars, doneVars, outVars, workVars, fileVars, foldVars, faultVars, mainVars
<1>a. /\ outcome \in [Units -> Outcome] /\ gs \in SUBSET Units /\ gs' \in SUBSET Units
      /\ ReadDone \subseteq gs /\ ReadDone' \subseteq gs'
  BY DEF AllInv, TypeInv, TypeOK, DoneInv
<1>r. SeenReported \in SUBSET Units /\ SeenReported' \in SUBSET Units
  BY DEF SeenReported, Units, AllInv, TypeInv, TypeOK
\* The contract stutters.
<1>s. ASSUME UNCHANGED <<gs, doneVars, outcome, deserted>>, SeenTable' = SeenTable
      PROVE  UNCHANGED Contract!vars
  BY <1>s DEF Contract!vars, ReadDone, SeenTable
\* FoldMore, or a stutter.
<1>f. ASSUME gs \subseteq gs', UNCHANGED <<doneVars, outcome, deserted, out, served>>
      PROVE  Contract!Next
  BY <1>f, <1>a DEF Contract!Next, Contract!FoldMore, ReadDone
\* Record.
<1>l. ASSUME UNCHANGED <<gs, outcome, deserted, out, served>> PROVE Contract!Next
  BY <1>l, <1>a DEF Contract!Next, Contract!Record
<1>1. ASSUME NEW resume \in BOOLEAN, Start(resume) PROVE Contract!Next
  <2>1. SeenReported' = {}
    BY <1>1 DEF Start, SeenReported
  <2> QED BY <1>1, <2>1 DEF Start, OutputFree, Contract!Next, Contract!Begin, SeenReported, ReadDone
<1>2. CASE JoinOk \/ JoinErr \/ WriteNames \/ WriteNamesFails \/ Exit
  BY <1>2, <1>s DEF JoinOk, JoinErr, WriteNames, WriteNamesFails, Exit, ThreadsEnd, SeenTable
<1>3. CASE WriteTables
  <2>1. out # "built" /\ Units \subseteq gs \cup SeenReported
    BY <1>3 DEF WriteTables, AllInv, PhaseInv, Reported, SeenReported
  <2> QED BY <1>3, <2>1 DEF WriteTables, Contract!Next, Contract!Publish, SeenReported, ReadDone
<1>4. CASE WriteTablesFails
  BY <1>4, <1>s DEF WriteTablesFails, ThreadsEnd, SeenTable, AllInv, PhaseInv
<1>5. CASE CleanStore \/ CleanDone \/ CleanNames
  BY <1>5 DEF CleanStore, CleanDone, CleanNames, AllInv, DoneInv
<1>6. ASSUME NEW w \in Workers, WorkerStep(w) PROVE [Contract!Next]_(Contract!vars)
  <2>a. UNCHANGED <<gs, doneVars, out, served>>
    BY <1>6 DEF WorkerStep, Open, OpenFails, Take, TakeFails, Finish, Indexed, Scan, ScanFails, Send, SendFails
  <2>b. out # "built"
    BY <1>6 DEF WorkerStep, Open, OpenFails, Take, TakeFails, Finish, Indexed, Scan, ScanFails, Send, SendFails,
                AllInv, PhaseInv, AllGone
  \* Report, or a stutter.
  <2>r. ASSUME SeenReported \subseteq SeenReported' PROVE Contract!Next
    BY <2>r, <2>a, <2>b, <1>r DEF Contract!Next, Contract!Report, SeenReported, ReadDone
  \* A worker counts the CU in its hands, which was not counted before.
  <2>c. ASSUME wpc[w] \in {"index", "scan"}, UNCHANGED deserted,
               outcome' = outcome \/ outcome' = [outcome EXCEPT ![cur[w]] = outcome'[cur[w]]]
        PROVE  Contract!Next
    <3>1. outcome[cur[w]] = "none"
      BY <2>c DEF FreshInv
    <3>2. \A u \in Units : u # cur[w] => outcome'[u] = outcome[u]
      BY <2>c, <1>a
    <3>3. SeenReported \subseteq SeenReported'
      BY <2>c, <3>1, <3>2 DEF SeenReported
    <3> QED BY <3>3, <2>r
  <2>1. CASE Open(w) \/ Take(w) \/ Finish(w) \/ Send(w) \/ SendFails(w)
    BY <2>1, <2>a, <1>s DEF Open, Take, Finish, Send, SendFails, SeenTable
  <2>2. CASE OpenFails(w)
    <3>1. SeenReported \subseteq SeenReported'
      BY <2>2 DEF OpenFails, SeenReported
    <3> QED BY <3>1, <2>r
  <2>3. CASE TakeFails(w)
    <3>1. PICK x \in plan : outcome' = [outcome EXCEPT ![x] = "failed"]
      BY <2>3 DEF TakeFails
    <3>2. x \in Units /\ UNCHANGED deserted
      BY <2>3 DEF TakeFails, AllInv, TypeInv, TypeOK
    <3>3. SeenReported \subseteq SeenReported'
      BY <3>1, <3>2, <1>a DEF SeenReported
    <3> QED BY <3>3, <2>r
  <2>4. ASSUME NEW result \in {"ok", "empty", "failed"}, Indexed(w, result) PROVE Contract!Next
    <3>1. cur[w] \in Units
      BY <2>4 DEF Indexed, AllInv, TypeInv, InHand
    <3> QED BY <2>4, <3>1, <2>c, <1>a DEF Indexed, Count
  <2>5. CASE Scan(w) \/ ScanFails(w)
    <3>1. cur[w] \in Units
      BY <2>5 DEF Scan, ScanFails, AllInv, TypeInv, InHand
    <3> QED BY <2>5, <3>1, <2>c, <1>a DEF Scan, ScanFails, Count
  <2> QED BY <1>6, <2>1, <2>2, <2>4, <2>5, <2>3 DEF WorkerStep
<1>7. CASE Receive \/ Disconnect \/ LogDone
  BY <1>7, <1>s DEF Receive, Disconnect, LogDone, SeenTable
<1>8. CASE Fold \/ FoldFails
  BY <1>8, <1>f DEF Fold, FoldFails, PartOf
<1>9. CASE LogLine \/ LogFails
  BY <1>9, <1>l DEF LogLine, LogFails
<1>10. CASE Kill
  <2>1. SeenTable' = SeenTable
    BY <1>10 DEF Kill, SeenTable, AllInv, PhaseInv
  <2>2. UNCHANGED <<outcome, deserted>> /\ (gs' = gs \/ (gs \subseteq gs' /\ UNCHANGED doneVars))
    BY <1>10 DEF Kill, ThreadsEnd, PartOf, AllInv, DoneInv
  <2>3. CASE gs' = gs
    BY <2>1, <2>2, <2>3, <1>a DEF Contract!Next, Contract!Record, SeenTable
  <2>4. CASE gs \subseteq gs' /\ UNCHANGED doneVars
    BY <2>1, <2>2, <2>4, <1>a DEF Contract!Next, Contract!FoldMore, SeenTable, ReadDone
  <2> QED BY <2>2, <2>3, <2>4
<1>11. CASE RemoveOut
  BY <1>11 DEF RemoveOut, Contract!Next, Contract!Withdraw, ReadDone
<1>12. CASE RemoveStore
  BY <1>12 DEF RemoveStore
<1>13. CASE UNCHANGED vars
  BY <1>13, <1>s DEF vars, SeenTable
<1> QED
  BY <1>1, <1>2, <1>3, <1>4, <1>5, <1>6, <1>7, <1>8, <1>9, <1>10, <1>11, <1>12, <1>13
     DEF Next, MainStep, FolderStep

\* The pipeline implements the contract: over kills, failing calls, reruns
\* and any number of workers, what may be skipped is folded, nothing folded is
\* lost, and a table is published only from a GraphStore that has every CU the
\* run did not report.
THEOREM PipelineImplementsContract ==
    ASSUME KeepGraphstore, ~AllowRemoveStore
    PROVE  Spec => ImplementsContract
<1>1. Init => AllInv /\ FreshInv
  <2>1. Init => FreshInv
    BY DEF Init, FreshInv
  <2> QED BY <2>1, AllInit
<1>2. AllInv /\ FreshInv /\ [Next]_vars => (AllInv /\ FreshInv)'
  BY AllNext, FreshNext DEF AllInv
<1>3. Init => Contract!Init
  BY DataAssumption DEF Init, Contract!Init, ReadDone
<1>4. AllInv /\ FreshInv /\ (AllInv /\ FreshInv)' /\ [Next]_vars
      => [Contract!Next]_(Contract!vars)
  BY ContractStep DEF AllInv
<1> QED BY <1>1, <1>2, <1>3, <1>4, PTL DEF Spec, ImplementsContract, Contract!Spec
-----------------------------------------------------------------------------
(***************************************************************************)
(* The summary.  Until the folder fails, `folded` is the number of the CUs *)
(* counted as ok that are no more on their way to the folder: what is in   *)
(* the batch, in the channel or in the hands of a worker that sends.       *)
(***************************************************************************)
OkUnits == {u \in Units : outcome[u] = "ok"}
Sent    == {cur[w] : w \in {v \in Workers : wpc[v] = "send"}}
ToFold  == RangeOf(batch) \cup RangeOf(chan) \cup Sent

CountInv == /\ ToFold \subseteq OkUnits
            /\ folded = Cardinality(OkUnits \ ToFold)

SumInv ==
    /\ ~Running => folded = 0
    /\ proc \in {"threads", "tables"} /\ folder # "err" => CountInv
    /\ proc = "tables" => ToFold = {} /\ \A u \in plan \ deserted : outcome[u] # "none"
    /\ \A w \in Workers : wpc[w] = "open" => pos[w] = w

\* What a worker leaves that cannot open the kzip is counted by no other.
DesertInv ==
    Running => \A u \in deserted :
                   /\ u \in plan /\ outcome[u] = "none"
                   /\ wpc[Position(u, plan) % NumWorkers] = "gone"

\* A sequence without repetition has as many elements as places.
LEMMA DistinctCount ==
    ASSUME NEW S, NEW s \in Seq(S), Distinct(s)
    PROVE  IsFiniteSet(RangeOf(s)) /\ Cardinality(RangeOf(s)) = Len(s)
<1>0. s \in [1 .. Len(s) -> S]
  OBVIOUS
<1>1. s \in [1 .. Len(s) -> RangeOf(s)] /\ Len(s) \in Nat
  BY <1>0 DEF RangeOf
<1>2. s \in Bijection(1 .. Len(s), RangeOf(s))
  <2>1. s \in Surjection(1 .. Len(s), RangeOf(s))
    BY <1>1 DEF Surjection, RangeOf
  <2>2. s \in Injection(1 .. Len(s), RangeOf(s))
    BY <1>1 DEF Injection, IsInjective, Distinct
  <2> QED BY <2>1, <2>2 DEF Bijection
<1>3. ASSUME NEW n \in Nat PROVE IsFiniteSet(1 .. n) /\ Cardinality(1 .. n) = n
  BY FS_Interval
<1>4. ExistsBijection(1 .. Len(s), RangeOf(s))
  BY <1>2 DEF ExistsBijection
<1> QED BY <1>1, <1>3, <1>4, FS_Bijection

\* A worker counts a CU as ok when it has it ready to send.
LEMMA WorkerCounts ==
    ASSUME AllInv, FreshInv, SumInv, NEW w \in Workers, WorkerStep(w)
    PROVE  SumInv'
<1> USE DEF storeVars, doneVars, outVars, workVars, fileVars, foldVars, faultVars, mainVars
<1>a. /\ cur \in [Workers -> Units \cup {NoUnit}] /\ wpc \in [Workers -> WorkerState]
      /\ pos \in [Workers -> Nat] /\ outcome \in [Units -> Outcome] /\ plan \in SUBSET Units
      /\ chan \in Seq(Units) /\ batch \in Seq(Units)
  BY DEF AllInv, TypeInv, TypeOK
<1>b. UNCHANGED <<proc, folder, batch, folded>>
  BY DEF WorkerStep, Open, OpenFails, Take, TakeFails, Finish, Indexed, Scan, ScanFails, Send, SendFails
<1>c. proc = "threads" /\ Running
  <2>1. wpc[w] # "gone"
    BY DEF WorkerStep, Open, OpenFails, Take, TakeFails, Finish, Indexed, Scan, ScanFails, Send, SendFails
  <2> QED BY <2>1 DEF AllInv, PhaseInv, AllGone, Running
\* What is left to show: what is ok, less what is on its way, is the same.
<1>g. ASSUME folder # "err" => ToFold' \subseteq OkUnits' /\ OkUnits' \ ToFold' = OkUnits \ ToFold,
             \A v \in Workers : wpc'[v] = "open" => wpc[v] = "open" /\ pos'[v] = pos[v]
      PROVE  SumInv'
  BY <1>b, <1>c, <1>g DEF SumInv, CountInv, Running
\* Nothing is counted and no CU is got ready.
<1>s. ASSUME UNCHANGED outcome, wpc[w] # "send", wpc'[w] \in {"loop", "index", "scan", "gone"},
             wpc' = [wpc EXCEPT ![w] = wpc'[w]], UNCHANGED chan,
             \A v \in Workers : v # w => cur'[v] = cur[v] /\ pos'[v] = pos[v]
      PROVE  SumInv'
  <2>0. /\ \A v \in Workers : wpc'[v] = "send" <=> wpc[v] = "send"
        /\ \A v \in Workers : wpc[v] = "send" => cur'[v] = cur[v]
    BY <1>s, <1>a
  <2>1. Sent' = Sent
    BY <2>0 DEF Sent
  <2>2. ToFold' = ToFold /\ OkUnits' = OkUnits
    BY <1>s, <1>b, <2>1 DEF ToFold, OkUnits, RangeOf
  <2>3. \A v \in Workers : wpc'[v] = "open" => wpc[v] = "open" /\ pos'[v] = pos[v]
    BY <1>s, <1>a
  <2> QED BY <2>2, <2>3, <1>g, <1>c DEF SumInv, CountInv
<1>1. CASE Open(w) \/ Take(w) \/ Finish(w) \/ Indexed(w, "ok")
  BY <1>1, <1>s, <1>a DEF Open, Take, Finish, Indexed, Goto
\* Nothing is counted; the worker had nothing to send.
<1>2. CASE OpenFails(w)
  BY <1>2, <1>s, <1>a DEF OpenFails, Goto
\* A CU that failed or was empty is no CU counted as ok.
<1>3. CASE \E result \in {"empty", "failed"} : Indexed(w, result)
  <2>1. PICK result \in {"empty", "failed"} : Indexed(w, result)
    BY <1>3
  <2>2. /\ wpc[w] = "index" /\ wpc' = [wpc EXCEPT ![w] = "loop"] /\ UNCHANGED <<pos, chan>>
        /\ cur' = [cur EXCEPT ![w] = NoUnit] /\ outcome' = [outcome EXCEPT ![cur[w]] = result]
    BY <2>1 DEF Indexed, Goto, Count, PutDown
  <2>3. cur[w] \in Units /\ outcome[cur[w]] = "none"
    BY <2>2 DEF FreshInv, AllInv, TypeInv, InHand
  <2>4. OkUnits' = OkUnits
    BY <2>2, <2>3, <1>a DEF OkUnits
  <2>5. Sent' = Sent
    BY <2>2, <1>a DEF Sent
  <2>6. ToFold' = ToFold
    BY <2>2, <2>5, <1>b DEF ToFold, RangeOf
  <2>7. \A v \in Workers : wpc'[v] = "open" => wpc[v] = "open" /\ pos'[v] = pos[v]
    BY <2>2, <1>a
  <2> QED BY <2>4, <2>6, <2>7, <1>g, <1>c DEF SumInv, CountInv
<1>4. CASE TakeFails(w)
  <2>1. PICK x \in plan : Position(x, plan) = pos[w] /\ outcome' = [outcome EXCEPT ![x] = "failed"]
    BY <1>4 DEF TakeFails
  <2>2. wpc[w] = "loop" /\ UNCHANGED <<wpc, cur, chan>> /\ pos' = [pos EXCEPT ![w] = pos[w] + Stride]
    BY <1>4 DEF TakeFails
  <2>3. x \in Units /\ outcome[x] = "none"
    <3>1. pos[w] % NumWorkers = w /\ pos[w] <= pos[w]
      BY <1>a DEF AllInv, PlaceInv, TakenInv
    <3> QED BY <2>1, <2>2, <3>1, <1>a DEF FreshInv
  <2>4. OkUnits' = OkUnits
    BY <2>1, <2>3, <1>a DEF OkUnits
  <2>5. ToFold' = ToFold
    BY <2>2, <1>b DEF ToFold, Sent, RangeOf
  <2>6. \A v \in Workers : wpc'[v] = "open" => wpc[v] = "open" /\ pos'[v] = pos[v]
    BY <2>2, <1>a
  <2> QED BY <2>4, <2>5, <2>6, <1>g, <1>c DEF SumInv, CountInv
\* The CU joins both: it is ok, and on its way.
<1>5. CASE Scan(w) \/ ScanFails(w)
  <2>1. /\ wpc[w] = "scan" /\ wpc' = [wpc EXCEPT ![w] = "send"] /\ UNCHANGED <<pos, cur, chan>>
        /\ outcome' = [outcome EXCEPT ![cur[w]] = "ok"]
    BY <1>5 DEF Scan, ScanFails, Goto, Count
  <2>2. cur[w] \in Units /\ outcome[cur[w]] = "none"
    BY <2>1 DEF FreshInv, AllInv, TypeInv, InHand
  <2>3. OkUnits' = OkUnits \cup {cur[w]} /\ cur[w] \notin OkUnits
    BY <2>1, <2>2, <1>a DEF OkUnits
  <2>4. Sent' = Sent \cup {cur[w]}
    BY <2>1, <1>a DEF Sent
  <2>5. ToFold' = ToFold \cup {cur[w]}
    BY <2>1, <2>4, <1>b DEF ToFold, RangeOf
  <2>6. \A v \in Workers : wpc'[v] = "open" => wpc[v] = "open" /\ pos'[v] = pos[v]
    BY <2>1, <1>a
  <2> QED BY <2>3, <2>5, <2>6, <1>g, <1>c DEF SumInv, CountInv
\* The CU goes from the hand to the channel.
<1>6. CASE Send(w)
  <2>1. /\ wpc[w] = "send" /\ wpc' = [wpc EXCEPT ![w] = "loop"] /\ UNCHANGED <<pos, outcome>>
        /\ cur' = [cur EXCEPT ![w] = NoUnit] /\ chan' = Append(chan, cur[w]) /\ cur[w] \in Units
    BY <1>6 DEF Send, Goto, PutDown, AllInv, TypeInv, InHand
  <2>2. RangeOf(chan)' = RangeOf(chan) \cup {cur[w]}
    BY <2>1, <1>a, AppendRange
  <2>3. Sent = Sent' \cup {cur[w]}
    BY <2>1, <1>a DEF Sent
  <2>4. ToFold' = ToFold /\ OkUnits' = OkUnits
    BY <2>1, <2>2, <2>3, <1>b DEF ToFold, OkUnits, RangeOf
  <2>5. \A v \in Workers : wpc'[v] = "open" => wpc[v] = "open" /\ pos'[v] = pos[v]
    BY <2>1, <1>a
  <2> QED BY <2>4, <2>5, <1>g, <1>c DEF SumInv, CountInv
<1>7. CASE SendFails(w)
  <2>1. folder = "err" /\ wpc' = [wpc EXCEPT ![w] = "gone"] /\ UNCHANGED pos
    BY <1>7 DEF SendFails, Goto
  <2>2. \A v \in Workers : wpc'[v] = "open" => wpc[v] = "open" /\ pos'[v] = pos[v]
    BY <2>1, <1>a
  <2> QED BY <2>1, <2>2, <1>g
<1> QED BY <1>1, <1>2, <1>3, <1>5, <1>6, <1>7, <1>4 DEF WorkerStep

\* The folder adds a batch to `folded` when all of it is in the store and logged.
LEMMA FolderCounts ==
    ASSUME AllInv, SumInv, FolderStep PROVE SumInv'
<1> USE DEF storeVars, doneVars, outVars, workVars, fileVars, foldVars, faultVars, mainVars
<1>a. /\ chan \in Seq(Units) /\ batch \in Seq(Units) /\ folded \in Nat
      /\ outcome \in [Units -> Outcome]
  BY DEF AllInv, TypeInv, TypeOK
<1>b. UNCHANGED <<proc, wpc, pos, cur, outcome, deserted, plan>>
  BY DEF FolderStep, Receive, Disconnect, Fold, FoldFails, LogLine, LogFails, LogDone
<1>c. folder \notin {"done", "err"} /\ proc = "threads" /\ Running
  <2>1. folder \notin {"done", "err"}
    BY DEF FolderStep, Receive, Disconnect, Fold, FoldFails, LogLine, LogFails, LogDone
  <2> QED BY <2>1 DEF AllInv, PhaseInv, Running
<1>d. Sent' = Sent /\ OkUnits' = OkUnits
  BY <1>b DEF Sent, OkUnits
<1>g. ASSUME folder' # "err" => CountInv' PROVE SumInv'
  BY <1>b, <1>c, <1>g DEF SumInv, Running
<1>s. ASSUME ToFold' = ToFold, UNCHANGED folded PROVE SumInv'
  BY <1>s, <1>c, <1>d, <1>g DEF SumInv, CountInv
<1>1. CASE Receive
  <2>1. chan # <<>> /\ batch' = Append(batch, Head(chan)) /\ chan' = Tail(chan) /\ folded' = folded
    BY <1>1 DEF Receive
  <2>2. Head(chan) \in Units
    BY <2>1, <1>a
  <2>3. RangeOf(chan) = RangeOf(chan)' \cup {Head(chan)} /\ RangeOf(batch)' = RangeOf(batch) \cup {Head(chan)}
    BY <2>1, <2>2, <1>a, TailRange, AppendRange
  <2> QED BY <2>1, <2>3, <1>d, <1>s DEF ToFold
<1>2. CASE Disconnect \/ Fold \/ LogLine
  BY <1>2, <1>d, <1>s DEF Disconnect, Fold, LogLine, ToFold, RangeOf
<1>3. CASE FoldFails \/ LogFails
  BY <1>3, <1>g DEF FoldFails, LogFails
<1>4. CASE LogDone
  <2>1. folded' = folded + Len(batch) /\ batch' = <<>> /\ UNCHANGED chan
    BY <1>4 DEF LogDone
  <2>2. /\ ToFold \subseteq OkUnits /\ folded = Cardinality(OkUnits \ ToFold)
    BY <1>c DEF SumInv, CountInv
  <2>3. RangeOf(batch)' = {} /\ RangeOf(chan)' = RangeOf(chan)
    BY <2>1 DEF RangeOf
  <2>4. RangeOf(batch) \cap (RangeOf(chan) \cup Sent) = {} /\ Distinct(batch)
    BY DEF AllInv, PlaceInv, QueueInv, Sent
  <2>5. ToFold' = ToFold \ RangeOf(batch)
    BY <2>3, <2>4, <1>d DEF ToFold
  <2> DEFINE Before == OkUnits \ ToFold
             Added  == RangeOf(batch)
  <2>6. OkUnits' \ ToFold' = Before \cup Added /\ Before \cap Added = {}
    BY <2>2, <2>5, <1>d DEF ToFold
  <2>7. IsFiniteSet(Added) /\ Cardinality(Added) = Len(batch)
    BY <2>4, <1>a, DistinctCount
  <2>8. IsFiniteSet(Before)
    <3>1. IsFiniteSet(Units)
      BY CountAssumption, FS_Interval DEF Units
    <3> QED BY <3>1, FS_Subset DEF OkUnits
  <2> HIDE DEF Before, Added
  <2>9. Cardinality(Before \cup Added) = Cardinality(Before) + Cardinality(Added)
    <3>1. Cardinality({}) = 0
      BY FS_EmptySet
    <3>2. Cardinality(Before \cup Added)
          = Cardinality(Before) + Cardinality(Added) - Cardinality(Before \cap Added)
      BY <2>7, <2>8, FS_Union
    <3>3. Cardinality(Before \cap Added) = 0
      BY <2>6, <3>1
    <3>4. Cardinality(Before) \in Nat /\ Cardinality(Added) \in Nat
      BY <2>7, <2>8, FS_CardinalityType
    <3> QED BY <3>1, <3>4, <3>2, <3>3
  <2>10. folded = Cardinality(Before)
    BY <2>2 DEF Before
  <2>11. CountInv'
    BY <2>1, <2>2, <2>5, <2>6, <2>7, <2>9, <2>10, <1>d DEF CountInv
  <2> QED BY <2>11, <1>g
<1> QED BY <1>1, <1>2, <1>3, <1>4 DEF FolderStep

\* Every step keeps the account.
LEMMA SumNext ==
    ASSUME AllInv, FreshInv, SumInv, [Next]_vars PROVE SumInv'
<1> USE DEF storeVars, doneVars, outVars, workVars, fileVars, foldVars, faultVars, mainVars
<1>n. ASSUME ThreadsEnd, ~Running' PROVE SumInv'
  BY <1>n DEF ThreadsEnd, SumInv, Running
<1>s. ASSUME UNCHANGED <<plan, workVars, chan, folder, batch, folded>>, ~Running' => ~Running,
             proc' \in {"threads", "tables"} => proc' = proc
      PROVE  SumInv'
  <2>1. ToFold' = ToFold /\ OkUnits' = OkUnits
    BY <1>s DEF ToFold, OkUnits, Sent, RangeOf
  <2> QED BY <1>s, <2>1 DEF SumInv, CountInv
<1>1. ASSUME NEW resume \in BOOLEAN, Start(resume) PROVE SumInv'
  <2>1. /\ ~Running /\ Running' /\ proc' = "threads" /\ UNCHANGED <<chan, batch, folded>>
        /\ pos' = [w \in Workers |-> w] /\ wpc' = [w \in Workers |-> "open"]
        /\ outcome' = [u \in Units |-> "none"]
    BY <1>1 DEF Start, Running
  <2>2. folded = 0 /\ batch = <<>> /\ chan = <<>>
    BY <2>1 DEF AllInv, PlaceInv, TakenInv, SumInv
  <2>3. OkUnits' = {} /\ ToFold' = {}
    BY <2>1, <2>2 DEF OkUnits, ToFold, Sent, RangeOf
  <2>4. Cardinality({}) = 0
    BY FS_EmptySet
  <2>5. CountInv'
    BY <2>1, <2>2, <2>3, <2>4 DEF CountInv
  <2> QED BY <2>1, <2>5 DEF SumInv
<1>2. CASE JoinOk
  <2>1. /\ proc = "threads" /\ folder = "done" /\ AllGone /\ Running /\ Running'
        /\ UNCHANGED <<plan, workVars, chan, foldVars>>
    BY <1>2 DEF JoinOk, Running
  <2>2. batch = <<>> /\ chan = <<>>
    BY <2>1 DEF AllInv, PlanInv
  <2>3. ToFold' = ToFold /\ OkUnits' = OkUnits
    BY <2>1 DEF ToFold, OkUnits, Sent, RangeOf
  <2>4. ToFold = {}
    BY <2>1, <2>2 DEF ToFold, Sent, AllGone, RangeOf
  <2>5. \A u \in plan \ deserted : outcome[u] # "none"
    <3> SUFFICES ASSUME NEW u \in plan \ deserted, outcome[u] = "none" PROVE FALSE
      OBVIOUS
    <3>1. Position(u, plan) % NumWorkers \in Workers
      BY PositionFacts DEF AllInv, TypeInv, TypeOK
    <3>2. Pending(u, Position(u, plan) % NumWorkers)
      BY <2>1, <3>1 DEF AllInv, PlanInv
    <3> QED BY <2>1, <3>1, <3>2 DEF AllGone, Pending
  <2> QED BY <2>1, <2>3, <2>4, <2>5 DEF SumInv, CountInv
<1>3. CASE WriteTables \/ WriteNames \/ CleanStore \/ CleanDone \/ CleanNames
  BY <1>3, <1>s DEF WriteTables, WriteNames, CleanStore, CleanDone, CleanNames, AfterNames, Running
<1>4. CASE JoinErr \/ WriteTablesFails \/ WriteNamesFails \/ Exit \/ Kill
  BY <1>4, <1>n DEF JoinErr, WriteTablesFails, WriteNamesFails, Exit, Kill, Running
<1>5. ASSUME NEW w \in Workers, WorkerStep(w) PROVE SumInv'
  BY <1>5, WorkerCounts
<1>6. CASE FolderStep
  BY <1>6, FolderCounts
<1>7. CASE RemoveOut \/ RemoveStore \/ UNCHANGED vars
  BY <1>7, <1>s DEF RemoveOut, RemoveStore, vars, Running
<1> QED BY <1>1, <1>2, <1>3, <1>4, <1>5, <1>6, <1>7 DEF Next, MainStep

\* Every step leaves what was deserted so: a worker counts the CUs of its own
\* stride only, and one that could not open the kzip does not come back.
LEMMA DesertNext ==
    ASSUME AllInv, FreshInv, SumInv, DesertInv, [Next]_vars PROVE DesertInv'
<1> USE DEF storeVars, doneVars, outVars, workVars, fileVars, foldVars, faultVars, mainVars
<1>a. /\ cur \in [Workers -> Units \cup {NoUnit}] /\ wpc \in [Workers -> WorkerState]
      /\ outcome \in [Units -> Outcome] /\ plan \in SUBSET Units /\ pos \in [Workers -> Nat]
  BY DEF AllInv, TypeInv, TypeOK
<1>n. ASSUME ~Running' PROVE DesertInv'
  BY <1>n DEF DesertInv
<1>s. ASSUME UNCHANGED <<plan, wpc, outcome, deserted>>, Running' => Running PROVE DesertInv'
  BY <1>s DEF DesertInv
<1>1. ASSUME NEW resume \in BOOLEAN, Start(resume) PROVE DesertInv'
  <2>1. deserted' = {}
    BY <1>1 DEF Start
  <2> QED BY <2>1 DEF DesertInv
<1>2. CASE JoinOk \/ WriteTables \/ WriteNames \/ CleanStore \/ CleanDone \/ CleanNames
  BY <1>2, <1>s DEF JoinOk, WriteTables, WriteNames, CleanStore, CleanDone, CleanNames, Running
<1>3. CASE JoinErr \/ WriteTablesFails \/ WriteNamesFails \/ Exit \/ Kill
  BY <1>3, <1>n DEF JoinErr, WriteTablesFails, WriteNamesFails, Exit, Kill, Running
<1>4. ASSUME NEW w \in Workers, WorkerStep(w) PROVE DesertInv'
  <2>1. UNCHANGED <<plan, proc>> /\ wpc[w] # "gone" /\ wpc' \in {wpc, [wpc EXCEPT ![w] = wpc'[w]]}
    BY <1>4, <1>a DEF WorkerStep, Open, OpenFails, Take, TakeFails, Finish, Indexed, Scan, ScanFails,
                      Send, SendFails, Goto
  <2>2. Running /\ Running'
    BY <2>1 DEF AllInv, PhaseInv, AllGone, Running
  <2>3. \A v \in Workers : wpc[v] = "gone" => wpc'[v] = "gone"
    BY <2>1, <1>a
  <2>4. \A u \in deserted : /\ u \in plan /\ outcome[u] = "none"
                            /\ Position(u, plan) % NumWorkers \in Workers
                            /\ Position(u, plan) % NumWorkers # w
                            /\ wpc'[Position(u, plan) % NumWorkers] = "gone"
    BY <2>1, <2>2, <2>3, <1>a, PositionFacts DEF DesertInv
  \* It counts a CU of its own stride.
  <2>c. ASSUME UNCHANGED deserted, NEW x \in plan, Position(x, plan) % NumWorkers = w,
               outcome' = [outcome EXCEPT ![x] = outcome'[x]]
        PROVE  DesertInv'
    <3>1. \A u \in deserted : u # x /\ u \in Units
      BY <2>4, <2>c, <1>a
    <3>2. \A u \in deserted : outcome'[u] = "none"
      BY <2>4, <2>c, <3>1, <1>a
    <3> QED BY <2>1, <2>c, <2>4, <3>2 DEF DesertInv
  <2>d. ASSUME UNCHANGED <<deserted, outcome>> PROVE DesertInv'
    BY <2>1, <2>d, <2>4 DEF DesertInv
  <2>h. ASSUME wpc[w] \in {"index", "scan"} PROVE cur[w] \in plan /\ Position(cur[w], plan) % NumWorkers = w
    <3>1. cur[w] \in Units /\ cur[w] # NoUnit
      BY <2>h, DataAssumption DEF AllInv, TypeInv, InHand
    <3> QED BY <3>1 DEF AllInv, PlaceInv, TakenInv, Taken
  <2>5. CASE Open(w) \/ Take(w) \/ Finish(w) \/ Indexed(w, "ok") \/ Send(w) \/ SendFails(w)
    BY <2>5, <2>d DEF Open, Take, Finish, Indexed, Send, SendFails
  <2>6. CASE OpenFails(w)
    <3>1. /\ wpc[w] = "open" /\ wpc' = [wpc EXCEPT ![w] = "gone"] /\ outcome' = outcome
          /\ deserted' = deserted \cup StrideOf(w, Stride, plan)
      BY <2>6 DEF OpenFails, Goto
    <3>2. ASSUME NEW u \in StrideOf(w, Stride, plan)
          PROVE  u \in plan /\ outcome[u] = "none" /\ wpc'[Position(u, plan) % NumWorkers] = "gone"
      <4>1. u \in plan /\ Position(u, plan) % NumWorkers = w
        BY <3>2 DEF StrideOf, Stride
      <4>2. w <= Position(u, plan)
        BY <4>1, <1>a, PositionFacts
      <4> QED BY <3>1, <4>1, <4>2, <1>a DEF FreshInv, SumInv
    <3> QED BY <2>1, <2>4, <3>1, <3>2 DEF DesertInv
  <2>7. CASE TakeFails(w)
    <3>1. PICK x \in plan : Position(x, plan) = pos[w] /\ outcome' = [outcome EXCEPT ![x] = "failed"]
      BY <2>7 DEF TakeFails
    <3>2. Position(x, plan) % NumWorkers = w
      BY <3>1 DEF AllInv, PlaceInv, TakenInv
    <3>3. outcome' = [outcome EXCEPT ![x] = outcome'[x]]
      BY <3>1, <1>a
    <3> QED BY <2>7, <3>2, <3>3, <2>c DEF TakeFails
  <2>8. CASE Scan(w) \/ ScanFails(w) \/ \E result \in {"empty", "failed"} : Indexed(w, result)
    <3>1. wpc[w] \in {"index", "scan"} /\ UNCHANGED deserted
      BY <2>8 DEF Scan, ScanFails, Indexed
    <3>2. outcome' = [outcome EXCEPT ![cur[w]] = outcome'[cur[w]]]
      <4>1. cur[w] \in Units
        BY <3>1, <2>h, <1>a
      <4> QED BY <4>1, <2>8, <1>a DEF Scan, ScanFails, Indexed, Count
    <3> QED BY <3>1, <3>2, <2>h, <2>c
  <2> QED BY <1>4, <2>5, <2>6, <2>7, <2>8 DEF WorkerStep
<1>5. CASE FolderStep
  BY <1>5, <1>s DEF FolderStep, Receive, Disconnect, Fold, FoldFails, LogLine, LogFails, LogDone, Running
<1>6. CASE RemoveOut \/ RemoveStore \/ UNCHANGED vars
  BY <1>6, <1>s DEF RemoveOut, RemoveStore, vars, Running
<1> QED BY <1>1, <1>2, <1>3, <1>4, <1>5, <1>6 DEF Next, MainStep

\* The summary that a run prints accounts for its plan: when the threads have
\* been joined, the CUs that nobody counted are exactly those of the workers
\* that could not open the kzip, those counted as ok are in the GraphStore and
\* `folded` is their number, for any number of CUs, workers and batches.
THEOREM SummaryAddsUp ==
    ASSUME KeepGraphstore, ~AllowRemoveStore
    PROVE  Spec => []SummaryAccounts
<1>1. Init => AllInv /\ FreshInv /\ SumInv /\ DesertInv
  <2>1. Init => FreshInv /\ SumInv /\ DesertInv
    BY DEF Init, FreshInv, SumInv, DesertInv, Running
  <2> QED BY <2>1, AllInit
<1>2. AllInv /\ FreshInv /\ SumInv /\ DesertInv /\ [Next]_vars
         => (AllInv /\ FreshInv /\ SumInv /\ DesertInv)'
  BY AllNext, FreshNext, SumNext, DesertNext DEF AllInv
<1>3. AllInv /\ FreshInv /\ SumInv /\ DesertInv => SummaryAccounts
  <2> SUFFICES ASSUME AllInv, SumInv, DesertInv, proc = "tables"
               PROVE  /\ {u \in plan : outcome[u] = "none"} = deserted
                      /\ OkUnits \subseteq gs /\ folded = Cardinality(OkUnits)
    BY DEF SummaryAccounts, OkUnits
  <2>1. folder = "done" /\ \A u \in Units : u \in gs \/ Reported(u)
    BY DEF AllInv, PhaseInv
  <2>2. OkUnits \subseteq gs
    BY <2>1 DEF OkUnits, Reported, DesertInv, Running
  <2>3. CountInv /\ ToFold = {}
    BY <2>1 DEF SumInv
  <2>4. {u \in plan : outcome[u] = "none"} = deserted
    BY DEF SumInv, DesertInv, Running
  <2>5. OkUnits \ ToFold = OkUnits
    BY <2>3
  <2> QED BY <2>2, <2>3, <2>5, <2>4 DEF CountInv
<1> QED BY <1>1, <1>2, <1>3, PTL DEF Spec
-----------------------------------------------------------------------------
(***************************************************************************)
(* The names of a run's own CUs.  They are in memory from the moment a CU  *)
(* is counted as ok until the index is written, whatever happens to the    *)
(* log, and nothing touches the index afterwards but its removal.          *)
(***************************************************************************)
OwnNamesInv ==
    /\ proc # "threads" => AllGone
    /\ WantNames /\ proc \in {"threads", "tables", "names"} =>
           \A u \in OkUnits : RowsOf[u] \subseteq nameSet
    /\ WantNames /\ \/ proc \in {"cleanStore", "cleanDone", "cleanNames", "staging"}
                    \/ proc = "exited" /\ out = "built"
           => \A u \in OkUnits : RowsOf[u] \subseteq index

\* A worker has the names of a CU in memory before it counts the CU as ok.
LEMMA WorkerNames ==
    ASSUME ~ScanMayFail, TypeInv, OwnNamesInv, NEW w \in Workers, WorkerStep(w)
    PROVE  OwnNamesInv'
<1> USE DEF storeVars, doneVars, outVars, workVars, fileVars, foldVars, faultVars, mainVars
<1>a. /\ cur \in [Workers -> Units \cup {NoUnit}] /\ outcome \in [Units -> Outcome]
      /\ wpc[w] \in {"index", "scan", "send"} => cur[w] \in Units
  BY DEF TypeInv, TypeOK, InHand
<1>b. UNCHANGED <<proc, out, index>>
  BY DEF WorkerStep, Open, OpenFails, Take, TakeFails, Finish, Indexed, Scan, ScanFails, Send, SendFails
<1>c. proc = "threads"
  <2>1. wpc[w] # "gone"
    BY DEF WorkerStep, Open, OpenFails, Take, TakeFails, Finish, Indexed, Scan, ScanFails, Send, SendFails
  <2> QED BY <2>1 DEF OwnNamesInv, AllGone
<1>s. ASSUME UNCHANGED sinkVars, OkUnits' \subseteq OkUnits PROVE OwnNamesInv'
  BY <1>s, <1>b, <1>c DEF OwnNamesInv, sinkVars
<1>1. CASE Open(w) \/ OpenFails(w) \/ Take(w) \/ Finish(w) \/ Send(w) \/ SendFails(w)
  BY <1>1, <1>s DEF Open, OpenFails, Take, Finish, Send, SendFails, OkUnits
<1>2. CASE TakeFails(w)
  <2>1. OkUnits' \subseteq OkUnits
    BY <1>2, <1>a DEF TakeFails, OkUnits
  <2> QED BY <1>2, <2>1, <1>s DEF TakeFails
<1>3. ASSUME NEW result \in {"ok", "empty", "failed"}, Indexed(w, result) PROVE OwnNamesInv'
  <2>1. OkUnits' \subseteq OkUnits
    BY <1>3, <1>a DEF Indexed, Count, OkUnits
  <2> QED BY <1>3, <2>1, <1>s DEF Indexed
<1>4. CASE Scan(w)
  <2>1. cur[w] \in Units /\ OkUnits' = OkUnits \cup {cur[w]}
    BY <1>4, <1>a DEF Scan, Count, OkUnits
  <2>2. WantNames => nameSet' = nameSet \cup RowsOf[cur[w]]
    BY <1>4 DEF Scan, AddRows, AddBuffered, AddFlushing, AddFails
  <2> QED BY <2>1, <2>2, <1>b, <1>c DEF OwnNamesInv
<1>5. CASE ScanFails(w)
  BY <1>5 DEF ScanFails
<1> QED BY <1>1, <1>2, <1>3, <1>4, <1>5 DEF WorkerStep

\* Every step keeps the names of the CUs counted as ok.
LEMMA OwnNamesNext ==
    ASSUME ~ScanMayFail, TypeInv, OwnNamesInv, [Next]_vars PROVE OwnNamesInv'
<1> USE DEF storeVars, doneVars, outVars, workVars, fileVars, foldVars, faultVars, mainVars
<1>1. ASSUME NEW resume \in BOOLEAN, Start(resume) PROVE OwnNamesInv'
  <2>1. proc' = "threads" /\ OkUnits' = {}
    BY <1>1 DEF Start, OkUnits
  <2> QED BY <2>1 DEF OwnNamesInv
<1>2. CASE JoinOk \/ WriteTables \/ CleanStore \/ CleanDone \/ CleanNames
  BY <1>2 DEF JoinOk, WriteTables, CleanStore, CleanDone, CleanNames, AfterNames, OwnNamesInv, AllGone,
              RemoveNameLog, sinkVars, OkUnits
<1>3. CASE WriteNames
  BY <1>3 DEF WriteNames, AfterNames, IndexRows, OwnNamesInv, AllGone, OkUnits
<1>4. CASE JoinErr \/ WriteTablesFails \/ WriteNamesFails \/ Kill
  BY <1>4 DEF JoinErr, WriteTablesFails, WriteNamesFails, Kill, ThreadsEnd, OwnNamesInv, AllGone
<1>5. CASE Exit
  BY <1>5 DEF Exit, ThreadsEnd, OwnNamesInv, AllGone, OkUnits
<1>6. ASSUME NEW w \in Workers, WorkerStep(w) PROVE OwnNamesInv'
  BY <1>6, WorkerNames
<1>7. CASE FolderStep
  BY <1>7 DEF FolderStep, Receive, Disconnect, Fold, FoldFails, LogLine, LogFails, LogDone,
              OwnNamesInv, AllGone, sinkVars, OkUnits
<1>8. CASE RemoveOut
  BY <1>8 DEF RemoveOut, Running, OwnNamesInv, AllGone
<1>9. CASE RemoveStore \/ UNCHANGED vars
  BY <1>9 DEF RemoveStore, vars, OwnNamesInv, AllGone, sinkVars, OkUnits
<1> QED BY <1>1, <1>2, <1>3, <1>4, <1>5, <1>6, <1>7, <1>8, <1>9 DEF Next, MainStep

\* Beside the table of a run that succeeded the name index has the rows of
\* every CU that the run itself indexed, if no scan fails: for any number of
\* CUs, kills and reruns, and in whatever state the log of names was found.
THEOREM OwnNamesIndexed ==
    ASSUME ~ScanMayFail PROVE Spec => []NamesOfThisRun
<1>1. Init => TypeInv /\ OwnNamesInv
  <2>1. Init => OwnNamesInv
    BY DEF Init, OwnNamesInv, AllGone
  <2> QED BY <2>1, TypeInit
<1>2. TypeInv /\ OwnNamesInv /\ [Next]_vars => (TypeInv /\ OwnNamesInv)'
  BY TypeNext, OwnNamesNext
<1>3. OwnNamesInv => NamesOfThisRun
  BY DEF OwnNamesInv, NamesOfThisRun, OkUnits
<1> QED BY <1>1, <1>2, <1>3, PTL DEF Spec
-----------------------------------------------------------------------------
(***************************************************************************)
(* The names of all runs, as long as none is killed and no error of the    *)
(* log is dropped.  The log then has no torn tail but the one its writer   *)
(* goes on with, so what is in memory is in the log or in the buffer, and  *)
(* every exit flushes the buffer.                                          *)
(***************************************************************************)
SinkInv ==
    /\ nameTail = NoTail \/ tailOpen
    /\ tailOpen => nameBuf # {}
    /\ nameSet \subseteq nameLog \cup nameBuf
    /\ Garbage \notin nameSet \cup nameLog \cup nameBuf

SinkUsed == WantNames /\ proc \in {"threads", "tables", "names"}

UnkilledInv ==
    /\ SinkInv
    /\ ~SinkUsed => nameBuf = {}
    /\ WantNames => \A u \in gs : RowsOf[u] \subseteq IF SinkUsed THEN nameSet ELSE nameLog
    /\ index \subseteq Row
    /\ WantNames /\ proc = "names" => served \subseteq gs
    /\ WantNames /\ (proc = "staging" \/ (proc = "exited" /\ out = "built")) =>
           \A u \in served : RowsOf[u] \subseteq index

\* Rows that are added are in memory, and in the log or in the buffer.
LEMMA SinkAdds ==
    ASSUME SinkTypeOK, SinkInv, NEW rows \in SUBSET Row, AddRows(rows)
    PROVE  SinkInv' /\ nameSet' = nameSet \cup rows
<1>g. Garbage \notin Row
  BY GarbageAssumption
<1>1. CASE AddBuffered(rows)
  BY <1>1, <1>g DEF AddBuffered, SinkInv
<1>2. CASE AddFlushing(rows)
  <2>1. PICK cut \in SUBSET (rows \ nameSet) :
           LET rest == (rows \ nameSet) \ cut IN
           /\ rest # {} /\ nameSet' = nameSet \cup rows /\ nameBuf' = rest
           /\ nameBuf \cup cut # {} /\ Reach(nameBuf \cup cut, rest)
           /\ tailOpen' = Reopens(nameBuf \cup cut)
    BY <1>2 DEF AddFlushing
  <2>2. nameLog' = nameLog \cup nameBuf \cup cut
    BY <2>1 DEF Reach, Flushed, SinkInv
  <2>3. nameTail' = NoTail \/ tailOpen'
    BY <2>1 DEF Reopens
  <2> QED BY <2>1, <2>2, <2>3, <1>g DEF SinkInv
<1> QED BY <1>1, <1>2 DEF AddRows

\* A writer that is dropped leaves all that was in memory in the log.
LEMMA SinkCloses ==
    ASSUME SinkTypeOK, SinkInv, CloseSink
    PROVE  SinkInv' /\ nameBuf' = {} /\ nameSet \subseteq nameLog' /\ nameLog \subseteq nameLog'
<1>1. CASE nameBuf = {}
  BY <1>1 DEF CloseSink, Forget, SinkInv
<1>2. CASE nameBuf # {}
  <2>1. nameLog' = nameLog \cup nameBuf /\ nameTail' = NoTail
    BY <1>2 DEF CloseSink, Flushed, SinkInv
  <2> QED BY <2>1 DEF CloseSink, Forget, SinkInv
<1> QED BY <1>1, <1>2

\* A run that is not killed keeps the names of what is in the GraphStore,
\* unless an error of the log is dropped.
LEMMA UnkilledNext ==
    ASSUME KeepGraphstore, ~AllowRemoveStore, ~ScanMayFail,
           AllInv, SumInv, OwnNamesInv, UnkilledInv, Next, ~Kill, ~logBad'
    PROVE  UnkilledInv'
<1> USE DEF storeVars, doneVars, outVars, workVars, fileVars, foldVars, faultVars, mainVars
<1>a. /\ SinkTypeOK /\ RowsOf \in [Units -> SUBSET Row] /\ Garbage \notin Row
      /\ gs \in SUBSET Units /\ cur \in [Workers -> Units \cup {NoUnit}]
  BY DataAssumption, GarbageAssumption DEF AllInv, TypeInv, TypeOK
\* Neither the sink nor what is published changes.
<1>s. ASSUME UNCHANGED <<sinkVars, gs, index, served, proc>>, out' \in {out, "absent"} PROVE UnkilledInv'
  BY <1>s DEF UnkilledInv, SinkInv, SinkUsed, sinkVars
\* The process ends with an error.
<1>e. ASSUME CloseSink, proc' = "off", UNCHANGED gs, index' \in {index, {}},
             proc \in {"threads", "tables", "names"}
      PROVE  UnkilledInv'
  BY <1>e, <1>a, SinkCloses DEF UnkilledInv, SinkUsed
<1>1. ASSUME NEW resume \in BOOLEAN, Start(resume) PROVE UnkilledInv'
  <2>1. ~SinkUsed /\ proc' = "threads" /\ UNCHANGED <<gs, index, served, out>>
    BY <1>1 DEF Start, SinkUsed
  <2>2. nameBuf = {} /\ nameTail = NoTail
    BY <2>1 DEF UnkilledInv, SinkInv
  <2>3. ReadNames = nameLog
    BY <2>2 DEF ReadNames, TailReads, NoTail
  <2>4. CASE WantNames
    <3>1. nameSet' = nameLog /\ nameBuf' = {} /\ tailOpen' = FALSE /\ UNCHANGED <<nameLog, nameTail>>
      BY <1>1, <2>3, <2>4 DEF Start, OpenSink, OpenSinkFails, Preload
    <3> QED BY <2>1, <2>2, <2>4, <3>1 DEF UnkilledInv, SinkInv, SinkUsed
  <2>5. CASE ~WantNames
    <3>1. UNCHANGED sinkVars
      BY <1>1, <2>5 DEF Start
    <3> QED BY <3>1, <2>1, <2>5 DEF UnkilledInv, SinkInv, SinkUsed, sinkVars
  <2> QED BY <2>4, <2>5
<1>2. CASE JoinOk
  BY <1>2 DEF JoinOk, UnkilledInv, SinkInv, SinkUsed, sinkVars
<1>3. CASE WriteTables
  BY <1>3 DEF WriteTables, AfterNames, UnkilledInv, SinkInv, SinkUsed, sinkVars
<1>4. CASE WriteNames
  <2>1. /\ proc = "names" /\ index' = nameSet /\ CloseSink /\ proc' = "staging"
        /\ UNCHANGED <<gs, out, served>>
    BY <1>4 DEF WriteNames, IndexRows, AfterNames, CloseSinkFails
  <2>2. SinkInv' /\ nameBuf' = {} /\ nameSet \subseteq nameLog' /\ nameLog \subseteq nameLog'
    BY <2>1, <1>a, SinkCloses DEF UnkilledInv
  <2>3. nameSet \subseteq Row
    BY <1>a DEF SinkTypeOK, UnkilledInv, SinkInv
  <2> QED BY <2>1, <2>2, <2>3 DEF UnkilledInv, SinkUsed
<1>5. CASE JoinErr \/ WriteTablesFails \/ WriteNamesFails
  BY <1>5, <1>e DEF JoinErr, WriteTablesFails, WriteNamesFails, DropSink, CloseSinkFails
<1>6. CASE CleanStore \/ CleanDone \/ CleanNames
  BY <1>6 DEF CleanStore, CleanDone, CleanNames, AllInv, DoneInv
<1>7. CASE Exit
  BY <1>7 DEF Exit, UnkilledInv, SinkInv, SinkUsed, sinkVars
<1>8. ASSUME NEW w \in Workers, WorkerStep(w) PROVE UnkilledInv'
  <2>1. UNCHANGED <<gs, index, served, proc, out>>
    BY <1>8 DEF WorkerStep, Open, OpenFails, Take, TakeFails, Finish, Indexed, Scan, ScanFails, Send, SendFails
  <2>2. proc = "threads"
    <3>1. wpc[w] # "gone"
      BY <1>8 DEF WorkerStep, Open, OpenFails, Take, TakeFails, Finish, Indexed, Scan, ScanFails, Send, SendFails
    <3> QED BY <3>1 DEF OwnNamesInv, AllGone
  <2>3. CASE UNCHANGED sinkVars
    BY <2>1, <2>3, <1>s
  <2>4. CASE Scan(w) /\ WantNames
    <3>1. RowsOf[cur[w]] \in SUBSET Row /\ AddRows(RowsOf[cur[w]])
      BY <2>4, <1>a DEF Scan, AddFails, AllInv, TypeInv, InHand
    <3>2. SinkInv' /\ nameSet' = nameSet \cup RowsOf[cur[w]]
      BY <3>1, <1>a, SinkAdds DEF UnkilledInv
    <3> QED BY <2>1, <2>2, <2>4, <3>2 DEF UnkilledInv, SinkUsed
  <2> QED BY <1>8, <2>3, <2>4 DEF WorkerStep, Open, OpenFails, Take, TakeFails, Finish, Indexed, Scan,
                                   ScanFails, Send, SendFails
\* What is folded has been scanned.
<1>9. CASE FolderStep
  <2>1. UNCHANGED <<sinkVars, index, served, proc, out>>
    BY <1>9 DEF FolderStep, Receive, Disconnect, Fold, FoldFails, LogLine, LogFails, LogDone
  <2>2. CASE UNCHANGED gs
    BY <2>1, <2>2, <1>s
  <2>3. CASE Fold \/ FoldFails
    <3>1. gs' \subseteq gs \cup RangeOf(batch) /\ folder \notin {"done", "err"}
      BY <2>3 DEF Fold, FoldFails, PartOf, Fed
    <3>2. proc = "threads"
      BY <3>1 DEF AllInv, PhaseInv
    <3>3. RangeOf(batch) \subseteq OkUnits
      BY <3>1, <3>2 DEF SumInv, CountInv, ToFold
    <3>4. WantNames => \A u \in gs' : RowsOf[u] \subseteq nameSet
      BY <3>1, <3>2, <3>3 DEF UnkilledInv, SinkUsed, OwnNamesInv
    <3> QED BY <2>1, <3>2, <3>4 DEF UnkilledInv, SinkInv, SinkUsed, sinkVars
  <2> QED BY <1>9, <2>2, <2>3 DEF FolderStep, Receive, Disconnect, LogLine, LogFails, LogDone
<1>10. CASE RemoveOut
  <2>1. UNCHANGED <<sinkVars, gs, served, proc>> /\ index' \in {index, {}} /\ out' = "absent" /\ ~Running
    BY <1>10 DEF RemoveOut
  <2> QED BY <2>1 DEF UnkilledInv, SinkInv, SinkUsed, sinkVars, Running
<1>11. CASE RemoveStore
  BY <1>11 DEF RemoveStore
<1> QED
  BY <1>1, <1>2, <1>3, <1>4, <1>5, <1>6, <1>7, <1>8, <1>9, <1>10, <1>11 DEF Next, MainStep

\* No other step counts as a kill, and no step forgets that the log failed.
LEMMA OnlyKillsCount ==
    ASSUME [Next]_vars PROVE (~Kill => kills' = kills) /\ (logBad => logBad')
<1> USE DEF storeVars, doneVars, outVars, workVars, fileVars, foldVars, faultVars, mainVars
<1> USE DEF Fault, LogFault
<1>1. ASSUME NEW resume \in BOOLEAN, Start(resume) PROVE kills' = kills /\ (logBad => logBad')
  BY <1>1 DEF Start, OpenSink, OpenSinkFails, sinkVars
<1>2. ASSUME NEW w \in Workers, WorkerStep(w) PROVE kills' = kills /\ (logBad => logBad')
  <2>1. CASE Scan(w) \/ ScanFails(w)
    <3>1. UNCHANGED kills
      BY <2>1 DEF Scan, ScanFails
    <3>2. logBad => logBad'
      BY <2>1 DEF Scan, ScanFails, AddRows, AddBuffered, AddFlushing, AddFails, sinkVars
    <3> QED BY <3>1, <3>2
  <2>2. CASE ~(Scan(w) \/ ScanFails(w))
    BY <1>2, <2>2 DEF WorkerStep, Open, OpenFails, Take, TakeFails, Finish, Indexed, RemoveEntries, Send,
                      SendFails, sinkVars
  <2> QED BY <2>1, <2>2
<1>3. CASE FolderStep
  BY <1>3 DEF FolderStep, Receive, Disconnect, Fold, FoldFails, LogLine, LogFails, LogDone, RemoveEntries,
              sinkVars
<1>4. CASE JoinErr \/ WriteTablesFails \/ WriteNames \/ WriteNamesFails
  BY <1>4 DEF JoinErr, WriteTablesFails, WriteNames, WriteNamesFails, DropSink, CloseSink, CloseSinkFails
<1>5. CASE JoinOk \/ WriteTables \/ CleanStore \/ CleanDone \/ CleanNames \/ Exit
  <2>1. UNCHANGED kills
    BY <1>5 DEF JoinOk, WriteTables, CleanStore, CleanDone, CleanNames, Exit
  <2>2. UNCHANGED logBad
    BY <1>5 DEF JoinOk, WriteTables, CleanStore, CleanDone, CleanNames, Exit, RemoveNameLog, sinkVars
  <2> QED BY <2>1, <2>2
<1>6. CASE Kill
  BY <1>6 DEF Kill, KillSink
<1>7. CASE RemoveOut \/ RemoveStore \/ UNCHANGED vars
  BY <1>7 DEF RemoveOut, RemoveStore, vars, sinkVars
<1> QED BY <1>1, <1>2, <1>3, <1>4, <1>5, <1>6, <1>7 DEF Next, MainStep

\* Unless a run was killed or an error of the names log was dropped, the name
\* index beside the table of a run that succeeded has the rows of every CU the
\* table serves and no others, after any number of runs that failed otherwise:
\* their exits flush the log, and what is folded was scanned before.
THEOREM NamesAreKept ==
    ASSUME KeepGraphstore, ~AllowRemoveStore, ~ScanMayFail
    PROVE  Spec => []NamesUnlessLost
<1> DEFINE Inv == AllInv /\ FreshInv /\ SumInv /\ OwnNamesInv /\ (kills = 0 /\ ~logBad => UnkilledInv)
<1>1. Init => Inv
  <2> SUFFICES ASSUME Init PROVE Inv
    OBVIOUS
  <2>1. AllInv /\ FreshInv /\ SumInv /\ OwnNamesInv
    BY AllInit DEF Init, FreshInv, SumInv, Running, OwnNamesInv, AllGone
  <2>2. UnkilledInv
    BY DEF Init, SinkInit, UnkilledInv, SinkInv, SinkUsed
  <2> QED BY <2>1, <2>2
<1>2. Inv /\ [Next]_vars => Inv'
  <2> SUFFICES ASSUME Inv, [Next]_vars PROVE Inv'
    OBVIOUS
  <2>1. (AllInv /\ FreshInv /\ SumInv)'
    BY AllNext, FreshNext, SumNext DEF AllInv
  <2>2. OwnNamesInv'
    BY OwnNamesNext DEF AllInv
  <2>3. ASSUME kills' = 0, ~logBad' PROVE UnkilledInv'
    <3>1. kills \in Nat
      BY FlagAssumption DEF AllInv, TypeInv, TypeOK
    <3>2. ~Kill
      BY <2>3, <3>1 DEF Kill
    <3>3. kills = 0 /\ ~logBad
      BY <2>3, <3>2, OnlyKillsCount
    <3>4. CASE Next
      BY <2>3, <3>2, <3>3, <3>4, UnkilledNext
    <3>5. CASE UNCHANGED vars
      BY <3>3, <3>5 DEF vars, storeVars, outVars, sinkVars, UnkilledInv, SinkInv, SinkUsed
    <3> QED BY <3>4, <3>5
  <2> QED BY <2>1, <2>2, <2>3
<1>3. Inv => NamesUnlessLost
  BY DEF UnkilledInv, NamesUnlessLost, NamesComplete
<1> QED BY <1>1, <1>2, <1>3, PTL DEF Spec

-----------------------------------------------------------------------------
(***************************************************************************)
(* What follows from the contract alone, whatever implements it.           *)
(***************************************************************************)

\* Nothing a resumed run skips is missing from the GraphStore.
THEOREM ContractSkips == Contract!Spec => []Contract!SkipOnlyFolded
<1>1. Contract!Init => Contract!SkipOnlyFolded
  BY DEF Contract!Init, Contract!SkipOnlyFolded
<1>2. Contract!SkipOnlyFolded /\ [Contract!Next]_(Contract!vars) => Contract!SkipOnlyFolded'
  BY DEF Contract!SkipOnlyFolded, Contract!Next, Contract!vars, Contract!Begin, Contract!FoldMore,
         Contract!Record, Contract!Report, Contract!Publish, Contract!Withdraw
<1> QED BY <1>1, <1>2, PTL DEF Contract!Spec

\* Nothing that was not reported is missing from a published table, also
\* after later runs have begun, failed and been resumed.
THEOREM ContractPublishes == Contract!Spec => []Contract!PublishedComplete
<1>1. Contract!Init => Contract!PublishedComplete
  BY DEF Contract!Init, Contract!PublishedComplete
<1>2. Contract!PublishedComplete /\ [Contract!Next]_(Contract!vars) => Contract!PublishedComplete'
  BY DEF Contract!PublishedComplete, Contract!Next, Contract!vars, Contract!Begin, Contract!FoldMore,
         Contract!Record, Contract!Report, Contract!Publish, Contract!Withdraw
<1> QED BY <1>1, <1>2, PTL DEF Contract!Spec
=============================================================================
