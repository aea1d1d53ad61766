----------------------------- MODULE QueryProofs -----------------------------
(***************************************************************************)
(* The proofs about module QuerySession: the name index that is built has  *)
(* every row of the files that were scanned, a lookup finds all rows of a  *)
(* name in any index file, and a command prints what the backend says, all *)
(* of it or up to the limit.                                               *)
(*                                                                         *)
(* The name index and the printing commands have an inductive invariant    *)
(* each, NameInv and VerbInv.  What the call graph keeps is proved of      *)
(* WalkSpec in CallGraphProofs; that a session implements WalkSpec is      *)
(* proved here.                                                            *)
(***************************************************************************)
EXTENDS QuerySession, CallGraphProofs, ListProofs

-----------------------------------------------------------------------------
(***************************************************************************)
(* Rows in order.                                                          *)
(***************************************************************************)

\* Two rows are the same, or one is before the other, and never both.
LEMMA RowOrder ==
    ASSUME NEW a \in AnyRow, NEW b \in AnyRow
    PROVE  /\ a = b \/ Before(a, b) \/ Before(b, a)
           /\ ~(Before(a, b) /\ Before(b, a)) /\ ~Before(a, a)
           /\ Before(a, b) => a.name <= b.name
           /\ a.name \in Nat /\ a.name \in Names /\ a.ticket \in Tickets \cup {Torn}
<1>1. Names \subseteq Nat /\ Tickets \cup {Torn} \subseteq Nat
  BY NameAssumption DEF Tickets, Torn
<1>2. /\ a = [name |-> a.name, ticket |-> a.ticket] /\ b = [name |-> b.name, ticket |-> b.ticket]
      /\ a.name \in Names /\ b.name \in Names
      /\ a.ticket \in Tickets \cup {Torn} /\ b.ticket \in Tickets \cup {Torn}
  BY DEF AnyRow
<1>3. /\ a.name \in Nat /\ b.name \in Nat /\ a.ticket \in Nat /\ b.ticket \in Nat
  BY <1>1, <1>2
<1>4. QED
  BY <1>2, <1>3 DEF Before

\* Before is transitive.
LEMMA RowOrderTransitive ==
    ASSUME NEW a \in AnyRow, NEW b \in AnyRow, NEW c \in AnyRow, Before(a, b), Before(b, c)
    PROVE  Before(a, c)
<1>1. Names \subseteq Nat /\ Tickets \cup {Torn} \subseteq Nat
  BY NameAssumption DEF Tickets, Torn
<1>2. /\ a.name \in Nat /\ b.name \in Nat /\ a.ticket \in Nat /\ b.ticket \in Nat
      /\ c.name \in Nat /\ c.ticket \in Nat
  BY <1>1 DEF AnyRow
<1>3. QED
  BY <1>2 DEF Before

\* Ranks are places of the sorted rows, and no two rows have the same.
LEMMA RankIsPlace ==
    ASSUME NEW s \in Seq(AnyRow), NEW i \in 1 .. Len(s)
    PROVE  Rank(s, i) \in 1 .. Len(s)
<1> DEFINE T == {j \in 1 .. Len(s) : Before(s[j], s[i]) \/ (s[j] = s[i] /\ j <= i)}
<1>1. IsFiniteSet(1 .. Len(s)) /\ Cardinality(1 .. Len(s)) = Len(s)
  <2>1. Len(s) \in Nat
    OBVIOUS
  <2>2. QED
    BY <2>1, UpTo
<1>2. i \in T /\ T \subseteq 1 .. Len(s)
  OBVIOUS
<1> HIDE DEF T
<1>3. IsFiniteSet(T) /\ Cardinality(T) <= Len(s)
  BY <1>1, <1>2, FS_Subset
<1>4. Cardinality(T) \in Nat /\ Cardinality(T) # 0
  BY <1>2, <1>3, FS_CardinalityType, FS_EmptySet
<1>5. Cardinality(T) \in 1 .. Len(s)
  BY <1>3, <1>4
<1>6. QED
  BY <1>5 DEF Rank, T

\* Row i stands before row j: its rank is smaller.
LEMMA RankGrows ==
    ASSUME NEW s \in Seq(AnyRow), NEW i \in 1 .. Len(s), NEW j \in 1 .. Len(s),
           Before(s[i], s[j]) \/ (s[i] = s[j] /\ i < j)
    PROVE  Rank(s, i) < Rank(s, j)
<1> DEFINE T(k) == {l \in 1 .. Len(s) : Before(s[l], s[k]) \/ (s[l] = s[k] /\ l <= k)}
<1>1. IsFiniteSet(1 .. Len(s))
  <2>1. Len(s) \in Nat
    OBVIOUS
  <2>2. QED
    BY <2>1, UpTo
<1>2. s[i] \in AnyRow /\ s[j] \in AnyRow
  OBVIOUS
<1>3. j \in T(j) /\ j \notin T(i)
  BY <1>2, RowOrder
<1>4. ASSUME NEW l \in T(i) PROVE l \in T(j)
  <2>1. l \in 1 .. Len(s) /\ s[l] \in AnyRow
    OBVIOUS
  <2>2. CASE Before(s[l], s[i])
    BY <1>2, <2>1, <2>2, RowOrderTransitive
  <2>3. CASE s[l] = s[i] /\ l <= i
    BY <2>1, <2>3
  <2>4. QED
    BY <2>2, <2>3
<1>5. T(i) \subseteq T(j) \ {j} /\ T(j) \subseteq 1 .. Len(s)
  BY <1>3, <1>4
<1>6. Rank(s, i) = Cardinality(T(i)) /\ Rank(s, j) = Cardinality(T(j))
  BY DEF Rank
<1> HIDE DEF T
<1>7. IsFiniteSet(T(j)) /\ IsFiniteSet(T(j) \ {j})
  BY <1>1, <1>5, FS_Subset
<1>8. Cardinality(T(j) \ {j}) = Cardinality(T(j)) - 1
  BY <1>3, <1>7, FS_RemoveElement
<1>9. Cardinality(T(i)) <= Cardinality(T(j) \ {j})
  BY <1>5, <1>7, FS_Subset
<1>10. IsFiniteSet(T(i)) /\ Cardinality(T(i)) \in Nat /\ Cardinality(T(j)) \in Nat
  BY <1>5, <1>7, FS_Subset, FS_CardinalityType
<1>11. QED
  BY <1>6, <1>8, <1>9, <1>10

InNameOrder(s) == \A i, j \in 1 .. Len(s) : i <= j => s[i].name <= s[j].name

\* Sorted rows are the same rows, in the order of their names.
LEMMA SortedIsOrder ==
    ASSUME NEW s \in Seq(AnyRow)
    PROVE  /\ Sorted(s) \in Seq(AnyRow) /\ Len(Sorted(s)) = Len(s)
           /\ Range(Sorted(s)) = Range(s)
           /\ InNameOrder(Sorted(s))
<1> DEFINE n == Len(s)
           rank == [i \in 1 .. n |-> Rank(s, i)]
           at == [k \in 1 .. n |-> CHOOSE i \in 1 .. n : Rank(s, i) = k]
<1>0. n \in Nat /\ s \in [1 .. n -> AnyRow]
  OBVIOUS
<1>1. rank \in [1 .. n -> 1 .. n]
  BY RankIsPlace
<1>2. ASSUME NEW i \in 1 .. n, NEW j \in 1 .. n, i # j PROVE rank[i] # rank[j]
  <2>1. s[i] \in AnyRow /\ s[j] \in AnyRow /\ (i < j \/ j < i)
    BY <1>0, <1>2
  <2>2. \/ Before(s[i], s[j]) \/ (s[i] = s[j] /\ i < j)
        \/ Before(s[j], s[i]) \/ (s[j] = s[i] /\ j < i)
    BY <2>1, RowOrder
  <2>3. Rank(s, i) < Rank(s, j) \/ Rank(s, j) < Rank(s, i)
    BY <2>2, RankGrows
  <2>4. Rank(s, i) \in Nat /\ Rank(s, j) \in Nat
    BY <1>0, RankIsPlace
  <2>5. QED
    BY <2>3, <2>4
<1>3. \A k \in 1 .. n : \E i \in 1 .. n : rank[i] = k
  <2>1. \A i, j \in 1 .. n : rank[i] = rank[j] => i = j
    BY <1>2
  <2> HIDE DEF rank, n
  <2>2. QED
    BY <1>0, <1>1, <2>1, RenumberingOnto
<1>4. \A k \in 1 .. n : at[k] \in 1 .. n /\ Rank(s, at[k]) = k
  BY <1>3
<1>5. \A i \in 1 .. n : Rank(s, i) \in 1 .. n /\ at[Rank(s, i)] = i
  BY <1>1, <1>2, <1>4
<1>6. Sorted(s) = [k \in 1 .. n |-> s[at[k]]]
  BY DEF Sorted
<1> HIDE DEF n, rank, at
<1>7. Sorted(s) \in [1 .. n -> AnyRow]
  BY <1>0, <1>4, <1>6
<1>8. Sorted(s) \in Seq(AnyRow) /\ Len(Sorted(s)) = n
  BY <1>0, <1>7
<1>9. Range(Sorted(s)) = Range(s)
  <2>1. DOMAIN Sorted(s) = 1 .. n /\ DOMAIN s = 1 .. n /\ \A k \in 1 .. n : Sorted(s)[k] = s[at[k]]
    BY <1>0, <1>6
  <2>2. ASSUME NEW i \in 1 .. n PROVE \E k \in 1 .. n : Sorted(s)[k] = s[i]
    BY <1>5, <2>1
  <2>3. QED
    BY <1>4, <2>1, <2>2 DEF Range
<1>10. ASSUME NEW k \in 1 .. n, NEW l \in 1 .. n, k <= l
       PROVE  Sorted(s)[k].name <= Sorted(s)[l].name
  <2>1. at[k] \in 1 .. n /\ at[l] \in 1 .. n /\ Rank(s, at[k]) = k /\ Rank(s, at[l]) = l
    BY <1>4
  <2>2. s[at[k]] \in AnyRow /\ s[at[l]] \in AnyRow
    BY <1>0, <2>1
  <2>3. ~Before(s[at[l]], s[at[k]])
    <3>1. ASSUME Before(s[at[l]], s[at[k]]) PROVE FALSE
      <4>1. Rank(s, at[l]) < Rank(s, at[k])
        BY <2>1, <3>1, RankGrows DEF n
      <4>2. QED
        BY <1>0, <1>10, <2>1, <4>1
    <3>2. QED
      BY <3>1
  <2>4. s[at[k]].name <= s[at[l]].name
    BY <2>2, <2>3, RowOrder
  <2>5. QED
    BY <1>6, <2>4
<1>11. QED
  BY <1>8, <1>9, <1>10 DEF InNameOrder, n

\* If no window of two is out of order, no two rows are.
LEMMA WindowsSuffice ==
    ASSUME NEW s \in Seq(AnyRow), IsSortedRows(s)
    PROVE  InNameOrder(s)
<1>1. ASSUME NEW i \in 1 .. Len(s), NEW j \in 1 .. Len(s), i <= j, ~(s[i].name <= s[j].name)
      PROVE  FALSE
  <2> DEFINE T == {k \in i .. Len(s) : ~(s[i].name <= s[k].name)}
  <2>1. T \subseteq Nat /\ T # {}
    BY <1>1
  <2>2. PICK k \in T : \A m \in T : k <= m
    BY <2>1, LeastNatural
  <2>3. s[i] \in AnyRow /\ s[k] \in AnyRow
    OBVIOUS
  <2>4. k # i
    BY <2>3, RowOrder
  <2>5. k - 1 \in i .. Len(s) /\ k - 1 \in 1 .. Len(s) - 1 /\ (k - 1) + 1 = k /\ k - 1 \notin T
    BY <2>2, <2>4
  <2>6. s[i].name <= s[k - 1].name /\ s[k - 1] \in AnyRow
    BY <2>5
  <2>7. s[k - 1] = s[k] \/ Before(s[k - 1], s[k])
    BY <2>5 DEF IsSortedRows
  <2>8. s[k - 1].name <= s[k].name
    BY <2>3, <2>6, <2>7, RowOrder
  <2>9. s[i].name <= s[k].name
    BY <2>3, <2>6, <2>8, RowOrder
  <2>10. QED
    BY <2>9
<1>2. QED
  BY <1>1 DEF InNameOrder

\* What is loaded is what is in the file, in the order of the names.
LEMMA LoadedRows ==
    ASSUME NEW s \in Seq(AnyRow)
    PROVE  /\ SortedRows(s) \in Seq(AnyRow)
           /\ Range(SortedRows(s)) = Range(s) /\ InNameOrder(SortedRows(s))
BY SortedIsOrder, WindowsSuffice DEF SortedRows

FileRows == [name : Names, ticket : Tickets]

\* A set is written row by row.
LEMMA InOrderLists ==
    ASSUME NEW S \in SUBSET AnyRow, IsFiniteSet(S)
    PROVE  /\ InOrder(S) \in Seq(AnyRow) /\ Len(InOrder(S)) = Cardinality(S)
           /\ Range(InOrder(S)) = S
<1> DEFINE q == SetToSeq(S)
           n == Cardinality(S)
<1>1. n \in Nat /\ q \in [1 .. n -> S] /\ \A x \in S : \E i \in 1 .. n : q[i] = x
  BY SetToSeqLists
<1> HIDE DEF q, n
<1>2. q \in Seq(AnyRow) /\ Len(q) = n
  BY <1>1
<1>3. Range(q) = S
  BY <1>1 DEF Range
<1>4. QED
  BY <1>2, <1>3, SortedIsOrder DEF InOrder, q, n

-----------------------------------------------------------------------------
(***************************************************************************)
(* The scanners, the index file and the loaded rows.                       *)
(***************************************************************************)
NameTypeInv ==
    /\ buildPc \in {"scan", "written", "failed"}
    /\ next \in [Scanners -> Nat]
    /\ local \in [Scanners -> SUBSET FileRows] /\ \A w \in Scanners : IsFiniteSet(local[w])
    /\ merged \in SUBSET FileRows /\ IsFiniteSet(merged)
    /\ through \in SUBSET Scanners /\ wholly \in SUBSET Files
    /\ idx \in Seq(AnyRow) /\ rows \in Seq(AnyRow)
    /\ loaded \in BOOLEAN /\ scanFaults \in Nat

\* A scanner takes the files of its own stride, and is through at the end.
StrideInv ==
    /\ \A w \in Scanners : next[w] \in Nat \ {0} /\ next[w] % ScanWorkers = w % ScanWorkers
    /\ \A w \in through : next[w] > NumFiles
    /\ buildPc # "scan" => through = Scanners

\* The rows of a file that was scanned are still with its scanner, or merged.
FoundInv ==
    buildPc = "scan" =>
        \A f \in wholly : \A r \in RowsIn[f] :
            r \in merged \/ \E w \in Scanners \ through : r \in local[w]

\* Files that a scanner has passed without having them whole.
PassedOver ==
    {f \in Files \ wholly : \E w \in Scanners : f % ScanWorkers = w % ScanWorkers /\ f < next[w]}

MissedInv == Cardinality(PassedOver) <= scanFaults

LoadedInv ==
    loaded => buildPc # "scan" /\ Range(rows) = Range(idx) /\ InNameOrder(rows)

NameInv ==
    /\ NameTypeInv /\ StrideInv /\ FoundInv /\ MissedInv /\ LoadedInv
    /\ buildPc = "written" => \A f \in wholly : RowsIn[f] \subseteq Range(idx)

\* Files are numbers, in finite number, and their rows are rows of the index.
LEMMA FilesAre ==
    /\ Files \subseteq Nat /\ IsFiniteSet(Files) /\ Scanners \subseteq Nat /\ ScanWorkers \in Nat \ {0}
    /\ \A f \in Files : RowsIn[f] \in SUBSET FileRows /\ IsFiniteSet(RowsIn[f])
    /\ FileRows \subseteq AnyRow
<1>1. NumFiles \in Nat /\ ScanWorkers \in Nat \ {0}
  BY NameAssumption
<1>2. IsFiniteSet(Files)
  BY <1>1, UpTo DEF Files
<1>3. \A f \in Files : RowsIn[f] \in SUBSET FileRows /\ IsFiniteSet(RowsIn[f])
  BY NameAssumption DEF FileRows
<1>4. FileRows \subseteq AnyRow
  BY DEF FileRows, AnyRow
<1>5. QED
  BY <1>1, <1>2, <1>3, <1>4 DEF Files, Scanners

\* The index and its scanners begin empty.
LEMMA NameInvInit == ASSUME NameInit PROVE NameInv
<1>1. IsFiniteSet({}) /\ Cardinality({}) = 0
  BY FS_EmptySet
<1>2. NameTypeInv
  <2>1. next \in [Scanners -> Nat]
    BY FilesAre DEF NameInit
  <2>2. local \in [Scanners -> SUBSET FileRows] /\ \A w \in Scanners : local[w] = {}
    BY DEF NameInit
  <2>3. <<>> \in Seq(AnyRow)
    OBVIOUS
  <2>4. QED
    BY <1>1, <2>1, <2>2, <2>3 DEF NameInit, NameTypeInv
<1>3. StrideInv
  BY FilesAre DEF NameInit, StrideInv, Scanners
<1>4. PassedOver = {}
  <2>1. ASSUME NEW f \in Files, NEW w \in Scanners, f % ScanWorkers = w % ScanWorkers, f < next[w]
        PROVE  FALSE
    <3>1. f \in Nat /\ w \in Nat /\ f >= 1 /\ w <= ScanWorkers /\ f < w
      BY <2>1, FilesAre DEF NameInit, Files, Scanners
    <3>2. f + ScanWorkers <= w
      BY <2>1, <3>1, FilesAre, StrideGap
    <3>3. QED
      BY <3>1, <3>2, FilesAre
  <2>2. QED
    BY <2>1 DEF PassedOver
<1>5. FoundInv /\ LoadedInv /\ MissedInv
  BY <1>1, <1>4 DEF NameInit, FoundInv, LoadedInv, MissedInv
<1>6. QED
  BY <1>2, <1>3, <1>5 DEF NameInv, NameInit

\* The next file of a scanner is no other's: what is passed with it is that file.
LEMMA AdvancePasses ==
    ASSUME NameTypeInv, StrideInv, NEW w \in Scanners, next[w] <= NumFiles, Advance(w),
           wholly \subseteq wholly'
    PROVE  /\ next[w] \in Files
           /\ next' \in [Scanners -> Nat]
           /\ \A v \in Scanners : next'[v] \in Nat \ {0} /\ next'[v] % ScanWorkers = v % ScanWorkers
                                 /\ next[v] <= next'[v]
           /\ PassedOver' \subseteq PassedOver \cup ({next[w]} \ wholly')
<1>1. /\ next \in [Scanners -> Nat] /\ next[w] \in Nat \ {0} /\ ScanWorkers \in Nat \ {0}
      /\ NumFiles \in Nat
  BY FilesAre, NameAssumption DEF NameTypeInv, StrideInv
<1>2. next[w] \in Files
  BY <1>1 DEF Files
<1>3. /\ next' \in [Scanners -> Nat] /\ next'[w] = next[w] + ScanWorkers
      /\ \A v \in Scanners : v # w => next'[v] = next[v]
  BY <1>1 DEF Advance
<1>4. next'[w] % ScanWorkers = w % ScanWorkers
  BY <1>1, <1>3, StrideStep DEF StrideInv
<1>5. ASSUME NEW v \in Scanners
      PROVE  next'[v] \in Nat \ {0} /\ next'[v] % ScanWorkers = v % ScanWorkers /\ next[v] <= next'[v]
  <2>1. CASE v = w
    BY <1>1, <1>3, <1>4, <2>1
  <2>2. CASE v # w
    <3>1. next'[v] = next[v] /\ next[v] \in Nat \ {0} /\ next[v] % ScanWorkers = v % ScanWorkers
      BY <1>3, <2>2 DEF StrideInv
    <3>2. QED
      BY <3>1
  <2>3. QED
    BY <2>1, <2>2
<1>6. ASSUME NEW f \in PassedOver', f \notin PassedOver
      PROVE  f = next[w] /\ f \notin wholly'
  <2>1. f \in Files /\ f \notin wholly' /\ f \notin wholly /\ f \in Nat
    BY FilesAre DEF PassedOver
  <2>2. PICK v \in Scanners : f % ScanWorkers = v % ScanWorkers /\ f < next'[v]
    BY DEF PassedOver
  <2>3. ~(f < next[v])
    BY <1>6, <2>1, <2>2 DEF PassedOver
  <2>4. v = w
    BY <1>3, <2>2, <2>3
  <2>5. f % ScanWorkers = next[w] % ScanWorkers
    BY <2>2, <2>4 DEF StrideInv
  <2>6. f < next[w] + ScanWorkers /\ ~(f < next[w])
    BY <1>3, <2>2, <2>3, <2>4
  <2>7. ~(next[w] < f)
    <3>1. ASSUME next[w] < f PROVE FALSE
      <4>1. next[w] + ScanWorkers <= f
        BY <1>1, <2>1, <2>5, <3>1, StrideGap
      <4>2. QED
        BY <1>1, <2>1, <2>6, <4>1
    <3>2. QED
      BY <3>1
  <2>8. QED
    BY <1>1, <2>1, <2>6, <2>7
<1>7. QED
  BY <1>2, <1>3, <1>5, <1>6

\* A file has a scanner, and when all are through every file was passed.
LEMMA AllPassed ==
    ASSUME NameTypeInv, StrideInv, through = Scanners
    PROVE  PassedOver = Files \ wholly
<1>1. ASSUME NEW f \in Files PROVE \E w \in Scanners : f % ScanWorkers = w % ScanWorkers /\ f < next[w]
  <2>1. f \in Nat /\ ScanWorkers \in Nat \ {0} /\ f <= NumFiles /\ NumFiles \in Nat
    BY FilesAre, NameAssumption DEF Files
  <2>2. f % ScanWorkers \in 0 .. ScanWorkers - 1
    BY <2>1, Euclid
  <2>3. \E w \in Scanners : w % ScanWorkers = f % ScanWorkers
    <3>1. CASE f % ScanWorkers = 0
      <4>1. (0 + ScanWorkers) % ScanWorkers = 0 % ScanWorkers /\ 0 % ScanWorkers = 0
        BY <2>1, StrideStep, StrideStart
      <4>2. ScanWorkers \in Scanners /\ 0 + ScanWorkers = ScanWorkers
        BY <2>1 DEF Scanners
      <4>3. QED
        BY <3>1, <4>1, <4>2
    <3>2. CASE f % ScanWorkers # 0
      <4>1. f % ScanWorkers \in Scanners
        BY <2>1, <2>2, <3>2 DEF Scanners
      <4>2. (f % ScanWorkers) % ScanWorkers = f % ScanWorkers
        BY <2>1, <2>2, StrideStart
      <4>3. QED
        BY <4>1, <4>2
    <3>3. QED
      BY <3>1, <3>2
  <2>4. PICK w \in Scanners : w % ScanWorkers = f % ScanWorkers
    BY <2>3
  <2>5. next[w] \in Nat /\ next[w] > NumFiles
    BY DEF NameTypeInv, StrideInv
  <2>6. f < next[w]
    BY <2>1, <2>5
  <2>7. QED
    BY <2>4, <2>6
<1>2. QED
  BY <1>1 DEF PassedOver

\* A file more is scanned, or passed over with a failure.
LEMMA ScanKeeps ==
    ASSUME NameInv, NEW w \in Scanners, ScanFile(w) \/ ScanCut(w) PROVE NameInv'
<1>1. /\ buildPc = "scan" /\ w \notin through /\ next[w] <= NumFiles /\ Advance(w)
      /\ wholly \subseteq wholly' /\ wholly' \subseteq wholly \cup {next[w]}
      /\ UNCHANGED <<buildPc, merged, through, idx, rows, loaded>>
  BY DEF ScanFile, ScanCut, CanScan
<1>2. /\ next[w] \in Files /\ next' \in [Scanners -> Nat]
      /\ \A v \in Scanners : next'[v] \in Nat \ {0} /\ next'[v] % ScanWorkers = v % ScanWorkers
                            /\ next[v] <= next'[v]
      /\ PassedOver' \subseteq PassedOver \cup ({next[w]} \ wholly')
  BY <1>1, AdvancePasses DEF NameInv
<1>3. RowsIn[next[w]] \in SUBSET FileRows /\ IsFiniteSet(RowsIn[next[w]])
  BY <1>2, FilesAre
<1>4. PICK found \in SUBSET RowsIn[next[w]] :
         /\ local' = [local EXCEPT ![w] = @ \cup found]
         /\ next[w] \in wholly' \ wholly => found = RowsIn[next[w]]
  BY DEF ScanFile, ScanCut
<1>5. IsFiniteSet(found) /\ found \in SUBSET FileRows
  BY <1>3, FS_Subset
<1>6. /\ local' \in [Scanners -> SUBSET FileRows]
      /\ local'[w] = local[w] \cup found
      /\ \A v \in Scanners : v # w => local'[v] = local[v]
  BY <1>4, <1>5 DEF NameInv, NameTypeInv
<1>7. \A v \in Scanners : IsFiniteSet(local'[v])
  <2>1. IsFiniteSet(local[w] \cup found)
    BY <1>5, FS_Union DEF NameInv, NameTypeInv
  <2>2. QED
    BY <1>6, <2>1 DEF NameInv, NameTypeInv
<1>8. scanFaults' \in Nat /\ (scanFaults' = scanFaults \/ scanFaults' = scanFaults + 1)
      /\ (scanFaults' = scanFaults => wholly' = wholly \cup {next[w]})
  BY DEF NameInv, NameTypeInv, ScanFile, ScanCut, ScanFault
<1>9. NameTypeInv'
  BY <1>1, <1>2, <1>6, <1>7, <1>8 DEF NameInv, NameTypeInv
<1>10. StrideInv'
  <2>1. ASSUME NEW v \in through PROVE next'[v] > NumFiles
    <3>1. v \in Scanners /\ next[v] > NumFiles /\ next[v] \in Nat /\ NumFiles \in Nat
      BY NameAssumption DEF NameInv, NameTypeInv, StrideInv
    <3>2. next'[v] \in Nat /\ next[v] <= next'[v]
      BY <1>2, <3>1
    <3>3. QED
      BY <3>1, <3>2
  <2>2. QED
    BY <1>1, <1>2, <2>1 DEF NameInv, StrideInv
<1>11. FoundInv'
  <2>1. ASSUME NEW f \in wholly', NEW r \in RowsIn[f]
        PROVE  r \in merged \/ \E v \in Scanners \ through : r \in local'[v]
    <3>1. CASE f \in wholly
      <4>1. r \in merged \/ \E v \in Scanners \ through : r \in local[v]
        BY <1>1, <3>1 DEF NameInv, FoundInv
      <4>2. QED
        BY <1>6, <4>1
    <3>2. CASE f \notin wholly
      BY <1>1, <1>4, <1>6, <3>2
    <3>3. QED
      BY <3>1, <3>2
  <2>2. QED
    BY <1>1, <2>1 DEF FoundInv
<1>12. MissedInv'
  <2>1. IsFiniteSet(PassedOver) /\ Cardinality(PassedOver) \in Nat
    BY FilesAre, FS_Subset, FS_CardinalityType DEF PassedOver
  <2>2. IsFiniteSet(PassedOver') /\ Cardinality(PassedOver') \in Nat
    <3>1. PassedOver' \in SUBSET Files
      BY DEF PassedOver
    <3>2. QED
      BY <3>1, FilesAre, FS_Subset, FS_CardinalityType
  <2>3. CASE scanFaults' = scanFaults
    <3>1. PassedOver' \subseteq PassedOver
      BY <1>2, <1>8, <2>3
    <3>2. Cardinality(PassedOver') <= Cardinality(PassedOver)
      BY <2>1, <3>1, FS_Subset
    <3>3. QED
      BY <1>8, <2>1, <2>2, <2>3, <3>2 DEF NameInv, MissedInv
  <2>4. CASE scanFaults' = scanFaults + 1
    <3>1. IsFiniteSet(PassedOver \cup {next[w]}) /\ Cardinality(PassedOver \cup {next[w]}) \in Nat
          /\ Cardinality(PassedOver \cup {next[w]}) <= Cardinality(PassedOver) + 1
      <4>1. IsFiniteSet(PassedOver \cup {next[w]})
            /\ Cardinality(PassedOver \cup {next[w]}) =
                  IF next[w] \in PassedOver THEN Cardinality(PassedOver) ELSE Cardinality(PassedOver) + 1
        BY <2>1, FS_AddElement
      <4>2. QED
        BY <2>1, <4>1
    <3>2. PassedOver' \subseteq PassedOver \cup {next[w]}
      BY <1>2
    <3>3. Cardinality(PassedOver') <= Cardinality(PassedOver \cup {next[w]})
      BY <3>1, <3>2, FS_Subset
    <3>4. scanFaults \in Nat /\ Cardinality(PassedOver) <= scanFaults
      BY DEF NameInv, NameTypeInv, MissedInv
    <3>5. Cardinality(PassedOver') <= scanFaults + 1
      BY <2>1, <2>2, <3>1, <3>3, <3>4
    <3>6. QED
      BY <2>4, <3>5 DEF MissedInv
  <2>5. QED
    BY <1>8, <2>3, <2>4
<1>13. ~loaded
  BY <1>1 DEF NameInv, LoadedInv, NameTypeInv
<1>14. QED
  BY <1>1, <1>9, <1>10, <1>11, <1>12, <1>13 DEF NameInv, LoadedInv

\* A scanner adds what it has found.
LEMMA MergeKeeps ==
    ASSUME NameInv, NEW w \in Scanners, MergeLocal(w) PROVE NameInv'
<1>1. /\ buildPc = "scan" /\ w \notin through /\ next[w] > NumFiles
      /\ merged' = merged \cup local[w] /\ through' = through \cup {w}
      /\ UNCHANGED <<buildPc, next, local, wholly, idx, rows, loaded, scanFaults>>
  BY DEF MergeLocal
<1>2. IsFiniteSet(merged \cup local[w])
  BY FS_Union DEF NameInv, NameTypeInv
<1>3. NameTypeInv'
  BY <1>1, <1>2 DEF NameInv, NameTypeInv
<1>4. StrideInv'
  BY <1>1 DEF NameInv, StrideInv
<1>5. FoundInv'
  <2>1. ASSUME NEW f \in wholly, NEW r \in RowsIn[f]
        PROVE  r \in merged' \/ \E v \in Scanners \ through' : r \in local[v]
    <3>1. r \in merged \/ \E v \in Scanners \ through : r \in local[v]
      BY <1>1 DEF NameInv, FoundInv
    <3>2. QED
      BY <1>1, <3>1
  <2>2. QED
    BY <1>1, <2>1 DEF FoundInv
<1>6. PassedOver' = PassedOver
  BY <1>1 DEF PassedOver
<1>7. QED
  BY <1>1, <1>3, <1>4, <1>5, <1>6 DEF NameInv, MissedInv, LoadedInv

\* The index is written, or a part of it.
LEMMA WriteKeeps ==
    ASSUME NameInv, WriteIndex \/ WriteIndexFails PROVE NameInv'
<1>1. /\ buildPc = "scan" /\ through = Scanners
      /\ local' = [w \in Scanners |-> {}] /\ merged' = {}
      /\ buildPc' \in {"written", "failed"}
      /\ UNCHANGED <<next, through, wholly, rows, loaded>>
  BY DEF WriteIndex, WriteIndexFails
<1>2. /\ InOrder(merged) \in Seq(AnyRow) /\ Len(InOrder(merged)) = Cardinality(merged)
      /\ Range(InOrder(merged)) = merged
  BY FilesAre, InOrderLists DEF NameInv, NameTypeInv
<1>3. scanFaults' \in Nat /\ scanFaults <= scanFaults'
  BY DEF NameInv, NameTypeInv, WriteIndex, WriteIndexFails, ScanFault
<1>4. idx' \in Seq(AnyRow)
  <2>1. CASE WriteIndex
    BY <1>2, <2>1 DEF WriteIndex
  <2>2. CASE WriteIndexFails
    <3>1. PICK k \in 0 .. Cardinality(merged) :
             LET kept == SubSeq(InOrder(merged), 1, k) IN
             idx' \in {kept} \cup (IF k < Cardinality(merged)
                                   THEN {Append(kept, Row(InOrder(merged)[k + 1].name, Torn))} ELSE {})
      BY <2>2 DEF WriteIndexFails
    <3> DEFINE q == InOrder(merged)
    <3>2. q \in Seq(AnyRow) /\ Len(q) = Cardinality(merged) /\ k \in 0 .. Len(q)
      BY <1>2
    <3>3. SubSeq(q, 1, k) \in Seq(AnyRow)
      BY <3>2
    <3>4. k < Len(q) => Row(q[k + 1].name, Torn) \in AnyRow
      <4>1. k < Len(q) => q[k + 1] \in AnyRow
        BY <3>2
      <4>2. QED
        BY <4>1 DEF Row, AnyRow
    <3>5. QED
      BY <3>1, <3>2, <3>3, <3>4
  <2>3. QED
    BY <2>1, <2>2
<1>5. IsFiniteSet({})
  BY FS_EmptySet
<1>6. NameTypeInv'
  <2>1. local' \in [Scanners -> SUBSET FileRows] /\ \A w \in Scanners : IsFiniteSet(local'[w])
    BY <1>1, <1>5
  <2>2. QED
    BY <1>1, <1>3, <1>4, <1>5, <2>1 DEF NameInv, NameTypeInv
<1>7. StrideInv' /\ FoundInv'
  BY <1>1 DEF NameInv, StrideInv, FoundInv
<1>8. MissedInv'
  <2>1. PassedOver' = PassedOver
    BY <1>1 DEF PassedOver
  <2>2. Cardinality(PassedOver) \in Nat /\ Cardinality(PassedOver) <= scanFaults /\ scanFaults \in Nat
    BY FilesAre, FS_Subset, FS_CardinalityType DEF PassedOver, NameInv, NameTypeInv, MissedInv
  <2>3. QED
    BY <1>3, <2>1, <2>2 DEF MissedInv
<1>9. ~loaded
  BY <1>1 DEF NameInv, LoadedInv, NameTypeInv
<1>10. buildPc' = "written" => \A f \in wholly : RowsIn[f] \subseteq Range(idx')
  <2>1. CASE WriteIndex
    <3>1. \A f \in wholly : RowsIn[f] \subseteq merged
      BY <1>1 DEF NameInv, FoundInv
    <3>2. Range(idx') = merged
      BY <1>2, <2>1 DEF WriteIndex
    <3>3. QED
      BY <3>1, <3>2
  <2>2. CASE WriteIndexFails
    BY <2>2 DEF WriteIndexFails
  <2>3. QED
    BY <2>1, <2>2
<1>11. QED
  BY <1>1, <1>6, <1>7, <1>8, <1>9, <1>10 DEF NameInv, LoadedInv

\* Rows are appended to the index file.
LEMMA ConcatenateKeeps ==
    ASSUME NameInv, Concatenate PROVE NameInv'
<1>1. PICK f \in Files : idx' = idx \o InOrder(RowsIn[f])
  BY DEF Concatenate
<1>2. /\ buildPc # "scan" /\ ~loaded /\ UNCHANGED <<buildPc, scanVars, rows, loaded, scanFaults>>
  BY DEF Concatenate
<1>3. InOrder(RowsIn[f]) \in Seq(AnyRow)
  BY FilesAre, InOrderLists
<1>4. idx \in Seq(AnyRow) /\ idx' \in Seq(AnyRow)
  BY <1>1, <1>3 DEF NameInv, NameTypeInv
<1>5. Range(idx) \subseteq Range(idx')
  <2>1. ASSUME NEW i \in 1 .. Len(idx) PROVE i \in 1 .. Len(idx') /\ idx'[i] = idx[i]
    BY <1>1, <1>3, <1>4
  <2>2. DOMAIN idx = 1 .. Len(idx) /\ DOMAIN idx' = 1 .. Len(idx')
    BY <1>4
  <2>3. QED
    BY <2>1, <2>2 DEF Range
<1>6. NameTypeInv'
  BY <1>2, <1>4 DEF NameInv, NameTypeInv, scanVars
<1>7. PassedOver' = PassedOver
  BY <1>2 DEF PassedOver, scanVars
<1>8. QED
  BY <1>2, <1>5, <1>6, <1>7 DEF NameInv, StrideInv, FoundInv, MissedInv, LoadedInv, scanVars

\* What is loaded is sorted, and is what the file has.
LEMMA LoadKeeps ==
    ASSUME NameInv, LoadIndex PROVE NameInv'
<1>1. /\ buildPc # "scan" /\ rows' = SortedRows(idx) /\ loaded' = TRUE
      /\ UNCHANGED <<buildPc, scanVars, idx, scanFaults>>
  BY DEF LoadIndex
<1>2. /\ rows' \in Seq(AnyRow) /\ Range(rows') = Range(idx) /\ InNameOrder(rows')
  BY <1>1, LoadedRows DEF NameInv, NameTypeInv
<1>3. NameTypeInv'
  BY <1>1, <1>2 DEF NameInv, NameTypeInv, scanVars
<1>4. PassedOver' = PassedOver
  BY <1>1 DEF PassedOver, scanVars
<1>5. QED
  BY <1>1, <1>2, <1>3, <1>4 DEF NameInv, StrideInv, FoundInv, MissedInv, LoadedInv, scanVars

\* Building, appending and loading keep the invariant.
LEMMA NameInvNext ==
    ASSUME NameInv, [NameStep]_nameVars PROVE NameInv'
<1>1. ASSUME NEW w \in Scanners, ScanFile(w) \/ ScanCut(w) \/ MergeLocal(w) PROVE NameInv'
  BY <1>1, ScanKeeps, MergeKeeps
<1>2. CASE WriteIndex \/ WriteIndexFails
  BY <1>2, WriteKeeps
<1>3. CASE Concatenate \/ LoadIndex
  BY <1>3, ConcatenateKeeps, LoadKeeps
<1>4. CASE UNCHANGED nameVars
  <2>1. UNCHANGED <<buildPc, next, local, merged, through, wholly, idx, rows, loaded, scanFaults>>
    BY <1>4 DEF nameVars, scanVars
  <2>2. PassedOver' = PassedOver
    BY <2>1 DEF PassedOver
  <2>3. QED
    BY <2>1, <2>2 DEF NameInv, NameTypeInv, StrideInv, FoundInv, MissedInv, LoadedInv
<1>5. QED
  BY <1>1, <1>2, <1>3, <1>4 DEF NameStep

\* An index that was written has every file, but for one for each failure.
LEMMA ScannedFromInv ==
    ASSUME NameInv PROVE IndexHasScanned
<1>1. ASSUME buildPc = "written" PROVE Cardinality(Files \ wholly) <= scanFaults
  <2>1. PassedOver = Files \ wholly
    BY <1>1, AllPassed DEF NameInv, StrideInv
  <2>2. QED
    BY <2>1 DEF NameInv, MissedInv
<1>2. QED
  BY <1>1 DEF IndexHasScanned, NameInv

-----------------------------------------------------------------------------
(***************************************************************************)
(* The lookup.                                                             *)
(***************************************************************************)

\* In rows in the order of their names there is a boundary between the names
\* that are smaller and the others.
LEMMA PartitionPointIs ==
    ASSUME rows \in Seq(AnyRow), InNameOrder(rows), NEW n \in Names
    PROVE  /\ PartitionPoint(n) \in 0 .. Len(rows)
           /\ \A i \in 1 .. Len(rows) : rows[i].name < n <=> i <= PartitionPoint(n)
<1> DEFINE L == Len(rows)
           IsPoint(p) == /\ p = 0 \/ rows[p].name < n
                         /\ p = L \/ ~(rows[p + 1].name < n)
           lo == PartitionPoint(n)
<1>1. L \in Nat /\ n \in Nat /\ \A i \in 1 .. L : rows[i].name \in Nat
  <2>1. \A i \in 1 .. L : rows[i] \in AnyRow
    OBVIOUS
  <2>2. QED
    BY <2>1, RowOrder, NameAssumption
<1>2. \E p \in 0 .. L : IsPoint(p)
  <2> DEFINE T == {p \in 0 .. L : p = L \/ ~(rows[p + 1].name < n)}
  <2>1. T \subseteq Nat /\ L \in T
    BY <1>1
  <2>2. PICK p \in T : \A m \in T : p <= m
    BY <2>1, LeastNatural
  <2>3. p = 0 \/ rows[p].name < n
    <3>1. CASE p # 0
      <4>1. p \in 1 .. L /\ p - 1 \in 0 .. L /\ (p - 1) + 1 = p /\ ~(p <= p - 1)
        BY <1>1, <3>1
      <4>2. p - 1 \notin T
        BY <2>2, <4>1
      <4>3. QED
        BY <4>1, <4>2
    <3>2. QED
      BY <3>1
  <2>4. QED
    BY <2>2, <2>3
<1>3. lo \in 0 .. L /\ IsPoint(lo)
  BY <1>2 DEF PartitionPoint
<1> HIDE DEF lo
<1>4. ASSUME NEW i \in 1 .. L PROVE rows[i].name < n <=> i <= lo
  <2>1. CASE i <= lo
    <3>1. lo \in 1 .. L /\ rows[lo].name < n
      BY <1>1, <1>3, <2>1
    <3>2. rows[i].name <= rows[lo].name
      BY <2>1, <3>1 DEF InNameOrder
    <3>3. rows[i].name \in Nat /\ rows[lo].name \in Nat
      BY <1>1, <3>1
    <3>4. QED
      BY <1>1, <2>1, <3>1, <3>2, <3>3
  <2>2. CASE ~(i <= lo)
    <3>1. lo + 1 \in 1 .. L /\ lo + 1 <= i /\ ~(rows[lo + 1].name < n)
      BY <1>1, <1>3, <2>2
    <3>2. rows[lo + 1].name <= rows[i].name
      BY <3>1 DEF InNameOrder
    <3>3. rows[i].name \in Nat /\ rows[lo + 1].name \in Nat
      BY <1>1, <3>1
    <3>4. QED
      BY <1>1, <2>2, <3>1, <3>2, <3>3
  <2>3. QED
    BY <2>1, <2>2
<1>5. QED
  BY <1>3, <1>4 DEF lo

\* The lookup finds the rows with the name, and no others.
LEMMA ExactIs ==
    ASSUME rows \in Seq(AnyRow), InNameOrder(rows), NEW n \in Names
    PROVE  /\ Exact(n) \in Seq(Tickets \cup {Torn})
           /\ Range(Exact(n)) = {t \in Tickets \cup {Torn} : Row(n, t) \in Range(rows)}
<1> DEFINE L == Len(rows)
           lo == PartitionPoint(n)
           IsEnd(h) == /\ \A i \in lo + 1 .. h : rows[i].name = n
                       /\ h = L \/ rows[h + 1].name # n
           hi == CHOOSE h \in lo .. L : IsEnd(h)
           run == SubSeq(rows, lo + 1, hi)
<1>1. L \in Nat /\ n \in Nat /\ \A i \in 1 .. L : rows[i] \in AnyRow /\ rows[i].name \in Nat
  <2>1. \A i \in 1 .. L : rows[i] \in AnyRow
    OBVIOUS
  <2>2. QED
    BY <2>1, RowOrder, NameAssumption
<1>2. lo \in 0 .. L /\ \A i \in 1 .. L : rows[i].name < n <=> i <= lo
  BY PartitionPointIs
<1>3. Exact(n) = TicketsOf(run)
  BY DEF Exact
<1> HIDE DEF lo
<1>4. \E h \in lo .. L : IsEnd(h)
  <2> DEFINE T == {h \in lo .. L : h = L \/ rows[h + 1].name # n}
  <2>1. T \subseteq Nat /\ L \in T
    BY <1>1, <1>2
  <2>2. PICK h \in T : \A m \in T : h <= m
    BY <2>1, LeastNatural
  <2>3. ASSUME NEW i \in lo + 1 .. h PROVE rows[i].name = n
    <3>1. i - 1 \in lo .. L /\ i - 1 \notin T /\ (i - 1) + 1 = i
      BY <1>1, <1>2, <2>2
    <3>2. QED
      BY <3>1
  <2>4. QED
    BY <2>2, <2>3
<1>5. hi \in lo .. L /\ IsEnd(hi)
  BY <1>4
<1> HIDE DEF hi
<1>6. ASSUME NEW i \in 1 .. L PROVE rows[i].name = n <=> i \in lo + 1 .. hi
  <2>1. CASE i \in lo + 1 .. hi
    BY <1>5, <2>1
  <2>2. CASE i <= lo
    BY <1>1, <1>2, <2>2
  <2>3. CASE i > hi
    <3>1. hi + 1 \in 1 .. L /\ hi + 1 <= i /\ rows[hi + 1].name # n /\ ~(hi + 1 <= lo)
      BY <1>1, <1>2, <1>5, <2>3
    <3>2. rows[hi + 1].name > n
      BY <1>1, <1>2, <3>1
    <3>3. rows[hi + 1].name <= rows[i].name
      BY <3>1 DEF InNameOrder
    <3>4. rows[i].name > n /\ ~(i <= hi)
      <4>1. i \in Nat /\ hi \in Nat /\ rows[i].name \in Nat /\ rows[hi + 1].name \in Nat
        BY <1>1, <1>2, <1>5, <3>1
      <4>2. QED
        BY <1>1, <2>3, <3>2, <3>3, <4>1
    <3>5. QED
      BY <1>1, <1>2, <1>5, <3>4
  <2>4. QED
    BY <1>1, <1>2, <1>5, <2>1, <2>2, <2>3
<1>7. /\ run \in Seq(AnyRow) /\ Len(run) = hi - lo /\ hi - lo \in Nat
      /\ \A k \in 1 .. hi - lo : run[k] = rows[lo + k]
  BY <1>1, <1>2, <1>5
<1> HIDE DEF run
<1>8. /\ Exact(n) = [k \in 1 .. hi - lo |-> run[k].ticket]
      /\ Range(Exact(n)) = {run[k].ticket : k \in 1 .. hi - lo}
  <2>1. Exact(n) = [k \in 1 .. hi - lo |-> run[k].ticket]
    BY <1>3, <1>7 DEF TicketsOf
  <2>2. QED
    BY <2>1 DEF Range
<1>9. ASSUME NEW t \in Tickets \cup {Torn}, NEW i \in 1 .. L, rows[i] = Row(n, t)
      PROVE  t \in Range(Exact(n))
  <2>1. rows[i].name = n /\ rows[i].ticket = t
    BY <1>9 DEF Row
  <2>2. i - lo \in 1 .. hi - lo /\ lo + (i - lo) = i
    BY <1>1, <1>2, <1>5, <1>6, <2>1
  <2>3. run[i - lo].ticket = t
    BY <1>7, <2>1, <2>2
  <2>4. QED
    BY <1>8, <2>2, <2>3
<1>10. ASSUME NEW k \in 1 .. hi - lo
       PROVE  run[k].ticket \in Tickets \cup {Torn} /\ Row(n, run[k].ticket) \in Range(rows)
  <2>1. lo + k \in lo + 1 .. hi /\ lo + k \in 1 .. L
    BY <1>1, <1>2, <1>5
  <2>2. rows[lo + k].name = n /\ run[k] = rows[lo + k] /\ rows[lo + k] \in AnyRow
    BY <1>1, <1>6, <1>7, <2>1
  <2>3. rows[lo + k] = Row(n, run[k].ticket) /\ run[k].ticket \in Tickets \cup {Torn}
    BY <2>2 DEF AnyRow, Row
  <2>4. QED
    BY <2>1, <2>3 DEF Range
<1>11. ASSUME NEW t \in Tickets \cup {Torn}, Row(n, t) \in Range(rows) PROVE t \in Range(Exact(n))
  <2>1. PICK i \in 1 .. L : rows[i] = Row(n, t)
    BY <1>11 DEF Range
  <2>2. QED
    BY <1>9, <2>1
<1>12. Exact(n) \in Seq(Tickets \cup {Torn})
  BY <1>7, <1>8, <1>10
<1>13. QED
  BY <1>8, <1>10, <1>11, <1>12

\* Every row of the file is found by its name.
LEMMA ExactFromInv ==
    ASSUME NameInv PROVE ExactFinds
BY ExactIs DEF NameInv, NameTypeInv, LoadedInv, ExactFinds

-----------------------------------------------------------------------------
(***************************************************************************)
(* Lists that are cut and put one after the other.                         *)
(***************************************************************************)

\* The elements of two lists that follow each other.
LEMMA Followed ==
    ASSUME NEW S, NEW a \in Seq(S), NEW b \in Seq(S)
    PROVE  /\ a \o b \in Seq(S) /\ Len(a \o b) = Len(a) + Len(b)
           /\ Len(a) \in Nat /\ Len(b) \in Nat
           /\ \A i \in 1 .. Len(a) : i \in 1 .. Len(a \o b) /\ (a \o b)[i] = a[i] /\ a[i] \in S
           /\ \A i \in 1 .. Len(b) : Len(a) + i \in 1 .. Len(a \o b) /\ (a \o b)[Len(a) + i] = b[i] /\ b[i] \in S
           /\ \A k \in 1 .. Len(a \o b) : k \in 1 .. Len(a) \/ (k - Len(a) \in 1 .. Len(b) /\ k = Len(a) + (k - Len(a)))
  OBVIOUS

Count(s, X) == Cardinality({k \in 1 .. Len(s) : s[k] \in X})

\* A count is a number, at most the length.
LEMMA CountIs ==
    ASSUME NEW S, NEW s \in Seq(S), NEW X
    PROVE  /\ IsFiniteSet({k \in 1 .. Len(s) : s[k] \in X})
           /\ Count(s, X) \in Nat
           /\ Count(s, X) = 0 <=> \A k \in 1 .. Len(s) : s[k] \notin X
           /\ (\A k \in 1 .. Len(s) : s[k] \in X) => Count(s, X) = Len(s)
<1> DEFINE T == {k \in 1 .. Len(s) : s[k] \in X}
<1>1. Len(s) \in Nat /\ T \in SUBSET (1 .. Len(s))
  OBVIOUS
<1>2. IsFiniteSet(1 .. Len(s)) /\ Cardinality(1 .. Len(s)) = Len(s)
  <2>1. Len(s) \in Nat
    OBVIOUS
  <2>2. QED
    BY <2>1, UpTo
<1>3. IsFiniteSet(T) /\ Cardinality(T) \in Nat
  BY <1>1, <1>2, FS_Subset, FS_CardinalityType
<1>4. Cardinality(T) = 0 <=> T = {}
  BY <1>3, FS_EmptySet
<1>5. (\A k \in 1 .. Len(s) : s[k] \in X) => T = 1 .. Len(s)
  OBVIOUS
<1>6. QED
  BY <1>2, <1>3, <1>4, <1>5 DEF Count

\* Counts add up.
LEMMA CountFollowed ==
    ASSUME NEW S, NEW a \in Seq(S), NEW b \in Seq(S), NEW X
    PROVE  Count(a \o b, X) = Count(a, X) + Count(b, X)
<1> DEFINE A == {k \in 1 .. Len(a) : a[k] \in X}
           B == {k \in 1 .. Len(b) : b[k] \in X}
           C == {k \in 1 .. Len(a \o b) : (a \o b)[k] \in X}
           D == {k \in C : k > Len(a)}
           f == [k \in B |-> Len(a) + k]
<1>1. /\ Len(a \o b) = Len(a) + Len(b) /\ Len(a) \in Nat /\ Len(b) \in Nat /\ a \o b \in Seq(S)
      /\ \A i \in 1 .. Len(a) : i \in 1 .. Len(a \o b) /\ (a \o b)[i] = a[i]
      /\ \A i \in 1 .. Len(b) : Len(a) + i \in 1 .. Len(a \o b) /\ (a \o b)[Len(a) + i] = b[i]
      /\ \A k \in 1 .. Len(a \o b) : k \in 1 .. Len(a) \/ (k - Len(a) \in 1 .. Len(b) /\ k = Len(a) + (k - Len(a)))
  BY Followed
<1>2. C = A \cup D /\ A \cap D = {}
  BY <1>1
<1>3. f \in [B -> D]
  BY <1>1
<1>4. \A i, j \in B : f[i] = f[j] => i = j
  BY <1>1
<1>5. \A k \in D : \E i \in B : f[i] = k
  <2>1. ASSUME NEW k \in D PROVE k - Len(a) \in B /\ Len(a) + (k - Len(a)) = k
    BY <1>1
  <2>2. QED
    BY <2>1
<1>6. IsFiniteSet(A) /\ IsFiniteSet(B)
  BY CountIs
<1> HIDE DEF A, B, C, D, f
<1>7. f \in Bijection(B, D)
  BY <1>3, <1>4, <1>5 DEF Bijection, Injection, Surjection, IsInjective
<1>8. IsFiniteSet(D) /\ Cardinality(D) = Cardinality(B)
  <2>1. ExistsBijection(B, D)
    BY <1>7 DEF ExistsBijection
  <2>2. QED
    BY <1>6, <2>1, FS_Bijection
<1>9. Cardinality(A \cap D) = 0
  BY <1>2, FS_EmptySet
<1>10. Cardinality(C) = Cardinality(A) + Cardinality(D) - Cardinality(A \cap D)
  BY <1>2, <1>6, <1>8, FS_Union
<1>11. Cardinality(A) \in Nat /\ Cardinality(D) \in Nat
  BY <1>6, <1>8, FS_CardinalityType
<1>12. Cardinality(C) = Cardinality(A) + Cardinality(B)
  BY <1>8, <1>9, <1>10, <1>11
<1>13. QED
  BY <1>12 DEF Count, A, B, C

\* A list that is cut is whole or reaches the limit, and has an element if
\* the list has one.
LEMMA CutIs ==
    ASSUME NEW S, NEW s \in Seq(S), NEW limit \in Nat
    PROVE  /\ Cut(s, limit) \in Seq(S) /\ Len(Cut(s, limit)) \in Nat
           /\ Range(Cut(s, limit)) \subseteq Range(s)
           /\ Cut(s, limit) = s \/ (Len(Cut(s, limit)) >= limit /\ Len(Cut(s, limit)) >= 1)
           /\ s # <<>> => Len(Cut(s, limit)) >= 1
<1>1. CASE Len(s) <= limit
  <2>1. Cut(s, limit) = s
    BY <1>1 DEF Cut
  <2>2. QED
    BY <2>1
<1>2. CASE ~(Len(s) <= limit)
  <2> DEFINE m == IF limit < 1 THEN 1 ELSE limit
  <2>1. m \in 1 .. Len(s) /\ m >= limit /\ m >= 1
    BY <1>2
  <2>2. Cut(s, limit) = SubSeq(s, 1, m)
    BY <1>2 DEF Cut
  <2> HIDE DEF m
  <2>3. /\ SubSeq(s, 1, m) \in Seq(S) /\ Len(SubSeq(s, 1, m)) = m
        /\ \A i \in 1 .. m : SubSeq(s, 1, m)[i] = s[i]
    BY <2>1
  <2>4. Range(SubSeq(s, 1, m)) \subseteq Range(s)
    BY <2>1, <2>3 DEF Range
  <2>5. QED
    BY <2>1, <2>2, <2>3, <2>4
<1>3. QED
  BY <1>1, <1>2

-----------------------------------------------------------------------------
(***************************************************************************)
(* What is printed of one reply.                                           *)
(***************************************************************************)
ItemLine == [line : {"item"}, of : Symbols, list : {1, 2}, sym : Symbols]
PartLine == [line : {"header"}, of : Symbols, list : {1, 2}] \cup ItemLine
AnyLine  == PartLine \cup {NoResults}
ItemsFor(t, l) == {x \in ItemLine : x.of = t /\ x.list = l}

\* The lists that a command prints of a reply.
ListsOf == IF verb = "callers" THEN {1, 2} ELSE {1}

Due(t)      == IF json THEN nextOf[t] ELSE nextOf[t] \cap Kept
Shows(s, t) == {x \in Symbols : \E k \in 1 .. Len(s) : s[k] \in ItemLine /\ s[k].of = t /\ s[k].sym = x}

\* The items of s are what the backend says, and the filter keeps.
Genuine(s) ==
    \A k \in 1 .. Len(s) : s[k] \in ItemLine =>
        s[k].sym \in nextOf[s[k].of] /\ (json \/ s[k].sym \in Kept) /\ s[k].list \in ListsOf

\* All of a ticket's reply is in s, or the limit is reached.
Settled(s, t) ==
    \/ Due(t) \subseteq Shows(s, t)
    \/ /\ ~json /\ Shows(s, t) # {}
       /\ IF verb = "types" THEN Count(s, ItemLine) >= Limit
          ELSE \A l \in ListsOf : Count(s, ItemsFor(t, l)) >= Limit

WellHeaded(s) ==
    \A k \in 1 .. Len(s) :
        /\ s[k].line = "item" =>
               \E h \in 1 .. k - 1 :
                   /\ s[h] = Header(s[k].of, s[k].list)
                   /\ \A j \in h + 1 .. k - 1 : s[j].line = "item"
        /\ s[k].line = "header" => k < Len(s) /\ s[k + 1].line = "item"

\* Lines are told apart by their first field.
LEMMA LinesDiffer ==
    ASSUME NEW x \in AnyLine
    PROVE  /\ x \in ItemLine <=> x.line = "item"
           /\ x = NoResults <=> x \notin PartLine
           /\ x \in ItemLine => x.of \in Symbols /\ x.list \in {1, 2} /\ x.sym \in Symbols
<1>0. NoResults.line = "(no ..)"
  BY DEF NoResults
<1>1. CASE x \in ItemLine
  <2>1. x.line = "item" /\ x.of \in Symbols /\ x.list \in {1, 2} /\ x.sym \in Symbols
    BY <1>1 DEF ItemLine
  <2>2. x # NoResults
    BY <1>0, <2>1
  <2>3. QED
    BY <1>1, <2>1, <2>2 DEF PartLine
<1>2. CASE x \in [line : {"header"}, of : Symbols, list : {1, 2}]
  <2>1. x.line = "header"
    BY <1>2
  <2>2. x # NoResults
    BY <1>0, <2>1
  <2>3. x \notin ItemLine
    BY <2>1 DEF ItemLine
  <2>4. QED
    BY <1>2, <2>1, <2>2, <2>3 DEF PartLine
<1>3. CASE x = NoResults
  <2>1. x.line = "(no ..)"
    BY <1>3 DEF NoResults
  <2>2. x \notin PartLine
    BY <2>1 DEF PartLine, ItemLine
  <2>3. QED
    BY <1>3, <2>1, <2>2 DEF PartLine
<1>4. QED
  BY <1>1, <1>2, <1>3 DEF AnyLine, PartLine

\* A header and an item are lines.
LEMMA LineTypes ==
    ASSUME NEW t \in Symbols, NEW l \in {1, 2}
    PROVE  /\ Header(t, l) \in PartLine /\ Header(t, l) \notin ItemLine
           /\ Header(t, l).line = "header"
           /\ \A x \in Symbols : /\ Item(t, l, x) \in ItemsFor(t, l) /\ Item(t, l, x) \in ItemLine
                               /\ Item(t, l, x).sym = x /\ Item(t, l, x).of = t
                               /\ Item(t, l, x).list = l /\ Item(t, l, x).line = "item"
  BY DEF Header, Item, PartLine, ItemLine, ItemsFor

\* The items of one list, one below the other.
LEMMA ItemsOfIs ==
    ASSUME NEW t \in Symbols, NEW l \in {1, 2}, NEW q \in Seq(Symbols)
    PROVE  LET c == ItemsOf(t, l, q) IN
           /\ c \in Seq(PartLine) /\ Len(c) = Len(q)
           /\ \A k \in 1 .. Len(q) : c[k] = Item(t, l, q[k]) /\ q[k] \in Symbols
           /\ Count(c, ItemLine) = Len(q) /\ Count(c, ItemsFor(t, l)) = Len(q)
           /\ Shows(c, t) = Range(q)
<1> DEFINE c == ItemsOf(t, l, q)
<1>1. Len(q) \in Nat /\ \A k \in 1 .. Len(q) : q[k] \in Symbols
  OBVIOUS
<1>2. c = [k \in 1 .. Len(q) |-> Item(t, l, q[k])]
  BY DEF ItemsOf
<1> HIDE DEF c
<1>3. \A k \in 1 .. Len(q) : c[k] = Item(t, l, q[k]) /\ c[k] \in ItemsFor(t, l) /\ c[k] \in ItemLine
                           /\ c[k].sym = q[k] /\ c[k].of = t
  BY <1>1, <1>2, LineTypes
<1>4. c \in Seq(PartLine) /\ Len(c) = Len(q)
  <2>1. ItemLine \subseteq PartLine
    BY DEF PartLine
  <2>2. \A k \in 1 .. Len(q) : Item(t, l, q[k]) \in PartLine
    BY <1>1, <2>1, LineTypes
  <2>3. c \in [1 .. Len(q) -> PartLine]
    BY <1>2, <2>2
  <2>4. QED
    BY <1>1, <2>3
<1>5. Count(c, ItemLine) = Len(q) /\ Count(c, ItemsFor(t, l)) = Len(q)
  <2>1. \A k \in 1 .. Len(c) : c[k] \in ItemsFor(t, l) /\ c[k] \in ItemLine
    BY <1>3, <1>4
  <2>2. QED
    BY <1>4, <2>1, CountIs
<1>6. Shows(c, t) = Range(q)
  <2>1. DOMAIN q = 1 .. Len(q)
    OBVIOUS
  <2>2. QED
    BY <1>1, <1>3, <1>4, <2>1 DEF Shows, Range
<1>7. QED
  BY <1>1, <1>3, <1>4, <1>5, <1>6 DEF c

\* What two parts show, they show together.
LEMMA ShowsFollowed ==
    ASSUME NEW a \in Seq(AnyLine), NEW b \in Seq(AnyLine), NEW t
    PROVE  Shows(a \o b, t) = Shows(a, t) \cup Shows(b, t)
<1>1. /\ \A i \in 1 .. Len(a) : i \in 1 .. Len(a \o b) /\ (a \o b)[i] = a[i]
      /\ \A i \in 1 .. Len(b) : Len(a) + i \in 1 .. Len(a \o b) /\ (a \o b)[Len(a) + i] = b[i]
      /\ \A k \in 1 .. Len(a \o b) : k \in 1 .. Len(a) \/ (k - Len(a) \in 1 .. Len(b) /\ k = Len(a) + (k - Len(a)))
  BY Followed
<1>2. ASSUME NEW x \in Symbols,
             NEW k \in 1 .. Len(a \o b), (a \o b)[k] \in ItemLine, (a \o b)[k].of = t, (a \o b)[k].sym = x
      PROVE  x \in Shows(a, t) \cup Shows(b, t)
  <2>1. CASE k \in 1 .. Len(a)
    BY <1>1, <1>2, <2>1 DEF Shows
  <2>2. CASE k - Len(a) \in 1 .. Len(b) /\ k = Len(a) + (k - Len(a))
    <3>1. (a \o b)[k] = b[k - Len(a)]
      BY <1>1, <2>2
    <3>2. QED
      BY <1>2, <2>2, <3>1 DEF Shows
  <2>3. QED
    BY <1>1, <2>1, <2>2
<1>3. ASSUME NEW x \in Shows(a, t) PROVE x \in Shows(a \o b, t)
  BY <1>1 DEF Shows
<1>4. ASSUME NEW x \in Shows(b, t) PROVE x \in Shows(a \o b, t)
  <2>1. PICK k \in 1 .. Len(b) : b[k] \in ItemLine /\ b[k].of = t /\ b[k].sym = x
    BY DEF Shows
  <2>2. Len(a) + k \in 1 .. Len(a \o b) /\ (a \o b)[Len(a) + k] = b[k]
    BY <1>1
  <2>3. QED
    BY <2>1, <2>2 DEF Shows
<1>5. Shows(a \o b, t) \subseteq Shows(a, t) \cup Shows(b, t)
  BY <1>2 DEF Shows
<1>6. QED
  BY <1>3, <1>4, <1>5

\* Two parts with genuine items are so together.
LEMMA GenuineFollowed ==
    ASSUME NEW a \in Seq(AnyLine), NEW b \in Seq(AnyLine), Genuine(a), Genuine(b)
    PROVE  Genuine(a \o b)
<1>1. /\ \A i \in 1 .. Len(a) : i \in 1 .. Len(a \o b) /\ (a \o b)[i] = a[i]
      /\ \A i \in 1 .. Len(b) : Len(a) + i \in 1 .. Len(a \o b) /\ (a \o b)[Len(a) + i] = b[i]
      /\ \A k \in 1 .. Len(a \o b) : k \in 1 .. Len(a) \/ (k - Len(a) \in 1 .. Len(b) /\ k = Len(a) + (k - Len(a)))
  BY Followed
<1>2. ASSUME NEW k \in 1 .. Len(a \o b), (a \o b)[k] \in ItemLine
      PROVE  LET x == (a \o b)[k] IN
             x.sym \in nextOf[x.of] /\ (json \/ x.sym \in Kept) /\ x.list \in ListsOf
  <2>1. CASE k \in 1 .. Len(a)
    BY <1>1, <1>2, <2>1 DEF Genuine
  <2>2. CASE k - Len(a) \in 1 .. Len(b) /\ k = Len(a) + (k - Len(a))
    <3>1. (a \o b)[k] = b[k - Len(a)]
      BY <1>1, <2>2
    <3>2. QED
      BY <1>2, <2>2, <3>1 DEF Genuine
  <2>3. QED
    BY <1>1, <2>1, <2>2
<1>3. QED
  BY <1>2 DEF Genuine

\* Two parts with their headers are so together.
LEMMA HeadersFollowed ==
    ASSUME NEW a \in Seq(AnyLine), NEW b \in Seq(AnyLine), WellHeaded(a), WellHeaded(b)
    PROVE  WellHeaded(a \o b)
<1> DEFINE s == a \o b
           n == Len(a)
<1>1. /\ n \in Nat /\ Len(b) \in Nat /\ Len(s) = n + Len(b)
      /\ \A i \in 1 .. n : i \in 1 .. Len(s) /\ s[i] = a[i]
      /\ \A i \in 1 .. Len(b) : n + i \in 1 .. Len(s) /\ s[n + i] = b[i]
      /\ \A k \in 1 .. Len(s) : k \in 1 .. n \/ (k - n \in 1 .. Len(b) /\ k = n + (k - n))
  BY Followed
<1>h. WellHeaded(a) /\ WellHeaded(b)
  OBVIOUS
<1> HIDE DEF s
<1>2. ASSUME NEW k \in 1 .. n
      PROVE  /\ s[k].line = "item" =>
                    \E h \in 1 .. k - 1 :
                       /\ s[h] = Header(s[k].of, s[k].list)
                       /\ \A j \in h + 1 .. k - 1 : s[j].line = "item"
             /\ s[k].line = "header" => k < Len(s) /\ s[k + 1].line = "item"
  <2>1. s[k] = a[k]
    BY <1>1
  <2>2. ASSUME s[k].line = "item"
        PROVE  \E h \in 1 .. k - 1 :
                  /\ s[h] = Header(s[k].of, s[k].list)
                  /\ \A j \in h + 1 .. k - 1 : s[j].line = "item"
    <3>1. PICK h \in 1 .. k - 1 :
             /\ a[h] = Header(a[k].of, a[k].list)
             /\ \A j \in h + 1 .. k - 1 : a[j].line = "item"
      BY <1>h, <2>1, <2>2 DEF WellHeaded
    <3>2. s[h] = a[h] /\ \A j \in h + 1 .. k - 1 : s[j] = a[j]
      BY <1>1, <3>1
    <3>3. QED
      BY <2>1, <3>1, <3>2
  <2>3. ASSUME s[k].line = "header" PROVE k < Len(s) /\ s[k + 1].line = "item"
    <3>1. k < n /\ a[k + 1].line = "item"
      BY <1>h, <2>1, <2>3 DEF WellHeaded
    <3>2. k + 1 \in 1 .. n
      BY <1>1, <3>1
    <3>3. s[k + 1] = a[k + 1] /\ k < Len(s)
      BY <1>1, <3>1, <3>2
    <3>4. QED
      BY <3>1, <3>3
  <2>4. QED
    BY <2>2, <2>3
<1>3. ASSUME NEW k \in 1 .. Len(b)
      PROVE  /\ s[n + k].line = "item" =>
                    \E h \in 1 .. n + k - 1 :
                       /\ s[h] = Header(s[n + k].of, s[n + k].list)
                       /\ \A j \in h + 1 .. n + k - 1 : s[j].line = "item"
             /\ s[n + k].line = "header" => n + k < Len(s) /\ s[n + k + 1].line = "item"
  <2>1. s[n + k] = b[k]
    BY <1>1
  <2>2. ASSUME s[n + k].line = "item"
        PROVE  \E h \in 1 .. n + k - 1 :
                  /\ s[h] = Header(s[n + k].of, s[n + k].list)
                  /\ \A j \in h + 1 .. n + k - 1 : s[j].line = "item"
    <3>1. PICK h \in 1 .. k - 1 :
             /\ b[h] = Header(b[k].of, b[k].list)
             /\ \A j \in h + 1 .. k - 1 : b[j].line = "item"
      BY <1>h, <2>1, <2>2 DEF WellHeaded
    <3>2. s[n + h] = b[h] /\ n + h \in 1 .. n + k - 1
      <4>1. h \in 1 .. Len(b) /\ h \in Nat /\ n + h \in 1 .. n + k - 1
        BY <1>1
      <4>2. QED
        BY <1>1, <4>1
    <3>3. ASSUME NEW j \in n + h + 1 .. n + k - 1 PROVE s[j].line = "item"
      <4>1. j - n \in h + 1 .. k - 1 /\ j - n \in 1 .. Len(b) /\ n + (j - n) = j
        BY <1>1, <3>1
      <4>2. s[j] = b[j - n]
        BY <1>1, <4>1
      <4>3. QED
        BY <3>1, <4>1, <4>2
    <3>4. QED
      BY <2>1, <3>1, <3>2, <3>3
  <2>3. ASSUME s[n + k].line = "header" PROVE n + k < Len(s) /\ s[n + k + 1].line = "item"
    <3>1. k < Len(b) /\ b[k + 1].line = "item"
      BY <1>h, <2>1, <2>3 DEF WellHeaded
    <3>2. k + 1 \in 1 .. Len(b) /\ n + (k + 1) = n + k + 1 /\ n + k < Len(s)
      BY <1>1, <3>1
    <3>3. s[n + k + 1] = b[k + 1]
      BY <1>1, <3>2
    <3>4. QED
      BY <3>1, <3>2, <3>3
  <2>4. QED
    BY <2>2, <2>3
<1>4. ASSUME NEW k \in 1 .. Len(s)
      PROVE  /\ s[k].line = "item" =>
                    \E h \in 1 .. k - 1 :
                       /\ s[h] = Header(s[k].of, s[k].list)
                       /\ \A j \in h + 1 .. k - 1 : s[j].line = "item"
             /\ s[k].line = "header" => k < Len(s) /\ s[k + 1].line = "item"
  <2>1. CASE k \in 1 .. n
    BY <1>2, <2>1
  <2>2. CASE k - n \in 1 .. Len(b) /\ k = n + (k - n)
    <3>1. PICK m \in 1 .. Len(b) : n + m = k
      BY <2>2
    <3>2. /\ s[n + m].line = "item" =>
                    \E h \in 1 .. n + m - 1 :
                       /\ s[h] = Header(s[n + m].of, s[n + m].list)
                       /\ \A j \in h + 1 .. n + m - 1 : s[j].line = "item"
          /\ s[n + m].line = "header" => n + m < Len(s) /\ s[n + m + 1].line = "item"
      BY <1>3
    <3>3. QED
      BY <3>1, <3>2
  <2>3. QED
    BY <1>1, <2>1, <2>2
<1>5. QED
  BY <1>4 DEF WellHeaded, s

\* A reply is a list of the symbols that the backend says, in some order.
LEMMA ReplyIs ==
    ASSUME nextOf \in Graphs, NEW t \in Symbols, NEW items \in SetToSeqs(nextOf[t])
    PROVE  /\ items \in Seq(Symbols) /\ Range(items) = nextOf[t] /\ nextOf[t] \subseteq Symbols
           /\ Filtered(items, Kept) \in Seq(Symbols)
           /\ Range(Filtered(items, Kept)) = nextOf[t] \cap Kept
<1> DEFINE R == nextOf[t]
           n == Cardinality(R)
<1>1. R \subseteq Symbols
  BY GraphAssumption
<1>2. IsFiniteSet(R)
  BY VerbAssumption
<1>3. n \in Nat
  BY <1>2, FS_CardinalityType
<1>4. items \in [1 .. n -> R] /\ \A i, j \in 1 .. n : items[i] = items[j] => i = j
  BY DEF SetToSeqs
<1> HIDE DEF n, R
<1>5. \A x \in R : \E i \in 1 .. n : items[i] = x
  BY <1>2, <1>3, <1>4, InjectionOnto DEF n
<1>6. items \in Seq(Symbols)
  BY <1>1, <1>3, <1>4
<1>7. Range(items) = R
  BY <1>4, <1>5 DEF Range
<1>8. QED
  BY <1>1, <1>6, <1>7, FilteredIs DEF R

\* The items of one list are of its ticket and its elements.
LEMMA ItemsAreOf ==
    ASSUME NEW t \in Symbols, NEW l \in {1, 2}, NEW q \in Seq(Symbols)
    PROVE  LET c == ItemsOf(t, l, q) IN
           \A k \in 1 .. Len(c) : c[k].of = t /\ c[k].list = l /\ c[k].sym \in Range(q)
<1> DEFINE c == ItemsOf(t, l, q)
<1>1. Len(c) = Len(q) /\ \A k \in 1 .. Len(q) : c[k] = Item(t, l, q[k]) /\ q[k] \in Symbols
  BY ItemsOfIs
<1> HIDE DEF c
<1>2. ASSUME NEW k \in 1 .. Len(c) PROVE c[k].of = t /\ c[k].list = l /\ c[k].sym \in Range(q)
  <2>1. k \in DOMAIN q /\ c[k] = Item(t, l, q[k]) /\ q[k] \in Symbols
    BY <1>1
  <2>2. c[k].of = t /\ c[k].list = l /\ c[k].sym = q[k]
    BY <2>1, LineTypes
  <2>3. QED
    BY <2>1, <2>2 DEF Range
<1>3. QED
  BY <1>2 DEF c

\* The items of a list below its header.
Headed(t, l, q) == <<Header(t, l)>> \o ItemsOf(t, l, q)

\* The items of c are of this ticket, list and reply.
OnlyOf(c, t, l, q) ==
    \A k \in 1 .. Len(c) : c[k] \in ItemLine =>
        c[k].of = t /\ c[k].list = l /\ c[k].sym \in Range(q)

\* Such a list has the items, and no others.
LEMMA ChunkIs ==
    ASSUME NEW t \in Symbols, NEW l \in {1, 2}, NEW q \in Seq(Symbols)
    PROVE  LET c == Headed(t, l, q) IN
           /\ c \in Seq(PartLine)
           /\ Count(c, ItemLine) = Len(q) /\ Count(c, ItemsFor(t, l)) = Len(q)
           /\ Shows(c, t) = Range(q)
           /\ OnlyOf(c, t, l, q)
<1> DEFINE b == ItemsOf(t, l, q)
           pre == <<Header(t, l)>>
           c == Headed(t, l, q)
<1>0. c = pre \o b
  BY DEF Headed
<1>1. /\ b \in Seq(PartLine) /\ Len(b) = Len(q)
      /\ \A k \in 1 .. Len(q) : b[k] = Item(t, l, q[k]) /\ q[k] \in Symbols
      /\ Count(b, ItemLine) = Len(q) /\ Count(b, ItemsFor(t, l)) = Len(q)
      /\ Shows(b, t) = Range(q)
  BY ItemsOfIs
<1>2. pre \in Seq(PartLine) /\ \A k \in 1 .. Len(pre) : pre[k] \notin ItemLine
  <2>1. Header(t, l) \in PartLine /\ Header(t, l) \notin ItemLine
    BY LineTypes
  <2>2. QED
    BY <2>1
<1>3. ItemsFor(t, l) \subseteq ItemLine /\ PartLine \subseteq AnyLine
  BY DEF ItemsFor, AnyLine
<1>4. Count(pre, ItemLine) = 0 /\ Count(pre, ItemsFor(t, l)) = 0
  <2>1. \A k \in 1 .. Len(pre) : pre[k] \notin ItemsFor(t, l)
    BY <1>2, <1>3
  <2>2. QED
    BY <1>2, <2>1, CountIs
<1>5. Shows(pre, t) = {}
  BY <1>2 DEF Shows
<1> HIDE DEF b, pre, c
<1>6. c \in Seq(PartLine)
  BY <1>0, <1>1, <1>2
<1>7. Count(c, ItemLine) = Len(q) /\ Count(c, ItemsFor(t, l)) = Len(q)
  <2>1. /\ Count(c, ItemLine) = Count(pre, ItemLine) + Count(b, ItemLine)
        /\ Count(c, ItemsFor(t, l)) = Count(pre, ItemsFor(t, l)) + Count(b, ItemsFor(t, l))
    BY <1>0, <1>1, <1>2, CountFollowed
  <2>2. Len(q) \in Nat
    OBVIOUS
  <2>3. QED
    BY <1>1, <1>4, <2>1, <2>2
<1>8. Shows(c, t) = Range(q)
  <2>1. pre \in Seq(AnyLine) /\ b \in Seq(AnyLine)
    BY <1>1, <1>2, <1>3
  <2>2. Shows(c, t) = Shows(pre, t) \cup Shows(b, t)
    BY <1>0, <2>1, ShowsFollowed
  <2>3. QED
    BY <1>1, <1>5, <2>2
<1>9. ASSUME NEW k \in 1 .. Len(c), c[k] \in ItemLine
      PROVE  c[k].of = t /\ c[k].list = l /\ c[k].sym \in Range(q)
  <2>1. k \in 1 .. Len(pre) \/ (k - Len(pre) \in 1 .. Len(b) /\ k = Len(pre) + (k - Len(pre)))
    BY <1>0, <1>1, <1>2, Followed
  <2>2. k \in 1 .. Len(pre) => c[k] = pre[k]
    BY <1>0, <1>1, <1>2, Followed
  <2>3. k - Len(pre) \in 1 .. Len(b)
    BY <1>2, <1>9, <2>1, <2>2
  <2>4. c[k] = b[k - Len(pre)]
    BY <1>0, <1>1, <1>2, <2>3, Followed
  <2>5. \A i \in 1 .. Len(b) : b[i].of = t /\ b[i].list = l /\ b[i].sym \in Range(q)
    BY ItemsAreOf DEF b
  <2>6. QED
    BY <2>3, <2>4, <2>5
<1>10. QED
  BY <1>6, <1>7, <1>8, <1>9 DEF b, pre, c, OnlyOf

\* Items below their header, if there is an item.
LEMMA ChunkHeaded ==
    ASSUME NEW t \in Symbols, NEW l \in {1, 2}, NEW q \in Seq(Symbols), Len(q) >= 1
    PROVE  WellHeaded(Headed(t, l, q))
<1> DEFINE b == ItemsOf(t, l, q)
           c == <<Header(t, l)>> \o b
<1>1. /\ b \in Seq(PartLine) /\ Len(b) = Len(q) /\ Len(q) \in Nat
      /\ \A k \in 1 .. Len(q) : b[k] = Item(t, l, q[k]) /\ q[k] \in Symbols
  BY ItemsOfIs
<1> HIDE DEF b
<1>2. Len(c) = 1 + Len(b) /\ c[1] = Header(t, l) /\ \A k \in 1 .. Len(b) : c[k + 1] = b[k]
  BY <1>1
<1> HIDE DEF c
<1>3. ASSUME NEW k \in 2 .. Len(c) PROVE c[k].line = "item" /\ c[k].of = t /\ c[k].list = l
  <2>1. k - 1 \in 1 .. Len(b) /\ (k - 1) + 1 = k
    BY <1>1, <1>2
  <2>2. c[k] = Item(t, l, q[k - 1]) /\ q[k - 1] \in Symbols
    BY <1>1, <1>2, <2>1
  <2>3. QED
    BY <2>2, LineTypes
<1>4. c[1].line = "header" /\ 1 < Len(c) /\ c[2].line = "item"
  BY <1>1, <1>2, <1>3, LineTypes
<1>5. ASSUME NEW k \in 1 .. Len(c)
      PROVE  /\ c[k].line = "item" =>
                    \E h \in 1 .. k - 1 :
                       /\ c[h] = Header(c[k].of, c[k].list)
                       /\ \A j \in h + 1 .. k - 1 : c[j].line = "item"
             /\ c[k].line = "header" => k < Len(c) /\ c[k + 1].line = "item"
  <2>1. CASE k = 1
    BY <1>4, <2>1
  <2>2. CASE k # 1
    <3>1. k \in 2 .. Len(c) /\ 1 \in 1 .. k - 1
      BY <1>1, <1>2, <2>2
    <3>2. \A j \in 1 + 1 .. k - 1 : c[j].line = "item"
      BY <1>1, <1>2, <1>3, <3>1
    <3>3. c[1] = Header(c[k].of, c[k].list) /\ c[k].line = "item"
      BY <1>2, <1>3, <3>1
    <3>4. QED
      BY <3>1, <3>2, <3>3
  <2>3. QED
    BY <2>1, <2>2
<1>6. QED
  BY <1>5 DEF WellHeaded, c, b, Headed

\* print_anchors prints the list below its header, whole or up to the limit.
LEMMA AnchorsAre ==
    ASSUME NEW t \in Symbols, NEW l \in {1, 2}, NEW kept \in Seq(Symbols)
    PROVE  LET c == Anchors(t, l, kept) IN
           /\ c \in Seq(PartLine) /\ WellHeaded(c)
           /\ \A k \in 1 .. Len(c) : c[k] \in ItemLine =>
                  c[k].of = t /\ c[k].list = l /\ c[k].sym \in Range(kept)
           /\ \/ Shows(c, t) = Range(kept)
              \/ Shows(c, t) # {} /\ Count(c, ItemsFor(t, l)) >= Limit
           /\ kept # <<>> => Shows(c, t) # {}
<1> DEFINE c == Anchors(t, l, kept)
           q == Cut(kept, Limit)
<1>1. CASE kept = <<>>
  <2>1. c = <<>> /\ Range(kept) = {}
    BY <1>1 DEF Anchors, Range
  <2>2. c \in Seq(PartLine) /\ Len(c) = 0
    BY <2>1
  <2> HIDE DEF c
  <2>3. WellHeaded(c) /\ Shows(c, t) = {}
    BY <2>2 DEF WellHeaded, Shows
  <2>4. \A k \in 1 .. Len(c) : FALSE
    BY <2>2
  <2>5. QED
    BY <1>1, <2>1, <2>2, <2>3, <2>4 DEF c
<1>2. CASE kept # <<>>
  <2>1. c = Headed(t, l, q)
    BY <1>2 DEF Anchors, Headed
  <2>2. /\ q \in Seq(Symbols) /\ Range(q) \subseteq Range(kept) /\ Len(q) \in Nat /\ Len(q) >= 1
        /\ q = kept \/ Len(q) >= Limit
    BY <1>2, VerbAssumption, CutIs
  <2> HIDE DEF q
  <2>3. WellHeaded(c)
    BY <2>1, <2>2, ChunkHeaded
  <2>5. /\ c \in Seq(PartLine)
        /\ Count(c, ItemsFor(t, l)) = Len(q) /\ Shows(c, t) = Range(q)
        /\ \A k \in 1 .. Len(c) : c[k] \in ItemLine =>
               c[k].of = t /\ c[k].list = l /\ c[k].sym \in Range(q)
    <3> DEFINE d == Headed(t, l, q)
    <3>1. /\ d \in Seq(PartLine)
          /\ Count(d, ItemsFor(t, l)) = Len(q) /\ Shows(d, t) = Range(q)
          /\ \A k \in 1 .. Len(d) : d[k] \in ItemLine =>
                 d[k].of = t /\ d[k].list = l /\ d[k].sym \in Range(q)
      <4>1. q \in Seq(Symbols)
        BY <2>2
      <4>2. d \in Seq(PartLine) /\ Count(d, ItemsFor(t, l)) = Len(q) /\ Shows(d, t) = Range(q)
        BY <4>1, ChunkIs
      <4>3. OnlyOf(d, t, l, q)
        BY <4>1, ChunkIs
      <4> HIDE DEF d
      <4>4. QED
        BY <4>2, <4>3 DEF OnlyOf
    <3> HIDE DEF c, d
    <3>2. c = d
      BY <2>1 DEF d
    <3>3. QED
      BY <3>1, <3>2
  <2>6. Range(q) # {}
    <3>1. 1 \in DOMAIN q
      BY <2>2
    <3>2. QED
      BY <3>1 DEF Range
  <2>7. QED
    BY <2>2, <2>3, <2>5, <2>6
<1>3. QED
  BY <1>1, <1>2

\* What is printed of a reply: the backend's symbols that the filter keeps,
\* all of them or up to the limit, and each below its header.
LEMMA LinesAre ==
    ASSUME nextOf \in Graphs, verb \in Verbs, json \in BOOLEAN, Total \in Nat,
           NEW t \in Symbols, NEW items \in SetToSeqs(nextOf[t])
    PROVE  LET c == Lines(t, items) IN
           /\ c \in Seq(PartLine) /\ Genuine(c)
           /\ \A k \in 1 .. Len(c) : c[k] \in ItemLine => c[k].of = t
           /\ \/ Due(t) \subseteq Shows(c, t)
              \/ /\ ~json /\ Shows(c, t) # {}
                 /\ IF verb = "types" THEN Total + Count(c, ItemLine) >= Limit
                    ELSE \A l \in ListsOf : Count(c, ItemsFor(t, l)) >= Limit
           /\ verb # "types" /\ ~json => WellHeaded(c)
<1> DEFINE c == Lines(t, items)
           kept == Filtered(items, Kept)
<1>1. /\ items \in Seq(Symbols) /\ Range(items) = nextOf[t] /\ nextOf[t] \subseteq Symbols
      /\ kept \in Seq(Symbols) /\ Range(kept) = nextOf[t] \cap Kept
  BY ReplyIs
<1>2. PartLine \subseteq AnyLine /\ 1 \in {1, 2} /\ 2 \in {1, 2} /\ 1 \in ListsOf
  BY DEF AnyLine, ListsOf
<1> HIDE DEF kept
<1>3. CASE json
  <2>1. c = ItemsOf(t, 1, items)
    BY <1>3 DEF Lines
  <2> HIDE DEF c
  <2>2. c \in Seq(PartLine) /\ Shows(c, t) = Range(items)
    BY <1>1, <1>2, <2>1, ItemsOfIs
  <2>3. \A k \in 1 .. Len(c) : c[k].of = t /\ c[k].list = 1 /\ c[k].sym \in Range(items)
    BY <1>1, <1>2, <2>1, ItemsAreOf
  <2>4. /\ c \in Seq(PartLine) /\ Shows(c, t) = Range(items)
        /\ \A k \in 1 .. Len(c) : c[k] \in ItemLine =>
               c[k].of = t /\ c[k].list = 1 /\ c[k].sym \in Range(items)
    BY <2>2, <2>3
  <2>5. Genuine(c)
    BY <1>1, <1>2, <1>3, <2>4 DEF Genuine
  <2>6. Due(t) \subseteq Shows(c, t)
    BY <1>1, <1>3, <2>4 DEF Due
  <2>7. QED
    BY <1>3, <2>4, <2>5, <2>6 DEF c
<1>4. CASE ~json /\ verb = "refs"
  <2>1. c = Anchors(t, 1, kept)
    BY <1>4 DEF Lines, kept
  <2> HIDE DEF c
  <2>2. /\ c \in Seq(PartLine) /\ WellHeaded(c)
        /\ \A k \in 1 .. Len(c) : c[k] \in ItemLine =>
               c[k].of = t /\ c[k].list = 1 /\ c[k].sym \in Range(kept)
        /\ \/ Shows(c, t) = Range(kept)
           \/ Shows(c, t) # {} /\ Count(c, ItemsFor(t, 1)) >= Limit
    BY <1>1, <1>2, <2>1, AnchorsAre
  <2>3. Genuine(c)
    BY <1>1, <1>2, <2>2 DEF Genuine
  <2>4. ListsOf = {1}
    BY <1>4 DEF ListsOf
  <2>5. \/ Due(t) \subseteq Shows(c, t)
        \/ ~json /\ Shows(c, t) # {} /\ \A l \in ListsOf : Count(c, ItemsFor(t, l)) >= Limit
    BY <1>1, <1>4, <2>2, <2>4 DEF Due
  <2>6. QED
    BY <1>4, <2>2, <2>3, <2>5 DEF c
<1>5. CASE ~json /\ verb = "callers"
  <2> DEFINE a == Anchors(t, 1, kept)
             b == Anchors(t, 2, kept)
  <2>1. c = a \o b
    BY <1>5 DEF Lines, kept
  <2>2. /\ a \in Seq(PartLine) /\ WellHeaded(a)
        /\ \A k \in 1 .. Len(a) : a[k] \in ItemLine =>
               a[k].of = t /\ a[k].list = 1 /\ a[k].sym \in Range(kept)
        /\ \/ Shows(a, t) = Range(kept)
           \/ Shows(a, t) # {} /\ Count(a, ItemsFor(t, 1)) >= Limit
    BY <1>1, <1>2, AnchorsAre
  <2>3. /\ b \in Seq(PartLine) /\ WellHeaded(b)
        /\ \A k \in 1 .. Len(b) : b[k] \in ItemLine =>
               b[k].of = t /\ b[k].list = 2 /\ b[k].sym \in Range(kept)
        /\ \/ Shows(b, t) = Range(kept)
           \/ Shows(b, t) # {} /\ Count(b, ItemsFor(t, 2)) >= Limit
    BY <1>1, <1>2, AnchorsAre
  <2> HIDE DEF a, b, c
  <2>4. ListsOf = {1, 2}
    BY <1>5 DEF ListsOf
  <2>5. c \in Seq(PartLine) /\ a \in Seq(AnyLine) /\ b \in Seq(AnyLine)
    BY <1>2, <2>1, <2>2, <2>3
  <2>6. Genuine(a) /\ Genuine(b)
    BY <1>1, <2>2, <2>3, <2>4 DEF Genuine
  <2>7. Genuine(c) /\ WellHeaded(c) /\ Shows(c, t) = Shows(a, t) \cup Shows(b, t)
    BY <2>1, <2>2, <2>3, <2>5, <2>6, GenuineFollowed, HeadersFollowed, ShowsFollowed
  <2>8. ASSUME NEW k \in 1 .. Len(c), c[k] \in ItemLine PROVE c[k].of = t
    <3>1. CASE k \in 1 .. Len(a)
      <4>1. c[k] = a[k]
        BY <2>1, <2>5, <3>1, Followed
      <4>2. QED
        BY <2>2, <2>8, <3>1, <4>1
    <3>2. CASE k - Len(a) \in 1 .. Len(b) /\ k = Len(a) + (k - Len(a))
      <4>1. c[k] = b[k - Len(a)]
        BY <2>1, <2>5, <3>2, Followed
      <4>2. QED
        BY <2>3, <2>8, <3>2, <4>1
    <3>3. QED
      BY <2>1, <2>5, <2>8, <3>1, <3>2, Followed
  <2>9. \A l \in {1, 2} : /\ Count(a, ItemsFor(t, l)) \in Nat /\ Count(b, ItemsFor(t, l)) \in Nat
                          /\ Count(c, ItemsFor(t, l)) = Count(a, ItemsFor(t, l)) + Count(b, ItemsFor(t, l))
    <3>1. ASSUME NEW l \in {1, 2}
          PROVE  Count(a, ItemsFor(t, l)) \in Nat /\ Count(b, ItemsFor(t, l)) \in Nat
      BY <2>5, CountIs
    <3>2. ASSUME NEW l \in {1, 2}
          PROVE  Count(c, ItemsFor(t, l)) = Count(a, ItemsFor(t, l)) + Count(b, ItemsFor(t, l))
      BY <2>1, <2>5, CountFollowed
    <3>3. QED
      BY <3>1, <3>2
  <2>10. \/ Due(t) \subseteq Shows(c, t)
         \/ ~json /\ Shows(c, t) # {} /\ \A l \in ListsOf : Count(c, ItemsFor(t, l)) >= Limit
    <3>1. CASE Shows(a, t) = Range(kept) \/ Shows(b, t) = Range(kept)
      BY <1>1, <1>5, <2>7, <3>1 DEF Due
    <3>2. CASE ~(Shows(a, t) = Range(kept) \/ Shows(b, t) = Range(kept))
      <4>1. Count(a, ItemsFor(t, 1)) >= Limit /\ Count(b, ItemsFor(t, 2)) >= Limit /\ Shows(c, t) # {}
        BY <2>2, <2>3, <2>7, <3>2
      <4>2. Limit \in Nat
        BY VerbAssumption
      <4>3. Count(c, ItemsFor(t, 1)) >= Limit /\ Count(c, ItemsFor(t, 2)) >= Limit
        BY <2>9, <4>1, <4>2
      <4>4. QED
        BY <1>5, <2>4, <4>1, <4>3
    <3>3. QED
      BY <3>1, <3>2
  <2>11. QED
    BY <1>5, <2>5, <2>7, <2>8, <2>10 DEF c
<1>6. CASE ~json /\ verb = "types"
  <2> DEFINE limit == IF Total < Limit THEN Limit - Total ELSE 0
             q == Cut(kept, limit)
  <2>2. limit \in Nat /\ Total + limit >= Limit /\ Limit \in Nat
    BY VerbAssumption
  <2>1. c = ItemsOf(t, 1, q) \/ c = Headed(t, 1, q)
    <3>1. c = (IF kept # <<>> /\ Total = 0 THEN <<Header(t, 1)>> ELSE <<>>) \o ItemsOf(t, 1, q)
      BY <1>6 DEF Lines, Types, kept
    <3> HIDE DEF limit
    <3>2. q \in Seq(Symbols)
      BY <1>1, <2>2, CutIs
    <3>3. ItemsOf(t, 1, q) \in Seq(PartLine)
      BY <1>2, <3>2, ItemsOfIs
    <3> HIDE DEF c, q
    <3>4. <<>> \o ItemsOf(t, 1, q) = ItemsOf(t, 1, q)
      BY <3>3
    <3>5. QED
      BY <3>1, <3>4 DEF Headed
  <2> HIDE DEF limit, c
  <2>4. /\ q \in Seq(Symbols) /\ Range(q) \subseteq Range(kept) /\ Len(q) \in Nat
        /\ q = kept \/ (Len(q) >= limit /\ Len(q) >= 1)
    BY <1>1, <2>2, CutIs
  <2> HIDE DEF q
  <2>5. /\ c \in Seq(PartLine)
        /\ Count(c, ItemLine) = Len(q) /\ Shows(c, t) = Range(q)
        /\ \A k \in 1 .. Len(c) : c[k] \in ItemLine =>
               c[k].of = t /\ c[k].list = 1 /\ c[k].sym \in Range(q)
    <3>1. CASE c = ItemsOf(t, 1, q)
      <4>1. c \in Seq(PartLine) /\ Count(c, ItemLine) = Len(q) /\ Shows(c, t) = Range(q)
        BY <1>2, <2>4, <3>1, ItemsOfIs
      <4>2. \A k \in 1 .. Len(c) : c[k].of = t /\ c[k].list = 1 /\ c[k].sym \in Range(q)
        BY <1>2, <2>4, <3>1, ItemsAreOf
      <4>3. QED
        BY <4>1, <4>2
    <3>2. CASE c = Headed(t, 1, q)
      <4>1. c \in Seq(PartLine) /\ Count(c, ItemLine) = Len(q) /\ Shows(c, t) = Range(q)
        BY <1>2, <2>4, <3>2, ChunkIs
      <4>2. OnlyOf(c, t, 1, q)
        BY <1>2, <2>4, <3>2, ChunkIs
      <4>3. QED
        BY <4>1, <4>2 DEF OnlyOf
    <3>3. QED
      BY <2>1, <3>1, <3>2
  <2>6. Genuine(c)
    BY <1>1, <1>2, <2>4, <2>5 DEF Genuine
  <2>7. CASE q = kept
    <3>1. Due(t) \subseteq Shows(c, t)
      BY <1>1, <1>6, <2>5, <2>7 DEF Due
    <3>2. QED
      BY <1>6, <2>5, <2>6, <3>1 DEF c
  <2>8. CASE Len(q) >= limit /\ Len(q) >= 1
    <3>1. 1 \in DOMAIN q
      BY <2>4, <2>8
    <3>2. Shows(c, t) # {}
      BY <2>5, <3>1 DEF Range
    <3>3. Total + Count(c, ItemLine) >= Limit
      BY <2>2, <2>4, <2>5, <2>8
    <3>4. QED
      BY <1>6, <2>5, <2>6, <3>2, <3>3 DEF c
  <2>9. QED
    BY <2>4, <2>7, <2>8
<1>7. QED
  BY <1>3, <1>4, <1>5, <1>6 DEF Verbs

-----------------------------------------------------------------------------
(***************************************************************************)
(* The inductive invariant of the commands that print.                     *)
(***************************************************************************)

\* A command has printed the lines s, of a tickets' replies, and ended as e.
CommandAt(s, a, e) ==
    /\ verb \in {"none", "callgraph"} \cup Verbs /\ json \in BOOLEAN
    /\ s \in Seq(AnyLine) /\ a \in Nat /\ a <= Len(roots) /\ e \in {"no", "printed", "failed"}
    /\ verb = "none" <=> cgPc = "resolve"
    /\ verb \notin Verbs \/ cgPc # "roots" => s = <<>> /\ a = 0 /\ e = "no"
    /\ verb \in Verbs => cgPc \in {"roots", "failed"}

\* Its items are of the tickets that were answered, and each of these is settled.
ShownAt(s, a) ==
    /\ Genuine(s)
    /\ \A k \in 1 .. Len(s) : s[k] \in ItemLine => \E i \in 1 .. a : roots[i] = s[k].of
    /\ \A i \in 1 .. a : Settled(s, roots[i])
    /\ verb \in {"refs", "callers"} /\ ~json => WellHeaded(s)

\* "(no ..)" is the last word.
EndAt(s, a, e) ==
    /\ e = "printed" => a = Len(roots)
    /\ (NoResults \in Range(s)) <=>
           ( /\ verb \in Verbs /\ ~json /\ e = "printed"
             /\ \A i \in 1 .. Len(roots) : nextOf[roots[i]] \cap Kept = {} )

VerbInvAt(s, a, e) == CommandAt(s, a, e) /\ ShownAt(s, a) /\ EndAt(s, a, e)

VerbInv == VerbInvAt(shown, answered, ended)

\* The parts of the invariant are read of the lines before or after a step.
LEMMA VerbInvAfter ==
    ASSUME UNCHANGED <<cgVars, verb, json>>, VerbInvAt(shown', answered', ended')
    PROVE  VerbInv'
<1>1. /\ verb' = verb /\ json' = json /\ roots' = roots /\ nextOf' = nextOf /\ cgPc' = cgPc
  BY DEF cgVars
<1>2. CommandAt(shown, answered, ended)'
  BY <1>1 DEF VerbInvAt, CommandAt
<1>3. Genuine(shown)' /\ (verb \in {"refs", "callers"} /\ ~json => WellHeaded(shown))'
  BY <1>1 DEF VerbInvAt, ShownAt, Genuine, ListsOf, WellHeaded
<1>4. \A i \in 1 .. answered' : Settled(shown, roots[i])'
  <2>1. ASSUME NEW i \in 1 .. answered' PROVE Settled(shown, roots[i])'
    <3>1. Settled(shown', roots[i])
      BY DEF VerbInvAt, ShownAt
    <3>2. Due(roots[i])' = Due(roots[i]) /\ ListsOf' = ListsOf
      BY <1>1 DEF Due, ListsOf
    <3>3. Shows(shown, roots[i])' = Shows(shown', roots[i])
      BY <1>1 DEF Shows
    <3>4. Count(shown, ItemLine)' = Count(shown', ItemLine)
      BY DEF Count
    <3>5. \A l : Count(shown, ItemsFor(roots[i], l))' = Count(shown', ItemsFor(roots[i], l))
      BY <1>1 DEF Count
    <3>6. QED
      BY <1>1, <3>1, <3>2, <3>3, <3>4, <3>5 DEF Settled
  <2>2. QED
    BY <2>1
<1>5. ShownAt(shown, answered)'
  BY <1>1, <1>3, <1>4 DEF VerbInvAt, ShownAt
<1>6. EndAt(shown, answered, ended)'
  BY <1>1 DEF VerbInvAt, EndAt
<1>7. QED
  BY <1>2, <1>5, <1>6 DEF VerbInv, VerbInvAt

\* Nothing is printed before the first answer.
LEMMA NothingPrinted ==
    ASSUME verb \in {"none", "callgraph"} \cup Verbs, json \in BOOLEAN, roots \in Seq(Symbols),
           shown = <<>>, answered = 0, ended = "no",
           verb = "none" <=> cgPc = "resolve", verb \in Verbs => cgPc \in {"roots", "failed"}
    PROVE  VerbInv
<1>1. Len(shown) = 0 /\ shown \in Seq(AnyLine) /\ Range(shown) = {} /\ Len(roots) \in Nat
  BY DEF Range
<1>2. CommandAt(shown, answered, ended)
  BY <1>1 DEF CommandAt
<1>3. ShownAt(shown, answered)
  BY <1>1 DEF ShownAt, Genuine, WellHeaded
<1>4. EndAt(shown, answered, ended)
  BY <1>1 DEF EndAt
<1>5. QED
  BY <1>2, <1>3, <1>4 DEF VerbInv, VerbInvAt

\* The same after a step.
LEMMA NothingPrintedNext ==
    ASSUME verb' \in {"none", "callgraph"} \cup Verbs, json' \in BOOLEAN, roots' \in Seq(Symbols),
           shown' = <<>>, answered' = 0, ended' = "no",
           verb' = "none" <=> cgPc' = "resolve", verb' \in Verbs => cgPc' \in {"roots", "failed"}
    PROVE  VerbInv'
<1>1. Len(shown') = 0 /\ shown' \in Seq(AnyLine) /\ Range(shown') = {} /\ Len(roots') \in Nat
  BY DEF Range
<1>2. CommandAt(shown, answered, ended)'
  BY <1>1 DEF CommandAt
<1>3. ShownAt(shown, answered)'
  BY <1>1 DEF ShownAt, Genuine, WellHeaded
<1>4. EndAt(shown, answered, ended)'
  BY <1>1 DEF EndAt
<1>5. QED
  BY <1>2, <1>3, <1>4 DEF VerbInv, VerbInvAt

\* total counts the lines that are items.
LEMMA TotalIs ==
    ASSUME shown \in Seq(AnyLine)
    PROVE  /\ ItemLines = {k \in 1 .. Len(shown) : shown[k] \in ItemLine}
           /\ Total = Count(shown, ItemLine) /\ Total \in Nat
           /\ Total = 0 <=> \A k \in 1 .. Len(shown) : shown[k] \notin ItemLine
<1>1. \A k \in 1 .. Len(shown) : shown[k] \in AnyLine
  OBVIOUS
<1>2. \A k \in 1 .. Len(shown) : shown[k] \in ItemLine <=> shown[k].line = "item"
  BY <1>1, LinesDiffer
<1>3. ItemLines = {k \in 1 .. Len(shown) : shown[k] \in ItemLine}
  BY <1>2 DEF ItemLines
<1>4. Total = Count(shown, ItemLine)
  BY <1>3 DEF Total, Count
<1>5. QED
  BY <1>3, <1>4, CountIs

\* What is settled stays settled, whatever is printed below it.
LEMMA SettledStays ==
    ASSUME NEW a \in Seq(AnyLine), NEW b \in Seq(AnyLine), NEW t, Settled(a, t)
    PROVE  Settled(a \o b, t)
<1>1. Shows(a, t) \subseteq Shows(a \o b, t)
  BY ShowsFollowed
<1>2. ASSUME NEW X PROVE Count(a, X) \in Nat /\ Count(b, X) \in Nat
  BY CountIs
<1>3. ASSUME NEW X PROVE Count(a \o b, X) = Count(a, X) + Count(b, X)
  BY CountFollowed
<1>4. Limit \in Nat
  BY VerbAssumption
<1>5. \A X : Count(a, X) >= Limit => Count(a \o b, X) >= Limit
  BY <1>2, <1>3, <1>4
<1>6. QED
  BY <1>1, <1>5 DEF Settled

\* A command goes on from what it has printed with the reply for the next ticket.
LEMMA AnswerKeeps ==
    ASSUME VerbInv, CallGraphTypeOK, Answer
    PROVE  VerbInv'
<1> DEFINE t == roots[answered + 1]
<1>1. /\ verb \in Verbs /\ json \in BOOLEAN /\ shown \in Seq(AnyLine) /\ answered \in Nat
      /\ answered < Len(roots) /\ ended = "no" /\ cgPc = "roots"
      /\ UNCHANGED <<cgVars, verb, json>> /\ answered' = answered + 1 /\ ended' = ended
  BY DEF VerbInv, VerbInvAt, CommandAt, Answer, Asking, verbVars
<1>2. nextOf \in Graphs /\ roots \in Seq(Symbols) /\ Len(roots) \in Nat
  BY DEF CallGraphTypeOK
<1>3. t \in Symbols /\ answered + 1 \in 1 .. Len(roots)
  BY <1>1, <1>2
<1>4. PICK items \in SetToSeqs(nextOf[t]) : shown' = shown \o Lines(t, items)
  BY DEF Answer
<1> DEFINE c == Lines(t, items)
<1>5. Total = Count(shown, ItemLine) /\ Total \in Nat
  BY <1>1, TotalIs
<1> HIDE DEF t
<1>6. /\ c \in Seq(PartLine) /\ Genuine(c)
      /\ \A k \in 1 .. Len(c) : c[k] \in ItemLine => c[k].of = t
      /\ \/ Due(t) \subseteq Shows(c, t)
         \/ /\ ~json /\ Shows(c, t) # {}
            /\ IF verb = "types" THEN Total + Count(c, ItemLine) >= Limit
               ELSE \A l \in ListsOf : Count(c, ItemsFor(t, l)) >= Limit
      /\ verb # "types" /\ ~json => WellHeaded(c)
  BY <1>1, <1>2, <1>3, <1>4, <1>5, LinesAre
<1>7. c \in Seq(AnyLine)
  BY <1>6 DEF AnyLine
<1>8. shown' = shown \o c
  BY <1>4
<1> HIDE DEF c
<1>9. /\ Len(shown') = Len(shown) + Len(c) /\ Len(shown) \in Nat /\ Len(c) \in Nat
      /\ \A i \in 1 .. Len(shown) : shown'[i] = shown[i]
      /\ \A i \in 1 .. Len(c) : shown'[Len(shown) + i] = c[i]
      /\ \A k \in 1 .. Len(shown') : k \in 1 .. Len(shown) \/ (k - Len(shown) \in 1 .. Len(c) /\ k = Len(shown) + (k - Len(shown)))
      /\ shown' \in Seq(AnyLine)
  BY <1>1, <1>7, <1>8, Followed
<1>10. CommandAt(shown', answered', ended')
  BY <1>1, <1>2, <1>9 DEF VerbInv, VerbInvAt, CommandAt
<1>11. Genuine(shown')
  BY <1>1, <1>6, <1>7, <1>8, GenuineFollowed DEF VerbInv, VerbInvAt, ShownAt
<1>12. ASSUME NEW k \in 1 .. Len(shown'), shown'[k] \in ItemLine
       PROVE  \E i \in 1 .. answered' : roots[i] = shown'[k].of
  <2>1. CASE k \in 1 .. Len(shown)
    <3>1. PICK i \in 1 .. answered : roots[i] = shown[k].of
      BY <1>9, <1>12, <2>1 DEF VerbInv, VerbInvAt, ShownAt
    <3>2. i \in 1 .. answered'
      BY <1>1
    <3>3. QED
      BY <1>9, <2>1, <3>1, <3>2
  <2>2. CASE k - Len(shown) \in 1 .. Len(c) /\ k = Len(shown) + (k - Len(shown))
    <3>1. shown'[k] = c[k - Len(shown)]
      BY <1>9, <2>2
    <3>2. shown'[k].of = t
      BY <1>6, <1>12, <2>2, <3>1
    <3>3. answered + 1 \in 1 .. answered' /\ roots[answered + 1] = t
      BY <1>1 DEF t
    <3>4. QED
      BY <3>2, <3>3
  <2>3. QED
    BY <1>9, <2>1, <2>2
<1>13. ASSUME NEW i \in 1 .. answered' PROVE Settled(shown', roots[i])
  <2>1. CASE i \in 1 .. answered
    <3>1. Settled(shown, roots[i])
      BY <2>1 DEF VerbInv, VerbInvAt, ShownAt
    <3>2. QED
      BY <1>1, <1>7, <1>8, <3>1, SettledStays
  <2>2. CASE i \notin 1 .. answered
    <3>1. roots[i] = t
      BY <1>1, <2>2 DEF t
    <3>2. Shows(c, t) \subseteq Shows(shown', t)
      BY <1>1, <1>7, <1>8, ShowsFollowed
    <3>3. ASSUME NEW X PROVE Count(shown, X) \in Nat /\ Count(c, X) \in Nat
      BY <1>1, <1>7, CountIs
    <3>4. ASSUME NEW X PROVE Count(shown', X) = Count(shown, X) + Count(c, X)
      BY <1>1, <1>7, <1>8, CountFollowed
    <3>5. Limit \in Nat
      BY VerbAssumption
    <3>6. \A X : Count(c, X) >= Limit => Count(shown', X) >= Limit
      BY <3>3, <3>4, <3>5
    <3>7. Count(shown', ItemLine) = Total + Count(c, ItemLine)
      BY <1>5, <3>4
    <3>8. Settled(shown', t)
      BY <1>6, <3>2, <3>6, <3>7 DEF Settled
    <3>9. QED
      BY <3>1, <3>8
  <2>3. QED
    BY <2>1, <2>2
<1>14. verb \in {"refs", "callers"} /\ ~json => WellHeaded(shown')
  BY <1>1, <1>6, <1>7, <1>8, HeadersFollowed DEF VerbInv, VerbInvAt, ShownAt
<1>15. ShownAt(shown', answered')
  BY <1>11, <1>12, <1>13, <1>14 DEF ShownAt
<1>16. EndAt(shown', answered', ended')
  <2>1. NoResults \notin Range(shown)
    BY <1>1 DEF VerbInv, VerbInvAt, EndAt
  <2>2. \A k \in 1 .. Len(c) : c[k] # NoResults
    <3>1. \A k \in 1 .. Len(c) : c[k] \in PartLine /\ c[k] \in AnyLine
      BY <1>6, <1>7
    <3>2. QED
      BY <3>1, LinesDiffer
  <2>3. ASSUME NEW k \in 1 .. Len(shown') PROVE shown'[k] # NoResults
    <3>1. CASE k \in 1 .. Len(shown)
      BY <1>1, <1>9, <2>1, <3>1 DEF Range
    <3>2. CASE k - Len(shown) \in 1 .. Len(c) /\ k = Len(shown) + (k - Len(shown))
      <4>1. shown'[k] = c[k - Len(shown)]
        BY <1>9, <3>2
      <4>2. QED
        BY <2>2, <3>2, <4>1
    <3>3. QED
      BY <1>9, <3>1, <3>2
  <2>4. NoResults \notin Range(shown')
    BY <1>9, <2>3 DEF Range
  <2>5. QED
    BY <1>1, <2>4 DEF EndAt
<1>17. QED
  BY <1>1, <1>10, <1>15, <1>16, VerbInvAfter DEF VerbInvAt

\* A request that fails leaves what was printed.
LEMMA AnswerFailsKeeps ==
    ASSUME VerbInv, AnswerFails
    PROVE  VerbInv'
<1>1. /\ UNCHANGED <<cgVars, verb, json>> /\ shown' = shown /\ answered' = answered
      /\ verb \in Verbs /\ cgPc = "roots" /\ ended = "no" /\ ended' = "failed"
  BY DEF AnswerFails, Asking
<1>2. CommandAt(shown', answered', ended')
  BY <1>1 DEF VerbInv, VerbInvAt, CommandAt
<1>3. ShownAt(shown', answered')
  BY <1>1 DEF VerbInv, VerbInvAt
<1>4. EndAt(shown', answered', ended')
  BY <1>1 DEF VerbInv, VerbInvAt, EndAt
<1>5. QED
  BY <1>1, <1>2, <1>3, <1>4, VerbInvAfter DEF VerbInvAt

\* "(no ..)" is no item and no header.
LEMMA LastWord ==
    /\ <<NoResults>> \in Seq(AnyLine) /\ Genuine(<<NoResults>>) /\ WellHeaded(<<NoResults>>)
    /\ NoResults \notin ItemLine
<1>1. NoResults \in AnyLine /\ NoResults.line = "(no ..)"
  BY DEF AnyLine, NoResults
<1>2. NoResults \notin ItemLine
  BY <1>1, LinesDiffer
<1> DEFINE b == <<NoResults>>
<1>3. b \in Seq(AnyLine) /\ Len(b) = 1 /\ b[1] = NoResults
  <2>1. \A x \in AnyLine : <<x>> \in Seq(AnyLine) /\ Len(<<x>>) = 1 /\ <<x>>[1] = x
    OBVIOUS
  <2>2. QED
    BY <1>1, <2>1
<1> HIDE DEF b
<1>4. \A k \in 1 .. Len(b) : b[k] = NoResults /\ b[k].line = "(no ..)"
  <2>1. ASSUME NEW k \in 1 .. Len(b) PROVE k = 1
    BY <1>3
  <2>2. QED
    BY <1>1, <1>3, <2>1
<1>5. Genuine(b)
  BY <1>2, <1>4 DEF Genuine
<1>6. WellHeaded(b)
  BY <1>4 DEF WellHeaded
<1>7. QED
  BY <1>2, <1>3, <1>5, <1>6 DEF b

\* The end of a command: "(no ..)" if it has printed nothing.
LEMMA EndVerbKeeps ==
    ASSUME VerbInv, CallGraphTypeOK, EndVerb
    PROVE  VerbInv'
<1>1. /\ UNCHANGED <<cgVars, verb, json>> /\ answered' = answered /\ answered = Len(roots)
      /\ verb \in Verbs /\ cgPc = "roots" /\ ended = "no" /\ ended' = "printed"
      /\ shown' = IF ~json /\ Total = 0 THEN Append(shown, NoResults) ELSE shown
  BY DEF EndVerb, Asking, NoneShown
<1>2. shown \in Seq(AnyLine) /\ Len(shown) \in Nat /\ json \in BOOLEAN
  BY DEF VerbInv, VerbInvAt, CommandAt
<1>3. \A k \in 1 .. Len(shown) : shown[k] \in ItemLine =>
          /\ \E i \in 1 .. Len(roots) : roots[i] = shown[k].of
          /\ shown[k].sym \in nextOf[shown[k].of] /\ (json \/ shown[k].sym \in Kept)
  BY <1>1 DEF VerbInv, VerbInvAt, ShownAt, Genuine
<1>4. \A i \in 1 .. Len(roots) : Settled(shown, roots[i])
  BY <1>1 DEF VerbInv, VerbInvAt, ShownAt
<1>5. NoResults \notin Range(shown)
  BY <1>1 DEF VerbInv, VerbInvAt, EndAt
<1>6. CASE ~json /\ Total = 0
  <2> DEFINE b == <<NoResults>>
  <2>1. shown' = shown \o b
    BY <1>1, <1>2, <1>6
  <2>2. b \in Seq(AnyLine) /\ Genuine(b) /\ WellHeaded(b) /\ Len(b) = 1 /\ b[1] = NoResults
    BY LastWord
  <2> HIDE DEF b
  <2>3. /\ shown' \in Seq(AnyLine) /\ Len(shown') = Len(shown) + 1
        /\ \A k \in 1 .. Len(shown) : shown'[k] = shown[k]
        /\ shown'[Len(shown) + 1] = NoResults
    <3>1. /\ Len(shown \o b) = Len(shown) + Len(b) /\ shown \o b \in Seq(AnyLine)
          /\ \A i \in 1 .. Len(shown) : (shown \o b)[i] = shown[i]
          /\ \A i \in 1 .. Len(b) : (shown \o b)[Len(shown) + i] = b[i]
      <4>1. shown \in Seq(AnyLine) /\ b \in Seq(AnyLine)
        BY <1>2, <2>2
      <4>2. QED
        BY <4>1, Followed
    <3>2. 1 \in 1 .. Len(b)
      BY <2>2
    <3>3. QED
      BY <2>1, <2>2, <3>1, <3>2
  <2>4. \A k \in 1 .. Len(shown) : shown[k] \notin ItemLine
    BY <1>2, <1>6, TotalIs
  <2>5. \A k \in 1 .. Len(shown') : shown'[k] \notin ItemLine
    <3>1. ASSUME NEW k \in 1 .. Len(shown') PROVE shown'[k] \notin ItemLine
      <4>1. k \in 1 .. Len(shown) \/ k = Len(shown) + 1
        BY <1>2, <2>3
      <4>2. QED
        BY <2>3, <2>4, <4>1, LastWord
    <3>2. QED
      BY <3>1
  <2>6. CommandAt(shown', answered', ended')
    BY <1>1, <2>3 DEF VerbInv, VerbInvAt, CommandAt
  <2>7. ShownAt(shown', answered')
    <3>1. Genuine(shown')
      BY <2>5 DEF Genuine
    <3>2. \A i \in 1 .. answered' : Settled(shown', roots[i])
      <4>1. ASSUME NEW i \in 1 .. answered' PROVE Settled(shown', roots[i])
        <5>1. Settled(shown, roots[i])
          BY <1>1, <1>4
        <5>2. QED
          BY <1>2, <2>1, <2>2, <5>1, SettledStays
      <4>2. QED
        BY <4>1
    <3>3. verb \in {"refs", "callers"} /\ ~json => WellHeaded(shown')
      BY <1>2, <2>1, <2>2, HeadersFollowed DEF VerbInv, VerbInvAt, ShownAt
    <3>4. QED
      BY <2>5, <3>1, <3>2, <3>3 DEF ShownAt
  <2>8. NoResults \in Range(shown')
    <3>1. Len(shown) + 1 \in DOMAIN shown'
      BY <1>2, <2>3
    <3>2. QED
      BY <2>3, <3>1 DEF Range
  <2>9. ASSUME NEW i \in 1 .. Len(roots) PROVE nextOf[roots[i]] \cap Kept = {}
    <3>1. Shows(shown, roots[i]) = {}
      BY <2>4 DEF Shows
    <3>2. Due(roots[i]) = {}
      BY <1>4, <3>1 DEF Settled
    <3>3. QED
      BY <1>6, <3>2 DEF Due
  <2>10. EndAt(shown', answered', ended')
    BY <1>1, <1>6, <2>8, <2>9 DEF EndAt
  <2>11. QED
    BY <1>1, <2>6, <2>7, <2>10, VerbInvAfter DEF VerbInvAt
<1>7. CASE ~(~json /\ Total = 0)
  <2>1. shown' = shown
    BY <1>1, <1>7
  <2>2. CommandAt(shown', answered', ended')
    BY <1>1, <2>1 DEF VerbInv, VerbInvAt, CommandAt
  <2>3. ShownAt(shown', answered')
    BY <1>1, <2>1 DEF VerbInv, VerbInvAt
  <2>4. ASSUME ~json PROVE ~(\A i \in 1 .. Len(roots) : nextOf[roots[i]] \cap Kept = {})
    <3>1. PICK k \in 1 .. Len(shown) : shown[k] \in ItemLine
      BY <1>2, <1>7, <2>4, TotalIs
    <3>2. QED
      BY <1>3, <2>4, <3>1
  <2>5. EndAt(shown', answered', ended')
    BY <1>1, <1>5, <2>1, <2>4 DEF EndAt
  <2>6. QED
    BY <1>1, <2>2, <2>3, <2>5, VerbInvAfter DEF VerbInvAt
<1>8. QED
  BY <1>6, <1>7

\* A step that leaves the command alone.
LEMMA VerbAlone ==
    ASSUME VerbInv, UNCHANGED <<cgVars, verbVars>>
    PROVE  VerbInv'
<1>1. UNCHANGED <<cgVars, verb, json>> /\ shown' = shown /\ answered' = answered /\ ended' = ended
  BY DEF verbVars
<1>2. QED
  BY <1>1, VerbInvAfter DEF VerbInv

\* The invariant says what a printing command promises.
LEMMA NothingHiddenFromInv ==
    ASSUME VerbInv, CallGraphTypeOK
    PROVE  NothingHidden
<1>1. /\ shown \in Seq(AnyLine) /\ Genuine(shown) /\ roots \in Seq(Symbols) /\ Len(roots) \in Nat
      /\ ended = "printed" => answered = Len(roots)
      /\ \A i \in 1 .. answered : Settled(shown, roots[i])
      /\ (NoResults \in Range(shown)) <=>
           ( /\ verb \in Verbs /\ ~json /\ ended = "printed"
             /\ \A i \in 1 .. Len(roots) : nextOf[roots[i]] \cap Kept = {} )
  BY DEF VerbInv, VerbInvAt, CommandAt, ShownAt, EndAt, CallGraphTypeOK
<1>2. ItemLines = {k \in 1 .. Len(shown) : shown[k] \in ItemLine} /\ Total = Count(shown, ItemLine)
  BY <1>1, TotalIs
<1>3. \A k \in ItemLines : shown[k].sym \in nextOf[shown[k].of] /\ (json \/ shown[k].sym \in Kept)
  BY <1>1, <1>2 DEF Genuine
<1>4. ASSUME ended = "printed", NEW i \in 1 .. Len(roots)
      PROVE  LET due  == IF json THEN nextOf[roots[i]] ELSE nextOf[roots[i]] \cap Kept
                 mine == ShownOf(roots[i]) IN
             \/ due \subseteq {shown[k].sym : k \in mine}
             \/ /\ ~json /\ mine # {}
                /\ IF verb = "types" THEN Total >= Limit
                   ELSE \A l \in {shown[k].list : k \in mine} :
                            Cardinality({k \in mine : shown[k].list = l}) >= Limit
  <2> DEFINE t == roots[i]
             mine == ShownOf(t)
  <2>1. t \in Symbols /\ Settled(shown, t)
    BY <1>1, <1>4
  <2> HIDE DEF t
  <2>2. mine = {k \in 1 .. Len(shown) : shown[k] \in ItemLine /\ shown[k].of = t}
    BY <1>2 DEF ShownOf
  <2>3. Shows(shown, t) \subseteq {shown[k].sym : k \in mine} /\ (Shows(shown, t) # {} => mine # {})
    BY <2>2 DEF Shows
  <2>4. ASSUME NEW l \in {shown[k].list : k \in mine}
        PROVE  l \in ListsOf /\ {k \in mine : shown[k].list = l} = {k \in 1 .. Len(shown) : shown[k] \in ItemsFor(t, l)}
    <3>1. l \in ListsOf
      BY <1>1, <2>2 DEF Genuine
    <3>2. {k \in mine : shown[k].list = l} = {k \in 1 .. Len(shown) : shown[k] \in ItemsFor(t, l)}
      BY <2>2 DEF ItemsFor
    <3>3. QED
      BY <3>1, <3>2
  <2>5. CASE Due(t) \subseteq Shows(shown, t)
    BY <2>3, <2>5 DEF Due, t
  <2>6. CASE ~(Due(t) \subseteq Shows(shown, t))
    <3>1. /\ ~json /\ Shows(shown, t) # {}
          /\ IF verb = "types" THEN Count(shown, ItemLine) >= Limit
             ELSE \A l \in ListsOf : Count(shown, ItemsFor(t, l)) >= Limit
      BY <2>1, <2>6 DEF Settled
    <3>2. verb # "types" => \A l \in {shown[k].list : k \in mine} :
                                Cardinality({k \in mine : shown[k].list = l}) >= Limit
      <4>1. ASSUME verb # "types", NEW l \in {shown[k].list : k \in mine}
            PROVE  Cardinality({k \in mine : shown[k].list = l}) >= Limit
        <5>1. Count(shown, ItemsFor(t, l)) >= Limit
          BY <2>4, <3>1, <4>1
        <5>2. {k \in mine : shown[k].list = l} = {k \in 1 .. Len(shown) : shown[k] \in ItemsFor(t, l)}
          BY <2>4
        <5> HIDE DEF mine
        <5>3. QED
          BY <5>1, <5>2 DEF Count
      <4>2. QED
        BY <4>1
    <3> HIDE DEF mine
    <3>3. ~json /\ mine # {} /\ (verb = "types" => Total >= Limit)
      BY <1>2, <2>3, <3>1
    <3>4. QED
      BY <3>2, <3>3 DEF mine, t
  <2>7. QED
    BY <2>5, <2>6
<1>5. (NoResults \in Range(shown)) <=>
           ( /\ verb \in Verbs /\ ~json /\ ended = "printed"
             /\ \A i \in 1 .. Len(roots) : nextOf[roots[i]] \cap Kept = {} )
  BY <1>1
<1>6. ended = "printed" =>
          \A i \in 1 .. Len(roots) :
             LET due  == IF json THEN nextOf[roots[i]] ELSE nextOf[roots[i]] \cap Kept
                 mine == ShownOf(roots[i]) IN
             \/ due \subseteq {shown[k].sym : k \in mine}
             \/ /\ ~json /\ mine # {}
                /\ IF verb = "types" THEN Total >= Limit
                   ELSE \A l \in {shown[k].list : k \in mine} :
                            Cardinality({k \in mine : shown[k].list = l}) >= Limit
  BY <1>4
<1>7. QED
  BY <1>3, <1>5, <1>6, Zenon DEF NothingHidden

\* So does what it says of headers.
LEMMA OwnHeaderFromInv ==
    ASSUME VerbInv
    PROVE  OwnHeader
BY DEF VerbInv, VerbInvAt, ShownAt, WellHeaded, OwnHeader

\* The first elements of a list that is not empty are some.
LEMMA FirstIs ==
    ASSUME NEW S, NEW s \in Seq(S), NEW n \in Nat
    PROVE  First(s, n) \in Seq(S) /\ (s # <<>> /\ n > 0 => First(s, n) # <<>>)
<1> DEFINE m == IF n < Len(s) THEN n ELSE Len(s)
<1>1. m \in 0 .. Len(s) /\ m \in Nat /\ (s # <<>> /\ n > 0 => m > 0)
  OBVIOUS
<1>2. First(s, n) = SubSeq(s, 1, m)
  BY DEF First
<1> HIDE DEF m
<1>3. SubSeq(s, 1, m) \in Seq(S) /\ Len(SubSeq(s, 1, m)) = m
  BY <1>1
<1>4. QED
  BY <1>1, <1>2, <1>3

\* A lookup gives a list of symbols.
LEMMA LookupIs ==
    ASSUME NameInv
    PROVE  Containing(Substr, Limit) \in Seq(Symbols)
           /\ (loaded => \A n \in Names : Exact(n) \in Seq(Symbols))
<1>1. rows \in Seq(AnyRow) /\ (loaded => InNameOrder(rows))
  BY DEF NameInv, NameTypeInv, LoadedInv
<1>2. Tickets \cup {Torn} \subseteq Symbols /\ Limit \in Nat
  BY SessionAssumption, VerbAssumption
<1>3. ASSUME NEW s \in Seq(AnyRow) PROVE TicketsOf(s) \in Seq(Symbols)
  <2>1. \A i \in 1 .. Len(s) : s[i].ticket \in Symbols
    <3>1. \A i \in 1 .. Len(s) : s[i] \in AnyRow
      OBVIOUS
    <3>2. \A r \in AnyRow : r.ticket \in Tickets \cup {Torn}
      BY DEF AnyRow
    <3>3. QED
      BY <1>2, <3>1, <3>2
  <2>2. Len(s) \in Nat
    OBVIOUS
  <2>3. QED
    BY <2>1, <2>2 DEF TicketsOf
<1>4. Containing(Substr, Limit) \in Seq(Symbols)
  <2> DEFINE hits == Filtered(rows, {r \in Range(rows) : r.name \in Substr})
             n == IF Limit = 0 THEN 1 ELSE Limit
  <2>1. hits \in Seq(AnyRow)
    BY <1>1, FilteredIs
  <2>2. n \in Nat
    BY <1>2
  <2>3. Containing(Substr, Limit) = TicketsOf(First(hits, n))
    BY DEF Containing
  <2> HIDE DEF hits, n
  <2>4. First(hits, n) \in Seq(AnyRow)
    BY <2>1, <2>2, FirstIs
  <2>5. QED
    BY <1>3, <2>3, <2>4
<1>5. ASSUME loaded, NEW n \in Names PROVE Exact(n) \in Seq(Symbols)
  <2>1. Exact(n) \in Seq(Tickets \cup {Torn})
    BY <1>1, <1>5, ExactIs
  <2>2. QED
    BY <1>2, <2>1
<1>6. QED
  BY <1>4, <1>5

\* What resolve does, for the walk and the other commands.
Resolved ==
    /\ cgPc = "resolve" /\ cgPc' \in {"roots", "failed"}
    /\ verb' \in Verbs \cup {"callgraph"} /\ json' \in BOOLEAN
    /\ UNCHANGED <<nameVars, maxSyms, nextOf, nodes, qi, reply, answered, shown, ended>>
    /\ \/ cgPc' = "failed" /\ UNCHANGED roots
       \/ cgPc' = "roots" /\ roots' \in Seq(Symbols) \ {<<>>}

\* resolve fails, or gives at least one ticket.
LEMMA ResolveGivesRoots ==
    ASSUME NameInv, NEW v \in Verbs \cup {"callgraph"},
           ResolveExact(v) \/ ResolveSubstr(v) \/ ResolveTicket(v)
    PROVE  Resolved
<1>1. /\ loaded /\ cgPc = "resolve" /\ verb' = v /\ json' \in BOOLEAN
      /\ UNCHANGED <<answered, shown, ended>>
  BY DEF ResolveExact, ResolveSubstr, ResolveTicket, Resolve, Command
<1>2. UNCHANGED <<nameVars, maxSyms, nextOf, nodes, qi, reply>>
  BY DEF ResolveExact, ResolveSubstr, ResolveTicket, Resolve
<1>3. ASSUME NEW found \in Seq(Symbols), Resolve(v, found) PROVE Resolved
  <2>1. PICK out \in Unanswered :
           LET defined == Filtered(found, DefIn \ out) IN
           IF NoTicket(found, defined)
           THEN cgPc' = "failed" /\ UNCHANGED roots
           ELSE cgPc' = "roots" /\ roots' = Truncated(defined, Cap(v))
    BY <1>3 DEF Resolve
  <2> DEFINE defined == Filtered(found, DefIn \ out)
             cap == Cap(v)
  <2>2. defined \in Seq(Symbols)
    BY FilteredIs
  <2>3. cap \in Nat
    BY SessionAssumption, VerbAssumption DEF Cap
  <2>4. \/ cgPc' = "failed" /\ UNCHANGED roots
        \/ defined # <<>> /\ cgPc' = "roots" /\ roots' = Truncated(defined, cap)
    BY <2>1 DEF NoTicket
  <2> HIDE DEF defined, cap
  <2>5. defined # <<>> => Truncated(defined, cap) \in Seq(Symbols) \ {<<>>}
    BY <2>2, <2>3, FirstIs DEF Truncated
  <2>6. \/ cgPc' = "failed" /\ UNCHANGED roots
        \/ cgPc' = "roots" /\ roots' \in Seq(Symbols) \ {<<>>}
    BY <2>4, <2>5
  <2>7. QED
    BY <1>1, <1>2, <2>6 DEF Resolved
<1>4. CASE ResolveExact(v)
  <2>1. PICK n \in Names : Resolve(v, Exact(n))
    BY <1>4 DEF ResolveExact
  <2>2. Exact(n) \in Seq(Symbols)
    BY <1>1, LookupIs
  <2>3. QED
    BY <1>3, <2>1, <2>2
<1>5. CASE ResolveSubstr(v)
  BY <1>3, <1>5, LookupIs DEF ResolveSubstr
<1>6. CASE ResolveTicket(v)
  <2>1. PICK t \in Tickets : roots' = <<t>>
    BY <1>6 DEF ResolveTicket
  <2>2. t \in Symbols
    BY SessionAssumption
  <2>3. roots' \in Seq(Symbols) /\ roots' # <<>>
    BY <2>1, <2>2
  <2>4. cgPc' = "roots"
    BY <1>6 DEF ResolveTicket
  <2>5. QED
    BY <1>1, <1>2, <2>3, <2>4 DEF Resolved
<1>7. QED
  BY <1>4, <1>5, <1>6

\* Every step of a session is one of name-index or the user's, of resolve, of
\* the walk, or of a command that prints.
LEMMA SessionSteps ==
    ASSUME NameInv, [Next]_vars
    PROVE  \/ NameStep /\ UNCHANGED <<cgVars, verbVars>>
           \/ Resolved
           \/ WalkStep /\ verb = "callgraph" /\ UNCHANGED <<nameVars, verbVars>>
           \/ VerbStep /\ UNCHANGED nameVars
           \/ UNCHANGED <<nameVars, cgVars, verbVars>>
BY ResolveGivesRoots DEF Next, vars

\* The step of a session is one of the name index, and one of the call graph.
LEMMA SessionStepParts ==
    ASSUME NameInv, [Next]_vars
    PROVE  [NameStep]_nameVars /\ [AnyRoots \/ WalkStep]_cgVars
<1>1. CASE NameStep /\ UNCHANGED <<cgVars, verbVars>>
  BY <1>1
<1>2. CASE Resolved
  BY <1>2 DEF Resolved, AnyRoots
<1>3. CASE WalkStep /\ verb = "callgraph" /\ UNCHANGED <<nameVars, verbVars>>
  BY <1>3
<1>4. CASE VerbStep /\ UNCHANGED nameVars
  BY <1>4 DEF VerbStep, Answer, AnswerFails, EndVerb
<1>5. CASE UNCHANGED <<nameVars, cgVars, verbVars>>
  BY <1>5
<1>6. QED
  BY <1>1, <1>2, <1>3, <1>4, <1>5, SessionSteps

\* The invariant of the printing commands holds after each step of a session.
LEMMA VerbInvNext ==
    ASSUME NameInv, CallGraphTypeOK, VerbInv, [Next]_vars
    PROVE  VerbInv'
<1>1. CASE UNCHANGED <<cgVars, verbVars>>
  BY <1>1, VerbAlone
<1>2. CASE Resolved
  <2>1. shown = <<>> /\ answered = 0 /\ ended = "no"
    BY <1>2 DEF Resolved, VerbInv, VerbInvAt, CommandAt, Verbs
  <2>2. roots' \in Seq(Symbols)
    BY <1>2 DEF Resolved, CallGraphTypeOK
  <2>3. /\ verb' \in {"callgraph"} \cup Verbs /\ verb' # "none" /\ json' \in BOOLEAN
        /\ cgPc' \in {"roots", "failed"} /\ UNCHANGED <<answered, shown, ended>>
    BY <1>2 DEF Resolved, Verbs
  <2>4. QED
    BY <2>1, <2>2, <2>3, NothingPrintedNext
<1>3. CASE WalkStep /\ verb = "callgraph" /\ UNCHANGED <<nameVars, verbVars>>
  <2>1. shown = <<>> /\ answered = 0 /\ ended = "no" /\ json \in BOOLEAN /\ verb \notin Verbs
    BY <1>3 DEF VerbInv, VerbInvAt, CommandAt, Verbs
  <2>2. UNCHANGED <<verb, json, answered, shown, ended>> /\ verb' = "callgraph"
    BY <1>3 DEF verbVars
  <2>3. roots' \in Seq(Symbols) /\ cgPc' # "resolve"
    <3>1. WalkStep /\ roots \in Seq(Symbols)
      BY <1>3 DEF CallGraphTypeOK
    <3>2. CASE AddRoot
      <4>1. roots # <<>> /\ roots' = Tail(roots) /\ cgPc' = "roots"
        BY <3>2 DEF AddRoot
      <4>2. QED
        BY <3>1, <4>1
    <3>3. CASE ~AddRoot
      BY <3>1, <3>3 DEF WalkStep, RootsAdded, Ask, AskFails, PassOver, Look, Expanded, PrintForest
    <3>4. QED
      BY <3>2, <3>3
  <2>4. QED
    BY <2>1, <2>2, <2>3, NothingPrintedNext
<1>4. CASE VerbStep /\ UNCHANGED nameVars
  BY <1>4, AnswerKeeps, AnswerFailsKeeps, EndVerbKeeps DEF VerbStep
<1>5. QED
  BY <1>1, <1>2, <1>3, <1>4, SessionSteps

-----------------------------------------------------------------------------
(***************************************************************************)
(* A session, whatever it indexes and asks.                                *)
(***************************************************************************)

\* The name index keeps its invariant under all that a session does (nameindex.rs).
THEOREM SessionNames == Spec => []NameInv
<1>1. Init => NameInv
  BY NameInvInit DEF Init
<1>2. NameInv /\ [Next]_vars => NameInv'
  BY SessionStepParts, NameInvNext
<1>3. QED
  BY <1>1, <1>2, PTL DEF Spec

\* An index that was written has every row of every file that was scanned to
\* its end, and all files were but one for each failure (build in nameindex.rs).
THEOREM SessionIndexes == Spec => []IndexHasScanned
<1>1. NameInv => IndexHasScanned
  BY ScannedFromInv
<1>2. QED
  BY <1>1, SessionNames, PTL

\* A name finds its rows, all and only those, in whatever file the user has
\* loaded (NameIndex::load and exact).
THEOREM SessionFinds == Spec => []ExactFinds
<1>1. NameInv => ExactFinds
  BY ExactFromInv
<1>2. QED
  BY <1>1, SessionNames, PTL

\* A session's call graph is the walk of module CallGraph, from what resolve
\* gives: all that holds of that holds of it (cmd_callgraph in query.rs).
THEOREM SessionWalks == Spec => WalkSpec
<1>1. Init => CallGraphInit
  BY DEF Init
<1>2. NameInv /\ [Next]_vars => [AnyRoots \/ WalkStep]_cgVars
  BY SessionStepParts
<1>3. QED
  BY <1>1, <1>2, SessionNames, PTL DEF Spec, WalkSpec

\* The printing commands keep their invariant.
THEOREM SessionPrints == Spec => [](VerbInv /\ CallGraphTypeOK)
<1>1. Init => VerbInv
  <2>1. ASSUME Init PROVE VerbInv
    <3>1. verb = "none" /\ json = FALSE /\ answered = 0 /\ shown = <<>> /\ ended = "no"
      BY <2>1 DEF Init, VerbInit
    <3>2. roots = <<>> /\ cgPc = "resolve"
      BY <2>1 DEF Init, CallGraphInit
    <3>3. roots \in Seq(Symbols) /\ verb \notin Verbs
      BY <3>1, <3>2 DEF Verbs
    <3>4. QED
      BY <3>1, <3>2, <3>3, NothingPrinted
  <2>2. QED
    BY <2>1
<1>2. NameInv /\ CallGraphTypeOK /\ VerbInv /\ [Next]_vars => VerbInv'
  BY VerbInvNext
<1>3. QED
  BY <1>1, <1>2, SessionNames, SessionWalks, WalkTyped, PTL DEF Spec

\* What the filter keeps of a reply is printed, unless the limit was reached,
\* and "(no ..)" only if there was nothing to print (print_anchors, inheritance).
THEOREM SessionHidesNothing == Spec => []NothingHidden
<1>1. VerbInv /\ CallGraphTypeOK => NothingHidden
  BY NothingHiddenFromInv
<1>2. QED
  BY <1>1, SessionPrints, PTL

\* Every anchor stands below the header of its own ticket and list.
THEOREM SessionHeads == Spec => []OwnHeader
<1>1. VerbInv => OwnHeader
  BY OwnHeaderFromInv
<1>2. QED
  BY <1>1, SessionPrints, PTL

\* What the walk keeps, the call graph of a session keeps (cmd_callgraph).
COROLLARY SessionForest ==
    Spec => [](Forest /\ NoShortcut /\ SymsBounded /\ ClosedUnlessCut /\ SomethingPrinted)
BY SessionWalks, WalkIsForest, WalkIsBreadthFirst, WalkIsBounded, WalkIsClosed, WalkHasTree, PTL
=============================================================================
