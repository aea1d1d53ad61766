----------------------------- MODULE KzipProofs -----------------------------
(***************************************************************************)
(* Theorems about SubKzip: what a read returns, with a filter or without,  *)
(* and what the kzips written from it hold, for any archive and filter.    *)
(***************************************************************************)
EXTENDS SubKzip, ListProofs

-----------------------------------------------------------------------------
(***************************************************************************)
(* The paths of a unit, and what becomes of one that is decoded.           *)
(***************************************************************************)

\* A unit that is in an archive is one, and a name without one has none.
LEMMA UnitsAreUnits ==
    ASSUME archive \in Archives, NEW enc \in Encodings, NEW s \in Sha
    PROVE  /\ archive[enc][s] \in UnitValues \cup {NoUnit}
           /\ Present(enc, s) => archive[enc][s] \in CompilationUnit
  BY ArchiveAssumption, UnitValuesAssumption DEF Present

\* A read without --in and --not-in accepts whatever the primary path is.
LEMMA PrimaryIsAny == ASSUME NEW u PROVE PrimaryPath(u) \in Anything
<1> DEFINE some == {k \in 1 .. 4 : Candidates(u)[k] \in Path}
<1>1. CASE some = {}
  BY <1>1 DEF PrimaryPath, Anything
<1>2. CASE some # {}
  <2>1. \E k \in some : \A j \in some : k <= j
    BY <1>2
  <2>2. (CHOOSE k \in some : \A j \in some : k <= j) \in some
    BY <2>1
  <2> QED BY <1>2, <2>2 DEF PrimaryPath, Anything
<1> QED BY <1>1, <1>2

\* Whatever becomes of its arguments, a decoded unit that is encoded can be
\* decoded, and decodes to itself.
LEMMA EncodedDecodes ==
    ASSUME NEW u \in CompilationUnit, ~u.cut, NEW a
    PROVE  LET d == [Decoded(u) EXCEPT !.args = a] IN
           /\ Encoded(d) \in [source : Seq(Path), input : Seq(Inputs), own : Path \cup {NoPath},
                              args : {a}, wanted : BOOLEAN, errors : BOOLEAN, details : BOOLEAN,
                              cut : BOOLEAN]
           /\ Decodes("proto", Encoded(d))
           /\ Decoded(Encoded(d)) = d
           /\ d.args = a /\ ~d.details
  BY DEF CompilationUnit, Encoded, Decoded, Decodes

-----------------------------------------------------------------------------
(***************************************************************************)
(* The read.                                                               *)
(***************************************************************************)
\* What the first pass is to return of a name.
ProtoPart(s) == IF AcceptedIn("proto", s) THEN {"proto"} ELSE {}

\* The entries of a pass are there; the first pass reads proto units; what was
\* read is there, was accepted and decodes.
PassInv ==
    /\ rpc \in Encodings => todo \subseteq Entries(rpc)
    /\ rpc = "proto" => \A s \in Sha : read[s] \subseteq {"proto"}
    /\ \A s \in Sha : read[s] # Encodings
    /\ \A s \in Sha : \A enc \in read[s] : AcceptedIn(enc, s) /\ Decodes(enc, archive[enc][s])

\* As long as the peeks agree with the decoder, and the twins with each other,
\* every entry that a pass has behind it has been read as it should be.
ExactInv ==
    PeeksAgree /\ TwinsAgree =>
        /\ rpc = "proto" => \A s \in Sha : read[s] = IF s \in todo THEN {} ELSE ProtoPart(s)
        /\ rpc = "json" => \A s \in Sha : read[s] = IF s \in todo THEN ProtoPart(s) ELSE ToBeRead(s)
        /\ rpc = "done" => \A s \in Sha : read[s] = ToBeRead(s)

ReadInv == ReadTypeOK /\ PassInv /\ ExactInv

LEMMA ReadInvInit == ReadInit => ReadInv
<1> SUFFICES ASSUME ReadInit PROVE ReadInv
  OBVIOUS
<1>1. ReadTypeOK
  BY DEF ReadInit, ReadTypeOK, Entries, Encodings
<1>2. PassInv
  BY DEF ReadInit, PassInv, Encodings
<1>3. ExactInv
  BY DEF ReadInit, ExactInv, Entries, ProtoPart, AcceptedIn, Present
<1> QED BY <1>1, <1>2, <1>3 DEF ReadInv

LEMMA TypeStep == ReadInv /\ [ReadStep]_readVars => ReadTypeOK'
<1> SUFFICES ASSUME ReadInv, [ReadStep]_readVars PROVE ReadTypeOK'
  OBVIOUS
<1> USE DEF ReadInv, ReadTypeOK
<1>1. ASSUME NEW enc \in Encodings, NEW s \in Sha, PassOver(enc, s) PROVE ReadTypeOK'
  BY <1>1 DEF PassOver, Next1
<1>2. ASSUME NEW enc \in Encodings, NEW s \in Sha, DecodeFails(enc, s) PROVE ReadTypeOK'
  BY <1>2 DEF DecodeFails, Next1
<1>3. ASSUME NEW enc \in Encodings, NEW s \in Sha, Decode(enc, s) PROVE ReadTypeOK'
  BY <1>3 DEF Decode, Next1, Encodings
<1>4. CASE EndPass
  BY <1>4 DEF EndPass, Entries
<1>5. CASE UNCHANGED readVars
  BY <1>5 DEF readVars
<1> QED BY <1>1, <1>2, <1>3, <1>4, <1>5 DEF ReadStep

LEMMA PassStep == ReadInv /\ [ReadStep]_readVars => PassInv'
<1> SUFFICES ASSUME ReadInv, [ReadStep]_readVars PROVE PassInv'
  OBVIOUS
<1> USE DEF ReadInv, ReadTypeOK, PassInv, AcceptedIn, Accepted, Present, Entries
<1>1. ASSUME NEW enc \in Encodings, NEW s \in Sha, PassOver(enc, s) PROVE PassInv'
  BY <1>1 DEF PassOver, Next1
<1>2. ASSUME NEW enc \in Encodings, NEW s \in Sha, DecodeFails(enc, s) PROVE PassInv'
  BY <1>2 DEF DecodeFails, Next1, Encodings
<1>3. ASSUME NEW enc \in Encodings, NEW s \in Sha, Decode(enc, s) PROVE PassInv'
  BY <1>3 DEF Decode, Next1, LooksAt, Encodings
<1>4. CASE EndPass
  BY <1>4 DEF EndPass, Encodings
<1>5. CASE UNCHANGED readVars
  BY <1>5 DEF readVars
<1> QED BY <1>1, <1>2, <1>3, <1>4, <1>5 DEF ReadStep

LEMMA ExactStep == ReadInv /\ [ReadStep]_readVars => ExactInv'
<1> SUFFICES ASSUME ReadInv, [ReadStep]_readVars PROVE ExactInv'
  OBVIOUS
<1>1. archive' = archive /\ accept' = accept
  BY DEF ReadStep, readVars, PassOver, DecodeFails, Decode, EndPass, Next1
<1>2. SUFFICES ASSUME PeeksAgree, TwinsAgree PROVE ExactInv'
  <2>1. PeeksAgree' <=> PeeksAgree
    BY <1>1 DEF PeeksAgree, HasFilter, AcceptedIn, Accepted, Present
  <2>2. TwinsAgree' <=> TwinsAgree
    BY <1>1 DEF TwinsAgree, AcceptedIn, Accepted, Present
  <2> QED BY <2>1, <2>2 DEF ExactInv
<1>3. \A s \in Sha : ProtoPart(s)' = ProtoPart(s) /\ ToBeRead(s)' = ToBeRead(s)
  BY <1>1 DEF ProtoPart, ToBeRead, AcceptedIn, Accepted, Present
<1> USE <1>2, <1>3 DEF ReadInv, ReadTypeOK, PassInv, ExactInv
<1>4. ASSUME NEW enc \in Encodings, NEW s \in Sha, PassOver(enc, s) PROVE ExactInv'
  <2>1. s \in todo /\ rpc = enc /\ Present(enc, s) /\ todo' = todo \ {s} /\ read' = read /\ rpc' = rpc
    BY <1>4 DEF PassOver, Next1, Entries, Present
  <2>2. (enc = "json" /\ s \in protoShas) \/ ~AcceptedIn(enc, s)
    BY <1>4, <2>1 DEF PassOver, PeekRejects, PeeksAgree
  <2>3. CASE enc = "proto"
    BY <2>1, <2>2, <2>3 DEF ProtoPart
  <2>4. CASE enc = "json"
    <3>1. read[s] = ProtoPart(s)
      BY <2>1, <2>4
    <3>2. ToBeRead(s) = ProtoPart(s)
      BY <2>1, <2>2, <2>4, <3>1 DEF ProtoPart, ToBeRead, AcceptedIn
    <3> QED BY <2>1, <2>4, <3>1, <3>2
  <2> QED BY <2>3, <2>4 DEF Encodings
<1>5. ASSUME NEW enc \in Encodings, NEW s \in Sha, DecodeFails(enc, s) PROVE ExactInv'
  BY <1>5 DEF DecodeFails
<1>6. ASSUME NEW enc \in Encodings, NEW s \in Sha, Decode(enc, s) PROVE ExactInv'
  <2>1. /\ s \in todo /\ rpc = enc /\ Present(enc, s) /\ todo' = todo \ {s} /\ rpc' = rpc
        /\ read' = IF AcceptedIn(enc, s) THEN [read EXCEPT ![s] = @ \cup {enc}] ELSE read
        /\ enc = "json" => s \notin protoShas
    BY <1>6 DEF Decode, Next1, LooksAt, Entries, Present, AcceptedIn, Accepted
  <2>2. CASE enc = "proto"
    BY <2>1, <2>2 DEF ProtoPart
  <2>3. CASE enc = "json"
    <3>1. read[s] = {} /\ ~AcceptedIn("proto", s)
      BY <2>1, <2>3 DEF ProtoPart
    <3>2. ToBeRead(s) = IF AcceptedIn(enc, s) THEN {enc} ELSE {}
      BY <2>1, <2>3, <3>1 DEF ToBeRead, TwinsAgree, Encodings
    <3> QED BY <2>1, <2>3, <3>1, <3>2
  <2> QED BY <2>2, <2>3 DEF Encodings
<1>7. CASE EndPass
  <2>1. \A s \in Sha : s \notin Entries("json") => ToBeRead(s) = ProtoPart(s)
    BY DEF Entries, ToBeRead, ProtoPart, AcceptedIn, Present
  <2> QED BY <1>7, <2>1, <1>1 DEF EndPass, Entries
<1>8. CASE UNCHANGED readVars
  BY <1>8 DEF readVars
<1> QED BY <1>4, <1>5, <1>6, <1>7, <1>8 DEF ReadStep

LEMMA ReadInvStep == ReadInv /\ [ReadStep]_readVars => ReadInv'
  BY TypeStep, PassStep, ExactStep DEF ReadInv

LEMMA ReadAlways == Spec => []ReadInv
<1>1. Init => ReadInv
  BY ReadInvInit DEF Init
<1>2. ReadInv /\ [Next]_vars => ReadInv'
  <2> SUFFICES ASSUME ReadInv, [Next]_vars PROVE ReadInv'
    OBVIOUS
  <2>1. [ReadStep]_readVars
    BY DEF Next, vars, Extract, Normalize
  <2> QED BY <2>1, ReadInvStep
<1> QED BY <1>1, <1>2, PTL DEF Spec

\* proto_shas has exactly the names that were returned as protos, and no
\* variable of the reader leaves its type.
THEOREM ReadTyped == Spec => []ReadTypeOK
<1>1. ReadInv => ReadTypeOK
  BY DEF ReadInv
<1> QED BY <1>1, ReadAlways, PTL

\* Whatever a peek finds, no read returns a name in both encodings, or a unit
\* that the filter rejects.
THEOREM ReadsAreSound == Spec => []ReadIsSound
<1>1. ReadInv => ReadIsSound
  BY DEF ReadInv, PassInv, ReadIsSound
<1> QED BY <1>1, ReadAlways, PTL

\* Where on the filter no peek contradicts its decoder and no unit its twin, a
\* read returns of each name the unit that wins, the proto if there is one, if
\* the filter accepts it, and nothing else, in whatever order the archive has
\* its entries.
THEOREM ReadsAreExact == Spec => []ReadIsExact
<1>1. ReadInv => ReadIsExact
  <2> SUFFICES ASSUME ReadInv, rpc = "done", PeeksAgree, TwinsAgree PROVE read = [s \in Sha |-> ToBeRead(s)]
    BY DEF ReadIsExact
  <2>1. read \in [Sha -> SUBSET Encodings] /\ \A s \in Sha : read[s] = ToBeRead(s)
    BY DEF ReadInv, ReadTypeOK, ExactInv
  <2> QED BY <2>1
<1> QED BY <1>1, ReadAlways, PTL

-----------------------------------------------------------------------------
(***************************************************************************)
(* The two loops over a unit: its files, and its arguments.                *)
(***************************************************************************)

\* The list of blobs grows with the inputs, one after the other.
LEMMA BlobsGrow ==
    ASSUME NEW u, u.input \in Seq(Inputs)
    PROVE  \E acc : /\ acc[0] = <<>> /\ Blobs(u) = acc[Len(u.input)]
                    /\ \A k \in 1 .. Len(u.input) :
                           LET d == u.input[k].digest IN
                           acc[k] = IF d \in files /\ ~Contains(acc[k - 1], d)
                                    THEN Append(acc[k - 1], d) ELSE acc[k - 1]
<1> DEFINE n == Len(u.input)
           A == Seq(files)
           Taken(a, d) == IF d \in files /\ ~Contains(a, d) THEN Append(a, d) ELSE a
           step == [p \in A \X (1 .. n) |-> Taken(p[1], u.input[p[2]].digest)]
           Run(f) == f = [s \in SUBSET DOMAIN u.input |->
                             IF s = {} THEN <<>> ELSE Taken(f[s \ {Max(s)}], u.input[Max(s)].digest)]
           g == CHOOSE f : Run(f)
<1>1. n \in Nat /\ DOMAIN u.input = 1 .. n
  OBVIOUS
<1>2. step \in Steps(n, A)
  BY DEF Steps
<1>3. \E f : Run(f)
  <2>1. <<>> \in A
    OBVIOUS
  <2> HIDE DEF step
  <2>2. PICK f : IsLeftFold(f, n, A, <<>>, step)
    <3> HIDE DEF n, A
    <3> QED BY <1>1, <1>2, <2>1, FoldsFromLeft
  <2>3. \A s \in SUBSET (1 .. n) : s # {} =>
           step[<<f[s \ {Max(s)}], Max(s)>>] = Taken(f[s \ {Max(s)}], u.input[Max(s)].digest)
    <3> SUFFICES ASSUME NEW s \in SUBSET (1 .. n), s # {}
                 PROVE  step[<<f[s \ {Max(s)}], Max(s)>>] = Taken(f[s \ {Max(s)}], u.input[Max(s)].digest)
      OBVIOUS
    <3>1. Max(s) \in 1 .. n
      BY <1>1, MaxIs
    <3>2. f[s \ {Max(s)}] \in A
      BY <2>2 DEF IsLeftFold
    <3> HIDE DEF Taken
    <3> QED BY <3>1, <3>2 DEF step
  <2> HIDE DEF Taken
  <2>4. Run(f)
    BY <1>1, <2>2, <2>3 DEF IsLeftFold
  <2> QED BY <2>4
<1>4. Run(g)
  <2> HIDE DEF Run
  <2> QED BY <1>3
<1>5. Blobs(u) = g[DOMAIN u.input]
  BY DEF Blobs, FoldLeft, MapThenFoldSet
<1> HIDE DEF g, step
<1>6. g[{}] = <<>>
  BY <1>4
<1>7. \A k \in 1 .. n : g[1 .. k] = Taken(g[1 .. k - 1], u.input[k].digest)
  <2> TAKE k \in 1 .. n
  <2>1. 1 .. k \in SUBSET (1 .. n) /\ 1 .. k # {} /\ Max(1 .. k) = k /\ (1 .. k) \ {k} = 1 .. k - 1
    BY <1>1, EndsOf
  <2> QED BY <1>1, <1>4, <2>1
<1> DEFINE acc == [k \in 0 .. n |-> g[1 .. k]]
<1>8. acc[0] = <<>> /\ Blobs(u) = acc[n]
  BY <1>1, <1>5, <1>6
<1>9. \A k \in 1 .. n : acc[k] = Taken(acc[k - 1], u.input[k].digest)
  BY <1>1, <1>7
<1> QED BY <1>8, <1>9

\* What was copied so far: each file of the archive that the inputs up to k
\* name, once.
LEMMA BlobsAre ==
    ASSUME NEW u, u.input \in Seq(Inputs)
    PROVE  /\ Blobs(u) \in Seq(files)
           /\ \A i, j \in 1 .. Len(Blobs(u)) : Blobs(u)[i] = Blobs(u)[j] => i = j
           /\ ToSet(Blobs(u)) = files \cap Needs(u)
<1> DEFINE n == Len(u.input)
           Once(a) == \A i, j \in 1 .. Len(a) : a[i] = a[j] => i = j
           Named(k) == {u.input[j].digest : j \in 1 .. k}
           Right(a, k) == a \in Seq(files) /\ Once(a) /\ ToSet(a) = files \cap Named(k)
<1>1. n \in Nat
  OBVIOUS
<1>2. PICK acc : /\ acc[0] = <<>> /\ Blobs(u) = acc[n]
                 /\ \A k \in 1 .. n :
                        LET d == u.input[k].digest IN
                        acc[k] = IF d \in files /\ ~Contains(acc[k - 1], d)
                                 THEN Append(acc[k - 1], d) ELSE acc[k - 1]
  BY BlobsGrow
<1> DEFINE T == {k \in 0 .. n : Right(acc[k], k)}
<1>3. 0 \in T
  <2>1. Once(<<>>) /\ <<>> \in Seq(files) /\ ToSet(<<>>) = {} /\ Named(0) = {}
    BY DEF ToSet
  <2> HIDE DEF Once, Named
  <2>2. Right(acc[0], 0)
    BY <1>2, <2>1
  <2> QED BY <1>1, <2>2
<1>4. ASSUME NEW k \in 0 .. n, k < n, k \in T PROVE k + 1 \in T
  <2> DEFINE d == u.input[k + 1].digest   a == acc[k]
  <2>1. k + 1 \in 1 .. n /\ (k + 1) - 1 = k /\ Right(a, k)
    BY <1>1, <1>4
  <2>2. acc[k + 1] = IF d \in files /\ ~Contains(a, d) THEN Append(a, d) ELSE a
    BY <1>2, <2>1
  <2>3. Named(k + 1) = Named(k) \cup {d}
    <3>1. 1 .. k + 1 = (1 .. k) \cup {k + 1}
      BY <2>1
    <3> QED BY <3>1
  <2>4. Contains(a, d) <=> d \in ToSet(a)
    <3>1. DOMAIN a = 1 .. Len(a)
      BY <2>1
    <3> HIDE DEF a, d
    <3> QED BY <3>1 DEF Contains, ToSet
  <2> HIDE DEF Named, d, a
  <2>5. CASE d \in files /\ ~Contains(a, d)
    <3>1. /\ Append(a, d) \in Seq(files) /\ Len(Append(a, d)) = Len(a) + 1 /\ Len(a) \in Nat
          /\ \A i \in 1 .. Len(a) : Append(a, d)[i] = a[i]
          /\ Append(a, d)[Len(a) + 1] = d
      BY <2>1, <2>5
    <3>2. \A i \in 1 .. Len(Append(a, d)) : i \in 1 .. Len(a) \/ i = Len(a) + 1
      BY <3>1
    <3>3. \A i \in 1 .. Len(a) : a[i] # d
      BY <2>5 DEF Contains
    <3>4. Once(Append(a, d))
      BY <2>1, <3>1, <3>2, <3>3
    <3>5. ToSet(Append(a, d)) = ToSet(a) \cup {d}
      <4>1. \A i \in 1 .. Len(a) : i \in 1 .. Len(a) + 1
        BY <3>1
      <4>2. Len(a) + 1 \in 1 .. Len(a) + 1
        BY <3>1
      <4>3. ToSet(Append(a, d)) = {Append(a, d)[i] : i \in 1 .. Len(a) + 1} /\ ToSet(a) = {a[i] : i \in 1 .. Len(a)}
        BY <2>1, <3>1 DEF ToSet
      <4> QED BY <3>1, <3>2, <4>1, <4>2, <4>3
    <3>6. Right(acc[k + 1], k + 1)
      BY <2>1, <2>2, <2>3, <2>5, <3>1, <3>4, <3>5
    <3> HIDE DEF Right, n
    <3> QED BY <1>1, <2>1, <3>6
  <2>6. CASE ~(d \in files /\ ~Contains(a, d))
    <3>1. Right(acc[k + 1], k + 1)
      BY <2>1, <2>2, <2>3, <2>4, <2>6
    <3> HIDE DEF Right, n
    <3> QED BY <1>1, <2>1, <3>1
  <2> QED BY <2>5, <2>6
<1>5. n \in T
  <2> HIDE DEF T, n
  <2>1. \A k \in 0 .. n : k < n /\ k \in T => k + 1 \in T
    BY <1>4
  <2>2. \A k \in 0 .. n : k \in T
    BY <1>1, <1>3, <2>1, InductionUp
  <2> QED BY <1>1, <2>2
<1> QED BY <1>2, <1>5 DEF Needs

\* A rule for arguments.
Rule == [under : SUBSET Path, arg : Arg]

\* The arguments grow in front, from the last rule to the first.
LEMMA InjectedGrow ==
    ASSUME NEW rules \in Seq(Rule), NEW own \in Seq(Arg)
    PROVE  \E acc : /\ acc[Len(rules)] = own /\ Injected(rules, own) = acc[0]
                    /\ \A k \in 1 .. Len(rules) :
                           acc[k - 1] = IF Contains(acc[k], rules[k].arg) THEN acc[k]
                                        ELSE <<rules[k].arg>> \o acc[k]
<1> DEFINE n == Len(rules)
           A == Seq(Arg)
           Put(r, a) == IF Contains(a, r.arg) THEN a ELSE <<r.arg>> \o a
           step == [p \in A \X (1 .. n) |-> Put(rules[p[2]], p[1])]
           Run(f) == f = [s \in SUBSET DOMAIN rules |->
                             IF s = {} THEN own ELSE Put(rules[Min(s)], f[s \ {Min(s)}])]
           g == CHOOSE f : Run(f)
<1>1. n \in Nat /\ DOMAIN rules = 1 .. n
  OBVIOUS
<1>2. step \in Steps(n, A)
  <2> SUFFICES ASSUME NEW k \in 1 .. n, NEW a \in A PROVE Put(rules[k], a) \in A
    BY DEF Steps
  <2>1. rules[k] \in Rule
    OBVIOUS
  <2>2. rules[k].arg \in Arg
    BY <2>1 DEF Rule
  <2> QED BY <2>2
<1>3. \E f : Run(f)
  <2> HIDE DEF step
  <2>1. PICK f : IsRightFold(f, n, A, own, step)
    <3> HIDE DEF n, A
    <3>1. own \in A
      BY DEF A
    <3> QED BY <1>1, <1>2, <3>1, FoldsFromRight
  <2>2. \A s \in SUBSET (1 .. n) : s # {} =>
           step[<<f[s \ {Min(s)}], Min(s)>>] = Put(rules[Min(s)], f[s \ {Min(s)}])
    <3> SUFFICES ASSUME NEW s \in SUBSET (1 .. n), s # {}
                 PROVE  step[<<f[s \ {Min(s)}], Min(s)>>] = Put(rules[Min(s)], f[s \ {Min(s)}])
      OBVIOUS
    <3>1. Min(s) \in 1 .. n
      BY <1>1, MinIs
    <3>2. f[s \ {Min(s)}] \in A
      BY <2>1 DEF IsRightFold
    <3> HIDE DEF Put
    <3> QED BY <3>1, <3>2 DEF step
  <2> HIDE DEF Put
  <2>3. Run(f)
    BY <1>1, <2>1, <2>2 DEF IsRightFold
  <2> QED BY <2>3
<1>4. Run(g)
  <2> HIDE DEF Run
  <2> QED BY <1>3
<1>5. Injected(rules, own) = g[DOMAIN rules]
  BY DEF Injected, FoldRight, MapThenFoldSet
<1> HIDE DEF g, step
<1>6. g[{}] = own
  BY <1>4
<1>7. \A k \in 1 .. n : g[k .. n] = Put(rules[k], g[k + 1 .. n])
  <2> TAKE k \in 1 .. n
  <2>1. k .. n \in SUBSET (1 .. n) /\ k .. n # {} /\ Min(k .. n) = k /\ (k .. n) \ {k} = k + 1 .. n
    BY <1>1, EndsOf
  <2> HIDE DEF Put
  <2> QED BY <1>1, <1>4, <2>1
<1> DEFINE acc == [k \in 0 .. n |-> g[k + 1 .. n]]
<1>8. acc[n] = own /\ Injected(rules, own) = acc[0]
  <2>1. n + 1 .. n = {} /\ 0 + 1 .. n = 1 .. n /\ n \in 0 .. n /\ 0 \in 0 .. n
    BY <1>1
  <2> QED BY <1>1, <1>5, <1>6, <2>1
<1>9. \A k \in 1 .. n : acc[k - 1] = Put(rules[k], acc[k])
  <2> TAKE k \in 1 .. n
  <2>1. k \in 0 .. n /\ k - 1 \in 0 .. n /\ (k - 1) + 1 = k
    BY <1>1
  <2> HIDE DEF Put
  <2> QED BY <1>7, <2>1
<1> QED BY <1>8, <1>9

\* The list of the arguments that the rules at `at` have, in their order.
Listed(rules, at) == [i \in 1 .. Cardinality(at) |-> rules[Nth(at, i)].arg]

\* A rule in front of the others is the first one of the list.
LEMMA ListedInFront ==
    ASSUME NEW rules \in Seq(Rule), NEW at \in SUBSET (1 .. Len(rules)), NEW k \in 1 .. Len(rules),
           \A i \in at : k < i
    PROVE  /\ Listed(rules, at) \in Seq(Arg)
           /\ Listed(rules, at \cup {k}) = <<rules[k].arg>> \o Listed(rules, at)
<1> DEFINE n == Len(rules)   all == at \cup {k}
<1>1. n \in Nat /\ all \in SUBSET (1 .. n) /\ k \in all /\ k \notin at
  OBVIOUS
<1>2. /\ IsFiniteSet(at) /\ Cardinality(at) \in Nat
      /\ \A i \in 1 .. Cardinality(at) : Nth(at, i) \in at /\ Position(Nth(at, i), at) + 1 = i
  BY <1>1, NthIs
<1>3. /\ Cardinality(all) \in Nat
      /\ \A i \in all : Position(i, all) + 1 \in 1 .. Cardinality(all) /\ Nth(all, Position(i, all) + 1) = i
  <2> HIDE DEF all
  <2> QED BY <1>1, NthIs
<1>4. Cardinality(all) = Cardinality(at) + 1
  BY <1>1, <1>2, FS_AddElement
<1>5. Position(k, all) = 0
  <2>1. {j \in all : j < k} = {}
    <3>1. \A j \in all : j \in Nat /\ k \in Nat /\ (j = k \/ k < j)
      BY <1>1
    <3>2. \A j \in all : ~(j < k)
      BY <3>1
    <3> QED BY <3>2
  <2> QED BY <2>1, FS_EmptySet DEF Position
<1>6. \A i \in at : Position(i, all) = Position(i, at) + 1 /\ Position(i, at) \in Nat
  <2> SUFFICES ASSUME NEW i \in at PROVE Position(i, all) = Position(i, at) + 1 /\ Position(i, at) \in Nat
    OBVIOUS
  <2>1. {j \in all : j < i} = {j \in at : j < i} \cup {k} /\ k \notin {j \in at : j < i}
    BY <1>1
  <2>2. IsFiniteSet({j \in at : j < i})
    BY <1>2, FS_Subset
  <2>3. Cardinality({j \in at : j < i} \cup {k}) = Cardinality({j \in at : j < i}) + 1
    BY <2>1, <2>2, FS_AddElement
  <2> QED BY <2>1, <2>2, <2>3, FS_CardinalityType DEF Position
<1> HIDE DEF all
<1>10. Nth(all, 1) = k
  <2>1. 0 + 1 = 1
    OBVIOUS
  <2> QED BY <1>1, <1>3, <1>5, <2>1
<1>7. \A i \in 1 .. Cardinality(at) : Nth(all, i + 1) = Nth(at, i)
  <2> TAKE i \in 1 .. Cardinality(at)
  <2>2. Nth(at, i) \in all /\ Position(Nth(at, i), all) = i
    BY <1>2, <1>6 DEF all
  <2> QED BY <1>3, <2>2
<1>8. Listed(rules, at) \in Seq(Arg) /\ Len(Listed(rules, at)) = Cardinality(at)
  <2>1. \A i \in 1 .. Cardinality(at) : rules[Nth(at, i)].arg \in Arg
    <3> TAKE i \in 1 .. Cardinality(at)
    <3>1. Nth(at, i) \in 1 .. n
      BY <1>1, <1>2
    <3>2. rules[Nth(at, i)] \in Rule
      BY <3>1
    <3> QED BY <3>2 DEF Rule
  <2>2. Listed(rules, at) \in [1 .. Cardinality(at) -> Arg]
    BY <2>1 DEF Listed
  <2> QED BY <1>2, <2>2
<1>9. Listed(rules, all) = <<rules[k].arg>> \o Listed(rules, at)
  <2> DEFINE a == Listed(rules, all)   b == <<rules[k].arg>> \o Listed(rules, at)
  <2>1. rules[k].arg \in Arg
    <3>1. rules[k] \in Rule
      OBVIOUS
    <3> QED BY <3>1 DEF Rule
  <2>2. b \in Seq(Arg) /\ Len(b) = Cardinality(at) + 1 /\ b[1] = rules[k].arg
    BY <1>8, <2>1
  <2>3. \A i \in 1 .. Cardinality(at) : b[i + 1] = rules[Nth(at, i)].arg
    <3> TAKE i \in 1 .. Cardinality(at)
    <3>1. Listed(rules, at)[i] = rules[Nth(at, i)].arg
      BY DEF Listed
    <3> QED BY <1>2, <1>8, <2>1, <3>1
  <2>4. \A i \in 1 .. Cardinality(at) + 1 : b[i] = rules[Nth(all, i)].arg
    <3> TAKE i \in 1 .. Cardinality(at) + 1
    <3>1. CASE i = 1
      BY <1>10, <2>2, <3>1
    <3>2. CASE i # 1
      <4>1. i - 1 \in 1 .. Cardinality(at) /\ (i - 1) + 1 = i
        BY <1>2, <3>2
      <4> HIDE DEF b
      <4> QED BY <1>7, <2>3, <4>1
    <3> QED BY <3>1, <3>2
  <2>5. a = [i \in 1 .. Cardinality(at) + 1 |-> rules[Nth(all, i)].arg]
    BY <1>4 DEF Listed
  <2>6. b = [i \in 1 .. Cardinality(at) + 1 |-> b[i]]
    <3> HIDE DEF b
    <3> QED BY <2>2
  <2> HIDE DEF a, b
  <2>7. a = b
    BY <2>4, <2>5, <2>6
  <2> QED BY <2>7 DEF a, b
<1> QED BY <1>8, <1>9 DEF all

\* The rules whose arguments are put in: not one of the unit's own, and no later
\* rule has it.
Winning(rules, own, k) ==
    {j \in k + 1 .. Len(rules) : /\ rules[j].arg \notin ToSet(own)
                                 /\ \A i \in j + 1 .. Len(rules) : rules[i].arg # rules[j].arg}

\* What the loop over the rules, from the last one on, makes of the arguments.
LEMMA InjectedIs ==
    ASSUME NEW rules \in Seq(Rule), NEW own \in Seq(Arg)
    PROVE  /\ Injected(rules, own) = Listed(rules, Winning(rules, own, 0)) \o own
           /\ Injected(rules, own) \in Seq(Arg)
<1> DEFINE n == Len(rules)
           F(k) == Winning(rules, own, k)
           Later(k) == {rules[j].arg : j \in k + 1 .. n}
           Right(a, k) == /\ F(k) \in SUBSET (1 .. n) /\ Listed(rules, F(k)) \in Seq(Arg)
                          /\ a = Listed(rules, F(k)) \o own
                          /\ ToSet(a) = ToSet(own) \cup Later(k)
<1>1. n \in Nat
  OBVIOUS
<1>2. PICK acc : /\ acc[n] = own /\ Injected(rules, own) = acc[0]
                 /\ \A k \in 1 .. n :
                        acc[k - 1] = IF Contains(acc[k], rules[k].arg) THEN acc[k]
                                     ELSE <<rules[k].arg>> \o acc[k]
  BY InjectedGrow
<1> DEFINE T == {k \in 0 .. n : Right(acc[k], k)}
<1>3. n \in T
  <2>1. n + 1 .. n = {}
    BY <1>1
  <2>2. F(n) = {} /\ Later(n) = {}
    BY <2>1 DEF Winning
  <2>3. Listed(rules, {}) = <<>>
    <3>1. Cardinality({}) = 0
      BY FS_EmptySet
    <3>2. 1 .. 0 = {}
      OBVIOUS
    <3> QED BY <3>1, <3>2 DEF Listed
  <2> HIDE DEF F, Later
  <2>5. <<>> \in Seq(Arg) /\ <<>> \o own = own /\ {} \in SUBSET (1 .. n)
    OBVIOUS
  <2>4. Right(own, n)
    BY <2>2, <2>3, <2>5
  <2> QED BY <1>1, <1>2, <2>4
<1>4. ASSUME NEW k \in 0 .. n, k > 0, k \in T PROVE k - 1 \in T
  <2> DEFINE x == rules[k].arg   a == acc[k]
  <2>1. k \in 1 .. n /\ k - 1 \in 0 .. n /\ (k - 1) + 1 = k /\ Right(a, k)
    <3>1. k \in 1 .. n /\ k - 1 \in 0 .. n /\ (k - 1) + 1 = k
      BY <1>1, <1>4
    <3>2. Right(a, k)
      BY <1>4
    <3> HIDE DEF Right
    <3> QED BY <3>1, <3>2
  <2>2. acc[k - 1] = IF Contains(a, x) THEN a ELSE <<x>> \o a
    BY <1>2, <2>1
  <2>3. k .. n = {k} \cup (k + 1 .. n)
    BY <2>1
  <2>4. Later(k - 1) = Later(k) \cup {x}
    BY <2>1, <2>3
  <2>5. F(k) \subseteq k + 1 .. n
    BY DEF Winning
  <2>6. F(k - 1) = F(k) \cup (IF x \in ToSet(own) \cup Later(k) THEN {} ELSE {k})
    <3>1. x \in Later(k) <=> \E i \in k + 1 .. n : rules[i].arg = x
      OBVIOUS
    <3>2. \A j \in k .. n : j \in F(k - 1) <=>
              rules[j].arg \notin ToSet(own) /\ \A i \in j + 1 .. n : rules[i].arg # rules[j].arg
      BY <2>1 DEF Winning
    <3>3. \A j \in k + 1 .. n : j \in F(k) <=>
              rules[j].arg \notin ToSet(own) /\ \A i \in j + 1 .. n : rules[i].arg # rules[j].arg
      BY DEF Winning
    <3>4. F(k - 1) \subseteq k .. n
      BY <2>1 DEF Winning
    <3> HIDE DEF F, Later
    <3>5. \A j \in k + 1 .. n : j \in F(k - 1) <=> j \in F(k)
      BY <2>3, <3>2, <3>3
    <3>6. k \in F(k - 1) <=> x \notin ToSet(own) \cup Later(k)
      BY <2>3, <3>1, <3>2
    <3> QED BY <2>3, <2>5, <3>4, <3>5, <3>6
  <2>7. x \in Arg
    <3>1. rules[k] \in Rule
      BY <2>1
    <3> QED BY <3>1 DEF Rule
  <2>8. a \in Seq(Arg)
    <3> HIDE DEF F, Later
    <3> QED BY <2>1
  <2>9. Contains(a, x) <=> x \in ToSet(own) \cup Later(k)
    <3>1. DOMAIN a = 1 .. Len(a)
      BY <2>8
    <3>2. ToSet(a) = ToSet(own) \cup Later(k)
      BY <2>1
    <3> HIDE DEF a, x, Later
    <3> QED BY <3>1, <3>2 DEF Contains, ToSet
  <2> HIDE DEF a, x, F, Later
  <2>10. CASE Contains(a, x)
    <3>1. F(k - 1) = F(k)
      BY <2>6, <2>9, <2>10
    <3>2. Right(acc[k - 1], k - 1)
      BY <2>1, <2>2, <2>4, <2>9, <2>10, <3>1
    <3> QED BY <2>1, <3>2
  <2>11. CASE ~Contains(a, x)
    <3>1. F(k - 1) = F(k) \cup {k} /\ F(k - 1) \in SUBSET (1 .. n)
      BY <2>1, <2>6, <2>9, <2>11
    <3>2. \A i \in F(k) : k < i
      BY <2>1, <2>5
    <3>3. Listed(rules, F(k)) \in Seq(Arg) /\ Listed(rules, F(k - 1)) = <<x>> \o Listed(rules, F(k))
      BY <2>1, <3>1, <3>2, ListedInFront DEF x
    <3>4. acc[k - 1] = Listed(rules, F(k - 1)) \o own /\ Listed(rules, F(k - 1)) \in Seq(Arg)
      <4>1. acc[k - 1] = <<x>> \o (Listed(rules, F(k)) \o own)
        BY <2>1, <2>2, <2>11
      <4>2. <<x>> \in Seq(Arg)
        BY <2>7
      <4>3. (<<x>> \o Listed(rules, F(k))) \o own = <<x>> \o (Listed(rules, F(k)) \o own)
        BY <3>3, <4>2, ConcatAssociative
      <4>4. <<x>> \o Listed(rules, F(k)) \in Seq(Arg)
        BY <3>3, <4>2
      <4> QED BY <3>3, <4>1, <4>3, <4>4
    <3>5. ToSet(acc[k - 1]) = ToSet(a) \cup {x}
      <4>1. acc[k - 1] = <<x>> \o a
        BY <2>2, <2>11
      <4> DEFINE b == <<x>> \o a
      <4>2. /\ b \in Seq(Arg) /\ Len(b) = Len(a) + 1 /\ Len(a) \in Nat /\ b[1] = x
            /\ \A i \in 1 .. Len(a) : b[i + 1] = a[i]
        BY <2>7, <2>8
      <4>3. DOMAIN b = 1 .. Len(a) + 1 /\ DOMAIN a = 1 .. Len(a)
        BY <2>8, <4>2
      <4> HIDE DEF b
      <4>4. \A i \in 1 .. Len(a) + 1 : i = 1 \/ (i - 1 \in 1 .. Len(a) /\ (i - 1) + 1 = i)
        BY <4>2
      <4>5. \A y : (\E i \in 1 .. Len(a) + 1 : b[i] = y) <=> y = x \/ \E i \in 1 .. Len(a) : a[i] = y
        <5>1. 1 \in 1 .. Len(a) + 1 /\ \A i \in 1 .. Len(a) : i + 1 \in 1 .. Len(a) + 1
          BY <4>2
        <5> TAKE y
        <5>2. ASSUME NEW i \in 1 .. Len(a) + 1, b[i] = y PROVE y = x \/ \E j \in 1 .. Len(a) : a[j] = y
          <6>1. CASE i = 1
            BY <4>2, <5>2, <6>1
          <6>2. CASE i # 1
            BY <4>2, <4>4, <5>2, <6>2
          <6> QED BY <6>1, <6>2
        <5>3. ASSUME NEW i \in 1 .. Len(a), a[i] = y PROVE \E j \in 1 .. Len(a) + 1 : b[j] = y
          BY <4>2, <5>1, <5>3
        <5>4. y = x => \E j \in 1 .. Len(a) + 1 : b[j] = y
          BY <4>2, <5>1
        <5> QED BY <5>2, <5>3, <5>4
      <4>6. ToSet(b) = {b[i] : i \in 1 .. Len(a) + 1} /\ ToSet(a) = {a[i] : i \in 1 .. Len(a)}
        BY <4>3 DEF ToSet
      <4>7. \A y : y \in ToSet(b) <=> y \in ToSet(a) \cup {x}
        BY <4>5, <4>6
      <4>8. ToSet(b) = ToSet(a) \cup {x}
        BY <4>7
      <4> QED BY <4>1, <4>8 DEF b
    <3>6. Right(acc[k - 1], k - 1)
      BY <2>1, <2>4, <3>1, <3>4, <3>5
    <3> QED BY <2>1, <3>6
  <2> QED BY <2>10, <2>11
<1>5. 0 \in T
  <2> HIDE DEF T, n
  <2>1. \A k \in 0 .. n : k > 0 /\ k \in T => k - 1 \in T
    BY <1>4
  <2>2. \A k \in 0 .. n : k \in T
    BY <1>1, <1>3, <2>1, InductionDown
  <2> QED BY <1>1, <2>2
<1>6. Right(acc[0], 0)
  BY <1>5
<1> HIDE DEF F, Later
<1> QED BY <1>2, <1>6 DEF F

-----------------------------------------------------------------------------
(***************************************************************************)
(* The kzips that are written.                                             *)
(***************************************************************************)

\* A kzip is written when the read is done, of units that it has returned.
MadeInv ==
    /\ made.kind # "none" => rpc = "done"
    /\ made.kind = "sub" => \A s \in Sha : Made(s) => read[s] # {} /\ made.units[s] = UnitBytes(s)
    /\ made.kind = "normal" =>
           /\ ~HasFilter
           /\ \A s \in Sha : made.units[s] = IF read[s] = {} THEN NoUnit ELSE ProtoBytes(s)

LEMMA MadeAlways == Spec => []MadeInv
<1>1. Init => MadeInv
  BY DEF Init, MadeInv, NoKzip
<1>2. MadeInv /\ [Next]_vars => MadeInv'
  <2> SUFFICES ASSUME MadeInv, [Next]_vars PROVE MadeInv'
    OBVIOUS
  <2>1. CASE made.kind = "none" /\ made' = made
    BY <2>1 DEF MadeInv
  <2>2. CASE UNCHANGED <<readVars, made>>
    <3>1. \A s \in Sha : UnitBytes(s)' = UnitBytes(s) /\ ProtoBytes(s)' = ProtoBytes(s)
      BY <2>2 DEF readVars, UnitBytes, ProtoBytes, Unit, Wire, EncodingOf
    <3> QED BY <2>2, <3>1 DEF readVars, MadeInv, Made, HasFilter
  <2>3. ASSUME NEW s \in Sha, Extract(s) PROVE MadeInv'
    <3>1. read[s] # {} /\ readVars' = readVars
      BY <2>3 DEF Extract, Planned
    <3>2. \A t \in Sha : UnitBytes(t)' = UnitBytes(t)
      BY <3>1 DEF readVars, UnitBytes, Unit, Wire, EncodingOf
    <3>3. \A t \in Sha : made'.units[t] = IF t = s THEN UnitBytes(s) ELSE NoUnit
      BY <2>3 DEF Extract, NoKzip
    <3>4. made'.kind = "sub" /\ rpc' = "done"
      BY <2>3, <3>1 DEF Extract, readVars
    <3> QED BY <3>1, <3>2, <3>3, <3>4 DEF MadeInv, Made, readVars
  <2>4. CASE Normalize
    <3>1. \A t \in Sha : ProtoBytes(t)' = ProtoBytes(t)
      BY <2>4 DEF Normalize, readVars, ProtoBytes, Unit, Wire, EncodingOf
    <3>2. made'.kind = "normal" /\ rpc' = "done" /\ ~HasFilter' /\ read' = read
      BY <2>4 DEF Normalize, readVars, HasFilter
    <3>3. \A t \in Sha : made'.units[t] = IF read[t] = {} THEN NoUnit ELSE ProtoBytes(t)
      BY <2>4 DEF Normalize
    <3> QED BY <3>1, <3>2, <3>3 DEF MadeInv
  <2>5. CASE ReadStep /\ UNCHANGED made
    <3>1. CASE rpc = "done"
      BY <2>5, <3>1 DEF ReadStep, PassOver, DecodeFails, Decode, EndPass, Next1, Encodings
    <3> QED BY <2>1, <2>5, <3>1 DEF MadeInv
  <2> QED BY <2>2, <2>3, <2>4, <2>5 DEF Next, vars
<1> QED BY <1>1, <1>2, PTL DEF Spec

\* A unit that was read: the encoding is the one it was read in, and it was
\* decoded from bytes that decode.
LEMMA WireOfRead ==
    ASSUME ReadInv, NEW s \in Sha, read[s] # {}
    PROVE  /\ EncodingOf(s) \in Encodings /\ read[s] = {EncodingOf(s)}
           /\ Present(EncodingOf(s), s)
           /\ Wire(s) \in CompilationUnit /\ Decodes(EncodingOf(s), Wire(s)) /\ ~Wire(s).cut
           /\ Unit(s) \in CompilationUnit
<1>1. read[s] \subseteq Encodings /\ read[s] # Encodings
  BY DEF ReadInv, ReadTypeOK, PassInv
<1>2. PICK enc \in Encodings : enc \in read[s]
  BY <1>1
<1>3. EncodingOf(s) \in Encodings /\ EncodingOf(s) \in read[s]
  BY <1>2 DEF EncodingOf
<1>4. read[s] = {EncodingOf(s)}
  BY <1>1, <1>3 DEF Encodings
<1>5. AcceptedIn(EncodingOf(s), s) /\ Decodes(EncodingOf(s), Wire(s))
  BY <1>3 DEF ReadInv, PassInv, Wire
<1>6. Present(EncodingOf(s), s)
  BY <1>5 DEF AcceptedIn
<1>7. Wire(s) \in CompilationUnit
  BY <1>3, <1>6, UnitsAreUnits DEF ReadInv, ReadTypeOK, Wire
<1>8. Unit(s) \in CompilationUnit
  BY <1>7 DEF Unit, Decoded, CompilationUnit
<1> QED BY <1>3, <1>4, <1>5, <1>6, <1>7, <1>8 DEF Decodes

\* What an indexer reads from its sub-kzip is the unit of the archive, in all
\* that the decoder knows, but for the arguments that the transform gives it, for
\* every unit, rule and encoding; and a proto unit whose arguments it has not
\* changed is there as it was.
THEOREM SubKzipsAreFaithful == Spec => []SubKzipFaithful
<1>1. ReadInv /\ MadeInv => SubKzipFaithful
  <2> SUFFICES ASSUME ReadInv, MadeInv, made.kind = "sub", NEW s \in Sha, Made(s)
               PROVE  /\ Decodes("proto", made.units[s])
                      /\ [Decoded(made.units[s]) EXCEPT !.args = <<>>] = [Unit(s) EXCEPT !.args = <<>>]
                      /\ read[s] = {"proto"} /\ made.units[s].args = Wire(s).args
                            => made.units[s] = Wire(s)
    BY DEF SubKzipFaithful
  <2> DEFINE got == made.units[s]
             own == Filtered(Unit(s).args, Arg \ ProfileArg)
             args == Injected(Matching(Unit(s)), own)
  <2>1. read[s] # {} /\ got = UnitBytes(s)
    BY DEF MadeInv
  <2>2. /\ EncodingOf(s) \in Encodings /\ read[s] = {EncodingOf(s)}
        /\ Wire(s) \in CompilationUnit /\ Decodes(EncodingOf(s), Wire(s)) /\ ~Wire(s).cut
    BY <2>1, WireOfRead
  <2>3. Transformed(Unit(s)) = [Decoded(Wire(s)) EXCEPT !.args = args]
    BY <2>2 DEF Transformed, Unit, Decoded, CompilationUnit
  <2>4. CASE "proto" \in read[s] /\ Transformed(Unit(s)).args = Unit(s).args
    <3>1. got = Wire(s) /\ EncodingOf(s) = "proto"
      BY <2>1, <2>2, <2>4 DEF UnitBytes
    <3> QED BY <2>2, <3>1 DEF Unit
  <2>5. CASE ~("proto" \in read[s] /\ Transformed(Unit(s)).args = Unit(s).args)
    <3> DEFINE d == [Decoded(Wire(s)) EXCEPT !.args = args]
    <3>1. got = Encoded(d)
      BY <2>1, <2>3, <2>5 DEF UnitBytes
    <3>2. Decodes("proto", got) /\ Decoded(got) = d /\ got.args = args /\ ~got.details
      <4>1. Decodes("proto", Encoded(d)) /\ Decoded(Encoded(d)) = d /\ d.args = args /\ ~d.details
        BY <2>2, EncodedDecodes
      <4> QED BY <3>1, <4>1 DEF Encoded
    <3>3. [Decoded(got) EXCEPT !.args = <<>>] = [Unit(s) EXCEPT !.args = <<>>]
      BY <2>2, <3>2 DEF Unit, Decoded, CompilationUnit
    <3>4. ~(read[s] = {"proto"} /\ args = Wire(s).args)
      BY <2>2, <2>3, <2>5 DEF Unit, Decoded, CompilationUnit
    <3> QED BY <3>2, <3>3, <3>4
  <2> QED BY <2>4, <2>5
<1> QED BY <1>1, ReadAlways, MadeAlways, PTL

\* A normalized kzip has every name of the archive, as a proto that decodes to
\* the unit that wins, its proto unit or else its JSON unit.
THEOREM NormalizedKeeps == Spec => []NormalizeKeeps
<1>1. ReadInv /\ MadeInv => NormalizeKeeps
  <2> SUFFICES ASSUME ReadInv, MadeInv, made.kind = "normal", NEW s \in Sha
               PROVE  /\ Made(s) <=> Present("proto", s) \/ Present("json", s)
                      /\ Made(s) =>
                            /\ Decodes("proto", made.units[s])
                            /\ Decoded(made.units[s]) =
                                  Decoded(IF Present("proto", s) THEN archive["proto"][s]
                                          ELSE archive["json"][s])
    BY DEF NormalizeKeeps
  <2>1. /\ rpc = "done" /\ accept = Anything
        /\ made.units[s] = IF read[s] = {} THEN NoUnit ELSE ProtoBytes(s)
    BY DEF MadeInv, HasFilter
  <2>2. read[s] = ToBeRead(s)
    <3>1. PeeksAgree
      BY <2>1 DEF PeeksAgree, HasFilter
    <3>2. TwinsAgree
      BY <2>1, PrimaryIsAny DEF TwinsAgree, AcceptedIn, Accepted, Encodings
    <3> QED BY <2>1, <3>1, <3>2 DEF ReadInv, ExactInv
  <2>3. read[s] = IF Present("proto", s) THEN {"proto"}
                  ELSE IF Present("json", s) THEN {"json"} ELSE {}
    BY <2>1, <2>2, PrimaryIsAny DEF ToBeRead, AcceptedIn, Accepted
  <2>4. CASE read[s] = {}
    BY <2>1, <2>3, <2>4 DEF Made
  <2>5. CASE read[s] # {}
    <3>1. /\ EncodingOf(s) \in Encodings /\ read[s] = {EncodingOf(s)}
          /\ Wire(s) \in CompilationUnit /\ Decodes(EncodingOf(s), Wire(s)) /\ ~Wire(s).cut
          /\ Unit(s) \in CompilationUnit
      BY <2>5, WireOfRead
    <3>2. Wire(s) = IF Present("proto", s) THEN archive["proto"][s] ELSE archive["json"][s]
      BY <2>3, <2>5, <3>1 DEF Wire
    <3>3. ProtoBytes(s) = IF EncodingOf(s) = "proto" THEN Wire(s) ELSE Decoded(Wire(s))
      BY <3>1 DEF ProtoBytes, Encoded, Unit
    <3>4. /\ Decoded(Decoded(Wire(s))) = Decoded(Wire(s)) /\ Decodes("proto", Decoded(Wire(s)))
          /\ Decoded(Wire(s)) \in CompilationUnit
      BY <3>1 DEF Decoded, Decodes, CompilationUnit
    <3>5. ProtoBytes(s) # NoUnit
      BY <3>1, <3>3, <3>4, ArchiveAssumption
    <3> QED BY <2>1, <2>3, <2>5, <3>1, <3>2, <3>3, <3>4, <3>5 DEF Made
  <2> QED BY <2>4, <2>5
<1> QED BY <1>1, ReadAlways, MadeAlways, PTL

\* What a sub-kzip has of a unit: its inputs, and the arguments of the transform.
LEMMA UnitBytesAre ==
    ASSUME ReadInv, NEW s \in Sha, read[s] # {}
    PROVE  LET rules == Matching(Unit(s))
               own   == Filtered(Unit(s).args, Arg \ ProfileArg) IN
           /\ UnitBytes(s) # NoUnit /\ UnitBytes(s).input = Unit(s).input
           /\ rules \in Seq(Rule) /\ own \in Seq(Arg)
           /\ UnitBytes(s).args = Injected(rules, own)
<1> DEFINE rules == Matching(Unit(s))
           own   == Filtered(Unit(s).args, Arg \ ProfileArg)
<1>1. Wire(s) \in CompilationUnit /\ Unit(s) \in CompilationUnit
  BY WireOfRead
<1>2. rules \in Seq(Rule)
  BY RuleAssumption, FilteredIs DEF Matching, Rule
<1>3. own \in Seq(Arg)
  BY <1>1, FilteredIs DEF CompilationUnit
<1>4. Injected(rules, own) \in Seq(Arg)
  BY <1>2, <1>3, InjectedIs
<1> HIDE DEF rules, own
<1>5. Transformed(Unit(s)) = [Unit(s) EXCEPT !.args = Injected(rules, own)]
  BY <1>1 DEF Transformed, CompilationUnit, rules, own
<1>6. /\ Transformed(Unit(s)) \in CompilationUnit
      /\ Transformed(Unit(s)).input = Unit(s).input
      /\ Transformed(Unit(s)).args = Injected(rules, own)
  BY <1>1, <1>4, <1>5 DEF CompilationUnit
<1>7. Wire(s).input = Unit(s).input /\ Wire(s).args = Unit(s).args
  BY <1>1 DEF Unit, Decoded, CompilationUnit
<1>8. /\ UnitBytes(s) \in CompilationUnit /\ UnitBytes(s).input = Unit(s).input
      /\ UnitBytes(s).args = Injected(rules, own)
  BY <1>1, <1>6, <1>7 DEF UnitBytes, Encoded
<1> QED BY <1>2, <1>3, <1>8, ArchiveAssumption DEF rules, own

\* Whatever the rules, the arguments of a unit in a sub-kzip are those of the
\* matching rules that come last with their argument, and that the unit does not
\* have, in the order of the rules, and then the unit's own but for its profile
\* flags.
THEOREM ArgumentsInjected == Spec => []ArgsInjected
<1>1. ReadInv /\ MadeInv => ArgsInjected
  <2> SUFFICES ASSUME ReadInv, MadeInv, made.kind = "sub", NEW s \in Sha, Made(s)
               PROVE  LET rules == Matching(Unit(s))
                          own   == Filtered(Unit(s).args, Arg \ ProfileArg)
                          front == {k \in 1 .. Len(rules) :
                                       /\ rules[k].arg \notin ToSet(own)
                                       /\ \A j \in k + 1 .. Len(rules) : rules[j].arg # rules[k].arg} IN
                      made.units[s].args =
                          [i \in 1 .. Cardinality(front) |-> rules[Nth(front, i)].arg] \o own
    BY DEF ArgsInjected
  <2> DEFINE rules == Matching(Unit(s))
             own   == Filtered(Unit(s).args, Arg \ ProfileArg)
             front == {k \in 1 .. Len(rules) :
                          /\ rules[k].arg \notin ToSet(own)
                          /\ \A j \in k + 1 .. Len(rules) : rules[j].arg # rules[k].arg}
  <2>1. read[s] # {} /\ made.units[s] = UnitBytes(s)
    BY DEF MadeInv
  <2>2. rules \in Seq(Rule) /\ own \in Seq(Arg) /\ made.units[s].args = Injected(rules, own)
    BY <2>1, UnitBytesAre
  <2> HIDE DEF rules, own
  <2>3. front = Winning(rules, own, 0)
    BY DEF Winning
  <2>4. made.units[s].args = Listed(rules, front) \o own
    BY <2>2, <2>3, InjectedIs
  <2> QED BY <2>4 DEF Listed, rules, own
<1> QED BY <1>1, ReadAlways, MadeAlways, PTL

\* A list of a set in any order has each member of it once.
LEMMA OrderLists ==
    ASSUME NEW S, IsFiniteSet(S), NEW order \in SetToSeqs(S)
    PROVE  Cardinality(ToSet(order)) = Len(order) /\ ToSet(order) = S
<1> DEFINE n == Cardinality(S)
<1>1. n \in Nat
  BY FS_CardinalityType
<1>2. order \in [1 .. n -> S] /\ \A i, j \in 1 .. n : order[i] = order[j] => i = j
  BY DEF SetToSeqs
<1>3. \A x \in S : \E i \in 1 .. n : order[i] = x
  BY <1>1, <1>2, InjectionOnto
<1>4. ToSet(order) = S
  BY <1>2, <1>3 DEF ToSet
<1>5. Len(order) = n
  BY <1>1, <1>2
<1> QED BY <1>4, <1>5

LEMMA FilesAlways == Spec => [](files \subseteq Digest)
<1>1. Init => files \subseteq Digest
  BY DEF Init
<1>2. files \subseteq Digest /\ [Next]_vars => (files \subseteq Digest)'
  BY DEF Next, vars, Extract, Normalize
<1> QED BY <1>1, <1>2, PTL DEF Spec

\* Every kzip that is written has each file once that its units need and the
\* archive has, and no other, however often and in which units it is needed.
THEOREM KzipsAreSelfContained == Spec => []SelfContained
<1>1. Init => SelfContained
  BY DEF Init, NoKzip, SelfContained
<1>2. ReadInv /\ files \subseteq Digest /\ SelfContained /\ [Next]_vars => SelfContained'
  <2> SUFFICES ASSUME ReadInv, files \subseteq Digest, SelfContained, [Next]_vars PROVE SelfContained'
    OBVIOUS
  <2>1. CASE UNCHANGED <<files, made>>
    BY <2>1 DEF SelfContained, Made
  <2>2. ASSUME NEW s \in Sha, Extract(s) PROVE SelfContained'
    <3>1. read[s] # {} /\ Unit(s).input \in Seq(Inputs)
      <4>1. read[s] # {}
        BY <2>2 DEF Extract, Planned
      <4> QED BY <4>1, WireOfRead DEF CompilationUnit
    <3>2. /\ made' = [kind |-> "sub", units |-> [NoKzip.units EXCEPT ![s] = UnitBytes(s)],
                     blobs |-> Blobs(Unit(s))]
          /\ files' = files
      BY <2>2 DEF Extract
    <3>3. UnitBytes(s) # NoUnit /\ Needs(UnitBytes(s)) = Needs(Unit(s))
      BY <3>1, UnitBytesAre DEF Needs
    <3>4. \A t \in Sha : made'.units[t] = IF t = s THEN UnitBytes(s) ELSE NoUnit
      BY <3>2 DEF NoKzip
    <3>5. {t \in Sha : made'.units[t] # NoUnit} = {s}
      BY <3>3, <3>4
    <3>6. UNION {Needs(made'.units[t]) : t \in {t \in Sha : made'.units[t] # NoUnit}} = Needs(Unit(s))
      BY <3>3, <3>4, <3>5
    <3>7. /\ Cardinality(ToSet(Blobs(Unit(s)))) = Len(Blobs(Unit(s)))
          /\ ToSet(Blobs(Unit(s))) = files \cap Needs(Unit(s))
      <4>1. /\ Blobs(Unit(s)) \in Seq(files)
            /\ \A i, j \in 1 .. Len(Blobs(Unit(s))) : Blobs(Unit(s))[i] = Blobs(Unit(s))[j] => i = j
            /\ ToSet(Blobs(Unit(s))) = files \cap Needs(Unit(s))
        BY <3>1, BlobsAre
      <4> QED BY <4>1, OnceCounts
    <3>8. made'.blobs = Blobs(Unit(s))
      BY <3>2
    <3> QED BY <3>2, <3>6, <3>7, <3>8 DEF SelfContained, Made
  <2>3. CASE Normalize
    <3>1. PICK order \in SetToSeqs(NeededFiles \cap files) :
              /\ made' = [kind |-> "normal",
                          units |-> [s \in Sha |-> IF read[s] = {} THEN NoUnit ELSE ProtoBytes(s)],
                          blobs |-> order]
              /\ files' = files
      BY <2>3 DEF Normalize
    <3>2. \A s \in Sha : read[s] # {} => ProtoBytes(s) # NoUnit /\ Needs(ProtoBytes(s)) = Needs(Unit(s))
      <4> SUFFICES ASSUME NEW s \in Sha, read[s] # {}
                   PROVE  ProtoBytes(s) # NoUnit /\ Needs(ProtoBytes(s)) = Needs(Unit(s))
        OBVIOUS
      <4>1. Wire(s) \in CompilationUnit /\ Unit(s) \in CompilationUnit
        BY WireOfRead
      <4>2. Wire(s).input = Unit(s).input
        BY <4>1 DEF Unit, Decoded, CompilationUnit
      <4> QED BY <4>1, <4>2, ArchiveAssumption DEF ProtoBytes, Encoded, Needs
    <3>3. \A s \in Sha : made'.units[s] = IF read[s] = {} THEN NoUnit ELSE ProtoBytes(s)
      BY <3>1
    <3>4. {t \in Sha : made'.units[t] # NoUnit} = {t \in Sha : read[t] # {}}
      BY <3>2, <3>3
    <3>5. UNION {Needs(made'.units[t]) : t \in {t \in Sha : made'.units[t] # NoUnit}} = NeededFiles
      BY <3>2, <3>3, <3>4 DEF NeededFiles
    <3>6. Cardinality(ToSet(order)) = Len(order) /\ ToSet(order) = NeededFiles \cap files
      <4>1. IsFiniteSet(NeededFiles \cap files)
        BY FilesAssumption, FS_Subset
      <4> QED BY <3>1, <4>1, OrderLists
    <3>7. made'.blobs = order
      BY <3>1
    <3> QED BY <3>1, <3>5, <3>6, <3>7 DEF SelfContained, Made
  <2> QED BY <2>1, <2>2, <2>3 DEF Next, vars
<1> QED BY <1>1, <1>2, ReadAlways, FilesAlways, PTL DEF Spec
=============================================================================
