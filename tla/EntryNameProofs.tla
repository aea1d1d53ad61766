--------------------------- MODULE EntryNameProofs --------------------------
(***************************************************************************)
(* The texts in an index, for any characters, VNames, signatures and fact  *)
(* values: names from signatures and facts first, then tickets.            *)
(***************************************************************************)
EXTENDS QueryTexts, ListProofs

-----------------------------------------------------------------------------
(***************************************************************************)
(* JVM signatures.                                                         *)
(***************************************************************************)

\* The least and the last place in a text.
LEMMA LeastIs ==
    ASSUME NEW n \in Nat, NEW at \in SUBSET (1 .. n), at # {}
    PROVE  /\ Least(at) \in at /\ \A j \in at : Least(at) <= j
           /\ \E i \in at : \A j \in at : j <= i
<1>1. PICK i \in at : \A j \in at : i <= j
  <2>1. at \subseteq Nat
    OBVIOUS
  <2> QED BY <2>1, LeastNatural
<1>2. Max(at) \in at /\ \A j \in at : j <= Max(at)
  <2>1. Max(at) \in at /\ \A j \in at : Max(at) >= j
    BY MaxIs
  <2> QED BY <2>1
<1> QED BY <1>1, <1>2 DEF Least

\* A piece that may be a type has nothing but the characters of types.
LEMMA TypePiece ==
    ASSUME NEW t \in Text, NEW a \in 1 .. Len(t) + 1, NEW b \in 0 .. Len(t)
    PROVE  TypeOnly(SubSeq(t, a, b)) <=> \A i \in a .. b : t[i] \in TypeChar
<1> DEFINE p == SubSeq(t, a, b)
<1>1. /\ \A k \in 1 .. Len(p) : a + k - 1 \in a .. b /\ p[k] = t[a + k - 1]
      /\ \A i \in a .. b : i - a + 1 \in 1 .. Len(p) /\ p[i - a + 1] = t[i]
  BY PieceIs DEF Text
<1> HIDE DEF p
<1> QED BY <1>1 DEF TypeOnly, p

\* Of all places of brackets only the last "(" and the first ")" behind it can
\* be those of a descriptor.
LEMMA Stripping == DescriptorStripped
<1> SUFFICES ASSUME NEW sig \in Signatures
             PROVE  Stripped(sig) =
                        {SubSeq(sig, 1, i) : i \in
                            {j \in 0 .. Len(sig) - 1 : \E k \in j + 2 .. Len(sig) - 1 :
                                /\ sig[j + 1] = "(" /\ TypeOnly(SubSeq(sig, j + 2, k - 1))
                                /\ sig[k] = ")" /\ TypeOnly(SubSeq(sig, k + 1, Len(sig)))}}
  BY DEF DescriptorStripped
<1> DEFINE n == Len(sig)
           TypesIn(a, b) == \A i \in a .. b : sig[i] \in TypeChar
           Ends(j, k) == /\ sig[j + 1] = "(" /\ TypesIn(j + 2, k - 1)
                         /\ sig[k] = ")" /\ TypesIn(k + 1, n)
           opens == Positions(sig, {"("})
           closes == {i \in Positions(sig, {")"}) : i > Open(sig)}
           js == {j \in 0 .. n - 1 : \E k \in j + 2 .. n - 1 :
                                /\ sig[j + 1] = "(" /\ TypeOnly(SubSeq(sig, j + 2, k - 1))
                                /\ sig[k] = ")" /\ TypeOnly(SubSeq(sig, k + 1, n))}
<1>1. sig \in Text /\ n \in Nat
  <2>1. sig \in Text
    BY NamesAssumption
  <2> QED BY <2>1 DEF Text
<1>b. "(" \notin TypeChar /\ ")" \notin TypeChar
  BY NamesAssumption
<1>2. \A a \in 1 .. n + 1, b \in 0 .. n : TypeOnly(SubSeq(sig, a, b)) <=> TypesIn(a, b)
  BY <1>1, TypePiece
<1>3. js = {j \in 0 .. n - 1 : \E k \in j + 2 .. n - 1 : Ends(j, k)}
  <2> SUFFICES ASSUME NEW j \in 0 .. n - 1, NEW k \in j + 2 .. n - 1
               PROVE  /\ TypeOnly(SubSeq(sig, j + 2, k - 1)) <=> TypesIn(j + 2, k - 1)
                      /\ TypeOnly(SubSeq(sig, k + 1, n)) <=> TypesIn(k + 1, n)
    OBVIOUS
  <2>1. j + 2 \in 1 .. n + 1 /\ k - 1 \in 0 .. n /\ k + 1 \in 1 .. n + 1 /\ n \in 0 .. n
    BY <1>1
  <2> HIDE DEF n, TypesIn
  <2> QED BY <1>2, <2>1
<1> HIDE DEF js
<1>4. opens = {i \in 1 .. n : sig[i] = "("} /\ Positions(sig, {")"}) = {i \in 1 .. n : sig[i] = ")"}
  BY DEF Positions
<1>5. CASE opens = {}
  <2>1. js = {}
    <3> SUFFICES ASSUME NEW j \in js PROVE FALSE
      OBVIOUS
    <3>1. j \in 0 .. n - 1 /\ sig[j + 1] = "("
      BY <1>3
    <3>2. j + 1 \in 1 .. n
      BY <1>1, <3>1
    <3>3. j + 1 \in opens
      BY <1>4, <3>1, <3>2
    <3> QED BY <1>5, <3>3
  <2>2. Stripped(sig) = {}
    BY <1>5 DEF Stripped
  <2> QED BY <2>1, <2>2 DEF js
<1>6. CASE opens # {}
  <2> DEFINE o == Open(sig)   c == Least(closes)
  <2>1. o \in opens /\ \A i \in opens : i <= o
    <3>1. \E i \in opens : \A j \in opens : j <= i
      <4>1. opens \in SUBSET (1 .. n)
        BY <1>4
      <4> HIDE DEF opens, n
      <4> QED BY <1>1, <1>6, <4>1, LeastIs
    <3> QED BY <3>1 DEF Open
  <2>2. o \in 1 .. n /\ sig[o] = "(" /\ \A i \in 1 .. n : sig[i] = "(" => i <= o
    BY <1>4, <2>1
  <2>3. closes = {i \in 1 .. n : sig[i] = ")" /\ i > o}
    BY <1>4
  <2>4. closes # {} => c \in closes /\ \A i \in closes : c <= i
    <3>1. closes \in SUBSET (1 .. n)
      BY <2>3
    <3> HIDE DEF closes, n
    <3> QED BY <1>1, <3>1, LeastIs
  <2> HIDE DEF o, c, closes, opens
  <2>5. ASSUME NEW j \in 0 .. n - 1, NEW k \in j + 2 .. n - 1, Ends(j, k)
        PROVE  j = o - 1 /\ closes # {} /\ k = c
    <3>1. j \in Int /\ k \in Int /\ j + 1 \in 1 .. n /\ k \in 1 .. n /\ k > j + 1
      BY <1>1
    <3>2. ~(o > j + 1)
      <4> SUFFICES ASSUME o > j + 1 PROVE FALSE
        OBVIOUS
      <4>1. o \in j + 2 .. k - 1 \/ o = k \/ o \in k + 1 .. n
        BY <1>1, <2>2, <3>1
      <4> QED BY <2>2, <2>5, <4>1, <1>b
    <3>3. o = j + 1
      <4>1. sig[j + 1] = "("
        BY <2>5
      <4>2. j + 1 <= o /\ o \in Int
        BY <2>2, <3>1, <4>1
      <4> QED BY <3>1, <3>2, <4>2
    <3>4. k \in closes
      BY <2>3, <2>5, <3>1, <3>3
    <3>5. ~(c < k)
      <4> SUFFICES ASSUME c < k PROVE FALSE
        OBVIOUS
      <4>1. c \in j + 2 .. k - 1 /\ sig[c] = ")"
        BY <1>1, <2>3, <2>4, <3>1, <3>3, <3>4
      <4> QED BY <2>5, <4>1, <1>b
    <3>6. c \in Int /\ c <= k
      BY <2>3, <2>4, <3>4
    <3> QED BY <3>1, <3>3, <3>4, <3>5, <3>6, <2>2
  <2>6. Stripped(sig) = IF closes # {} /\ Ends(o - 1, c) /\ c < n THEN {SubSeq(sig, 1, o - 1)} ELSE {}
    <3> DEFINE args == SubSeq(sig, o + 1, c - 1)   ret == SubSeq(sig, c + 1, n)
    <3>1. Stripped(sig) = IF closes # {} /\ TypeOnly(args) /\ ret # <<>> /\ TypeOnly(ret)
                          THEN {SubSeq(sig, 1, o - 1)} ELSE {}
      BY <1>6 DEF Stripped, closes, c, o, opens
    <3> SUFFICES ASSUME closes # {}
                 PROVE  (TypeOnly(args) /\ ret # <<>> /\ TypeOnly(ret)) <=> (Ends(o - 1, c) /\ c < n)
      BY <3>1
    <3>2. c \in 1 .. n /\ c > o /\ sig[c] = ")"
      BY <2>3, <2>4
    <3>3. o + 1 \in 1 .. n + 1 /\ c - 1 \in 0 .. n /\ c + 1 \in 1 .. n + 1 /\ n \in 0 .. n
      BY <1>1, <2>2, <3>2
    <3>4. (TypeOnly(args) <=> TypesIn(o + 1, c - 1)) /\ (TypeOnly(ret) <=> TypesIn(c + 1, n))
      <4> HIDE DEF TypesIn, n
      <4> QED BY <1>2, <3>3
    <3>5. ret = <<>> <=> c + 1 > n
      BY <1>1, <3>3, PieceIs DEF Text
    <3>6. (o - 1) + 1 = o /\ (o - 1) + 2 = o + 1 /\ (c < n <=> ~(c + 1 > n))
      BY <1>1, <2>2, <3>2
    <3> HIDE DEF TypesIn, args, ret, n
    <3> QED BY <2>2, <3>2, <3>4, <3>5, <3>6
  <2>7. js = IF closes # {} /\ Ends(o - 1, c) /\ c < n THEN {o - 1} ELSE {}
    <3> HIDE DEF Ends
    <3>1. CASE closes # {} /\ Ends(o - 1, c) /\ c < n
      <4>1. o - 1 \in 0 .. n - 1 /\ c \in (o - 1) + 2 .. n - 1
        BY <1>1, <2>2, <2>3, <2>4, <3>1
      <4>2. o - 1 \in js
        BY <1>3, <3>1, <4>1
      <4>3. \A j \in js : j = o - 1
        BY <1>3, <2>5
      <4> QED BY <3>1, <4>2, <4>3
    <3>2. CASE ~(closes # {} /\ Ends(o - 1, c) /\ c < n)
      <4> SUFFICES ASSUME NEW j \in js PROVE FALSE
        BY <3>2
      <4>1. PICK k \in j + 2 .. n - 1 : j \in 0 .. n - 1 /\ Ends(j, k)
        BY <1>3
      <4>2. j = o - 1 /\ closes # {} /\ k = c /\ c < n
        BY <1>1, <2>5, <4>1
      <4> QED BY <3>2, <4>1, <4>2
    <3> QED BY <3>1, <3>2
  <2> QED BY <2>6, <2>7 DEF js
<1> QED BY <1>5, <1>6

-----------------------------------------------------------------------------
(***************************************************************************)
(* base64.                                                                 *)
(***************************************************************************)

\* The decoder between two characters.
Decoder == [acc : Nat, bits : {0, 2, 4, 6}, out : Seq(Nat)]

\* One sextet: what is in the accumulator above the last two sextets does not
\* get into a byte.
Taken(s, v, t) ==
    LET u == s.acc % 64 IN
    /\ t \in Decoder /\ t.acc % 64 = v
    /\ s.bits = 0 => t.bits = 6 /\ t.out = s.out
    /\ s.bits = 6 => t.bits = 4 /\ t.out = Append(s.out, u * 4 + v \div 16)
    /\ s.bits = 4 => t.bits = 2 /\ t.out = Append(s.out, (u % 16) * 16 + v \div 4)
    /\ s.bits = 2 => t.bits = 0 /\ t.out = Append(s.out, (u % 4) * 64 + v)

LEMMA SextetIs ==
    ASSUME NEW s \in Decoder, NEW v \in 0 .. 63
    PROVE  Taken(s, v, TakeSextet(s, v))
<1> DEFINE u == s.acc % 64   q == s.acc \div 64
           x == s.acc * 64 + v
           y == x % AccRange
           t == TakeSextet(s, v)
<1>1. s.acc \in Nat /\ s.bits \in {0, 2, 4, 6} /\ s.out \in Seq(Nat)
  BY DEF Decoder
<1>2. s.acc = 64 * q + u /\ q \in Nat /\ u \in 0 .. 63
  <2> DEFINE a == s.acc
  <2>1. a \in Nat
    BY <1>1
  <2> HIDE DEF a
  <2>2. a = 64 * (a \div 64) + (a % 64) /\ a \div 64 \in Nat /\ a % 64 \in 0 .. 63
    BY <2>1
  <2> QED BY <2>2 DEF a
<1>3. \E m \in Int : y = x - 16384 * m
  <2>1. AccRange \in Nat \ {0} /\ AccRange = 16384 * (AccRange \div 16384) /\ AccRange \div 16384 \in Nat
    <3>1. AccRange \in Nat \ {0} /\ AccRange % 16384 = 0
      BY Base64Assumption
    <3> QED BY <3>1
  <2>2. x \in Nat
    BY <1>1
  <2>3. x \div AccRange \in Nat /\ x = AccRange * (x \div AccRange) + y
    <3> HIDE DEF x
    <3> QED BY <2>1, <2>2, Euclid
  <2> DEFINE b == AccRange \div 16384   d == x \div AccRange
  <2>4. AccRange * d = 16384 * (b * d) /\ b * d \in Int
    <3>1. b \in Nat /\ d \in Nat /\ AccRange = 16384 * b
      BY <2>1, <2>3
    <3> HIDE DEF b, d
    <3> QED BY <3>1, Z3T(30)
  <2>5. y = x - 16384 * (b * d)
    <3>1. x \in Nat /\ y \in Int
      BY <2>1, <2>2
    <3> HIDE DEF x, y, b
    <3> QED BY <2>3, <2>4, <3>1
  <2> QED BY <2>4, <2>5
<1>4. y \in Nat
  <2>1. x \in Nat /\ AccRange \in Nat \ {0}
    BY <1>1, Base64Assumption
  <2> HIDE DEF x
  <2> QED BY <2>1, Euclid
<1>5. x = 4096 * q + 64 * u + v
  BY <1>2
<1> HIDE DEF x, y, u, q
<1>6. PICK m \in Int : y = x - 16384 * m
  BY <1>3
<1>7. y = (4096 * q + 64 * u + v) - 16384 * m
  BY <1>5, <1>6
<1>8. y % 64 = v
  BY <1>2, <1>4, <1>7
<1>9. /\ (y \div 16) % 256 = u * 4 + v \div 16
      /\ (y \div 4) % 256 = (u % 16) * 16 + v \div 4
      /\ y % 256 = (u % 4) * 64 + v
  BY <1>2, <1>4, <1>7, Z3T(60)
<1>10. t = IF s.bits + 6 >= 8
           THEN [acc |-> y, bits |-> (s.bits + 6) - 8,
                 out |-> Append(s.out, (y \div 2 ^ ((s.bits + 6) - 8)) % 256)]
           ELSE [acc |-> y, bits |-> s.bits + 6, out |-> s.out]
  BY DEF TakeSextet, ByteReady, x, y
<1> HIDE DEF t
<1>11. CASE s.bits = 0
  <2>1. ~(s.bits + 6 >= 8) /\ s.bits + 6 = 6
    BY <1>11
  <2>2. t = [acc |-> y, bits |-> 6, out |-> s.out]
    BY <1>10, <2>1
  <2> QED BY <1>1, <1>4, <1>8, <1>11, <2>2 DEF Decoder, Taken, t
<1>12. CASE s.bits = 6
  <2>1. (s.bits + 6) - 8 = 4 /\ s.bits + 6 >= 8 /\ 2 ^ 4 = 16
    BY <1>12
  <2>2. 2 ^ ((s.bits + 6) - 8) = 16
    BY <2>1
  <2>3. (y \div 2 ^ ((s.bits + 6) - 8)) % 256 = u * 4 + v \div 16
    BY <1>4, <1>9, <2>2
  <2>4. t = [acc |-> y, bits |-> 4, out |-> Append(s.out, u * 4 + v \div 16)]
    BY <1>10, <2>1, <2>3
  <2>5. u * 4 + v \div 16 \in Nat
    BY <1>2
  <2>6. Append(s.out, u * 4 + v \div 16) \in Seq(Nat)
    BY <1>1, <2>5
  <2> QED BY <1>4, <1>8, <1>12, <2>4, <2>6 DEF Decoder, Taken, t, u
<1>13. CASE s.bits = 4
  <2>1. (s.bits + 6) - 8 = 2 /\ s.bits + 6 >= 8 /\ 2 ^ 2 = 4
    BY <1>13
  <2>2. 2 ^ ((s.bits + 6) - 8) = 4
    BY <2>1
  <2>3. (y \div 2 ^ ((s.bits + 6) - 8)) % 256 = (u % 16) * 16 + v \div 4
    BY <1>4, <1>9, <2>2
  <2>4. t = [acc |-> y, bits |-> 2, out |-> Append(s.out, (u % 16) * 16 + v \div 4)]
    BY <1>10, <2>1, <2>3
  <2>5. (u % 16) * 16 + v \div 4 \in Nat
    BY <1>2
  <2>6. Append(s.out, (u % 16) * 16 + v \div 4) \in Seq(Nat)
    BY <1>1, <2>5
  <2> QED BY <1>4, <1>8, <1>13, <2>4, <2>6 DEF Decoder, Taken, t, u
<1>14. CASE s.bits = 2
  <2>1. (s.bits + 6) - 8 = 0 /\ s.bits + 6 >= 8 /\ 2 ^ 0 = 1
    BY <1>14
  <2>2. 2 ^ ((s.bits + 6) - 8) = 1
    BY <2>1
  <2>3. (y \div 2 ^ ((s.bits + 6) - 8)) % 256 = (u % 4) * 64 + v
    BY <1>4, <1>9, <2>2
  <2>4. t = [acc |-> y, bits |-> 0, out |-> Append(s.out, (u % 4) * 64 + v)]
    BY <1>10, <2>1, <2>3
  <2>5. (u % 4) * 64 + v \in Nat
    BY <1>2
  <2>6. Append(s.out, (u % 4) * 64 + v) \in Seq(Nat)
    BY <1>1, <2>5
  <2> QED BY <1>4, <1>8, <1>14, <2>4, <2>6 DEF Decoder, Taken, t, u
<1> QED BY <1>1, <1>11, <1>12, <1>13, <1>14 DEF Taken, u, t

Fresh == [acc |-> 0, bits |-> 0, out |-> <<>>]

\* The decoder goes through the sextets one after the other.
LEMMA SextetsGrow ==
    ASSUME NEW v \in Seq(0 .. 63)
    PROVE  \E st : /\ st[0] = Fresh /\ FoldLeft(TakeSextet, Fresh, v) = st[Len(v)]
                   /\ \A k \in 1 .. Len(v) : st[k] = TakeSextet(st[k - 1], v[k])
<1> DEFINE n == Len(v)
           step == [p \in Decoder \X (1 .. n) |-> TakeSextet(p[1], v[p[2]])]
           Run(f) == f = [s \in SUBSET DOMAIN v |->
                             IF s = {} THEN Fresh ELSE TakeSextet(f[s \ {Max(s)}], v[Max(s)])]
           g == CHOOSE f : Run(f)
<1>1. n \in Nat /\ DOMAIN v = 1 .. n /\ \A k \in 1 .. n : v[k] \in 0 .. 63
  BY ElementsOf
<1>2. step \in Steps(n, Decoder)
  <2> SUFFICES ASSUME NEW k \in 1 .. n, NEW s \in Decoder PROVE TakeSextet(s, v[k]) \in Decoder
    BY DEF Steps
  <2>1. v[k] \in 0 .. 63
    BY <1>1
  <2> QED BY <2>1, SextetIs DEF Taken
<1>3. \E f : Run(f)
  <2>1. Fresh \in Decoder
    BY DEF Fresh, Decoder
  <2> HIDE DEF step
  <2>2. PICK f : IsLeftFold(f, n, Decoder, Fresh, step)
    <3> HIDE DEF n
    <3> QED BY <1>1, <1>2, <2>1, FoldsFromLeft
  <2>3. \A s \in SUBSET (1 .. n) : s # {} =>
           step[<<f[s \ {Max(s)}], Max(s)>>] = TakeSextet(f[s \ {Max(s)}], v[Max(s)])
    <3> SUFFICES ASSUME NEW s \in SUBSET (1 .. n), s # {}
                 PROVE  step[<<f[s \ {Max(s)}], Max(s)>>] = TakeSextet(f[s \ {Max(s)}], v[Max(s)])
      OBVIOUS
    <3>1. Max(s) \in 1 .. n
      BY <1>1, MaxIs
    <3>2. f[s \ {Max(s)}] \in Decoder
      BY <2>2 DEF IsLeftFold
    <3> QED BY <3>1, <3>2 DEF step
  <2>4. Run(f)
    BY <1>1, <2>2, <2>3 DEF IsLeftFold
  <2> QED BY <2>4
<1>4. Run(g)
  <2> HIDE DEF Run
  <2> QED BY <1>3
<1>5. FoldLeft(TakeSextet, Fresh, v) = g[DOMAIN v]
  BY DEF FoldLeft, MapThenFoldSet
<1> HIDE DEF g, step
<1>6. g[{}] = Fresh
  BY <1>4
<1>7. \A k \in 1 .. n : g[1 .. k] = TakeSextet(g[1 .. k - 1], v[k])
  <2> TAKE k \in 1 .. n
  <2>1. 1 .. k \in SUBSET (1 .. n) /\ 1 .. k # {} /\ Max(1 .. k) = k /\ (1 .. k) \ {k} = 1 .. k - 1
    BY <1>1, EndsOf
  <2> QED BY <1>1, <1>4, <2>1
<1> DEFINE st == [k \in 0 .. n |-> g[1 .. k]]
<1>8. st[0] = Fresh /\ FoldLeft(TakeSextet, Fresh, v) = st[n]
  BY <1>1, <1>5, <1>6
<1>9. \A k \in 1 .. n : st[k] = TakeSextet(st[k - 1], v[k])
  BY <1>1, <1>7
<1> QED BY <1>8, <1>9

\* A list that is one longer.
LEMMA OneMore ==
    ASSUME NEW S, NEW a \in Seq(S), NEW m \in Nat, NEW f, a = [i \in 1 .. m |-> f[i]], f[m + 1] \in S
    PROVE  Append(a, f[m + 1]) = [i \in 1 .. m + 1 |-> f[i]]
<1>1. Len(a) = m
  <2>1. Len(a) \in Nat /\ 1 .. Len(a) = 1 .. m
    OBVIOUS
  <2>2. Len(a) \in 1 .. m \/ Len(a) = 0
    BY <2>1
  <2>3. m \in 1 .. Len(a) \/ m = 0
    BY <2>1
  <2> QED BY <2>1, <2>2, <2>3
<1> DEFINE b == Append(a, f[m + 1])
<1>2. b \in Seq(S) /\ Len(b) = m + 1 /\ (\A i \in 1 .. m : b[i] = a[i]) /\ b[m + 1] = f[m + 1]
  BY <1>1
<1>3. \A i \in 1 .. m + 1 : b[i] = f[i]
  <2> TAKE i \in 1 .. m + 1
  <2>1. i \in 1 .. m \/ i = m + 1
    OBVIOUS
  <2> HIDE DEF b
  <2> QED BY <1>2, <2>1
<1>4. b = [i \in 1 .. m + 1 |-> b[i]]
  <2> HIDE DEF b
  <2> QED BY <1>2
<1> QED BY <1>3, <1>4

\* What the decoder has after k sextets: the bytes that are complete, the bits
\* that are left, and at the end of the accumulator the last sextet.
LEMMA SextetsAre ==
    ASSUME NEW v \in Seq(0 .. 63)
    PROVE  FoldLeft(TakeSextet, Fresh, v).out = [i \in 1 .. (6 * Len(v)) \div 8 |-> Byte(v, i - 1)]
<1> DEFINE n == Len(v)
           f == [i \in 1 .. n |-> Byte(v, i - 1)]
           Bytes(m) == [i \in 1 .. m |-> f[i]]
           Right(s, k) == /\ s \in Decoder
                          /\ k > 0 => s.acc % 64 = v[k]
                          /\ s.bits = (6 * k) % 8 /\ s.out = Bytes((6 * k) \div 8)
<1>1. n \in Nat /\ \A k \in 1 .. n : v[k] \in 0 .. 63
  BY ElementsOf
<1>2. PICK st : /\ st[0] = Fresh /\ FoldLeft(TakeSextet, Fresh, v) = st[n]
                /\ \A k \in 1 .. n : st[k] = TakeSextet(st[k - 1], v[k])
  BY SextetsGrow
<1> DEFINE T == {k \in 0 .. n : Right(st[k], k)}
<1>3. 0 \in T
  <2>1. (6 * 0) % 8 = 0 /\ (6 * 0) \div 8 = 0 /\ ~(0 > 0) /\ 0 \in 0 .. n
    BY <1>1
  <2>2. Bytes(0) = <<>>
    <3>1. 1 .. 0 = {}
      OBVIOUS
    <3> QED BY <3>1
  <2>3. Fresh \in Decoder /\ Fresh.bits = 0 /\ Fresh.out = <<>>
    BY DEF Fresh, Decoder
  <2> HIDE DEF Bytes
  <2>4. Right(Fresh, 0)
    BY <2>1, <2>2, <2>3
  <2> HIDE DEF Right
  <2> QED BY <1>2, <2>1, <2>4
<1>4. ASSUME NEW k \in 0 .. n, k < n, k \in T PROVE k + 1 \in T
  <2> DEFINE s == st[k]   t == st[k + 1]   p == k \div 4   x == v[k + 1]   u == v[k]
             m == (6 * k) \div 8
  <2>1. Right(s, k)
    BY <1>4
  <2> HIDE DEF T
  <2>2. k + 1 \in 1 .. n /\ (k + 1) - 1 = k /\ k \in Nat
    <3> HIDE DEF n
    <3> QED BY <1>1, <1>4
  <2>3. t = TakeSextet(s, x) /\ x \in 0 .. 63
    BY <1>1, <1>2, <2>2
  <2>4. s.out = Bytes(m) /\ s.out \in Seq(Nat) /\ s \in Decoder /\ s.bits = (6 * k) % 8
    <3> HIDE DEF s, Bytes
    <3>1. s.out = Bytes(m) /\ s \in Decoder /\ s.bits = (6 * k) % 8
      BY <2>1
    <3> HIDE DEF m
    <3> QED BY <3>1 DEF Decoder
  <2>5. k > 0 => u \in 0 .. 63 /\ s.acc % 64 = u
    <3>1. k > 0 => k \in 1 .. n
      <4> HIDE DEF n
      <4> QED BY <1>1, <1>4
    <3> HIDE DEF s, n, u, Bytes
    <3>2. k > 0 => s.acc % 64 = u
      BY <2>1 DEF u
    <3> USE DEF u
    <3> QED BY <1>1, <3>1, <3>2
  <2> HIDE DEF s, t, x
  <2>6. /\ t \in Decoder /\ t.acc % 64 = x
        /\ s.bits = 0 => t.bits = 6 /\ t.out = s.out
        /\ s.bits = 6 => t.bits = 4 /\ t.out = Append(s.out, (s.acc % 64) * 4 + x \div 16)
        /\ s.bits = 4 => t.bits = 2 /\ t.out = Append(s.out, ((s.acc % 64) % 16) * 16 + x \div 4)
        /\ s.bits = 2 => t.bits = 0 /\ t.out = Append(s.out, ((s.acc % 64) % 4) * 64 + x)
    <3>1. Taken(s, x, t)
      BY <2>3, <2>4, SextetIs
    <3> QED BY <3>1 DEF Taken
  <2>7. p \in Nat /\ (k = 4 * p \/ k = 4 * p + 1 \/ k = 4 * p + 2 \/ k = 4 * p + 3)
    <3> HIDE DEF n
    <3> QED BY <2>2
  <2>8. \A j \in 0 .. n - 1 : f[j + 1] = Byte(v, j)
    <3> TAKE j \in 0 .. n - 1
    <3>1. j + 1 \in 1 .. n /\ (j + 1) - 1 = j
      <4> HIDE DEF n
      <4> QED BY <1>1
    <3> HIDE DEF n
    <3> QED BY <3>1
  <2>9. \A y \in Nat : m \in Nat /\ y = f[m + 1] => Append(s.out, y) = Bytes(m + 1)
    <3> TAKE y \in Nat
    <3> HIDE DEF m, f
    <3> QED BY <2>4, OneMore
  <2>10. t.bits = (6 * (k + 1)) % 8 /\ t.out = Bytes((6 * (k + 1)) \div 8)
    <3> HIDE DEF p, u, Right, Bytes, n, f, m
    <3>1. CASE k = 4 * p
      <4>1. (6 * k) % 8 = 0 /\ (6 * (k + 1)) % 8 = 6 /\ (6 * (k + 1)) \div 8 = m
        BY <2>7, <3>1 DEF m
      <4>2. t.bits = 6 /\ t.out = s.out
        BY <2>6, <2>4, <4>1
      <4> QED BY <2>4, <4>1, <4>2
    <3>2. CASE k = 4 * p + 1
      <4>1. /\ (6 * k) % 8 = 6 /\ (6 * (k + 1)) % 8 = 4 /\ k > 0
            /\ m = 3 * p /\ (6 * (k + 1)) \div 8 = m + 1
        BY <2>7, <3>2 DEF m
      <4>2. t.bits = 4 /\ t.out = Append(s.out, u * 4 + x \div 16)
        BY <2>5, <2>6, <2>4, <4>1
      <4>3. m \in 0 .. n - 1 /\ m % 3 = 0 /\ m + m \div 3 + 1 = k /\ m + m \div 3 + 2 = k + 1
        BY <1>1, <2>2, <2>7, <3>2, <4>1
      <4>4. f[m + 1] = u * 4 + x \div 16 /\ u * 4 + x \div 16 \in Nat
        <5>1. f[m + 1] = Byte(v, m)
          BY <2>8, <4>3
        <5>2. Byte(v, m) = u * 4 + x \div 16
          BY <4>3 DEF Byte, u, x
        <5>3. u \in 0 .. 63
          BY <2>5, <4>1
        <5>4. u * 4 + x \div 16 \in Nat
          BY <2>3, <5>3
        <5> QED BY <5>1, <5>2, <5>4
      <4>5. Append(s.out, u * 4 + x \div 16) = Bytes(m + 1)
        <5>1. m \in Nat
          BY <2>2, <4>3
        <5> QED BY <2>9, <4>4, <5>1
      <4> QED BY <4>1, <4>2, <4>5
    <3>3. CASE k = 4 * p + 2
      <4>1. /\ (6 * k) % 8 = 4 /\ (6 * (k + 1)) % 8 = 2 /\ k > 0
            /\ m = 3 * p + 1 /\ (6 * (k + 1)) \div 8 = m + 1
        BY <2>7, <3>3 DEF m
      <4>2. t.bits = 2 /\ t.out = Append(s.out, (u % 16) * 16 + x \div 4)
        BY <2>5, <2>6, <2>4, <4>1
      <4>3. m \in 0 .. n - 1 /\ m % 3 = 1 /\ m + m \div 3 + 1 = k /\ m + m \div 3 + 2 = k + 1
        BY <1>1, <2>2, <2>7, <3>3, <4>1
      <4>4. f[m + 1] = (u % 16) * 16 + x \div 4 /\ (u % 16) * 16 + x \div 4 \in Nat
        <5>1. f[m + 1] = Byte(v, m)
          BY <2>8, <4>3
        <5>2. Byte(v, m) = (u % 16) * 16 + x \div 4
          BY <4>3 DEF Byte, u, x
        <5>3. u \in 0 .. 63
          BY <2>5, <4>1
        <5>4. (u % 16) * 16 + x \div 4 \in Nat
          BY <2>3, <5>3
        <5> QED BY <5>1, <5>2, <5>4
      <4>5. Append(s.out, (u % 16) * 16 + x \div 4) = Bytes(m + 1)
        <5>1. m \in Nat
          BY <2>2, <4>3
        <5> QED BY <2>9, <4>4, <5>1
      <4> QED BY <4>1, <4>2, <4>5
    <3>4. CASE k = 4 * p + 3
      <4>1. /\ (6 * k) % 8 = 2 /\ (6 * (k + 1)) % 8 = 0 /\ k > 0
            /\ m = 3 * p + 2 /\ (6 * (k + 1)) \div 8 = m + 1
        BY <2>7, <3>4 DEF m
      <4>2. t.bits = 0 /\ t.out = Append(s.out, (u % 4) * 64 + x)
        BY <2>5, <2>6, <2>4, <4>1
      <4>3. m \in 0 .. n - 1 /\ m % 3 = 2 /\ m + m \div 3 + 1 = k /\ m + m \div 3 + 2 = k + 1
        BY <1>1, <2>2, <2>7, <3>4, <4>1
      <4>4. f[m + 1] = (u % 4) * 64 + x /\ (u % 4) * 64 + x \in Nat
        <5>1. f[m + 1] = Byte(v, m)
          BY <2>8, <4>3
        <5>2. Byte(v, m) = (u % 4) * 64 + x
          BY <4>3 DEF Byte, u, x
        <5>3. u \in 0 .. 63
          BY <2>5, <4>1
        <5>4. (u % 4) * 64 + x \in Nat
          BY <2>3, <5>3
        <5> QED BY <5>1, <5>2, <5>4
      <4>5. Append(s.out, (u % 4) * 64 + x) = Bytes(m + 1)
        <5>1. m \in Nat
          BY <2>2, <4>3
        <5> QED BY <2>9, <4>4, <5>1
      <4> QED BY <4>1, <4>2, <4>5
    <3> QED BY <2>7, <3>1, <3>2, <3>3, <3>4
  <2>11. Right(t, k + 1)
    BY <2>2, <2>6, <2>10 DEF x
  <2> QED BY <2>2, <2>11 DEF T, t
<1>5. n \in T
  <2> HIDE DEF T, n
  <2>1. \A k \in 0 .. n : k < n /\ k \in T => k + 1 \in T
    BY <1>4
  <2>2. \A k \in 0 .. n : k \in T
    BY <1>1, <1>3, <2>1, InductionUp
  <2> QED BY <1>1, <2>2
<1>6. FoldLeft(TakeSextet, Fresh, v).out = Bytes((6 * n) \div 8)
  BY <1>2, <1>5
<1>7. \A i \in 1 .. (6 * n) \div 8 : f[i] = Byte(v, i - 1)
  <2> TAKE i \in 1 .. (6 * n) \div 8
  <2>1. i \in 1 .. n
    BY <1>1
  <2> QED BY <2>1
<1> QED BY <1>6, <1>7

\* Whatever stands between the characters, the decoder returns the bytes that
\* are complete.
LEMMA Decoding == Base64Right
<1> SUFFICES ASSUME NEW text \in Texts64
             PROVE  LET v == Filtered(text, 0 .. 63) IN
                    Base64Decode(text) =
                        IF Contains(text, Bad) THEN {}
                        ELSE {[i \in 1 .. (6 * Len(v)) \div 8 |-> Byte(v, i - 1)]}
  BY DEF Base64Right
<1> DEFINE v == Filtered(text, 0 .. 63)
<1>1. text \in Seq(0 .. 65)
  BY Base64Assumption
<1>2. v \in Seq(0 .. 65) /\ Range(v) = Range(text) \cap (0 .. 63)
  BY <1>1, FilteredIs
<1>3. v \in Seq(0 .. 63)
  <2> HIDE DEF v
  <2>1. Len(v) \in Nat /\ DOMAIN v = 1 .. Len(v)
    BY <1>2, ElementsOf
  <2>2. \A k \in 1 .. Len(v) : v[k] \in 0 .. 63
    BY <1>2, <2>1 DEF Range
  <2>3. v = [k \in 1 .. Len(v) |-> v[k]]
    BY <1>2
  <2>4. v \in [1 .. Len(v) -> 0 .. 63]
    BY <2>2, <2>3
  <2> QED BY <2>1, <2>4, SeqDef, Zenon
<1> HIDE DEF v
<1>4. FoldLeft(TakeSextet, Fresh, v).out = [i \in 1 .. (6 * Len(v)) \div 8 |-> Byte(v, i - 1)]
  BY <1>3, SextetsAre
<1>5. Base64Decode(text) = IF Contains(text, Bad) THEN {} ELSE {FoldLeft(TakeSextet, Fresh, v).out}
  BY DEF Base64Decode, Fresh, v
<1> QED BY <1>4, <1>5 DEF v

-----------------------------------------------------------------------------
(***************************************************************************)
(* Escapes.                                                                *)
(***************************************************************************)

\* What is escaped: characters, and the "." and ".." of a path.
Word == Char \cup {".", ".."}

\* What is left when it is.
Plain == (Word \ Reserved) \cup {"%", "/"}

\* What becomes of a character.
Escapes(c, keepSlash) == IF Escaped(c, keepSlash) THEN <<"%">> \o Code[c] ELSE <<c>>

\* No sign is in a text with escapes, and none is a character.
LEMMA Signs ==
    /\ {"%", "?", "#", "/"} \subseteq Reserved /\ Reserved \subseteq Char /\ Char \subseteq Word
    /\ Plain \subseteq Word /\ Hex \subseteq Plain
    /\ Plain \cap {"kythe:", "//", "?lang=", "?path=", "?root=", "?", "#"} = {}
    /\ Word \cap {"kythe:", "//", "?lang=", "?path=", "?root="} = {}
    /\ "." \notin Reserved
<1>1. {"%", "?", "#", "/"} \subseteq Reserved /\ Reserved \subseteq Char /\ Char \subseteq Word
  BY CharAssumption DEF Word
<1>2. Hex \subseteq Char \ Reserved /\ "." \notin Reserved
  BY CharAssumption
<1>3. Word \cap {"kythe:", "//", "?lang=", "?path=", "?root="} = {}
  BY CharAssumption DEF Word
<1>4. Plain \subseteq Word /\ Hex \subseteq Plain /\ "?" \notin Plain /\ "#" \notin Plain
  BY <1>1, <1>2 DEF Plain
<1> QED BY <1>1, <1>2, <1>3, <1>4

\* One character: three with "%" in front, or itself.
LEMMA EscapesOf ==
    ASSUME NEW c \in Word, NEW keep
    PROVE  /\ Escapes(c, keep) \in Seq(Plain)
           /\ Escaped(c, keep) => /\ c \in Char /\ Len(Escapes(c, keep)) = 3
                                  /\ Escapes(c, keep)[1] = "%"
                                  /\ Code[c] = <<Escapes(c, keep)[2], Escapes(c, keep)[3]>>
           /\ ~Escaped(c, keep) => /\ Escapes(c, keep) = <<c>> /\ c # "%"
<1>1. CASE Escaped(c, keep)
  <2>1. c \in Char /\ Escapes(c, keep) = <<"%">> \o Code[c]
    BY <1>1, Signs DEF Escaped, Escapes
  <2>2. Code[c] \in [1 .. 2 -> Hex]
    BY <2>1, CharAssumption
  <2>3. Code[c] \in Seq(Plain) /\ Len(Code[c]) = 2 /\ Code[c] = <<Code[c][1], Code[c][2]>>
    <3>1. Code[c][1] \in Hex /\ Code[c][2] \in Hex /\ Code[c] = <<Code[c][1], Code[c][2]>>
      BY <2>2
    <3>2. Code[c][1] \in Plain /\ Code[c][2] \in Plain
      BY <3>1, Signs
    <3>3. PICK x \in Plain, y \in Plain : Code[c] = <<x, y>>
      BY <3>1, <3>2
    <3>4. <<x, y>> \in Seq(Plain) /\ Len(<<x, y>>) = 2 /\ <<x, y>>[1] = x /\ <<x, y>>[2] = y
      OBVIOUS
    <3> QED BY <3>3, <3>4
  <2>4. <<"%">> \in Seq(Plain) /\ Len(<<"%">>) = 1 /\ <<"%">>[1] = "%"
    BY DEF Plain
  <2>5. /\ Escapes(c, keep) \in Seq(Plain) /\ Len(Escapes(c, keep)) = 3
        /\ Escapes(c, keep)[1] = "%" /\ Escapes(c, keep)[2] = Code[c][1] /\ Escapes(c, keep)[3] = Code[c][2]
    <3> DEFINE a == <<"%">>   b == Code[c]
    <3> HIDE DEF a, b
    <3>1. /\ a \o b \in Seq(Plain) /\ Len(a \o b) = Len(a) + Len(b)
          /\ \A i \in 1 .. Len(a) : (a \o b)[i] = a[i]
          /\ \A i \in 1 .. Len(b) : (a \o b)[Len(a) + i] = b[i]
      <4>1. Joins(a, b, Plain)
        BY <2>3, <2>4, Joining DEF a, b
      <4> QED BY <4>1 DEF Joins
    <3>2. Len(a) = 1 /\ Len(b) = 2 /\ a[1] = "%"
      BY <2>3, <2>4 DEF a, b
    <3>3. Len(a \o b) = 3 /\ (a \o b)[1] = "%" /\ (a \o b)[2] = b[1] /\ (a \o b)[3] = b[2]
      BY <3>1, <3>2
    <3> QED BY <2>1, <3>1, <3>3 DEF a, b
  <2> QED BY <1>1, <2>1, <2>3, <2>5
<1>2. CASE ~Escaped(c, keep)
  <2>1. Escapes(c, keep) = <<c>>
    BY <1>2 DEF Escapes
  <2>2. c \in Plain /\ c # "%"
    BY <1>2, Signs DEF Escaped, Plain
  <2> QED BY <1>2, <2>1, <2>2
<1> QED BY <1>1, <1>2

\* An escaped text is the escapes of its characters, and has no sign.
LEMMA EscapeIs ==
    ASSUME NEW t \in Seq(Word), NEW keep
    PROVE  LET s == [k \in 1 .. Len(t) |-> Escapes(t[k], keep)] IN
           /\ s \in Pieces(Len(t), Plain)
           /\ Escape(t, keep) \in Seq(Plain)
           /\ \E e : Chain(e, s, Len(t), Plain) /\ Escape(t, keep) = e[Len(t)]
<1> DEFINE n == Len(t)   s == [k \in 1 .. n |-> Escapes(t[k], keep)]
<1>1. n \in Nat /\ \A k \in 1 .. n : t[k] \in Word
  BY ElementsOf
<1>2. s \in Pieces(n, Plain)
  BY <1>1, EscapesOf DEF Pieces
<1>3. Escape(t, keep) = FlattenSeq(s)
  BY DEF Escape, Escapes
<1> HIDE DEF s, n
<1>4. PICK e : Chain(e, s, n, Plain) /\ FlattenSeq(s) = e[n]
  BY <1>1, <1>2, FlattenIs
<1>5. e[n] \in Seq(Plain)
  BY <1>1, <1>4 DEF Chain
<1> QED BY <1>2, <1>3, <1>4, <1>5 DEF s, n

\* What percent_decode makes of a text from place i on.
Pairs(text, i) == {c \in Char : i + 2 <= Len(text) /\ Code[c] = <<text[i + 1], text[i + 2]>>}

Decodes(text, from) ==
    /\ from[Len(text) + 1] = <<>>
    /\ \A i \in 1 .. Len(text) :
          /\ from[i] \in Seq(Word) /\ from[i + 1] \in Seq(Word)
          /\ from[i] = IF text[i] = "%" /\ Pairs(text, i) # {}
                       THEN <<CHOOSE c \in Pairs(text, i) : TRUE>> \o from[i + 3]
                       ELSE <<text[i]>> \o from[i + 1]

\* There is what percent_decode computes from the end of a text on.
LEMMA DecodeIs ==
    ASSUME NEW text \in Seq(Word)
    PROVE  \E from : Decodes(text, from) /\ PercentDecode(text) = from[1]
<1> DEFINE n == Len(text)
           Value(from, i) == IF i > n THEN <<>>
                             ELSE IF text[i] = "%" /\ Pairs(text, i) # {}
                             THEN <<CHOOSE c \in Pairs(text, i) : TRUE>> \o from[i + 3]
                             ELSE <<text[i]>> \o from[i + 1]
           Run(from) == from = [i \in 1 .. n + 1 |-> Value(from, i)]
           T == {k \in 0 .. n : \E f : /\ f \in [k + 1 .. n + 1 -> Seq(Word)]
                                       /\ \A i \in k + 1 .. n + 1 : f[i] = Value(f, i)}
           h == CHOOSE from : Run(from)
<1>1. n \in Nat /\ \A i \in 1 .. n : text[i] \in Word
  BY ElementsOf
<1>2. ASSUME NEW i \in 1 .. n, NEW f, f[i + 1] \in Seq(Word), i + 2 <= n => f[i + 3] \in Seq(Word)
      PROVE  Value(f, i) \in Seq(Word)
  <2>1. CASE text[i] = "%" /\ Pairs(text, i) # {}
    <3>1. (CHOOSE c \in Pairs(text, i) : TRUE) \in Word /\ i + 2 <= n
      BY <2>1, Signs DEF Pairs
    <3> DEFINE c == CHOOSE d \in Pairs(text, i) : TRUE
    <3> HIDE DEF c
    <3>2. <<c>> \o f[i + 3] \in Seq(Word)
      <4>1. <<c>> \in Seq(Word)
        BY <3>1 DEF c
      <4> QED BY <1>2, <3>1, <4>1, Joining DEF Joins
    <3> QED BY <1>1, <2>1, <3>2 DEF c
  <2>2. CASE ~(text[i] = "%" /\ Pairs(text, i) # {})
    <3>1. <<text[i]>> \o f[i + 1] \in Seq(Word)
      <4>1. <<text[i]>> \in Seq(Word)
        BY <1>1
      <4> QED BY <1>2, <4>1, Joining DEF Joins
    <3>2. ~(i > n)
      BY <1>1
    <3> QED BY <2>2, <3>1, <3>2
  <2> QED BY <2>1, <2>2
<1> HIDE DEF n
<1>3. n \in T
  <2> DEFINE f == [i \in n + 1 .. n + 1 |-> <<>>]
  <2>1. f \in [n + 1 .. n + 1 -> Seq(Word)] /\ n \in 0 .. n
    BY <1>1
  <2>2. \A i \in n + 1 .. n + 1 : f[i] = <<>> /\ i > n
    BY <1>1
  <2> HIDE DEF f
  <2>3. \A i \in n + 1 .. n + 1 : f[i] = Value(f, i)
    BY <2>2
  <2> QED BY <2>1, <2>3
<1>4. \A k \in 0 .. n : k > 0 /\ k \in T => k - 1 \in T
  <2> SUFFICES ASSUME NEW k \in 0 .. n, k > 0, k \in T PROVE k - 1 \in T
    OBVIOUS
  <2>1. PICK f : /\ f \in [k + 1 .. n + 1 -> Seq(Word)]
                 /\ \A i \in k + 1 .. n + 1 : f[i] = Value(f, i)
    OBVIOUS
  <2>2. k \in 1 .. n /\ k + 1 \in k + 1 .. n + 1 /\ (k + 2 <= n => k + 3 \in k + 1 .. n + 1)
    BY <1>1
  <2>3. Value(f, k) \in Seq(Word)
    <3> HIDE DEF Value
    <3> QED BY <1>2, <2>1, <2>2
  <2> DEFINE g == [i \in k .. n + 1 |-> IF i = k THEN Value(f, k) ELSE f[i]]
  <2>4. g \in [k .. n + 1 -> Seq(Word)]
    <3> HIDE DEF Value
    <3>1. \A i \in k .. n + 1 : i = k \/ i \in k + 1 .. n + 1
      BY <1>1
    <3> QED BY <2>1, <2>3, <3>1
  <2>5. ASSUME NEW i \in k .. n + 1 PROVE g[i] = Value(g, i)
    <3>1. g[i] = Value(f, i)
      <4>1. i = k \/ i \in k + 1 .. n + 1
        BY <1>1
      <4> HIDE DEF Value
      <4> QED BY <2>1, <4>1
    <3>2. i <= n => i + 1 \in k .. n + 1 /\ i + 1 # k
      BY <1>1, <2>2
    <3>3. i + 2 <= n => i + 3 \in k .. n + 1 /\ i + 3 # k
      BY <1>1, <2>2
    <3>4. i <= n => g[i + 1] = f[i + 1]
      BY <3>2
    <3>5. i + 2 <= n => g[i + 3] = f[i + 3]
      BY <3>3
    <3>6. Pairs(text, i) # {} => i + 2 <= n
      BY DEF Pairs, n
    <3>7. i > n \/ i <= n
      BY <1>1
    <3> HIDE DEF g
    <3>8. Value(f, i) = Value(g, i)
      BY <3>4, <3>5, <3>6, <3>7
    <3> QED BY <3>1, <3>8
  <2>6. k - 1 \in 0 .. n /\ (k - 1) + 1 = k
    BY <1>1, <2>2
  <2> HIDE DEF g, Value
  <2> QED BY <2>4, <2>5, <2>6
<1>5. 0 \in T
  <2>1. 0 \in 0 .. n
    BY <1>1
  <2> HIDE DEF T
  <2> QED BY <1>1, <1>3, <1>4, <2>1, InductionDown
<1>6. \E g : Run(g)
  <2>1. PICK f : f \in [1 .. n + 1 -> Seq(Word)] /\ \A i \in 1 .. n + 1 : f[i] = Value(f, i)
    <3>1. 0 + 1 = 1
      OBVIOUS
    <3> HIDE DEF Value
    <3> QED BY <1>5, <3>1
  <2> HIDE DEF Value
  <2> WITNESS f
  <2> QED BY <2>1
<1>7. Run(h)
  <2> HIDE DEF Run
  <2> QED BY <1>6
<1>8. PercentDecode(text) = h[1]
  BY DEF PercentDecode, Pairs, n
<1> HIDE DEF h, T
<1>9. \A i \in 1 .. n + 1 : h[i] = Value(h, i)
  <2> HIDE DEF Value
  <2> QED BY <1>7
<1>10. h[n + 1] = <<>>
  <2>1. n + 1 > n /\ n + 1 \in 1 .. n + 1
    BY <1>1
  <2> QED BY <1>9, <2>1
<1>11. \A i \in 1 .. n + 1 : h[i] \in Seq(Word)
  <2> DEFINE Typed(k) == \A i \in k + 1 .. n + 1 : h[i] \in Seq(Word)
             U == {k \in 0 .. n : Typed(k)}
  <2> HIDE DEF Value
  <2>1. Typed(n)
    <3>1. \A i \in n + 1 .. n + 1 : i = n + 1
      BY <1>1
    <3>2. <<>> \in Seq(Word)
      OBVIOUS
    <3> QED BY <1>10, <3>1, <3>2
  <2>2. ASSUME NEW k \in 0 .. n, k > 0, Typed(k) PROVE Typed(k - 1)
    <3> SUFFICES ASSUME NEW i \in (k - 1) + 1 .. n + 1 PROVE h[i] \in Seq(Word)
      OBVIOUS
    <3>1. k \in 1 .. n /\ k \in 1 .. n + 1 /\ (i = k \/ i \in k + 1 .. n + 1)
      BY <1>1, <2>2
    <3>2. k + 1 \in k + 1 .. n + 1 /\ (k + 2 <= n => k + 3 \in k + 1 .. n + 1)
      BY <1>1, <3>1
    <3>3. h[k + 1] \in Seq(Word) /\ (k + 2 <= n => h[k + 3] \in Seq(Word))
      BY <2>2, <3>2
    <3>4. h[k] \in Seq(Word)
      BY <1>2, <1>9, <3>1, <3>3
    <3> QED BY <2>2, <3>1, <3>4
  <2>3. Typed(0)
    <3> HIDE DEF Typed
    <3>1. 0 \in 0 .. n /\ n \in 0 .. n /\ \A k \in 0 .. n : k > 0 => k - 1 \in 0 .. n
      BY <1>1
    <3>2. n \in U /\ \A k \in 0 .. n : k > 0 /\ k \in U => k - 1 \in U
      BY <2>1, <2>2, <3>1
    <3> HIDE DEF U
    <3>3. 0 \in U
      BY <1>1, <3>1, <3>2, InductionDown
    <3> QED BY <3>3 DEF U
  <2>4. 0 + 1 = 1
    OBVIOUS
  <2> QED BY <2>3, <2>4
<1>12. ASSUME NEW i \in 1 .. n
       PROVE  h[i] = IF text[i] = "%" /\ Pairs(text, i) # {}
                     THEN <<CHOOSE c \in Pairs(text, i) : TRUE>> \o h[i + 3]
                     ELSE <<text[i]>> \o h[i + 1]
  <2>1. i \in 1 .. n + 1 /\ ~(i > n)
    BY <1>1
  <2> QED BY <1>9, <2>1
<1>13. \A i \in 1 .. n : i \in 1 .. n + 1 /\ i + 1 \in 1 .. n + 1
  BY <1>1
<1>14. Decodes(text, h)
  BY <1>10, <1>11, <1>12, <1>13 DEF Decodes, n
<1> QED BY <1>8, <1>14

\* One character is put behind what is decoded already.
LEMMA OneBehind ==
    ASSUME NEW W, NEW t \in Seq(W), NEW k \in 1 .. Len(t), NEW x, x \in Seq(W)
    PROVE  SubSeq(t, 1, k - 1) \o (<<t[k]>> \o x) = SubSeq(t, 1, k) \o x
<1>1. Len(t) \in Nat /\ t[k] \in W /\ 1 \in 1 .. Len(t) /\ k \in 1 .. Len(t)
  BY ElementsOf
<1>2. SubSeq(t, 1, k) = SubSeq(t, 1, k - 1) \o <<t[k]>>
  BY <1>1, SubSeqRecursiveSecond
<1>3. SubSeq(t, 1, k - 1) \in Seq(W)
  <2>1. 1 \in 1 .. Len(t) + 1 /\ k - 1 \in 0 .. Len(t)
    BY <1>1
  <2> QED BY <2>1, PieceIs
<1>4. <<t[k]>> \in Seq(W)
  BY <1>1
<1> DEFINE a == SubSeq(t, 1, k - 1)   b == <<t[k]>>
<1> HIDE DEF a, b
<1>5. a \in Seq(W) /\ b \in Seq(W)
  BY <1>3, <1>4 DEF a, b
<1>6. (a \o b) \o x = a \o (b \o x)
  BY <1>5, ConcatAssociative, SMTT(60)
<1> QED BY <1>2, <1>6 DEF a, b

\* What was escaped is there again when it is decoded.
LEMMA Unescaped ==
    ASSUME NEW t \in Seq(Word), NEW keep
    PROVE  PercentDecode(Escape(t, keep)) = t
<1> DEFINE n == Len(t)
           s == [k \in 1 .. n |-> Escapes(t[k], keep)]
           text == Escape(t, keep)
<1>1. n \in Nat /\ \A k \in 1 .. n : t[k] \in Word /\ s[k] = Escapes(t[k], keep)
  BY ElementsOf
<1>2. s \in Pieces(n, Plain) /\ text \in Seq(Plain)
  BY EscapeIs
<1>3. PICK e : Chain(e, s, n, Plain) /\ text = e[n]
  BY EscapeIs
<1> HIDE DEF s, text
<1>4. text \in Seq(Word) /\ Len(text) \in Nat
  BY <1>2, Signs, SeqMonotonic
<1>5. PICK from : Decodes(text, from) /\ PercentDecode(text) = from[1]
  BY <1>4, DecodeIs
<1> DEFINE off(k) == Len(e[k])
<1>6. ASSUME NEW k \in 1 .. n
      PROVE  /\ from[off(k - 1) + 1] = <<t[k]>> \o from[off(k) + 1]
             /\ from[off(k) + 1] \in Seq(Word)
  <2> DEFINE a == off(k - 1)   c == t[k]
  <2>1. /\ off(k) = a + Len(s[k]) /\ a \in Nat /\ Len(s[k]) \in Nat /\ off(k) <= Len(text)
        /\ \A j \in 1 .. Len(s[k]) : text[a + j] = s[k][j]
    <3> HIDE DEF n, off, a, c
    <3>1. n \in Nat /\ s \in Pieces(n, Plain) /\ Chain(e, s, n, Plain)
      BY <1>1, <1>2, <1>3
    <3>2. Stands(e, s, n, k)
      BY <3>1, PieceStands
    <3> QED BY <1>3, <3>2 DEF off, a, Stands
  <2>2. c \in Word /\ s[k] = Escapes(c, keep)
    BY <1>1
  <2> HIDE DEF off, n, a, c
  <2>3. CASE Escaped(c, keep)
    <3>1. /\ c \in Char /\ Len(s[k]) = 3 /\ s[k][1] = "%"
          /\ Code[c] = <<s[k][2], s[k][3]>>
      BY <2>2, <2>3, EscapesOf
    <3>2. text[a + 1] = "%" /\ text[a + 2] = s[k][2] /\ text[a + 3] = s[k][3]
      <4>1. 1 \in 1 .. Len(s[k]) /\ 2 \in 1 .. Len(s[k]) /\ 3 \in 1 .. Len(s[k])
        BY <3>1
      <4> QED BY <2>1, <3>1, <4>1
    <3>3. /\ a + 1 \in 1 .. Len(text) /\ (a + 1) + 2 <= Len(text) /\ off(k) = a + 3
          /\ (a + 1) + 1 = a + 2 /\ (a + 1) + 2 = a + 3 /\ (a + 1) + 3 = off(k) + 1
          /\ a + 3 \in 1 .. Len(text)
      BY <1>4, <2>1, <3>1
    <3>4. Pairs(text, a + 1) = {c}
      <4>1. c \in Pairs(text, a + 1)
        BY <3>1, <3>2, <3>3 DEF Pairs
      <4>2. \A d \in Pairs(text, a + 1) : d = c
        <5> TAKE d \in Pairs(text, a + 1)
        <5>1. d \in Char /\ Code[d] = Code[c]
          BY <3>1, <3>2, <3>3 DEF Pairs
        <5> QED BY <3>1, <5>1, CharAssumption
      <4> QED BY <4>1, <4>2
    <3>5. (CHOOSE d \in Pairs(text, a + 1) : TRUE) = c
      BY <3>4
    <3>6. from[a + 1] = <<c>> \o from[off(k) + 1]
      BY <1>5, <3>2, <3>3, <3>4, <3>5 DEF Decodes
    <3>7. from[off(k) + 1] \in Seq(Word)
      <4>1. (a + 3) + 1 = off(k) + 1
        BY <3>3
      <4> QED BY <1>5, <3>3, <4>1 DEF Decodes
    <3> QED BY <3>6, <3>7 DEF a, c
  <2>4. CASE ~Escaped(c, keep)
    <3>1. s[k] = <<c>> /\ c # "%"
      BY <2>2, <2>4, EscapesOf
    <3>2. Len(s[k]) = 1 /\ s[k][1] = c
      BY <3>1
    <3>3. text[a + 1] = c /\ a + 1 \in 1 .. Len(text) /\ (a + 1) + 1 = off(k) + 1
      BY <1>4, <2>1, <3>2
    <3>4. from[a + 1] = <<c>> \o from[off(k) + 1] /\ from[off(k) + 1] \in Seq(Word)
      BY <1>5, <3>1, <3>3 DEF Decodes
    <3> QED BY <3>4 DEF a, c
  <2> QED BY <2>3, <2>4
<1> DEFINE T == {k \in 0 .. n : from[1] = SubSeq(t, 1, k) \o from[off(k) + 1]}
<1>7. 0 \in T
  <2>1. off(0) = 0 /\ 0 \in 0 .. n
    BY <1>1, <1>3 DEF Chain
  <2>2. SubSeq(t, 1, 0) = <<>>
    BY SubSeqEmpty
  <2>3. from[1] \in Seq(Word)
    <3>1. CASE Len(text) = 0
      <4>1. Len(text) + 1 = 1 /\ <<>> \in Seq(Word)
        BY <3>1
      <4> QED BY <1>5, <4>1 DEF Decodes
    <3>2. CASE Len(text) # 0
      <4>1. 1 \in 1 .. Len(text)
        BY <1>4, <3>2
      <4> QED BY <1>5, <4>1 DEF Decodes
    <3> QED BY <3>1, <3>2
  <2>4. from[1] = <<>> \o from[1]
    BY <2>3, ConcatEmptySeq
  <2> HIDE DEF off
  <2>5. off(0) + 1 = 1
    BY <2>1
  <2> QED BY <2>1, <2>2, <2>4, <2>5
<1> HIDE DEF off
<1>8. \A k \in 0 .. n : k < n /\ k \in T => k + 1 \in T
  <2> SUFFICES ASSUME NEW k \in 0 .. n, k < n, k \in T PROVE k + 1 \in T
    OBVIOUS
  <2>1. k + 1 \in 1 .. n /\ k + 1 \in 0 .. n /\ (k + 1) - 1 = k
    BY <1>1
  <2>2. from[off(k) + 1] = <<t[k + 1]>> \o from[off(k + 1) + 1] /\ from[off(k + 1) + 1] \in Seq(Word)
    BY <1>6, <2>1
  <2>3. SubSeq(t, 1, k) \o (<<t[k + 1]>> \o from[off(k + 1) + 1]) = SubSeq(t, 1, k + 1) \o from[off(k + 1) + 1]
    <3> DEFINE i == k + 1   x == from[off(k + 1) + 1]
    <3>1. i \in 1 .. Len(t) /\ x \in Seq(Word) /\ i - 1 = k
      BY <2>1, <2>2
    <3> HIDE DEF i, x
    <3>2. SubSeq(t, 1, i - 1) \o (<<t[i]>> \o x) = SubSeq(t, 1, i) \o x
      BY <3>1, OneBehind, SMTT(60)
    <3> QED BY <3>1, <3>2 DEF i, x
  <2> QED BY <2>1, <2>2, <2>3
<1> HIDE DEF T
<1>9. n \in T
  <2> HIDE DEF n
  <2>1. \A k \in 0 .. n : k \in T
    BY <1>1, <1>7, <1>8, InductionUp
  <2>2. n \in 0 .. n
    BY <1>1
  <2> QED BY <2>1, <2>2
<1>10. from[off(n) + 1] = <<>>
  BY <1>3, <1>5 DEF Decodes, off
<1>11. SubSeq(t, 1, n) = t /\ t \o <<>> = t
  BY SubSeqFull, ConcatEmptySeq
<1> QED BY <1>5, <1>9, <1>10, <1>11 DEF T, text

-----------------------------------------------------------------------------
(***************************************************************************)
(* Components and their signs.                                             *)
(***************************************************************************)

\* A text, a sign that is not in it, and what follows the sign.
LEMMA SignStands ==
    ASSUME NEW A, NEW s, NEW a \in Seq(A), NEW d \in Seq(A)
    PROVE  LET t == a \o (<<s>> \o d) IN
           /\ t \in Seq(A \cup {s}) /\ Len(t) = Len(a) + 1 + Len(d)
           /\ Len(a) \in Nat /\ Len(d) \in Nat
           /\ \A i \in 1 .. Len(a) : t[i] = a[i] /\ a[i] \in A
           /\ t[Len(a) + 1] = s
           /\ \A i \in 1 .. Len(d) : t[Len(a) + 1 + i] = d[i] /\ d[i] \in A
<1> DEFINE B == A \cup {s}   x == <<s>>   y == x \o d   t == a \o y
<1>1. a \in Seq(B) /\ d \in Seq(B)
  <2>1. A \subseteq B
    OBVIOUS
  <2> HIDE DEF B
  <2> QED BY <2>1, SeqMonotonic
<1>2. x \in Seq(B) /\ Len(x) = 1 /\ x[1] = s
  OBVIOUS
<1> HIDE DEF B, x
<1>3. /\ y \in Seq(B) /\ Len(y) = Len(x) + Len(d)
      /\ \A i \in 1 .. Len(x) : y[i] = x[i]
      /\ \A i \in 1 .. Len(d) : y[Len(x) + i] = d[i]
  <2>1. Joins(x, d, B)
    BY <1>1, <1>2, Joining
  <2> QED BY <2>1 DEF Joins
<1> HIDE DEF y
<1>4. /\ t \in Seq(B) /\ Len(t) = Len(a) + Len(y)
      /\ \A i \in 1 .. Len(a) : t[i] = a[i]
      /\ \A i \in 1 .. Len(y) : t[Len(a) + i] = y[i]
  <2>1. Joins(a, y, B)
    BY <1>1, <1>3, Joining
  <2> QED BY <2>1 DEF Joins
<1> HIDE DEF t
<1>5. /\ Len(a) \in Nat /\ Len(d) \in Nat
      /\ \A i \in 1 .. Len(a) : a[i] \in A
      /\ \A i \in 1 .. Len(d) : d[i] \in A
  BY ElementsOf
<1>6. y[1] = s /\ \A i \in 1 .. Len(d) : y[1 + i] = d[i]
  BY <1>2, <1>3
<1>7. t[Len(a) + 1] = s
  <2>1. 1 \in 1 .. Len(y)
    BY <1>2, <1>3, <1>5
  <2> QED BY <1>4, <1>6, <2>1
<1>8. \A i \in 1 .. Len(d) : t[Len(a) + 1 + i] = d[i]
  <2> TAKE i \in 1 .. Len(d)
  <2>1. 1 + i \in 1 .. Len(y) /\ Len(a) + (1 + i) = Len(a) + 1 + i
    BY <1>2, <1>3, <1>5
  <2> QED BY <1>4, <1>6, <2>1
<1>9. Len(t) = Len(a) + 1 + Len(d)
  BY <1>2, <1>3, <1>4, <1>5
<1> QED BY <1>4, <1>5, <1>7, <1>8, <1>9 DEF t, y, x, B

\* A component behind a text.
Put(a, s, d) == a \o Component(s, d)

\* A component adds its sign to the characters of a text, or nothing.
LEMMA ComponentTyped ==
    ASSUME NEW A, NEW s, NEW a \in Seq(A), NEW d \in Seq(A)
    PROVE  Put(a, s, d) \in Seq(A \cup {s})
<1>1. CASE d = <<>>
  <2>1. Put(a, s, d) = a
    BY <1>1, ConcatEmptySeq DEF Component, Put
  <2>2. A \subseteq A \cup {s}
    OBVIOUS
  <2> QED BY <2>1, <2>2, SeqMonotonic
<1>2. CASE d # <<>>
  BY <1>2, SignStands DEF Component, Put
<1> QED BY <1>1, <1>2

\* The last component can be taken off.
LEMMA Peel ==
    ASSUME NEW A, NEW s, s \notin A, NEW a \in Seq(A), NEW b \in Seq(A),
           NEW d \in Seq(A), NEW e \in Seq(A), Put(a, s, d) = Put(b, s, e)
    PROVE  a = b /\ d = e
<1> DEFINE t == a \o (<<s>> \o d)   u == b \o (<<s>> \o e)
<1>1. /\ Len(t) = Len(a) + 1 + Len(d) /\ Len(a) \in Nat /\ Len(d) \in Nat
      /\ \A i \in 1 .. Len(a) : t[i] = a[i] /\ a[i] \in A
      /\ t[Len(a) + 1] = s
      /\ \A i \in 1 .. Len(d) : t[Len(a) + 1 + i] = d[i]
  BY SignStands
<1>2. /\ Len(u) = Len(b) + 1 + Len(e) /\ Len(b) \in Nat /\ Len(e) \in Nat
      /\ \A i \in 1 .. Len(b) : u[i] = b[i] /\ b[i] \in A
      /\ u[Len(b) + 1] = s
      /\ \A i \in 1 .. Len(e) : u[Len(b) + 1 + i] = e[i]
  BY SignStands
<1>3. Put(a, s, d) = IF d = <<>> THEN a ELSE t
  BY ConcatEmptySeq DEF Component, Put
<1>4. Put(b, s, e) = IF e = <<>> THEN b ELSE u
  BY ConcatEmptySeq DEF Component, Put
<1> HIDE DEF t, u
<1>5. CASE d = <<>> /\ e = <<>>
  BY <1>3, <1>4, <1>5
<1>6. CASE d = <<>> /\ e # <<>>
  <2>1. a = u
    BY <1>3, <1>4, <1>6
  <2>2. Len(b) + 1 \in 1 .. Len(a)
    BY <1>2, <2>1
  <2> QED BY <1>1, <1>2, <2>1, <2>2
<1>7. CASE d # <<>> /\ e = <<>>
  <2>1. t = b
    BY <1>3, <1>4, <1>7
  <2>2. Len(a) + 1 \in 1 .. Len(b)
    BY <1>1, <2>1
  <2> QED BY <1>1, <1>2, <2>1, <2>2
<1>8. CASE d # <<>> /\ e # <<>>
  <2>1. t = u
    BY <1>3, <1>4, <1>8
  <2>2. Len(a) = Len(b)
    <3>1. ~(Len(a) < Len(b))
      <4> SUFFICES ASSUME Len(a) < Len(b) PROVE FALSE
        OBVIOUS
      <4>1. Len(a) + 1 \in 1 .. Len(b)
        BY <1>1, <1>2
      <4> QED BY <1>1, <1>2, <2>1, <4>1
    <3>2. ~(Len(b) < Len(a))
      <4> SUFFICES ASSUME Len(b) < Len(a) PROVE FALSE
        OBVIOUS
      <4>1. Len(b) + 1 \in 1 .. Len(a)
        BY <1>1, <1>2
      <4> QED BY <1>1, <1>2, <2>1, <4>1
    <3> QED BY <1>1, <1>2, <3>1, <3>2
  <2>3. Len(d) = Len(e)
    BY <1>1, <1>2, <2>1, <2>2
  <2>4. a = b
    <3>1. \A i \in 1 .. Len(a) : a[i] = b[i]
      BY <1>1, <1>2, <2>1, <2>2
    <3> QED BY <2>2, <3>1, SeqEqual
  <2>5. d = e
    <3>1. \A i \in 1 .. Len(d) : d[i] = e[i]
      BY <1>1, <1>2, <2>1, <2>2, <2>3
    <3> QED BY <2>3, <3>1, SeqEqual
  <2> QED BY <2>4, <2>5
<1> QED BY <1>5, <1>6, <1>7, <1>8

\* A ticket up to each of its components.
First0 == Plain \cup {"kythe:"}
First1 == First0 \cup {"//"}
First2 == First1 \cup {"?lang="}
First3 == First2 \cup {"?path="}
First4 == First3 \cup {"?root="}

Upto1(c) == Put(<<"kythe:">>, "//", c)
Upto2(c, l) == Put(Upto1(c), "?lang=", l)
Upto3(c, l, p) == Put(Upto2(c, l), "?path=", p)
Upto4(c, l, p, r) == Put(Upto3(c, l, p), "?root=", r)
Upto5(c, l, p, r, g) == Put(Upto4(c, l, p, r), "#", g)

\* A sign is not in what stands before it.
LEMMA Firsts ==
    /\ "//" \notin First0 /\ "?lang=" \notin First1 /\ "?path=" \notin First2
    /\ "?root=" \notin First3 /\ "#" \notin First4
    /\ Plain \subseteq First0 /\ Plain \subseteq First1 /\ Plain \subseteq First2
    /\ Plain \subseteq First3 /\ Plain \subseteq First4
    /\ "?" \notin First4 /\ "?root=" \notin First3 /\ "?path=" \notin First2
BY Signs DEF First0, First1, First2, First3, First4

\* A text with nothing in it that is to be escaped.
PlainText == Seq(Plain)

\* ... which has the signs of the components before it.
LEMMA UptoTyped ==
    ASSUME NEW c \in PlainText, NEW l \in PlainText, NEW p \in PlainText, NEW r \in PlainText
    PROVE  /\ <<"kythe:">> \in Seq(First0) /\ Upto1(c) \in Seq(First1) /\ Upto2(c, l) \in Seq(First2)
           /\ Upto3(c, l, p) \in Seq(First3) /\ Upto4(c, l, p, r) \in Seq(First4)
<1>1. c \in Seq(First0) /\ l \in Seq(First1) /\ p \in Seq(First2) /\ r \in Seq(First3)
  BY Firsts, SeqMonotonic DEF PlainText
<1>2. <<"kythe:">> \in Seq(First0)
  BY DEF First0
<1>3. Upto1(c) \in Seq(First1)
  BY <1>1, <1>2, ComponentTyped DEF Upto1, First1
<1>4. Upto2(c, l) \in Seq(First2)
  BY <1>1, <1>3, ComponentTyped DEF Upto2, First2
<1>5. Upto3(c, l, p) \in Seq(First3)
  BY <1>1, <1>4, ComponentTyped DEF Upto3, First3
<1>6. Upto4(c, l, p, r) \in Seq(First4)
  BY <1>1, <1>5, ComponentTyped DEF Upto4, First4
<1> QED BY <1>2, <1>3, <1>4, <1>5, <1>6

AllPlain(c, l, p, r, g) ==
    c \in PlainText /\ l \in PlainText /\ p \in PlainText /\ r \in PlainText /\ g \in PlainText

\* Tickets that are equal have equal components.
LEMMA TicketsApart ==
    ASSUME NEW c, NEW l, NEW p, NEW r, NEW g, AllPlain(c, l, p, r, g),
           NEW c2, NEW l2, NEW p2, NEW r2, NEW g2, AllPlain(c2, l2, p2, r2, g2),
           Upto5(c, l, p, r, g) = Upto5(c2, l2, p2, r2, g2)
    PROVE  c = c2 /\ l = l2 /\ p = p2 /\ r = r2 /\ g = g2
<1>0. /\ c \in PlainText /\ l \in PlainText /\ p \in PlainText /\ r \in PlainText /\ g \in PlainText
      /\ c2 \in PlainText /\ l2 \in PlainText /\ p2 \in PlainText /\ r2 \in PlainText /\ g2 \in PlainText
  BY DEF AllPlain
<1>1. g \in Seq(First4) /\ g2 \in Seq(First4) /\ r \in Seq(First3) /\ r2 \in Seq(First3)
  BY <1>0, Firsts, SeqMonotonic DEF PlainText
<1>2. p \in Seq(First2) /\ p2 \in Seq(First2) /\ l \in Seq(First1) /\ l2 \in Seq(First1)
      /\ c \in Seq(First0) /\ c2 \in Seq(First0)
  BY <1>0, Firsts, SeqMonotonic DEF PlainText
<1>3. /\ <<"kythe:">> \in Seq(First0) /\ Upto1(c) \in Seq(First1) /\ Upto2(c, l) \in Seq(First2)
      /\ Upto3(c, l, p) \in Seq(First3) /\ Upto4(c, l, p, r) \in Seq(First4)
  BY <1>0, UptoTyped
<1>4. /\ Upto1(c2) \in Seq(First1) /\ Upto2(c2, l2) \in Seq(First2)
      /\ Upto3(c2, l2, p2) \in Seq(First3) /\ Upto4(c2, l2, p2, r2) \in Seq(First4)
  BY <1>0, UptoTyped
<1>5. g = g2 /\ Upto4(c, l, p, r) = Upto4(c2, l2, p2, r2)
  <2> DEFINE x == Upto4(c, l, p, r)   y == Upto4(c2, l2, p2, r2)
  <2>1. Put(x, "#", g) = Put(y, "#", g2)
    BY DEF Upto5
  <2>2. x \in Seq(First4) /\ y \in Seq(First4) /\ g \in Seq(First4) /\ g2 \in Seq(First4) /\ "#" \notin First4
    BY <1>1, <1>3, <1>4, Firsts
  <2> HIDE DEF x, y
  <2>3. x = y /\ g = g2
    BY <2>1, <2>2, Peel
  <2> QED BY <2>3 DEF x, y
<1>6. r = r2 /\ Upto3(c, l, p) = Upto3(c2, l2, p2)
  <2> DEFINE x == Upto3(c, l, p)   y == Upto3(c2, l2, p2)
  <2>1. Put(x, "?root=", r) = Put(y, "?root=", r2)
    BY <1>5 DEF Upto4
  <2>2. x \in Seq(First3) /\ y \in Seq(First3) /\ r \in Seq(First3) /\ r2 \in Seq(First3) /\ "?root=" \notin First3
    BY <1>1, <1>3, <1>4, Firsts
  <2> HIDE DEF x, y
  <2>3. x = y /\ r = r2
    BY <2>1, <2>2, Peel
  <2> QED BY <2>3 DEF x, y
<1>7. p = p2 /\ Upto2(c, l) = Upto2(c2, l2)
  <2> DEFINE x == Upto2(c, l)   y == Upto2(c2, l2)
  <2>1. Put(x, "?path=", p) = Put(y, "?path=", p2)
    BY <1>6 DEF Upto3
  <2>2. x \in Seq(First2) /\ y \in Seq(First2) /\ p \in Seq(First2) /\ p2 \in Seq(First2) /\ "?path=" \notin First2
    BY <1>2, <1>3, <1>4, Firsts
  <2> HIDE DEF x, y
  <2>3. x = y /\ p = p2
    BY <2>1, <2>2, Peel
  <2> QED BY <2>3 DEF x, y
<1>8. l = l2 /\ Upto1(c) = Upto1(c2)
  <2> DEFINE x == Upto1(c)   y == Upto1(c2)
  <2>1. Put(x, "?lang=", l) = Put(y, "?lang=", l2)
    BY <1>7 DEF Upto2
  <2>2. x \in Seq(First1) /\ y \in Seq(First1) /\ l \in Seq(First1) /\ l2 \in Seq(First1) /\ "?lang=" \notin First1
    BY <1>2, <1>3, <1>4, Firsts
  <2> HIDE DEF x, y
  <2>3. x = y /\ l = l2
    BY <2>1, <2>2, Peel
  <2> QED BY <2>3 DEF x, y
<1>9. c = c2
  <2> DEFINE x == <<"kythe:">>   y == <<"kythe:">>
  <2>1. Put(x, "//", c) = Put(y, "//", c2)
    BY <1>8 DEF Upto1
  <2>2. x \in Seq(First0) /\ y \in Seq(First0) /\ c \in Seq(First0) /\ c2 \in Seq(First0) /\ "//" \notin First0
    BY <1>2, <1>3, <1>4, Firsts
  <2> HIDE DEF x, y
  <2>3. x = y /\ c = c2
    BY <2>1, <2>2, Peel
  <2> QED BY <2>3 DEF x, y
<1> QED BY <1>5, <1>6, <1>7, <1>8, <1>9

-----------------------------------------------------------------------------
(***************************************************************************)
(* What a query reads from a ticket.                                       *)
(***************************************************************************)
\* The least place is the one that is below all others.
LEMMA LeastEquals ==
    ASSUME NEW n \in Nat, NEW at \in SUBSET (1 .. n), NEW m \in at, \A j \in at : m <= j
    PROVE  Least(at) = m
<1>1. Least(at) \in at /\ \A j \in at : Least(at) <= j
  BY DEF Least
<1>2. at \subseteq Int
  OBVIOUS
<1>3. Least(at) \in Int /\ m \in Int /\ Least(at) <= m /\ m <= Least(at)
  BY <1>1, <1>2
<1> QED BY <1>3

\* A section stands between its sign, which is there once, and the first of the
\* signs that may come after it, or the end.
Section(t, s, E) ==
    LET at  == Positions(t, {s})
        end == {i \in Positions(t, E) : \E j \in at : j < i} IN
    SubSeq(t, Least(at) + 1, IF end = {} THEN Len(t) ELSE Least(end) - 1)

\* A section d behind a sign s, between texts without that sign.
Frame(A, s, B, E, a, d, b) ==
    /\ s \notin A /\ s \notin B /\ E \cap A = {} /\ s \notin E
    /\ a \in Seq(A) /\ d \in Seq(A) /\ d # <<>>
    /\ b \in Seq(B) /\ (b = <<>> \/ b[1] \in E)

Found(t, s, E, d) == Positions(t, {s}) # {} /\ Section(t, s, E) = d

\* It is what is cut out.
LEMMA SectionIs ==
    ASSUME NEW A, NEW s, NEW B, NEW E, NEW a, NEW d, NEW b, Frame(A, s, B, E, a, d, b)
    PROVE  Found((a \o (<<s>> \o d)) \o b, s, E, d)
<1> DEFINE u == a \o (<<s>> \o d)
           t == u \o b
           W == A \cup {s} \cup B
           m == Len(a) + 1
           l == Len(u)
<1>0. /\ s \notin A /\ s \notin B /\ E \cap A = {} /\ s \notin E
      /\ a \in Seq(A) /\ d \in Seq(A) /\ d # <<>>
      /\ b \in Seq(B) /\ (b = <<>> \/ b[1] \in E)
  BY DEF Frame
<1>1. /\ u \in Seq(A \cup {s}) /\ l = m + Len(d) /\ Len(a) \in Nat /\ Len(d) \in Nat
      /\ \A i \in 1 .. Len(a) : u[i] = a[i] /\ a[i] \in A
      /\ u[m] = s
      /\ \A i \in 1 .. Len(d) : u[m + i] = d[i] /\ d[i] \in A
  BY <1>0, SignStands
<1>2. u \in Seq(W) /\ b \in Seq(W)
  <2>1. A \cup {s} \subseteq W /\ B \subseteq W
    OBVIOUS
  <2> HIDE DEF u, W
  <2> QED BY <1>0, <1>1, <2>1, SeqMonotonic
<1>3. Len(b) \in Nat /\ \A i \in 1 .. Len(b) : b[i] \in B
  BY <1>0, ElementsOf
<1> HIDE DEF u, W
<1>4. /\ t \in Seq(W) /\ Len(t) = l + Len(b)
      /\ \A i \in 1 .. l : t[i] = u[i]
      /\ \A i \in 1 .. Len(b) : t[l + i] = b[i]
  <2>1. Joins(u, b, W)
    BY <1>2, Joining
  <2> QED BY <2>1 DEF Joins
<1> DEFINE n == Len(t)
<1>5. n \in Nat /\ l \in Nat /\ m \in Nat /\ m >= 1 /\ Len(d) >= 1 /\ l > m /\ n = l + Len(b)
  <2>1. Len(d) # 0
    BY <1>0, EmptySeq
  <2> QED BY <1>1, <1>3, <1>4, <2>1
<1> HIDE DEF t
<1>6. \A i \in 1 .. n : i # m /\ i <= l => t[i] \in A
  <2> TAKE i \in 1 .. n
  <2> HAVE i # m /\ i <= l
  <2>1. i \in 1 .. l /\ t[i] = u[i]
    BY <1>4, <1>5
  <2>2. CASE i < m
    <3>1. i \in 1 .. Len(a)
      BY <1>1, <1>5, <2>2
    <3> QED BY <1>1, <2>1, <3>1
  <2>3. CASE i > m
    <3> DEFINE j == i - m
    <3>1. j \in 1 .. Len(d) /\ m + j = i
      BY <1>1, <1>5, <2>1, <2>3
    <3> HIDE DEF j, m
    <3>2. u[m + j] \in A
      BY <1>1, <3>1
    <3> QED BY <2>1, <3>1, <3>2
  <2> QED BY <1>5, <2>2, <2>3
<1>7. \A i \in 1 .. n : i > l => t[i] \in B
  <2> TAKE i \in 1 .. n
  <2> HAVE i > l
  <2>1. i - l \in 1 .. Len(b) /\ l + (i - l) = i
    BY <1>3, <1>5
  <2> QED BY <1>3, <1>4, <2>1
<1>8. m \in 1 .. n /\ t[m] = s
  <2>1. m \in 1 .. l /\ m \in 1 .. n
    BY <1>3, <1>5
  <2> QED BY <1>1, <1>4, <2>1
<1> DEFINE at == Positions(t, {s})
           end == {i \in Positions(t, E) : \E j \in at : j < i}
<1>9. at = {m}
  <2>1. m \in at
    BY <1>8 DEF Positions
  <2>2. \A i \in at : i = m
    <3> TAKE i \in at
    <3>1. i \in 1 .. n /\ t[i] = s
      BY DEF Positions
    <3>2. i <= l \/ i > l
      BY <1>5, <3>1
    <3> QED BY <1>0, <1>6, <1>7, <3>1, <3>2
  <2> QED BY <2>1, <2>2
<1>10. end = {i \in 1 .. n : t[i] \in E /\ m < i}
  BY <1>9 DEF Positions
<1> HIDE DEF at, end, n
<1>11. \A i \in end : i > l
  <2> TAKE i \in end
  <2>1. i \in 1 .. n /\ t[i] \in E /\ i # m
    BY <1>5, <1>10
  <2>2. ~(i <= l)
    BY <1>0, <1>6, <2>1
  <2> QED BY <1>5, <2>1, <2>2
<1>12. Least(at) = m
  <2>1. at \in SUBSET (1 .. n) /\ m \in at /\ \A j \in at : m <= j
    BY <1>5, <1>8, <1>9
  <2> HIDE DEF m
  <2> QED BY <1>5, <2>1, LeastEquals
<1>13. (IF end = {} THEN Len(t) ELSE Least(end) - 1) = l
  <2>1. CASE b = <<>>
    <3>1. n = l
      BY <1>5, <2>1
    <3>2. end = {}
      BY <1>0, <1>5, <1>10, <1>11, <3>1
    <3> QED BY <3>1, <3>2 DEF n
  <2>2. CASE b # <<>>
    <3>1. Len(b) # 0
      BY <1>0, <2>2, EmptySeq
    <3>2. 1 \in 1 .. Len(b) /\ l + 1 \in 1 .. n /\ m < l + 1
      BY <1>3, <1>5, <3>1
    <3>3. t[l + 1] \in E
      BY <1>0, <1>4, <2>2, <3>2
    <3>4. l + 1 \in end
      BY <1>10, <3>2, <3>3
    <3>5. end \in SUBSET (1 .. n) /\ \A j \in end : l + 1 <= j
      BY <1>5, <1>10, <1>11
    <3> DEFINE x == l + 1
    <3>6. x \in end /\ \A j \in end : x <= j
      BY <3>4, <3>5
    <3> HIDE DEF x
    <3>7. Least(end) = x
      BY <1>5, <3>5, <3>6, LeastEquals
    <3> QED BY <1>5, <3>4, <3>7 DEF x
  <2> QED BY <2>1, <2>2
<1>14. SubSeq(t, m + 1, l) = d
  <2> DEFINE p == SubSeq(t, m + 1, l)
  <2>1. m + 1 \in 1 .. n + 1 /\ l \in 0 .. n /\ m + 1 <= l
    BY <1>3, <1>5
  <2>2. p \in Seq(W) /\ Len(p) = l - (m + 1) + 1
    BY <1>4, <2>1, PieceIs DEF n
  <2>3. \A i \in 1 .. Len(p) : p[i] = t[(m + 1) + i - 1]
    BY <1>4, <2>1, PieceIs DEF n
  <2>4. Len(p) = Len(d)
    BY <1>1, <1>5, <2>2
  <2> HIDE DEF p, m, l
  <2>5. \A i \in 1 .. Len(p) : p[i] = d[i]
    <3> TAKE i \in 1 .. Len(p)
    <3>1. i \in 1 .. Len(d) /\ (m + 1) + i - 1 = m + i /\ m + i \in 1 .. l
      BY <1>1, <1>5, <2>4
    <3>2. p[i] = t[m + i]
      BY <2>3, <3>1
    <3>3. t[m + i] = u[m + i]
      BY <1>4, <3>1
    <3>4. u[m + i] = d[i]
      BY <1>1, <3>1
    <3> QED BY <3>2, <3>3, <3>4
  <2>6. d \in Seq(W)
    <3>1. A \subseteq W
      BY DEF W
    <3> QED BY <1>0, <3>1, SeqMonotonic
  <2> QED BY <2>2, <2>4, <2>5, <2>6, SeqEqual DEF p
<1>15. Section(t, s, E) = SubSeq(t, Least(at) + 1, IF end = {} THEN Len(t) ELSE Least(end) - 1)
  BY DEF Section, at, end
<1> HIDE DEF m, l
<1> QED BY <1>8, <1>9, <1>12, <1>13, <1>14, <1>15 DEF Found, at, t, u


\* What is escaped can be read again, and nothing else is empty.
LEMMA EscapedEmpty ==
    ASSUME NEW t \in Seq(Word), NEW keep
    PROVE  /\ Escape(t, keep) \in PlainText
           /\ Escape(t, keep) = <<>> <=> t = <<>>
           /\ PercentDecode(Escape(t, keep)) = t
<1>1. Escape(t, keep) \in PlainText
  BY EscapeIs DEF PlainText
<1>2. PercentDecode(Escape(t, keep)) = t
  BY Unescaped
<1>3. Escape(<<>>, keep) = <<>>
  <2> DEFINE s == [k \in 1 .. Len(<<>>) |-> IF Escaped(<<>>[k], keep) THEN <<"%">> \o Code[<<>>[k]] ELSE <<<<>>[k]>>]
  <2>1. s = <<>>
    OBVIOUS
  <2>2. FlattenSeq(<<>>) = <<>>
    BY DEF FlattenSeq
  <2> HIDE DEF s
  <2>3. FlattenSeq(s) = <<>>
    BY <2>1, <2>2
  <2> QED BY <2>3 DEF Escape, s
<1>4. <<>> \in Seq(Word)
  OBVIOUS
<1>5. PercentDecode(<<>>) = <<>>
  BY <1>3, <1>4, Unescaped
<1> QED BY <1>1, <1>2, <1>3, <1>5

\* A component begins with its sign.
LEMMA ComponentIs ==
    ASSUME NEW A, NEW s, NEW d \in Seq(A)
    PROVE  LET x == Component(s, d) IN
           x \in Seq(A \cup {s}) /\ (x = <<>> \/ x[1] = s) /\ (x = <<>> <=> d = <<>>)
<1>1. CASE d = <<>>
  BY <1>1 DEF Component
<1>2. CASE d # <<>>
  <2>1. d \in Seq(A \cup {s}) /\ <<s>> \in Seq(A \cup {s})
    <3>1. A \subseteq A \cup {s}
      OBVIOUS
    <3>2. d \in Seq(A \cup {s})
      BY <3>1, SeqMonotonic
    <3> QED BY <3>2
  <2> DEFINE B == A \cup {s}   y == <<s>>   x == y \o d
  <2>2. y \in Seq(B) /\ Len(y) = 1 /\ y[1] = s
    OBVIOUS
  <2>3. d \in Seq(B)
    BY <2>1
  <2> HIDE DEF B, y
  <2>4. x \in Seq(B) /\ Len(x) = Len(y) + Len(d) /\ Len(d) \in Nat /\ \A i \in 1 .. Len(y) : x[i] = y[i]
    <3>1. Joins(y, d, B)
      BY <2>2, <2>3, Joining
    <3> QED BY <3>1 DEF Joins
  <2>5. x[1] = s /\ Len(x) # 0
    BY <2>2, <2>4
  <2>6. x # <<>>
    BY <2>5
  <2>7. Component(s, d) = x
    BY <1>2 DEF Component, y
  <2> QED BY <1>2, <2>4, <2>5, <2>6, <2>7 DEF B
<1> QED BY <1>1, <1>2

\* What follows the path.
LEMMA Behind ==
    ASSUME NEW r \in PlainText, NEW g \in PlainText
    PROVE  LET b == Component("?root=", r) \o Component("#", g) IN
           b \in Seq(Plain \cup {"?root=", "#"}) /\ (b = <<>> \/ b[1] \in {"?", "?root=", "#"})
<1> DEFINE x == Component("?root=", r)   y == Component("#", g)   B == Plain \cup {"?root=", "#"}
           b == x \o y
<1>1. x \in Seq(Plain \cup {"?root="}) /\ (x = <<>> \/ x[1] = "?root=")
  BY ComponentIs DEF PlainText
<1>2. y \in Seq(Plain \cup {"#"}) /\ (y = <<>> \/ y[1] = "#")
  BY ComponentIs DEF PlainText
<1>3. x \in Seq(B) /\ y \in Seq(B)
  <2>1. Plain \cup {"?root="} \subseteq B /\ Plain \cup {"#"} \subseteq B
    OBVIOUS
  <2> HIDE DEF x, y, B
  <2> QED BY <1>1, <1>2, <2>1, SeqMonotonic
<1> HIDE DEF x, y, B
<1>4. CASE x = <<>>
  <2>1. x \o y = y
    BY <1>3, <1>4, ConcatEmptySeq
  <2> QED BY <1>2, <1>3, <2>1 DEF x, y, B
<1>5. CASE x # <<>>
  <2>1. /\ b \in Seq(B) /\ Len(x) \in Nat /\ \A i \in 1 .. Len(x) : b[i] = x[i]
    <3>1. Joins(x, y, B)
      BY <1>3, Joining
    <3> QED BY <3>1 DEF Joins
  <2>2. Len(x) # 0
    BY <1>3, <1>5, EmptySeq
  <2>3. b[1] = x[1]
    BY <2>1, <2>2
  <2> QED BY <1>1, <1>5, <2>1, <2>3 DEF x, y, B
<1> QED BY <1>4, <1>5

\* path_of finds the path behind its sign, and the ticket where there is none.
LEMMA PathRead ==
    ASSUME NEW c \in PlainText, NEW l \in PlainText, NEW p \in PlainText, NEW r \in PlainText,
           NEW g \in PlainText
    PROVE  PathOf(Upto5(c, l, p, r, g)) = IF p = <<>> THEN Upto5(c, l, p, r, g) ELSE PercentDecode(p)
<1> DEFINE t == Upto5(c, l, p, r, g)   a == Upto2(c, l)   E == {"?", "?root=", "#"}
<1>1. a \in Seq(First2)
  BY UptoTyped
<1>2. PathOf(t) = IF Positions(t, {"?path="}) = {} THEN t ELSE PercentDecode(Section(t, "?path=", E))
  BY DEF PathOf, Section
<1>3. t = Put(Put(Put(a, "?path=", p), "?root=", r), "#", g)
  BY DEF Upto5, Upto4, Upto3
<1> HIDE DEF t, a
<1>4. CASE p = <<>>
  <2> DEFINE A == First2 \cup {"?root="}   B == A \cup {"#"}
  <2>1. Put(a, "?path=", p) = a
    BY <1>1, <1>4, ConcatEmptySeq DEF Put, Component
  <2>2. r \in Seq(First2)
    BY Firsts, SeqMonotonic DEF PlainText
  <2>3. Put(a, "?root=", r) \in Seq(A)
    BY <1>1, <2>2, ComponentTyped
  <2>4. g \in Seq(A)
    <3>1. Plain \subseteq A
      BY Firsts
    <3> HIDE DEF A
    <3> QED BY <3>1, SeqMonotonic DEF PlainText
  <2> DEFINE x == Put(a, "?root=", r)
  <2>5. t = Put(x, "#", g)
    BY <1>3, <2>1
  <2> HIDE DEF x
  <2>6. t \in Seq(B)
    <3>1. x \in Seq(A)
      BY <2>3 DEF x
    <3> HIDE DEF A
    <3> QED BY <2>4, <2>5, <3>1, ComponentTyped
  <2>7. "?path=" \notin B
    BY Firsts
  <2> HIDE DEF B
  <2>8. Positions(t, {"?path="}) = {}
    <3>1. \A i \in 1 .. Len(t) : t[i] \in B
      BY <2>6, ElementsOf
    <3> QED BY <2>7, <3>1 DEF Positions
  <2> QED BY <1>2, <1>4, <2>8 DEF t
<1>5. CASE p # <<>>
  <2> DEFINE u == a \o (<<"?path=">> \o p)   x == Component("?root=", r)   y == Component("#", g)
             B == Plain \cup {"?root=", "#"}   b == x \o y
  <2>1. t = (u \o x) \o y
    BY <1>3, <1>5 DEF Put, Component
  <2>2. b \in Seq(B) /\ (b = <<>> \/ b[1] \in E)
    BY Behind
  <2>3. p \in Seq(First2)
    BY Firsts, SeqMonotonic DEF PlainText
  <2>4. (u \o x) \o y = u \o b
    <3> DEFINE W == Plain \cup First2 \cup {"?path=", "?root=", "#"}
    <3>1. x \in Seq(Plain \cup {"?root="}) /\ y \in Seq(Plain \cup {"#"})
      BY ComponentIs DEF PlainText
    <3>2. u \in Seq(First2 \cup {"?path="})
      BY <1>1, <2>3, SignStands
    <3>3. Plain \cup {"?root="} \subseteq W /\ Plain \cup {"#"} \subseteq W /\ First2 \cup {"?path="} \subseteq W
      OBVIOUS
    <3> HIDE DEF u, x, y, W
    <3>4. x \in Seq(W) /\ y \in Seq(W) /\ u \in Seq(W)
      BY <3>1, <3>2, <3>3, SeqMonotonic
    <3> QED BY <3>4, ConcatAssociative
  <2>5. t = u \o b
    BY <2>1, <2>4
  <2>6. "?path=" \notin First2 /\ "?path=" \notin B /\ E \cap First2 = {} /\ "?path=" \notin E
    <3>1. "?path=" \notin B /\ "?path=" \notin E
      BY Firsts, Signs
    <3>2. E \cap First2 = {}
      BY Signs, Firsts DEF First2, First1, First0
    <3> QED BY <3>1, <3>2, Firsts
  <2> HIDE DEF b, B, E
  <2>7. Positions(u \o b, {"?path="}) # {} /\ Section(u \o b, "?path=", E) = p
    <3>1. Frame(First2, "?path=", B, E, a, p, b)
      BY <1>1, <1>5, <2>2, <2>3, <2>6 DEF Frame
    <3>2. Found(u \o b, "?path=", E, p)
      BY <3>1, SectionIs
    <3> QED BY <3>2 DEF Found
  <2> HIDE DEF u
  <2> QED BY <1>2, <1>5, <2>5, <2>7 DEF t, E
<1> QED BY <1>4, <1>5

\* sig_of finds the signature behind its sign, which is there once.
LEMMA SignatureRead ==
    ASSUME NEW A, "#" \notin A, NEW a \in Seq(A), NEW g \in Seq(A)
    PROVE  SigOf(Put(a, "#", g)) = IF g = <<>> THEN <<>> ELSE PercentDecode(g)
<1> DEFINE s == "#"
           t == Put(a, s, g)
           at == Positions(t, {s})
           n == Len(t)
           m == Len(a) + 1
<1>1. CASE g = <<>>
  <2>1. t = a
    BY <1>1, ConcatEmptySeq DEF Put, Component
  <2>2. at = {}
    <3>1. \A i \in 1 .. Len(a) : a[i] \in A
      BY ElementsOf
    <3> QED BY <2>1, <3>1 DEF Positions
  <2> HIDE DEF t
  <2>3. SigOf(t) = <<>>
    BY <2>2 DEF SigOf
  <2> QED BY <1>1, <2>3 DEF t
<1>2. CASE g # <<>>
  <2>1. t = a \o (<<s>> \o g)
    BY <1>2 DEF Put, Component
  <2> HIDE DEF t
  <2>2. /\ t \in Seq(A \cup {s}) /\ n = m + Len(g) /\ Len(a) \in Nat /\ Len(g) \in Nat
        /\ \A i \in 1 .. Len(a) : t[i] \in A
        /\ t[m] = s
        /\ \A i \in 1 .. Len(g) : t[m + i] = g[i] /\ g[i] \in A
    BY <2>1, SignStands
  <2>3. Len(g) # 0
    BY <1>2, EmptySeq
  <2>4. n \in Nat /\ m \in 1 .. n /\ m \in Nat
    BY <2>2
  <2>5. at = {m}
    <3>1. m \in at
      BY <2>2, <2>4 DEF Positions
    <3>2. \A i \in at : i = m
      <4> SUFFICES ASSUME NEW i \in at, i # m PROVE FALSE
        OBVIOUS
      <4>1. i \in 1 .. n /\ t[i] = s
        BY DEF Positions
      <4>2. CASE i < m
        <5>1. i \in 1 .. Len(a)
          BY <2>2, <4>1, <4>2
        <5> QED BY <2>2, <4>1, <5>1
      <4>3. CASE i > m
        <5> DEFINE j == i - m
        <5>1. j \in 1 .. Len(g) /\ m + j = i
          BY <2>2, <4>1, <4>3
        <5> HIDE DEF j, m
        <5>2. t[m + j] \in A
          BY <2>2, <5>1
        <5> QED BY <4>1, <5>1, <5>2
      <4> QED BY <2>4, <4>1, <4>2, <4>3
    <3> QED BY <3>1, <3>2
  <2> HIDE DEF at, m
  <2>6. (CHOOSE i \in at : \A j \in at : j <= i) = m
    BY <2>4, <2>5
  <2>7. SigOf(t) = PercentDecode(SubSeq(t, 1 + m, n))
    BY <2>5, <2>6 DEF SigOf, at
  <2>8. SubSeq(t, m + 1, n) = g
    <3> DEFINE p == SubSeq(t, m + 1, n)   W == A \cup {s}
    <3>1. m + 1 \in 1 .. n + 1 /\ n \in 0 .. n /\ m + 1 <= n
      BY <2>2, <2>3, <2>4
    <3> HIDE DEF W
    <3>2. t \in Seq(W)
      BY <2>2 DEF W
    <3>3. p \in Seq(W) /\ Len(p) = n - (m + 1) + 1
      BY <3>1, <3>2, PieceIs
    <3>4. \A i \in 1 .. Len(p) : p[i] = t[(m + 1) + i - 1]
      BY <3>1, <3>2, PieceIs
    <3> HIDE DEF p, n
    <3>5. Len(p) = Len(g)
      BY <2>2, <2>4, <3>3
    <3>6. \A i \in 1 .. Len(p) : p[i] = g[i]
      <4> TAKE i \in 1 .. Len(p)
      <4>1. i \in 1 .. Len(g) /\ (m + 1) + i - 1 = m + i
        BY <2>2, <2>4, <3>5
      <4>2. p[i] = t[m + i]
        BY <3>4, <4>1
      <4>3. t[m + i] = g[i]
        BY <2>2, <4>1
      <4> QED BY <4>2, <4>3
    <3>7. g \in Seq(W)
      <4>1. A \subseteq W
        BY DEF W
      <4> QED BY <4>1, SeqMonotonic
    <3> QED BY <3>3, <3>5, <3>6, <3>7, SeqEqual DEF p
  <2>9. 1 + m = m + 1
    BY <2>4
  <2> QED BY <1>2, <2>7, <2>8, <2>9 DEF s, t
<1> QED BY <1>1, <1>2


-----------------------------------------------------------------------------
(***************************************************************************)
(* Paths.                                                                  *)
(***************************************************************************)

\* What is left of a path: the names in it.
Name == Segment \ {"", ".", ".."}

\* Where a path may lead to.
Stack == Seq(Segment \cup {"dir"})

\* One segment more.
CleanStep(out, seg, rooted) ==
    CASE seg \in {"", "."} -> out
      [] seg = ".."        -> Up(out, rooted)
      [] OTHER             -> Append(out, seg)

PlaceStep(stack, seg) ==
    CASE seg \in {"", "."} -> stack
      [] seg = ".."        -> IF stack = <<>> THEN stack ELSE Front(stack)
      [] OTHER             -> Append(stack, seg)

\* Segments lead from segments to segments.
LEMMA StepsTyped ==
    ASSUME NEW seg \in Segment
    PROVE  /\ \A out \in Seq(Segment) : \A rooted : CleanStep(out, seg, rooted) \in Seq(Segment)
           /\ \A stack \in Stack : PlaceStep(stack, seg) \in Stack
<1> DEFINE D == Segment \cup {"dir"}
<1>1. ".." \in Segment
  BY DEF Segment
<1>2. seg \in D
  OBVIOUS
<1>3. ASSUME NEW out \in Seq(Segment), NEW rooted PROVE CleanStep(out, seg, rooted) \in Seq(Segment)
  <2>1. Append(out, "..") \in Seq(Segment) /\ Append(out, seg) \in Seq(Segment)
    BY <1>1
  <2>2. out # <<>> => Front(out) \in Seq(Segment)
    BY FrontTyped
  <2>3. Up(out, rooted) \in Seq(Segment)
    BY <2>1, <2>2 DEF Up
  <2> QED BY <2>1, <2>3 DEF CleanStep
<1>4. ASSUME NEW stack \in Stack PROVE PlaceStep(stack, seg) \in Stack
  <2> HIDE DEF D
  <2>1. stack \in Seq(D)
    BY DEF Stack, D
  <2>2. Append(stack, seg) \in Seq(D)
    BY <1>2, <2>1
  <2>3. stack # <<>> => Front(stack) \in Seq(D)
    BY <2>1, FrontTyped
  <2> QED BY <2>1, <2>2, <2>3 DEF PlaceStep, Stack, D
<1> QED BY <1>3, <1>4

\* clean_path goes through the segments one after the other.
LEMMA CleanGrows ==
    ASSUME NEW path \in Seq(Segment)
    PROVE  \E c : /\ c \in [0 .. Len(path) -> Seq(Segment)] /\ c[0] = <<>>
                  /\ CleanSegments(path) = c[Len(path)]
                  /\ \A k \in 1 .. Len(path) : c[k] = CleanStep(c[k - 1], path[k], Rooted(path))
<1> DEFINE n == Len(path)
           r == Rooted(path)
           A == Seq(Segment)
           step == [p \in A \X (1 .. n) |-> CleanStep(p[1], path[p[2]], r)]
           Run(f) == f = [s \in SUBSET DOMAIN path |->
                             IF s = {} THEN <<>> ELSE CleanStep(f[s \ {Max(s)}], path[Max(s)], r)]
           g == CHOOSE f : Run(f)
<1>1. n \in Nat /\ DOMAIN path = 1 .. n /\ \A k \in 1 .. n : path[k] \in Segment
  BY ElementsOf
<1>2. CleanSegments(path) = g[DOMAIN path]
  BY DEF CleanSegments, FoldLeft, MapThenFoldSet, CleanStep
<1> HIDE DEF r, A
<1>3. <<>> \in A /\ step \in Steps(n, A)
  <2>1. \A k \in 1 .. n : \A out \in A : CleanStep(out, path[k], r) \in A
    BY <1>1, StepsTyped DEF A
  <2> QED BY <2>1 DEF Steps, A
<1>4. \E f : Run(f) /\ \A s \in SUBSET (1 .. n) : f[s] \in A
  <2> HIDE DEF step
  <2>1. PICK f : IsLeftFold(f, n, A, <<>>, step)
    <3> HIDE DEF n
    <3> QED BY <1>1, <1>3, FoldsFromLeft
  <2>2. \A s \in SUBSET (1 .. n) : s # {} =>
           step[<<f[s \ {Max(s)}], Max(s)>>] = CleanStep(f[s \ {Max(s)}], path[Max(s)], r)
    <3> SUFFICES ASSUME NEW s \in SUBSET (1 .. n), s # {}
                 PROVE  step[<<f[s \ {Max(s)}], Max(s)>>] = CleanStep(f[s \ {Max(s)}], path[Max(s)], r)
      OBVIOUS
    <3>1. Max(s) \in 1 .. n
      BY <1>1, MaxIs
    <3>2. f[s \ {Max(s)}] \in A
      BY <2>1 DEF IsLeftFold
    <3> QED BY <3>1, <3>2 DEF step
  <2>3. Run(f)
    BY <1>1, <2>1, <2>2 DEF IsLeftFold
  <2> QED BY <2>1, <2>3 DEF IsLeftFold
<1>5. Run(g)
  <2> HIDE DEF Run
  <2> QED BY <1>4
<1> HIDE DEF g, step
<1>6. g[{}] = <<>>
  BY <1>5
<1>7. \A k \in 1 .. n : g[1 .. k] = CleanStep(g[1 .. k - 1], path[k], r)
  <2> TAKE k \in 1 .. n
  <2>1. 1 .. k \in SUBSET (1 .. n) /\ 1 .. k # {} /\ Max(1 .. k) = k /\ (1 .. k) \ {k} = 1 .. k - 1
    BY <1>1, EndsOf
  <2> QED BY <1>1, <1>5, <2>1
<1> DEFINE c == [k \in 0 .. n |-> g[1 .. k]]
<1>8. c[0] = <<>> /\ CleanSegments(path) = c[n]
  BY <1>1, <1>2, <1>6
<1>9. \A k \in 1 .. n : c[k] = CleanStep(c[k - 1], path[k], r)
  BY <1>1, <1>7
<1> DEFINE T == {k \in 0 .. n : c[k] \in A}
<1>10. \A k \in 0 .. n : k \in T
  <2>1. 0 \in T
    BY <1>1, <1>3, <1>8
  <2>2. \A k \in 0 .. n : k < n /\ k \in T => k + 1 \in T
    <3> SUFFICES ASSUME NEW k \in 0 .. n, k < n, k \in T PROVE k + 1 \in T
      OBVIOUS
    <3>1. k + 1 \in 1 .. n /\ k + 1 \in 0 .. n /\ (k + 1) - 1 = k
      BY <1>1
    <3>2. path[k + 1] \in Segment /\ c[k] \in A
      BY <1>1, <3>1
    <3>3. c[k + 1] = CleanStep(c[k], path[k + 1], r)
      BY <1>9, <3>1
    <3> HIDE DEF c
    <3>4. c[k + 1] \in A
      BY <3>2, <3>3, StepsTyped DEF A
    <3> QED BY <3>1, <3>4
  <2> HIDE DEF T, n
  <2> QED BY <1>1, <2>1, <2>2, InductionUp
<1>11. c \in [0 .. n -> A]
  BY <1>10
<1> HIDE DEF c
<1> QED BY <1>8, <1>9, <1>11 DEF r, A

\* The place of a path, segment after segment.
Start(path) == IF Rooted(path) THEN <<>> ELSE [k \in 1 .. DeepEnough |-> "dir"]

\* ... and so does its place.
LEMMA PlaceGrows ==
    ASSUME NEW path \in Seq(Segment)
    PROVE  \E c : /\ c \in [0 .. Len(path) -> Stack] /\ c[0] = Start(path)
                  /\ Place(path) = c[Len(path)]
                  /\ \A k \in 1 .. Len(path) : c[k] = PlaceStep(c[k - 1], path[k])
<1> DEFINE n == Len(path)
           base == Start(path)
           A == Stack
           step == [p \in A \X (1 .. n) |-> PlaceStep(p[1], path[p[2]])]
           Run(f) == f = [s \in SUBSET DOMAIN path |->
                             IF s = {} THEN base ELSE PlaceStep(f[s \ {Max(s)}], path[Max(s)])]
           g == CHOOSE f : Run(f)
<1>1. n \in Nat /\ DOMAIN path = 1 .. n /\ \A k \in 1 .. n : path[k] \in Segment
  BY ElementsOf
<1>2. Place(path) = g[DOMAIN path]
  BY DEF Place, FoldLeft, MapThenFoldSet, PlaceStep, Start
<1>3. base \in A
  <2> DEFINE D == Segment \cup {"dir"}   s == [k \in 1 .. DeepEnough |-> "dir"]
  <2>1. DeepEnough \in Nat /\ "dir" \in D
    BY NamesAssumption
  <2> HIDE DEF D
  <2>2. s \in Seq(D) /\ <<>> \in Seq(D)
    BY <2>1
  <2> HIDE DEF s
  <2> QED BY <2>2 DEF Start, Stack, D, s
<1> HIDE DEF base, A
<1>4. step \in Steps(n, A)
  <2>1. \A k \in 1 .. n : \A s \in A : PlaceStep(s, path[k]) \in A
    BY <1>1, StepsTyped DEF A
  <2> QED BY <2>1 DEF Steps
<1>5. \E f : Run(f)
  <2> HIDE DEF step
  <2>1. PICK f : IsLeftFold(f, n, A, base, step)
    <3> HIDE DEF n
    <3> QED BY <1>1, <1>3, <1>4, FoldsFromLeft
  <2>2. \A s \in SUBSET (1 .. n) : s # {} =>
           step[<<f[s \ {Max(s)}], Max(s)>>] = PlaceStep(f[s \ {Max(s)}], path[Max(s)])
    <3> SUFFICES ASSUME NEW s \in SUBSET (1 .. n), s # {}
                 PROVE  step[<<f[s \ {Max(s)}], Max(s)>>] = PlaceStep(f[s \ {Max(s)}], path[Max(s)])
      OBVIOUS
    <3>1. Max(s) \in 1 .. n
      BY <1>1, MaxIs
    <3>2. f[s \ {Max(s)}] \in A
      BY <2>1 DEF IsLeftFold
    <3> QED BY <3>1, <3>2 DEF step
  <2>3. Run(f)
    BY <1>1, <2>1, <2>2 DEF IsLeftFold
  <2> QED BY <2>3
<1>6. Run(g)
  <2> HIDE DEF Run
  <2> QED BY <1>5
<1> HIDE DEF g, step
<1>7. g[{}] = base
  BY <1>6
<1>8. \A k \in 1 .. n : g[1 .. k] = PlaceStep(g[1 .. k - 1], path[k])
  <2> TAKE k \in 1 .. n
  <2>1. 1 .. k \in SUBSET (1 .. n) /\ 1 .. k # {} /\ Max(1 .. k) = k /\ (1 .. k) \ {k} = 1 .. k - 1
    BY <1>1, EndsOf
  <2> QED BY <1>1, <1>6, <2>1
<1> DEFINE c == [k \in 0 .. n |-> g[1 .. k]]
<1>9. c[0] = base /\ Place(path) = c[n]
  BY <1>1, <1>2, <1>7
<1>10. \A k \in 1 .. n : c[k] = PlaceStep(c[k - 1], path[k])
  BY <1>1, <1>8
<1> DEFINE T == {k \in 0 .. n : c[k] \in A}
<1>11. \A k \in 0 .. n : k \in T
  <2>1. 0 \in T
    BY <1>1, <1>3, <1>9
  <2>2. \A k \in 0 .. n : k < n /\ k \in T => k + 1 \in T
    <3> SUFFICES ASSUME NEW k \in 0 .. n, k < n, k \in T PROVE k + 1 \in T
      OBVIOUS
    <3>1. k + 1 \in 1 .. n /\ k + 1 \in 0 .. n /\ (k + 1) - 1 = k
      BY <1>1
    <3>2. path[k + 1] \in Segment /\ c[k] \in A
      BY <1>1, <3>1
    <3>3. c[k + 1] = PlaceStep(c[k], path[k + 1])
      BY <1>10, <3>1
    <3> HIDE DEF c
    <3>4. c[k + 1] \in A
      BY <3>2, <3>3, StepsTyped DEF A
    <3> QED BY <3>1, <3>4
  <2> HIDE DEF T, n
  <2> QED BY <1>1, <2>1, <2>2, InductionUp
<1>12. c \in [0 .. n -> A]
  BY <1>11
<1> HIDE DEF c
<1> QED BY <1>9, <1>10, <1>12 DEF base, A

\* A cleaned path c leads to p from a directory that is r deep: it goes m up, and
\* then down through the same names.
Leads(c, p, m, r) ==
    /\ m \in 0 .. r /\ m <= Len(c)
    /\ Len(p) = (r - m) + (Len(c) - m)
    /\ \A i \in 1 .. m : c[i] = ".."
    /\ \A i \in m + 1 .. Len(c) : c[i] \in Name
    /\ \A i \in 1 .. r - m : p[i] = "dir"
    /\ \A i \in 1 .. Len(c) - m : p[(r - m) + i] = c[m + i]

\* Before the first segment both are where they start.
LEMMA LeadsStart ==
    ASSUME NEW path \in Seq(Segment)
    PROVE  Leads(<<>>, Start(path), 0, Len(Start(path))) /\ Len(Start(path)) \in Nat
           /\ Len(Start(path)) = IF Rooted(path) THEN 0 ELSE DeepEnough
<1>1. DeepEnough \in Nat
  BY NamesAssumption
<1> DEFINE d == [k \in 1 .. DeepEnough |-> "dir"]
<1>2. Len(d) = DeepEnough /\ \A i \in 1 .. DeepEnough : d[i] = "dir"
  BY <1>1
<1> HIDE DEF d
<1>3. CASE Rooted(path)
  <2>1. Start(path) = <<>> /\ Len(<<>>) = 0
    BY <1>3 DEF Start
  <2> QED BY <1>3, <2>1 DEF Leads
<1>4. CASE ~Rooted(path)
  <2>1. Start(path) = d /\ Len(<<>>) = 0
    BY <1>4 DEF Start, d
  <2> QED BY <1>1, <1>2, <1>4, <2>1 DEF Leads
<1> QED BY <1>3, <1>4

\* One segment further both still go through the same names.
LEMMA LeadsStep ==
    ASSUME NEW seg \in Segment, NEW c \in Seq(Segment), NEW p \in Stack, NEW m, NEW r \in Nat,
           NEW rooted, rooted => r = 0, ~rooted => m < r, Leads(c, p, m, r)
    PROVE  \E k \in {m, m + 1} : Leads(CleanStep(c, seg, rooted), PlaceStep(p, seg), k, r)
<1> DEFINE D == Segment \cup {"dir"}
<1>1. /\ m \in 0 .. r /\ m <= Len(c) /\ Len(c) \in Nat /\ Len(p) \in Nat
      /\ Len(p) = (r - m) + (Len(c) - m)
      /\ \A i \in 1 .. m : c[i] = ".."
      /\ \A i \in m + 1 .. Len(c) : c[i] \in Name
      /\ \A i \in 1 .. r - m : p[i] = "dir"
      /\ \A i \in 1 .. Len(c) - m : p[(r - m) + i] = c[m + i]
  <2>1. Len(c) \in Nat
    BY ElementsOf
  <2>2. Len(p) \in Nat
    BY ElementsOf DEF Stack
  <2> QED BY <2>1, <2>2 DEF Leads
<1>2. p \in Seq(D) /\ seg \in D /\ ".." \in Segment
  BY DEF Stack, Segment
<1> HIDE DEF D
<1>3. CASE seg \in {"", "."}
  BY <1>3 DEF CleanStep, PlaceStep
<1>4. CASE seg = ".." /\ Len(c) > m
  <2>1. c # <<>> /\ p # <<>>
    <3>1. Len(c) # 0 /\ Len(p) # 0
      BY <1>1, <1>4
    <3> QED BY <3>1
  <2> DEFINE x == Front(c)   y == Front(p)
  <2>2. Len(x) = Len(c) - 1 /\ (\A i \in 1 .. Len(c) - 1 : x[i] = c[i]) /\ Last(c) = c[Len(c)]
    BY <2>1, FrontTyped
  <2>3. Len(y) = Len(p) - 1 /\ (\A i \in 1 .. Len(p) - 1 : y[i] = p[i])
    BY <1>2, <2>1, FrontTyped
  <2>4. Last(c) # ".."
    <3>1. Len(c) \in m + 1 .. Len(c)
      BY <1>1, <1>4
    <3>2. c[Len(c)] \in Name
      BY <1>1, <3>1
    <3> QED BY <2>2, <3>2 DEF Name
  <2>5. CleanStep(c, seg, rooted) = x /\ PlaceStep(p, seg) = y
    BY <1>4, <2>1, <2>4 DEF CleanStep, PlaceStep, Up
  <2> HIDE DEF x, y
  <2>6. Leads(x, y, m, r)
    <3>1. m <= Len(x) /\ Len(y) = (r - m) + (Len(x) - m)
      BY <1>1, <1>4, <2>2, <2>3
    <3>2. \A i \in 1 .. m : x[i] = ".."
      <4> TAKE i \in 1 .. m
      <4>1. i \in 1 .. Len(c) - 1
        BY <1>1, <1>4
      <4> QED BY <1>1, <2>2, <4>1
    <3>3. \A i \in m + 1 .. Len(x) : x[i] \in Name
      <4> TAKE i \in m + 1 .. Len(x)
      <4>1. i \in 1 .. Len(c) - 1 /\ i \in m + 1 .. Len(c)
        BY <1>1, <2>2
      <4> QED BY <1>1, <2>2, <4>1
    <3>4. \A i \in 1 .. r - m : y[i] = "dir"
      <4> TAKE i \in 1 .. r - m
      <4>1. i \in 1 .. Len(p) - 1
        BY <1>1, <1>4
      <4> QED BY <1>1, <2>3, <4>1
    <3>5. \A i \in 1 .. Len(x) - m : y[(r - m) + i] = x[m + i]
      <4> TAKE i \in 1 .. Len(x) - m
      <4> DEFINE a == (r - m) + i   b == m + i
      <4>1. a \in 1 .. Len(p) - 1 /\ b \in 1 .. Len(c) - 1 /\ i \in 1 .. Len(c) - m
        BY <1>1, <2>2
      <4>2. p[a] = c[b]
        BY <1>1, <4>1
      <4> HIDE DEF a, b
      <4>3. y[a] = x[b]
        BY <2>2, <2>3, <4>1, <4>2
      <4> QED BY <4>3 DEF a, b
    <3> QED BY <1>1, <3>1, <3>2, <3>3, <3>4, <3>5 DEF Leads
  <2> QED BY <2>5, <2>6
<1>5. CASE seg = ".." /\ Len(c) = m
  <2>1. CASE rooted
    <3>1. r = 0 /\ m = 0 /\ Len(p) = 0
      BY <1>1, <1>5, <2>1
    <3>2. c = <<>> /\ p = <<>>
      BY <1>2, <1>5, <3>1, EmptySeq
    <3>3. CleanStep(c, seg, rooted) = c /\ PlaceStep(p, seg) = p
      BY <1>5, <2>1, <3>2 DEF CleanStep, PlaceStep, Up
    <3> QED BY <3>3
  <2>2. CASE ~rooted
    <3>1. m < r /\ Len(p) # 0
      BY <1>1, <1>5, <2>2
    <3>2. p # <<>>
      BY <3>1
    <3>3. c # <<>> => Last(c) = ".."
      <4> HAVE c # <<>>
      <4>1. Len(c) >= 1 /\ Last(c) = c[Len(c)]
        BY FrontTyped
      <4>2. Len(c) \in 1 .. m
        BY <1>1, <1>5, <4>1
      <4> QED BY <1>1, <4>1, <4>2
    <3> DEFINE x == Append(c, "..")   y == Front(p)
    <3>4. CleanStep(c, seg, rooted) = x /\ PlaceStep(p, seg) = y
      BY <1>5, <2>2, <3>2, <3>3 DEF CleanStep, PlaceStep, Up
    <3>5. Len(x) = m + 1 /\ (\A i \in 1 .. m : x[i] = c[i]) /\ x[m + 1] = ".."
      BY <1>2, <1>5, AppendIs
    <3>6. Len(y) = Len(p) - 1 /\ (\A i \in 1 .. Len(p) - 1 : y[i] = p[i])
      BY <1>2, <3>2, FrontTyped
    <3> HIDE DEF x, y
    <3>7. Leads(x, y, m + 1, r)
      <4>1. m + 1 \in 0 .. r /\ m + 1 <= Len(x) /\ Len(y) = (r - (m + 1)) + (Len(x) - (m + 1))
        BY <1>1, <1>5, <3>1, <3>5, <3>6
      <4>2. \A i \in 1 .. m + 1 : x[i] = ".."
        <5> TAKE i \in 1 .. m + 1
        <5>1. i \in 1 .. m \/ i = m + 1
          BY <1>1
        <5> QED BY <1>1, <3>5, <5>1
      <4>3. \A i \in 1 .. r - (m + 1) : y[i] = "dir"
        <5> TAKE i \in 1 .. r - (m + 1)
        <5>1. i \in 1 .. Len(p) - 1 /\ i \in 1 .. r - m
          BY <1>1, <1>5
        <5> QED BY <1>1, <3>6, <5>1
      <4>4. \A i \in (m + 1) + 1 .. Len(x) : FALSE
        BY <1>1, <3>5
      <4>5. \A i \in 1 .. Len(x) - (m + 1) : FALSE
        BY <1>1, <3>5
      <4> QED BY <4>1, <4>2, <4>3, <4>4, <4>5 DEF Leads
    <3> QED BY <3>4, <3>7
  <2> QED BY <2>1, <2>2
<1>6. CASE seg \notin {"", ".", ".."}
  <2> DEFINE x == Append(c, seg)   y == Append(p, seg)
  <2>1. CleanStep(c, seg, rooted) = x /\ PlaceStep(p, seg) = y
    BY <1>6 DEF CleanStep, PlaceStep
  <2>2. Len(x) = Len(c) + 1 /\ (\A i \in 1 .. Len(c) : x[i] = c[i]) /\ x[Len(c) + 1] = seg
    BY AppendIs
  <2>3. Len(y) = Len(p) + 1 /\ (\A i \in 1 .. Len(p) : y[i] = p[i]) /\ y[Len(p) + 1] = seg
    BY <1>2, AppendIs
  <2>4. seg \in Name
    BY <1>6 DEF Name
  <2> HIDE DEF x, y
  <2>5. Leads(x, y, m, r)
    <3>1. m <= Len(x) /\ Len(y) = (r - m) + (Len(x) - m)
      BY <1>1, <2>2, <2>3
    <3>2. \A i \in 1 .. m : x[i] = ".."
      <4> TAKE i \in 1 .. m
      <4>1. i \in 1 .. Len(c)
        BY <1>1
      <4> QED BY <1>1, <2>2, <4>1
    <3>3. \A i \in m + 1 .. Len(x) : x[i] \in Name
      <4> TAKE i \in m + 1 .. Len(x)
      <4>1. i = Len(c) + 1 \/ (i \in 1 .. Len(c) /\ i \in m + 1 .. Len(c))
        BY <1>1, <2>2
      <4> QED BY <1>1, <2>2, <2>4, <4>1
    <3>4. \A i \in 1 .. r - m : y[i] = "dir"
      <4> TAKE i \in 1 .. r - m
      <4>1. i \in 1 .. Len(p)
        BY <1>1
      <4> QED BY <1>1, <2>3, <4>1
    <3>5. \A i \in 1 .. Len(x) - m : y[(r - m) + i] = x[m + i]
      <4> TAKE i \in 1 .. Len(x) - m
      <4> DEFINE a == (r - m) + i   b == m + i
      <4>1. CASE i \in 1 .. Len(c) - m
        <5>1. a \in 1 .. Len(p) /\ b \in 1 .. Len(c)
          BY <1>1, <4>1
        <5>2. p[a] = c[b]
          BY <1>1, <4>1
        <5> HIDE DEF a, b
        <5>3. y[a] = x[b]
          BY <2>2, <2>3, <5>1, <5>2
        <5> QED BY <5>3 DEF a, b
      <4>2. CASE i \notin 1 .. Len(c) - m
        <5>1. a = Len(p) + 1 /\ b = Len(c) + 1
          BY <1>1, <2>2, <4>2
        <5> HIDE DEF a, b
        <5>2. y[a] = x[b]
          BY <2>2, <2>3, <5>1
        <5> QED BY <5>2 DEF a, b
      <4> QED BY <4>1, <4>2
    <3> QED BY <1>1, <3>1, <3>2, <3>3, <3>4, <3>5 DEF Leads
  <2> QED BY <2>1, <2>5
<1>7. Len(c) > m \/ Len(c) = m
  BY <1>1
<1> QED BY <1>3, <1>4, <1>5, <1>6, <1>7

\* How deep the directory is that a path starts from.
StartDepth(path) == IF Rooted(path) THEN 0 ELSE DeepEnough

\* So they do behind the last one.
LEMMA PathLeads ==
    ASSUME NEW path \in Seq(Segment), Len(path) <= DeepEnough
    PROVE  /\ CleanSegments(path) \in Seq(Segment) /\ Place(path) \in Stack
           /\ \E m : Leads(CleanSegments(path), Place(path), m, StartDepth(path))
<1> DEFINE n == Len(path)   r == StartDepth(path)   rooted == Rooted(path)
<1>1. n \in Nat /\ \A k \in 1 .. n : path[k] \in Segment
  BY ElementsOf
<1>2. r \in Nat /\ (rooted => r = 0) /\ (~rooted => n <= r)
  BY NamesAssumption DEF StartDepth
<1>3. PICK c : /\ c \in [0 .. n -> Seq(Segment)] /\ c[0] = <<>> /\ CleanSegments(path) = c[n]
               /\ \A k \in 1 .. n : c[k] = CleanStep(c[k - 1], path[k], rooted)
  BY CleanGrows
<1>4. PICK q : /\ q \in [0 .. n -> Stack] /\ q[0] = Start(path) /\ Place(path) = q[n]
               /\ \A k \in 1 .. n : q[k] = PlaceStep(q[k - 1], path[k])
  BY PlaceGrows
<1>5. Leads(<<>>, Start(path), 0, r)
  BY LeadsStart DEF StartDepth
<1> HIDE DEF n, r, rooted
<1> DEFINE T == {k \in 0 .. n : \E m \in 0 .. k : Leads(c[k], q[k], m, r)}
<1>6. 0 \in T
  BY <1>1, <1>3, <1>4, <1>5
<1>7. \A k \in 0 .. n : k < n /\ k \in T => k + 1 \in T
  <2> SUFFICES ASSUME NEW k \in 0 .. n, k < n, k \in T PROVE k + 1 \in T
    OBVIOUS
  <2>1. k + 1 \in 1 .. n /\ k + 1 \in 0 .. n /\ (k + 1) - 1 = k
    BY <1>1
  <2>2. PICK m \in 0 .. k : Leads(c[k], q[k], m, r)
    OBVIOUS
  <2>3. path[k + 1] \in Segment /\ c[k] \in Seq(Segment) /\ q[k] \in Stack
    BY <1>1, <1>3, <1>4, <2>1
  <2>4. ~rooted => m < r
    BY <1>1, <1>2
  <2>5. c[k + 1] = CleanStep(c[k], path[k + 1], rooted) /\ q[k + 1] = PlaceStep(q[k], path[k + 1])
    BY <1>3, <1>4, <2>1
  <2>6. PICK m2 \in {m, m + 1} : Leads(c[k + 1], q[k + 1], m2, r)
    BY <1>2, <2>2, <2>3, <2>4, <2>5, LeadsStep
  <2>7. m2 \in 0 .. k + 1
    OBVIOUS
  <2> QED BY <2>1, <2>6, <2>7
<1> HIDE DEF T
<1>8. n \in T
  <2>1. n \in 0 .. n /\ \A k \in 0 .. n : k \in T
    BY <1>1, <1>6, <1>7, InductionUp
  <2> QED BY <2>1
<1>9. c[n] \in Seq(Segment) /\ q[n] \in Stack
  BY <1>1, <1>3, <1>4
<1> QED BY <1>3, <1>4, <1>8, <1>9 DEF T, r

\* A cleaned path leads to one place, and no other cleaned path leads there.
LEMMA LeadsOnce ==
    ASSUME NEW c \in Seq(Segment), NEW p \in Stack, NEW m, NEW c2 \in Seq(Segment), NEW p2 \in Stack,
           NEW m2, NEW r \in Nat, Leads(c, p, m, r), Leads(c2, p2, m2, r)
    PROVE  c = c2 <=> p = p2
<1> DEFINE D == Segment \cup {"dir"}
<1>1. /\ m \in 0 .. r /\ m <= Len(c) /\ Len(c) \in Nat /\ Len(p) \in Nat
      /\ Len(p) = (r - m) + (Len(c) - m)
      /\ \A i \in 1 .. m : c[i] = ".."
      /\ \A i \in m + 1 .. Len(c) : c[i] \in Name
      /\ \A i \in 1 .. r - m : p[i] = "dir"
      /\ \A i \in 1 .. Len(c) - m : p[(r - m) + i] = c[m + i]
  <2>1. Len(c) \in Nat
    BY ElementsOf
  <2>2. Len(p) \in Nat
    BY ElementsOf DEF Stack
  <2> QED BY <2>1, <2>2 DEF Leads
<1>2. /\ m2 \in 0 .. r /\ m2 <= Len(c2) /\ Len(c2) \in Nat /\ Len(p2) \in Nat
      /\ Len(p2) = (r - m2) + (Len(c2) - m2)
      /\ \A i \in 1 .. m2 : c2[i] = ".."
      /\ \A i \in m2 + 1 .. Len(c2) : c2[i] \in Name
      /\ \A i \in 1 .. r - m2 : p2[i] = "dir"
      /\ \A i \in 1 .. Len(c2) - m2 : p2[(r - m2) + i] = c2[m2 + i]
  <2>1. Len(c2) \in Nat
    BY ElementsOf
  <2>2. Len(p2) \in Nat
    BY ElementsOf DEF Stack
  <2> QED BY <2>1, <2>2 DEF Leads
<1>3. ".." \notin Name /\ "dir" \notin Name
  BY CharAssumption DEF Name, Segment
<1>4. p \in Seq(D) /\ p2 \in Seq(D)
  BY DEF Stack
<1> HIDE DEF D
<1>5. ASSUME c = c2 PROVE p = p2
  <2>1. ~(m < m2)
    <3> SUFFICES ASSUME m < m2 PROVE FALSE
      OBVIOUS
    <3>1. m + 1 \in 1 .. m2 /\ m + 1 \in m + 1 .. Len(c)
      BY <1>1, <1>2, <1>5
    <3> QED BY <1>1, <1>2, <1>3, <1>5, <3>1
  <2>2. ~(m2 < m)
    <3> SUFFICES ASSUME m2 < m PROVE FALSE
      OBVIOUS
    <3>1. m2 + 1 \in 1 .. m /\ m2 + 1 \in m2 + 1 .. Len(c2)
      BY <1>1, <1>2, <1>5
    <3> QED BY <1>1, <1>2, <1>3, <1>5, <3>1
  <2>3. m = m2 /\ Len(p) = Len(p2)
    BY <1>1, <1>2, <1>5, <2>1, <2>2
  <2>4. \A i \in 1 .. Len(p) : p[i] = p2[i]
    <3> TAKE i \in 1 .. Len(p)
    <3>1. CASE i <= r - m
      <4>1. i \in 1 .. r - m
        BY <1>1, <3>1
      <4> QED BY <1>1, <1>2, <2>3, <4>1
    <3>2. CASE i > r - m
      <4> DEFINE j == i - (r - m)
      <4>1. j \in 1 .. Len(c) - m /\ (r - m) + j = i
        BY <1>1, <3>2
      <4> HIDE DEF j
      <4>2. p[(r - m) + j] = c[m + j] /\ p2[(r - m) + j] = c2[m + j]
        BY <1>1, <1>2, <1>5, <2>3, <4>1
      <4> QED BY <1>5, <4>1, <4>2
    <3> QED BY <1>1, <3>1, <3>2
  <2> QED BY <1>4, <2>3, <2>4, SeqEqual
<1>6. ASSUME p = p2 PROVE c = c2
  <2>1. ~(m < m2)
    <3> SUFFICES ASSUME m < m2 PROVE FALSE
      OBVIOUS
    <3> DEFINE j == 1   i == (r - m2) + j
    <3>1. i \in 1 .. r - m /\ (i \in 1 .. Len(p) \/ i > Len(p))
      BY <1>1, <1>2
    <3>2. p[i] = "dir"
      BY <1>1, <3>1
    <3>3. r - m >= i /\ r - m <= Len(p)
      BY <1>1, <3>1
    <3>4. j \in 1 .. Len(c2) - m2
      BY <1>1, <1>2, <1>6, <3>3
    <3> HIDE DEF j
    <3>5. p2[i] = c2[m2 + j]
      BY <1>2, <3>4
    <3>6. m2 + j \in m2 + 1 .. Len(c2)
      BY <1>2, <3>4
    <3> QED BY <1>2, <1>3, <1>6, <3>2, <3>5, <3>6
  <2>2. ~(m2 < m)
    <3> SUFFICES ASSUME m2 < m PROVE FALSE
      OBVIOUS
    <3> DEFINE j == 1   i == (r - m) + j
    <3>1. i \in 1 .. r - m2 /\ (i \in 1 .. Len(p) \/ i > Len(p))
      BY <1>1, <1>2
    <3>2. p2[i] = "dir"
      BY <1>2, <3>1
    <3>3. r - m2 >= i /\ r - m2 <= Len(p2)
      BY <1>2, <3>1
    <3>4. j \in 1 .. Len(c) - m
      BY <1>1, <1>2, <1>6, <3>3
    <3> HIDE DEF j
    <3>5. p[i] = c[m + j]
      BY <1>1, <3>4
    <3>6. m + j \in m + 1 .. Len(c)
      BY <1>1, <3>4
    <3> QED BY <1>1, <1>3, <1>6, <3>2, <3>5, <3>6
  <2>3. m = m2 /\ Len(c) = Len(c2)
    BY <1>1, <1>2, <1>6, <2>1, <2>2
  <2>4. \A i \in 1 .. Len(c) : c[i] = c2[i]
    <3> TAKE i \in 1 .. Len(c)
    <3>1. CASE i <= m
      <4>1. i \in 1 .. m
        BY <1>1, <3>1
      <4> QED BY <1>1, <1>2, <2>3, <4>1
    <3>2. CASE i > m
      <4> DEFINE j == i - m
      <4>1. j \in 1 .. Len(c) - m /\ m + j = i
        BY <1>1, <3>2
      <4> HIDE DEF j
      <4>2. p[(r - m) + j] = c[m + j] /\ p2[(r - m) + j] = c2[m + j]
        BY <1>1, <1>2, <2>3, <4>1
      <4> QED BY <1>6, <4>1, <4>2
    <3> QED BY <1>1, <3>1, <3>2
  <2> QED BY <2>3, <2>4, SeqEqual
<1> QED BY <1>5, <1>6


\* Where the k-th of the segments stands that are joined.
Odd(k) == (k + k) - 1

\* Segments that are joined stand at every other place.
LEMMA JoinedIs ==
    ASSUME NEW c \in Seq(Word)
    PROVE  LET t == Joined([k \in 1 .. Len(c) |-> <<c[k]>>], <<"/">>) IN
           /\ t \in Seq(Word) /\ Len(t) = IF Len(c) = 0 THEN 0 ELSE Odd(Len(c))
           /\ \A k \in 1 .. Len(c) : t[Odd(k)] = c[k]
<1> DEFINE n == Len(c)
           texts == [k \in 1 .. n |-> <<c[k]>>]
           t == Joined(texts, <<"/">>)
           s == [k \in 1 .. n |-> IF k = 1 THEN <<c[k]>> ELSE <<"/">> \o <<c[k]>>]
<1>1. n \in Nat /\ \A k \in 1 .. n : c[k] \in Word
  BY ElementsOf
<1>2. t = FlattenSeq(s)
  <2>1. Len(texts) = n /\ \A k \in 1 .. n : texts[k] = <<c[k]>>
    BY <1>1
  <2> DEFINE u == [k \in 1 .. Len(texts) |-> IF k = 1 THEN texts[k] ELSE <<"/">> \o texts[k]]
  <2>2. u = s
    <3> HIDE DEF texts
    <3> QED BY <2>1
  <2>3. t = FlattenSeq(u)
    BY DEF Joined
  <2> QED BY <2>2, <2>3
<1>3. /\ s \in Pieces(n, Word)
      /\ \A k \in 1 .. n : /\ k = 1 => Len(s[k]) = 1 /\ s[k][1] = c[k]
                           /\ k # 1 => Len(s[k]) = 2 /\ s[k][2] = c[k]
  <2> SUFFICES ASSUME NEW k \in 1 .. n
               PROVE  /\ s[k] \in Seq(Word)
                      /\ k = 1 => Len(s[k]) = 1 /\ s[k][1] = c[k]
                      /\ k # 1 => Len(s[k]) = 2 /\ s[k][2] = c[k]
    BY DEF Pieces
  <2> DEFINE x == <<"/">>   y == <<c[k]>>
  <2>1. c[k] \in Word /\ "/" \in Word
    BY <1>1, Signs
  <2>2. x \in Seq(Word) /\ y \in Seq(Word) /\ Len(x) = 1 /\ Len(y) = 1 /\ y[1] = c[k]
    BY <2>1
  <2>3. s[k] = IF k = 1 THEN y ELSE x \o y
    OBVIOUS
  <2> HIDE DEF s, x, y
  <2>4. Joins(x, y, Word)
    BY <2>2, Joining
  <2>5. x \o y \in Seq(Word) /\ Len(x \o y) = 2 /\ (x \o y)[2] = c[k]
    <3>1. /\ x \o y \in Seq(Word) /\ Len(x \o y) = Len(x) + Len(y)
          /\ \A i \in 1 .. Len(y) : (x \o y)[Len(x) + i] = y[i]
      BY <2>4 DEF Joins
    <3>2. 1 \in 1 .. Len(y) /\ Len(x) + 1 = 2
      BY <2>2
    <3> QED BY <2>2, <3>1, <3>2
  <2> QED BY <2>2, <2>3, <2>5
<1> HIDE DEF texts, t, s
<1>4. PICK e : Chain(e, s, n, Word) /\ FlattenSeq(s) = e[n]
  <2> HIDE DEF n
  <2> QED BY <1>1, <1>3, FlattenIs
<1>5. \A k \in 1 .. n : Stands(e, s, n, k)
  <2> HIDE DEF n
  <2> QED BY <1>1, <1>3, <1>4, PieceStands
<1> DEFINE T == {k \in 0 .. n : Len(e[k]) = IF k = 0 THEN 0 ELSE Odd(k)}
<1>6. \A k \in 0 .. n : k \in T
  <2>1. 0 \in T
    BY <1>1, <1>4 DEF Chain
  <2>2. \A k \in 0 .. n : k < n /\ k \in T => k + 1 \in T
    <3> SUFFICES ASSUME NEW k \in 0 .. n, k < n, k \in T PROVE k + 1 \in T
      OBVIOUS
    <3>1. k + 1 \in 1 .. n /\ (k + 1) - 1 = k /\ k + 1 \in 0 .. n
      BY <1>1
    <3>2. Len(e[k + 1]) = Len(e[k]) + Len(s[k + 1])
      BY <1>5, <3>1 DEF Stands
    <3>3. Len(e[k]) = IF k = 0 THEN 0 ELSE Odd(k)
      OBVIOUS
    <3>4. k + 1 = 1 => Len(s[k + 1]) = 1
      BY <1>3, <3>1
    <3>5. k + 1 # 1 => Len(s[k + 1]) = 2
      BY <1>3, <3>1
    <3>6. Len(e[k + 1]) = Odd(k + 1)
      <4>1. CASE k = 0
        <5>1. Len(e[k]) = 0 /\ Len(s[k + 1]) = 1 /\ Odd(k + 1) = 1
          BY <3>3, <3>4, <4>1 DEF Odd
        <5> QED BY <3>2, <5>1
      <4>2. CASE k # 0
        <5>1. Len(e[k]) = Odd(k) /\ Len(s[k + 1]) = 2 /\ Odd(k + 1) = Odd(k) + 2
          BY <3>3, <3>5, <4>2 DEF Odd
        <5> QED BY <3>2, <5>1
      <4> QED BY <4>1, <4>2
    <3> QED BY <3>1, <3>6
  <2> HIDE DEF T, n
  <2> QED BY <1>1, <2>1, <2>2, InductionUp
<1>7. \A k \in 1 .. n : t[Odd(k)] = c[k]
  <2> TAKE k \in 1 .. n
  <2>1. \A j \in 1 .. Len(s[k]) : t[Len(e[k - 1]) + j] = s[k][j]
    BY <1>2, <1>4, <1>5 DEF Stands
  <2>2. CASE k = 1
    <3>1. Len(e[k - 1]) = 0 /\ Len(s[k]) = 1 /\ s[k][1] = c[k]
      BY <1>3, <1>6, <2>2
    <3>2. t[0 + 1] = c[k]
      BY <2>1, <3>1
    <3> QED BY <2>2, <3>2 DEF Odd
  <2>3. CASE k # 1
    <3>1. k - 1 \in 0 .. n /\ k - 1 # 0
      BY <2>3
    <3>2. Len(e[k - 1]) = Odd(k - 1) /\ Len(s[k]) = 2 /\ s[k][2] = c[k]
      BY <1>3, <1>6, <2>3, <3>1
    <3>3. t[Odd(k - 1) + 2] = c[k]
      BY <2>1, <3>2
    <3>4. Odd(k - 1) + 2 = Odd(k)
      BY DEF Odd
    <3> QED BY <3>3, <3>4
  <2> QED BY <2>2, <2>3
<1>8. t \in Seq(Word) /\ Len(t) = IF n = 0 THEN 0 ELSE Odd(n)
  <2>1. n \in 0 .. n
    BY <1>1
  <2>2. e[n] \in Seq(Word) /\ Len(e[n]) = IF n = 0 THEN 0 ELSE Odd(n)
    BY <1>4, <1>6, <2>1 DEF Chain
  <2> QED BY <1>2, <1>4, <2>2
<1> QED BY <1>7, <1>8 DEF t, texts

\* The segments of a cleaned path as a text.
JoinedPath(path) == Joined([k \in 1 .. Len(CleanSegments(path)) |-> <<CleanSegments(path)[k]>>], <<"/">>)

\* It has every segment, and clean_path makes it different from those that start
\* elsewhere.
LEMMA PathText ==
    ASSUME NEW path \in Seq(Segment), Len(path) <= DeepEnough
    PROVE  LET c == CleanSegments(path)
               t == JoinedPath(path) IN
           /\ c \in Seq(Word) /\ \A k \in 1 .. Len(c) : c[k] \notin {"", ".", "/"}
           /\ t \in Seq(Word) /\ Len(t) = IF Len(c) = 0 THEN 0 ELSE Odd(Len(c))
           /\ \A k \in 1 .. Len(c) : t[Odd(k)] = c[k]
           /\ CleanPath(path) = IF path = <<>> THEN <<>>
                                ELSE IF Rooted(path) THEN <<"/">> \o t
                                ELSE IF t = <<>> THEN <<".">> ELSE t
           /\ CleanPath(path) \in Seq(Word)
           /\ CleanPath(path) = <<>> <=> path = <<>>
<1> DEFINE c == CleanSegments(path)
           t == JoinedPath(path)
<1>1. c \in Seq(Segment) /\ \E m : Leads(c, Place(path), m, StartDepth(path))
  BY PathLeads
<1> HIDE DEF c
<1>2. Len(c) \in Nat /\ \A k \in 1 .. Len(c) : c[k] \in Name \cup {".."}
  <2>1. PICK m : Leads(c, Place(path), m, StartDepth(path))
    BY <1>1
  <2>2. StartDepth(path) \in Nat
    BY NamesAssumption DEF StartDepth
  <2>3. Len(c) \in Nat
    BY <1>1, ElementsOf
  <2>4. \A k \in 1 .. Len(c) : c[k] \in Name \cup {".."}
    <3> TAKE k \in 1 .. Len(c)
    <3>1. m \in Nat /\ (k \in 1 .. m \/ k \in m + 1 .. Len(c))
      BY <2>1, <2>2, <2>3 DEF Leads
    <3> QED BY <2>1, <3>1 DEF Leads
  <2> QED BY <2>3, <2>4
<1>3. Name \cup {".."} \subseteq Word /\ "" \notin Name /\ "." \notin Name /\ "/" \notin Name /\ "/" # ".."
      /\ "." # ".." /\ "" # ".."
  BY CharAssumption DEF Name, Segment, Word
<1>4. c \in Seq(Word) /\ \A k \in 1 .. Len(c) : c[k] \notin {"", ".", "/"}
  <2>1. \A k \in 1 .. Len(c) : c[k] \in Word
    BY <1>2, <1>3
  <2>2. c \in Seq(Word)
    BY <1>1, <1>2, <2>1
  <2> QED BY <1>2, <1>3, <2>2
<1>5. /\ t \in Seq(Word) /\ Len(t) = IF Len(c) = 0 THEN 0 ELSE Odd(Len(c))
      /\ \A k \in 1 .. Len(c) : t[Odd(k)] = c[k]
  BY <1>4, JoinedIs DEF JoinedPath, c
<1>6. CleanPath(path) = IF path = <<>> THEN <<>>
                        ELSE IF Rooted(path) THEN <<"/">> \o t
                        ELSE IF t = <<>> THEN <<".">> ELSE t
  BY DEF CleanPath, JoinedPath
<1> HIDE DEF t
<1>7. <<"/">> \o t \in Seq(Word) /\ <<"/">> \o t # <<>> /\ <<".">> \in Seq(Word) /\ <<".">> # <<>>
  <2> DEFINE x == <<"/">>
  <2>1. "/" \in Word /\ "." \in Word
    BY Signs DEF Word
  <2>2. x \in Seq(Word) /\ <<".">> \in Seq(Word) /\ <<".">> # <<>> /\ Len(x) = 1
    BY <2>1
  <2> HIDE DEF x
  <2>3. x \o t \in Seq(Word) /\ Len(x \o t) = Len(x) + Len(t) /\ Len(t) \in Nat
    <3>1. Joins(x, t, Word)
      BY <1>5, <2>2, Joining
    <3> QED BY <3>1 DEF Joins
  <2>4. x \o t # <<>>
    <3>1. Len(x \o t) # 0
      BY <2>2, <2>3
    <3> QED BY <3>1
  <2> QED BY <2>2, <2>3, <2>4 DEF x
<1>8. CleanPath(path) \in Seq(Word) /\ (CleanPath(path) = <<>> <=> path = <<>>)
  <2> DEFINE x == <<"/">> \o t   y == <<".">>
  <2>1. CleanPath(path) = IF path = <<>> THEN <<>> ELSE IF Rooted(path) THEN x ELSE IF t = <<>> THEN y ELSE t
    BY <1>6
  <2>2. x \in Seq(Word) /\ x # <<>> /\ y \in Seq(Word) /\ y # <<>>
    BY <1>7
  <2> HIDE DEF x, y
  <2>3. <<>> \in Seq(Word)
    OBVIOUS
  <2> QED BY <1>5, <2>1, <2>2, <2>3
<1> QED BY <1>4, <1>5, <1>6, <1>8 DEF c, t

\* Where the segments begin that a path has on its way down, and what comes first.
LEMMA PathBegins ==
    ASSUME NEW path \in Seq(Segment), Len(path) <= DeepEnough, path # <<>>
    PROVE  /\ Rooted(path) <=> CleanPath(path)[1] = "/"
           /\ ~Rooted(path) => (JoinedPath(path) = <<>> <=> CleanPath(path)[1] = ".")
<1> DEFINE c == CleanSegments(path)   t == JoinedPath(path)   x == <<"/">>
<1>1. /\ \A k \in 1 .. Len(c) : c[k] \notin {"", ".", "/"}
      /\ t \in Seq(Word) /\ Len(t) = IF Len(c) = 0 THEN 0 ELSE Odd(Len(c))
      /\ \A k \in 1 .. Len(c) : t[Odd(k)] = c[k]
      /\ c \in Seq(Word)
      /\ CleanPath(path) = IF Rooted(path) THEN x \o t ELSE IF t = <<>> THEN <<".">> ELSE t
  BY PathText
<1>2. x \in Seq(Word) /\ Len(x) = 1 /\ x[1] = "/"
  <2>1. "/" \in Word
    BY Signs
  <2> QED BY <2>1
<1>3. "/" # "."
  OBVIOUS
<1> HIDE DEF c, t, x
<1>4. CASE Rooted(path)
  <2>1. Joins(x, t, Word)
    BY <1>1, <1>2, Joining
  <2>2. \A i \in 1 .. Len(x) : (x \o t)[i] = x[i]
    BY <2>1 DEF Joins
  <2>3. (x \o t)[1] = "/"
    <3>1. 1 \in 1 .. Len(x)
      BY <1>2
    <3> QED BY <1>2, <2>2, <3>1
  <2> QED BY <1>1, <1>4, <2>3
<1>5. CASE ~Rooted(path) /\ t = <<>>
  <2>1. CleanPath(path) = <<".">>
    BY <1>1, <1>5
  <2>2. CleanPath(path)[1] = "."
    BY <2>1
  <2> QED BY <1>3, <1>5, <2>2 DEF t
<1>6. CASE ~Rooted(path) /\ t # <<>>
  <2>1. Len(t) # 0 /\ Len(c) \in Nat
    BY <1>1, <1>6, EmptySeq
  <2>2. Len(c) # 0 /\ Odd(1) = 1
    <3>1. Len(c) # 0
      BY <1>1, <2>1
    <3> QED BY <3>1 DEF Odd
  <2>3. 1 \in 1 .. Len(c)
    BY <2>1, <2>2
  <2>4. t[1] = c[1] /\ c[1] \notin {"", ".", "/"}
    BY <1>1, <2>2, <2>3
  <2> QED BY <1>1, <1>6, <2>4 DEF t
<1> QED BY <1>4, <1>5, <1>6

\* Cleaned paths are the same text if, and only if, they lead to the same place.
LEMMA PathsApart ==
    ASSUME NEW p \in Seq(Segment), NEW q \in Seq(Segment), Len(p) <= DeepEnough, Len(q) <= DeepEnough
    PROVE  CleanPath(p) = CleanPath(q) <=>
               /\ p = <<>> <=> q = <<>>
               /\ Rooted(p) <=> Rooted(q)
               /\ Place(p) = Place(q)
<1> DEFINE c == CleanSegments(p)   t == JoinedPath(p)   d == CleanSegments(q)   u == JoinedPath(q)
           x == <<"/">>   y == <<".">>
<1>1. /\ t \in Seq(Word) /\ Len(t) = IF Len(c) = 0 THEN 0 ELSE Odd(Len(c))
      /\ \A k \in 1 .. Len(c) : t[Odd(k)] = c[k]
      /\ c \in Seq(Word)
      /\ CleanPath(p) = IF p = <<>> THEN <<>> ELSE IF Rooted(p) THEN x \o t ELSE IF t = <<>> THEN y ELSE t
      /\ CleanPath(p) = <<>> <=> p = <<>>
  BY PathText
<1>2. /\ u \in Seq(Word) /\ Len(u) = IF Len(d) = 0 THEN 0 ELSE Odd(Len(d))
      /\ \A k \in 1 .. Len(d) : u[Odd(k)] = d[k]
      /\ d \in Seq(Word)
      /\ CleanPath(q) = IF q = <<>> THEN <<>> ELSE IF Rooted(q) THEN x \o u ELSE IF u = <<>> THEN y ELSE u
      /\ CleanPath(q) = <<>> <=> q = <<>>
  BY PathText
<1>3. c = d => t = u
  BY DEF JoinedPath
<1>4. Rooted(p) <=> Rooted(q) => (c = d <=> Place(p) = Place(q))
  <2> SUFFICES ASSUME Rooted(p) <=> Rooted(q) PROVE c = d <=> Place(p) = Place(q)
    OBVIOUS
  <2> DEFINE r == StartDepth(p)
  <2>1. r \in Nat /\ StartDepth(q) = r
    BY NamesAssumption DEF StartDepth
  <2>2. c \in Seq(Segment) /\ Place(p) \in Stack /\ \E m : Leads(c, Place(p), m, r)
    BY PathLeads
  <2>3. d \in Seq(Segment) /\ Place(q) \in Stack /\ \E m : Leads(d, Place(q), m, r)
    BY <2>1, PathLeads
  <2> HIDE DEF c, d, r
  <2> QED BY <2>1, <2>2, <2>3, LeadsOnce
<1>5. x \in Seq(Word)
  <2>1. "/" \in Word
    BY Signs
  <2> QED BY <2>1
<1> HIDE DEF c, d, t, u, x, y
<1>6. t = u => c = d
  <2> SUFFICES ASSUME t = u PROVE c = d
    OBVIOUS
  <2>1. Len(c) \in Nat /\ Len(d) \in Nat
    BY <1>1, <1>2, ElementsOf
  <2>2. Len(c) = Len(d)
    BY <1>1, <1>2, <2>1 DEF Odd
  <2>3. \A k \in 1 .. Len(c) : c[k] = d[k]
    BY <1>1, <1>2, <2>2
  <2> QED BY <1>1, <1>2, <2>2, <2>3, SeqEqual
<1>7. ASSUME CleanPath(p) = CleanPath(q), p # <<>>, q # <<>> PROVE (Rooted(p) <=> Rooted(q)) /\ t = u
  <2>1. Rooted(p) <=> Rooted(q)
    BY <1>7, PathBegins
  <2>2. CASE Rooted(p)
    <3>1. x \o t = x \o u
      BY <1>1, <1>2, <1>7, <2>1, <2>2
    <3> QED BY <1>1, <1>2, <1>5, <2>1, <3>1, ConcatSimplifications
  <2>3. CASE ~Rooted(p)
    <3>1. t = <<>> <=> u = <<>>
      BY <1>7, <2>1, <2>3, PathBegins DEF t, u
    <3> QED BY <1>1, <1>2, <1>7, <2>1, <2>3, <3>1
  <2> QED BY <2>1, <2>2, <2>3
<1>8. CASE p = <<>> \/ q = <<>>
  <2>1. CleanPath(p) = CleanPath(q) => p = q
    BY <1>1, <1>2, <1>8
  <2> QED BY <1>1, <1>2, <1>8, <2>1
<1>9. CASE p # <<>> /\ q # <<>>
  <2>1. CleanPath(p) = CleanPath(q) => (Rooted(p) <=> Rooted(q)) /\ Place(p) = Place(q)
    BY <1>4, <1>6, <1>7, <1>9
  <2>2. (Rooted(p) <=> Rooted(q)) /\ Place(p) = Place(q) => CleanPath(p) = CleanPath(q)
    <3> HAVE (Rooted(p) <=> Rooted(q)) /\ Place(p) = Place(q)
    <3>1. t = u
      BY <1>3, <1>4
    <3> QED BY <1>1, <1>2, <1>9, <3>1
  <2> QED BY <1>9, <2>1, <2>2
<1> QED BY <1>8, <1>9


-----------------------------------------------------------------------------
(***************************************************************************)
(* Tickets and their nodes.                                                *)
(***************************************************************************)
\* A VName is made of texts and a path.
LEMMA VNameIs ==
    ASSUME NEW v \in VNames
    PROVE  /\ v = [corpus |-> v.corpus, language |-> v.language, path |-> v.path,
                   root |-> v.root, signature |-> v.signature]
           /\ v.corpus \in Seq(Word) /\ v.language \in Seq(Word) /\ v.root \in Seq(Word)
           /\ v.signature \in Seq(Word)
           /\ v.path \in Seq(Segment) /\ Len(v.path) <= DeepEnough
           /\ CleanPath(v.path) \in Seq(Word) /\ (CleanPath(v.path) = <<>> <=> v.path = <<>>)
<1>1. v \in [corpus : Text, language : Text, path : Seq(Segment), root : Text, signature : Text]
  BY NamesAssumption
<1>2. Text \subseteq Seq(Word)
  BY Signs, SeqMonotonic DEF Text
<1>3. v.path \in Seq(Segment) /\ Len(v.path) <= DeepEnough
  BY <1>1, NamesAssumption
<1>4. CleanPath(v.path) \in Seq(Word) /\ (CleanPath(v.path) = <<>> <=> v.path = <<>>)
  BY <1>3, PathText
<1> QED BY <1>1, <1>2, <1>3, <1>4

\* A ticket is made of its components, and each of them can be read again.
LEMMA TicketIs ==
    ASSUME NEW v \in VNames
    PROVE  /\ ToTicket(v) = Upto5(Escape(v.corpus, TRUE), Escape(v.language, FALSE),
                                  Escape(CleanPath(v.path), TRUE), Escape(v.root, TRUE),
                                  Escape(v.signature, FALSE))
           /\ Escape(v.corpus, TRUE) \in PlainText /\ Escape(v.language, FALSE) \in PlainText
           /\ Escape(CleanPath(v.path), TRUE) \in PlainText /\ Escape(v.root, TRUE) \in PlainText
           /\ Escape(v.signature, FALSE) \in PlainText
           /\ v.corpus = PercentDecode(Escape(v.corpus, TRUE))
           /\ v.language = PercentDecode(Escape(v.language, FALSE))
           /\ CleanPath(v.path) = PercentDecode(Escape(CleanPath(v.path), TRUE))
           /\ v.root = PercentDecode(Escape(v.root, TRUE))
           /\ v.signature = PercentDecode(Escape(v.signature, FALSE))
<1>1. /\ Escape(v.corpus, TRUE) \in PlainText /\ Escape(v.language, FALSE) \in PlainText
      /\ Escape(CleanPath(v.path), TRUE) \in PlainText /\ Escape(v.root, TRUE) \in PlainText
      /\ Escape(v.signature, FALSE) \in PlainText
  BY VNameIs, EscapedEmpty
<1>2. ToTicket(v) = Upto5(Escape(v.corpus, TRUE), Escape(v.language, FALSE),
                          Escape(CleanPath(v.path), TRUE), Escape(v.root, TRUE),
                          Escape(v.signature, FALSE))
  BY DEF ToTicket, Upto5, Upto4, Upto3, Upto2, Upto1, Put
<1>3. /\ v.corpus = PercentDecode(Escape(v.corpus, TRUE))
      /\ v.language = PercentDecode(Escape(v.language, FALSE))
      /\ CleanPath(v.path) = PercentDecode(Escape(CleanPath(v.path), TRUE))
      /\ v.root = PercentDecode(Escape(v.root, TRUE))
      /\ v.signature = PercentDecode(Escape(v.signature, FALSE))
  BY VNameIs, EscapedEmpty
<1> QED BY <1>1, <1>2, <1>3

\* Two VNames have the same ticket if, and only if, they name the same node.
LEMMA OneToOne ==
    ASSUME NEW v \in VNames, NEW w \in VNames
    PROVE  NodeOf(v) = NodeOf(w) <=> ToTicket(v) = ToTicket(w)
<1> DEFINE Same == /\ v.corpus = w.corpus /\ v.language = w.language /\ v.root = w.root
                   /\ v.signature = w.signature /\ CleanPath(v.path) = CleanPath(w.path)
<1>1. ToTicket(v) = ToTicket(w) <=> Same
  <2>1. Same => ToTicket(v) = ToTicket(w)
    BY DEF ToTicket
  <2>2. ASSUME ToTicket(v) = ToTicket(w) PROVE Same
    <3> DEFINE c == Escape(v.corpus, TRUE)   l == Escape(v.language, FALSE)
               p == Escape(CleanPath(v.path), TRUE)   r == Escape(v.root, TRUE)
               g == Escape(v.signature, FALSE)
               c2 == Escape(w.corpus, TRUE)   l2 == Escape(w.language, FALSE)
               p2 == Escape(CleanPath(w.path), TRUE)   r2 == Escape(w.root, TRUE)
               g2 == Escape(w.signature, FALSE)
    <3>1. c = c2 /\ l = l2 /\ p = p2 /\ r = r2 /\ g = g2
      <4>1. ToTicket(v) = Upto5(c, l, p, r, g) /\ AllPlain(c, l, p, r, g)
        BY TicketIs DEF AllPlain
      <4>2. ToTicket(w) = Upto5(c2, l2, p2, r2, g2) /\ AllPlain(c2, l2, p2, r2, g2)
        BY TicketIs DEF AllPlain
      <4>3. Upto5(c, l, p, r, g) = Upto5(c2, l2, p2, r2, g2)
        BY <2>2, <4>1, <4>2
      <4> HIDE DEF c, l, p, r, g, c2, l2, p2, r2, g2
      <4> QED BY <4>1, <4>2, <4>3, TicketsApart
    <3>2. /\ v.corpus = PercentDecode(c) /\ v.language = PercentDecode(l)
          /\ CleanPath(v.path) = PercentDecode(p) /\ v.root = PercentDecode(r)
          /\ v.signature = PercentDecode(g)
      BY TicketIs
    <3>3. /\ w.corpus = PercentDecode(c2) /\ w.language = PercentDecode(l2)
          /\ CleanPath(w.path) = PercentDecode(p2) /\ w.root = PercentDecode(r2)
          /\ w.signature = PercentDecode(g2)
      BY TicketIs
    <3> HIDE DEF c, l, p, r, g, c2, l2, p2, r2, g2
    <3> QED BY <3>1, <3>2, <3>3
  <2> QED BY <2>1, <2>2
<1>2. CleanPath(v.path) = CleanPath(w.path) <=>
          /\ v.path = <<>> <=> w.path = <<>>
          /\ Rooted(v.path) <=> Rooted(w.path)
          /\ Place(v.path) = Place(w.path)
  BY VNameIs, PathsApart
<1>3. [v EXCEPT !.path = Place(@)] = [w EXCEPT !.path = Place(@)] <=>
          /\ v.corpus = w.corpus /\ v.language = w.language /\ v.root = w.root
          /\ v.signature = w.signature /\ Place(v.path) = Place(w.path)
  <2> DEFINE Moved(x, y) == [corpus |-> x.corpus, language |-> x.language, path |-> y,
                             root |-> x.root, signature |-> x.signature]
  <2>1. ASSUME NEW x \in VNames PROVE [x EXCEPT !.path = Place(@)] = Moved(x, Place(x.path))
    <3> DEFINE y == Place(x.path)
    <3>1. x = Moved(x, x.path)
      BY VNameIs
    <3>2. [x EXCEPT !.path = Place(@)] = [x EXCEPT !.path = y]
      BY <3>1
    <3> HIDE DEF y
    <3>3. [x EXCEPT !.path = y] = Moved(x, y)
      BY <3>1
    <3> QED BY <3>2, <3>3 DEF y
  <2>2. \A a, b : Moved(v, a) = Moved(w, b) <=>
            /\ v.corpus = w.corpus /\ v.language = w.language /\ v.root = w.root
            /\ v.signature = w.signature /\ a = b
    OBVIOUS
  <2> HIDE DEF Moved
  <2> QED BY <2>1, <2>2
<1>4. NodeOf(v) = NodeOf(w) <=>
          /\ [v EXCEPT !.path = Place(@)] = [w EXCEPT !.path = Place(@)]
          /\ v.path = <<>> <=> w.path = <<>>
          /\ Rooted(v.path) <=> Rooted(w.path)
  <2> DEFINE N(a, b, c) == [vname |-> a, empty |-> b, rooted |-> c]
  <2>1. \A a, a2 : \A b, b2, c, c2 \in BOOLEAN : N(a, b, c) = N(a2, b2, c2) <=> a = a2 /\ (b <=> b2) /\ (c <=> c2)
    OBVIOUS
  <2> HIDE DEF N
  <2> DEFINE a == [v EXCEPT !.path = Place(@)]   b == v.path = <<>>   c == Rooted(v.path)
             a2 == [w EXCEPT !.path = Place(@)]   b2 == w.path = <<>>   c2 == Rooted(w.path)
  <2>2. NodeOf(v) = N(a, b, c) /\ NodeOf(w) = N(a2, b2, c2)
    BY DEF NodeOf, N
  <2>3. b \in BOOLEAN /\ b2 \in BOOLEAN /\ c \in BOOLEAN /\ c2 \in BOOLEAN
    BY DEF Rooted
  <2>4. N(a, b, c) = N(a2, b2, c2) <=> a = a2 /\ (b <=> b2) /\ (c <=> c2)
    <3> HIDE DEF a, b, c, a2, b2, c2
    <3> QED BY <2>1, <2>3
  <2> QED BY <2>2, <2>4
<1> QED BY <1>1, <1>2, <1>3, <1>4

\* Nodes and tickets are one to one, so there are as many of both as pairs.
LEMMA TicketsTell == TicketTells
<1> DEFINE pairs == {<<NodeOf(v), ToTicket(v)>> : v \in VNames}
           firsts == {p[1] : p \in pairs}
           seconds == {p[2] : p \in pairs}
<1>1. IsFiniteSet(pairs)
  <2> DEFINE f == [v \in VNames |-> <<NodeOf(v), ToTicket(v)>>]
  <2>1. f \in Surjection(VNames, pairs)
    BY DEF Surjection
  <2> HIDE DEF f
  <2> QED BY <2>1, NamesAssumption, FS_Surjection
<1>2. \A p, q \in pairs : p[1] = q[1] <=> p[2] = q[2]
  BY OneToOne
<1>3. \A p, q \in pairs : p[1] = q[1] /\ p[2] = q[2] => p = q
  OBVIOUS
<1> HIDE DEF pairs
<1>4. Cardinality(firsts) = Cardinality(pairs)
  <2> DEFINE f == [p \in pairs |-> p[1]]
  <2>1. f \in Bijection(pairs, firsts)
    BY <1>2, <1>3 DEF Bijection, Injection, Surjection, IsInjective
  <2>2. ExistsBijection(pairs, firsts)
    BY <2>1 DEF ExistsBijection
  <2> QED BY <1>1, <2>2, FS_Bijection
<1>5. Cardinality(seconds) = Cardinality(pairs)
  <2> DEFINE f == [p \in pairs |-> p[2]]
  <2>1. f \in Bijection(pairs, seconds)
    BY <1>2, <1>3 DEF Bijection, Injection, Surjection, IsInjective
  <2>2. ExistsBijection(pairs, seconds)
    BY <2>1 DEF ExistsBijection
  <2> QED BY <1>1, <2>2, FS_Bijection
<1> QED BY <1>4, <1>5 DEF TicketTells, pairs

\* A query reads the path and the signature that were written.
LEMMA TicketsRead == TicketReads
<1> SUFFICES ASSUME NEW v \in VNames
             PROVE  /\ PathOf(ToTicket(v)) = IF v.path = <<>> THEN ToTicket(v) ELSE CleanPath(v.path)
                    /\ SigOf(ToTicket(v)) = v.signature
  BY DEF TicketReads
<1> DEFINE c == Escape(v.corpus, TRUE)   l == Escape(v.language, FALSE)
           p == Escape(CleanPath(v.path), TRUE)   r == Escape(v.root, TRUE)
           g == Escape(v.signature, FALSE)
           t == ToTicket(v)
<1>1. /\ t = Upto5(c, l, p, r, g)
      /\ c \in PlainText /\ l \in PlainText /\ p \in PlainText /\ r \in PlainText /\ g \in PlainText
      /\ CleanPath(v.path) = PercentDecode(p) /\ v.signature = PercentDecode(g)
  BY TicketIs
<1>2. (p = <<>> <=> v.path = <<>>) /\ (g = <<>> <=> v.signature = <<>>)
  BY VNameIs, EscapedEmpty
<1> HIDE DEF c, l, p, r, g, t
<1>3. PathOf(t) = IF p = <<>> THEN t ELSE PercentDecode(p)
  BY <1>1, PathRead
<1>4. SigOf(t) = IF g = <<>> THEN <<>> ELSE PercentDecode(g)
  <2> DEFINE a == Upto4(c, l, p, r)
  <2>1. a \in Seq(First4)
    BY <1>1, UptoTyped
  <2>2. g \in Seq(First4) /\ "#" \notin First4
    BY <1>1, Firsts, SeqMonotonic DEF PlainText
  <2>3. t = Put(a, "#", g)
    BY <1>1 DEF Upto5
  <2> HIDE DEF a
  <2> QED BY <2>1, <2>2, <2>3, SignatureRead
<1> QED BY <1>1, <1>2, <1>3, <1>4 DEF t

-----------------------------------------------------------------------------
(***************************************************************************)
(* The texts of an index.                                                  *)
(***************************************************************************)

\* For any characters, VNames, signatures and fact values: a ticket is that of
\* its node and of no other, and has its path and its signature (to_ticket,
\* path_of, sig_of); a row whose name comes from the signature of a JVM method
\* has all of it but a descriptor at its end; and one whose name comes from a
\* fact in base64 is made of its bytes.
THEOREM TextsAreFaithful == Spec => []TextsFaithful
<1>1. TextsFaithful
  BY TicketsTell, TicketsRead, Stripping, Decoding DEF TextsFaithful
<1> QED BY <1>1, PTL
=============================================================================
