--------------------------- MODULE MappedAreaProofs ---------------------------
(***************************************************************************)
(* Proofs about MappedArea for every file, whatever its bytes: a read       *)
(* stays inside the mapping, gives up on a walk only over nodes that        *)
(* overlap, hands out no header or name for a value, and cannot go on for   *)
(* ever; a sound file is read as it was written.                            *)
(***************************************************************************)
EXTENDS MappedArea, FiniteSetTheorems, SequenceTheorems, TLAPS

LEMMA Layout ==
  /\ Base \in Nat /\ Base > 1 /\ MaxUsize \in Nat /\ ValueMax \in Nat /\ ValueMax > 2
  /\ Word = 2 /\ DataOffset = 2 /\ NodeSize = 10 /\ InfoSize = 2 + ValueMax /\ LongField = ValueMax
<1>1. Base \in Nat /\ Base > 1 /\ ValueMax \in Nat /\ ValueMax > 2
  BY LayoutAssumption DEF Word
<1>2. Base * Base \in Nat /\ Base * Base >= 1
  BY <1>1
<1>3. MaxUsize \in Nat
  BY <1>2 DEF MaxUsize
<1> QED
  BY <1>1, <1>3 DEF Word, DataOffset, NodeSize, InfoSize, LongField

LEMMA NameFacts ==
  ASSUME NEW n \in Names \cup {<<>>}
  PROVE  Len(n) \in Nat /\ (n \in Names => Len(n) > 0)
BY LayoutAssumption

-----------------------------------------------------------------------------
(* MemoryMap.                                                              *)

LEMMA CheckedAddFacts ==
  ASSUME NEW o \in Nat, NEW n \in Nat, NEW a \in CheckedAdd(o, n)
  PROVE  a = o + n /\ a \in Nat /\ a <= MaxUsize
BY Layout DEF CheckedAdd

LEMMA DataFacts ==
  ASSUME NEW o \in Nat, NEW n \in Nat, NEW a \in Data(o, DataOffset, n)
  PROVE  a = o + DataOffset /\ a \in 0 .. MaxUsize /\ a + n <= Size /\ a + n <= MaxUsize
BY Layout DEF Data, CheckedAdd, CheckSize

LEMMA ToObjectFacts ==
  ASSUME NEW o \in Nat, NEW n \in Nat, NEW a \in ToObject(o, n)
  PROVE  a = o + DataOffset /\ a \in 0 .. MaxUsize /\ a + n <= Size /\ a % Word = 0
<1>1. a \in Data(o, DataOffset, n) /\ a % Word = 0
  BY DEF ToObject, CheckAlignment
<1> QED
  BY <1>1, DataFacts

LEMMA ByteType ==
  ASSUME TypeOK, NEW a
  PROVE  Byte(a) \in 0 .. Base - 1
BY Layout DEF TypeOK, Byte

LEMMA WordType ==
  ASSUME TypeOK, NEW a
  PROVE  WordAt(a) \in 0 .. MaxUsize
<1> DEFINE lo == Byte(a)
           hi == Byte(a + 1)
<1>1. lo \in 0 .. Base - 1 /\ hi \in 0 .. Base - 1 /\ Base \in Nat
  BY ByteType, Layout
<1>2. WordAt(a) = lo + Base * hi /\ MaxUsize = Base * Base - 1
  BY DEF WordAt, MaxUsize
<1> HIDE DEF lo, hi
<1>3. Base * hi <= Base * (Base - 1) /\ Base * hi \in Nat /\ Base * (Base - 1) = Base * Base - Base
  BY <1>1
<1> QED
  BY <1>1, <1>2, <1>3

LEMMA BytesType ==
  ASSUME TypeOK, NEW a, NEW n \in Nat
  PROVE  Bytes(a, n) \in Seq(0 .. Base - 1) /\ Len(Bytes(a, n)) = n
<1>1. Bytes(a, n) \in [1 .. n -> 0 .. Base - 1]
  BY ByteType DEF Bytes
<1>2. Bytes(a, n) \in Seq(0 .. Base - 1)
  BY ByteType DEF Bytes
<1>3. DOMAIN Bytes(a, n) = 1 .. n /\ DOMAIN Bytes(a, n) = 1 .. Len(Bytes(a, n)) /\ Len(Bytes(a, n)) \in Nat
  BY <1>1, <1>2, LenProperties
<1> QED
  BY <1>2, <1>3

(* A string ends before the end of its bytes, and there is only one. *)
LEMMA UntilNulFacts ==
  ASSUME TypeOK, NEW a \in Nat, NEW n \in Int, NEW s \in UntilNul(a, n)
  PROVE  /\ s \in Seq(0 .. Base - 1) /\ Len(s) \in Nat /\ Len(s) < n
         /\ \A t \in UntilNul(a, n) : t = s
<1> DEFINE Ends(j) == j \in 0 .. n - 1 /\ Byte(a + j) = 0 /\ \A h \in 0 .. j - 1 : Byte(a + h) # 0
<1>1. \A t \in UntilNul(a, n) : \E j \in 0 .. n - 1 : Ends(j) /\ t = Bytes(a, j)
  BY DEF UntilNul
<1>2. PICK i \in 0 .. n - 1 : Ends(i) /\ s = Bytes(a, i)
  BY <1>1
<1>3. s \in Seq(0 .. Base - 1) /\ Len(s) = i
  BY <1>2, BytesType
<1>4. ASSUME NEW t \in UntilNul(a, n) PROVE t = s
  <2>1. PICK j \in 0 .. n - 1 : Ends(j) /\ t = Bytes(a, j)
    BY <1>1, <1>4
  <2>2. ~ (i < j) /\ ~ (j < i)
    BY <1>2, <2>1
  <2>3. i = j
    BY <2>2
  <2> QED
    BY <1>2, <2>1, <2>3
<1> QED
  BY <1>2, <1>3, <1>4

LEMMA CStrAtFacts ==
  ASSUME TypeOK, NEW o \in Nat, NEW c \in CStrAt(o)
  PROVE  /\ c.at = o + DataOffset /\ c.at \in 0 .. MaxUsize
         /\ c.str \in UntilNul(c.at, Size - c.at)
         /\ Len(c.str) \in Nat /\ c.at + Len(c.str) < Size
<1>1. Size \in Nat
  BY Layout DEF TypeOK
<1> DEFINE start == {a \in CheckedAdd(o, DataOffset) : a <= Size}
<1>2. \A a \in start : a = o + DataOffset /\ a \in 0 .. MaxUsize
  BY Layout DEF CheckedAdd
<1>3. PICK a \in start, s \in UNION {UntilNul(b, Size - b) : b \in start} : c = [at |-> a, str |-> s]
  BY DEF CStrAt
<1>4. s \in UntilNul(a, Size - a)
  BY <1>2, <1>3
<1>5. Len(s) \in Nat /\ Len(s) < Size - a
  BY <1>1, <1>2, <1>4, UntilNulFacts, Layout
<1> QED
  BY <1>1, <1>2, <1>3, <1>4, <1>5, Layout

(* A long value lies behind its entry and that entry's name. *)
LEMMA LongFacts ==
  ASSUME TypeOK, NEW o \in Nat, NEW a \in Nat, NEW l \in LongPropertyValue(o, a)
  PROVE  /\ l.at \in 0 .. MaxUsize /\ Len(l.str) \in Nat /\ l.at + Len(l.str) < Size
         /\ \E s \in UntilNul(o + InfoSize + DataOffset, Size - (o + InfoSize + DataOffset)) :
              l.at >= o + DataOffset + InfoSize + Len(s) + 1
<1>1. PICK r \in {WordAt(a + LongField)} :
        /\ \E no \in CheckedAdd(o, InfoSize) : \E nm \in CStrAt(no) : r >= MinRel(nm.str)
        /\ \E p \in CheckedAdd(o, r) : l \in CStrAt(p)
  BY DEF LongPropertyValue, LongValueAt
<1>2. r \in Nat
  BY <1>1, WordType, Layout
<1>3. PICK no \in CheckedAdd(o, InfoSize) : \E nm \in CStrAt(no) : r >= MinRel(nm.str)
  BY <1>1
<1>4. PICK nm \in CStrAt(no) : r >= MinRel(nm.str)
  BY <1>3
<1>5. PICK p \in CheckedAdd(o, r) : l \in CStrAt(p)
  BY <1>1
<1>6. no = o + InfoSize /\ no \in Nat /\ p = o + r /\ p \in Nat
  BY <1>2, Layout DEF CheckedAdd
<1>7. /\ nm.at = o + InfoSize + DataOffset /\ nm.str \in UntilNul(nm.at, Size - nm.at) /\ Len(nm.str) \in Nat
  BY <1>6, CStrAtFacts
<1>8. l.at = o + r + DataOffset /\ l.at \in 0 .. MaxUsize /\ Len(l.str) \in Nat /\ l.at + Len(l.str) < Size
  BY <1>5, <1>6, CStrAtFacts
<1> DEFINE m == Len(nm.str)
           pos == l.at
<1>9. m \in Nat /\ pos = o + r + DataOffset /\ InfoSize \in Nat /\ DataOffset \in Nat
  BY <1>7, <1>8, Layout
<1>10. MinRel(nm.str) = AlignUp(InfoSize + m + 1)
  BY DEF MinRel
<1>11. nm.str \in UntilNul(o + InfoSize + DataOffset, Size - (o + InfoSize + DataOffset))
  BY <1>7
<1>12. pos >= o + DataOffset + InfoSize + m + 1
  <2> HIDE DEF m, pos
  <2> DEFINE w == InfoSize + m + 1
  <2>1. w \in Nat
    BY <1>9
  <2>2. AlignUp(w) >= w /\ AlignUp(w) \in Nat
    <3> HIDE DEF w
    <3> QED
      BY <2>1, Layout DEF AlignUp
  <2>3. r >= InfoSize + m + 1
    BY <1>2, <1>4, <1>9, <1>10, <2>2
  <2> QED
    BY <1>2, <1>9, <2>3
<1> QED
  BY <1>8, <1>11, <1>12

-----------------------------------------------------------------------------
(* The frame of a step.                                                    *)

Inside(x) == x[1] >= 0 /\ x[1] + x[2] <= Size /\ x[1] % x[3] = 0
States    == Returned \cup {"open", "refused", "children", "bst", "prop", "value"}

LEMMA TouchInside ==
  ASSUME NEW a \in Nat, NEW n \in Nat, a + n <= Size, a % Word = 0
  PROVE  Inside(Touch(a, n))
BY DEF Inside, Touch

LEMMA ScanInside ==
  ASSUME NEW a \in Nat, NEW n \in Nat, a + n <= Size
  PROVE  Inside(Scan(a, n))
BY DEF Inside, Scan

LEMMA CStrScanInside ==
  ASSUME TypeOK, NEW o \in Nat, NEW x \in CStrScan(o)
  PROVE  Inside(x)
<1>1. PICK a \in CheckedAdd(o, DataOffset) : a <= Size /\ x = Scan(a, Size - a)
  BY DEF CStrScan
<1>2. a \in Nat /\ Size \in Nat
  BY <1>1, CheckedAddFacts, Layout DEF TypeOK
<1>3. Size - a \in Nat /\ a + (Size - a) <= Size
  BY <1>1, <1>2
<1> QED
  BY <1>1, <1>2, <1>3, ScanInside

LEMMA NameScanInside ==
  ASSUME TypeOK, NEW o \in Nat, NEW namelen \in Nat, NEW x \in TrieNodeNameScan(o, namelen)
  PROVE  Inside(x)
<1>1. PICK p \in CheckedAdd(o, NodeSize), l \in CheckedAdd(namelen, 1) :
        \E a \in Data(p, DataOffset, l) : x = Scan(a, l)
  BY DEF TrieNodeNameScan
<1>2. PICK a \in Data(p, DataOffset, l) : x = Scan(a, l)
  BY <1>1
<1>3. p \in Nat /\ l \in Nat
  BY <1>1, CheckedAddFacts, Layout
<1>4. a \in Nat /\ a + l <= Size
  BY <1>2, <1>3, DataFacts, Layout
<1> QED
  BY <1>2, <1>3, <1>4, ScanInside

LEMMA LongScanInside ==
  ASSUME TypeOK, NEW o \in Nat, NEW e \in Nat, NEW x \in LongScan(o, e)
  PROVE  Inside(x)
<1>1. PICK p \in CheckedAdd(o, InfoSize) \cup LongValueAt(o, e) : x \in CStrScan(p)
  BY DEF LongScan
<1>2. p \in Nat
  <2>1. CASE p \in CheckedAdd(o, InfoSize)
    BY <2>1, CheckedAddFacts, Layout
  <2>2. CASE p \in LongValueAt(o, e)
    <3>1. WordAt(e + LongField) \in Nat
      BY WordType, Layout
    <3>2. p \in CheckedAdd(o, WordAt(e + LongField))
      BY <2>2 DEF LongValueAt
    <3> QED
      BY <3>1, <3>2, CheckedAddFacts, Layout
  <2> QED
    BY <1>1, <2>1, <2>2
<1> QED
  BY <1>1, <1>2, CStrScanInside

LEMMA FailsKept ==
  ASSUME ReadInv, UNCHANGED <<mem, intact>>, NEW res, Fails(res), \A x \in acc' : Inside(x),
         res \in {"refused", "idle", "invalid", "notfound"}, res # "refused" => PaDataSize >= 0
  PROVE  ReadInv'
<1>1. /\ Size' = Size /\ PaDataSize' = PaDataSize /\ MaxSteps' = MaxSteps
      /\ pc' = res /\ UNCHANGED <<mem, intact, name, k, cur, at, seen, src, val>>
  BY DEF Size, PaDataSize, MaxSteps, Fails
<1>2. TypeOK'
  BY <1>1 DEF ReadInv, TypeOK, Returned
<1>3. InBounds'
  BY <1>1 DEF InBounds, Inside
<1>4. SeenInside' /\ CycleMeansDamage'
  BY <1>1 DEF ReadInv, SeenInside, CycleMeansDamage
<1> QED
  BY <1>2, <1>3, <1>4 DEF ReadInv

LEMMA IntervalSize ==
  ASSUME NEW m \in Nat
  PROVE  /\ IsFiniteSet(1 .. m) /\ Cardinality(1 .. m) = m
         /\ IsFiniteSet(0 .. m - 1) /\ Cardinality(0 .. m - 1) = m
<1>1. \A a, b \in Int : IsFiniteSet(a .. b) /\ Cardinality(a .. b) = IF a > b THEN 0 ELSE b - a + 1
  BY FS_Interval
<1>2. IsFiniteSet(1 .. m) /\ Cardinality(1 .. m) = IF 1 > m THEN 0 ELSE m - 1 + 1
  BY <1>1, 1 \in Int, m \in Int
<1>3. IsFiniteSet(0 .. m - 1) /\ Cardinality(0 .. m - 1) = IF 0 > m - 1 THEN 0 ELSE (m - 1) - 0 + 1
  BY <1>1, 0 \in Int, m - 1 \in Int
<1> QED
  BY <1>2, <1>3

(* More nodes than there is room for do not each have a place of their own. *)
LEMMA Crowded ==
  ASSUME TypeOK, SeenInside, TooMany, PaDataSize >= 0
  PROVE  \E i, j \in DOMAIN seen : i # j /\ Overlap(seen[i], seen[j], NodeSize)
<1> DEFINE n == Len(seen)
           d == PaDataSize
           S == (1 .. n) \X (0 .. 9)
           T == 0 .. d - 1
           f == [x \in S |-> seen[x[1]] + x[2]]
<1>1. /\ n \in Nat /\ DOMAIN seen = 1 .. n /\ d \in Nat
      /\ \A i \in 1 .. n : seen[i] \in Nat /\ seen[i] + 10 <= d
  <2>1. seen \in Seq(0 .. MaxUsize) /\ Size \in 0 .. MaxUsize /\ MaxUsize \in Nat
    BY Layout DEF TypeOK
  <2>2. n \in Nat /\ DOMAIN seen = 1 .. n /\ \A i \in 1 .. n : seen[i] \in Nat
    BY <2>1
  <2>3. d \in Nat
    BY <2>1, Layout DEF PaDataSize
  <2> QED
    BY <2>2, <2>3, Layout DEF SeenInside
<1>2. d < n * 10
  <2>1. n > d \div 10
    BY Layout DEF TooMany, MaxSteps
  <2> HIDE DEF n, d
  <2> QED
    BY <1>1, <2>1
<1>3. IsFiniteSet(S) /\ Cardinality(S) = n * 10
  <2>1. IsFiniteSet(1 .. n) /\ Cardinality(1 .. n) = n
    BY <1>1, IntervalSize
  <2>2. IsFiniteSet(0 .. 9) /\ Cardinality(0 .. 9) = 10
    <3>1. 10 \in Nat /\ 10 - 1 = 9
      OBVIOUS
    <3> QED
      BY <3>1, IntervalSize
  <2> QED
    BY <2>1, <2>2, FS_Product
<1>4. IsFiniteSet(T) /\ Cardinality(T) = d
  BY <1>1, IntervalSize
<1>5. f \in [S -> T]
  <2> SUFFICES ASSUME NEW i \in 1 .. n, NEW b \in 0 .. 9 PROVE seen[i] + b \in T
    OBVIOUS
  <2>1. seen[i] \in Nat /\ seen[i] + 10 <= d /\ d \in Nat
    BY <1>1
  <2> HIDE DEF d, n
  <2> QED
    BY <2>1
<1>6. \E x, y \in S : x # y /\ f[x] = f[y]
  <2>1. Cardinality(T) < Cardinality(S)
    BY <1>2, <1>3, <1>4
  <2> HIDE DEF S, T, f
  <2> QED
    BY <1>3, <1>4, <1>5, <2>1, FS_PigeonHole
<1>7. PICK x \in S, y \in S : x # y /\ f[x] = f[y]
  BY <1>6
<1>8. /\ x[1] \in 1 .. n /\ y[1] \in 1 .. n /\ x[2] \in 0 .. 9 /\ y[2] \in 0 .. 9
      /\ x[1] # y[1] \/ x[2] # y[2]
      /\ seen[x[1]] + x[2] = seen[y[1]] + y[2]
  BY <1>7
<1>9. seen[x[1]] \in Nat /\ seen[y[1]] \in Nat
  BY <1>1, <1>8
<1> DEFINE p == seen[x[1]]
           q == seen[y[1]]
           a == x[2]
           b == y[2]
<1>10. p \in Nat /\ q \in Nat /\ a \in 0 .. 9 /\ b \in 0 .. 9 /\ p + a = q + b
  BY <1>8, <1>9
<1>11. p = q => a = b
  <2> HIDE DEF p, q, a, b
  <2> QED
    BY <1>10
<1>12. x[1] # y[1]
  <2>1. x[1] = y[1] => p = q
    OBVIOUS
  <2> QED
    BY <1>8, <1>11, <2>1
<1>13. p < q + 10 /\ q < p + 10
  <2> HIDE DEF p, q, a, b
  <2> QED
    BY <1>10
<1>14. Overlap(p, q, NodeSize)
  BY <1>13, Layout DEF Overlap
<1> QED
  BY <1>1, <1>8, <1>12, <1>14

-----------------------------------------------------------------------------
(* The steps.                                                              *)

LEMMA OpenKept ==
  ASSUME ReadInv, Open
  PROVE  ReadInv'
<1>1. UNCHANGED <<mem, intact>> /\ Size \in Nat
  BY Layout DEF Open, ReadInv, TypeOK
<1>2. CASE Fails("refused") /\ acc' = {}
  BY <1>1, <1>2, FailsKept
<1>3. CASE /\ Size >= DataOffset /\ acc' = {Touch(0, DataOffset)}
           /\ Fails(IF WordAt(0) = Magic THEN "idle" ELSE "refused")
  <2>1. Inside(Touch(0, DataOffset))
    BY <1>1, <1>3, TouchInside, Layout
  <2>2. PaDataSize >= 0
    BY <1>1, <1>3, Layout DEF PaDataSize
  <2> QED
    BY <1>1, <1>3, <2>1, <2>2, FailsKept
<1> QED
  BY <1>2, <1>3 DEF Open

LEMMA CallKept ==
  ASSUME ReadInv, NEW n \in Names, Call(n)
  PROVE  ReadInv'
<1>1. /\ Size' = Size /\ PaDataSize' = PaDataSize /\ MaxSteps' = MaxSteps
      /\ pc \in Returned /\ pc' = "children" /\ name' = n /\ k' = 1 /\ cur' = 0 /\ at' = 0 /\ seen' = <<>>
      /\ acc' = {} /\ src' = <<0, 0>> /\ val' = <<>> /\ UNCHANGED <<mem, intact>>
  BY DEF Call, Size, PaDataSize, MaxSteps
<1>2. Len(n) \in Nat /\ Len(n) > 0
  BY NameFacts
<1>3. PaDataSize >= 0 /\ PaDataSize \in Int
  BY <1>1, Layout DEF ReadInv, SeenInside, Returned, PaDataSize, TypeOK
<1>4. MaxSteps \in Nat
  BY <1>3, Layout DEF MaxSteps
<1>5. TypeOK'
  <2>1. src' \in (0 .. MaxUsize) \X (0 .. MaxUsize) /\ src'[2] = 0
    BY <1>1, Layout
  <2>2. seen' \in Seq(0 .. MaxUsize) /\ val' \in Seq(0 .. Base - 1) /\ Len(seen') = 0 /\ Len(val') = 0
    BY <1>1
  <2>3. name' \in Names /\ k' \in 0 .. Len(name') /\ cur' \in 0 .. MaxUsize /\ at' \in 0 .. MaxUsize
    BY <1>1, <1>2, Layout
  <2>4. Len(seen') <= MaxSteps' + 1
    BY <1>1, <1>4, <2>2
  <2> QED
    BY <1>1, <2>1, <2>2, <2>3, <2>4 DEF ReadInv, TypeOK
<1>6. InBounds' /\ SeenInside' /\ CycleMeansDamage'
  BY <1>1, <1>3 DEF InBounds, SeenInside, CycleMeansDamage
<1> QED
  BY <1>5, <1>6 DEF ReadInv

LEMMA FindChildrenKept ==
  ASSUME ReadInv, FindChildren
  PROVE  ReadInv'
<1>1. /\ UNCHANGED <<mem, intact>> /\ pc = "children" /\ cur \in Nat /\ PaDataSize >= 0 /\ PaDataSize \in Int
      /\ NodeSize \in Nat
  BY Layout DEF FindChildren, ReadInv, TypeOK, SeenInside, PaDataSize
<1>2. CASE Fails("invalid") /\ acc' = {}
  BY <1>1, <1>2, FailsKept
<1>3. ASSUME NEW a \in ToObject(cur, NodeSize), acc' = {Touch(a, NodeSize)},
             at' = WordAt(a + Field.children), pc' = (IF at' = 0 THEN "notfound" ELSE "bst"), seen' = <<>>,
             UNCHANGED <<name, k, cur, src, val>>
      PROVE  ReadInv'
  <2>1. Size' = Size /\ PaDataSize' = PaDataSize /\ MaxSteps' = MaxSteps
    BY <1>1 DEF Size, PaDataSize, MaxSteps
  <2>2. Inside(Touch(a, NodeSize))
    <3>1. a \in Nat /\ a + NodeSize <= Size /\ a % Word = 0
      BY <1>1, <1>3, ToObjectFacts, Layout
    <3> QED
      BY <1>1, <3>1, TouchInside
  <2>3. InBounds'
    BY <1>3, <2>1, <2>2 DEF InBounds, Inside
  <2>4. at' \in 0 .. MaxUsize /\ pc' \in {"notfound", "bst"}
    BY <1>3, WordType DEF ReadInv
  <2>5. seen' \in Seq(0 .. MaxUsize) /\ Len(seen') = 0 /\ MaxSteps \in Nat
    BY <1>1, <1>3, Layout DEF MaxSteps
  <2>6. TypeOK'
    BY <1>1, <1>3, <2>1, <2>4, <2>5 DEF ReadInv, TypeOK, Returned
  <2>7. SeenInside' /\ CycleMeansDamage'
    BY <1>1, <1>3, <2>1, <2>4 DEF SeenInside, CycleMeansDamage
  <2> QED
    BY <2>3, <2>6, <2>7 DEF ReadInv
<1> QED
  BY <1>2, <1>3 DEF FindChildren

LEMMA FindBstKept ==
  ASSUME ReadInv, FindBst
  PROVE  ReadInv'
<1>1. /\ UNCHANGED <<mem, intact>> /\ pc = "bst" /\ at \in Nat /\ at \in 0 .. MaxUsize
      /\ PaDataSize >= 0 /\ PaDataSize \in Int /\ PaDataSize = Size - 2 /\ Size \in Nat
      /\ NodeSize = 10 /\ TypeOK /\ SeenInside
  BY Layout DEF FindBst, ReadInv, TypeOK, SeenInside, PaDataSize
<1>2. Size' = Size /\ PaDataSize' = PaDataSize /\ MaxSteps' = MaxSteps /\ MaxSteps \in Nat
  BY <1>1 DEF Size, PaDataSize, MaxSteps
<1>3. CASE TooMany /\ Fails("cycle") /\ acc' = {}
  <2>1. pc' = "cycle" /\ UNCHANGED <<mem, intact, name, k, cur, at, seen, src, val>>
    BY <1>1, <1>3 DEF Fails
  <2>2. TypeOK'
    BY <1>2, <2>1 DEF ReadInv, TypeOK, Returned
  <2>3. InBounds' /\ SeenInside'
    BY <1>1, <1>2, <1>3, <2>1 DEF InBounds, SeenInside
  <2>4. CycleMeansDamage'
    BY <1>1, <1>3, <2>1, Crowded DEF CycleMeansDamage
  <2> QED
    BY <2>2, <2>3, <2>4 DEF ReadInv
<1>4. CASE Fails("invalid") /\ acc' = {}
  BY <1>1, <1>4, FailsKept
<1>5. ASSUME NEW a \in ToObject(at, NodeSize)
      PROVE  /\ Inside(Touch(a, NodeSize)) /\ at + NodeSize <= PaDataSize
             /\ \A x \in TrieNodeNameScan(at, WordAt(a + Field.namelen)) : Inside(x)
  <2>1. a = at + DataOffset /\ a \in 0 .. MaxUsize /\ a + NodeSize <= Size /\ a % Word = 0
    BY <1>1, <1>5, ToObjectFacts
  <2>2. a \in Nat /\ NodeSize \in Nat /\ at + NodeSize <= PaDataSize
    BY <1>1, <2>1, Layout
  <2>3. Inside(Touch(a, NodeSize))
    BY <2>1, <2>2, TouchInside
  <2>4. WordAt(a + Field.namelen) \in Nat
    BY <1>1, WordType, Layout
  <2> QED
    BY <1>1, <2>2, <2>3, <2>4, NameScanInside
<1>6. ASSUME NEW a \in ToObject(at, NodeSize), Fails("invalid"),
             acc' = {Touch(a, NodeSize)} \cup TrieNodeNameScan(at, WordAt(a + Field.namelen))
      PROVE  ReadInv'
  BY <1>1, <1>5, <1>6, FailsKept
<1>7. ASSUME NEW a \in ToObject(at, NodeSize),
             acc' = {Touch(a, NodeSize)} \cup TrieNodeNameScan(at, WordAt(a + Field.namelen))
      PROVE  InBounds'
  BY <1>2, <1>5, <1>7 DEF InBounds, Inside
<1>8. CASE /\ pc' = (IF k < Len(name) THEN "children" ELSE "prop")
           /\ k' = (IF k < Len(name) THEN k + 1 ELSE k)
           /\ cur' = at /\ UNCHANGED <<name, at, seen, src, val>> /\ InBounds'
  <2>1. Len(name) \in Nat /\ k \in 0 .. Len(name)
    BY NameFacts DEF ReadInv, TypeOK
  <2>2. pc' \in {"children", "prop"} /\ k' \in 0 .. Len(name)
    BY <1>8, <2>1
  <2>3. TypeOK'
    BY <1>1, <1>2, <1>8, <2>2 DEF TypeOK
  <2>4. SeenInside' /\ CycleMeansDamage'
    BY <1>1, <1>2, <1>8, <2>2 DEF SeenInside, CycleMeansDamage
  <2> QED
    BY <1>8, <2>3, <2>4 DEF ReadInv
<1>9. CASE /\ \E b : at' = WordAt(b)
           /\ pc' = (IF at' = 0 THEN "notfound" ELSE "bst")
           /\ seen' = Visit(at) /\ UNCHANGED <<name, k, cur, src, val>>
           /\ InBounds' /\ ~ TooMany /\ at + NodeSize <= PaDataSize
  <2>1. at' \in 0 .. MaxUsize /\ pc' \in {"notfound", "bst"}
    BY <1>1, <1>9, WordType
  <2>2. seen \in Seq(0 .. MaxUsize) /\ Len(seen) \in Nat /\ Len(seen) <= MaxSteps
    BY <1>2, <1>9 DEF ReadInv, TypeOK, TooMany
  <2>3. /\ seen' \in Seq(0 .. MaxUsize) /\ Len(seen') = Len(seen) + 1 /\ DOMAIN seen' = 1 .. Len(seen) + 1
        /\ DOMAIN seen = 1 .. Len(seen)
        /\ seen'[Len(seen) + 1] = at /\ \A i \in 1 .. Len(seen) : seen'[i] = seen[i]
    <3>1. seen' = Append(seen, at)
      BY <1>9 DEF Visit
    <3> QED
      BY <1>1, <2>2, <3>1, AppendProperties, LenProperties
  <2>4. TypeOK'
    <3>1. Len(seen') <= MaxSteps' + 1
      BY <1>2, <2>2, <2>3
    <3> QED
      BY <1>1, <1>2, <1>9, <2>1, <2>3, <3>1 DEF TypeOK, Returned
  <2>5. \A i \in DOMAIN seen' : seen'[i] + NodeSize <= PaDataSize
    <3> SUFFICES ASSUME NEW i \in 1 .. Len(seen) + 1 PROVE seen'[i] + NodeSize <= PaDataSize
      BY <2>3
    <3>1. i \in 1 .. Len(seen) \/ i = Len(seen) + 1
      BY <2>2
    <3> QED
      BY <1>1, <1>9, <2>3, <3>1 DEF SeenInside
  <2>6. SeenInside' /\ CycleMeansDamage'
    BY <1>1, <1>2, <2>1, <2>5 DEF SeenInside, CycleMeansDamage
  <2> QED
    BY <1>9, <2>4, <2>6 DEF ReadInv
<1>10. ASSUME ~ TooMany, NEW a \in ToObject(at, NodeSize),
              NEW t \in TrieNodeName(at, WordAt(a + Field.namelen)),
              acc' = {Touch(a, NodeSize)} \cup TrieNodeNameScan(at, WordAt(a + Field.namelen)),
              at' = WordAt(a + IF Less(name[k], t) THEN Field.left ELSE Field.right),
              pc' = (IF at' = 0 THEN "notfound" ELSE "bst"), seen' = Visit(at),
              UNCHANGED <<name, k, cur, src, val>>
       PROVE  ReadInv'
  BY <1>5, <1>7, <1>9, <1>10
<1>11. ASSUME ~ TooMany, NEW a \in ToObject(at, NodeSize) ,
              acc' = {Touch(a, NodeSize)} \cup TrieNodeNameScan(at, WordAt(a + Field.namelen)),
              \E t \in TrieNodeName(at, WordAt(a + Field.namelen)) :
                         \/ /\ name[k] = t
                            /\ pc' = IF k < Len(name) THEN "children" ELSE "prop"
                            /\ k' = IF k < Len(name) THEN k + 1 ELSE k
                            /\ cur' = at
                            /\ UNCHANGED <<name, at, seen, src, val>>
                         \/ /\ name[k] # t
                            /\ at' = WordAt(a + IF Less(name[k], t) THEN Field.left ELSE Field.right)
                            /\ pc' = IF at' = 0 THEN "notfound" ELSE "bst"
                            /\ seen' = Visit(at)
                            /\ UNCHANGED <<name, k, cur, src, val>>
       PROVE  ReadInv'
  BY <1>7, <1>8, <1>10, <1>11
<1> QED
  BY <1>3, <1>4, <1>6, <1>11 DEF FindBst

LEMMA FindPropKept ==
  ASSUME ReadInv, FindProp
  PROVE  ReadInv'
<1>1. /\ UNCHANGED <<mem, intact>> /\ pc = "prop" /\ cur \in Nat /\ PaDataSize >= 0
      /\ NodeSize \in Nat /\ InfoSize \in Nat /\ TypeOK
  BY Layout DEF FindProp, ReadInv, TypeOK, SeenInside
<1>2. Size' = Size /\ PaDataSize' = PaDataSize /\ MaxSteps' = MaxSteps
  BY <1>1 DEF Size, PaDataSize, MaxSteps
<1>3. CASE Fails("invalid") /\ acc' = {}
  BY <1>1, <1>3, FailsKept
<1>4. ASSUME NEW n \in Nat, NEW o \in Nat, NEW a \in ToObject(o, n) PROVE Inside(Touch(a, n))
  <2>1. a \in Nat /\ a + n <= Size /\ a % Word = 0
    BY <1>4, ToObjectFacts, Layout
  <2> QED
    BY <1>4, <2>1, TouchInside
<1>5. ASSUME NEW a \in ToObject(cur, NodeSize), NEW res \in {"notfound", "invalid"},
             Fails(res), acc' = {Touch(a, NodeSize)}
      PROVE  ReadInv'
  BY <1>1, <1>4, <1>5, FailsKept
<1>6. ASSUME NEW a \in ToObject(cur, NodeSize), NEW p, p = WordAt(a + Field.prop), NEW e \in ToObject(p, InfoSize),
             acc' = {Touch(a, NodeSize), Touch(e, InfoSize)}, at' = p, pc' = "value",
             UNCHANGED <<name, k, cur, seen, src, val>>
      PROVE  ReadInv'
  <2>1. p \in 0 .. MaxUsize /\ p \in Nat
    BY <1>1, <1>6, WordType, Layout
  <2>2. Inside(Touch(a, NodeSize)) /\ Inside(Touch(e, InfoSize))
    BY <1>1, <1>4, <1>6, <2>1
  <2>3. InBounds'
    BY <1>2, <1>6, <2>2 DEF InBounds, Inside
  <2>4. TypeOK'
    BY <1>1, <1>2, <1>6, <2>1 DEF TypeOK
  <2>5. SeenInside' /\ CycleMeansDamage'
    BY <1>1, <1>2, <1>6 DEF ReadInv, SeenInside, CycleMeansDamage
  <2> QED
    BY <2>3, <2>4, <2>5 DEF ReadInv
<1>7. CASE \E a \in ToObject(cur, NodeSize) :
             LET p == WordAt(a + Field.prop) IN
               \/ p = 0 /\ Fails("notfound") /\ acc' = {Touch(a, NodeSize)}
               \/ /\ p # 0 /\ ToObject(p, InfoSize) = None
                  /\ Fails("invalid") /\ acc' = {Touch(a, NodeSize)}
               \/ /\ p # 0
                  /\ \E e \in ToObject(p, InfoSize) : acc' = {Touch(a, NodeSize), Touch(e, InfoSize)}
                  /\ at' = p /\ pc' = "value"
                  /\ UNCHANGED <<name, k, cur, seen, src, val>>
  BY <1>5, <1>6, <1>7
<1> QED
  BY <1>3, <1>7 DEF FindProp

(* What Value returns: bytes inside the mapping that are a value's. *)
IsValueOf(o, v) ==
  LET e == o + DataOffset
      end == e + InfoSize + Len(CHOOSE s \in UntilNul(e + InfoSize, Size - e - InfoSize) : TRUE) + 1
  IN  \/ v[1] = e + Word /\ v[2] <= ValueMax
      \/ v[1] = DataOffset + NodeSize /\ v[2] < ValueMax
      \/ IsLong(WordAt(e)) /\ v[1] >= end

LEMMA ValueFacts ==
  ASSUME TypeOK, NEW o \in Nat, NEW e \in ToObject(o, InfoSize),
         NEW v \in Value(e, LongPropertyValue(o, e))
  PROVE  /\ v \in (0 .. MaxUsize) \X (0 .. MaxUsize) /\ v[1] + v[2] <= Size
         /\ IsValueOf(o, v)
<1>1. /\ e = o + DataOffset /\ e \in Nat /\ e + InfoSize <= Size /\ Size \in Nat /\ Size <= MaxUsize
      /\ MaxUsize \in Nat
  <2>1. InfoSize \in Nat
    BY Layout
  <2> QED
    BY <2>1, ToObjectFacts, Layout DEF TypeOK
<1> DEFINE serial == WordAt(e)
           n == BackupLen(serial)
           long == LongPropertyValue(o, e)
           u == UntilNul(e + Word, ValueMax)
           m == IF u = None THEN ValueMax ELSE Len(CHOOSE s \in u : TRUE)
<1>2. serial \in Nat
  BY WordType, Layout
<1>3. n \in Nat /\ n < ValueMax
  <2>1. serial \div 32 \in Nat
    <3> HIDE DEF serial
    <3> QED
      BY <1>2
  <2> QED
    BY <2>1, Layout DEF BackupLen, LenOf, Lower
<1>4. ASSUME NEW a \in Nat, NEW c \in Nat, a + c <= Size
      PROVE  <<a, c>> \in (0 .. MaxUsize) \X (0 .. MaxUsize)
  <2>1. a \in 0 .. MaxUsize /\ c \in 0 .. MaxUsize
    BY <1>1, <1>4
  <2> QED
    BY <2>1
<1>5. CASE Dirty(serial)
  <2>1. PICK a \in Data(NodeSize, DataOffset, n) : v = <<a, n>>
    BY <1>5 DEF Value, None
  <2>2. a = NodeSize + DataOffset /\ a \in Nat /\ a + n <= Size
    BY <1>3, DataFacts, Layout
  <2>3. v[1] = a /\ v[2] = n
    BY <2>1
  <2>4. v[1] = DataOffset + NodeSize /\ v[2] < ValueMax
    BY <1>3, <2>2, <2>3, Layout
  <2> QED
    BY <1>3, <1>4, <2>1, <2>2, <2>3, <2>4 DEF IsValueOf
<1>6. CASE ~ Dirty(serial) /\ IsLong(serial)
  <2>1. PICK l \in long : v = <<l.at, Len(l.str)>>
    BY <1>6 DEF Value
  <2>2. /\ l.at \in 0 .. MaxUsize /\ Len(l.str) \in Nat /\ l.at + Len(l.str) < Size
        /\ \E s \in UntilNul(o + InfoSize + DataOffset, Size - (o + InfoSize + DataOffset)) :
              l.at >= o + DataOffset + InfoSize + Len(s) + 1
    BY <1>1, LongFacts
  <2> DEFINE w == UntilNul(e + InfoSize, Size - e - InfoSize)
  <2>3. UntilNul(o + InfoSize + DataOffset, Size - (o + InfoSize + DataOffset)) = w
    <3>1. o + InfoSize + DataOffset = e + InfoSize /\ Size - (o + InfoSize + DataOffset) = Size - e - InfoSize
      BY <1>1, Layout
    <3> QED
      BY <3>1
  <2>4. PICK s \in w : l.at >= o + DataOffset + InfoSize + Len(s) + 1
    BY <2>2, <2>3
  <2>5. (CHOOSE x \in w : TRUE) = s
    <3>1. (CHOOSE x \in w : TRUE) \in w
      <4> HIDE DEF w
      <4> QED
        BY <2>4
    <3>2. e + InfoSize \in Nat /\ Size - e - InfoSize \in Int
      BY <1>1, Layout
    <3> QED
      BY <2>4, <3>1, <3>2, UntilNulFacts
  <2>6. v[1] >= o + DataOffset + InfoSize + Len(CHOOSE x \in w : TRUE) + 1
    BY <2>1, <2>4, <2>5
  <2>7. IsValueOf(o, v)
    BY <1>1, <1>6, <2>6 DEF IsValueOf
  <2>8. v[1] + v[2] <= Size
    <3>1. v[1] = l.at /\ v[2] = Len(l.str)
      BY <2>1
    <3> QED
      BY <1>1, <2>2, <3>1
  <2>9. v \in (0 .. MaxUsize) \X (0 .. MaxUsize)
    <3> DEFINE pos == l.at
               len == Len(l.str)
    <3>1. pos \in Nat /\ len \in Nat /\ pos + len < Size
      BY <1>1, <2>2
    <3> HIDE DEF pos, len
    <3>2. pos + len <= Size
      BY <1>1, <3>1
    <3>3. <<pos, len>> \in (0 .. MaxUsize) \X (0 .. MaxUsize)
      BY <1>4, <3>1, <3>2
    <3> QED
      BY <2>1, <3>3 DEF pos, len
  <2> QED
    BY <2>7, <2>8, <2>9
<1>7. CASE ~ Dirty(serial) /\ ~ IsLong(serial)
  <2>1. v = <<e + Word, m>>
    BY <1>7 DEF Value
  <2>2. m \in Nat /\ m <= ValueMax
    <3>1. CASE u = None
      BY <3>1, Layout
    <3>2. CASE u # None
      <4>1. (CHOOSE s \in u : TRUE) \in u
        <5> HIDE DEF u
        <5> QED
          BY <3>2 DEF None
      <4>2. e + Word \in Nat /\ ValueMax \in Int
        BY <1>1, Layout
      <4>3. Len(CHOOSE s \in u : TRUE) \in Nat /\ Len(CHOOSE s \in u : TRUE) < ValueMax
        BY <4>1, <4>2, UntilNulFacts
      <4>4. m = Len(CHOOSE s \in u : TRUE)
        BY <3>2
      <4> HIDE DEF m, u
      <4> QED
        BY <4>3, <4>4, Layout
    <3> QED
      BY <3>1, <3>2
  <2> HIDE DEF m
  <2>3. e + Word \in Nat /\ e + Word + m <= Size
    BY <1>1, <2>2, Layout
  <2>4. v[1] = e + Word /\ v[2] = m
    BY <2>1
  <2>5. IsValueOf(o, v)
    BY <1>1, <2>2, <2>4 DEF IsValueOf
  <2> QED
    BY <1>4, <2>1, <2>2, <2>3, <2>4, <2>5
<1> QED
  BY <1>5, <1>6, <1>7

LEMMA ReadValueKept ==
  ASSUME ReadInv, ReadValue
  PROVE  ReadInv' /\ ValueIsNotMetadata'
<1>1. /\ UNCHANGED <<mem, intact>> /\ pc = "value" /\ at \in Nat /\ PaDataSize >= 0
      /\ InfoSize \in Nat /\ TypeOK
  BY Layout DEF ReadValue, ReadInv, TypeOK, SeenInside
<1>2. Size' = Size /\ PaDataSize' = PaDataSize /\ MaxSteps' = MaxSteps
  BY <1>1 DEF Size, PaDataSize, MaxSteps
<1>3. ASSUME NEW e \in ToObject(at, InfoSize)
      PROVE  Inside(Touch(e, InfoSize)) /\ \A x \in LongScan(at, e) : Inside(x)
  <2>1. e \in Nat /\ e + InfoSize <= Size /\ e % Word = 0
    BY <1>1, <1>3, ToObjectFacts, Layout
  <2> QED
    BY <1>1, <2>1, TouchInside, LongScanInside
<1>4. ASSUME NEW e \in ToObject(at, InfoSize), Fails("invalid"),
             acc' = {Touch(e, InfoSize)} \cup LongScan(at, e)
      PROVE  ReadInv' /\ ValueIsNotMetadata'
  <2>1. ReadInv'
    BY <1>1, <1>3, <1>4, FailsKept
  <2>2. pc' # "ok"
    BY <1>4 DEF Fails
  <2> QED
    BY <2>1, <2>2 DEF ValueIsNotMetadata
<1>5. ASSUME NEW e \in ToObject(at, InfoSize), NEW v \in Value(e, LongPropertyValue(at, e)),
             acc' = {Touch(e, InfoSize), Scan(v[1], v[2])} \cup LongScan(at, e), src' = v, val' = Bytes(v[1], v[2]),
             pc' = (IF \E i \in DOMAIN val' : val'[i] \in NonUtf8 THEN "utf8" ELSE "ok"),
             UNCHANGED <<name, k, cur, at, seen>>
      PROVE  ReadInv' /\ ValueIsNotMetadata'
  <2>1. v \in (0 .. MaxUsize) \X (0 .. MaxUsize) /\ v[1] + v[2] <= Size /\ IsValueOf(at, v)
    BY <1>1, <1>5, ValueFacts
  <2>2. v[1] \in Nat /\ v[2] \in Nat
    BY <2>1, Layout
  <2>3. InBounds'
    <3>1. Inside(Touch(e, InfoSize)) /\ Inside(Scan(v[1], v[2]))
      BY <1>3, <1>5, <2>1, <2>2, ScanInside
    <3>2. \A x \in acc' : Inside(x)
      BY <1>3, <1>5, <3>1
    <3> QED
      BY <1>2, <3>2 DEF InBounds, Inside
  <2>4. val' \in Seq(0 .. Base - 1) /\ Len(val') = src'[2]
    BY <1>1, <1>5, <2>2, BytesType
  <2>5. pc' \in {"utf8", "ok"}
    BY <1>5
  <2>6. TypeOK'
    BY <1>1, <1>2, <1>5, <2>1, <2>4, <2>5 DEF TypeOK, Returned
  <2>7. SeenInside' /\ CycleMeansDamage'
    BY <1>1, <1>2, <1>5, <2>5 DEF ReadInv, SeenInside, CycleMeansDamage
  <2>8. ValueIsNotMetadata'
    <3>1. \A a : WordAt(a)' = WordAt(a)
      BY <1>1 DEF WordAt, Byte
    <3>2. \A a, n : UntilNul(a, n)' = UntilNul(a, n)
      BY <1>1 DEF UntilNul, Byte, Bytes
    <3> QED
      BY <1>2, <1>5, <2>1, <3>1, <3>2 DEF ValueIsNotMetadata, IsValueOf
  <2> QED
    BY <2>3, <2>6, <2>7, <2>8 DEF ReadInv
<1>6. PICK e \in ToObject(at, InfoSize) :
        LET long  == LongPropertyValue(at, e)
            found == IF IsLong(WordAt(e)) /\ long = None THEN None ELSE Value(e, long)
        IN  \/ found = None /\ Fails("invalid") /\ acc' = {Touch(e, InfoSize)} \cup LongScan(at, e)
            \/ \E v \in found :
                 /\ acc' = {Touch(e, InfoSize), Scan(v[1], v[2])} \cup LongScan(at, e)
                 /\ src' = v /\ val' = Bytes(v[1], v[2])
                 /\ pc' = IF \E i \in DOMAIN val' : val'[i] \in NonUtf8 THEN "utf8" ELSE "ok"
                 /\ UNCHANGED <<name, k, cur, at, seen>>
  BY DEF ReadValue
<1>7. CASE Fails("invalid") /\ acc' = {Touch(e, InfoSize)} \cup LongScan(at, e)
  BY <1>4, <1>7
<1>8. CASE \E v \in Value(e, LongPropertyValue(at, e)) :
             /\ acc' = {Touch(e, InfoSize), Scan(v[1], v[2])} \cup LongScan(at, e)
             /\ src' = v /\ val' = Bytes(v[1], v[2])
             /\ pc' = IF \E i \in DOMAIN val' : val'[i] \in NonUtf8 THEN "utf8" ELSE "ok"
             /\ UNCHANGED <<name, k, cur, at, seen>>
  BY <1>5, <1>8
<1> QED
  BY <1>6, <1>7, <1>8 DEF None

-----------------------------------------------------------------------------
(* The theorems.                                                           *)

LEMMA InitHolds == Init => ReadInv /\ ValueIsNotMetadata
<1> SUFFICES ASSUME Init PROVE ReadInv /\ ValueIsNotMetadata
  OBVIOUS
<1>1. PICK file \in Files : Mapped(file)
  BY DEF Init
<1>2. /\ file \in Seq(0 .. Base - 1) /\ Len(file) \in Nat /\ Len(file) <= MaxUsize
      /\ \A i \in 1 .. Len(file) : file[i] \in 0 .. Base - 1
  BY LayoutAssumption
<1>3. DOMAIN mem = 0 .. Len(file) - 1 /\ mem = [i \in 0 .. Len(file) - 1 |-> file[i + 1]]
  BY <1>1 DEF Mapped
<1>4. Size = Len(file)
  BY <1>2, <1>3, IntervalSize DEF Size
<1>5. mem \in [0 .. Size - 1 -> 0 .. Base - 1]
  <2>1. \A i \in 0 .. Len(file) - 1 : i + 1 \in 1 .. Len(file)
    BY <1>2
  <2> QED
    BY <1>2, <1>3, <1>4, <2>1
<1>6. Size \in 0 .. MaxUsize /\ MaxSteps + 1 >= 0 /\ MaxSteps \in Int
  <2>1. Size \in Nat /\ Size <= MaxUsize
    BY <1>2, <1>4
  <2>2. MaxSteps = (Size - 2) \div 10
    BY Layout DEF MaxSteps, PaDataSize
  <2> QED
    BY <2>1, <2>2, Layout
<1>7. TypeOK
  <2>1. src = <<0, 0>> /\ src \in (0 .. MaxUsize) \X (0 .. MaxUsize) /\ src[2] = 0
    BY Layout DEF Init
  <2>2. /\ seen \in Seq(0 .. MaxUsize) /\ val \in Seq(0 .. Base - 1) /\ Len(seen) = 0 /\ Len(val) = 0
        /\ name = <<>> /\ Len(name) = 0
    BY DEF Init
  <2>3. intact \in BOOLEAN
    BY <1>1 DEF Mapped
  <2>4. k \in 0 .. Len(name) /\ cur \in 0 .. MaxUsize /\ at \in 0 .. MaxUsize /\ pc = "open"
    BY <2>2, Layout DEF Init
  <2>5. Len(seen) <= MaxSteps + 1
    BY <1>6, <2>2
  <2> QED
    BY <1>5, <1>6, <2>1, <2>2, <2>3, <2>4, <2>5 DEF TypeOK
<1>8. InBounds /\ SeenInside /\ CycleMeansDamage /\ ValueIsNotMetadata
  BY DEF Init, InBounds, SeenInside, CycleMeansDamage, ValueIsNotMetadata
<1> QED
  BY <1>7, <1>8 DEF ReadInv

LEMMA StepKept == ReadInv /\ ValueIsNotMetadata /\ [Next]_vars => ReadInv' /\ ValueIsNotMetadata'
<1> SUFFICES ASSUME ReadInv, ValueIsNotMetadata, [Next]_vars
             PROVE  ReadInv' /\ ValueIsNotMetadata'
  OBVIOUS
<1>1. CASE ReadValue
  BY <1>1, ReadValueKept
<1>2. CASE Open
  <2>1. pc' # "ok"
    BY <1>2 DEF Open, Fails
  <2> QED
    BY <1>2, <2>1, OpenKept DEF ValueIsNotMetadata
<1>3. ASSUME NEW n \in Names, Call(n) PROVE ReadInv' /\ ValueIsNotMetadata'
  <2>1. pc' # "ok"
    BY <1>3 DEF Call
  <2> QED
    BY <1>3, <2>1, CallKept DEF ValueIsNotMetadata
<1>4. CASE FindChildren
  <2>1. pc' # "ok"
    BY <1>4 DEF FindChildren, Fails
  <2> QED
    BY <1>4, <2>1, FindChildrenKept DEF ValueIsNotMetadata
<1>5. CASE FindBst
  <2>1. pc' # "ok"
    BY <1>5 DEF FindBst, Fails
  <2> QED
    BY <1>5, <2>1, FindBstKept DEF ValueIsNotMetadata
<1>6. CASE FindProp
  <2>1. pc' # "ok"
    BY <1>6 DEF FindProp, Fails
  <2> QED
    BY <1>6, <2>1, FindPropKept DEF ValueIsNotMetadata
<1>7. CASE UNCHANGED vars
  <2>1. UNCHANGED <<mem, intact, pc, name, k, cur, at, seen, acc, src, val>>
    BY <1>7 DEF vars
  <2>2. Size' = Size /\ PaDataSize' = PaDataSize /\ MaxSteps' = MaxSteps
    BY <2>1 DEF Size, PaDataSize, MaxSteps
  <2>3. \A a : WordAt(a)' = WordAt(a)
    BY <2>1 DEF WordAt, Byte
  <2>4. \A a, n : UntilNul(a, n)' = UntilNul(a, n)
    BY <2>1 DEF UntilNul, Byte, Bytes
  <2>5. TypeOK'
    BY <2>1, <2>2 DEF ReadInv, TypeOK
  <2>6. InBounds' /\ SeenInside' /\ CycleMeansDamage'
    BY <2>1, <2>2 DEF ReadInv, InBounds, SeenInside, CycleMeansDamage
  <2>7. ValueIsNotMetadata'
    BY <2>1, <2>2, <2>3, <2>4 DEF ValueIsNotMetadata
  <2> QED
    BY <2>5, <2>6, <2>7 DEF ReadInv
<1> QED
  BY <1>1, <1>2, <1>3, <1>4, <1>5, <1>6, <1>7 DEF Next, Step

(* Whatever bytes a mapped file has and wherever it ends, no read touches a  *)
(* byte outside the mapping or an object off its alignment (MemoryMap), and  *)
(* a walk that the cycle bound ends went over nodes that overlap             *)
(* (find_prop_trie_node).                                                    *)
THEOREM ReadsStayInside == Spec => []ReadInv
BY InitHolds, StepKept, PTL DEF Spec

(* Whatever bytes a mapped file has, a read that succeeds returns bytes of   *)
(* the entry's slot, of the backup slot, or behind the entry and its name    *)
(* (read_with_callback, long_property_value, read_dirty_backup).             *)
THEOREM ReadsReturnValues == Spec => []ValueIsNotMetadata
BY InitHolds, StepKept, PTL DEF Spec

-----------------------------------------------------------------------------
(* Sound files. *)

LEMMA TextRead ==
  ASSUME TypeOK, NEW a \in Nat, NEW s \in Seq(Nat), Text(a, s), NEW n \in Nat, Len(s) < n
  PROVE  UntilNul(a, n) = {s} /\ Bytes(a, Len(s)) = s
<1>1. Len(s) \in 0 .. n - 1 /\ DOMAIN s = 1 .. Len(s)
  BY LenProperties
<1>2. Bytes(a, Len(s)) = [i \in 1 .. Len(s) |-> s[i]]
  BY <1>1 DEF Text, Bytes
<1>3. s = [i \in 1 .. Len(s) |-> s[i]]
  BY <1>1
<1>4. ASSUME NEW h \in 0 .. Len(s) - 1 PROVE Byte(a + h) # 0
  <2>1. h + 1 \in DOMAIN s /\ a + (h + 1) - 1 = a + h
    BY <1>1
  <2> QED
    BY <2>1 DEF Text
<1>5. s \in UntilNul(a, n)
  BY <1>1, <1>2, <1>3, <1>4 DEF Text, UntilNul
<1>6. \A t \in UntilNul(a, n) : t = s
  BY <1>5, UntilNulFacts
<1> QED
  BY <1>2, <1>3, <1>5, <1>6

(* An object that is aligned and ends inside the file is found. *)
LEMMA ObjectFound ==
  ASSUME TypeOK, NEW o \in Nat, NEW n \in Nat, (o + DataOffset) % Word = 0, o + DataOffset + n <= Size
  PROVE  ToObject(o, n) = {o + DataOffset}
<1>1. Size \in Nat /\ Size <= MaxUsize /\ MaxUsize \in Nat /\ DataOffset = 2
  BY Layout DEF TypeOK
<1>2. CheckedAdd(o, DataOffset) = {o + DataOffset}
  BY <1>1 DEF CheckedAdd
<1>3. CheckSize(o + DataOffset, n)
  BY <1>1 DEF CheckSize, CheckedAdd
<1> QED
  BY <1>2, <1>3 DEF ToObject, Data, CheckAlignment

(* A string inside the file is found at its offset. *)
LEMMA CStrFound ==
  ASSUME TypeOK, NEW o \in Nat, NEW s \in Seq(Nat), Text(o + DataOffset, s)
  PROVE  CStrAt(o) = {[at |-> o + DataOffset, str |-> s]}
<1>1. /\ Size \in Nat /\ Size <= MaxUsize /\ MaxUsize \in Nat /\ DataOffset = 2 /\ Len(s) \in Nat
      /\ o + DataOffset + Len(s) < Size
  BY Layout DEF TypeOK, Text
<1>2. {a \in CheckedAdd(o, DataOffset) : a <= Size} = {o + DataOffset}
  BY <1>1 DEF CheckedAdd
<1>3. UntilNul(o + DataOffset, Size - (o + DataOffset)) = {s}
  BY <1>1, TextRead
<1> QED
  BY <1>2, <1>3 DEF CStrAt

LEMMA NodeFound ==
  ASSUME TypeOK, NEW o \in DOMAIN Trie, SoundNode(o)
  PROVE  /\ ToObject(o, NodeSize) = {o + DataOffset}
         /\ TrieNodeName(o, WordAt(o + DataOffset + Field.namelen)) # None
         /\ \A t \in TrieNodeName(o, WordAt(o + DataOffset + Field.namelen)) : t = Trie[o].seg
<1> DEFINE s == Trie[o].seg
<1>1. /\ o \in Nat /\ s \in Seq(Nat) /\ Len(s) \in Nat /\ Size \in Nat /\ Size <= MaxUsize /\ MaxUsize \in Nat
      /\ DataOffset = 2 /\ NodeSize = 10
  BY ImageAssumption, Layout DEF TypeOK
<1>2. /\ (o + DataOffset) % Word = 0 /\ WordAt(o + DataOffset + Field.namelen) = Len(s)
      /\ Text(o + DataOffset + NodeSize, s)
  BY DEF SoundNode
<1>3. o + DataOffset + NodeSize + Len(s) < Size
  BY <1>2 DEF Text
<1>4. ToObject(o, NodeSize) = {o + DataOffset}
  BY <1>1, <1>2, <1>3, ObjectFound
<1> HIDE DEF s
<1>5. CheckedAdd(Len(s), 1) = {Len(s) + 1} /\ CheckedAdd(o, NodeSize) = {o + NodeSize}
  BY <1>1, <1>3 DEF CheckedAdd
<1>6. Data(o + NodeSize, DataOffset, Len(s) + 1) = {o + DataOffset + NodeSize}
  <2>1. CheckedAdd(o + NodeSize, DataOffset) = {o + DataOffset + NodeSize}
    BY <1>1, <1>3 DEF CheckedAdd
  <2>2. CheckSize(o + DataOffset + NodeSize, Len(s) + 1)
    BY <1>1, <1>3 DEF CheckSize, CheckedAdd
  <2> QED
    BY <2>1, <2>2 DEF Data
<1>7. UntilNul(o + DataOffset + NodeSize, Len(s) + 1) = {s}
  BY <1>1, <1>2, TextRead
<1>8. TrieNodeName(o, Len(s)) = {s}
  BY <1>5, <1>6, <1>7 DEF TrieNodeName
<1> QED
  <2>1. [at |-> o + DataOffset + NodeSize, len |-> Len(s) + 1, str |-> s].str = s
    OBVIOUS
  <2>2. TrieNodeName(o, Len(s)) # None /\ \A t \in TrieNodeName(o, Len(s)) : t = s
    BY <1>8, <2>1 DEF None
  <2> QED
    BY <1>2, <1>4, <2>2 DEF s

(* The order of segments is one. *)
LEMMA LessOnce ==
  ASSUME NEW s \in Seq(Nat), NEW t \in Seq(Nat), Less(s, t)
  PROVE  s # t /\ ~ Less(t, s)
<1>1. Len(s) \in Nat /\ Len(t) \in Nat /\ DOMAIN s = 1 .. Len(s) /\ DOMAIN t = 1 .. Len(t)
      /\ (\A i \in DOMAIN s : s[i] \in Nat) /\ (\A i \in DOMAIN t : t[i] \in Nat)
  BY LenProperties, ElementOfSeq
<1>2. CASE Len(s) < Len(t)
  <2>1. Len(s) \in Nat /\ Len(t) \in Nat
    BY <1>1
  <2>2. ~ (Len(t) < Len(s)) /\ Len(t) # Len(s)
    BY <1>2, <2>1
  <2> QED
    BY <2>2 DEF Less
<1>3. CASE Len(s) = Len(t)
  <2>1. PICK i \in DOMAIN s : s[i] < t[i] /\ \A j \in 1 .. i - 1 : s[j] = t[j]
    BY <1>1, <1>3 DEF Less
  <2>2. ASSUME Less(t, s) PROVE FALSE
    <3>1. PICK h \in DOMAIN t : t[h] < s[h] /\ \A j \in 1 .. h - 1 : t[j] = s[j]
      BY <1>1, <1>3, <2>2 DEF Less
    <3>2. i \in 1 .. h - 1 \/ h \in 1 .. i - 1 \/ h = i
      BY <1>1
    <3> QED
      BY <1>1, <1>3, <2>1, <3>1, <3>2
  <2> QED
    BY <1>1, <2>1, <2>2
<1> QED
  BY <1>1, <1>2, <1>3 DEF Less

(* The value a read takes out of the entry at offset p. *)
Found(p, e) == IF IsLong(WordAt(e)) /\ LongPropertyValue(p, e) = None THEN None
               ELSE Value(e, LongPropertyValue(p, e))

LEMMA EntryFound ==
  ASSUME TypeOK, NEW p \in Nat, p # 0, NEW n \in Names, SoundEntry(p, n)
  PROVE  /\ ToObject(p, InfoSize) = {p + DataOffset} /\ Found(p, p + DataOffset) # None
         /\ \A v \in Found(p, p + DataOffset) :
              /\ Written[n] = {Bytes(v[1], v[2])}
              /\ \A i \in DOMAIN Bytes(v[1], v[2]) : Bytes(v[1], v[2])[i] \notin NonUtf8
<1> DEFINE e == p + DataOffset
           r == WordAt(e + LongField)
<1>1. /\ e % Word = 0 /\ e + InfoSize <= Size /\ ~ Dirty(WordAt(e))
      /\ \E v \in Written[n] :
           /\ Written[n] = {v} /\ \A i \in DOMAIN v : v[i] \notin NonUtf8
           /\ \/ ~IsLong(WordAt(e)) /\ Len(v) < ValueMax /\ Text(e + Word, v)
              \/ /\ IsLong(WordAt(e)) /\ Text(e + r, v)
                 /\ \E len \in 0 .. Size :
                      /\ Text(e + InfoSize, Bytes(e + InfoSize, len))
                      /\ r >= AlignUp(InfoSize + len + 1)
  BY DEF SoundEntry
<1>2. PICK v \in Written[n] :
        /\ Written[n] = {v} /\ \A i \in DOMAIN v : v[i] \notin NonUtf8
        /\ \/ ~IsLong(WordAt(e)) /\ Len(v) < ValueMax /\ Text(e + Word, v)
           \/ /\ IsLong(WordAt(e)) /\ Text(e + r, v)
              /\ \E len \in 0 .. Size :
                   /\ Text(e + InfoSize, Bytes(e + InfoSize, len))
                   /\ r >= AlignUp(InfoSize + len + 1)
  BY <1>1
<1>3. /\ e \in Nat /\ e = p + 2 /\ InfoSize = 2 + ValueMax /\ ValueMax \in Nat /\ Word = 2 /\ DataOffset = 2
      /\ v \in Seq(Nat) /\ Len(v) \in Nat /\ r \in Nat /\ Size \in Nat /\ Size <= MaxUsize /\ MaxUsize \in Nat
  BY ImageAssumption, Layout, WordType DEF TypeOK
<1>4. ToObject(p, InfoSize) = {e}
  BY <1>1, <1>3, ObjectFound
<1> HIDE DEF r, e
<1>5. CASE ~IsLong(WordAt(e)) /\ Len(v) < ValueMax /\ Text(e + Word, v)
  <2>1. UntilNul(e + Word, ValueMax) = {v} /\ Bytes(e + Word, Len(v)) = v
    <3>1. e + Word \in Nat
      BY <1>3
    <3> QED
      BY <1>3, <1>5, <3>1, TextRead
  <2>2. Found(p, e) = {<<e + Word, Len(v)>>}
    <3>1. UntilNul(e + Word, ValueMax) # None /\ (CHOOSE s \in UntilNul(e + Word, ValueMax) : TRUE) = v
      BY <2>1 DEF None
    <3> QED
      BY <1>1, <1>5, <3>1 DEF Found, Value
  <2> QED
    <3>1. \A x \in Found(p, e) : Bytes(x[1], x[2]) = v
      BY <2>1, <2>2
    <3>2. Found(p, e) # None
      BY <2>2 DEF None
    <3>3. e = p + DataOffset
      BY DEF e
    <3> HIDE DEF e
    <3> QED
      BY <1>2, <1>4, <3>1, <3>2, <3>3
<1>6. CASE /\ IsLong(WordAt(e)) /\ Text(e + r, v)
           /\ \E len \in 0 .. Size :
                /\ Text(e + InfoSize, Bytes(e + InfoSize, len))
                /\ r >= AlignUp(InfoSize + len + 1)
  <2>1. PICK len \in 0 .. Size : /\ Text(e + InfoSize, Bytes(e + InfoSize, len))
                                 /\ r >= AlignUp(InfoSize + len + 1)
    BY <1>6
  <2> DEFINE nm == Bytes(e + InfoSize, len)
  <2>2. nm \in Seq(0 .. Base - 1) /\ Len(nm) = len
    BY <1>3, BytesType
  <2>3. nm \in Seq(Nat)
    BY <1>3, <2>2, BytesType, Layout
  <2>4. CheckedAdd(p, InfoSize) = {p + InfoSize}
    BY <1>1, <1>3 DEF CheckedAdd
  <2>5. CStrAt(p + InfoSize) = {[at |-> p + InfoSize + DataOffset, str |-> nm]}
    <3>1. p + InfoSize \in Nat /\ (p + InfoSize) + DataOffset = e + InfoSize
      BY <1>3
    <3> QED
      BY <2>1, <2>3, <3>1, CStrFound
  <2>6. r >= MinRel(nm)
    BY <2>1, <2>2 DEF MinRel
  <2>7. CheckedAdd(p, r) = {p + r}
    BY <1>3, <1>6 DEF CheckedAdd, Text
  <2>8. CStrAt(p + r) = {[at |-> e + r, str |-> v]}
    <3>1. p + r \in Nat /\ (p + r) + DataOffset = e + r
      BY <1>3
    <3> QED
      BY <1>3, <1>6, <3>1, CStrFound
  <2>9. LongPropertyValue(p, e) = {[at |-> e + r, str |-> v]}
    <3> HIDE DEF nm
    <3>1. \E no \in CheckedAdd(p, InfoSize) : \E x \in CStrAt(no) : r >= MinRel(x.str)
      <4>1. [at |-> p + InfoSize + DataOffset, str |-> nm].str = nm
        OBVIOUS
      <4> QED
        BY <2>4, <2>5, <2>6, <4>1
    <3>2. {y \in {r} : \E no \in CheckedAdd(p, InfoSize) : \E x \in CStrAt(no) : y >= MinRel(x.str)} = {r}
      BY <3>1
    <3> QED
      BY <3>2, <2>7, <2>8 DEF LongPropertyValue, LongValueAt, r
  <2>10. Found(p, e) = {<<e + r, Len(v)>>}
    <3>1. LongPropertyValue(p, e) # None
      BY <2>9 DEF None
    <3>2. Value(e, LongPropertyValue(p, e)) = {<<l.at, Len(l.str)>> : l \in {[at |-> e + r, str |-> v]}}
      BY <1>1, <1>6, <2>9 DEF Value
    <3>3. {<<l.at, Len(l.str)>> : l \in {[at |-> e + r, str |-> v]}} = {<<e + r, Len(v)>>}
      OBVIOUS
    <3> QED
      BY <3>1, <3>2, <3>3 DEF Found
  <2>11. Bytes(e + r, Len(v)) = v
    <3>1. e + r \in Nat /\ Len(v) + 1 \in Nat /\ Len(v) < Len(v) + 1
      BY <1>3
    <3> QED
      BY <1>3, <1>6, <3>1, TextRead
  <2> QED
    <3>1. \A x \in Found(p, e) : Bytes(x[1], x[2]) = v
      BY <2>10, <2>11
    <3>2. Found(p, e) # None
      BY <2>10 DEF None
    <3>3. e = p + DataOffset
      BY DEF e
    <3> HIDE DEF e
    <3> QED
      BY <1>2, <1>4, <3>1, <3>2, <3>3
<1> QED
  BY <1>2, <1>5, <1>6

-----------------------------------------------------------------------------
(* A read of a sound file. *)

NodeAt(o) == ToObject(o, NodeSize) = {o + DataOffset}
LinkOf(o, f) == WordAt(o + DataOffset + Field[f])

(* The nodes of a walk, each behind the one before. *)
Upwards ==
  \A i \in DOMAIN seen : /\ seen[i] + NodeSize <= at
                         /\ \A j \in DOMAIN seen : i < j => seen[i] + NodeSize <= seen[j]

(* Where a read of a sound file can be: on the way to its entry. *)
OnWay ==
  /\ pc \notin {"refused", "invalid", "cycle", "utf8"}
  /\ pc = "ok" => Written[name] = {val}
  /\ pc = "notfound" => Written[name] = None
  /\ pc \in {"children", "bst", "prop", "value"} => name \in Names /\ k # 0
  /\ pc = "children" => NodeAt(cur) /\ Leads(LinkOf(cur, "children"), name, k)
  /\ pc = "bst" => at # 0 /\ Leads(at, name, k) /\ Upwards
  /\ pc = "prop" => NodeAt(cur) /\ SoundEntry(LinkOf(cur, "prop"), name)
  /\ pc = "value" => at # 0 /\ SoundEntry(at, name)

SoundInv == intact => SoundArea /\ OnWay

LEMMA MemKept ==
  ASSUME UNCHANGED mem
  PROVE  /\ Size' = Size /\ \A a : WordAt(a)' = WordAt(a)
         /\ \A o, n : ToObject(o, n)' = ToObject(o, n)
         /\ \A p, n : SoundEntry(p, n)' <=> SoundEntry(p, n)
         /\ SoundArea' <=> SoundArea
<1>1. Size' = Size /\ \A a : Byte(a)' = Byte(a)
  BY DEF Size, Byte
<1>2. \A a : WordAt(a)' = WordAt(a)
  BY <1>1 DEF WordAt
<1>3. \A a, n : Bytes(a, n)' = Bytes(a, n)
  BY <1>1 DEF Bytes
<1>4. \A a, s : Text(a, s)' <=> Text(a, s)
  BY <1>1 DEF Text
<1>5. \A o, n : ToObject(o, n)' = ToObject(o, n)
  BY <1>1 DEF ToObject, Data, CheckSize
<1>6. \A p, n : SoundEntry(p, n)' <=> SoundEntry(p, n)
  BY <1>1, <1>2, <1>3, <1>4 DEF SoundEntry
<1>7. \A o : SoundNode(o)' <=> SoundNode(o)
  BY <1>2, <1>4, <1>6 DEF SoundNode
<1>8. SoundArea' <=> SoundArea
  BY <1>1, <1>2, <1>7 DEF SoundArea
<1> QED
  BY <1>1, <1>2, <1>5, <1>6, <1>8

LEMMA OpenOnWay ==
  ASSUME ReadInv, SoundInv, Open
  PROVE  SoundInv'
<1> SUFFICES ASSUME intact PROVE SoundArea' /\ OnWay'
  BY DEF SoundInv, Open
<1>1. SoundArea /\ UNCHANGED mem /\ Size \in Nat
  BY Layout DEF SoundInv, Open, ReadInv, TypeOK
<1>2. WordAt(0) = Magic /\ Size >= DataOffset
  BY <1>1, Layout DEF SoundArea
<1>3. pc' = "idle"
  BY <1>1, <1>2, Layout DEF Open, Fails
<1> QED
  BY <1>1, <1>3, MemKept DEF OnWay

LEMMA CallOnWay ==
  ASSUME ReadInv, SoundInv, NEW n \in Names, Call(n)
  PROVE  SoundInv'
<1> SUFFICES ASSUME intact PROVE SoundArea' /\ OnWay'
  BY DEF SoundInv, Call
<1>1. SoundArea /\ UNCHANGED mem /\ Size \in Nat /\ TypeOK
  BY Layout DEF SoundInv, Call, ReadInv, TypeOK
<1>2. pc' = "children" /\ name' = n /\ k' = 1 /\ cur' = 0
  BY DEF Call
<1>3. NodeAt(0)
  <2>1. 0 + DataOffset = 2 /\ 2 % Word = 0 /\ NodeSize \in Nat
    BY Layout
  <2>2. 0 + DataOffset + NodeSize <= Size
    BY <1>1, Layout DEF SoundArea
  <2> QED
    BY <1>1, <2>1, <2>2, ObjectFound DEF NodeAt
<1>4. Leads(LinkOf(0, "children"), n, 1)
  <2>1. 0 + DataOffset = DataOffset
    BY Layout
  <2> QED
    BY <1>1, <2>1 DEF SoundArea, LinkOf
<1>5. NodeAt(cur)' /\ LinkOf(cur, "children")' = LinkOf(0, "children")
  BY <1>1, <1>2, <1>3, MemKept DEF NodeAt, LinkOf
<1>6. Leads(LinkOf(cur, "children"), name, k)'
  BY <1>2, <1>4, <1>5 DEF Leads
<1> QED
  BY <1>1, <1>2, <1>5, <1>6, MemKept DEF OnWay

LEMMA FindChildrenOnWay ==
  ASSUME ReadInv, SoundInv, FindChildren
  PROVE  SoundInv'
<1> SUFFICES ASSUME intact PROVE SoundArea' /\ OnWay'
  BY DEF SoundInv, FindChildren
<1>1. /\ SoundArea /\ OnWay /\ UNCHANGED mem /\ TypeOK /\ pc = "children"
      /\ name \in Names /\ k # 0 /\ NodeAt(cur) /\ Leads(LinkOf(cur, "children"), name, k)
  BY DEF SoundInv, FindChildren, ReadInv, OnWay
<1>2. /\ at' = LinkOf(cur, "children") /\ pc' = (IF at' = 0 THEN "notfound" ELSE "bst") /\ seen' = <<>>
      /\ UNCHANGED <<name, k, cur, src, val>>
  BY <1>1 DEF FindChildren, NodeAt, LinkOf, None
<1>3. CASE at' = 0
  BY <1>1, <1>2, <1>3, MemKept DEF OnWay, Leads
<1>4. CASE at' # 0
  <2>1. Leads(at, name, k)' /\ Upwards'
    BY <1>1, <1>2 DEF Leads, Upwards
  <2> QED
    BY <1>1, <1>2, <1>4, <2>1, MemKept DEF OnWay
<1> QED
  BY <1>3, <1>4

(* The walk on a sound file is never too long: its nodes do not overlap. *)
LEMMA NeverTooMany ==
  ASSUME ReadInv, Upwards, pc = "bst"
  PROVE  ~ TooMany
<1> SUFFICES ASSUME TooMany PROVE FALSE
  OBVIOUS
<1>1. TypeOK /\ SeenInside /\ PaDataSize >= 0
  BY DEF ReadInv, SeenInside
<1>2. PICK i, j \in DOMAIN seen : i # j /\ Overlap(seen[i], seen[j], NodeSize)
  BY <1>1, Crowded
<1>3. i \in Nat /\ j \in Nat /\ seen[i] \in Nat /\ seen[j] \in Nat /\ NodeSize = 10
  BY <1>1, Layout DEF TypeOK
<1>4. seen[i] + NodeSize <= seen[j] \/ seen[j] + NodeSize <= seen[i]
  BY <1>2, <1>3 DEF Upwards
<1> QED
  BY <1>2, <1>3, <1>4 DEF Overlap

LEMMA FindBstOnWay ==
  ASSUME ReadInv, SoundInv, FindBst
  PROVE  SoundInv'
<1> SUFFICES ASSUME intact PROVE SoundArea' /\ OnWay'
  BY DEF SoundInv, FindBst
<1>1. /\ SoundArea /\ UNCHANGED mem /\ TypeOK /\ pc = "bst" /\ name \in Names /\ k # 0
      /\ at # 0 /\ Leads(at, name, k) /\ Upwards
  BY DEF SoundInv, FindBst, ReadInv, OnWay
<1>2. at \in DOMAIN Trie /\ <<name, k>> \in Trie[at].by /\ SoundNode(at)
  BY <1>1 DEF Leads, SoundArea
<1> DEFINE s == Trie[at].seg
<1>3. NodeAt(at) /\ s \in Seq(Nat)
  BY <1>1, <1>2, NodeFound, ImageAssumption DEF NodeAt
<1>4. ~ TooMany
  BY <1>1, NeverTooMany
<1>5. /\ \A f \in {"left", "right"} : LinkOf(at, f) # 0 => LinkOf(at, f) >= at + NodeSize
      /\ \/ Less(name[k], s) /\ Leads(LinkOf(at, "left"), name, k)
         \/ Less(s, name[k]) /\ Leads(LinkOf(at, "right"), name, k)
         \/ s = name[k] /\ k < Len(name) /\ Leads(LinkOf(at, "children"), name, k + 1)
         \/ s = name[k] /\ k = Len(name) /\ SoundEntry(LinkOf(at, "prop"), name)
  BY <1>2 DEF SoundNode, LinkOf
<1>6. \/ /\ name[k] = s
         /\ pc' = IF k < Len(name) THEN "children" ELSE "prop"
         /\ k' = IF k < Len(name) THEN k + 1 ELSE k
         /\ cur' = at
         /\ UNCHANGED <<name, at, seen, src, val>>
      \/ /\ name[k] # s
         /\ at' = (IF Less(name[k], s) THEN LinkOf(at, "left") ELSE LinkOf(at, "right"))
         /\ pc' = IF at' = 0 THEN "notfound" ELSE "bst"
         /\ seen' = Append(seen, at)
         /\ UNCHANGED <<name, k, cur, src, val>>
  <2> DEFINE nm == TrieNodeName(at, WordAt(at + DataOffset + Field.namelen))
  <2>1. nm # None /\ \A t \in nm : t = s
    BY <1>1, <1>2, NodeFound
  <2>2. ToObject(at, NodeSize) = {at + DataOffset}
    BY <1>3 DEF NodeAt
  <2>3. \E t \in nm :
           \/ /\ name[k] = t
              /\ pc' = IF k < Len(name) THEN "children" ELSE "prop"
              /\ k' = IF k < Len(name) THEN k + 1 ELSE k
              /\ cur' = at
              /\ UNCHANGED <<name, at, seen, src, val>>
           \/ /\ name[k] # t
              /\ at' = WordAt(at + DataOffset + IF Less(name[k], t) THEN Field.left ELSE Field.right)
              /\ pc' = IF at' = 0 THEN "notfound" ELSE "bst"
              /\ seen' = Visit(at)
              /\ UNCHANGED <<name, k, cur, src, val>>
    BY <1>4, <2>1, <2>2 DEF FindBst, None
  <2> HIDE DEF nm, s
  <2> QED
    BY <2>1, <2>3 DEF LinkOf, Visit
<1>7. name[k] \in Seq(Nat) /\ Len(name) \in Nat /\ k \in 1 .. Len(name)
  <2>1. k \in 0 .. Len(name) /\ name \in Seq(Seq(Nat))
    BY <1>1, LayoutAssumption DEF TypeOK
  <2> QED
    BY <1>1, <2>1, ElementOfSeq
<1> HIDE DEF s
<1>8. CASE name[k] = s
  <2>1. ~ Less(name[k], s) /\ ~ Less(s, name[k])
    BY <1>3, <1>7, <1>8, LessOnce
  <2>2. CASE k < Len(name)
    <3>1. Leads(LinkOf(at, "children"), name, k + 1) /\ pc' = "children" /\ k' = k + 1 /\ cur' = at
          /\ UNCHANGED name /\ k' # 0
      BY <1>5, <1>6, <1>7, <1>8, <2>1, <2>2
    <3>2. NodeAt(cur)' /\ LinkOf(cur, "children")' = LinkOf(at, "children")
      BY <1>1, <1>3, <3>1, MemKept DEF NodeAt, LinkOf
    <3>3. Leads(LinkOf(cur, "children"), name, k)'
      BY <3>1, <3>2 DEF Leads
    <3> QED
      BY <1>1, <3>1, <3>2, <3>3, MemKept DEF OnWay
  <2>3. CASE ~ (k < Len(name))
    <3>1. SoundEntry(LinkOf(at, "prop"), name) /\ pc' = "prop" /\ cur' = at /\ k' = k /\ UNCHANGED name
      BY <1>5, <1>6, <1>7, <1>8, <2>1, <2>3
    <3>2. NodeAt(cur)' /\ LinkOf(cur, "prop")' = LinkOf(at, "prop")
      BY <1>1, <1>3, <3>1, MemKept DEF NodeAt, LinkOf
    <3>3. SoundEntry(LinkOf(cur, "prop"), name)'
      BY <1>1, <3>1, <3>2, MemKept
    <3> QED
      BY <1>1, <3>1, <3>2, <3>3, MemKept DEF OnWay
  <2> QED
    BY <2>2, <2>3
<1>9. CASE name[k] # s
  <2>1. PICK f \in {"left", "right"} : at' = LinkOf(at, f) /\ Leads(at', name, k)
    <3>1. CASE Less(name[k], s)
      BY <1>3, <1>5, <1>6, <1>7, <1>9, <3>1, LessOnce
    <3>2. CASE ~ Less(name[k], s)
      BY <1>5, <1>6, <1>9, <3>2
    <3> QED
      BY <3>1, <3>2
  <2>2. /\ pc' = (IF at' = 0 THEN "notfound" ELSE "bst") /\ seen' = Append(seen, at)
        /\ UNCHANGED <<name, k, cur, src, val>>
    BY <1>6, <1>9
  <2>3. CASE at' = 0
    BY <1>1, <2>1, <2>2, <2>3, MemKept DEF OnWay, Leads
  <2>4. CASE at' # 0
    <3>1. at' >= at + NodeSize /\ at' \in Nat /\ at \in Nat /\ NodeSize = 10
      <4>1. at' \in 0 .. MaxUsize /\ at \in 0 .. MaxUsize
        BY <1>1, <2>1, WordType DEF LinkOf, TypeOK
      <4> QED
        BY <1>5, <2>1, <2>4, <4>1, Layout
    <3>2. seen \in Seq(Nat) /\ Len(seen) \in Nat /\ DOMAIN seen = 1 .. Len(seen)
      BY <1>1, Layout DEF TypeOK
    <3>3. /\ DOMAIN seen' = 1 .. Len(seen) + 1 /\ seen'[Len(seen) + 1] = at
          /\ \A i \in 1 .. Len(seen) : seen'[i] = seen[i] /\ seen[i] \in Nat
      BY <2>2, <3>1, <3>2, AppendProperties
    <3>4. Upwards'
      <4>1. ASSUME NEW i \in DOMAIN seen'
            PROVE  /\ seen'[i] + NodeSize <= at'
                   /\ \A j \in DOMAIN seen' : i < j => seen'[i] + NodeSize <= seen'[j]
        <5>1. \A h \in 1 .. Len(seen) : /\ seen[h] + NodeSize <= at
                                        /\ \A j \in 1 .. Len(seen) : h < j => seen[h] + NodeSize <= seen[j]
          BY <1>1, <3>2 DEF Upwards
        <5>2. CASE i = Len(seen) + 1
          BY <3>1, <3>2, <3>3, <5>2
        <5>3. CASE i \in 1 .. Len(seen)
          <6>1. seen'[i] = seen[i] /\ seen[i] + NodeSize <= at /\ seen[i] \in Nat
            BY <3>3, <5>1, <5>3
          <6>2. ASSUME NEW j \in DOMAIN seen', i < j PROVE seen[i] + NodeSize <= seen'[j]
            <7>1. j \in 1 .. Len(seen) \/ j = Len(seen) + 1
              BY <3>2, <3>3
            <7> QED
              BY <3>3, <5>1, <5>3, <6>1, <6>2, <7>1
          <6> QED
            BY <3>1, <6>1, <6>2
        <5> QED
          BY <3>2, <3>3, <5>2, <5>3
      <4> QED
        BY <4>1 DEF Upwards
    <3>5. Leads(at, name, k)'
      BY <2>1, <2>2 DEF Leads
    <3> QED
      BY <1>1, <2>2, <2>4, <3>4, <3>5, MemKept DEF OnWay
  <2> QED
    BY <2>3, <2>4
<1> QED
  BY <1>8, <1>9

LEMMA FindPropOnWay ==
  ASSUME ReadInv, SoundInv, FindProp
  PROVE  SoundInv'
<1> SUFFICES ASSUME intact PROVE SoundArea' /\ OnWay'
  BY DEF SoundInv, FindProp
<1>1. /\ SoundArea /\ UNCHANGED mem /\ TypeOK /\ pc = "prop" /\ name \in Names /\ k # 0
      /\ NodeAt(cur) /\ SoundEntry(LinkOf(cur, "prop"), name)
  BY DEF SoundInv, FindProp, ReadInv, OnWay
<1> DEFINE p == LinkOf(cur, "prop")
<1>2. p \in Nat
  BY <1>1, WordType, Layout DEF LinkOf
<1>3. p # 0 => ToObject(p, InfoSize) # None
  BY <1>1, <1>2, EntryFound DEF None
<1>4. ToObject(cur, NodeSize) = {cur + DataOffset} /\ WordAt(cur + DataOffset + Field.prop) = p
  BY <1>1 DEF NodeAt, LinkOf
<1> HIDE DEF p
<1>5. \/ p = 0 /\ Fails("notfound")
      \/ p # 0 /\ at' = p /\ pc' = "value" /\ UNCHANGED <<name, k, cur, seen, src, val>>
  BY <1>3, <1>4 DEF FindProp, None
<1>6. CASE p = 0 /\ Fails("notfound")
  <2>1. Written[name] = None
    BY <1>1, <1>6 DEF SoundEntry, p
  <2> QED
    BY <1>1, <1>6, <2>1, MemKept DEF OnWay, Fails
<1>7. CASE p # 0 /\ at' = p /\ pc' = "value" /\ UNCHANGED <<name, k, cur, seen, src, val>>
  <2>1. SoundEntry(at, name)'
    BY <1>1, <1>7, MemKept DEF p
  <2> QED
    BY <1>1, <1>7, <2>1, MemKept DEF OnWay
<1> QED
  BY <1>5, <1>6, <1>7

LEMMA ReadValueOnWay ==
  ASSUME ReadInv, SoundInv, ReadValue
  PROVE  SoundInv'
<1> SUFFICES ASSUME intact PROVE SoundArea' /\ OnWay'
  BY DEF SoundInv, ReadValue
<1>1. /\ SoundArea /\ UNCHANGED mem /\ TypeOK /\ pc = "value" /\ name \in Names
      /\ at # 0 /\ at \in Nat /\ SoundEntry(at, name)
  BY Layout DEF SoundInv, ReadValue, ReadInv, OnWay, TypeOK
<1>2. /\ ToObject(at, InfoSize) = {at + DataOffset} /\ Found(at, at + DataOffset) # None
      /\ \A v \in Found(at, at + DataOffset) :
           /\ Written[name] = {Bytes(v[1], v[2])}
           /\ \A i \in DOMAIN Bytes(v[1], v[2]) : Bytes(v[1], v[2])[i] \notin NonUtf8
  BY <1>1, EntryFound
<1>3. \E v \in Found(at, at + DataOffset) :
        /\ val' = Bytes(v[1], v[2]) /\ UNCHANGED <<name, k, cur, at, seen>>
        /\ pc' = IF \E i \in DOMAIN val' : val'[i] \in NonUtf8 THEN "utf8" ELSE "ok"
  BY <1>2 DEF ReadValue, Found
<1>4. pc' = "ok" /\ Written[name] = {val'} /\ UNCHANGED name
  BY <1>2, <1>3
<1> QED
  BY <1>1, <1>4, MemKept DEF OnWay

LEMMA SoundStep == ReadInv /\ SoundInv /\ [Next]_vars => SoundInv'
<1> SUFFICES ASSUME ReadInv, SoundInv, [Next]_vars PROVE SoundInv'
  OBVIOUS
<1>1. CASE UNCHANGED vars
  <2>1. UNCHANGED <<mem, intact, pc, name, k, cur, at, seen, val>>
    BY <1>1 DEF vars
  <2>2. (NodeAt(cur)' <=> NodeAt(cur)) /\ LinkOf(cur, "children")' = LinkOf(cur, "children")
        /\ LinkOf(cur, "prop")' = LinkOf(cur, "prop") /\ (Upwards' <=> Upwards)
    BY <2>1, MemKept DEF NodeAt, LinkOf, Upwards
  <2>3. SoundEntry(LinkOf(cur, "prop"), name)' <=> SoundEntry(LinkOf(cur, "prop"), name)
    BY <2>1, <2>2, MemKept
  <2>4. SoundEntry(at, name)' <=> SoundEntry(at, name)
    BY <2>1, MemKept
  <2>5. OnWay' <=> OnWay
    BY <2>1, <2>2, <2>3, <2>4 DEF OnWay, Leads
  <2> QED
    BY <2>1, <2>5, MemKept DEF SoundInv
<1> QED
  BY <1>1, OpenOnWay, CallOnWay, FindChildrenOnWay, FindBstOnWay, FindPropOnWay, ReadValueOnWay
  DEF Next, Step

(* Every sound file, whatever its trie, names and values: a read of it is    *)
(* never refused or given up, by no check of MemoryMap, by no bound on the   *)
(* walk, and gives the value that was written, or says that there is none.   *)
THEOREM SoundFilesRead == Spec /\ (intact => SoundArea) => []NoFalseAlarm
<1>1. Init /\ (intact => SoundArea) => SoundInv
  BY DEF Init, SoundInv, OnWay
<1>2. SoundInv => NoFalseAlarm
  BY DEF SoundInv, OnWay, NoFalseAlarm
<1> QED
  BY <1>1, <1>2, SoundStep, ReadsStayInside, PTL DEF Spec

(* Whatever bytes a file has, its links in loops included, each step of a    *)
(* read moves on in an order that has an end (find_prop_trie_node's bound).  *)
THEOREM ReadsProgress == Spec => ReadProgress
<1> DEFINE Onward == Walking /\ Walking' =>
                       /\ name' = name
                       /\ \/ k' = k + 1 /\ k' <= Len(name)
                          \/ k' = k /\ Stage[pc'] > Stage[pc]
                          \/ /\ k' = k /\ pc' = pc
                             /\ Len(seen') = Len(seen) + 1 /\ Len(seen') <= MaxSteps + 1
<1>1. ASSUME ReadInv, ReadInv', Next PROVE Onward
  <2> SUFFICES ASSUME Walking, Walking' PROVE Onward
    OBVIOUS
  <2>1. ~ Open /\ \A n \in Names : ~ Call(n)
    BY DEF Open, Call, Walking, Stage, Returned
  <2>2. CASE FindChildren
    BY <2>2 DEF FindChildren, Fails, Walking, Stage
  <2>3. CASE FindBst
    <3>1. pc = "bst" /\ UNCHANGED <<mem, name>> /\ TypeOK
      BY <1>1, <2>3 DEF FindBst, Fails, ReadInv
    <3>2. Len(name) \in Nat /\ k \in Nat
      BY <3>1, NameFacts DEF TypeOK
    <3>3. \/ /\ pc' = (IF k < Len(name) THEN "children" ELSE "prop")
             /\ k' = (IF k < Len(name) THEN k + 1 ELSE k)
          \/ pc' = "bst" /\ k' = k /\ seen' = Append(seen, at)
      BY <2>3 DEF FindBst, Fails, Visit, Walking, Stage
    <3>4. CASE pc' = "bst" /\ k' = k /\ seen' = Append(seen, at)
      <4>1. Len(seen') = Len(seen) + 1
        BY <3>1, <3>4, AppendProperties DEF TypeOK
      <4>2. Len(seen') <= MaxSteps + 1
        BY <1>1, <3>1 DEF ReadInv, TypeOK, MaxSteps, PaDataSize, Size
      <4> QED
        BY <3>1, <3>4, <4>1, <4>2
    <3> QED
      BY <3>1, <3>2, <3>3, <3>4 DEF Stage
  <2>4. CASE FindProp
    BY <2>4 DEF FindProp, Fails, Walking, Stage
  <2>5. CASE ReadValue
    BY <2>5 DEF ReadValue, Fails, Walking, Stage
  <2> QED
    BY <1>1, <2>1, <2>2, <2>3, <2>4, <2>5 DEF Next, Step
<1>2. ReadInv /\ ReadInv' /\ [Next]_vars => [Onward]_vars
  BY <1>1
<1> QED
  BY <1>2, ReadsStayInside, PTL DEF Spec, ReadProgress
=============================================================================
