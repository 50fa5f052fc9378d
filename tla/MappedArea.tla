----------------------------- MODULE MappedArea -----------------------------
(***************************************************************************)
(* A read of one property from an area file that may be damaged: words     *)
(* overwritten, or the file cut short.  Every offset in the file is        *)
(* untrusted; MemoryMap (property_area.rs) checks each one against the     *)
(* mapping before it is followed.  Arithmetic is that of a usize which     *)
(* ends at MaxUsize.                                                       *)
(*                                                                         *)
(* The layout is the code's with shorter fields: a word is two bytes, low  *)
(* byte first, and the sizes of the structs follow from their fields.      *)
(* PropertyArea has a file nobody damages and a writer at work on it.      *)
(***************************************************************************)
EXTENDS Integers, Sequences, FiniteSets

CONSTANTS Image,       \* the file as its writer left it: a sequence of bytes
          Files,       \* the files that are mapped
          Magic,       \* the header word of a property area
          Base,        \* values of a byte
          ValueMax,    \* PROP_VALUE_MAX
          NonUtf8,     \* bytes that no UTF-8 text has
          Names,       \* names that are read, as sequences of segments
          Written,     \* Written[n]: the value of n in the image, an Option
          Trie         \* Trie[o]: the node at offset o of the image, its segment and the
                       \* searches that come by it, as <<name, index of its segment>>

Word       == 2
MaxUsize   == Base * Base - 1
DataOffset == Word                          \* size_of PropertyArea
NodeSize   == 5 * Word                      \* namelen, prop, left, right, children
InfoSize   == Word + ValueMax               \* serial, and the value or the long offset
LongField  == InfoSize - Word               \* of the long offset in its entry
Field      == [namelen |-> 0, prop |-> 2, left |-> 4, right |-> 6, children |-> 8]
None       == {}                            \* an Option is the empty set or a singleton

ASSUME LayoutAssumption ==
  /\ Base \in Nat /\ Base > 1
  /\ Files \subseteq Seq(0 .. Base - 1) /\ \A f \in Files : Len(f) <= MaxUsize
  /\ ValueMax \in Nat /\ ValueMax % Word = 0 /\ ValueMax > Word
  /\ Names \subseteq Seq(Seq(Nat)) /\ <<>> \notin Names

ASSUME ImageAssumption ==
  /\ DOMAIN Trie \subseteq Nat /\ \A o \in DOMAIN Trie : Trie[o].seg \in Seq(Nat)
  /\ \A n \in Names : \A v \in Written[n] : v \in Seq(Nat)

VARIABLES mem, intact,   \* the mapping, from address 0 on, and whether it is as written
          pc, name, k,   \* the read, its name and the segment it is at
          cur, at,       \* the trie node found last, the node the walk is at
          seen,          \* the nodes of this walk
          acc,           \* the memory the last step touched: <<address, length, alignment>>
          src, val       \* where the value was read from, and its bytes

vars == <<mem, intact, pc, name, k, cur, at, seen, acc, src, val>>

Size == Cardinality(DOMAIN mem)

-----------------------------------------------------------------------------
(* MemoryMap. *)

(* Mutant: the sum wraps, as in a release build. *)
CheckedAddWraps(a, b) == {(a + b) % (MaxUsize + 1)}

CheckedAdd(a, b) == {s \in {a + b} : s <= MaxUsize}

CheckSize(a, n) == \E end \in CheckedAdd(a, n) : end <= Size

(* The mapping starts on a page. *)
CheckAlignment(a) == a % Word = 0

Data(o, base, n) == {a \in CheckedAdd(o, base) : CheckSize(a, n)}

ToObject(o, n) == {a \in Data(o, DataOffset, n) : CheckAlignment(a)}

(* Memory behind the mapping is not the file's; 0 stands for what is there. *)
Byte(a)     == IF a \in DOMAIN mem THEN mem[a] ELSE 0
WordAt(a)   == Byte(a) + Base * Byte(a + 1)
Bytes(a, n) == [i \in 1 .. n |-> Byte(a + i - 1)]

(* The string at a whose NUL is one of the n bytes there. *)
UntilNul(a, n) ==
  {Bytes(a, i) : i \in {j \in 0 .. n - 1 : Byte(a + j) = 0 /\ \A h \in 0 .. j - 1 : Byte(a + h) # 0}}

CStrAt(o) ==
  LET start == {a \in CheckedAdd(o, DataOffset) : a <= Size}
  IN  {[at |-> a, str |-> s] : a \in start, s \in UNION {UntilNul(b, Size - b) : b \in start}}

(* An access to n bytes at a: of an object, of bytes. *)
Touch(a, n) == <<a, n, Word>>
Scan(a, n)  == <<a, n, 1>>

(* The bytes searched for the NUL of the string at o: all that are left. *)
CStrScan(o) == {Scan(a, Size - a) : a \in {b \in CheckedAdd(o, DataOffset) : b <= Size}}

(* bionic_align *)
AlignUp(n) == ((n + Word - 1) \div Word) * Word

-----------------------------------------------------------------------------
(* PropertyAreaMap. *)

PaDataSize == Size - DataOffset
MaxSteps   == PaDataSize \div NodeSize
Reserved   == AlignUp(ValueMax)

(* cmp_prop_name: the shorter first, then byte by byte. *)
Less(s, t) == \/ Len(s) < Len(t)
              \/ /\ Len(s) = Len(t)
                 /\ \E i \in DOMAIN s : s[i] < t[i] /\ \A j \in 1 .. i - 1 : s[j] = t[j]

(* The name behind the node at o, and the bytes read for it, NUL or not. *)
TrieNodeName(o, namelen) ==
  UNION {UNION {UntilNul(a, l) : a \in Data(p, DataOffset, l)} :
           p \in CheckedAdd(o, NodeSize), l \in CheckedAdd(namelen, 1)}

TrieNodeNameScan(o, namelen) ==
  UNION {{Scan(a, l) : a \in Data(p, DataOffset, l)} :
           p \in CheckedAdd(o, NodeSize), l \in CheckedAdd(namelen, 1)}

Dirty(serial)  == serial % 2 = 1
IsLong(serial) == (serial \div 2) % 2 = 1
LenOf(serial)  == serial \div 32

(* Mutant: only the header of the entry is kept clear, not its name. *)
MinRelHeader(str) == InfoSize

(* Mutant: off by one, room for two NULs. *)
MinRelTwoNuls(str) == AlignUp(InfoSize + Len(str) + 2)

(* The first place behind an entry with that name. *)
MinRel(str) == AlignUp(InfoSize + Len(str) + 1)

(* The out-of-line value of the entry at offset o and address a: where it    *)
(* lies, behind the entry and its name, and what it says.                    *)
LongValueAt(o, a) ==
  UNION {CheckedAdd(o, rel) :
    rel \in {r \in {WordAt(a + LongField)} :
               \E no \in CheckedAdd(o, InfoSize) : \E nm \in CStrAt(no) : r >= MinRel(nm.str)}}

LongPropertyValue(o, a) == UNION {CStrAt(p) : p \in LongValueAt(o, a)}

(* The searches for the NUL of its name and of its value. *)
LongScan(o, a) ==
  IF IsLong(WordAt(a)) THEN UNION {CStrScan(p) : p \in CheckedAdd(o, InfoSize) \cup LongValueAt(o, a)}
  ELSE {}

-----------------------------------------------------------------------------
Mapped(file) == mem = [i \in 0 .. Len(file) - 1 |-> file[i + 1]] /\ intact = (file = Image)

Init ==
  /\ \E file \in Files : Mapped(file)
  /\ pc = "open" /\ name = <<>> /\ k = 0 /\ cur = 0 /\ at = 0 /\ seen = <<>>
  /\ acc = {} /\ src = <<0, 0>> /\ val = <<>>

Fails(res) == pc' = res /\ UNCHANGED <<name, k, cur, at, seen, src, val>>

(* new_ro: a file with room for the header, and the header is right. *)
Open ==
  /\ pc = "open"
  /\ \/ /\ Size < DataOffset
        /\ Fails("refused") /\ acc' = {}
     \/ /\ Size >= DataOffset
        /\ Fails(IF WordAt(0) = Magic THEN "idle" ELSE "refused")
        /\ acc' = {Touch(0, DataOffset)}
  /\ UNCHANGED <<mem, intact>>

Returned == {"idle", "ok", "notfound", "invalid", "cycle", "utf8"}

(* find. *)
Call(n) ==
  /\ pc \in Returned
  /\ pc' = "children" /\ name' = n /\ k' = 1 /\ cur' = 0 /\ at' = 0 /\ seen' = <<>>
  /\ acc' = {} /\ src' = <<0, 0>> /\ val' = <<>>
  /\ UNCHANGED <<mem, intact>>

FindChildren ==
  /\ pc = "children"
  /\ \/ /\ ToObject(cur, NodeSize) = None
        /\ Fails("invalid") /\ acc' = {}
     \/ \E a \in ToObject(cur, NodeSize) :
          /\ acc' = {Touch(a, NodeSize)}
          /\ at' = WordAt(a + Field.children)
          /\ pc' = IF at' = 0 THEN "notfound" ELSE "bst"
          /\ seen' = <<>>
          /\ UNCHANGED <<name, k, cur, src, val>>
  /\ UNCHANGED <<mem, intact>>

(* The walk has seen more nodes than the area has room for. *)
TooMany == Len(seen) > MaxSteps

(* Mutant: only nodes that are new to the walk are counted. *)
VisitNew(o) == IF \E i \in DOMAIN seen : seen[i] = o THEN seen ELSE Append(seen, o)

(* Every node counts, one the walk comes back to as well. *)
Visit(o) == Append(seen, o)

(* One step of find_prop_trie_node. *)
FindBst ==
  /\ pc = "bst"
  /\ \/ TooMany /\ Fails("cycle") /\ acc' = {}
     \/ /\ ~TooMany /\ ToObject(at, NodeSize) = None
        /\ Fails("invalid") /\ acc' = {}
     \/ /\ ~TooMany
        /\ \E a \in ToObject(at, NodeSize) :
             LET s  == name[k]
                 nm == TrieNodeName(at, WordAt(a + Field.namelen))
             IN  /\ acc' = {Touch(a, NodeSize)} \cup TrieNodeNameScan(at, WordAt(a + Field.namelen))
                 /\ \/ nm = None /\ Fails("invalid")
                    \/ \E t \in nm :
                         \/ /\ s = t
                            /\ pc' = IF k < Len(name) THEN "children" ELSE "prop"
                            /\ k' = IF k < Len(name) THEN k + 1 ELSE k
                            /\ cur' = at
                            /\ UNCHANGED <<name, at, seen, src, val>>
                         \/ /\ s # t
                            /\ at' = WordAt(a + IF Less(s, t) THEN Field.left ELSE Field.right)
                            /\ pc' = IF at' = 0 THEN "notfound" ELSE "bst"
                            /\ seen' = Visit(at)
                            /\ UNCHANGED <<name, k, cur, src, val>>
  /\ UNCHANGED <<mem, intact>>

(* The node's entry. *)
FindProp ==
  /\ pc = "prop"
  /\ \/ ToObject(cur, NodeSize) = None /\ Fails("invalid") /\ acc' = {}
     \/ \E a \in ToObject(cur, NodeSize) :
          LET p == WordAt(a + Field.prop) IN
            \/ p = 0 /\ Fails("notfound") /\ acc' = {Touch(a, NodeSize)}
            \/ /\ p # 0 /\ ToObject(p, InfoSize) = None
               /\ Fails("invalid") /\ acc' = {Touch(a, NodeSize)}
            \/ /\ p # 0
               /\ \E e \in ToObject(p, InfoSize) : acc' = {Touch(a, NodeSize), Touch(e, InfoSize)}
               /\ at' = p /\ pc' = "value"
               /\ UNCHANGED <<name, k, cur, seen, src, val>>
  /\ UNCHANGED <<mem, intact>>

Lower(a, b) == IF a < b THEN a ELSE b

BackupLen(serial) == Lower(LenOf(serial), ValueMax - 1)

(* The value of the entry at address e: the backup slot of a dirty one, the  *)
(* out-of-line bytes of a long one, else the slot.                           *)
Value(e, long) ==
  LET serial == WordAt(e) IN
    IF Dirty(serial)
    THEN IF BackupLen(serial) >= Reserved THEN None
         ELSE {<<a, BackupLen(serial)>> : a \in Data(NodeSize, DataOffset, BackupLen(serial))}
    ELSE IF IsLong(serial) THEN {<<l.at, Len(l.str)>> : l \in long}
    ELSE {<<e + Word, IF UntilNul(e + Word, ValueMax) = None THEN ValueMax
                      ELSE Len(CHOOSE s \in UntilNul(e + Word, ValueMax) : TRUE)>>}

(* read_with_callback, on a file nobody writes: the serials agree at once. *)
ReadValue ==
  /\ pc = "value"
  /\ \E e \in ToObject(at, InfoSize) :
       LET long  == LongPropertyValue(at, e)
           found == IF IsLong(WordAt(e)) /\ long = None THEN None ELSE Value(e, long)
       IN  \/ found = None /\ Fails("invalid") /\ acc' = {Touch(e, InfoSize)} \cup LongScan(at, e)
           \/ \E v \in found :
                /\ acc' = {Touch(e, InfoSize), Scan(v[1], v[2])} \cup LongScan(at, e)
                /\ src' = v /\ val' = Bytes(v[1], v[2])
                /\ pc' = IF \E i \in DOMAIN val' : val'[i] \in NonUtf8 THEN "utf8" ELSE "ok"
                /\ UNCHANGED <<name, k, cur, at, seen>>
  /\ UNCHANGED <<mem, intact>>

Step == FindChildren \/ FindBst \/ FindProp \/ ReadValue

Next == Open \/ (\E n \in Names : Call(n)) \/ Step

Spec == Init /\ [][Next]_vars

FairSpec == Spec /\ WF_vars(Step)

-----------------------------------------------------------------------------
(* Properties. *)

TypeOK ==
  /\ Size \in 0 .. MaxUsize /\ mem \in [0 .. Size - 1 -> 0 .. Base - 1] /\ intact \in BOOLEAN
  /\ pc \in Returned \cup {"open", "refused", "children", "bst", "prop", "value"}
  /\ name \in Names \cup {<<>>} /\ k \in 0 .. Len(name)
  /\ cur \in 0 .. MaxUsize /\ at \in 0 .. MaxUsize
  /\ seen \in Seq(0 .. MaxUsize) /\ Len(seen) <= MaxSteps + 1
  /\ src \in (0 .. MaxUsize) \X (0 .. MaxUsize) /\ val \in Seq(0 .. Base - 1) /\ Len(val) = src[2]

(* Whatever the file holds and wherever it was cut, no step touches a byte   *)
(* outside the mapping or an object off its alignment: the sums of offsets,  *)
(* base and sizes are checked for wrap-around as well as for the end         *)
(* (MemoryMap).                                                              *)
InBounds ==
  \A x \in acc : x[1] >= 0 /\ x[1] + x[2] <= Size /\ x[1] % x[3] = 0

(* A file that is read has its header, and the nodes of a walk lie behind it. *)
SeenInside ==
  /\ pc \notin {"open", "refused"} => PaDataSize >= 0
  /\ \A i \in DOMAIN seen : seen[i] + NodeSize <= PaDataSize

Overlap(o, q, n) == o < q + n /\ q < o + n

(* The bound that ends a walk over looping links never ends one over nodes   *)
(* that each have a place of their own, so it cannot reject a good file,     *)
(* however its tree leans (find_prop_trie_node).                             *)
CycleMeansDamage ==
  pc = "cycle" => \E i, j \in DOMAIN seen : i # j /\ Overlap(seen[i], seen[j], NodeSize)

(* A read stays inside the mapping, and gives up only on nodes that cannot   *)
(* all be nodes.                                                             *)
ReadInv == TypeOK /\ InBounds /\ SeenInside /\ CycleMeansDamage

(* The bytes a read returns are a value's: the entry's own slot, the backup  *)
(* slot and no more of it than a value has, or bytes behind the entry and    *)
(* its whole name, never the header or the name taken for the value          *)
(* (long_property_value, read_dirty_backup).                                 *)
ValueIsNotMetadata ==
  pc = "ok" =>
    LET e == at + DataOffset
        end == e + InfoSize + Len(CHOOSE s \in UntilNul(e + InfoSize, Size - e - InfoSize) : TRUE) + 1
        backup == DataOffset + NodeSize
    IN  \/ src[1] = e + Word /\ src[2] <= ValueMax
        \/ src[1] = backup /\ src[2] < ValueMax
        \/ IsLong(WordAt(e)) /\ src[1] >= end

(* The string s lies at address a with its NUL. *)
Text(a, s) ==
  /\ a + Len(s) < Size /\ Byte(a + Len(s)) = 0
  /\ \A i \in DOMAIN s : s[i] # 0 /\ Byte(a + i - 1) = s[i]

(* A search for n[k] goes on at the link, or ends there with nothing to find. *)
Leads(link, n, i) ==
  IF link = 0 THEN Written[n] = None
  ELSE link \in DOMAIN Trie /\ <<n, i>> \in Trie[link].by

(* The entry of n: its name, and its value in the slot or behind the name. *)
SoundEntry(p, n) ==
  IF p = 0 THEN Written[n] = None
  ELSE LET e == p + DataOffset IN
         /\ e % Word = 0 /\ e + InfoSize <= Size /\ ~Dirty(WordAt(e))
         /\ \E v \in Written[n] :
              /\ Written[n] = {v} /\ \A i \in DOMAIN v : v[i] \notin NonUtf8
              /\ \/ ~IsLong(WordAt(e)) /\ Len(v) < ValueMax /\ Text(e + Word, v)
                 \/ /\ IsLong(WordAt(e)) /\ Text(e + WordAt(e + LongField), v)
                    /\ \E len \in 0 .. Size :
                         /\ Text(e + InfoSize, Bytes(e + InfoSize, len))
                         /\ WordAt(e + LongField) >= AlignUp(InfoSize + len + 1)

(* A node with its segment; links lead to later places, as allocation goes up. *)
SoundNode(o) ==
  LET a == o + DataOffset
      s == Trie[o].seg
      Link(f) == WordAt(a + Field[f])
  IN  /\ a % Word = 0 /\ Link("namelen") = Len(s) /\ Text(a + NodeSize, s)
      /\ \A f \in {"left", "right"} : Link(f) # 0 => Link(f) >= o + NodeSize
      /\ \A x \in Trie[o].by :
           LET n == x[1]
               i == x[2]
           IN  \/ Less(n[i], s) /\ Leads(Link("left"), n, i)
               \/ Less(s, n[i]) /\ Leads(Link("right"), n, i)
               \/ s = n[i] /\ i < Len(n) /\ Leads(Link("children"), n, i + 1)
               \/ s = n[i] /\ i = Len(n) /\ SoundEntry(Link("prop"), n)

(* What add leaves behind (PropertyArea), in bytes. *)
SoundArea ==
  /\ DataOffset + NodeSize <= Size /\ WordAt(0) = Magic
  /\ \A n \in Names : Leads(WordAt(DataOffset + Field.children), n, 1)
  /\ \A o \in DOMAIN Trie : SoundNode(o)

(* A file as its writer left it is sound, and is never taken for a damaged   *)
(* one: every name has its value, or is reported missing.                    *)
NoFalseAlarm ==
  intact => /\ SoundArea
            /\ pc \notin {"refused", "invalid", "cycle", "utf8"}
            /\ pc = "ok" => Written[name] = {val}
            /\ pc = "notfound" => Written[name] = None

Stage   == [children |-> 0, bst |-> 1, prop |-> 2, value |-> 3]
Walking == pc \in DOMAIN Stage

(* Why every read ends (find, find_prop_trie_node): a step is about the next *)
(* segment, or a later stage of this one, or counts one node more, of which  *)
(* the bound admits only so many.                                            *)
ReadProgress ==
  [][Walking /\ Walking' =>
       /\ name' = name
       /\ \/ k' = k + 1 /\ k' <= Len(name)
          \/ k' = k /\ Stage[pc'] > Stage[pc]
          \/ /\ k' = k /\ pc' = pc
             /\ Len(seen') = Len(seen) + 1 /\ Len(seen') <= MaxSteps + 1]_vars

(* A read of any file comes to an end, loops in its links included. *)
ReadReturns == Walking ~> pc \in Returned
=============================================================================
