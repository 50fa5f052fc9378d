-------------------------- MODULE PropertyInfoArea --------------------------
(***************************************************************************)
(* The serialised property_info: the arena the trie is written to          *)
(* (trie_node_arena.rs, trie_serializer.rs) and the lookup every process   *)
(* makes in the mapped file (property_info_parser.rs).                     *)
(*                                                                         *)
(* The image is a partial function from byte offsets to the objects that   *)
(* start there.  Two names are told apart only by what a reader of the     *)
(* bytes sees: strings end at their first NUL, tables are searched by      *)
(* bisection, and a zero-length array has an offset but no bytes.          *)
(***************************************************************************)
EXTENDS PropertyInfoTrie, TLC

CONSTANTS Queries,      \* names that are looked up
          HashOrders,   \* orders in which a HashSet or HashMap may list its segments
          ArenaLimit,   \* largest offset of the format (u32::MAX)
          MaxTrieDepth  \* MAX_TRIE_DEPTH

NoIndex == -1           \* !0, the sentinel for "not set here"
RootName == <<114, 111, 111, 116>>
NoImage == [top |-> 0, mem |-> <<>>, ok |-> FALSE]

VARIABLE area           \* the image into_data returns, or NoImage

avars == <<tvars, area>>

-----------------------------------------------------------------------------
(* Strings. *)

Less(a, b) ==
  \E i \in 1 .. Len(b) : /\ \A j \in 1 .. i - 1 : j <= Len(a) /\ a[j] = b[j]
                         /\ i = Len(a) + 1 \/ (i <= Len(a) /\ a[i] < b[i])

(* What CStr::from_bytes_until_nul reads back. *)
CStr(s) == LET nuls == {i \in DOMAIN s : s[i] = NUL}
           IN  IF nuls = {} THEN s ELSE SubSeq(s, 1, (CHOOSE i \in nuls : \A j \in nuls : i <= j) - 1)

(* Bisection for s in the sorted sequence names: its index from 0, or NoIndex. *)
Find(names, s) ==
  LET search[lo \in 0 .. Len(names), hi \in 0 .. Len(names)] ==
        LET mid == lo + (hi - lo) \div 2
            at  == names[mid + 1]
        IN  IF lo >= hi THEN NoIndex
            ELSE IF at = s THEN mid
            ELSE IF Less(at, s) THEN search[mid + 1, hi]
            ELSE search[lo, mid]
  IN  search[0, Len(names)]

-----------------------------------------------------------------------------
(* The arena. *)

SizeOf(obj) ==
  CASE obj.kind = "header" -> 24
    [] obj.kind = "node"   -> 28
    [] obj.kind = "entry"  -> 16
    [] obj.kind = "u32"    -> 4
    [] obj.kind = "array"  -> 4 * Len(obj.elems)
    [] obj.kind = "string" -> Len(obj.str) + 1

(* Mutant: sizes are rounded to half a word. *)
AlignHalf(n) == ((n + 1) \div 2) * 2

Align(n) == ((n + 3) \div 4) * 4

(* allocate_data; the object is at a.top.  An image that outgrows the offsets *)
(* is given up: ok stays FALSE and new returns the error.                     *)
Allocate(a, obj) ==
  [top |-> a.top + Align(SizeOf(obj)),
   mem |-> IF SizeOf(obj) = 0 THEN a.mem ELSE (a.top :> obj) @@ a.mem,
   ok  |-> a.ok /\ a.top + Align(SizeOf(obj)) <= ArenaLimit]

AllocateAndWriteString(a, s) == Allocate(a, [kind |-> "string", str |-> s])
AllocateAndWriteUint32(a, v) == Allocate(a, [kind |-> "u32", value |-> v])

Store(a, off, obj) == [a EXCEPT !.mem = (off :> obj) @@ @]
StoreArray(a, off, elems) ==
  IF elems = <<>> THEN a ELSE Store(a, off, [kind |-> "array", elems |-> elems])
Zeros(n) == [kind |-> "array", elems |-> [i \in 1 .. n |-> 0]]

Elems(a, off, n) == IF n = 0 THEN <<>> ELSE a.mem[off].elems
StrAt(a, off)    == CStr(a.mem[off].str)
Header(a)        == a.mem[0]

-----------------------------------------------------------------------------
(* The serialiser. *)

(* A hash set lists its elements in an order of its own. *)
Listed(order, S) == SelectSeq(order, LAMBDA x : x \in S)

ByName(order, S) == SortSeq(Listed(order, S), Less)

(* Mutant: equal lengths stay in the order of the HashSet. *)
LongestFirstUntied(order, S) == SortSeq(Listed(order, S), LAMBDA a, b : Len(a) > Len(b))
(* Mutant: plain order of names, a prefix before what extends it. *)
LongestFirstByName(order, S) == SortSeq(Listed(order, S), Less)

LongestFirst(order, S) ==
  SortSeq(Listed(order, S), LAMBDA a, b : Len(a) > Len(b) \/ (Len(a) = Len(b) /\ Less(a, b)))

(* serialize_strings: count, offsets, strings, in the order of the BTreeSet. *)
SerializeStrings(a, S) ==
  LET sorted == SetToSortSeq(S, Less)
      a1 == AllocateAndWriteUint32(a, Len(sorted))
      a2 == Allocate(a1, Zeros(Len(sorted)))
      w  == FoldLeft(LAMBDA acc, s : [a    |-> AllocateAndWriteString(acc.a, s),
                                      offs |-> Append(acc.offs, acc.a.top)],
                     [a |-> a2, offs |-> <<>>], sorted)
  IN  StoreArray(w.a, a1.top, w.offs)

(* The table at off as its readers see it. *)
Table(a, off) == LET offs == Elems(a, off + 4, a.mem[off].value)
                 IN  [i \in DOMAIN offs |-> StrAt(a, offs[i])]

(* find_context_index, find_type_index. *)
FindStringIndex(a, table, s) == Find(Table(a, table), s)

(* resolve_index: an absent or empty string is not set here. *)
ResolveIndex(a, table, opt) ==
  IF opt \in {None, {Empty}} THEN NoIndex ELSE FindStringIndex(a, table, CHOOSE s \in opt : TRUE)

(* A name that is missing from its table ends the serialisation. *)
Resolved(opt, index) == index = NoIndex => opt \in {None, {Empty}}

WritePropertyEntry(a, name, ctx, type) ==
  LET ci == ResolveIndex(a, Header(a).contexts, ctx)
      ti == ResolveIndex(a, Header(a).types, type)
      a1 == Allocate(a, [kind |-> "entry"])
      a2 == AllocateAndWriteString(a1, name)
      a3 == Store(a2, a.top, [kind |-> "entry", name |-> a1.top, namelen |-> Len(name),
                              ctx |-> ci, type |-> ti])
  IN  [a3 EXCEPT !.ok = @ /\ Resolved(ctx, ci) /\ Resolved(type, ti)]

(* The entries of one node, in the given order, behind the array of their offsets. *)
WriteEntries(a, names, values) ==
  LET w == FoldLeft(LAMBDA acc, n :
                      [a    |-> WritePropertyEntry(acc.a, n, {values[n].ctx}, {values[n].type}),
                       offs |-> Append(acc.offs, acc.a.top)],
                    [a |-> Allocate(a, Zeros(Len(names))), offs |-> <<>>], names)
  IN  StoreArray(w.a, a.top, w.offs)

(* A node before its subtree, siblings in the order of their names. *)
Before(p, q) ==
  \E i \in 1 .. Len(q) : /\ \A j \in 1 .. i - 1 : j <= Len(p) /\ p[j] = q[j]
                         /\ i = Len(p) + 1 \/ (i <= Len(p) /\ Less(p[i], q[i]))

Children(p) == {q \in DOMAIN nodes : q # Empty /\ Front(q) = p}

(* write_trie_node: the node, its own entry, prefixes, exact matches and room *)
(* for the offsets of its children; at remembers where the nodes are.         *)
WriteTrieNode(acc, p, order) ==
  LET n  == nodes[p]
      a1 == Allocate(acc.a, [kind |-> "node"])
      a2 == WritePropertyEntry(a1, IF p = Empty THEN RootName ELSE Last(p), n.ctx, n.type)
      a3 == WriteEntries(a2, LongestFirst(order, DOMAIN n.prefixes), n.prefixes)
      a4 == WriteEntries(a3, ByName(order, DOMAIN n.exacts), n.exacts)
      a5 == Allocate(a4, Zeros(Cardinality(Children(p))))
      node == [kind |-> "node", entry |-> a1.top,
               nprefixes |-> Cardinality(DOMAIN n.prefixes), prefixes |-> a2.top,
               nexacts |-> Cardinality(DOMAIN n.exacts), exacts |-> a3.top,
               nchildren |-> Cardinality(Children(p)), children |-> a4.top]
  IN  [a  |-> [Store(a5, acc.a.top, node) EXCEPT !.ok = @ /\ Len(p) <= MaxTrieDepth],
       at |-> (p :> acc.a.top) @@ acc.at]

(* The offset arrays, once the subtrees are there. *)
LinkChildren(acc) ==
  FoldLeft(LAMBDA a, p : StoreArray(a, a.mem[acc.at[p]].children,
                                    LET sorted == SetToSortSeq(Children(p), Before)
                                    IN  [i \in DOMAIN sorted |-> acc.at[sorted[i]]]),
           acc.a, SetToSeq(DOMAIN nodes))

WriteTrie(a, order) ==
  LinkChildren(FoldLeft(LAMBDA acc, p : WriteTrieNode(acc, p, order),
                        [a |-> a, at |-> <<>>], SetToSortSeq(DOMAIN nodes, Before)))

(* TrieSerializer::new. *)
Image(order) ==
  LET a1 == Allocate([top |-> 0, mem |-> <<>>, ok |-> TRUE], [kind |-> "header"])
      h1 == [kind |-> "header", size |-> 0, contexts |-> a1.top, types |-> 0, root |-> 0]
      a2 == SerializeStrings(Store(a1, 0, h1), contexts)
      h2 == [h1 EXCEPT !.types = a2.top]
      a3 == SerializeStrings(Store(a2, 0, h2), types)
      a4 == WriteTrie(a3, order)
  IN  Store(a4, 0, [h2 EXCEPT !.root = a3.top, !.size = a4.top])

(* Serialize is also the serialisation of the same rules by another process. *)
Serialize(order) ==
  /\ (phase = "build" /\ next > Len(entries)) \/ phase = "built"
  /\ \E image \in {Image(order)} :
       \/ image.ok /\ phase' = "built" /\ area' = image
       \/ ~image.ok /\ phase' = "failed" /\ area' = NoImage
  /\ UNCHANGED <<entries, errors, next, nodes, contexts, types>>

-----------------------------------------------------------------------------
(* The lookup. *)

NameOf(a, entryOff) == StrAt(a, a.mem[entryOff].name)
(* An index that is not set leaves what the walk has so far. *)
Override(found, entry) == [ctx  |-> IF entry.ctx # NoIndex THEN entry.ctx ELSE found.ctx,
                           type |-> IF entry.type # NoIndex THEN entry.type ELSE found.type]

(* find_child_for_string: the child's offset, or NoIndex. *)
FindChild(a, node, s) ==
  LET offs == Elems(a, node.children, node.nchildren)
      at   == Find([i \in DOMAIN offs |-> NameOf(a, a.mem[offs[i]].entry)], s)
  IN  IF at = NoIndex THEN NoIndex ELSE offs[at + 1]

(* check_prefix_match: the first entry that fits decides, even if it sets *)
(* nothing.  An entry's name has no dot, so it can only reach as far as   *)
(* the first segment of what remains.                                     *)
CheckPrefixMatch(a, node, rest, found) ==
  LET offs == Elems(a, node.prefixes, node.nprefixes)
      Fits(i) == /\ a.mem[offs[i]].namelen <= Len(rest[1])
                 /\ NameOf(a, offs[i]) # Empty /\ IsPrefix(NameOf(a, offs[i]), rest[1])
      fits == {i \in DOMAIN offs : Fits(i)}
  IN  IF fits = {} THEN found
      ELSE Override(found, a.mem[offs[CHOOSE i \in fits : \A j \in fits : i <= j]])

(* The end of the walk: an exact match, else the prefixes once more. *)
Finish(a, node, rest, found) ==
  LET offs == Elems(a, node.exacts, node.nexacts)
      hits == {i \in DOMAIN offs : NameOf(a, offs[i]) # Empty /\ rest = <<NameOf(a, offs[i])>>}
  IN  IF hits # {} THEN Override(found, a.mem[offs[CHOOSE i \in hits : \A j \in hits : i <= j]])
      ELSE CheckPrefixMatch(a, node, rest, found)

(* What the node of a walk and its prefixes say of the rest of the name. *)
FoundHere(a, walk) ==
  LET node == a.mem[walk.off]
  IN  CheckPrefixMatch(a, node, walk.rest, Override(walk.found, a.mem[node.entry]))

(* One segment down, while there is a child of its name. *)
Descend(a, walk) ==
  LET child == IF Len(walk.rest) > 1 THEN FindChild(a, a.mem[walk.off], walk.rest[1]) ELSE NoIndex
  IN  IF child = NoIndex THEN walk
      ELSE [off |-> child, rest |-> Tail(walk.rest), found |-> FoundHere(a, walk)]

GetPropertyInfoIndexes(a, name) ==
  LET root == [off |-> Header(a).root, rest |-> name, found |-> [ctx |-> NoIndex, type |-> NoIndex]]
      last == FoldLeft(LAMBDA walk, segment : Descend(a, walk), root, name)
  IN  Finish(a, a.mem[last.off], last.rest, FoundHere(a, last))

-----------------------------------------------------------------------------
AInit == TInit /\ area = NoImage

ANext ==
  \/ (\E l \in Lines : ParseLine(l)) /\ UNCHANGED area
  \/ NewTrie /\ UNCHANGED area
  \/ AddToTrie /\ UNCHANGED area
  \/ \E order \in HashOrders : Serialize(order)

ASpec == AInit /\ [][ANext]_avars

-----------------------------------------------------------------------------
(* Types. *)
NodesOK ==
  \A p \in DOMAIN nodes : /\ IsNode(nodes[p]) /\ p \in Seq(Strings) /\ Len(p) <= MaxSegments
                          /\ p # Empty => Front(p) \in DOMAIN nodes

ATypeOK ==
  /\ phase \in {"parse", "build", "built", "failed"}
  /\ entries \in Seq(ParsedRules) /\ errors \in Nat
  /\ Len(entries) + errors <= MaxLines /\ next \in 1 .. Len(entries) + 1
  /\ phase = "built" => next = Len(entries) + 1
  /\ NodesOK
  /\ (area = NoImage) = (phase # "built")

(* The reference for a lookup, on flat strings: of the rules whose text the *)
(* name begins with, the longest one; an exact rule for the whole name      *)
(* before all of them.  A rule that sets no type (or context) leaves the    *)
(* choice to the others, but two rules that end inside the same segment do  *)
(* not add up: only the longer is looked at.                                *)
Dot     == 1000
Flat(n) == FoldLeft(LAMBDA s, seg : s \o <<Dot>> \o seg, n[1], Tail(n))
Rules   == {entries[i] : i \in DOMAIN entries}
Prefixing(n) == {e \in Rules : ~e.exact /\ IsPrefix(Flat(e.name), Flat(n))}
Shadowed(e, n) ==
  \E f \in Prefixing(n) : /\ Len(Flat(f.name)) > Len(Flat(e.name)) /\ Len(f.name) = Len(e.name)
                          /\ Kind(e) = "prefix" /\ Kind(f) = "prefix"
Reference(n, field, default) ==
  LET exact == {e \in Rules : e.exact /\ Parts(e.name) = n /\ e[field] # Empty}
      pre   == {e \in Prefixing(n) : ~Shadowed(e, n) /\ e[field] # Empty}
  IN  IF exact # {} THEN {e[field] : e \in exact}
      ELSE IF pre # {} THEN {e[field] : e \in {e \in pre : \A f \in pre :
                                          Len(Flat(f.name)) <= Len(Flat(e.name))}}
      ELSE {default} \ {Empty}

Answer(n, field, table) ==
  LET i == GetPropertyInfoIndexes(area, n)[field]
  IN  IF i = NoIndex THEN {} ELSE {Table(area, table)[i + 1]}

(* A lookup in the serialised file gives the context and the type of the    *)
(* longest matching rule of the text, for names with and without rules of   *)
(* their own (build_trie against get_property_info_indexes: the order the   *)
(* serialiser sorts in is the order the lookup relies on).                  *)
LookupCorrect ==
  phase = "built" =>
    \A n \in Queries : /\ Answer(n, "ctx", Header(area).contexts) = Reference(n, "ctx", DefaultCtx)
                       /\ Answer(n, "type", Header(area).types) = Reference(n, "type", DefaultType)

(* Where each offset stored in an object points, with the kind it is read as. *)
Pointers(obj) ==
  CASE obj.kind = "header" -> {<<obj.contexts, "u32">>, <<obj.types, "u32">>, <<obj.root, "node">>}
    [] obj.kind = "entry"  -> {<<obj.name, "string">>}
    [] obj.kind = "node"   -> {<<obj.entry, "entry">>}
                                \cup (IF obj.nprefixes > 0 THEN {<<obj.prefixes, "array">>} ELSE {})
                                \cup (IF obj.nexacts > 0 THEN {<<obj.exacts, "array">>} ELSE {})
                                \cup (IF obj.nchildren > 0 THEN {<<obj.children, "array">>} ELSE {})
    [] OTHER -> {}

(* No check of the parser can fail on what the serialiser wrote: objects are *)
(* aligned, do not overlap, fill the declared size, and every offset leads   *)
(* to an object of the kind it is read as (ref_from, u32_slice_from, cstr).  *)
ImageSound ==
  phase = "built" =>
    LET mem == area.mem IN
      /\ Header(area).size = area.top /\ area.top <= ArenaLimit
      /\ \A o \in DOMAIN mem :
           /\ o % 4 = 0 /\ o + SizeOf(mem[o]) <= area.top
           /\ \A q \in DOMAIN mem : q > o => o + SizeOf(mem[o]) <= q
           /\ \A ptr \in Pointers(mem[o]) : ptr[1] \in DOMAIN mem /\ mem[ptr[1]].kind = ptr[2]
           /\ mem[o].kind = "node" =>
                /\ \A c \in Range(Elems(area, mem[o].children, mem[o].nchildren)) : mem[c].kind = "node"
                /\ \A c \in Range(Elems(area, mem[o].prefixes, mem[o].nprefixes))
                            \cup Range(Elems(area, mem[o].exacts, mem[o].nexacts)) : mem[c].kind = "entry"

(* The builder's tree holds exactly the rules, and the file made of it is *)
(* well formed.                                                          *)
ImageInv == ATypeOK /\ TrieIsRules /\ ImageSound

(* The same rules give the same bytes, in whatever order the hash sets of *)
(* the builder list their elements (the tie-breaker of write_trie_node).  *)
Reproducible == [][phase = "built" => area' = area]_avars
=============================================================================
