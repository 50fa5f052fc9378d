-------------------------- MODULE PropertyInfoTrie --------------------------
(***************************************************************************)
(* property_contexts: the rules that give a property name its context and  *)
(* type, parsed line by line (property_info_serializer.rs) and collected   *)
(* in the builder's trie (trie_builder.rs).  PropertyInfoArea serialises   *)
(* the trie and looks names up in it.                                      *)
(*                                                                         *)
(* A string is a sequence of characters, the characters are numbers in the *)
(* order of their bytes and 0 is NUL.  A property name is the sequence of  *)
(* what split('.') makes of it: "a.b." ends with an empty segment.         *)
(***************************************************************************)
EXTENDS Integers, Sequences, FiniteSets, SequencesExt

CONSTANTS Lines,        \* lines of a property_contexts file; blanks and comments are skipped
          MaxLines,     \* lines in the file
          RequireOp,    \* require_prefix_or_exact
          DefaultCtx, DefaultType,
          EnumWord, PlainTypes, Space,   \* the words of a type and what joins them
          MaxSegments   \* MAX_NAME_SEGMENTS

NUL   == 0
Empty == <<>>
None  == {}             \* an Option is the empty set or a singleton

Strings == Seq(Nat)
Names   == Seq(Strings) \ {Empty}

LinesOK ==
  \A l \in Lines : /\ l.name \in Names /\ l.op \in {"exact", "prefix", "other", "none"}
                   /\ l.ctx = Empty => l.op = "none"
                   /\ l.op = "none" => l.types = Empty
BoundsOK == MaxLines \in Nat /\ MaxSegments \in Nat /\ RequireOp \in BOOLEAN

ASSUME LinesAssumption  == LinesOK
ASSUME BoundsAssumption == BoundsOK

VARIABLES phase,            \* "parse", "build", "built", "failed"
          entries, errors,  \* what parse_from_file collects
          next,             \* the entry add_to_trie takes next
          nodes,            \* the builder's trie: path -> TrieBuilderNode
          contexts, types   \* the interned strings

tvars == <<phase, entries, errors, next, nodes, contexts, types>>

NewNode == [ctx |-> None, type |-> None, prefixes |-> <<>>, exacts |-> <<>>]
IsNode(n) == n = [ctx |-> n.ctx, type |-> n.type, prefixes |-> n.prefixes, exacts |-> n.exacts]
HasNul(s) == \E i \in DOMAIN s : s[i] = NUL
NulFree(n) == \A i \in DOMAIN n : ~HasNul(n[i])

-----------------------------------------------------------------------------
(* The text. *)

(* A type is an enum with at least one value, or one plain word. *)
IsTypeValid(words) ==
  /\ words # Empty
  /\ IF words[1] = EnumWord THEN Len(words) > 1
                            ELSE Len(words) = 1 /\ words[1] \in PlainTypes

Join(words) == FoldLeft(LAMBDA s, w : s \o <<Space>> \o w, words[1], Tail(words))

(* A garbled line is over-long or not UTF-8.  An empty ctx is a missing token. *)
LineOk(l) ==
  /\ ~l.garbled
  /\ l.ctx # Empty
  /\ RequireOp => l.op # "other"
  /\ l.types # Empty => IsTypeValid(l.types)

EntryOf(l) == [name |-> l.name, ctx |-> l.ctx, exact |-> l.op = "exact",
               type |-> IF l.types = Empty THEN Empty ELSE Join(l.types)]

(* What the lines of a file may be parsed to. *)
ParsedRules == {EntryOf(l) : l \in {l \in Lines : LineOk(l)}}

(* A bad line is one more error; the rest of the file is still read. *)
ParseLine(l) ==
  /\ phase = "parse" /\ Len(entries) + errors < MaxLines
  /\ \/ LineOk(l) /\ entries' = Append(entries, EntryOf(l)) /\ UNCHANGED errors
     \/ ~LineOk(l) /\ errors' = errors + 1 /\ UNCHANGED entries
  /\ UNCHANGED <<phase, next, nodes, contexts, types>>

-----------------------------------------------------------------------------
(* The builder. *)

(* build_trie and TrieBuilder::new: the defaults are the root's own. *)
NewTrie ==
  /\ phase = "parse"
  /\ \/ /\ HasNul(DefaultCtx) \/ HasNul(DefaultType)
        /\ phase' = "failed"
        /\ UNCHANGED <<nodes, contexts, types>>
     \/ /\ ~(HasNul(DefaultCtx) \/ HasNul(DefaultType))
        /\ phase' = "build"
        /\ nodes' = [p \in {Empty} |-> [NewNode EXCEPT !.ctx = {DefaultCtx}, !.type = {DefaultType}]]
        /\ contexts' = {DefaultCtx} /\ types' = {DefaultType}
  /\ next' = 1
  /\ UNCHANGED <<entries, errors>>

EndsWithDot(n) == Last(n) = Empty
Parts(n)       == IF EndsWithDot(n) THEN Front(n) ELSE n

ValidName(n) == /\ NulFree(n)
                /\ Len(Parts(n)) \in 1 .. MaxSegments
                /\ \A i \in DOMAIN Parts(n) : Parts(n)[i] # Empty

ValidEntry(e) == ValidName(e.name) /\ ~HasNul(e.ctx) /\ ~HasNul(e.type)

Kind(e)   == IF e.exact THEN "exact" ELSE IF EndsWithDot(e.name) THEN "node" ELSE "prefix"
Parent(e) == Front(Parts(e.name))
Leaf(e)   == Last(Parts(e.name))

(* The path down to the entry's node; nodes that are missing are made. *)
Walked(e) ==
  LET path == {SubSeq(Parts(e.name), 1, i) :
                 i \in 0 .. Len(Parts(e.name)) - (IF Kind(e) = "node" THEN 0 ELSE 1)}
  IN  [p \in DOMAIN nodes \cup path |-> IF p \in DOMAIN nodes THEN nodes[p] ELSE NewNode]

(* Mutant: a node that is there, for whatever reason, counts as a duplicate. *)
DuplicateNode(e) ==
  CASE Kind(e) = "exact"  -> Leaf(e) \in DOMAIN Walked(e)[Parent(e)].exacts
    [] Kind(e) = "prefix" -> Leaf(e) \in DOMAIN Walked(e)[Parent(e)].prefixes
    [] Kind(e) = "node"   -> Parts(e.name) \in DOMAIN nodes

(* The place of the entry is taken.  A node on the way to others is not.  *)
Duplicate(e) ==
  CASE Kind(e) = "exact"  -> Leaf(e) \in DOMAIN Walked(e)[Parent(e)].exacts
    [] Kind(e) = "prefix" -> Leaf(e) \in DOMAIN Walked(e)[Parent(e)].prefixes
    [] Kind(e) = "node"   -> LET child == Walked(e)[Parts(e.name)]
                             IN  child.ctx # None \/ child.type # None

Set(f, k, v) == [x \in DOMAIN f \cup {k} |-> IF x = k THEN v ELSE f[x]]

Placed(e) ==
  LET value == [ctx |-> e.ctx, type |-> e.type]
  IN  CASE Kind(e) = "exact"  -> [Walked(e) EXCEPT ![Parent(e)].exacts = Set(@, Leaf(e), value)]
        [] Kind(e) = "prefix" -> [Walked(e) EXCEPT ![Parent(e)].prefixes = Set(@, Leaf(e), value)]
        [] Kind(e) = "node"   -> [Walked(e) EXCEPT ![Parts(e.name)].ctx = {e.ctx},
                                                   ![Parts(e.name)].type = {e.type}]

(* The one copy of a context or type that all rules with it share. *)
Intern(set, s) == set \cup {s}

(* The first error ends the build and drops the trie. *)
AddToTrie ==
  /\ phase = "build" /\ next <= Len(entries)
  /\ LET e == entries[next] IN
       \/ /\ ~ValidEntry(e)
          /\ phase' = "failed"
          /\ UNCHANGED <<next, nodes, contexts, types>>
       \/ /\ ValidEntry(e)
          /\ contexts' = Intern(contexts, e.ctx) /\ types' = Intern(types, e.type)
          /\ \/ /\ Duplicate(e)
                /\ phase' = "failed"
                /\ UNCHANGED <<next, nodes>>
             \/ /\ ~Duplicate(e)
                /\ nodes' = Placed(e) /\ next' = next + 1
                /\ UNCHANGED phase
  /\ UNCHANGED <<entries, errors>>

-----------------------------------------------------------------------------
TInit ==
  /\ phase = "parse" /\ entries = <<>> /\ errors = 0
  /\ next = 1 /\ nodes = <<>> /\ contexts = {} /\ types = {}

(* Two rules say something different about the same names. *)
Clash(e, f) == Kind(e) = Kind(f) /\ Parts(e.name) = Parts(f.name)

(* The trie of the rules taken so far: each rule in its place with what it says, *)
(* and nothing that no rule says; only the root has the defaults.  Nodes that    *)
(* are there for the rules below them say nothing.                               *)
InPlace(e) ==
  LET value == [ctx |-> e.ctx, type |-> e.type]
  IN  CASE Kind(e) = "exact"  -> /\ Parent(e) \in DOMAIN nodes
                                 /\ Leaf(e) \in DOMAIN nodes[Parent(e)].exacts
                                 /\ nodes[Parent(e)].exacts[Leaf(e)] = value
        [] Kind(e) = "prefix" -> /\ Parent(e) \in DOMAIN nodes
                                 /\ Leaf(e) \in DOMAIN nodes[Parent(e)].prefixes
                                 /\ nodes[Parent(e)].prefixes[Leaf(e)] = value
        [] Kind(e) = "node"   -> /\ Parts(e.name) \in DOMAIN nodes
                                 /\ nodes[Parts(e.name)].ctx = {e.ctx}
                                 /\ nodes[Parts(e.name)].type = {e.type}

Said(kind, path) == \E j \in 1 .. next - 1 : Kind(entries[j]) = kind /\ Parts(entries[j].name) = path

TrieIsRules ==
  phase \in {"build", "built"} =>
    /\ \A j \in 1 .. next - 1 : InPlace(entries[j])
    /\ \A p \in DOMAIN nodes :
         /\ \A s \in DOMAIN nodes[p].exacts : Said("exact", Append(p, s))
         /\ \A s \in DOMAIN nodes[p].prefixes : Said("prefix", Append(p, s))
         /\ p # Empty /\ (nodes[p].ctx # None \/ nodes[p].type # None) => Said("node", p)
    /\ Empty \in DOMAIN nodes /\ nodes[Empty].ctx = {DefaultCtx} /\ nodes[Empty].type = {DefaultType}
    /\ contexts = {DefaultCtx} \cup {entries[j].ctx : j \in 1 .. next - 1}
    /\ types = {DefaultType} \cup {entries[j].type : j \in 1 .. next - 1}

(* The build fails on defaults with a NUL, on the first rule that is ill      *)
(* formed or repeats one before it, whatever they were interleaved with, and  *)
(* on nothing else: a rule for "a.b." after one for "a.b.c" finds the node    *)
(* there and is no duplicate (TrieBuilder::new, add_to_trie).                 *)
FailsOnClashOnly ==
  LET Bad(i) == ~ValidEntry(entries[i]) \/ \E j \in 1 .. i - 1 : Clash(entries[i], entries[j])
  IN  phase \in {"build", "built", "failed"} =>
        /\ \A i \in 1 .. next - 1 : ~Bad(i)
        /\ phase = "failed" /\ next <= Len(entries) =>
             HasNul(DefaultCtx) \/ HasNul(DefaultType) \/ Bad(next)
=============================================================================
