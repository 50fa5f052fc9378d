---------------------------- MODULE MCMappedArea ----------------------------
EXTENDS MappedArea

W(n) == <<n % 16, n \div 16>>
Node(namelen, prop, left, right, children) ==
  W(namelen) \o W(prop) \o W(left) \o W(right) \o W(children)

(* "4" is short and has a neighbour "2", whose child "2.3" is long; 1 is the *)
(* dot.  The comments are offsets from the end of the header.                *)
MCImage ==
  W(19) \o                                       \* the header: magic
  Node(0, 0, 0, 0, 14) \o                        \*  0: the root
  <<5, 5, 0, 0>> \o                              \* 10: the backup slot
  Node(1, 50, 26, 0, 0) \o <<4, 0>> \o           \* 14: "4"
  Node(1, 0, 0, 0, 38) \o <<2, 0>> \o            \* 26: "2"
  Node(1, 58, 0, 0, 0) \o <<3, 0>> \o            \* 38: "3" below "2"
  W(64) \o <<6, 6, 0, 0>> \o <<4, 0>> \o         \* 50: "4" = 66
  W(34) \o <<7, 0>> \o W(10) \o <<2, 1, 3, 0>> \o \* 58: "2.3", long
  <<6, 5, 6, 5, 6, 0>>                           \* 68: its value

MCNames   == {<<<<4>>>>, <<<<2>>, <<3>>>>, <<<<1>>>>, <<<<2>>>>}
MCWritten == [n \in MCNames |-> CASE n = <<<<4>>>>        -> {<<6, 6>>}
                                  [] n = <<<<2>>, <<3>>>> -> {<<6, 5, 6, 5, 6>>}
                                  [] OTHER                -> {}]

MCTrie == LET By(names, i) == {<<n, i>> : n \in names}
          IN  [o \in {14, 26, 38} |->
                 CASE o = 14 -> [seg |-> <<4>>, by |-> By(MCNames, 1)]
                   [] o = 26 -> [seg |-> <<2>>, by |-> By(MCNames \ {<<<<4>>>>}, 1)]
                   [] o = 38 -> [seg |-> <<3>>, by |-> By({<<<<2>>, <<3>>>>}, 2)]]

(* The damage: the image cut short, one word of it overwritten, or two. *)
AnyValue   == 0 .. 80 \cup 244 .. 255
SomeValues == {14, 35, 38, 50, 255}

Starts == {a \in DOMAIN MCImage : a % Word = 1}

(* The file f with v in the word at a. *)
Put(f, a, v) == SubSeq(f, 1, a - 1) \o W(v) \o SubSeq(f, a + 2, Len(f))

Cut == {SubSeq(MCImage, 1, n) : n \in 0 .. Len(MCImage)}
One == {Put(MCImage, a, v) : a \in Starts, v \in AnyValue}
Two == {Put(Put(MCImage, p[1], v), p[2], u) :
          p \in {q \in Starts \X Starts : q[1] < q[2]}, v \in SomeValues, u \in SomeValues}

MCFiles == Cut \cup One \cup Two
=============================================================================
