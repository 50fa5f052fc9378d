---------------------------- MODULE MCPropertyInfo ----------------------------
(* Rules that share segments and prefixes in every way the trie tells apart,  *)
(* with three children in one node, and one line for each way to be rejected. *)
EXTENDS PropertyInfoArea

a == <<2>>
b == <<3>>
ab == <<2, 3>>
ba == <<3, 2>>
abab == <<2, 3, 2, 3>>
int == <<6>>

Line(name, op, ctx, words) ==
  [garbled |-> FALSE, name |-> name, op |-> op, ctx |-> <<ctx>>, types |-> words]

MCLines ==
  { Line(<<a>>, "prefix", 20, <<int>>),
    Line(<<ab>>, "prefix", 21, <<>>),
    Line(<<ba>>, "none", 29, <<>>),
    Line(<<a, Empty>>, "prefix", 25, <<>>),
    Line(<<a, b>>, "prefix", 28, <<>>),
    Line(<<a, ab>>, "exact", 22, <<>>),
    Line(<<a, abab>>, "prefix", 24, <<EnumWord, a>>),
    Line(<<b, a>>, "exact", 23, <<<<7>>>>),
    Line(<<abab, a, Empty>>, "prefix", 27, <<int>>),
    Line(<<a, ab, Empty>>, "prefix", 26, <<<<7>>>>),
    Line(<<a, ab, a>>, "exact", 30, <<int>>),
    Line(<<a, ab, Empty>>, "exact", 31, <<int>>),
    Line(<<a, Empty, b>>, "prefix", 20, <<>>),
    Line(<<a, <<2, NUL>>>>, "exact", 20, <<>>),
    Line(<<a, b, a, b, Empty>>, "prefix", 20, <<>>),
    Line(<<a, b>>, "other", 20, <<>>),
    Line(<<b>>, "prefix", 20, <<EnumWord>>),
    [garbled |-> FALSE, name |-> <<a>>, op |-> "none", ctx |-> Empty, types |-> <<>>],
    [garbled |-> TRUE, name |-> <<a>>, op |-> "none", ctx |-> Empty, types |-> <<>>] }

MCQueries ==
  { <<a>>, <<ab>>, <<abab>>, <<ba>>, <<b>>, <<Empty>>,
    <<a, Empty>>, <<a, a>>, <<a, b>>, <<a, ab>>, <<a, abab>>, <<a, Empty, a>>, <<ab, a>>, <<b, a>>,
    <<a, ab, a>>, <<a, ab, b>>, <<a, b, a>>, <<abab, a>>, <<abab, a, b>>, <<b, a, b>> }

MCDefaultCtx  == <<26, 26, 26>>
MCDefaultType == <<7>>
MCEnumWord    == <<5>>
MCPlainTypes  == {int, <<7>>}
MCHashOrders  == {<<a, ab, b, ba, abab>>, <<abab, ba, ab, b, a>>}
===============================================================================
