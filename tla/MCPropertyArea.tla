--------------------------- MODULE MCPropertyArea ---------------------------
(* Segments 1 < 2 < 3 make a BST with both sides under one node, and 2.1 a *)
(* second level; not everything fits into the area.                        *)
EXTENDS PropertyArea

MCNames == {<<2>>, <<1>>, <<3>>, <<2, 1>>}
MCLong  == {<<2, 1>>}
=============================================================================
