---------------------------- MODULE MCPropertyDir ----------------------------
(* Two tables of different size: one with two contexts and an alias, one    *)
(* with a malformed name and that of a reserved file.  An instance builds   *)
(* the table it finds in property_info, so each of them may build either.   *)
EXTENDS PropertyDir

MCTable == [i1 |-> <<"../x", ".writer_lock">>,
            i2 |-> <<"a", "A", "b">>,
            i3 |-> <<"../x", ".writer_lock">>]
MCFold  == [n \in {"a", "A", "b", ".writer_lock"} |-> IF n = "A" THEN "a" ELSE n]
=============================================================================
