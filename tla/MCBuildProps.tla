----------------------------- MODULE MCBuildProps -----------------------------
(* Three files that import each other in every way, one of them under two    *)
(* names, and the reference their loading is compared with.                  *)
EXTENDS BuildProps, FiniteSets, SequencesExt

(* The reference: the file with its imports written out where they stand.  The *)
(* assignments so far, since an import path may refer to them, and the number  *)
(* of loads are carried along.                                                 *)
RECURSIVE Written(_, _, _, _)
Written(acc, file, i, open) ==
  IF i > Len(fs[file]) \/ fs[file][i].op = "ioerror" THEN acc
  ELSE LET l == fs[file][i]
           target == Canon(Expand(l, acc.props))
           deeper == Cardinality(open) <= MaxDepth
           counted == [acc EXCEPT !.loads = @ + 1]
           after == CASE l.op = "junk" -> acc
                      [] l.op = "set" -> [acc EXCEPT !.props = IF l.key \in Disallowed THEN @
                                                               ELSE Insert(@, l.key, l.value)]
                      [] l.op = "import" ->
                           IF Expand(l, acc.props) = NoPath \/ ~deeper THEN acc
                           ELSE IF target \in open \/ ~Readable(target) THEN counted
                           ELSE Written(counted, target, 1, open \cup {target})
       IN  Written(after, file, i + 1, open)

(* A call that succeeds leaves what the files, imports written out, assign  *)
(* last; it fails exactly when a root cannot be read to its end or the      *)
(* whole tree needs more loads than the budget.  With a filter, imports are *)
(* not followed and only the wanted keys are taken.                         *)
LoadCorrect ==
  LET root == Canon(Roots[pass])
      ref  == Written([props |-> before, loads |-> 1], root, 1, {root})
      whole == Readable(root) /\ \A i \in DOMAIN fs[root] : fs[root][i].op # "ioerror"
      own(k) == {i \in DOMAIN fs[root] : fs[root][i].op = "set" /\ fs[root][i].key = k}
      last(k) == CHOOSE i \in own(k) : \A j \in own(k) : j <= i
  IN  CASE status \in {"ok", "err"} /\ filter = NoFilter ->
             /\ (status = "ok") = (whole /\ ref.loads <= MaxLoads)
             /\ status = "ok" => props = ref.props
        [] status \in {"ok", "err"} /\ filter # NoFilter ->
             /\ (status = "ok") = whole
             /\ status = "ok" =>
                  \A k \in Keys :
                    IF k \in filter \ Disallowed /\ own(k) # {}
                      THEN k \in DOMAIN props /\ props[k] = fs[root][last(k)].value
                      ELSE (k \in DOMAIN props) = (k \in DOMAIN before)
                             /\ (k \in DOMAIN before => props[k] = before[k])
        [] OTHER -> TRUE

-----------------------------------------------------------------------------
Put(k, v)       == [op |-> "set", key |-> k, value |-> v]
From(path)      == [op |-> "import", ref |-> NoKey, path |-> path]
Via(k, default) == [op |-> "import", ref |-> k, path |-> default]
Junk            == [op |-> "junk"]
Broken          == [op |-> "ioerror"]

MCLines == {Put("k", "x"), Put("k", "c"), Put("ctl.k", "x"), From("b"), From("b2"), From("a"),
            From("gone"), Via("k", NoPath), Via("k", "b"), Junk, Broken}
MCFileSystems ==
  {[f \in {"a", "b", "c"} |-> CASE f = "a" -> la [] f = "b" -> lb [] f = "c" -> lc] :
     la \in BoundedSeq(MCLines, 2), lb \in BoundedSeq(MCLines \ {Junk}, 2),
     lc \in {<<Put("k", "y")>>, <<From("a"), Put("k", "")>>}}
MCRoots     == <<"a", "c">>
MCCanonical == [p \in {"b2"} |-> "b"]
MCKeys      == {"k", "ctl.k"}
MCValues    == {"x", "y", "c", ""}
MCFilters   == {NoFilter, {"k"}}
===============================================================================
