-------------------------- MODULE PropertyAreaProofs --------------------------
(***************************************************************************)
(* Proofs about PropertyArea for every set of names, readers and sizes:    *)
(* the trie is sound at every moment of an add, and a find that runs       *)
(* beside it is correct and never meets its cycle bound.                   *)
(***************************************************************************)
EXTENDS PropertyArea, SequenceTheorems, TLAPS

Heap == Disjoint /\ Blank /\ NodesPlaced /\ TreeShape /\ FreeLinks /\ AddedReachable
Inv  == AreaInv /\ FindCorrect

-----------------------------------------------------------------------------
(* Names and their prefixes.                                               *)

LEMMA NameFacts ==
  ASSUME NEW n \in Names
  PROVE  /\ n \in Seq(Nat) /\ n # NoName /\ Len(n) \in Nat /\ 1 \in 1 .. Len(n)
         /\ \A k \in 1 .. Len(n) : n[k] \in Nat /\ n[k] # 0 /\ n[k] \in Segments
         /\ Prefix(n, 0) = <<>> /\ Prefix(n, Len(n)) = n
<1>1. n \in Seq(Nat \ {0}) /\ n # <<>>
  BY NamesAssumption
<1>2. Len(n) \in Nat /\ Len(n) > 0 /\ \A k \in 1 .. Len(n) : n[k] \in Nat \ {0}
  BY <1>1
<1>3. \A k \in 1 .. Len(n) : n[k] \in Segments
  BY DEF Segments
<1>4. n \in Seq(Nat)
  BY <1>1
<1>5. Prefix(n, 0) = <<>> /\ Prefix(n, Len(n)) = n
  BY <1>4 DEF Prefix
<1> QED
  BY <1>1, <1>2, <1>3, <1>4, <1>5 DEF NoName

LEMMA PrefixStep ==
  ASSUME NEW n \in Names, NEW k \in 1 .. Len(n)
  PROVE  /\ Prefix(n, k) = Append(Prefix(n, k - 1), n[k])
         /\ Prefix(n, k) \in Seq(Nat) /\ Prefix(n, k - 1) \in Seq(Nat)
<1>1. n \in Seq(Nat) /\ Len(n) \in Nat
  BY NameFacts
<1>2. /\ Prefix(n, k) \in Seq(Nat) /\ Len(Prefix(n, k)) = k
      /\ \A m \in 1 .. k : Prefix(n, k)[m] = n[m]
  BY <1>1 DEF Prefix
<1>3. /\ Prefix(n, k - 1) \in Seq(Nat) /\ Len(Prefix(n, k - 1)) = k - 1
      /\ \A m \in 1 .. (k - 1) : Prefix(n, k - 1)[m] = n[m]
  BY <1>1 DEF Prefix
<1>4. n[k] \in Nat /\ k \in Nat
  BY NameFacts, <1>1
<1>5. /\ Append(Prefix(n, k - 1), n[k]) \in Seq(Nat) /\ Len(Append(Prefix(n, k - 1), n[k])) = k
      /\ \A m \in 1 .. (k - 1) : Append(Prefix(n, k - 1), n[k])[m] = n[m]
      /\ Append(Prefix(n, k - 1), n[k])[k] = n[k]
  BY <1>3, <1>4, AppendProperties
<1>6. \A m \in 1 .. k : Prefix(n, k)[m] = Append(Prefix(n, k - 1), n[k])[m]
  <2> SUFFICES ASSUME NEW m \in 1 .. k PROVE Prefix(n, k)[m] = Append(Prefix(n, k - 1), n[k])[m]
    OBVIOUS
  <2>1. m = k \/ m \in 1 .. (k - 1)
    BY <1>4
  <2> QED
    BY <1>2, <1>5, <2>1
<1>7. Prefix(n, k) = Append(Prefix(n, k - 1), n[k])
  BY <1>2, <1>5, <1>6, SeqEqual
<1> QED
  BY <1>2, <1>3, <1>7

-----------------------------------------------------------------------------
(* Types, sizes and offsets.                                               *)

LEMMA Sizes ==
  /\ AreaSize \in Nat /\ HeaderSize \in Nat /\ NodeSize \in Nat /\ InfoSize \in Nat /\ LongSize \in Nat
  /\ HeaderSize <= AreaSize
  /\ AreaSize > 0 /\ HeaderSize > 0 /\ NodeSize > 0 /\ InfoSize > 0 /\ LongSize > 0
  /\ Offsets = 0 .. (AreaSize - 1) /\ 0 \in Offsets /\ Offsets \subseteq Nat
BY SizesAssumption DEF Offsets

LEMMA StepsFromZero == MaxSteps \in Nat /\ 0 \in 0 .. MaxSteps
<1>1. NodeSize \in Nat \ {0} /\ AreaSize \in Nat
  BY SizesAssumption
<1>2. MaxSteps \in Nat
  BY <1>1, Z3 DEF MaxSteps
<1> QED
  BY <1>2

(* Where the cycle bound is: beyond as many nodes as the area has room for. *)
LEMMA CycleBound ==
  ASSUME NEW m \in Nat, NEW o \in Nat, HeaderSize + m * NodeSize <= o, o + NodeSize + NodeSize <= AreaSize
  PROVE  m < MaxSteps /\ MaxSteps \in Nat
<1>1. NodeSize \in Nat \ {0} /\ AreaSize \in Nat /\ HeaderSize \in Nat
  BY SizesAssumption
<1>2. MaxSteps \in Int /\ AreaSize < (MaxSteps + 1) * NodeSize
  BY <1>1, Z3 DEF MaxSteps
<1>3. (m + 2) * NodeSize = m * NodeSize + NodeSize + NodeSize
  BY <1>1
<1>4. m * NodeSize \in Nat
  BY <1>1
<1>5. (m + 2) * NodeSize <= AreaSize
  BY <1>1, <1>3, <1>4
<1>6. (m + 2) * NodeSize < (MaxSteps + 1) * NodeSize
  BY <1>1, <1>2, <1>5
<1>7. m + 2 < MaxSteps + 1
  BY <1>1, <1>2, <1>6
<1> QED
  BY <1>2, <1>7

(* Nodes are allocated objects. *)
LEMMA TrieFacts ==
  ASSUME TypeOK, Disjoint, NodesPlaced
  PROVE  /\ Trie \subseteq Allocated /\ Trie \subseteq Offsets /\ Allocated \subseteq Offsets /\ 0 \in Trie
         /\ \A o \in Trie \ {0} : size[o] = NodeSize
         /\ \A o \in Allocated : o < used
         /\ \A o \in Trie \ {0} : seg[o] # 0
<1>1. 0 \in Trie /\ Trie \subseteq Offsets /\ Allocated \subseteq Offsets /\ \A o \in Trie \ {0} : seg[o] # 0
  BY Sizes DEF Trie, Allocated
<1>2. \A o \in Trie : size[o] > 0
  BY Sizes DEF Disjoint, NodesPlaced
<1>3. \A o \in Allocated : o \in Nat /\ size[o] \in Nat /\ used \in Nat /\ o + size[o] <= used /\ size[o] > 0
  BY Sizes DEF TypeOK, Disjoint, Allocated
<1> QED
  BY <1>1, <1>2, <1>3 DEF NodesPlaced, Allocated

(* A walk goes to greater offsets, a node further with every step. *)
LEMMA LinkAhead ==
  ASSUME TypeOK, Disjoint, NodesPlaced, TreeShape, NEW o \in Trie \ {0}, NEW f \in {"left", "right"},
         link[o][f] # 0
  PROVE  /\ link[o][f] \in Trie \ {0} /\ under[link[o][f]] = under[o] /\ room[link[o][f]] = Gap(o, f)
         /\ o + NodeSize <= link[o][f] /\ link[o][f] + NodeSize <= AreaSize
         /\ o \in Nat /\ link[o][f] \in Nat
<1>1. /\ link[o][f] \in Trie \ {0} /\ o < link[o][f] /\ room[link[o][f]] = Gap(o, f)
      /\ under[link[o][f]] = under[o]
  BY DEF TreeShape, Fields
<1>2. o \in Allocated /\ link[o][f] \in Allocated /\ size[o] = NodeSize /\ size[link[o][f]] = NodeSize
  BY <1>1, TrieFacts
<1>3. o + NodeSize <= link[o][f] /\ link[o][f] + NodeSize <= used
  BY <1>1, <1>2 DEF Disjoint
<1>4. used \in Nat /\ used <= AreaSize /\ AreaSize \in Nat /\ NodeSize \in Nat /\ o \in Nat /\ link[o][f] \in Nat
  <2>1. used \in HeaderSize .. AreaSize
    BY DEF TypeOK
  <2>2. o \in Offsets /\ link[o][f] \in Offsets
    BY <1>1, TrieFacts
  <2> QED
    BY <2>1, <2>2, Sizes
<1> QED
  BY <1>1, <1>3, <1>4

(* The side a walk for s takes at a node is the one that leads to s. *)
LEMMA SideGap ==
  ASSUME TypeOK, NEW o \in Offsets, NEW s \in room[o], s # seg[o]
  PROVE  Side(s, seg[o]) \in {"left", "right"} /\ s \in Gap(o, Side(s, seg[o]))
<1>1. s \in Nat /\ seg[o] \in Nat
  <2>1. s \in Segments
    BY DEF TypeOK
  <2>2. PICK n \in Names : \E k \in 1 .. Len(n) : s = n[k]
    BY <2>1 DEF Segments
  <2> QED
    BY <2>2, NameFacts DEF TypeOK
<1> QED
  BY <1>1 DEF Side, Gap

-----------------------------------------------------------------------------
(* Steps that keep what a find relies on: nodes stay where they are, what   *)
(* was published stays published, entries stay as they are.                 *)

Grows ==
  /\ Trie \subseteq Trie' /\ added \subseteq added'
  /\ \A o \in Trie : path'[o] = path[o] /\ under'[o] = under[o] /\ room'[o] = room[o]
  /\ \A o \in Offsets : ename[o] # NoName => ename'[o] = ename[o] /\ elong'[o] = elong[o]

LEMMA ReadersKept ==
  ASSUME TypeOK, FindCorrect, Grows, UNCHANGED <<rpc, rname, rk, rcur, rat, steps, must>>, wres' # "corrupt"
  PROVE  FindCorrect'
<1> SUFFICES ASSUME NEW r \in Readers
             PROVE  /\ rpc[r] = "found" =>
                         /\ ename'[rat[r]] = rname[r]
                         /\ rname[r] \in LongNames <=> elong'[rat[r]] # 0
                    /\ rpc[r] = "none" => ~ must[r]
                    /\ rpc[r] # "corrupt"
                    /\ ReaderAt(r)'
  BY DEF FindCorrect
<1>1. ReaderAt(r) /\ rat[r] \in Offsets
  BY DEF FindCorrect, TypeOK
<1>2. ReaderAt(r)'
  BY <1>1 DEF ReaderAt, Grows
<1>3. ASSUME rpc[r] = "found"
      PROVE  ename'[rat[r]] = rname[r] /\ (rname[r] \in LongNames <=> elong'[rat[r]] # 0)
  <2>1. ename[rat[r]] = rname[r] /\ (rname[r] \in LongNames <=> elong[rat[r]] # 0)
    BY <1>3 DEF FindCorrect
  <2>2. rname[r] # NoName
    BY <1>1, <1>3, NameFacts DEF ReaderAt
  <2> QED
    BY <1>1, <2>1, <2>2 DEF Grows
<1> QED
  BY <1>2, <1>3 DEF FindCorrect

(* Steps that leave the area alone. *)
LEMMA HeapKept ==
  ASSUME Heap, Trie' = Trie,
         UNCHANGED <<used, size, seg, link, ename, elong, path, under, room, added>>
  PROVE  Heap'
<1>1. Disjoint' /\ Blank' /\ Allocated' = Allocated
  BY DEF Heap, Disjoint, Blank, Allocated
<1>2. \A o, f : Gap(o, f)' = Gap(o, f)
  BY DEF Gap
<1>3. NodesPlaced' /\ AddedReachable'
  BY DEF Heap, NodesPlaced, AddedReachable
<1>4. TreeShape'
  BY <1>1, <1>2 DEF Heap, TreeShape
<1>5. FreeLinks'
  BY <1>2 DEF Heap, FreeLinks
<1> QED
  BY <1>1, <1>3, <1>4, <1>5 DEF Heap

(* The steps of add that only move its position. *)
LEMMA WalkKept ==
  ASSUME Inv, UNCHANGED <<heap, hvars, rvars>>, wpc # "linkNode", wpc' # "linkNode",
         wres' # "corrupt", TypeOK', WriterAt', FreshAt'
  PROVE  Inv'
<1>1. UNCHANGED <<used, size, seg, link, ename, elong, path, under, room, added>>
  BY DEF heap, hvars
<1>2. Trie' = Trie
  BY <1>1 DEF Trie
<1>3. Heap'
  BY <1>1, <1>2, HeapKept DEF Inv, AreaInv, Heap
<1>4. FindCorrect'
  <2>1. Grows
    BY <1>1, <1>2 DEF Grows
  <2> QED
    BY <2>1, ReadersKept DEF Inv, AreaInv, rvars
<1> QED
  BY <1>3, <1>4 DEF Inv, AreaInv, Heap

-----------------------------------------------------------------------------
(* add: the walk.                                                          *)

LEMMA AddCallInv ==
  ASSUME Inv, NEW n \in Names, AddCall(n)
  PROVE  Inv'
<1> USE DEF Inv, AreaInv
<1>1. /\ wpc = "idle" /\ wpc' = "children" /\ wname' = n /\ wk' = 1 /\ wcur' = 0
      /\ UNCHANGED <<heap, hvars, rvars, wat, wsteps, fresh, wlong, slot, wres, alive>>
  BY DEF AddCall, At, Goto
<1>2. UNCHANGED <<used, size, seg, link, ename, elong, path, under, room, added>>
  BY <1>1 DEF heap, hvars
<1>3. TypeOK'
  BY <1>1, <1>2, Sizes DEF TypeOK, rvars
<1>4. WriterAt'
  <2>1. 0 \in Trie' /\ path'[0] = <<>>
    BY <1>2 DEF Trie, Blank
  <2>2. 1 \in 1 .. Len(n) /\ Prefix(n, 0) = <<>>
    BY NameFacts
  <2> QED
    BY <1>1, <2>1, <2>2 DEF WriterAt
<1>5. FreshAt'
  BY <1>1 DEF FreshAt
<1>6. wres # "corrupt"
  BY DEF FindCorrect
<1> QED
  BY <1>1, <1>3, <1>4, <1>5, <1>6, WalkKept

(* What the writer knows on its walk. *)
LEMMA AddChildrenInv ==
  ASSUME Inv, AddChildren
  PROVE  Inv'
<1> USE DEF Inv, AreaInv
<1>1. /\ wpc = "children" /\ wsteps' = 0
      /\ UNCHANGED <<heap, hvars, rvars, wname, wk, wcur, fresh, wlong, wres, alive>>
  BY DEF AddChildren, At
<1>2. UNCHANGED <<used, size, seg, link, ename, elong, path, under, room, added>>
  BY <1>1 DEF heap, hvars
<1>3. /\ wname \in Names /\ wk \in 1 .. Len(wname) /\ wcur \in Trie
      /\ (\A k \in 1 .. (wk - 1) : \E o \in Trie : path[o] = Prefix(wname, k))
      /\ path[wcur] = Prefix(wname, wk - 1)
      /\ wname[wk] \in Segments /\ wlong = 0
  BY <1>1, NameFacts DEF WriterAt, FreshAt
<1>4. CASE /\ link[wcur]["children"] # 0
           /\ wpc' = "bst" /\ wat' = link[wcur]["children"] /\ UNCHANGED slot
  <2>1. Trie' = Trie
    BY <1>1, <1>2, <1>4 DEF Trie
  <2>2. /\ wat' \in Trie \ {0} /\ under[wat'] = wcur /\ room[wat'] = Segments
    BY <1>3, <1>4 DEF TreeShape, Gap, Fields
  <2>3. wat' >= HeaderSize /\ wat' \in Offsets
    BY <2>2, TrieFacts DEF NodesPlaced
  <2>4. TypeOK'
    BY <1>1, <1>2, <1>4, <2>3, StepsFromZero DEF TypeOK, rvars
  <2>5. HeaderSize + wsteps' * NodeSize <= wat'
    BY <1>1, <2>3, Sizes
  <2>6. WriterAt' /\ FreshAt'
    BY <1>1, <1>2, <1>3, <1>4, <2>1, <2>2, <2>5 DEF WriterAt, FreshAt
  <2> QED
    BY <1>1, <1>4, <2>4, <2>6, WalkKept DEF FindCorrect
<1>5. CASE /\ link[wcur]["children"] = 0
           /\ wpc' = "allocNode" /\ slot' = <<wcur, "children">> /\ UNCHANGED wat
  <2>1. Trie' = Trie
    BY <1>1, <1>2, <1>5 DEF Trie
  <2>2. slot'[1] = wcur /\ slot'[2] = "children"
    BY <1>5
  <2>3. TypeOK'
    <3>1. slot' \in Offsets \X Fields
      BY <1>5 DEF TypeOK, Fields
    <3> QED
      BY <1>1, <1>2, <1>5, <3>1, StepsFromZero DEF TypeOK, rvars
  <2>4. Gap(wcur, "children")' = Segments
    BY DEF Gap
  <2>5. WriterAt'
    BY <1>1, <1>2, <1>3, <1>5, <2>1, <2>2, <2>4 DEF WriterAt, Gap
  <2>6. FreshAt'
    BY <1>1, <1>3, <1>5 DEF FreshAt
  <2> QED
    BY <1>1, <1>5, <2>3, <2>5, <2>6, WalkKept DEF FindCorrect
<1> QED
  BY <1>4, <1>5 DEF AddChildren, Goto

(* add returns, for whatever reason. *)
LEMMA AddReturnsInv ==
  ASSUME Inv, NEW res \in {"ok", "full"}, AddReturns(res), wpc # "linkNode", UNCHANGED <<heap, hvars, rvars>>
  PROVE  Inv'
<1> USE DEF Inv, AreaInv
<1>1. /\ wpc' = "idle" /\ wres' = res /\ wname' = NoName /\ wk' = 0 /\ wcur' = 0 /\ wat' = 0
      /\ wsteps' = 0 /\ fresh' = 0 /\ wlong' = 0 /\ slot' = <<0, "prop">>
  BY DEF AddReturns, Goto
<1>2. TypeOK'
  <2>1. slot' \in Offsets \X Fields
    BY <1>1, Sizes DEF Fields
  <2> QED
    BY <1>1, <2>1, StepsFromZero, Sizes DEF TypeOK, heap, hvars, rvars
<1>3. WriterAt' /\ FreshAt'
  BY <1>1 DEF WriterAt, FreshAt
<1> QED
  BY <1>1, <1>2, <1>3, WalkKept

LEMMA AddFailsInv ==
  ASSUME Inv, NEW from \in {"allocNode", "allocInfo", "allocLong"}, NEW n, AddFails(from, n)
  PROVE  Inv'
BY AddReturnsInv DEF AddFails, At

(* The segment is here: on to the next one, or to the entry. *)
LEMMA AddBstInv ==
  ASSUME Inv, AddBst
  PROVE  Inv'
<1> USE DEF Inv, AreaInv
<1> DEFINE s == wname[wk]
           f == Side(s, seg[wat])
<1>1. /\ wpc = "bst" /\ UNCHANGED <<heap, alive, hvars, rvars>>
      /\ UNCHANGED <<used, size, seg, link, ename, elong, path, under, room, added>>
      /\ UNCHANGED <<rpc, rname, rk, rcur, rat, steps, must>>
  BY DEF AddBst, At, heap, hvars, rvars
<1>2. /\ wname \in Names /\ wk \in 1 .. Len(wname) /\ wcur \in Trie
      /\ (\A k \in 1 .. (wk - 1) : \E o \in Trie : path[o] = Prefix(wname, k))
      /\ path[wcur] = Prefix(wname, wk - 1)
      /\ wat \in Trie \ {0} /\ under[wat] = wcur /\ s \in room[wat]
      /\ HeaderSize + wsteps * NodeSize <= wat /\ wlong = 0
  BY <1>1 DEF WriterAt, FreshAt
<1>3. wat \in Offsets /\ Len(wname) \in Nat /\ wk \in Nat /\ wres # "corrupt"
  BY <1>2, NameFacts DEF TypeOK, FindCorrect
<1>4. CASE /\ s = seg[wat] /\ wcur' = wat
           /\ wpc' = (IF wk < Len(wname) THEN "children" ELSE "prop")
           /\ wk' = (IF wk < Len(wname) THEN wk + 1 ELSE wk)
           /\ UNCHANGED <<wname, wat, wsteps, fresh, wlong, slot, wres>>
  <2>1. path[wat] = Prefix(wname, wk)
    BY <1>2, <1>4, PrefixStep DEF NodesPlaced
  <2>2. TypeOK'
    <3>1. wk' \in Nat /\ wpc' \in {"children", "prop"}
      BY <1>3, <1>4
    <3> QED
      BY <1>1, <1>3, <1>4, <3>1 DEF TypeOK
  <2>3. Trie' = Trie
    BY <1>1, <1>4 DEF Trie
  <2>4. WriterAt'
    <3>1. CASE wk < Len(wname)
      <4>1. wk' \in 1 .. Len(wname) /\ wk' - 1 = wk
        BY <1>2, <1>3, <1>4, <3>1
      <4>2. \A k \in 1 .. (wk' - 1) : \E o \in Trie : path[o] = Prefix(wname, k)
        <5> SUFFICES ASSUME NEW k \in 1 .. wk PROVE \E o \in Trie : path[o] = Prefix(wname, k)
          BY <4>1
        <5>1. k = wk \/ k \in 1 .. (wk - 1)
          BY <1>3
        <5> QED
          BY <1>2, <2>1, <5>1
      <4> QED
        BY <1>1, <1>2, <1>4, <2>1, <2>3, <3>1, <4>1, <4>2 DEF WriterAt
    <3>2. CASE ~ (wk < Len(wname))
      <4>1. wk = Len(wname) /\ path[wat] = wname
        BY <1>2, <1>3, <2>1, <3>2, NameFacts
      <4> QED
        BY <1>1, <1>2, <1>4, <2>3, <3>2, <4>1 DEF WriterAt
    <3> QED
      BY <3>1, <3>2
  <2>5. FreshAt'
    BY <1>2, <1>4 DEF FreshAt
  <2> QED
    BY <1>1, <1>3, <1>4, <2>2, <2>4, <2>5, WalkKept
<1>5. CASE s # seg[wat] /\ link[wat][f] # 0
  <2>1. f \in {"left", "right"} /\ s \in Gap(wat, f)
    BY <1>2, <1>3, <1>5, SideGap
  <2>2. /\ link[wat][f] \in Trie \ {0} /\ under[link[wat][f]] = wcur /\ room[link[wat][f]] = Gap(wat, f)
        /\ wat + NodeSize <= link[wat][f] /\ link[wat][f] + NodeSize <= AreaSize
        /\ wat \in Nat /\ link[wat][f] \in Nat
    BY <1>2, <1>5, <2>1, LinkAhead
  <2>3. wsteps \in Nat
    BY StepsFromZero DEF TypeOK
  <2>4. wsteps < MaxSteps /\ MaxSteps \in Nat
    <3>1. wat + NodeSize + NodeSize <= AreaSize
      BY <2>2, Sizes
    <3> QED
      BY <1>2, <2>2, <2>3, <3>1, CycleBound
  <2>5. /\ wat' = link[wat][f] /\ wsteps' = wsteps + 1
        /\ UNCHANGED <<wpc, wname, wk, wcur, fresh, wlong, slot, wres>>
    BY <1>5, <2>4 DEF AddBst
  <2>6. HeaderSize + wsteps' * NodeSize <= wat'
    <3>1. (wsteps + 1) * NodeSize = wsteps * NodeSize + NodeSize /\ wsteps * NodeSize \in Nat
      BY <2>3, Sizes
    <3> QED
      BY <1>2, <2>2, <2>5, <3>1, Sizes
  <2>7. TypeOK'
    <3>1. wat' \in Offsets /\ wsteps' \in 0 .. MaxSteps
      BY <2>2, <2>3, <2>4, <2>5, TrieFacts
    <3> QED
      BY <1>1, <2>5, <3>1 DEF TypeOK
  <2>8. Trie' = Trie
    BY <1>1, <2>5 DEF Trie
  <2>9. WriterAt' /\ FreshAt'
    BY <1>1, <1>2, <2>1, <2>2, <2>5, <2>6, <2>8 DEF WriterAt, FreshAt
  <2> QED
    BY <1>1, <1>3, <2>5, <2>7, <2>9, WalkKept
<1>6. CASE /\ s # seg[wat] /\ link[wat][f] = 0 /\ wpc' = "allocNode" /\ slot' = <<wat, f>>
           /\ UNCHANGED <<wname, wk, wcur, wat, wsteps, fresh, wlong, wres>>
  <2>1. f \in {"left", "right"} /\ s \in Gap(wat, f)
    BY <1>2, <1>3, <1>6, SideGap
  <2>2. slot'[1] = wat /\ slot'[2] = f
    BY <1>6
  <2>3. TypeOK'
    <3>1. slot' \in Offsets \X Fields
      BY <1>3, <1>6, <2>1 DEF Fields
    <3> QED
      BY <1>1, <1>6, <3>1 DEF TypeOK
  <2>4. Trie' = Trie
    BY <1>1, <1>6 DEF Trie
  <2>5. Gap(wat, f)' = Gap(wat, f) /\ f' = f
    BY <1>1, <1>6 DEF Gap
  <2>6. Gap(slot[1], slot[2])' = Gap(wat, f)
    BY <1>1, <2>2 DEF Gap
  <2>7. WriterAt'
    BY <1>1, <1>2, <1>6, <2>1, <2>2, <2>4, <2>6 DEF WriterAt
  <2>8. FreshAt'
    BY <1>2, <1>6 DEF FreshAt
  <2> QED
    BY <1>1, <1>3, <1>6, <2>3, <2>7, <2>8, WalkKept
<1> QED
  BY <1>4, <1>5, <1>6 DEF AddBst, Goto

LEMMA AddPropInv ==
  ASSUME Inv, AddProp
  PROVE  Inv'
<1> USE DEF Inv, AreaInv
<1>1. wpc = "prop" /\ UNCHANGED <<heap, alive, hvars, rvars>>
  BY DEF AddProp, At
<1>2. CASE AddReturns("ok")
  BY <1>1, <1>2, AddReturnsInv
<1>3. CASE /\ link[wcur]["prop"] = 0 /\ wpc' = "allocInfo"
           /\ UNCHANGED <<wname, wk, wcur, wat, wsteps, fresh, wlong, slot, wres>>
  <2>1. /\ UNCHANGED <<used, size, seg, link, ename, elong, path, under, room, added>>
        /\ UNCHANGED <<rpc, rname, rk, rcur, rat, steps, must>>
    BY <1>1 DEF heap, hvars, rvars
  <2>2. TypeOK'
    BY <1>3, <2>1 DEF TypeOK
  <2>3. Trie' = Trie
    BY <1>1, <1>3, <2>1 DEF Trie
  <2>4. WriterAt' /\ FreshAt'
    BY <1>1, <1>3, <2>1, <2>3 DEF WriterAt, FreshAt
  <2> QED
    BY <1>1, <1>3, <2>2, <2>4, WalkKept DEF FindCorrect
<1> QED
  BY <1>2, <1>3 DEF AddProp, Goto

LEMMA CrashInv ==
  ASSUME Inv, Crash
  PROVE  Inv'
<1> USE DEF Inv, AreaInv
<1>1. /\ UNCHANGED <<used, size, seg, link, ename, elong, path, under, room, added>>
      /\ UNCHANGED <<rpc, rname, rk, rcur, rat, steps, must>>
      /\ UNCHANGED <<wpc, wname, wk, wcur, wat, wsteps, fresh, wlong, slot, wres>>
  BY DEF Crash, heap, hvars, rvars
<1>2. Trie' = Trie
  BY <1>1 DEF Trie
<1>3. TypeOK'
  BY <1>1 DEF TypeOK
<1>4. Heap'
  BY <1>1, <1>2, HeapKept DEF Heap
<1>5. WriterAt' /\ FreshAt'
  BY <1>1, <1>2 DEF WriterAt, FreshAt, Gap
<1>6. FindCorrect'
  BY <1>1, <1>2, ReadersKept DEF Grows, FindCorrect
<1> QED
  BY <1>3, <1>4, <1>5, <1>6 DEF Heap

-----------------------------------------------------------------------------
(* allocate_obj: the new object begins where the last one ends.            *)

LEMMA Allocates ==
  ASSUME Inv, NEW n \in Nat \ {0}, Fits(n), Allocate(n),
         UNCHANGED <<seg, link, ename, elong, path, under, room, added, rvars>>,
         wpc # "linkNode", wpc' # "linkNode"
  PROVE  /\ Heap' /\ Trie' = Trie /\ Grows
         /\ used' \in HeaderSize .. AreaSize /\ size' \in [Offsets -> 0 .. AreaSize]
         /\ used \in Offsets /\ used >= HeaderSize /\ used # 0 /\ used \notin Trie
         /\ size'[used] = n /\ \A o \in Allocated : size'[o] = size[o] /\ o # used /\ o < used
         /\ seg[used] = 0 /\ ename[used] = NoName /\ elong[used] = 0
         /\ \A o \in Trie, f \in Fields : link[o][f] # used
<1> USE DEF Inv, AreaInv
<1>1. used \in Nat /\ used >= HeaderSize /\ used + n <= AreaSize /\ n \in Nat /\ n > 0
  BY Sizes DEF TypeOK, Fits
<1>2. used \in Offsets /\ used # 0
  BY <1>1, Sizes
<1>3. used' = used + n /\ size' = [size EXCEPT ![used] = n]
  BY DEF Allocate
<1>4. used' \in HeaderSize .. AreaSize /\ size' \in [Offsets -> 0 .. AreaSize]
  <2>1. n \in 0 .. AreaSize /\ used' \in HeaderSize .. AreaSize
    BY <1>1, <1>3, Sizes
  <2> QED
    BY <1>2, <1>3, <2>1 DEF TypeOK
<1>5. Allocated \subseteq Nat /\ \A o \in Allocated : o < used
  BY TrieFacts, Sizes
<1>6. used \notin Allocated
  BY <1>1, <1>5
<1>7. /\ size'[used] = n /\ (\A o \in Offsets : o # used => size'[o] = size[o])
      /\ Allocated' = Allocated \cup {used}
  <2>1. size'[used] = n /\ \A o \in Offsets : o # used => size'[o] = size[o]
    BY <1>2, <1>3 DEF TypeOK
  <2> QED
    BY <1>1, <1>2, <2>1 DEF Allocated
<1>8. seg[used] = 0 /\ ename[used] = NoName /\ elong[used] = 0
  BY <1>2, <1>6 DEF Blank
<1>9. Trie' = Trie /\ used \notin Trie
  BY <1>6, TrieFacts DEF Trie
<1>10. \A o \in Trie, f \in Fields : link[o][f] # used
  <2> SUFFICES ASSUME NEW o \in Trie, NEW f \in Fields, link[o][f] = used PROVE FALSE
    OBVIOUS
  <2>1. link[o][f] \in Allocated
    BY <1>2, TrieFacts DEF TreeShape
  <2> QED
    BY <1>6, <2>1
<1>11. Disjoint'
  <2>1. size'[0] = HeaderSize
    BY <1>2, <1>7, Sizes DEF Disjoint
  <2>2. \A o \in Allocated : size'[o] = size[o] /\ o + size[o] <= used /\ size[o] \in Nat /\ o \in Nat
    BY <1>5, <1>6, <1>7 DEF Disjoint, TypeOK, Allocated
  <2>3. ASSUME NEW o \in Allocated', NEW q \in Allocated', o < q PROVE o + size'[o] <= q
    <3>1. CASE o \in Allocated /\ q \in Allocated
      BY <2>2, <2>3, <3>1 DEF Disjoint
    <3>2. CASE q = used /\ o \in Allocated
      BY <2>2, <3>2
    <3>3. CASE o = used
      BY <1>1, <1>5, <1>7, <2>3, <3>3
    <3> QED
      BY <1>7, <3>1, <3>2, <3>3
  <2>4. \A o \in Allocated' : o + size'[o] <= used'
    BY <1>1, <1>3, <1>7, <2>2
  <2>5. \A o \in Offsets : elong'[o] # 0 => elong'[o] - o >= InfoSize /\ size'[elong'[o]] = LongSize
    <3> SUFFICES ASSUME NEW o \in Offsets, elong[o] # 0
                 PROVE  elong[o] - o >= InfoSize /\ size'[elong[o]] = LongSize
      OBVIOUS
    <3>1. elong[o] - o >= InfoSize /\ size[elong[o]] = LongSize /\ elong[o] \in Offsets
      BY DEF Disjoint, TypeOK
    <3>2. elong[o] \in Allocated
      BY <3>1, Sizes DEF Allocated
    <3> QED
      BY <2>2, <3>1, <3>2
  <2> QED
    BY <2>1, <2>3, <2>4, <2>5 DEF Disjoint
<1>12. Blank' /\ NodesPlaced' /\ AddedReachable'
  <2>1. \A o \in Trie : size'[o] = size[o]
    BY <1>7, <1>9, TrieFacts
  <2>2. Blank'
    BY <1>7, <1>9 DEF Blank
  <2>3. NodesPlaced'
    BY <1>9, <2>1 DEF NodesPlaced
  <2>4. AddedReachable'
    BY <1>9 DEF AddedReachable
  <2> QED
    BY <2>2, <2>3, <2>4
<1>13. \A o, f : Gap(o, f)' = Gap(o, f)
  BY DEF Gap
<1>14. TreeShape' /\ FreeLinks'
  <2>1. TreeShape'
    BY <1>7, <1>9, <1>13 DEF TreeShape
  <2>2. FreeLinks'
    BY <1>9, <1>13 DEF FreeLinks
  <2> QED
    BY <2>1, <2>2
<1>15. Grows
  BY <1>9 DEF Grows
<1> QED
  BY <1>1, <1>2, <1>4, <1>5, <1>6, <1>7, <1>8, <1>9, <1>10, <1>11, <1>12, <1>14, <1>15, TrieFacts DEF Heap

LEMMA AllocNodeInv ==
  ASSUME Inv, AllocNode
  PROVE  Inv'
<1> USE DEF Inv, AreaInv
<1>1. /\ wpc = "allocNode" /\ wpc' = "initNode" /\ Fits(NodeSize) /\ Allocate(NodeSize) /\ fresh' = used
      /\ UNCHANGED <<seg, link, ename, elong, path, under, room, added, rvars>>
      /\ UNCHANGED <<wname, wk, wcur, wat, wsteps, wlong, slot, wres>>
      /\ UNCHANGED <<rpc, rname, rk, rcur, rat, steps, must>>
      /\ NodeSize \in Nat \ {0}
  BY SizesAssumption DEF AllocNode, At, Goto, hvars, rvars
<1>2. /\ Heap' /\ Trie' = Trie /\ Grows
      /\ used' \in HeaderSize .. AreaSize /\ size' \in [Offsets -> 0 .. AreaSize]
      /\ used \in Offsets /\ used >= HeaderSize /\ used # 0 /\ used \notin Trie
      /\ size'[used] = NodeSize /\ \A o \in Allocated : size'[o] = size[o] /\ o # used /\ o < used
      /\ seg[used] = 0 /\ ename[used] = NoName /\ elong[used] = 0
  BY <1>1, Allocates
<1>3. TypeOK'
  BY <1>1, <1>2 DEF TypeOK
<1>4. FindCorrect'
  BY <1>1, <1>2, ReadersKept DEF FindCorrect
<1>5. WriterAt'
  <2>1. Gap(slot[1], slot[2])' = Gap(slot[1], slot[2])
    BY <1>1 DEF Gap
  <2> QED
    BY <1>1, <1>2, <2>1 DEF WriterAt
<1>6. FreshAt'
  <2>1. slot[1] < used /\ wlong = 0
    BY <1>1, <1>2, TrieFacts DEF WriterAt, FreshAt
  <2> QED
    BY <1>1, <1>2, <2>1 DEF FreshAt
<1> QED
  BY <1>2, <1>3, <1>4, <1>5, <1>6 DEF Heap

LEMMA AllocInfoInv ==
  ASSUME Inv, AllocInfo
  PROVE  Inv'
<1> USE DEF Inv, AreaInv
<1>1. /\ wpc = "allocInfo" /\ wpc' = (IF wname \in LongNames THEN "allocLong" ELSE "initInfo")
      /\ Fits(InfoSize) /\ Allocate(InfoSize) /\ fresh' = used
      /\ UNCHANGED <<seg, link, ename, elong, path, under, room, added, rvars>>
      /\ UNCHANGED <<wname, wk, wcur, wat, wsteps, wlong, slot, wres>>
      /\ UNCHANGED <<rpc, rname, rk, rcur, rat, steps, must>>
      /\ InfoSize \in Nat \ {0}
  BY SizesAssumption DEF AllocInfo, At, Goto, hvars, rvars
<1>2. /\ Heap' /\ Trie' = Trie /\ Grows
      /\ used' \in HeaderSize .. AreaSize /\ size' \in [Offsets -> 0 .. AreaSize]
      /\ used \in Offsets /\ used # 0 /\ size'[used] = InfoSize
      /\ seg[used] = 0 /\ ename[used] = NoName /\ elong[used] = 0
      /\ \A o \in Trie, f \in Fields : link[o][f] # used
  <2>1. wpc # "linkNode" /\ wpc' # "linkNode"
    BY <1>1
  <2> QED
    BY <1>1, <2>1, Allocates
<1>3. TypeOK'
  <2>1. wpc' \in {"allocLong", "initInfo"}
    BY <1>1
  <2> QED
    BY <1>1, <1>2, <2>1 DEF TypeOK
<1>4. FindCorrect'
  BY <1>1, <1>2, ReadersKept DEF FindCorrect
<1>5. WriterAt'
  BY <1>1, <1>2 DEF WriterAt
<1>6. FreshAt'
  <2>1. wlong = 0
    BY <1>1 DEF FreshAt
  <2> QED
    BY <1>1, <1>2, <2>1 DEF FreshAt
<1> QED
  BY <1>2, <1>3, <1>4, <1>5, <1>6 DEF Heap

LEMMA AllocLongInv ==
  ASSUME Inv, AllocLong
  PROVE  Inv'
<1> USE DEF Inv, AreaInv
<1>1. /\ wpc = "allocLong" /\ wpc' = "initInfo"
      /\ Fits(LongSize) /\ Allocate(LongSize) /\ wlong' = used
      /\ UNCHANGED <<seg, link, ename, elong, path, under, room, added, rvars>>
      /\ UNCHANGED <<wname, wk, wcur, wat, wsteps, fresh, slot, wres>>
      /\ UNCHANGED <<rpc, rname, rk, rcur, rat, steps, must>>
      /\ LongSize \in Nat \ {0}
  BY SizesAssumption DEF AllocLong, At, Goto, hvars, rvars
<1>2. /\ Heap' /\ Trie' = Trie /\ Grows
      /\ used' \in HeaderSize .. AreaSize /\ size' \in [Offsets -> 0 .. AreaSize]
      /\ used \in Offsets /\ used # 0 /\ size'[used] = LongSize
      /\ \A o \in Allocated : size'[o] = size[o] /\ o # used
  BY <1>1, Allocates
<1>3. TypeOK'
  BY <1>1, <1>2 DEF TypeOK
<1>4. FindCorrect'
  BY <1>1, <1>2, ReadersKept DEF FindCorrect
<1>5. WriterAt'
  BY <1>1, <1>2 DEF WriterAt
<1>6. FreshAt'
  <2>1. /\ fresh # 0 /\ size[fresh] = InfoSize /\ seg[fresh] = 0 /\ wname \in LongNames
        /\ (\A o \in Trie, f \in Fields : link[o][f] # fresh)
        /\ ename[fresh] = NoName /\ elong[fresh] = 0 /\ fresh \in Offsets
    BY <1>1 DEF FreshAt, TypeOK
  <2>2. fresh \in Allocated
    BY <2>1, Sizes DEF Allocated
  <2>3. fresh + InfoSize <= used
    BY <2>1, <2>2 DEF Disjoint
  <2>4. used - fresh >= InfoSize
    BY <1>2, <2>1, <2>3, Sizes
  <2> QED
    BY <1>1, <1>2, <2>1, <2>2, <2>4 DEF FreshAt
<1> QED
  BY <1>2, <1>3, <1>4, <1>5, <1>6 DEF Heap

-----------------------------------------------------------------------------
(* The node is written, and is not a part of the trie yet.                 *)

LEMMA InitNodeInv ==
  ASSUME Inv, InitNode
  PROVE  Inv'
<1> USE DEF Inv, AreaInv
<1>1. /\ wpc = "initNode" /\ wpc' = "linkNode"
      /\ seg' = [seg EXCEPT ![fresh] = wname[wk]] /\ link' = [link EXCEPT ![fresh] = NoLinks]
      /\ path' = [path EXCEPT ![fresh] = Prefix(wname, wk)] /\ under' = [under EXCEPT ![fresh] = wcur]
      /\ room' = [room EXCEPT ![fresh] = Gap(slot[1], slot[2])]
      /\ UNCHANGED <<used, size, ename, elong, added>>
      /\ UNCHANGED <<wname, wk, wcur, wat, wsteps, fresh, wlong, slot, wres>>
      /\ UNCHANGED <<rpc, rname, rk, rcur, rat, steps, must>>
  BY DEF InitNode, At, Goto, rvars
<1>2. /\ fresh # 0 /\ fresh >= HeaderSize /\ size[fresh] = NodeSize /\ slot[1] < fresh /\ seg[fresh] = 0
      /\ fresh \notin Trie /\ ename[fresh] = NoName /\ elong[fresh] = 0 /\ fresh \in Offsets /\ wlong = 0
  BY <1>1 DEF FreshAt, TypeOK
<1>3. /\ wname \in Names /\ wk \in 1 .. Len(wname) /\ wcur \in Trie /\ slot[1] \in Trie
      /\ wname[wk] \in Gap(slot[1], slot[2])
  BY <1>1 DEF WriterAt
<1>4. wname[wk] \in Nat /\ wname[wk] # 0 /\ Prefix(wname, wk) \in Seq(Nat)
  BY <1>3, NameFacts, PrefixStep
<1>5. link' = link
  <2>1. link[fresh] = NoLinks
    BY <1>2 DEF Blank
  <2> QED
    BY <1>1, <1>2, <2>1 DEF TypeOK
<1>6. /\ seg'[fresh] = wname[wk] /\ path'[fresh] = Prefix(wname, wk) /\ under'[fresh] = wcur
      /\ room'[fresh] = Gap(slot[1], slot[2])
      /\ \A o \in Offsets : o # fresh =>
           seg'[o] = seg[o] /\ path'[o] = path[o] /\ under'[o] = under[o] /\ room'[o] = room[o]
  BY <1>1, <1>2 DEF TypeOK
<1>7. Trie' = Trie
  <2>1. \A o \in Offsets : o \in Trie <=> o = 0 \/ seg[o] # 0
    BY <1>1, Sizes DEF Trie
  <2>2. \A o \in Offsets : o \in Trie' <=> o = 0 \/ (seg'[o] # 0 /\ o # fresh)
    BY <1>1, Sizes DEF Trie
  <2>3. \A o \in Offsets : o \in Trie' <=> o \in Trie
    BY <1>2, <1>6, <2>1, <2>2
  <2>4. Trie' \subseteq Offsets
    BY Sizes DEF Trie
  <2> QED
    BY <2>3, <2>4, TrieFacts
<1>8. /\ \A o \in Trie : /\ o \in Offsets /\ o # fresh
                         /\ seg'[o] = seg[o] /\ path'[o] = path[o] /\ under'[o] = under[o] /\ room'[o] = room[o]
      /\ \A o \in Trie : \A f : Gap(o, f)' = Gap(o, f)
  <2>1. \A o \in Trie : /\ o \in Offsets /\ o # fresh
                        /\ seg'[o] = seg[o] /\ path'[o] = path[o] /\ under'[o] = under[o] /\ room'[o] = room[o]
    BY <1>2, <1>6, TrieFacts
  <2> QED
    BY <2>1 DEF Gap
<1>9. TypeOK'
  <2>1. Gap(slot[1], slot[2]) \subseteq Segments
    BY <1>3, TrieFacts DEF Gap, TypeOK
  <2>2. /\ seg' \in [Offsets -> Nat] /\ path' \in [Offsets -> Seq(Nat)] /\ under' \in [Offsets -> Offsets]
        /\ room' \in [Offsets -> SUBSET Segments]
    BY <1>1, <1>4, <2>1 DEF TypeOK
  <2> QED
    BY <1>1, <1>5, <2>2 DEF TypeOK
<1>10. Disjoint' /\ Allocated' = Allocated
  BY <1>1 DEF Disjoint, Allocated
<1>11. Blank'
  <2>1. 0 \in Offsets /\ 0 # fresh /\ fresh \in Allocated
    BY <1>2, Sizes DEF Allocated
  <2>2. \A o \in Offsets \ Allocated : seg'[o] = seg[o]
    BY <1>6, <2>1
  <2>3. seg'[0] = 0 /\ path'[0] = <<>>
    BY <1>6, <2>1 DEF Blank
  <2> QED
    BY <1>1, <1>5, <1>7, <1>10, <2>2, <2>3 DEF Blank
<1>12. NodesPlaced'
  BY <1>1, <1>7, <1>8 DEF NodesPlaced
<1>13. TreeShape'
  BY <1>1, <1>5, <1>7, <1>8, <1>10 DEF TreeShape
<1>14. FreeLinks'
  BY <1>5, <1>7, <1>8 DEF FreeLinks
<1>15. AddedReachable'
  BY <1>1, <1>5, <1>7, <1>8 DEF AddedReachable
<1>16. WriterAt'
  BY <1>1, <1>3, <1>5, <1>7, <1>8 DEF WriterAt
<1>17. FreshAt'
  BY <1>1, <1>2, <1>3, <1>6, <1>7, <1>8 DEF FreshAt
<1>18. FindCorrect'
  <2>1. Grows
    BY <1>1, <1>7, <1>8 DEF Grows
  <2> QED
    BY <1>1, <2>1, ReadersKept DEF FindCorrect
<1> QED
  BY <1>9, <1>10, <1>11, <1>12, <1>13, <1>14, <1>15, <1>16, <1>17, <1>18

-----------------------------------------------------------------------------
(* The Release store that makes the node a part of the trie.               *)

LEMMA SegmentsAreNat == Segments \subseteq Nat
<1> SUFFICES ASSUME NEW s \in Segments PROVE s \in Nat
  OBVIOUS
<1>1. PICK n \in Names : \E k \in 1 .. Len(n) : s = n[k]
  BY DEF Segments
<1> QED
  BY <1>1, NameFacts

(* What the step does, and what holds of the node it links. *)
LinkedNode ==
  /\ Trie' = Trie \cup {fresh} /\ fresh \notin Trie /\ fresh \in Offsets /\ fresh # 0
  /\ slot[1] \in Trie /\ slot[2] \in {"left", "right", "children"} /\ link[slot[1]][slot[2]] = 0
  /\ slot[1] < fresh /\ wcur \in Trie
  /\ \/ slot[1] = wcur /\ slot[2] = "children"
     \/ slot[2] \in {"left", "right"} /\ slot[1] # 0 /\ under[slot[1]] = wcur
  /\ link'[slot[1]][slot[2]] = fresh
  /\ \A f \in Fields : link'[fresh][f] = 0
  /\ \A o \in Trie, f \in Fields : o # slot[1] \/ f # slot[2] => link'[o][f] = link[o][f]
  /\ \A o \in Trie, f \in Fields : link[o][f] # fresh
  /\ room[fresh] = Gap(slot[1], slot[2]) /\ seg[fresh] \in room[fresh] /\ under[fresh] = wcur
  /\ path[fresh] = Append(path[wcur], seg[fresh])
  /\ UNCHANGED <<used, size, seg, ename, elong, path, under, room, added>>

LEMMA LinkNodeFacts ==
  ASSUME Inv, LinkNode
  PROVE  LinkedNode
<1> USE DEF Inv, AreaInv
<1>1. /\ wpc = "linkNode" /\ wpc' = "bst" /\ link' = [link EXCEPT ![slot[1]][slot[2]] = fresh]
      /\ UNCHANGED <<used, size, seg, ename, elong, path, under, room, added>>
  BY DEF LinkNode, At, Goto, hvars
<1>2. /\ fresh # 0 /\ slot[1] < fresh /\ fresh \notin Trie /\ ename[fresh] = NoName
      /\ seg[fresh] = wname[wk] /\ under[fresh] = wcur /\ room[fresh] = Gap(slot[1], slot[2])
      /\ path[fresh] = Prefix(wname, wk) /\ fresh \in Offsets
  BY <1>1 DEF FreshAt, TypeOK
<1>3. /\ wname \in Names /\ wk \in 1 .. Len(wname) /\ wcur \in Trie /\ path[wcur] = Prefix(wname, wk - 1)
      /\ slot[1] \in Trie /\ link[slot[1]][slot[2]] = 0 /\ wname[wk] \in Gap(slot[1], slot[2])
      /\ \/ slot = <<wcur, "children">>
         \/ slot[2] \in {"left", "right"} /\ slot[1] # 0 /\ under[slot[1]] = wcur
  BY <1>1 DEF WriterAt
<1>4. wname[wk] # 0 /\ path[fresh] = Append(path[wcur], seg[fresh]) /\ seg[fresh] \in room[fresh]
  BY <1>2, <1>3, NameFacts, PrefixStep
<1>5. Trie' = Trie \cup {fresh}
  <2>1. \A o \in Offsets : o \in Trie <=> o = 0 \/ (seg[o] # 0 /\ o # fresh)
    BY <1>1, Sizes DEF Trie
  <2>2. \A o \in Offsets : o \in Trie' <=> o = 0 \/ seg[o] # 0
    BY <1>1, Sizes DEF Trie
  <2>3. \A o \in Offsets : o \in Trie' <=> o \in Trie \/ o = fresh
    BY <1>2, <1>4, <2>1, <2>2
  <2>4. Trie' \subseteq Offsets
    BY Sizes DEF Trie
  <2> QED
    BY <1>2, <2>3, <2>4, TrieFacts
<1>6. /\ slot[2] \in {"left", "right", "children"}
      /\ \/ slot[1] = wcur /\ slot[2] = "children"
         \/ slot[2] \in {"left", "right"} /\ slot[1] # 0 /\ under[slot[1]] = wcur
  BY <1>3
<1>7. /\ link \in [Offsets -> [Fields -> Offsets]] /\ slot[1] \in Offsets /\ slot[2] \in Fields
      /\ Trie \subseteq Offsets
  BY <1>3, <1>6, TrieFacts DEF TypeOK, Fields
<1>8. link'[slot[1]][slot[2]] = fresh
  BY <1>1, <1>2, <1>7
<1>9. \A o \in Trie, f \in Fields : o # slot[1] \/ f # slot[2] => link'[o][f] = link[o][f]
  BY <1>1, <1>7
<1>10. \A f \in Fields : link'[fresh][f] = 0
  <2>1. link'[fresh] = link[fresh]
    BY <1>1, <1>2, <1>3, <1>7
  <2>2. link[fresh] = NoLinks
    BY <1>2 DEF Blank
  <2> QED
    BY <2>1, <2>2 DEF NoLinks
<1>11. \A o \in Trie, f \in Fields : link[o][f] # fresh
  <2> SUFFICES ASSUME NEW o \in Trie, NEW f \in Fields, link[o][f] = fresh PROVE FALSE
    OBVIOUS
  <2>1. f = "prop" /\ ename[fresh] = path[o] /\ path[o] \in added
    BY <1>2 DEF TreeShape
  <2>2. path[o] \in Names
    BY <2>1 DEF TypeOK
  <2> QED
    BY <1>2, <2>1, <2>2, NameFacts
<1> QED
  BY <1>1, <1>2, <1>3, <1>4, <1>5, <1>6, <1>8, <1>9, <1>10, <1>11 DEF LinkedNode

LEMMA LinkNodeTree ==
  ASSUME TypeOK, Disjoint, NodesPlaced, TreeShape, LinkedNode
  PROVE  TreeShape'
<1> USE DEF LinkedNode
<1>1. \A o, f : Gap(o, f)' = Gap(o, f)
  BY DEF Gap
<1>2. Allocated' = Allocated /\ Trie \subseteq Allocated /\ "prop" \in Fields
  BY TrieFacts DEF Allocated, Fields
<1>3. ASSUME NEW o \in Trie', NEW f \in Fields, link'[o][f] # 0
      PROVE  IF f = "prop"
             THEN /\ o # 0 /\ link'[o][f] \in Allocated
                  /\ ename[link'[o][f]] = path[o] /\ path[o] \in added
                  /\ elong[link'[o][f]] # 0 <=> path[o] \in LongNames
             ELSE /\ link'[o][f] \in Trie' \ {0} /\ o < link'[o][f]
                  /\ f = "children" \/ o # 0
                  /\ room[link'[o][f]] = Gap(o, f)
                  /\ under[link'[o][f]] = IF f = "children" THEN o ELSE under[o]
  <2>1. o \in Trie
    BY <1>3
  <2>2. CASE o = slot[1] /\ f = slot[2]
    BY <2>1, <2>2
  <2>3. CASE o # slot[1] \/ f # slot[2]
    <3>1. link'[o][f] = link[o][f] /\ link[o][f] # 0
      BY <1>3, <2>1, <2>3
    <3> QED
      BY <1>2, <2>1, <3>1 DEF TreeShape
  <2> QED
    BY <2>2, <2>3
<1>4. ASSUME NEW o \in Trie', NEW q \in Trie', NEW f \in Fields, NEW g \in Fields,
             link'[o][f] # 0, link'[o][f] = link'[q][g]
      PROVE  o = q /\ f = g
  <2>1. o \in Trie /\ q \in Trie
    BY <1>4
  <2>2. CASE (o = slot[1] /\ f = slot[2]) /\ ~ (q = slot[1] /\ g = slot[2])
    BY <1>4, <2>1, <2>2
  <2>3. CASE ~ (o = slot[1] /\ f = slot[2]) /\ (q = slot[1] /\ g = slot[2])
    BY <1>4, <2>1, <2>3
  <2>4. CASE ~ (o = slot[1] /\ f = slot[2]) /\ ~ (q = slot[1] /\ g = slot[2])
    <3>1. link'[o][f] = link[o][f] /\ link'[q][g] = link[q][g]
      BY <2>1, <2>4, f \in Fields, g \in Fields
    <3>2. link[o][f] # 0 /\ link[o][f] = link[q][g]
      BY <1>4, <3>1
    <3>3. \A o1, q1 \in Trie, f1, g1 \in Fields :
            link[o1][f1] # 0 /\ link[o1][f1] = link[q1][g1] => o1 = q1 /\ f1 = g1
      BY DEF TreeShape
    <3> QED
      BY <2>1, <3>2, <3>3, f \in Fields, g \in Fields
  <2>5. CASE (o = slot[1] /\ f = slot[2]) /\ (q = slot[1] /\ g = slot[2])
    BY <2>5
  <2> QED
    BY <2>2, <2>3, <2>4, <2>5
<1>5. ASSUME NEW o \in Trie' \ {0} PROVE \E q \in Trie', f \in Fields : link'[q][f] = o
  <2>1. CASE o = fresh
    <3>1. slot[1] \in Trie' /\ slot[2] \in Fields
      BY DEF Fields
    <3> QED
      BY <2>1, <3>1
  <2>2. CASE o \in Trie
    <3>1. PICK q \in Trie, f \in Fields : link[q][f] = o
      BY <1>5, <2>2 DEF TreeShape
    <3>2. q # slot[1] \/ f # slot[2]
      BY <1>5, <3>1
    <3> QED
      BY <3>1, <3>2
  <2> QED
    BY <2>1, <2>2
<1>6. UNCHANGED <<ename, elong, path, under, room, added>>
  OBVIOUS
<1> HIDE DEF LinkedNode
<1> QED
  BY <1>1, <1>2, <1>3, <1>4, <1>5, <1>6 DEF TreeShape

LEMMA LinkNodeFree ==
  ASSUME TypeOK, Disjoint, Blank, NodesPlaced, FreeLinks, LinkedNode
  PROVE  FreeLinks'
<1> DEFINE Sides == {"left", "right"}
<1> USE DEF LinkedNode
<1>1. \A o, f : Gap(o, f)' = Gap(o, f)
  BY DEF Gap
<1>2. Trie \subseteq Offsets /\ Sides \subseteq Fields /\ "children" \in Fields
      /\ \A o \in Trie \ {0} : under[o] \in Trie
  BY TrieFacts DEF Fields, NodesPlaced
(* A free link of the trie was free before. *)
<1>3. \A o \in Trie, f \in Fields : link'[o][f] = 0 => link[o][f] = 0 /\ ~ (o = slot[1] /\ f = slot[2])
  OBVIOUS
(* The place where the node goes is the only one for its segment. *)
<1>4. ASSUME NEW q \in Trie \ {0}, under[q] = wcur
      PROVE  /\ slot[2] \in Sides /\ slot[1] \in Trie \ {0} /\ under[slot[1]] = wcur
             /\ seg[q] \notin Gap(slot[1], slot[2])
             /\ \A g \in Sides : link'[q][g] = 0 => Gap(q, g) \cap Gap(slot[1], slot[2]) = {}
  <2>1. ~ (slot[1] = wcur /\ slot[2] = "children")
    BY <1>4 DEF FreeLinks
  <2>2. slot[2] \in Sides /\ slot[1] \in Trie \ {0} /\ under[slot[1]] = wcur
    BY <2>1
  <2>3. seg[q] \notin Gap(slot[1], slot[2])
    BY <1>4, <2>2 DEF FreeLinks
  <2>4. ASSUME NEW g \in Sides, link'[q][g] = 0, Gap(q, g) \cap Gap(slot[1], slot[2]) # {} PROVE FALSE
    <3>1. link[q][g] = 0 /\ ~ (q = slot[1] /\ g = slot[2])
      BY <1>2, <1>3, <1>4, <2>4
    <3>2. \A o1, q1 \in Trie \ {0}, f1, g1 \in Sides :
            under[o1] = under[q1] /\ link[o1][f1] = 0 /\ link[q1][g1] = 0 /\ Gap(o1, f1) \cap Gap(q1, g1) # {}
              => o1 = q1 /\ f1 = g1
      BY DEF FreeLinks
    <3>3. link[slot[1]][slot[2]] = 0
      OBVIOUS
    <3> QED
      BY <1>4, <2>2, <2>4, <3>1, <3>2, <3>3, g \in Sides
  <2> QED
    BY <2>2, <2>3, <2>4
<1>5. /\ \A f \in Sides : Gap(fresh, f) \subseteq Gap(slot[1], slot[2]) /\ seg[fresh] \notin Gap(fresh, f)
      /\ seg[fresh] \in Gap(slot[1], slot[2])
      /\ Gap(fresh, "left") \cap Gap(fresh, "right") = {}
  <2>1. room[fresh] \subseteq Nat /\ seg[fresh] \in Nat
    BY SegmentsAreNat DEF TypeOK
  <2>2. \A f \in Sides : Gap(fresh, f) \subseteq room[fresh]
    BY DEF Gap
  <2>3. \A f \in Sides : seg[fresh] \notin Gap(fresh, f)
    BY <2>1 DEF Gap
  <2>4. \A x \in room[fresh] : ~ (x < seg[fresh] /\ x > seg[fresh])
    BY <2>1
  <2>5. Gap(fresh, "left") \cap Gap(fresh, "right") = {}
    BY <2>4 DEF Gap
  <2>6. room[fresh] = Gap(slot[1], slot[2]) /\ seg[fresh] \in room[fresh]
    OBVIOUS
  <2> QED
    BY <2>2, <2>3, <2>5, <2>6
<1>6. ASSUME NEW o \in Trie', link'[o]["children"] = 0, NEW q \in Trie' \ {0} PROVE under[q] # o
  <2>1. CASE o = fresh
    BY <1>2, <1>6, <2>1
  <2>2. CASE o \in Trie /\ q = fresh
    <3>1. CASE slot[1] = wcur /\ slot[2] = "children"
      BY <1>2, <1>3, <1>6, <2>2, <3>1
    <3>2. CASE slot[1] # 0 /\ under[slot[1]] = wcur
      <4>1. o = wcur => link[wcur]["children"] = 0
        BY <1>2, <1>3, <1>6, <2>2
      <4> QED
        BY <2>2, <3>2, <4>1 DEF FreeLinks
    <3> QED
      BY <3>1, <3>2
  <2>3. CASE o \in Trie /\ q \in Trie
    BY <1>2, <1>3, <1>6, <2>3 DEF FreeLinks
  <2> QED
    BY <1>6, <2>1, <2>2, <2>3
<1>7. ASSUME NEW o \in Trie' \ {0}, NEW q \in Trie' \ {0}, NEW f \in Sides,
             under[o] = under[q], link'[o][f] = 0
      PROVE  seg[q] \notin Gap(o, f)
  <2>1. CASE o = fresh /\ q = fresh
    BY <1>5, <2>1, f \in Sides
  <2>2. CASE o = fresh /\ q # fresh
    <3>1. q \in Trie \ {0} /\ under[q] = wcur
      BY <1>7, <2>2
    <3> QED
      BY <1>4, <1>5, <2>2, <3>1, f \in Sides
  <2>3. CASE o # fresh /\ q = fresh
    <3>1. o \in Trie \ {0} /\ under[o] = wcur
      BY <1>7, <2>3
    <3>2. Gap(o, f) \cap Gap(slot[1], slot[2]) = {}
      BY <1>4, <1>7, <3>1
    <3> QED
      BY <1>5, <2>3, <3>2
  <2>4. CASE o # fresh /\ q # fresh
    <3>1. o \in Trie \ {0} /\ q \in Trie \ {0} /\ link[o][f] = 0
      BY <1>2, <1>3, <1>7, <2>4
    <3> QED
      BY <1>7, <3>1 DEF FreeLinks
  <2> QED
    BY <2>1, <2>2, <2>3, <2>4
<1>8. ASSUME NEW o \in Trie' \ {0}, NEW q \in Trie' \ {0}, NEW f \in Sides, NEW g \in Sides,
             under[o] = under[q], link'[o][f] = 0, link'[q][g] = 0, Gap(o, f) \cap Gap(q, g) # {}
      PROVE  o = q /\ f = g
  <2>1. CASE o = fresh /\ q = fresh
    BY <1>5, <1>8, <2>1
  <2>2. CASE o = fresh /\ q # fresh
    <3>1. q \in Trie \ {0} /\ under[q] = wcur
      BY <1>8, <2>2
    <3>2. Gap(q, g) \cap Gap(slot[1], slot[2]) = {}
      BY <1>4, <1>8, <3>1
    <3>3. Gap(fresh, f) \subseteq Gap(slot[1], slot[2])
      BY <1>5, f \in Sides
    <3> QED
      BY <1>8, <2>2, <3>2, <3>3
  <2>3. CASE o # fresh /\ q = fresh
    <3>1. o \in Trie \ {0} /\ under[o] = wcur
      BY <1>8, <2>3
    <3>2. Gap(o, f) \cap Gap(slot[1], slot[2]) = {}
      BY <1>4, <1>8, <3>1
    <3>3. Gap(fresh, g) \subseteq Gap(slot[1], slot[2])
      BY <1>5, g \in Sides
    <3> QED
      BY <1>8, <2>3, <3>2, <3>3
  <2>4. CASE o # fresh /\ q # fresh
    <3>1. o \in Trie \ {0} /\ q \in Trie \ {0}
      BY <1>8, <2>4
    <3>2. link[o][f] = 0 /\ link[q][g] = 0
      BY <1>2, <1>3, <1>8, <3>1
    <3>3. \A o1, q1 \in Trie \ {0}, f1, g1 \in Sides :
            under[o1] = under[q1] /\ link[o1][f1] = 0 /\ link[q1][g1] = 0 /\ Gap(o1, f1) \cap Gap(q1, g1) # {}
              => o1 = q1 /\ f1 = g1
      BY DEF FreeLinks
    <3>4. under[o] = under[q] /\ Gap(o, f) \cap Gap(q, g) # {}
      BY <1>8
    <3> QED
      BY <3>1, <3>2, <3>3, <3>4, f \in Sides, g \in Sides
  <2> QED
    BY <2>1, <2>2, <2>3, <2>4
(* No other node has the new node's name. *)
<1>9. ASSUME NEW q \in Trie, path[q] = path[fresh] PROVE FALSE
  <2>1. /\ path[wcur] \in Seq(Nat) /\ seg[fresh] \in Nat /\ path[q] = Append(path[wcur], seg[fresh])
        /\ wcur \in Trie
    BY <1>2, <1>9 DEF TypeOK
  <2> HIDE DEF LinkedNode
  <2>2. Append(path[wcur], seg[fresh]) # <<>>
    BY <2>1, AppendProperties
  <2>3. q # 0
    BY <2>1, <2>2 DEF Blank
  <2>4. under[q] \in Trie /\ path[q] = Append(path[under[q]], seg[q])
    BY <1>9, <2>3 DEF NodesPlaced
  <2>5. path[under[q]] \in Seq(Nat) /\ seg[q] \in Nat
    <3>1. q \in Offsets /\ under[q] \in Offsets
      BY <1>2, <1>9, <2>4
    <3> QED
      BY <3>1 DEF TypeOK
  <2>6. path[under[q]] = path[wcur] /\ seg[q] = seg[fresh]
    <3>1. Append(path[under[q]], seg[q]) = Append(path[wcur], seg[fresh])
      BY <2>1, <2>4
    <3>2. \A x, y \in Nat, t, u \in Seq(Nat) : Append(t, x) = Append(u, y) => t = u /\ x = y
      BY AppendInjective
    <3> QED
      BY <2>1, <2>5, <3>1, <3>2
  <2>7. under[q] = wcur
    BY <2>1, <2>4, <2>6 DEF FreeLinks
  <2> QED
    BY <1>4, <1>5, <1>9, <2>3, <2>6, <2>7
<1>10. ASSUME NEW o \in Trie', NEW q \in Trie', path[o] = path[q] PROVE o = q
  <2>1. CASE o \in Trie /\ q \in Trie
    BY <1>10, <2>1 DEF FreeLinks
  <2>2. CASE o = fresh \/ q = fresh
    BY <1>9, <1>10, <2>2
  <2> QED
    BY <2>1, <2>2
<1>11. UNCHANGED <<seg, path, under, room>>
  OBVIOUS
<1> HIDE DEF LinkedNode
<1> QED
  BY <1>1, <1>6, <1>7, <1>8, <1>10, <1>11 DEF FreeLinks

LEMMA LinkNodeInv ==
  ASSUME Inv, LinkNode
  PROVE  Inv'
<1> USE DEF Inv, AreaInv
<1>1. LinkedNode
  BY LinkNodeFacts
<1>2. /\ wpc = "linkNode" /\ wpc' = "bst" /\ wat' = fresh /\ link' = [link EXCEPT ![slot[1]][slot[2]] = fresh]
      /\ UNCHANGED <<wname, wk, wcur, wsteps, fresh, wlong, slot, wres>>
      /\ UNCHANGED <<rpc, rname, rk, rcur, rat, steps, must>>
  BY DEF LinkNode, At, Goto, rvars
<1>3. /\ UNCHANGED <<used, size, seg, ename, elong, path, under, room, added>>
      /\ Trie' = Trie \cup {fresh} /\ fresh \notin Trie /\ fresh \in Offsets /\ fresh # 0
      /\ slot[1] \in Trie /\ wcur \in Trie /\ slot[1] < fresh
      /\ seg[fresh] \in room[fresh] /\ under[fresh] = wcur /\ path[fresh] = Append(path[wcur], seg[fresh])
  BY <1>1 DEF LinkedNode
<1>4. /\ wname \in Names /\ wk \in 1 .. Len(wname) /\ path[wcur] = Prefix(wname, wk - 1)
      /\ (\A k \in 1 .. (wk - 1) : \E o \in Trie : path[o] = Prefix(wname, k))
      /\ wsteps = 0 \/ HeaderSize + wsteps * NodeSize <= slot[1]
  BY <1>2 DEF WriterAt
<1>5. /\ fresh >= HeaderSize /\ size[fresh] = NodeSize /\ wlong = 0 /\ seg[fresh] = wname[wk]
  BY <1>2 DEF FreshAt
<1>6. TypeOK'
  <2>1. link' \in [Offsets -> [Fields -> Offsets]]
    BY <1>2, <1>3 DEF TypeOK
  <2> QED
    BY <1>2, <1>3, <2>1 DEF TypeOK
<1>7. Disjoint' /\ Allocated' = Allocated
  BY <1>3 DEF Disjoint, Allocated
<1>8. Blank'
  <2>1. \A o \in Offsets \ Trie' : link'[o] = link[o]
    BY <1>2, <1>3 DEF TypeOK
  <2> QED
    BY <1>3, <1>7, <2>1 DEF Blank
<1>9. NodesPlaced'
  BY <1>3, <1>5 DEF NodesPlaced
<1>10. TreeShape' /\ FreeLinks'
  BY <1>1, LinkNodeTree, LinkNodeFree
<1>11. AddedReachable'
  <2>1. \A o \in Trie : link'[o]["prop"] = link[o]["prop"]
    BY <1>1 DEF LinkedNode, Fields
  <2> QED
    BY <1>3, <2>1 DEF AddedReachable
<1>12. WriterAt'
  <2>1. HeaderSize + wsteps * NodeSize <= fresh
    <3>1. CASE wsteps = 0
      BY <1>3, <1>5, <3>1, Sizes
    <3>2. CASE HeaderSize + wsteps * NodeSize <= slot[1]
      <4>1. wsteps \in Nat /\ wsteps * NodeSize \in Nat
        BY StepsFromZero, Sizes DEF TypeOK
      <4>2. slot[1] \in Nat /\ fresh \in Nat
        BY <1>3, TrieFacts, Sizes
      <4> QED
        BY <1>3, <3>2, <4>1, <4>2, Sizes
    <3> QED
      BY <1>4, <3>1, <3>2
  <2>2. /\ wat' \in Trie' \ {0} /\ under'[wat'] = wcur' /\ wname'[wk'] \in room'[wat']
        /\ HeaderSize + wsteps' * NodeSize <= wat'
    BY <1>2, <1>3, <1>5, <2>1
  <2> QED
    BY <1>2, <1>3, <1>4, <2>2 DEF WriterAt
<1>13. FreshAt'
  BY <1>2, <1>5 DEF FreshAt
<1>14. FindCorrect'
  <2>1. Grows
    BY <1>3 DEF Grows
  <2> QED
    BY <1>2, <2>1, ReadersKept DEF FindCorrect
<1> QED
  BY <1>6, <1>7, <1>8, <1>9, <1>10, <1>11, <1>12, <1>13, <1>14

-----------------------------------------------------------------------------
(* The entry is written, then published.                                   *)

LEMMA InitInfoInv ==
  ASSUME Inv, InitInfo
  PROVE  Inv'
<1> USE DEF Inv, AreaInv
<1>1. /\ wpc = "initInfo" /\ wpc' = "linkProp"
      /\ ename' = [ename EXCEPT ![fresh] = wname] /\ elong' = [elong EXCEPT ![fresh] = wlong]
      /\ UNCHANGED <<used, size, seg, link, path, under, room, added>>
      /\ UNCHANGED <<wname, wk, wcur, wat, wsteps, fresh, wlong, slot, wres>>
      /\ UNCHANGED <<rpc, rname, rk, rcur, rat, steps, must>>
  BY DEF InitInfo, At, Goto, hvars, rvars
<1>2. /\ fresh # 0 /\ size[fresh] = InfoSize /\ seg[fresh] = 0 /\ fresh \in Offsets
      /\ (\A o \in Trie, f \in Fields : link[o][f] # fresh)
      /\ ename[fresh] = NoName /\ elong[fresh] = 0
      /\ wlong # 0 => wlong - fresh >= InfoSize /\ size[wlong] = LongSize
  BY <1>1 DEF FreshAt, TypeOK
<1>3. Trie' = Trie
  BY <1>1 DEF Trie
<1>4. /\ ename'[fresh] = wname /\ elong'[fresh] = wlong /\ fresh \in Allocated
      /\ \A o \in Offsets : o # fresh => ename'[o] = ename[o] /\ elong'[o] = elong[o]
  BY <1>1, <1>2, Sizes DEF TypeOK, Allocated
<1>5. TypeOK'
  <2>1. ename' \in [Offsets -> Names \cup {NoName}] /\ elong' \in [Offsets -> Offsets]
    BY <1>1 DEF TypeOK
  <2> QED
    BY <1>1, <2>1 DEF TypeOK
<1>6. Allocated' = Allocated /\ \A o, f : Gap(o, f)' = Gap(o, f)
  BY <1>1 DEF Allocated, Gap
<1>7. Disjoint'
  <2>1. ASSUME NEW o \in Offsets, elong'[o] # 0
        PROVE  elong'[o] - o >= InfoSize /\ size[elong'[o]] = LongSize
    <3>1. CASE o = fresh
      BY <1>2, <1>4, <2>1, <3>1
    <3>2. CASE o # fresh
      BY <1>4, <2>1, <3>2 DEF Disjoint
    <3> QED
      BY <3>1, <3>2
  <2> QED
    BY <1>1, <1>6, <2>1 DEF Disjoint
<1>8. Blank' /\ NodesPlaced' /\ AddedReachable'
  BY <1>1, <1>3, <1>4, <1>6 DEF Blank, NodesPlaced, AddedReachable
<1>9. TreeShape'
  <2>1. \A o \in Trie, f \in Fields : ename'[link[o][f]] = ename[link[o][f]] /\ elong'[link[o][f]] = elong[link[o][f]]
    <3>1. \A o \in Trie, f \in Fields : link[o][f] \in Offsets
      <4>1. link \in [Offsets -> [Fields -> Offsets]] /\ Trie \subseteq Offsets
        BY TrieFacts DEF TypeOK
      <4> QED
        BY <4>1
    <3> QED
      BY <1>2, <1>4, <3>1
  <2> QED
    BY <1>1, <1>3, <1>6, <2>1 DEF TreeShape
<1>10. FreeLinks'
  BY <1>1, <1>3, <1>6 DEF FreeLinks
<1>11. WriterAt'
  BY <1>1, <1>3 DEF WriterAt
<1>12. FreshAt'
  BY <1>1, <1>2, <1>3, <1>4 DEF FreshAt
<1>13. FindCorrect'
  <2>1. Grows
    BY <1>1, <1>2, <1>3, <1>4 DEF Grows
  <2> QED
    BY <1>1, <2>1, ReadersKept DEF FindCorrect
<1> QED
  BY <1>5, <1>7, <1>8, <1>9, <1>10, <1>11, <1>12, <1>13

LEMMA LinkPropInv ==
  ASSUME Inv, LinkProp
  PROVE  Inv'
<1> USE DEF Inv, AreaInv
<1>1. /\ wpc = "linkProp" /\ link' = [link EXCEPT ![wcur]["prop"] = fresh] /\ added' = added \cup {wname}
      /\ UNCHANGED <<used, size, seg, ename, elong, path, under, room>>
      /\ UNCHANGED <<rpc, rname, rk, rcur, rat, steps, must>>
      /\ wpc' = "idle" /\ wres' = "ok" /\ wname' = NoName /\ wk' = 0 /\ wcur' = 0 /\ wat' = 0
      /\ wsteps' = 0 /\ fresh' = 0 /\ wlong' = 0 /\ slot' = <<0, "prop">>
  BY DEF LinkProp, AddReturns, At, Goto, rvars
<1>2. /\ fresh # 0 /\ size[fresh] = InfoSize /\ fresh \in Offsets
      /\ (\A o \in Trie, f \in Fields : link[o][f] # fresh)
      /\ ename[fresh] = wname /\ elong[fresh] = wlong /\ (wlong # 0 <=> wname \in LongNames)
  BY <1>1 DEF FreshAt, TypeOK
<1>3. /\ wname \in Names /\ wcur \in Trie \ {0} /\ path[wcur] = wname /\ wk = Len(wname)
      /\ (\A k \in 1 .. (wk - 1) : \E o \in Trie : path[o] = Prefix(wname, k))
      /\ link[wcur]["prop"] = 0 /\ wcur \in Offsets
  BY <1>1 DEF WriterAt, TypeOK
<1>4. Trie' = Trie /\ Trie \subseteq Offsets /\ fresh \in Allocated
  BY <1>1, <1>2, TrieFacts, Sizes DEF Trie, Allocated
<1>5. /\ link'[wcur]["prop"] = fresh
      /\ \A o \in Offsets, f \in Fields : o # wcur \/ f # "prop" => link'[o][f] = link[o][f]
      /\ \A o \in Offsets : o # wcur => link'[o] = link[o]
      /\ link' \in [Offsets -> [Fields -> Offsets]]
  <2>1. link \in [Offsets -> [Fields -> Offsets]] /\ "prop" \in Fields
    BY DEF TypeOK, Fields
  <2> QED
    BY <1>1, <1>2, <1>3, <2>1
<1>6. Allocated' = Allocated /\ \A o, f : Gap(o, f)' = Gap(o, f)
  BY <1>1 DEF Allocated, Gap
<1>7. TypeOK'
  <2>1. slot' \in Offsets \X Fields
    BY <1>1, Sizes DEF Fields
  <2>2. added' \subseteq Names
    BY <1>1, <1>3 DEF TypeOK
  <2>3. wk' \in Nat /\ wsteps' \in 0 .. MaxSteps /\ {fresh', wlong', wcur', wat'} \subseteq Offsets
    BY <1>1, StepsFromZero, Sizes
  <2> QED
    BY <1>1, <1>5, <2>1, <2>2, <2>3 DEF TypeOK
<1>8. Disjoint' /\ NodesPlaced'
  BY <1>1, <1>4, <1>6 DEF Disjoint, NodesPlaced
<1>9. Blank'
  BY <1>1, <1>3, <1>4, <1>5, <1>6 DEF Blank
<1>10. TreeShape'
  <2>1. ASSUME NEW o \in Trie, NEW f \in Fields, link'[o][f] # 0
        PROVE  IF f = "prop"
               THEN /\ o # 0 /\ link'[o][f] \in Allocated
                    /\ ename[link'[o][f]] = path[o] /\ path[o] \in added'
                    /\ elong[link'[o][f]] # 0 <=> path[o] \in LongNames
               ELSE /\ link'[o][f] \in Trie \ {0} /\ o < link'[o][f]
                    /\ f = "children" \/ o # 0
                    /\ room[link'[o][f]] = Gap(o, f)
                    /\ under[link'[o][f]] = IF f = "children" THEN o ELSE under[o]
    <3>1. CASE o = wcur /\ f = "prop"
      BY <1>1, <1>2, <1>3, <1>4, <1>5, <3>1
    <3>2. CASE o # wcur \/ f # "prop"
      <4>1. link'[o][f] = link[o][f]
        BY <1>4, <1>5, <3>2
      <4> QED
        BY <1>1, <2>1, <4>1 DEF TreeShape
    <3> QED
      BY <3>1, <3>2
  <2>2. ASSUME NEW o \in Trie, NEW q \in Trie, NEW f \in Fields, NEW g \in Fields,
               link'[o][f] # 0, link'[o][f] = link'[q][g]
        PROVE  o = q /\ f = g
    <3>1. CASE (o = wcur /\ f = "prop") /\ ~ (q = wcur /\ g = "prop")
      <4>1. link'[o][f] = fresh /\ link'[q][g] = link[q][g]
        BY <1>4, <1>5, <3>1
      <4> QED
        BY <1>2, <2>2, <4>1
    <3>2. CASE ~ (o = wcur /\ f = "prop") /\ (q = wcur /\ g = "prop")
      BY <1>2, <1>4, <1>5, <2>2, <3>2
    <3>3. CASE ~ (o = wcur /\ f = "prop") /\ ~ (q = wcur /\ g = "prop")
      <4>1. link'[o][f] = link[o][f] /\ link'[q][g] = link[q][g]
        BY <1>4, <1>5, <3>3
      <4>2. \A o1, q1 \in Trie, f1, g1 \in Fields :
              link[o1][f1] # 0 /\ link[o1][f1] = link[q1][g1] => o1 = q1 /\ f1 = g1
        BY DEF TreeShape
      <4>3. link[o][f] # 0 /\ link[o][f] = link[q][g]
        BY <2>2, <4>1
      <4> QED
        BY <4>2, <4>3, o \in Trie, q \in Trie, f \in Fields, g \in Fields
    <3> QED
      BY <3>1, <3>2, <3>3
  <2>3. ASSUME NEW o \in Trie \ {0} PROVE \E q \in Trie, f \in Fields : link'[q][f] = o
    <3>1. PICK q \in Trie, f \in Fields : link[q][f] = o
      BY DEF TreeShape
    <3>2. q # wcur \/ f # "prop"
      BY <1>3, <3>1
    <3> QED
      BY <1>4, <1>5, <3>1, <3>2
  <2> QED
    BY <1>1, <1>4, <1>6, <2>1, <2>2, <2>3 DEF TreeShape
<1>11. FreeLinks'
  <2>1. \A o \in Trie, f \in {"left", "right", "children"} : link'[o][f] = link[o][f]
    BY <1>4, <1>5 DEF Fields
  <2> QED
    BY <1>1, <1>4, <1>6, <2>1 DEF FreeLinks
<1>12. AddedReachable'
  <2> SUFFICES ASSUME NEW n \in added'
               PROVE  /\ \A k \in 1 .. Len(n) : \E o \in Trie : path[o] = Prefix(n, k)
                      /\ \E o \in Trie : path[o] = n /\ link'[o]["prop"] # 0
    BY <1>1, <1>4 DEF AddedReachable
  <2>1. CASE n = wname
    <3>1. ASSUME NEW k \in 1 .. Len(wname) PROVE \E o \in Trie : path[o] = Prefix(wname, k)
      <4>1. k \in 1 .. (wk - 1) \/ k = Len(wname)
        BY <1>3, NameFacts
      <4> QED
        BY <1>3, <4>1, NameFacts
    <3> QED
      BY <1>2, <1>3, <1>5, <2>1, <3>1
  <2>2. CASE n \in added
    <3>1. PICK o \in Trie : path[o] = n /\ link[o]["prop"] # 0
      BY <2>2 DEF AddedReachable
    <3>2. link'[o]["prop"] # 0
      BY <1>3, <1>4, <1>5, <3>1 DEF Fields
    <3> QED
      BY <2>2, <3>1, <3>2 DEF AddedReachable
  <2> QED
    BY <1>1, <2>1, <2>2
<1>13. WriterAt' /\ FreshAt'
  BY <1>1 DEF WriterAt, FreshAt
<1>14. FindCorrect'
  <2>1. Grows
    BY <1>1, <1>4 DEF Grows
  <2> QED
    BY <1>1, <2>1, ReadersKept
<1> QED
  BY <1>7, <1>8, <1>9, <1>10, <1>11, <1>12, <1>13, <1>14

-----------------------------------------------------------------------------
(* find.                                                                   *)

(* What FindCorrect says of one find. *)
FindOK(r) ==
  /\ rpc[r] = "found" =>
       /\ ename[rat[r]] = rname[r]
       /\ rname[r] \in LongNames <=> elong[rat[r]] # 0
  /\ rpc[r] = "none" => ~ must[r]
  /\ rpc[r] # "corrupt"
  /\ ReaderAt(r)

(* A name that was added has a node for its next segment under the node for *)
(* the segments before.                                                     *)
LEMMA NextNode ==
  ASSUME AreaInv, NEW n \in added, NEW k \in 1 .. Len(n), NEW c \in Trie, path[c] = Prefix(n, k - 1)
  PROVE  \E q \in Trie \ {0} : under[q] = c /\ seg[q] = n[k]
<1> USE DEF AreaInv
<1>1. n \in Names
  BY DEF TypeOK
<1>2. PICK q \in Trie : path[q] = Prefix(n, k)
  BY DEF AddedReachable
<1>3. /\ path[q] = Append(path[c], n[k]) /\ path[c] \in Seq(Nat) /\ n[k] \in Nat
  BY <1>1, <1>2, PrefixStep, NameFacts
<1>4. path[q] # <<>>
  <2>1. Append(path[c], n[k]) # <<>>
    BY <1>3, AppendProperties
  <2> QED
    BY <1>3, <2>1
<1>5. q # 0
  BY <1>4 DEF Blank
<1>6. under[q] \in Trie /\ path[q] = Append(path[under[q]], seg[q])
  BY <1>5 DEF NodesPlaced
<1>7. path[under[q]] \in Seq(Nat) /\ seg[q] \in Nat
  <2>1. q \in Offsets /\ under[q] \in Offsets
    BY <1>6, TrieFacts
  <2> QED
    BY <2>1 DEF TypeOK
<1>8. path[under[q]] = path[c] /\ seg[q] = n[k]
  <2>1. Append(path[under[q]], seg[q]) = Append(path[c], n[k])
    BY <1>3, <1>6
  <2>2. \A x, y \in Nat, t, u \in Seq(Nat) : Append(t, x) = Append(u, y) => t = u /\ x = y
    BY AppendInjective
  <2> QED
    BY <1>3, <1>7, <2>1, <2>2
<1>9. under[q] = c
  BY <1>6, <1>8 DEF FreeLinks
<1> QED
  BY <1>5, <1>8, <1>9

(* A step of one find touches neither the area nor add nor another find. *)
LEMMA FindStepKept ==
  ASSUME Inv, NEW r \in Readers, UNCHANGED <<heap, wvars, hvars>>, TypeOK', FindOK(r)',
         \A q \in Readers \ {r} :
           /\ rpc'[q] = rpc[q] /\ rname'[q] = rname[q] /\ rk'[q] = rk[q] /\ rcur'[q] = rcur[q]
           /\ rat'[q] = rat[q] /\ steps'[q] = steps[q] /\ must'[q] = must[q]
  PROVE  Inv'
<1> USE DEF Inv, AreaInv
<1>1. /\ UNCHANGED <<used, size, seg, link, ename, elong, path, under, room, added>>
      /\ UNCHANGED <<wpc, wname, wk, wcur, wat, wsteps, fresh, wlong, slot, wres>>
  BY DEF heap, wvars, hvars
<1>2. Trie' = Trie
  BY <1>1 DEF Trie
<1>3. Heap'
  BY <1>1, <1>2, HeapKept DEF Heap
<1>4. WriterAt' /\ FreshAt'
  BY <1>1, <1>2 DEF WriterAt, FreshAt, Gap
<1>5. ASSUME NEW q \in Readers PROVE FindOK(q)'
  <2>1. CASE q = r
    BY <2>1
  <2>2. CASE q # r
    BY <1>1, <1>2, <2>2 DEF FindCorrect, FindOK, ReaderAt
  <2> QED
    BY <2>1, <2>2
<1>6. FindCorrect'
  BY <1>1, <1>5 DEF FindCorrect, FindOK
<1> QED
  BY <1>3, <1>4, <1>6 DEF Heap

LEMMA FindCallInv ==
  ASSUME Inv, NEW r \in Readers, NEW n \in Names, FindCall(r, n)
  PROVE  Inv'
<1> USE DEF Inv, AreaInv
<1>1. /\ UNCHANGED <<heap, wvars, hvars>>
      /\ UNCHANGED <<used, size, seg, link, ename, elong, path, under, room, added>>
      /\ UNCHANGED <<wpc, wname, wk, wcur, wat, wsteps, fresh, wlong, slot, wres>>
  BY DEF FindCall, heap, wvars, hvars
<1>2. TypeOK'
  <2>1. /\ rpc' \in [Readers -> {"idle", "children", "bst", "prop", "found", "none", "corrupt"}]
        /\ rname' \in [Readers -> Names \cup {NoName}] /\ rk' \in [Readers -> Nat]
        /\ rcur' \in [Readers -> Offsets] /\ rat' \in [Readers -> Offsets] /\ steps' \in [Readers -> Nat]
    BY Sizes DEF FindCall, RGoto, TypeOK
  <2>2. must' \in [Readers -> BOOLEAN]
    <3>1. (n \in added) \in BOOLEAN
      OBVIOUS
    <3>2. must' = [must EXCEPT ![r] = n \in added] /\ must \in [Readers -> BOOLEAN]
      BY DEF FindCall, TypeOK
    <3> QED
      BY <3>1, <3>2
  <2> QED
    BY <1>1, <2>1, <2>2 DEF TypeOK
<1>3. /\ rpc'[r] = "children" /\ rname'[r] = n /\ rk'[r] = 1 /\ rcur'[r] = 0 /\ must'[r] = (n \in added)
      /\ \A q \in Readers \ {r} :
           /\ rpc'[q] = rpc[q] /\ rname'[q] = rname[q] /\ rk'[q] = rk[q] /\ rcur'[q] = rcur[q]
           /\ rat'[q] = rat[q] /\ steps'[q] = steps[q] /\ must'[q] = must[q]
  BY DEF FindCall, RGoto, TypeOK
<1>4. 0 \in Trie' /\ path'[0] = <<>> /\ 1 \in 1 .. Len(n) /\ Prefix(n, 0) = <<>>
  BY <1>1, NameFacts DEF Trie, Blank
<1>5. must'[r] => n \in added'
  BY <1>1, <1>3, Zenon
<1>6. FindOK(r)'
  <2>1. rpc'[r] = "children" /\ rname'[r] = n /\ rk'[r] = 1 /\ rcur'[r] = 0
    BY <1>3
  <2> QED
    BY <1>4, <1>5, <2>1 DEF FindOK, ReaderAt
<1> QED
  BY <1>1, <1>2, <1>3, <1>6, FindStepKept

LEMMA FindChildrenInv ==
  ASSUME Inv, NEW r \in Readers, FindChildren(r)
  PROVE  Inv'
<1> USE DEF Inv, AreaInv
<1> DEFINE c == link[rcur[r]]["children"]
<1>1. /\ UNCHANGED <<heap, wvars, hvars>> /\ rpc[r] = "children"
      /\ UNCHANGED <<used, size, seg, link, ename, elong, path, under, room, added>>
      /\ UNCHANGED <<wpc, wname, wk, wcur, wat, wsteps, fresh, wlong, slot, wres>>
  BY DEF FindChildren, heap, wvars, hvars
<1>2. /\ rname[r] \in Names /\ (must[r] => rname[r] \in added)
      /\ rcur[r] \in Trie /\ rk[r] \in 1 .. Len(rname[r])
      /\ path[rcur[r]] = Prefix(rname[r], rk[r] - 1)
  BY <1>1 DEF FindCorrect, ReaderAt
<1>3. c \in Offsets
  BY <1>2, TrieFacts DEF TypeOK, Fields
<1>4. /\ rpc' = [rpc EXCEPT ![r] = IF c = 0 THEN "none" ELSE "bst"]
      /\ rat' = [rat EXCEPT ![r] = c] /\ steps' = [steps EXCEPT ![r] = 0]
      /\ UNCHANGED <<rname, rk, rcur, must>>
  BY DEF FindChildren, RGoto
<1>5. TypeOK'
  <2>1. /\ rpc' \in [Readers -> {"idle", "children", "bst", "prop", "found", "none", "corrupt"}]
        /\ rat' \in [Readers -> Offsets] /\ steps' \in [Readers -> Nat]
    <3>1. (IF c = 0 THEN "none" ELSE "bst") \in {"none", "bst"}
      OBVIOUS
    <3> HIDE DEF c
    <3> QED
      BY <1>3, <1>4, <3>1 DEF TypeOK
  <2> QED
    BY <1>1, <1>4, <2>1 DEF TypeOK
<1>6. /\ rpc'[r] = (IF c = 0 THEN "none" ELSE "bst") /\ rat'[r] = c /\ steps'[r] = 0
      /\ \A q \in Readers \ {r} : rpc'[q] = rpc[q] /\ rat'[q] = rat[q] /\ steps'[q] = steps[q]
  BY <1>4 DEF TypeOK
<1>7. Trie' = Trie
  BY <1>1 DEF Trie
<1>8. CASE c = 0
  <2>1. ~ must[r]
    <3> SUFFICES ASSUME must[r] PROVE FALSE
      OBVIOUS
    <3>1. \E q \in Trie \ {0} : under[q] = rcur[r]
      BY <1>2, NextNode
    <3> QED
      BY <1>2, <1>8, <3>1 DEF FreeLinks
  <2>2. FindOK(r)'
    BY <1>1, <1>2, <1>4, <1>6, <1>8, <2>1 DEF FindOK, ReaderAt
  <2> QED
    BY <1>1, <1>4, <1>5, <1>6, <2>2, FindStepKept
<1>9. CASE c # 0
  <2>1. c \in Trie \ {0} /\ under[c] = rcur[r] /\ room[c] = Segments
    BY <1>2, <1>9 DEF TreeShape, Gap, Fields
  <2>2. c >= HeaderSize
    BY <2>1 DEF NodesPlaced
  <2>3. HeaderSize + 0 * NodeSize <= c
    BY <1>3, <2>2, Sizes
  <2>4. rname[r][rk[r]] \in Segments
    BY <1>2, NameFacts
  <2> HIDE DEF c
  <2>5. FindOK(r)'
    BY <1>1, <1>2, <1>4, <1>6, <1>7, <1>9, <2>1, <2>3, <2>4 DEF FindOK, ReaderAt
  <2> QED
    BY <1>1, <1>4, <1>5, <1>6, <2>5, FindStepKept
<1> QED
  BY <1>8, <1>9

LEMMA FindPropInv ==
  ASSUME Inv, NEW r \in Readers, FindProp(r)
  PROVE  Inv'
<1> USE DEF Inv, AreaInv
<1> DEFINE p == link[rcur[r]]["prop"]
<1>1. /\ UNCHANGED <<heap, wvars, hvars>> /\ rpc[r] = "prop"
      /\ UNCHANGED <<used, size, seg, link, ename, elong, path, under, room, added>>
      /\ UNCHANGED <<wpc, wname, wk, wcur, wat, wsteps, fresh, wlong, slot, wres>>
  BY DEF FindProp, heap, wvars, hvars
<1>2. /\ rname[r] \in Names /\ (must[r] => rname[r] \in added)
      /\ rcur[r] \in Trie /\ rk[r] \in 1 .. Len(rname[r]) /\ path[rcur[r]] = rname[r]
  BY <1>1 DEF FindCorrect, ReaderAt
<1>3. p \in Offsets
  BY <1>2, TrieFacts DEF TypeOK, Fields
<1>4. /\ rpc' = [rpc EXCEPT ![r] = IF p = 0 THEN "none" ELSE "found"]
      /\ rat' = [rat EXCEPT ![r] = p]
      /\ UNCHANGED <<rname, rk, rcur, must, steps>>
  BY DEF FindProp, RGoto
<1>5. TypeOK'
  <2>1. /\ rpc' \in [Readers -> {"idle", "children", "bst", "prop", "found", "none", "corrupt"}]
        /\ rat' \in [Readers -> Offsets]
    <3>1. (IF p = 0 THEN "none" ELSE "found") \in {"none", "found"}
      OBVIOUS
    <3> HIDE DEF p
    <3> QED
      BY <1>3, <1>4, <3>1 DEF TypeOK
  <2> QED
    BY <1>1, <1>4, <2>1 DEF TypeOK
<1>6. /\ rpc'[r] = (IF p = 0 THEN "none" ELSE "found") /\ rat'[r] = p
      /\ \A q \in Readers \ {r} : rpc'[q] = rpc[q] /\ rat'[q] = rat[q]
  BY <1>4 DEF TypeOK
<1>7. CASE p = 0
  <2>1. ~ must[r]
    <3> SUFFICES ASSUME must[r] PROVE FALSE
      OBVIOUS
    <3>1. PICK o \in Trie : path[o] = rname[r] /\ link[o]["prop"] # 0
      BY <1>2 DEF AddedReachable
    <3>2. o = rcur[r]
      BY <1>2, <3>1 DEF FreeLinks
    <3> QED
      BY <1>7, <3>1, <3>2
  <2>2. FindOK(r)'
    BY <1>1, <1>2, <1>4, <1>6, <1>7, <2>1 DEF FindOK, ReaderAt
  <2> QED
    BY <1>1, <1>4, <1>5, <1>6, <2>2, FindStepKept
<1>8. CASE p # 0
  <2>1. ename[p] = rname[r] /\ (elong[p] # 0 <=> rname[r] \in LongNames)
    BY <1>2, <1>8 DEF TreeShape, Fields
  <2> HIDE DEF p
  <2>2. FindOK(r)'
    BY <1>1, <1>2, <1>4, <1>6, <1>8, <2>1 DEF FindOK, ReaderAt
  <2> QED
    BY <1>1, <1>4, <1>5, <1>6, <2>2, FindStepKept
<1> QED
  BY <1>7, <1>8

LEMMA FindBstInv ==
  ASSUME Inv, NEW r \in Readers, FindBst(r)
  PROVE  Inv'
<1> USE DEF Inv, AreaInv
<1> DEFINE s == rname[r][rk[r]]
           t == seg[rat[r]]
           next == link[rat[r]][Side(s, t)]
<1>1. /\ UNCHANGED <<heap, wvars, hvars>> /\ rpc[r] = "bst" /\ UNCHANGED <<rname, must>>
      /\ UNCHANGED <<used, size, seg, link, ename, elong, path, under, room, added>>
      /\ UNCHANGED <<wpc, wname, wk, wcur, wat, wsteps, fresh, wlong, slot, wres>>
  BY DEF FindBst, heap, wvars, hvars
<1>2. /\ rname[r] \in Names /\ (must[r] => rname[r] \in added)
      /\ rcur[r] \in Trie /\ rk[r] \in 1 .. Len(rname[r])
      /\ path[rcur[r]] = Prefix(rname[r], rk[r] - 1)
      /\ rat[r] \in Trie \ {0} /\ under[rat[r]] = rcur[r] /\ s \in room[rat[r]]
      /\ HeaderSize + steps[r] * NodeSize <= rat[r]
  BY <1>1 DEF FindCorrect, ReaderAt
<1>3. rat[r] \in Offsets /\ Len(rname[r]) \in Nat /\ rk[r] \in Nat /\ steps[r] \in Nat
  BY <1>2, NameFacts DEF TypeOK
<1>4. Trie' = Trie
  BY <1>1 DEF Trie
<1>5. CASE /\ s = t
           /\ rpc' = [rpc EXCEPT ![r] = IF rk[r] < Len(rname[r]) THEN "children" ELSE "prop"]
           /\ rcur' = [rcur EXCEPT ![r] = rat[r]]
           /\ rk' = [rk EXCEPT ![r] = IF rk[r] < Len(rname[r]) THEN rk[r] + 1 ELSE rk[r]]
           /\ UNCHANGED <<rat, steps>>
  <2>1. path[rat[r]] = Prefix(rname[r], rk[r])
    BY <1>2, <1>5, PrefixStep DEF NodesPlaced
  <2>2. /\ rpc'[r] = (IF rk[r] < Len(rname[r]) THEN "children" ELSE "prop")
        /\ rcur'[r] = rat[r] /\ rk'[r] = (IF rk[r] < Len(rname[r]) THEN rk[r] + 1 ELSE rk[r])
        /\ \A q \in Readers \ {r} : rpc'[q] = rpc[q] /\ rcur'[q] = rcur[q] /\ rk'[q] = rk[q]
    BY <1>5 DEF TypeOK
  <2>3. TypeOK'
    <3>1. /\ (IF rk[r] < Len(rname[r]) THEN "children" ELSE "prop") \in {"children", "prop"}
          /\ (IF rk[r] < Len(rname[r]) THEN rk[r] + 1 ELSE rk[r]) \in Nat
      BY <1>3
    <3>2. /\ rpc' \in [Readers -> {"idle", "children", "bst", "prop", "found", "none", "corrupt"}]
          /\ rcur' \in [Readers -> Offsets] /\ rk' \in [Readers -> Nat]
      BY <1>3, <1>5, <3>1 DEF TypeOK
    <3> QED
      BY <1>1, <1>5, <3>2 DEF TypeOK
  <2>4. FindOK(r)'
    <3>1. CASE rk[r] < Len(rname[r])
      <4>1. rk'[r] \in 1 .. Len(rname[r]) /\ rk'[r] - 1 = rk[r] /\ rpc'[r] = "children"
        BY <1>2, <1>3, <2>2, <3>1
      <4> QED
        BY <1>1, <1>2, <1>4, <2>1, <2>2, <4>1 DEF FindOK, ReaderAt
    <3>2. CASE ~ (rk[r] < Len(rname[r]))
      <4>1. rk[r] = Len(rname[r]) /\ path[rat[r]] = rname[r] /\ rk'[r] = rk[r] /\ rpc'[r] = "prop"
        BY <1>2, <1>3, <2>1, <2>2, <3>2, NameFacts
      <4> QED
        BY <1>1, <1>2, <1>4, <2>2, <4>1 DEF FindOK, ReaderAt
    <3> QED
      BY <3>1, <3>2
  <2> QED
    BY <1>1, <1>5, <2>2, <2>3, <2>4, FindStepKept
<1>6. ASSUME s # t PROVE Side(s, t) \in {"left", "right"} /\ s \in Gap(rat[r], Side(s, t))
  BY <1>2, <1>3, <1>6, SideGap
<1>7. CASE /\ s # t /\ next = 0 /\ rpc' = [rpc EXCEPT ![r] = "none"]
           /\ UNCHANGED <<rcur, rk, rat, steps>>
  <2>1. rpc'[r] = "none" /\ \A q \in Readers \ {r} : rpc'[q] = rpc[q]
    BY <1>7 DEF TypeOK
  <2>2. TypeOK'
    <3>1. rpc' \in [Readers -> {"idle", "children", "bst", "prop", "found", "none", "corrupt"}]
      BY <1>7 DEF TypeOK
    <3> QED
      BY <1>1, <1>7, <3>1 DEF TypeOK
  <2>3. ~ must[r]
    <3> SUFFICES ASSUME must[r] PROVE FALSE
      OBVIOUS
    <3>1. PICK q \in Trie \ {0} : under[q] = rcur[r] /\ seg[q] = s
      BY <1>2, NextNode
    <3>2. seg[q] \notin Gap(rat[r], Side(s, t))
      <4>1. \A o1, q1 \in Trie \ {0}, f \in {"left", "right"} :
              under[o1] = under[q1] /\ link[o1][f] = 0 => seg[q1] \notin Gap(o1, f)
        BY DEF FreeLinks
      <4>2. under[rat[r]] = under[q] /\ link[rat[r]][Side(s, t)] = 0
        BY <1>2, <1>7, <3>1
      <4> HIDE DEF s, t
      <4> QED
        BY <1>2, <1>6, <1>7, <3>1, <4>1, <4>2
    <3> QED
      BY <1>6, <1>7, <3>1, <3>2
  <2>4. FindOK(r)'
    BY <1>1, <1>2, <2>1, <2>3 DEF FindOK, ReaderAt
  <2> QED
    BY <1>1, <1>7, <2>1, <2>2, <2>4, FindStepKept
<1>8. CASE /\ s # t /\ next # 0
           /\ rpc' = [rpc EXCEPT ![r] = IF steps[r] = MaxSteps THEN "corrupt" ELSE "bst"]
           /\ rat' = [rat EXCEPT ![r] = next] /\ steps' = [steps EXCEPT ![r] = steps[r] + 1]
           /\ UNCHANGED <<rcur, rk>>
  <2>1. /\ next \in Trie \ {0} /\ under[next] = rcur[r] /\ room[next] = Gap(rat[r], Side(s, t))
        /\ rat[r] + NodeSize <= next /\ next + NodeSize <= AreaSize
        /\ rat[r] \in Nat /\ next \in Nat
    BY <1>2, <1>6, <1>8, LinkAhead
  <2>2. s \in room[next]
    BY <1>6, <1>8, <2>1
  <2> HIDE DEF next
  <2>3. steps[r] < MaxSteps /\ MaxSteps \in Nat
    <3>1. rat[r] + NodeSize + NodeSize <= AreaSize
      BY <2>1, Sizes
    <3> QED
      BY <1>2, <1>3, <2>1, <3>1, CycleBound
  <2>4. rpc' = [rpc EXCEPT ![r] = "bst"]
    <3>1. steps[r] # MaxSteps
      BY <1>3, <2>3
    <3> QED
      BY <1>8, <3>1
  <2>5. /\ rpc'[r] = "bst" /\ rat'[r] = next /\ steps'[r] = steps[r] + 1
        /\ \A q \in Readers \ {r} : rpc'[q] = rpc[q] /\ rat'[q] = rat[q] /\ steps'[q] = steps[q]
    BY <1>8, <2>4 DEF TypeOK
  <2>6. TypeOK'
    <3>1. next \in Offsets /\ steps[r] + 1 \in Nat
      BY <1>3, <2>1, TrieFacts
    <3>2. /\ rpc' \in [Readers -> {"idle", "children", "bst", "prop", "found", "none", "corrupt"}]
          /\ rat' \in [Readers -> Offsets] /\ steps' \in [Readers -> Nat]
      BY <1>8, <2>4, <3>1 DEF TypeOK
    <3> QED
      BY <1>1, <1>8, <3>2 DEF TypeOK
  <2>7. HeaderSize + (steps[r] + 1) * NodeSize <= next
    <3>1. (steps[r] + 1) * NodeSize = steps[r] * NodeSize + NodeSize /\ steps[r] * NodeSize \in Nat
      BY <1>3, Sizes
    <3> QED
      BY <1>2, <2>1, <3>1, Sizes
  <2>8. FindOK(r)'
    BY <1>1, <1>2, <1>4, <1>8, <2>1, <2>2, <2>5, <2>7 DEF FindOK, ReaderAt
  <2> QED
    BY <1>1, <1>8, <2>5, <2>6, <2>8, FindStepKept
<1> QED
  BY <1>5, <1>7, <1>8 DEF FindBst, RGoto

-----------------------------------------------------------------------------
(* The theorems.                                                           *)

LEMMA InitHolds == Init => Inv
<1> SUFFICES ASSUME Init PROVE Inv
  OBVIOUS
<1>1. Trie = {0} /\ 0 \in Offsets
  <2>1. \A o \in Offsets : seg[o] = 0
    BY DEF Init
  <2> QED
    BY <2>1, Sizes DEF Trie
<1>2. TypeOK
  <2>1. slot \in Offsets \X Fields
    BY <1>1 DEF Init, Fields
  <2>2. link \in [Offsets -> [Fields -> Offsets]]
    BY <1>1 DEF Init, NoLinks
  <2>3. used \in HeaderSize .. AreaSize /\ size \in [Offsets -> 0 .. AreaSize]
    BY Sizes DEF Init
  <2>4. path \in [Offsets -> Seq(Nat)]
    <3>1. <<>> \in Seq(Nat)
      OBVIOUS
    <3> QED
      BY <3>1 DEF Init
  <2> QED
    BY <1>1, <2>1, <2>2, <2>3, <2>4, StepsFromZero DEF Init, TypeOK
<1>3. Disjoint
  <2>1. Allocated = {0} /\ size[0] = HeaderSize /\ used = HeaderSize /\ \A o \in Offsets : elong[o] = 0
    BY <1>1, Sizes DEF Init, Allocated
  <2> QED
    BY <2>1, Sizes DEF Disjoint
<1>4. Blank /\ NodesPlaced
  BY <1>1 DEF Init, Blank, NodesPlaced
<1>5. \A o \in Trie, f \in Fields : link[o][f] = 0
  BY <1>1 DEF Init, NoLinks
<1>6. TreeShape
  BY <1>1, <1>5 DEF TreeShape
<1>7. FreeLinks
  BY <1>1 DEF FreeLinks
<1>8. AddedReachable /\ WriterAt /\ FreshAt
  BY DEF Init, AddedReachable, WriterAt, FreshAt
<1>9. FindCorrect
  BY DEF Init, FindCorrect, ReaderAt
<1> QED
  BY <1>2, <1>3, <1>4, <1>6, <1>7, <1>8, <1>9 DEF Inv, AreaInv

LEMMA StepKept == Inv /\ [Next]_vars => Inv'
<1> SUFFICES ASSUME Inv, [Next]_vars PROVE Inv'
  OBVIOUS
<1>1. CASE Add
  <2>1. \A n \in Names : AddCall(n) => Inv'
    BY AddCallInv
  <2>2. \A from \in {"allocNode", "allocInfo", "allocLong"}, n \in {NodeSize, InfoSize, LongSize} :
          AddFails(from, n) => Inv'
    BY AddFailsInv
  <2>3. AddFails("allocNode", NodeSize) \/ AddFails("allocInfo", InfoSize) \/ AddFails("allocLong", LongSize)
          => Inv'
    BY <2>2
  <2> QED
    BY <1>1, <2>1, <2>3, AddChildrenInv, AddBstInv, AllocNodeInv, InitNodeInv, LinkNodeInv, AddPropInv,
       AllocInfoInv, AllocLongInv, InitInfoInv, LinkPropInv DEF Add
<1>2. CASE Crash
  BY <1>2, CrashInv
<1>3. ASSUME NEW r \in Readers, Find(r) PROVE Inv'
  BY <1>3, FindCallInv, FindChildrenInv, FindBstInv, FindPropInv DEF Find, FindStep
<1>4. CASE UNCHANGED vars
  <2>1. /\ UNCHANGED <<used, size, seg, link, ename, elong, path, under, room, added>>
        /\ UNCHANGED <<rpc, rname, rk, rcur, rat, steps, must>>
        /\ UNCHANGED <<wpc, wname, wk, wcur, wat, wsteps, fresh, wlong, slot, wres>>
    BY <1>4 DEF vars, heap, wvars, hvars, rvars
  <2>2. Trie' = Trie
    BY <2>1 DEF Trie
  <2>3. TypeOK'
    BY <2>1 DEF Inv, AreaInv, TypeOK
  <2>4. Heap'
    BY <2>1, <2>2, HeapKept DEF Inv, AreaInv, Heap
  <2>5. WriterAt' /\ FreshAt'
    BY <2>1, <2>2 DEF Inv, AreaInv, WriterAt, FreshAt, Gap
  <2>6. FindCorrect'
    BY <2>1, <2>2, ReadersKept DEF Inv, AreaInv, Grows, FindCorrect
  <2> QED
    BY <2>3, <2>4, <2>5, <2>6 DEF Inv, AreaInv, Heap
<1> QED
  BY <1>1, <1>2, <1>3, <1>4 DEF Next

LEMMA Sound == Spec => []Inv
BY InitHolds, StepKept, PTL DEF Spec

(* The area is sound at every moment: objects never overlap, the links form *)
(* one tree of whole objects, every name that was added is reachable in it, *)
(* also while an add is under way, after AreaFull and after a crash         *)
(* (PropertyAreaMap::add, allocate_obj, new_prop_trie_node, new_prop_info). *)
THEOREM AreaInvariant == Spec => []AreaInv
<1>1. Inv => AreaInv
  BY DEF Inv
<1> QED
  BY <1>1, Sound, PTL

(* A find beside an add returns the whole entry of the name it asked for,   *)
(* never misses a name whose add had returned, and never meets the cycle    *)
(* bound (find_prop_trie_node); nor does add (add_prop_trie_node).          *)
THEOREM FindIsCorrect == Spec => []FindCorrect
<1>1. Inv => FindCorrect
  BY DEF Inv
<1> QED
  BY <1>1, Sound, PTL

(* A link that was published is never written again. *)
THEOREM LinksNeverChange == Spec => LinksWriteOnce
<1>1. Inv /\ [Next]_vars => [\A o \in Offsets, f \in Fields : link[o][f] # 0 => link'[o][f] = link[o][f]]_vars
  <2> SUFFICES ASSUME Inv, Next
               PROVE  \A o \in Offsets, f \in Fields : link[o][f] # 0 => link'[o][f] = link[o][f]
    OBVIOUS
  <2> USE DEF Inv, AreaInv
  <2>1. link \in [Offsets -> [Fields -> Offsets]]
    BY DEF TypeOK
  <2>2. CASE InitNode
    <3>1. fresh \in Offsets /\ link[fresh] = NoLinks /\ link' = [link EXCEPT ![fresh] = NoLinks]
      BY <2>2 DEF InitNode, At, FreshAt, Blank, TypeOK
    <3> QED
      BY <2>1, <3>1
  <2>3. CASE LinkNode
    <3>1. link[slot[1]][slot[2]] = 0 /\ link' = [link EXCEPT ![slot[1]][slot[2]] = fresh]
      BY <2>3 DEF LinkNode, At, WriterAt
    <3> QED
      BY <2>1, <3>1
  <2>4. CASE LinkProp
    <3>1. link[wcur]["prop"] = 0 /\ link' = [link EXCEPT ![wcur]["prop"] = fresh]
      BY <2>4 DEF LinkProp, At, WriterAt
    <3> QED
      BY <2>1, <3>1
  <2>5. CASE UNCHANGED link
    BY <2>5
  <2>6. InitNode \/ LinkNode \/ LinkProp \/ UNCHANGED link
    BY DEF Next, Add, AddCall, AddChildren, AddBst, AllocNode, AddProp, AllocInfo, AllocLong, InitInfo, AddFails,
           Crash, Find, FindStep, FindCall, FindChildren, FindBst, FindProp, heap
  <2> QED
    BY <2>2, <2>3, <2>4, <2>5, <2>6
<1> QED
  BY <1>1, Sound, PTL DEF Spec, LinksWriteOnce

(* An add that returns Ok has published its name, or found it published. *)
THEOREM AddOkIsPublished == Spec => AddOkMeansPublished
<1>1. Inv /\ [Next]_vars => [wpc # "idle" /\ wpc' = "idle" /\ wres' = "ok" => wname \in added']_vars
  <2> SUFFICES ASSUME Inv, Next, wpc # "idle", wpc' = "idle", wres' = "ok"
               PROVE  wname \in added'
    OBVIOUS
  <2> USE DEF Inv, AreaInv
  <2>1. CASE AddProp
    <3>1. wpc = "prop" /\ link[wcur]["prop"] # 0 /\ added' = added
      BY <2>1 DEF AddProp, At, Goto, hvars
    <3>2. wcur \in Trie /\ path[wcur] = wname
      BY <3>1 DEF WriterAt
    <3> QED
      BY <3>1, <3>2 DEF TreeShape, Fields
  <2>2. CASE LinkProp
    BY <2>2 DEF LinkProp
  <2>3. AddProp \/ LinkProp
    <3>1. \A from \in {"allocNode", "allocInfo", "allocLong"}, n \in {NodeSize, InfoSize, LongSize} :
            ~ AddFails(from, n)
      BY DEF AddFails, AddReturns
    <3>2. ~ AddBst
      BY DEF AddBst, AddReturns, At, Goto
    <3>3. ~ Crash /\ \A r \in Readers : ~ Find(r)
      BY DEF Crash, Find, FindStep, FindCall, FindChildren, FindBst, FindProp, wvars
    <3>4. ~ AddChildren /\ \A n \in Names : ~ AddCall(n)
      BY DEF AddChildren, AddCall, Goto
    <3>5. ~ AllocNode /\ ~ InitNode /\ ~ LinkNode /\ ~ AllocInfo /\ ~ AllocLong /\ ~ InitInfo
      BY DEF AllocNode, InitNode, LinkNode, AllocInfo, AllocLong, InitInfo, Goto
    <3> QED
      BY <3>1, <3>2, <3>3, <3>4, <3>5 DEF Next, Add
  <2> QED
    BY <2>1, <2>2, <2>3
<1> QED
  BY <1>1, Sound, PTL DEF Spec, AddOkMeansPublished
=============================================================================
