---------------------------- MODULE PropertyArea ----------------------------
(***************************************************************************)
(* The hybrid trie of one property area (property_area.rs): add, which     *)
(* allocates nodes and entries from a bump allocator and publishes each    *)
(* with one Release store of a link, against find, which walks the links   *)
(* in other processes without a lock.                                      *)
(*                                                                         *)
(* A property name is a sequence of segments.  A segment is a number whose *)
(* order is that of cmp_prop_name; 0 is the name of memory that was never  *)
(* written.  Sizes are in units of the allocator's alignment.  The node at *)
(* offset 0 is the root; the backup slot follows it.                       *)
(*                                                                         *)
(* path, under, room, added and must are history variables: they record    *)
(* where a node was put and what has been published, for the invariants,   *)
(* and no step depends on them.                                            *)
(***************************************************************************)
EXTENDS Integers, Sequences, FiniteSets

CONSTANTS Names,       \* property names that are added and looked up
          LongNames,   \* those whose value is stored out of line
          Readers,     \* concurrent finds
          AreaSize,    \* pa_data_size
          HeaderSize,  \* root node and dirty backup slot
          NodeSize,    \* a trie node with its name
          InfoSize,    \* an entry with its name
          LongSize     \* an out-of-line value

ASSUME NamesAssumption ==
  /\ Names \subseteq Seq(Nat \ {0}) /\ <<>> \notin Names
  /\ LongNames \subseteq Names
ASSUME SizesAssumption ==
  /\ {AreaSize, HeaderSize, NodeSize, InfoSize, LongSize} \subseteq Nat \ {0}
  /\ HeaderSize <= AreaSize

Offsets  == 0 .. (AreaSize - 1)
Fields   == {"left", "right", "children", "prop"}
NoLinks  == [f \in Fields |-> 0]
NoName   == <<>>
MaxSteps == AreaSize \div NodeSize      \* the cycle bound of the BST walk

VARIABLES used,                   \* bytes_used
          size,                   \* size[o]: extent of the object allocated at o, or 0
          seg, link,              \* trie nodes: name and the four links
          ename, elong,           \* entries: name and offset of the long value, or 0
          wpc, wname, wk, wcur, wat, wsteps, fresh, wlong, slot, wres, alive,  \* add
          path, under, room,      \* the node's name; whose child it is; the segments that lead to it
          added,                  \* names whose entry has been published
          rpc, rname, rk, rcur, rat, steps, must                       \* finds

heap   == <<used, size, seg, link, ename, elong>>
wvars  == <<wpc, wname, wk, wcur, wat, wsteps, fresh, wlong, slot, wres, alive>>
rvars  == <<rpc, rname, rk, rcur, rat, steps, must>>
hvars  == <<path, under, room, added>>
vars   == <<heap, wvars, hvars, rvars>>

Prefix(n, k) == SubSeq(n, 1, k)
Segments     == UNION {{n[k] : k \in 1 .. Len(n)} : n \in Names}

(* The segments whose walk goes through link f of node o. *)
Gap(o, f) ==
  IF f = "children" THEN Segments
  ELSE {s \in room[o] : IF f = "left" THEN s < seg[o] ELSE s > seg[o]}

Init ==
  /\ used = HeaderSize
  /\ size = [o \in Offsets |-> IF o = 0 THEN HeaderSize ELSE 0]
  /\ seg = [o \in Offsets |-> 0]
  /\ link = [o \in Offsets |-> NoLinks]
  /\ ename = [o \in Offsets |-> NoName]
  /\ elong = [o \in Offsets |-> 0]
  /\ wpc = "idle" /\ wname = NoName /\ wk = 0 /\ wcur = 0 /\ wat = 0 /\ wsteps = 0
  /\ fresh = 0 /\ wlong = 0 /\ slot = <<0, "prop">> /\ wres = "ok" /\ alive = TRUE
  /\ path = [o \in Offsets |-> <<>>] /\ under = [o \in Offsets |-> 0]
  /\ room = [o \in Offsets |-> {}]
  /\ added = {}
  /\ rpc = [r \in Readers |-> "idle"]
  /\ rname = [r \in Readers |-> NoName]
  /\ rk = [r \in Readers |-> 0]
  /\ rcur = [r \in Readers |-> 0]
  /\ rat = [r \in Readers |-> 0]
  /\ steps = [r \in Readers |-> 0]
  /\ must = [r \in Readers |-> FALSE]

-----------------------------------------------------------------------------
(* add.                                                                    *)

At(from) == alive /\ wpc = from
Goto(to) == wpc' = to
(* The call returns; its locals are dead. *)
AddReturns(res) ==
  /\ Goto("idle") /\ wres' = res
  /\ wname' = NoName /\ wk' = 0 /\ wcur' = 0 /\ wat' = 0 /\ wsteps' = 0
  /\ fresh' = 0 /\ wlong' = 0 /\ slot' = <<0, "prop">>
(* Where the BST walk for segment s leaves a node of segment t. *)
Side(s, t) == IF s < t THEN "left" ELSE "right"

AddCall(n) ==
  /\ At("idle") /\ Goto("children")
  /\ wname' = n /\ wk' = 1 /\ wcur' = 0
  /\ UNCHANGED <<heap, wat, wsteps, fresh, wlong, slot, wres, alive, hvars, rvars>>

(* The node's children: walk their BST, or start one. *)
AddChildren ==
  /\ At("children")
  /\ \/ /\ link[wcur]["children"] # 0
        /\ Goto("bst") /\ wat' = link[wcur]["children"]
        /\ UNCHANGED slot
     \/ /\ link[wcur]["children"] = 0
        /\ Goto("allocNode") /\ slot' = <<wcur, "children">>
        /\ UNCHANGED wat
  /\ wsteps' = 0
  /\ UNCHANGED <<heap, wname, wk, wcur, fresh, wlong, wres, alive, hvars, rvars>>

(* Mutant: the walk reaches a prefix of the name and takes it for the name. *)
AddBstPrefix ==
  /\ At("bst")
  /\ LET s == wname[wk]  f == Side(s, seg[wat]) IN
       \/ /\ s = seg[wat]
          /\ Goto("prop") /\ wcur' = wat
          /\ UNCHANGED <<wat, wk, slot>>
       \/ /\ s # seg[wat] /\ link[wat][f] # 0
          /\ wat' = link[wat][f]
          /\ UNCHANGED <<wpc, wcur, wk, slot>>
       \/ /\ s # seg[wat] /\ link[wat][f] = 0
          /\ Goto("allocNode") /\ slot' = <<wat, f>>
          /\ UNCHANGED <<wat, wcur, wk>>
  /\ UNCHANGED <<heap, wname, wsteps, fresh, wlong, wres, alive, hvars, rvars>>

(* One step of add_prop_trie_node: the name is here (on to the next segment, *)
(* or to the entry), further down, or to be added here.                      *)
AddBst ==
  /\ At("bst")
  /\ LET s == wname[wk]  f == Side(s, seg[wat]) IN
       \/ /\ s = seg[wat]
          /\ Goto(IF wk < Len(wname) THEN "children" ELSE "prop")
          /\ wcur' = wat
          /\ wk' = IF wk < Len(wname) THEN wk + 1 ELSE wk
          /\ UNCHANGED <<wname, wat, wsteps, fresh, wlong, slot, wres>>
       \/ /\ s # seg[wat] /\ link[wat][f] # 0
          /\ IF wsteps = MaxSteps THEN AddReturns("corrupt")
             ELSE /\ wat' = link[wat][f] /\ wsteps' = wsteps + 1
                  /\ UNCHANGED <<wpc, wname, wk, wcur, fresh, wlong, slot, wres>>
       \/ /\ s # seg[wat] /\ link[wat][f] = 0
          /\ Goto("allocNode") /\ slot' = <<wat, f>>
          /\ UNCHANGED <<wname, wk, wcur, wat, wsteps, fresh, wlong, wres>>
  /\ UNCHANGED <<heap, alive, hvars, rvars>>

(* allocate_obj: bump bytes_used, or AreaFull. *)
Fits(n) == used + n <= AreaSize

Allocate(n) == used' = used + n /\ size' = [size EXCEPT ![used] = n]

(* Mutant: AreaFull is swallowed. *)
AddFailsSilently(from, n) ==
  /\ At(from) /\ ~ Fits(n)
  /\ AddReturns("ok")
  /\ UNCHANGED <<heap, alive, hvars, rvars>>

(* AreaFull ends the call; what was allocated and linked before it stays. *)
AddFails(from, n) ==
  /\ At(from) /\ ~ Fits(n)
  /\ AddReturns("full")
  /\ UNCHANGED <<heap, alive, hvars, rvars>>

(* Mutant: the node is linked before it is initialised. *)
AllocNodePublished ==
  /\ At("allocNode") /\ Fits(NodeSize)
  /\ Goto("initNode")
  /\ Allocate(NodeSize) /\ fresh' = used
  /\ link' = [link EXCEPT ![slot[1]][slot[2]] = used]
  /\ UNCHANGED <<seg, ename, elong, wname, wk, wcur, wat, wsteps, wlong, slot, wres, alive, hvars, rvars>>

AllocNode ==
  /\ At("allocNode") /\ Fits(NodeSize)
  /\ Goto("initNode")
  /\ Allocate(NodeSize) /\ fresh' = used
  /\ UNCHANGED <<seg, link, ename, elong, wname, wk, wcur, wat, wsteps, wlong, slot, wres, alive, hvars, rvars>>

(* init_header and the name bytes, before anybody can reach the node. *)
InitNode ==
  /\ At("initNode") /\ Goto("linkNode")
  /\ seg' = [seg EXCEPT ![fresh] = wname[wk]]
  /\ link' = [link EXCEPT ![fresh] = NoLinks]
  /\ path' = [path EXCEPT ![fresh] = Prefix(wname, wk)]
  /\ under' = [under EXCEPT ![fresh] = wcur]
  /\ room' = [room EXCEPT ![fresh] = Gap(slot[1], slot[2])]
  /\ UNCHANGED <<used, size, ename, elong, wname, wk, wcur, wat, wsteps, fresh, wlong, slot, wres, alive,
                 added, rvars>>

(* The Release store that publishes the node; the walk then finds it. *)
LinkNode ==
  /\ At("linkNode") /\ Goto("bst")
  /\ link' = [link EXCEPT ![slot[1]][slot[2]] = fresh]
  /\ wat' = fresh
  /\ UNCHANGED <<used, size, seg, ename, elong, wname, wk, wcur, wsteps, fresh, wlong, slot, wres,
                 alive, hvars, rvars>>

(* Mutant: an existing entry is replaced. *)
AddPropAgain ==
  /\ At("prop") /\ Goto("allocInfo")
  /\ UNCHANGED <<heap, wname, wk, wcur, wat, wsteps, fresh, wlong, slot, wres, alive, hvars, rvars>>

(* An existing entry is left alone: add is then a no-op that succeeds. *)
AddProp ==
  /\ At("prop")
  /\ \/ link[wcur]["prop"] # 0 /\ AddReturns("ok")
     \/ link[wcur]["prop"] = 0 /\ Goto("allocInfo")
        /\ UNCHANGED <<wname, wk, wcur, wat, wsteps, fresh, wlong, slot, wres>>
  /\ UNCHANGED <<heap, alive, hvars, rvars>>

(* new_prop_info: the entry, then the long value, then the header and name. *)
AllocInfo ==
  /\ At("allocInfo") /\ Fits(InfoSize)
  /\ Goto(IF wname \in LongNames THEN "allocLong" ELSE "initInfo")
  /\ Allocate(InfoSize) /\ fresh' = used
  /\ UNCHANGED <<seg, link, ename, elong, wname, wk, wcur, wat, wsteps, wlong, slot, wres, alive, hvars, rvars>>

AllocLong ==
  /\ At("allocLong") /\ Fits(LongSize)
  /\ Goto("initInfo")
  /\ Allocate(LongSize) /\ wlong' = used
  /\ UNCHANGED <<seg, link, ename, elong, wname, wk, wcur, wat, wsteps, fresh, slot, wres, alive, hvars, rvars>>

InitInfo ==
  /\ At("initInfo") /\ Goto("linkProp")
  /\ ename' = [ename EXCEPT ![fresh] = wname]
  /\ elong' = [elong EXCEPT ![fresh] = wlong]
  /\ UNCHANGED <<used, size, seg, link, wname, wk, wcur, wat, wsteps, fresh, wlong, slot, wres, alive, hvars, rvars>>

LinkProp ==
  /\ At("linkProp") /\ AddReturns("ok")
  /\ link' = [link EXCEPT ![wcur]["prop"] = fresh]
  /\ added' = added \cup {wname}
  /\ UNCHANGED <<used, size, seg, ename, elong, alive, path, under, room, rvars>>

Crash ==
  /\ alive /\ alive' = FALSE
  /\ UNCHANGED <<heap, wpc, wname, wk, wcur, wat, wsteps, fresh, wlong, slot, wres, hvars, rvars>>

-----------------------------------------------------------------------------
(* find.  Every Acquire load is a step.                                    *)

RGoto(r, to) == rpc' = [rpc EXCEPT ![r] = to]

FindCall(r, n) ==
  /\ rpc[r] \in {"idle", "found", "none", "corrupt"}
  /\ RGoto(r, "children")
  /\ rname' = [rname EXCEPT ![r] = n]
  /\ rk' = [rk EXCEPT ![r] = 1]
  /\ rcur' = [rcur EXCEPT ![r] = 0]
  /\ rat' = [rat EXCEPT ![r] = 0]
  /\ steps' = [steps EXCEPT ![r] = 0]
  /\ must' = [must EXCEPT ![r] = n \in added]
  /\ UNCHANGED <<heap, wvars, hvars>>

FindChildren(r) ==
  /\ rpc[r] = "children"
  /\ LET c == link[rcur[r]]["children"] IN
       /\ RGoto(r, IF c = 0 THEN "none" ELSE "bst")
       /\ rat' = [rat EXCEPT ![r] = c]
  /\ steps' = [steps EXCEPT ![r] = 0]
  /\ UNCHANGED <<heap, wvars, hvars, rname, rk, rcur, must>>

(* Mutant: no cycle bound, and a miss goes on. *)
FindBstForever(r) ==
  /\ rpc[r] = "bst"
  /\ LET s == rname[r][rk[r]]
         t == seg[rat[r]]
         next == link[rat[r]][Side(s, t)] IN
       \/ /\ s = t
          /\ RGoto(r, IF rk[r] < Len(rname[r]) THEN "children" ELSE "prop")
          /\ rcur' = [rcur EXCEPT ![r] = rat[r]]
          /\ rk' = [rk EXCEPT ![r] = IF @ < Len(rname[r]) THEN @ + 1 ELSE @]
          /\ UNCHANGED rat
       \/ /\ s # t
          /\ rat' = [rat EXCEPT ![r] = IF next = 0 THEN @ ELSE next]
          /\ UNCHANGED <<rpc, rcur, rk>>
  /\ UNCHANGED <<heap, wvars, hvars, rname, must, steps>>

(* One step of find_prop_trie_node. *)
FindBst(r) ==
  /\ rpc[r] = "bst"
  /\ LET s == rname[r][rk[r]]
         t == seg[rat[r]]
         next == link[rat[r]][Side(s, t)] IN
       \/ /\ s = t
          /\ RGoto(r, IF rk[r] < Len(rname[r]) THEN "children" ELSE "prop")
          /\ rcur' = [rcur EXCEPT ![r] = rat[r]]
          /\ rk' = [rk EXCEPT ![r] = IF @ < Len(rname[r]) THEN @ + 1 ELSE @]
          /\ UNCHANGED <<rat, steps>>
       \/ /\ s # t /\ next = 0
          /\ RGoto(r, "none")
          /\ UNCHANGED <<rcur, rk, rat, steps>>
       \/ /\ s # t /\ next # 0
          /\ RGoto(r, IF steps[r] = MaxSteps THEN "corrupt" ELSE "bst")
          /\ rat' = [rat EXCEPT ![r] = next]
          /\ steps' = [steps EXCEPT ![r] = @ + 1]
          /\ UNCHANGED <<rcur, rk>>
  /\ UNCHANGED <<heap, wvars, hvars, rname, must>>

FindProp(r) ==
  /\ rpc[r] = "prop"
  /\ LET p == link[rcur[r]]["prop"] IN
       /\ RGoto(r, IF p = 0 THEN "none" ELSE "found")
       /\ rat' = [rat EXCEPT ![r] = p]
  /\ UNCHANGED <<heap, wvars, hvars, rname, rk, rcur, steps, must>>

-----------------------------------------------------------------------------
Add ==
  \/ \E n \in Names : AddCall(n)
  \/ AddChildren \/ AddBst
  \/ AllocNode \/ InitNode \/ LinkNode
  \/ AddProp \/ AllocInfo \/ AllocLong \/ InitInfo \/ LinkProp
  \/ AddFails("allocNode", NodeSize)
  \/ AddFails("allocInfo", InfoSize)
  \/ AddFails("allocLong", LongSize)

FindStep(r) == FindChildren(r) \/ FindBst(r) \/ FindProp(r)

Find(r) == (\E n \in Names : FindCall(r, n)) \/ FindStep(r)

Next == Add \/ Crash \/ \E r \in Readers : Find(r)

Spec == Init /\ [][Next]_vars

FairSpec == Spec /\ \A r \in Readers : WF_vars(FindStep(r))

-----------------------------------------------------------------------------
(* Properties.                                                             *)

TypeOK ==
  /\ used \in HeaderSize .. AreaSize
  /\ size \in [Offsets -> 0 .. AreaSize]
  /\ seg \in [Offsets -> Nat]
  /\ link \in [Offsets -> [Fields -> Offsets]]
  /\ ename \in [Offsets -> Names \cup {NoName}]
  /\ elong \in [Offsets -> Offsets]
  /\ wpc \in {"idle", "children", "bst", "allocNode", "initNode", "linkNode", "prop", "allocInfo",
              "allocLong", "initInfo", "linkProp"}
  /\ fresh \in Offsets /\ wlong \in Offsets /\ wcur \in Offsets /\ wat \in Offsets
  /\ wname \in Names \cup {NoName} /\ wk \in Nat /\ wsteps \in 0 .. MaxSteps
  /\ slot \in Offsets \X Fields
  /\ path \in [Offsets -> Seq(Nat)] /\ under \in [Offsets -> Offsets]
  /\ room \in [Offsets -> SUBSET Segments] /\ added \subseteq Names
  /\ rpc \in [Readers -> {"idle", "children", "bst", "prop", "found", "none", "corrupt"}]
  /\ rname \in [Readers -> Names \cup {NoName}] /\ rk \in [Readers -> Nat]
  /\ rcur \in [Readers -> Offsets] /\ rat \in [Readers -> Offsets] /\ steps \in [Readers -> Nat]
  /\ must \in [Readers -> BOOLEAN]

Allocated == {o \in Offsets : size[o] > 0}

(* Objects never overlap, never reach past the area and never touch the     *)
(* root or the backup slot (allocate_obj); a long value lies behind its      *)
(* entry and that entry's name, where long_property_value accepts it.        *)
Disjoint ==
  /\ size[0] = HeaderSize
  /\ \A o, q \in Allocated : o < q => o + size[o] <= q
  /\ \A o \in Allocated : o + size[o] <= used
  /\ \A o \in Offsets : elong[o] # 0 =>
       elong[o] - o >= InfoSize /\ size[elong[o]] = LongSize

(* The nodes that have been linked, and the root. *)
Trie == {0} \cup {o \in Offsets : seg[o] # 0 /\ ~ (wpc = "linkNode" /\ o = fresh)}

(* Nothing leads away from what is not a node, or not one yet. *)
Blank ==
  /\ \A o \in Offsets \ Trie : link[o] = NoLinks
  /\ \A o \in Offsets \ Allocated : seg[o] = 0 /\ ename[o] = NoName /\ elong[o] = 0
  /\ seg[0] = 0 /\ path[0] = <<>>

(* A node is an object of its own, named after its parent and its segment. *)
NodesPlaced ==
  \A o \in Trie \ {0} :
    /\ size[o] = NodeSize /\ o >= HeaderSize /\ seg[o] \in room[o]
    /\ under[o] \in Trie /\ path[o] = Append(path[under[o]], seg[o])

(* The links form a tree over fully written objects: a link leads to an      *)
(* allocated object behind it whose name is there and which a walk for that  *)
(* name reaches, no object has two parents, and a trie node is never lost    *)
(* (an entry is, if its long value does not fit).                            *)
TreeShape ==
  /\ \A o \in Trie, f \in Fields : link[o][f] # 0 =>
       IF f = "prop"
       THEN /\ o # 0 /\ link[o][f] \in Allocated
            /\ ename[link[o][f]] = path[o] /\ path[o] \in added
            /\ elong[link[o][f]] # 0 <=> path[o] \in LongNames
       ELSE /\ link[o][f] \in Trie \ {0} /\ o < link[o][f]
            /\ f = "children" \/ o # 0
            /\ room[link[o][f]] = Gap(o, f)
            /\ under[link[o][f]] = IF f = "children" THEN o ELSE under[o]
  /\ \A o, q \in Trie, f, g \in Fields :
       link[o][f] # 0 /\ link[o][f] = link[q][g] => o = q /\ f = g
  /\ \A o \in Trie \ {0} : \E q \in Trie, f \in Fields : link[q][f] = o

(* The free links of a BST split the segments that are not in it: so a walk  *)
(* that ends at one has not missed a node.                                   *)
FreeLinks ==
  /\ \A o \in Trie : link[o]["children"] = 0 => \A q \in Trie \ {0} : under[q] # o
  /\ \A o, q \in Trie \ {0}, f \in {"left", "right"} :
       under[o] = under[q] /\ link[o][f] = 0 => seg[q] \notin Gap(o, f)
  /\ \A o, q \in Trie \ {0}, f, g \in {"left", "right"} :
       under[o] = under[q] /\ link[o][f] = 0 /\ link[q][g] = 0 /\ Gap(o, f) \cap Gap(q, g) # {}
         => o = q /\ f = g
  /\ \A o, q \in Trie : path[o] = path[q] => o = q

(* There is a node for every prefix of a name that was added, and an entry.  *)
AddedReachable ==
  \A n \in added :
    /\ \A k \in 1 .. Len(n) : \E o \in Trie : path[o] = Prefix(n, k)
    /\ \E o \in Trie : path[o] = n /\ link[o]["prop"] # 0

(* add has the nodes for the segments before wk, and the place for the next. *)
WriterAt ==
  /\ wpc # "idle" =>
       /\ wname \in Names /\ wk \in 1 .. Len(wname) /\ wcur \in Trie
       /\ \A k \in 1 .. (wk - 1) : \E o \in Trie : path[o] = Prefix(wname, k)
  /\ wpc \in {"children", "bst", "allocNode", "initNode", "linkNode"} =>
       path[wcur] = Prefix(wname, wk - 1)
  /\ wpc = "bst" =>
       /\ wat \in Trie \ {0} /\ under[wat] = wcur /\ wname[wk] \in room[wat]
       /\ HeaderSize + wsteps * NodeSize <= wat
  /\ wpc \in {"allocNode", "initNode", "linkNode"} =>
       /\ slot[1] \in Trie /\ link[slot[1]][slot[2]] = 0
       /\ \/ slot = <<wcur, "children">> /\ wsteps = 0
          \/ /\ slot[2] \in {"left", "right"} /\ slot[1] # 0 /\ under[slot[1]] = wcur
             /\ HeaderSize + wsteps * NodeSize <= slot[1]
       /\ wname[wk] \in Gap(slot[1], slot[2])
  /\ wpc \in {"prop", "allocInfo", "allocLong", "initInfo", "linkProp"} =>
       wcur # 0 /\ path[wcur] = wname /\ wk = Len(wname)
  /\ wpc \in {"allocInfo", "allocLong", "initInfo", "linkProp"} => link[wcur]["prop"] = 0

(* What add has allocated is whole and still its own. *)
FreshAt ==
  /\ wpc \in {"initNode", "linkNode"} =>
       /\ fresh # 0 /\ fresh >= HeaderSize /\ size[fresh] = NodeSize /\ slot[1] < fresh
       /\ fresh \notin Trie /\ ename[fresh] = NoName /\ elong[fresh] = 0
  /\ wpc = "initNode" => seg[fresh] = 0
  /\ wpc = "linkNode" =>
       /\ seg[fresh] = wname[wk] /\ under[fresh] = wcur /\ room[fresh] = Gap(slot[1], slot[2])
       /\ path[fresh] = Prefix(wname, wk)
  /\ wpc \in {"allocLong", "initInfo", "linkProp"} =>
       /\ fresh # 0 /\ size[fresh] = InfoSize /\ seg[fresh] = 0
       /\ \A o \in Trie, f \in Fields : link[o][f] # fresh
       /\ wpc # "linkProp" => ename[fresh] = NoName /\ elong[fresh] = 0
  /\ wpc = "allocLong" => wname \in LongNames
  /\ wpc \in {"idle", "children", "bst", "allocNode", "initNode", "linkNode", "prop", "allocInfo",
              "allocLong"} => wlong = 0
  /\ wpc \in {"initInfo", "linkProp"} =>
       /\ wlong # 0 <=> wname \in LongNames
       /\ wlong # 0 => wlong - fresh >= InfoSize /\ size[wlong] = LongSize
  /\ wpc = "linkProp" => ename[fresh] = wname /\ elong[fresh] = wlong

(* The area is sound at every moment, also where an add ran out of room or    *)
(* its writer died: whole objects side by side, linked into one trie.        *)
AreaInv ==
  /\ TypeOK /\ Disjoint /\ Blank /\ NodesPlaced /\ TreeShape /\ FreeLinks /\ AddedReachable
  /\ WriterAt /\ FreshAt

(* find has the node for the segments before rk, and is on the way to the    *)
(* next; what it returned is an entry.                                       *)
ReaderAt(r) ==
  /\ rpc[r] # "idle" => rname[r] \in Names /\ (must[r] => rname[r] \in added)
  /\ rpc[r] \in {"children", "bst", "prop"} =>
       rcur[r] \in Trie /\ rk[r] \in 1 .. Len(rname[r])
  /\ rpc[r] \in {"children", "bst"} => path[rcur[r]] = Prefix(rname[r], rk[r] - 1)
  /\ rpc[r] = "bst" =>
       /\ rat[r] \in Trie \ {0} /\ under[rat[r]] = rcur[r] /\ rname[r][rk[r]] \in room[rat[r]]
       /\ HeaderSize + steps[r] * NodeSize <= rat[r]
  /\ rpc[r] = "prop" => path[rcur[r]] = rname[r]

(* find returns the entry of the name it was asked for, whole; it finds      *)
(* every name whose add had returned before it began; and the cycle bounds   *)
(* of find and add never fire on an area this writer built, even one that    *)
(* ran full or whose writer died in the middle of an add.                    *)
FindCorrect ==
  /\ wres # "corrupt"
  /\ \A r \in Readers :
       /\ rpc[r] = "found" =>
            /\ ename[rat[r]] = rname[r]
            /\ rname[r] \in LongNames <=> elong[rat[r]] # 0
       /\ rpc[r] = "none" => ~ must[r]
       /\ rpc[r] # "corrupt"
       /\ ReaderAt(r)

(* A published link is never changed again, which is what lets find walk     *)
(* without a lock.                                                           *)
LinksWriteOnce ==
  [][\A o \in Offsets, f \in Fields : link[o][f] # 0 => link'[o][f] = link[o][f]]_vars

(* An add that reports success has published the name (or found it           *)
(* published): AreaFull in the middle of one is never taken for success.      *)
AddOkMeansPublished ==
  [][wpc # "idle" /\ wpc' = "idle" /\ wres' = "ok" => wname \in added']_vars

(* find returns, however add interferes. *)
FindReturns ==
  \A r \in Readers :
    (rpc[r] \in {"children", "bst", "prop"}) ~> (rpc[r] \in {"found", "none", "corrupt"})
=============================================================================
