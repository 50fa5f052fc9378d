----------------------------- MODULE PropertyDir -----------------------------
(***************************************************************************)
(* The properties directory: instances of the service that build it        *)
(* (init_system_properties_sync, ContextsSerialized::new, new_rw), stop or *)
(* die and leave their files behind, and reader processes that map it      *)
(* (SystemProperties::new, new_ro, ContextNode::property_area).            *)
(*                                                                         *)
(* property_info is rewritten in place; an area file is unlinked and       *)
(* created anew, so an inode is named after the instance and the position  *)
(* of the area it was created for.  A context name is a value that Fold    *)
(* maps to its file: two names may be one file to the file system.         *)
(***************************************************************************)
EXTENDS Integers, Sequences, FiniteSets

CONSTANTS Instances,   \* service instances; each starts at most once
          Readers,     \* reader processes
          Table,       \* Table[i]: the context names of the trie instance i builds
          Fold,        \* Fold[n]: the ASCII-case-folded name, which is its file
          Malformed,   \* names that are not plain ASCII file names
          None         \* no inode, no instance

Info     == "property_info"
Serial   == "properties_serial"
LockFile == ".writer_lock"
Reserved == {Info, Serial, LockFile}          \* RESERVED_FILENAMES

Paths     == Reserved \cup {Fold[n] : n \in DOMAIN Fold}
Positions == {-1, 0} \cup UNION {1 .. (Len(Table[i]) + 1) : i \in Instances}
Inodes    == Instances \X Positions
InfoInode(i) == <<i, -1>>
LockInode(i) == <<i, 0>>

ASSUME TableAssumption ==
  \A i \in Instances : Table[i] \in Seq(Malformed \cup DOMAIN Fold)
ASSUME NoneAssumption == None \notin Instances \cup Inodes \cup (Paths \X Inodes)

VARIABLES dir,            \* dir[f]: the inode at path f, or None
          ist,            \* ist[n]: state of area inode n
          info,           \* content of property_info: who wrote it, its size
          pc, files, at,  \* instances: step, area files by position, current position
          held,           \* held[i]: the inode whose flock instance i has
          rpc, rfiles,    \* readers: step, area files of the table they loaded
          rfd, rmap       \* a file being opened; rmap[r][f]: the inode mapped

inst == <<pc, files, at, held>>
rdr  == <<rpc, rfiles, rfd, rmap>>
vars == <<dir, ist, info, inst, rdr>>

-----------------------------------------------------------------------------
(* The context table.                                                      *)

(* try_build_context_node: the entry is a plain name, none of the reserved *)
(* files and not the file of an earlier entry.                             *)
Accepts(t, k) ==
  /\ t[k] \notin Malformed
  /\ Fold[t[k]] \notin Reserved
  /\ \A j \in 1 .. (k - 1) : t[j] \notin Malformed => Fold[t[j]] # Fold[t[k]]

(* The entries that get a context node; the others leave a hole. *)
Kept(t) == {k \in 1 .. Len(t) : Accepts(t, k)}

(* Mutant: the serial area is built first. *)
SerialFirst(t) ==
  [p \in {1} \cup {k + 1 : k \in Kept(t)} |-> IF p = 1 THEN Serial ELSE Fold[t[p - 1]]]

(* The areas by the position they are opened at: the contexts in the order *)
(* of the table, then the serial.                                          *)
AreaFiles(t) ==
  [p \in Kept(t) \cup {Len(t) + 1} |-> IF p <= Len(t) THEN Fold[t[p]] ELSE Serial]

(* The size of the trie grows with its table. *)
InfoSize(i) == Len(Table[i]) + 1

(* load_path: the header's size is the file's size. *)
InfoValid == info.size > 0 /\ info.size = InfoSize(info.by)

Init ==
  /\ dir = [f \in Paths |-> None]
  /\ ist = [n \in Inodes |-> "none"]
  /\ info = [by |-> None, size |-> 0]
  /\ pc = [i \in Instances |-> "off"]
  /\ files = [i \in Instances |-> <<>>]
  /\ at = [i \in Instances |-> 0]
  /\ held = [i \in Instances |-> None]
  /\ rpc = [r \in Readers |-> "start"]
  /\ rfiles = [r \in Readers |-> <<>>]
  /\ rfd = [r \in Readers |-> None]
  /\ rmap = [r \in Readers |-> [f \in Paths |-> None]]

-----------------------------------------------------------------------------
(* A service instance.                                                     *)

Step(i, from, to) == pc[i] = from /\ pc' = [pc EXCEPT ![i] = to]

(* The instance is gone, with its locals, its descriptors and so the lock. *)
Down(i) ==
  /\ pc' = [pc EXCEPT ![i] = "down"]
  /\ held' = [held EXCEPT ![i] = None]
  /\ files' = [files EXCEPT ![i] = <<>>]
  /\ at' = [at EXCEPT ![i] = 0]

(* File::create(property_info): truncate what is there, or create it. *)
CreateInfo(i) ==
  /\ Step(i, "off", "write")
  /\ info' = [by |-> None, size |-> 0]
  /\ dir' = [dir EXCEPT ![Info] = IF @ = None THEN InfoInode(i) ELSE @]
  /\ UNCHANGED <<ist, files, at, held, rdr>>

(* write_all, from offset 0 of this instance's own descriptor. *)
WriteInfo(i) ==
  /\ Step(i, "write", "load")
  /\ info' = [by |-> i, size |-> IF info.size > InfoSize(i) THEN info.size ELSE InfoSize(i)]
  /\ UNCHANGED <<dir, ist, files, at, held, rdr>>

(* load_path, then the loop over the context table. *)
LoadInfo(i) ==
  /\ pc[i] = "load"
  /\ \/ /\ InfoValid
        /\ Step(i, "load", "lock")
        /\ files' = [files EXCEPT ![i] = AreaFiles(Table[info.by])]
        /\ UNCHANGED <<at, held>>
     \/ ~ InfoValid /\ Down(i)
  /\ UNCHANGED <<dir, ist, info, rdr>>

(* The next area to open, if there is one. *)
Following(i) ==
  {k \in DOMAIN files[i] : k > at[i] /\ \A m \in DOMAIN files[i] : m > at[i] => k <= m}
GoesOn(i) == \E k \in Following(i) : at' = [at EXCEPT ![i] = k]

(* Mutant: nobody checks the flock. *)
TakeLockUnchecked(i) ==
  LET n == IF dir[LockFile] = None THEN LockInode(i) ELSE dir[LockFile] IN
  /\ Step(i, "lock", "unlink")
  /\ dir' = [dir EXCEPT ![LockFile] = n]
  /\ held' = [held EXCEPT ![i] = n]
  /\ GoesOn(i)
  /\ UNCHANGED <<ist, info, files, rdr>>

(* acquire_writer_lock: open or create the lock file, then flock it without *)
(* blocking.                                                                *)
TakeLock(i) ==
  LET n == IF dir[LockFile] = None THEN LockInode(i) ELSE dir[LockFile] IN
  /\ pc[i] = "lock"
  /\ dir' = [dir EXCEPT ![LockFile] = n]
  /\ \/ /\ \A j \in Instances : held[j] # n
        /\ Step(i, "lock", "unlink")
        /\ held' = [held EXCEPT ![i] = n]
        /\ GoesOn(i)
        /\ UNCHANGED files
     \/ (\E j \in Instances : held[j] = n) /\ Down(i)
  /\ UNCHANGED <<ist, info, rdr>>

(* new_rw, for one area after the other. *)
File(i)  == files[i][at[i]]
Inode(i) == <<i, at[i]>>

(* remove_file; that there is no such file is fine. *)
Unlink(i) ==
  /\ Step(i, "unlink", "create")
  /\ dir' = [dir EXCEPT ![File(i)] = None]
  /\ UNCHANGED <<ist, info, files, at, held, rdr>>

(* remove_file fails (a warning), and the file is still there. *)
UnlinkFails(i) ==
  /\ Step(i, "unlink", "stale")
  /\ dir[File(i)] # None
  /\ UNCHANGED <<dir, ist, info, files, at, held, rdr>>

(* O_CREAT | O_EXCL: an existing file ends the start. *)
Create(i) ==
  /\ pc[i] \in {"create", "stale"}
  /\ \/ /\ dir[File(i)] = None
        /\ pc' = [pc EXCEPT ![i] = "size"]
        /\ dir' = [dir EXCEPT ![File(i)] = Inode(i)]
        /\ ist' = [ist EXCEPT ![Inode(i)] = "empty"]
        /\ UNCHANGED <<files, at, held>>
     \/ dir[File(i)] # None /\ Down(i) /\ UNCHANGED <<dir, ist>>
  /\ UNCHANGED <<info, rdr>>

(* ftruncate to PA_SIZE. *)
Size(i) ==
  /\ Step(i, "size", "init")
  /\ ist' = [ist EXCEPT ![Inode(i)] = "sized"]
  /\ UNCHANGED <<dir, info, files, at, held, rdr>>

(* PropertyArea::init writes magic and version; on to the next area. *)
InitArea(i) ==
  /\ ist' = [ist EXCEPT ![Inode(i)] = "ready"]
  /\ \/ Step(i, "init", "unlink") /\ GoesOn(i)
     \/ Step(i, "init", "up") /\ (\A m \in DOMAIN files[i] : m <= at[i]) /\ UNCHANGED at
  /\ UNCHANGED <<dir, info, files, held, rdr>>

(* The instance stops, fails (an I/O error, an add that does not fit) or is  *)
(* killed, wherever it is; its files stay.                                   *)
Dies(i) ==
  /\ pc[i] \notin {"off", "down"}
  /\ Down(i)
  /\ UNCHANGED <<dir, ist, info, rdr>>

-----------------------------------------------------------------------------
(* A reader process: try_system_properties, then lookups.                  *)

(* load_path and the context table; a failure is latched for good. *)
ReadInfo(r) ==
  /\ rpc[r] = "start"
  /\ rpc' = [rpc EXCEPT ![r] = IF InfoValid THEN "serial" ELSE "failed"]
  /\ rfiles' = [rfiles EXCEPT ![r] = IF InfoValid THEN AreaFiles(Table[info.by]) ELSE <<>>]
  /\ UNCHANGED <<dir, ist, info, inst, rfd, rmap>>

FilesIn(fs) == {fs[k] : k \in DOMAIN fs}

(* The files the reader may map now: the serial area first, a context's the *)
(* first time a lookup needs it.                                            *)
Mappable(r) ==
  {f \in FilesIn(rfiles[r]) :
     rmap[r][f] = None /\ (rpc[r] = "serial" => f = Serial)}

(* An error of new_ro: latched if it was the serial area's, returned to the *)
(* caller of the lookup if it was a context's.                              *)
MapFails(r) == rpc' = [rpc EXCEPT ![r] = IF @ = "serial" THEN "failed" ELSE @]

OpenArea(r, f) ==
  /\ rpc[r] \in {"serial", "up"} /\ rfd[r] = None
  /\ f \in Mappable(r)
  /\ \/ dir[f] = None /\ MapFails(r) /\ UNCHANGED rfd
     \/ dir[f] # None /\ rfd' = [rfd EXCEPT ![r] = <<f, dir[f]>>] /\ UNCHANGED rpc
  /\ UNCHANGED <<dir, ist, info, inst, rfiles, rmap>>

(* The checks on the open file: its size, its magic and version. *)
MapArea(r) ==
  /\ rfd[r] # None
  /\ LET f == rfd[r][1]  n == rfd[r][2] IN
       \/ /\ ist[n] = "ready"
          /\ rmap' = [rmap EXCEPT ![r][f] = n]
          /\ rpc' = [rpc EXCEPT ![r] = "up"]
       \/ ist[n] # "ready" /\ MapFails(r) /\ UNCHANGED rmap
  /\ rfd' = [rfd EXCEPT ![r] = None]
  /\ UNCHANGED <<dir, ist, info, inst, rfiles>>

-----------------------------------------------------------------------------
Instance(i) ==
  \/ CreateInfo(i) \/ WriteInfo(i) \/ LoadInfo(i) \/ TakeLock(i)
  \/ Unlink(i) \/ UnlinkFails(i) \/ Create(i) \/ Size(i) \/ InitArea(i) \/ Dies(i)

Reader(r) == ReadInfo(r) \/ (\E f \in Paths : OpenArea(r, f)) \/ MapArea(r)

Next == (\E i \in Instances : Instance(i)) \/ (\E r \in Readers : Reader(r))

Spec == Init /\ [][Next]_vars

-----------------------------------------------------------------------------
(* Properties.                                                             *)

Layouts == {AreaFiles(Table[i]) : i \in Instances} \cup {<<>>}

TypeOK ==
  /\ dir \in [Paths -> Inodes \cup {None}]
  /\ ist \in [Inodes -> {"none", "empty", "sized", "ready"}]
  /\ info \in [by : Instances \cup {None}, size : Nat] /\ (info.size > 0 => info.by # None)
  /\ pc \in [Instances -> {"off", "write", "load", "lock", "unlink", "create", "stale", "size",
                           "init", "up", "down"}]
  /\ at \in [Instances -> Positions]
  /\ files \in [Instances -> Layouts] /\ rfiles \in [Readers -> Layouts]
  /\ held \in [Instances -> Inodes \cup {None}]
  /\ rpc \in [Readers -> {"start", "serial", "up", "failed"}]
  /\ rfd \in [Readers -> (Paths \X Inodes) \cup {None}]
  /\ rmap \in [Readers -> [Paths -> Inodes \cup {None}]]

(* Every area of a running instance is the file at its path, each its own    *)
(* file, whatever other instances do or died doing and whatever names the    *)
(* table holds (acquire_writer_lock, new_rw, try_build_context_node).        *)
LiveAreasIntact ==
  \A i \in Instances : pc[i] = "up" =>
    \A k \in DOMAIN files[i] :
      dir[files[i][k]] = <<i, k>> /\ ist[<<i, k>>] = "ready"

(* A file left behind by an instance that died, at any point, never makes    *)
(* the exclusive create of a later one fail, unless it cannot be removed.    *)
StaleFilesNeverBlock ==
  \A i \in Instances : pc[i] = "create" => dir[File(i)] = None

Building == {"unlink", "create", "stale", "size", "init", "up"}

(* The instance that builds the areas, and no other one, holds the flock of  *)
(* the file at .writer_lock, which is never replaced.                        *)
LockExclusive ==
  \A i \in Instances :
    /\ (pc[i] \in Building) = (held[i] # None)
    /\ held[i] # None => /\ held[i] = dir[LockFile]
                         /\ \A j \in Instances : held[j] # None => j = i

(* An instance has opened the areas up to its position, one after the other. *)
BuiltInOrder ==
  \A i \in Instances :
    /\ pc[i] \notin Building => at[i] = 0
    /\ pc[i] \in Building =>
         /\ at[i] \in DOMAIN files[i]
         /\ \A k \in DOMAIN files[i] : k < at[i] => dir[files[i][k]] = <<i, k>> /\ ist[<<i, k>>] = "ready"
    /\ pc[i] \in {"size", "init", "up"} => dir[File(i)] = Inode(i)
    /\ pc[i] = "size" => ist[Inode(i)] = "empty"
    /\ pc[i] = "init" => ist[Inode(i)] = "sized"
    /\ pc[i] = "up" => ist[Inode(i)] = "ready" /\ \A k \in DOMAIN files[i] : k <= at[i]

(* The inode n found at path f: one of an instance that is gone, or the one  *)
(* a live instance has created for f.                                        *)
BelongsAt(f, n) ==
  pc[n[1]] # "down" =>
    /\ pc[n[1]] \in Building /\ n[2] \in DOMAIN files[n[1]] /\ files[n[1]][n[2]] = f
    /\ n[2] <= at[n[1]] /\ (n[2] = at[n[1]] => pc[n[1]] \in {"size", "init", "up"})

(* Whatever area file the directory names, or a reader has open or mapped.   *)
InodesBelong ==
  /\ \A f \in Paths \ {Info, LockFile} : dir[f] # None => BelongsAt(f, dir[f])
  /\ \A r \in Readers :
       /\ rfd[r] # None => BelongsAt(rfd[r][1], rfd[r][2])
       /\ \A f \in Paths : rmap[r][f] # None => BelongsAt(f, rmap[r][f]) /\ ist[rmap[r][f]] = "ready"

(* A reader that has the serial area of a running instance has its files.    *)
SerialFirstMapped ==
  \A r \in Readers :
    /\ rpc[r] # "up" => \A f \in Paths : rmap[r][f] = None
    /\ rpc[r] = "up" => rmap[r][Serial] # None
    /\ rfd[r] # None => /\ rpc[r] \in {"serial", "up"} /\ (rpc[r] = "serial" => rfd[r][1] = Serial)
                        /\ rmap[r][rfd[r][1]] = None /\ rfd[r][1] \in FilesIn(rfiles[r])
    /\ \A f \in Paths : rmap[r][f] # None => f \in FilesIn(rfiles[r])
    /\ \A i \in Instances : pc[i] = "up" /\ rmap[r][Serial] # None /\ rmap[r][Serial][1] = i =>
         \A f \in FilesIn(files[i]) : /\ rmap[r][f] # None => rmap[r][f][1] = i
                                      /\ rfd[r] # None /\ rfd[r][1] = f => rfd[r][2][1] = i

(* The files of a running instance are its own, and those of a dead one in    *)
(* nobody's way.                                                             *)
DirInv ==
  /\ TypeOK /\ LockExclusive /\ BuiltInOrder /\ InodesBelong /\ SerialFirstMapped
  /\ LiveAreasIntact /\ StaleFilesNeverBlock

(* A reader that mapped the serial area of a running instance, with whatever *)
(* table it loaded: a file the instance has is mapped as the instance's own, *)
(* so what the reader finds there is announced on the serial it waits on     *)
(* (the serial area is built last and mapped first); any other area it maps  *)
(* is a leftover of an instance that is gone, which nobody writes any more.  *)
OneGeneration ==
  \A r \in Readers, i \in Instances :
    pc[i] = "up" /\ rmap[r][Serial] # None /\ rmap[r][Serial][1] = i =>
      \A f \in Paths : rmap[r][f] # None =>
        \/ rmap[r][f][1] = i
        \/ f \notin FilesIn(files[i]) /\ pc[rmap[r][f][1]] = "down"

(* What the documentation of _writer_lock says of a second writer: "the      *)
(* loser fails fast before touching anything".                               *)
LoserTouchesNothing ==
  [][(\E i \in Instances : pc[i] = "up" /\ pc'[i] = "up") => dir' = dir /\ info' = info]_vars
=============================================================================
