--------------------------- MODULE PropertyDirProofs ---------------------------
(***************************************************************************)
(* Proofs about PropertyDir for every set of instances and readers and     *)
(* every context table, whatever aliases, reserved or malformed names it   *)
(* has.                                                                    *)
(***************************************************************************)
EXTENDS PropertyDir, TLAPS

Inv ==
  /\ TypeOK /\ LockExclusive /\ BuiltInOrder /\ InodesBelong /\ SerialFirstMapped
  /\ StaleFilesNeverBlock

(* Reserved names are not one another. *)
LEMMA ReservedFacts ==
  /\ Info # Serial /\ Info # LockFile /\ Serial # LockFile
  /\ Info \in Paths /\ Serial \in Paths /\ LockFile \in Paths
BY DEF Info, Serial, LockFile, Reserved, Paths

(* The areas of a table have different files, none of which is property_info *)
(* or the lock file, and the serial is the last one.                         *)
LEMMA LayoutFacts ==
  ASSUME NEW L \in Layouts
  PROVE  /\ \A k \in DOMAIN L : /\ k \in Int /\ k > 0 /\ k \in Positions
                                /\ L[k] \in Paths /\ L[k] \notin {Info, LockFile}
         /\ \A k, m \in DOMAIN L : L[k] = L[m] => k = m
         /\ \A k, m \in DOMAIN L : L[k] = Serial => m <= k
<1>1. CASE L = <<>>
  BY <1>1
<1>2. ASSUME NEW i \in Instances, L = AreaFiles(Table[i])
      PROVE  /\ \A k \in DOMAIN L : /\ k \in Int /\ k > 0 /\ k \in Positions
                                    /\ L[k] \in Paths /\ L[k] \notin {Info, LockFile}
             /\ \A k, m \in DOMAIN L : L[k] = L[m] => k = m
             /\ \A k, m \in DOMAIN L : L[k] = Serial => m <= k
  <2> DEFINE t == Table[i]
  <2>1. Len(t) \in Nat /\ \A k \in 1 .. Len(t) : t[k] \in Malformed \cup DOMAIN Fold
    BY TableAssumption
  <2> HIDE DEF t
  <2>2. /\ DOMAIN L = Kept(t) \cup {Len(t) + 1}
        /\ \A p \in DOMAIN L : L[p] = IF p <= Len(t) THEN Fold[t[p]] ELSE Serial
    BY <1>2 DEF AreaFiles, t
  <2>3. \A k \in Kept(t) : k \in 1 .. Len(t) /\ Accepts(t, k)
    BY DEF Kept
  <2>4. \A k \in Kept(t) : Fold[t[k]] \in Paths /\ Fold[t[k]] \notin Reserved
    BY <2>1, <2>3 DEF Accepts, Paths
  <2>5. ASSUME NEW k \in Kept(t), NEW m \in Kept(t), k < m
        PROVE  Fold[t[k]] # Fold[t[m]]
    BY <2>1, <2>3, <2>5 DEF Accepts
  <2>6. \A k, m \in Kept(t) : Fold[t[k]] = Fold[t[m]] => k = m
    <3> SUFFICES ASSUME NEW k \in Kept(t), NEW m \in Kept(t), Fold[t[k]] = Fold[t[m]], k # m PROVE FALSE
      OBVIOUS
    <3>1. k < m \/ m < k
      BY <2>1, <2>3
    <3> QED
      BY <2>5, <3>1
  <2>7. 1 .. (Len(t) + 1) \subseteq Positions
    BY DEF Positions, t
  <2>8. \A k \in DOMAIN L : k \in 1 .. (Len(t) + 1) /\ (k # Len(t) + 1 => k \in Kept(t) /\ k <= Len(t))
    BY <2>1, <2>2, <2>3
  <2>9. \A k \in DOMAIN L : /\ k = Len(t) + 1 => L[k] = Serial
                            /\ k # Len(t) + 1 => L[k] = Fold[t[k]]
    BY <2>1, <2>2, <2>8
  <2>10. \A k \in DOMAIN L : k # Len(t) + 1 => L[k] \in Paths /\ L[k] \notin Reserved
    BY <2>4, <2>8, <2>9
  <2>11. \A k \in DOMAIN L : /\ k \in Int /\ k > 0 /\ k \in Positions
                             /\ L[k] \in Paths /\ L[k] \notin {Info, LockFile}
    BY <2>1, <2>7, <2>8, <2>9, <2>10, ReservedFacts DEF Reserved
  <2>12. \A k, m \in DOMAIN L : L[k] = L[m] => k = m
    BY <2>6, <2>8, <2>9, <2>10 DEF Reserved
  <2>13. \A k, m \in DOMAIN L : L[k] = Serial => m <= k
    BY <2>1, <2>8, <2>9, <2>10 DEF Reserved
  <2> QED
    BY <2>11, <2>12, <2>13
<1> QED
  BY <1>1, <1>2 DEF Layouts

(* The files of an instance and of a reader. *)
LEMMA FilesFacts ==
  ASSUME TypeOK, NEW i \in Instances
  PROVE  /\ \A k \in DOMAIN files[i] : /\ k \in Int /\ k > 0 /\ k \in Positions
                                       /\ files[i][k] \in Paths /\ files[i][k] \notin {Info, LockFile}
         /\ \A k, m \in DOMAIN files[i] : files[i][k] = files[i][m] => k = m
         /\ \A k, m \in DOMAIN files[i] : files[i][k] = Serial => m <= k
         /\ at[i] \in Int
<1>1. files[i] \in Layouts
  BY DEF TypeOK
<1>2. at[i] \in Int
  <2>1. Positions \subseteq Int
    BY DEF Positions
  <2> QED
    BY <2>1 DEF TypeOK
<1> QED
  BY <1>1, <1>2, LayoutFacts

(* An instance at work is at one of its areas, whose inode is its own. *)
LEMMA AtFacts ==
  ASSUME TypeOK, BuiltInOrder, NEW i \in Instances, pc[i] \in Building
  PROVE  /\ at[i] \in DOMAIN files[i] /\ File(i) = files[i][at[i]]
         /\ File(i) \in Paths /\ File(i) \notin {Info, LockFile}
         /\ Inode(i) \in Inodes /\ Inode(i) = <<i, at[i]>>
<1>1. at[i] \in DOMAIN files[i]
  BY DEF BuiltInOrder
<1> QED
  BY <1>1, FilesFacts DEF File, Inode, Inodes

(* Every area of a running instance is there. *)
LEMMA Intact == Inv => LiveAreasIntact
<1> SUFFICES ASSUME Inv, NEW i \in Instances, pc[i] = "up", NEW k \in DOMAIN files[i]
             PROVE  dir[files[i][k]] = <<i, k>> /\ ist[<<i, k>>] = "ready"
  BY DEF LiveAreasIntact
<1>1. k <= at[i] /\ k \in Int /\ at[i] \in Int
  BY FilesFacts DEF Inv, BuiltInOrder
<1>2. CASE k = at[i]
  BY <1>2 DEF Inv, BuiltInOrder, File, Inode
<1>3. CASE k < at[i]
  BY <1>3 DEF Inv, BuiltInOrder, Building
<1> QED
  BY <1>1, <1>2, <1>3

(* Steps of one instance after which the inodes found still belong where     *)
(* they are.                                                                 *)
Onward(i) ==
  /\ \A j \in Instances \ {i} : pc'[j] = pc[j] /\ files'[j] = files[j] /\ at'[j] = at[j]
  /\ \/ pc'[i] = "down"
     \/ pc[i] \notin Building \cup {"down"}
     \/ /\ pc[i] # "down" /\ pc'[i] \in Building /\ files'[i] = files[i] /\ at[i] <= at'[i]
        /\ at'[i] = at[i] /\ pc[i] \in {"size", "init", "up"} => pc'[i] \in {"size", "init", "up"}

LEMMA BelongsOnward ==
  ASSUME TypeOK, TypeOK', NEW i \in Instances, Onward(i), NEW f, NEW n \in Inodes, BelongsAt(f, n)
  PROVE  BelongsAt(f, n)'
<1>1. n[1] \in Instances
  BY DEF Inodes
<1>2. CASE n[1] # i
  BY <1>1, <1>2 DEF Onward, BelongsAt
<1>3. CASE n[1] = i
  <2>1. CASE pc'[i] = "down"
    BY <1>3, <2>1 DEF BelongsAt
  <2>2. CASE pc[i] \notin Building \cup {"down"}
    BY <1>3, <2>2 DEF BelongsAt
  <2>3. CASE /\ pc'[i] \in Building /\ files'[i] = files[i] /\ at[i] <= at'[i]
             /\ at'[i] = at[i] /\ pc[i] \in {"size", "init", "up"} => pc'[i] \in {"size", "init", "up"}
             /\ pc[i] # "down"
    <3>1. /\ n[2] \in DOMAIN files[i] /\ files[i][n[2]] = f
          /\ n[2] <= at[i] /\ (n[2] = at[i] => pc[i] \in {"size", "init", "up"})
      BY <1>3, <2>3 DEF BelongsAt
    <3>2. at[i] \in Int /\ at'[i] \in Int /\ n[2] \in Int
      <4>1. Positions \subseteq Int
        BY DEF Positions
      <4> QED
        BY <4>1 DEF TypeOK, Inodes
    <3> QED
      BY <1>3, <2>3, <3>1, <3>2 DEF BelongsAt
  <2> QED
    BY <2>1, <2>2, <2>3 DEF Onward
<1> QED
  BY <1>2, <1>3

(* What readers have open or mapped belongs where they found it. *)
LEMMA ReadersOnward ==
  ASSUME TypeOK, TypeOK', InodesBelong, NEW i \in Instances, Onward(i), UNCHANGED <<rfd, rmap>>,
         \A r \in Readers, f \in Paths :
           rmap[r][f] # None /\ ist[rmap[r][f]] = "ready" => ist'[rmap[r][f]] = "ready"
  PROVE  \A r \in Readers :
           /\ rfd'[r] # None => BelongsAt(rfd[r][1], rfd[r][2])'
           /\ \A f \in Paths : rmap'[r][f] # None =>
                BelongsAt(f, rmap[r][f])' /\ ist'[rmap'[r][f]] = "ready"
<1> SUFFICES ASSUME NEW r \in Readers
             PROVE  /\ rfd[r] # None => BelongsAt(rfd[r][1], rfd[r][2])'
                    /\ \A f \in Paths : rmap[r][f] # None =>
                         BelongsAt(f, rmap[r][f])' /\ ist'[rmap[r][f]] = "ready"
  OBVIOUS
<1>1. ASSUME rfd[r] # None PROVE BelongsAt(rfd[r][1], rfd[r][2])'
  <2>1. rfd[r][2] \in Inodes /\ rfd'[r][2] = rfd[r][2] /\ rfd'[r][1] = rfd[r][1]
    BY <1>1 DEF TypeOK
  <2>2. BelongsAt(rfd[r][1], rfd[r][2])
    BY <1>1 DEF InodesBelong
  <2>3. PICK f, n : f = rfd[r][1] /\ n = rfd[r][2]
    OBVIOUS
  <2>4. BelongsAt(f, n)'
    BY <2>1, <2>2, <2>3, BelongsOnward
  <2> QED
    BY <2>1, <2>3, <2>4 DEF BelongsAt
<1>2. ASSUME NEW f \in Paths, rmap[r][f] # None
      PROVE  BelongsAt(f, rmap[r][f])' /\ ist'[rmap[r][f]] = "ready"
  <2>1. rmap[r][f] \in Inodes /\ rmap'[r][f] = rmap[r][f]
    BY <1>2 DEF TypeOK
  <2>2. BelongsAt(f, rmap[r][f]) /\ ist[rmap[r][f]] = "ready"
    BY <1>2 DEF InodesBelong
  <2>3. PICK n : n = rmap[r][f]
    OBVIOUS
  <2>4. BelongsAt(f, n)'
    BY <2>1, <2>2, <2>3, BelongsOnward
  <2>5. BelongsAt(f, rmap[r][f])'
    BY <2>1, <2>3, <2>4 DEF BelongsAt
  <2> QED
    BY <1>2, <2>2, <2>5
<1> QED
  BY <1>1, <1>2

(* The same for the names of the directory, some of which may be new. *)
LEMMA InodesOnward ==
  ASSUME TypeOK, TypeOK', InodesBelong, NEW i \in Instances, Onward(i), UNCHANGED <<rfd, rmap>>,
         \A r \in Readers, f \in Paths :
           rmap[r][f] # None /\ ist[rmap[r][f]] = "ready" => ist'[rmap[r][f]] = "ready",
         \A f \in Paths \ {Info, LockFile} : dir'[f] \in {dir[f], None} \/ BelongsAt(f, dir[f])'
  PROVE  InodesBelong'
<1>1. ASSUME NEW f \in Paths \ {Info, LockFile}, dir'[f] # None PROVE BelongsAt(f, dir[f])'
  <2>1. CASE BelongsAt(f, dir[f])'
    BY <2>1
  <2>2. CASE dir'[f] = dir[f]
    <3>1. dir[f] \in Inodes /\ BelongsAt(f, dir[f])
      BY <1>1, <2>2 DEF TypeOK, InodesBelong
    <3>2. PICK n : n = dir[f]
      OBVIOUS
    <3>3. BelongsAt(f, n)'
      BY <3>1, <3>2, BelongsOnward
    <3> QED
      BY <2>2, <3>2, <3>3 DEF BelongsAt
  <2> QED
    BY <1>1, <2>1, <2>2
<1>2. \A r \in Readers :
        /\ rfd'[r] # None => BelongsAt(rfd[r][1], rfd[r][2])'
        /\ \A f \in Paths : rmap'[r][f] # None =>
             BelongsAt(f, rmap[r][f])' /\ ist'[rmap'[r][f]] = "ready"
  BY ReadersOnward
<1> QED
  BY <1>1, <1>2 DEF InodesBelong

(* Steps of instances by which none comes up. *)
LEMMA SerialKept ==
  ASSUME SerialFirstMapped, UNCHANGED <<rpc, rfiles, rfd, rmap>>,
         \A j \in Instances : pc'[j] = "up" => pc[j] = "up" /\ files'[j] = files[j]
  PROVE  SerialFirstMapped'
BY DEF SerialFirstMapped, FilesIn

-----------------------------------------------------------------------------
(* Before the lock: property_info, and the table read back from it.        *)

LEMMA InfoStepInv ==
  ASSUME Inv, NEW i \in Instances, CreateInfo(i) \/ WriteInfo(i) \/ (LoadInfo(i) /\ InfoValid)
  PROVE  Inv'
<1> USE DEF Inv
<1>1. /\ pc[i] \in {"off", "write", "load"}
      /\ \E p \in {"write", "load", "lock"} : pc' = [pc EXCEPT ![i] = p]
      /\ UNCHANGED <<at, held, ist, rpc, rfiles, rfd, rmap>>
      /\ dir' = dir \/ dir' = [dir EXCEPT ![Info] = InfoInode(i)]
  BY DEF CreateInfo, WriteInfo, LoadInfo, Step, rdr, TypeOK
<1>2. files' = files \/ (files' = [files EXCEPT ![i] = AreaFiles(Table[info.by])] /\ info.by \in Instances)
  <2>1. CASE CreateInfo(i) \/ WriteInfo(i)
    BY <2>1 DEF CreateInfo, WriteInfo
  <2>2. CASE LoadInfo(i) /\ InfoValid
    BY <2>2 DEF LoadInfo, InfoValid, TypeOK
  <2> QED
    BY <2>1, <2>2
<1>3. info' \in [by : Instances \cup {None}, size : Nat] /\ (info'.size > 0 => info'.by # None)
  <2>1. CASE CreateInfo(i)
    BY <2>1 DEF CreateInfo
  <2>2. CASE WriteInfo(i)
    <3>1. InfoSize(i) \in Nat /\ info.size \in Nat
      BY TableAssumption DEF InfoSize, TypeOK
    <3> QED
      BY <2>2, <3>1, NoneAssumption DEF WriteInfo
  <2>3. CASE LoadInfo(i)
    BY <2>3 DEF LoadInfo, TypeOK
  <2> QED
    BY <2>1, <2>2, <2>3
<1>4. InfoInode(i) \in Inodes
  BY DEF InfoInode, Inodes, Positions
<1>5. /\ pc[i] \notin Building \cup {"down"} /\ pc'[i] \notin Building \cup {"down"}
      /\ \A j \in Instances \ {i} : pc'[j] = pc[j] /\ files'[j] = files[j]
  BY <1>1, <1>2 DEF Building, TypeOK
<1>6. TypeOK'
  <2>1. files' \in [Instances -> Layouts]
    BY <1>2 DEF TypeOK, Layouts
  <2>2. dir' \in [Paths -> Inodes \cup {None}]
    BY <1>1, <1>4, ReservedFacts DEF TypeOK
  <2>3. /\ ist' \in [Inodes -> {"none", "empty", "sized", "ready"}] /\ at' \in [Instances -> Positions]
        /\ held' \in [Instances -> Inodes \cup {None}] /\ rfiles' \in [Readers -> Layouts]
        /\ rpc' \in [Readers -> {"start", "serial", "up", "failed"}]
        /\ rfd' \in [Readers -> (Paths \X Inodes) \cup {None}]
        /\ rmap' \in [Readers -> [Paths -> Inodes \cup {None}]]
    BY <1>1 DEF TypeOK
  <2>4. pc' \in [Instances -> {"off", "write", "load", "lock", "unlink", "create", "stale", "size",
                              "init", "up", "down"}]
    BY <1>1 DEF TypeOK
  <2> QED
    BY <1>3, <2>1, <2>2, <2>3, <2>4 DEF TypeOK, Layouts
<1>7. \A f \in Paths : f # Info => dir'[f] = dir[f]
  BY <1>1 DEF TypeOK
<1>8. LockExclusive'
  BY <1>1, <1>5, <1>7, ReservedFacts DEF LockExclusive
<1>9. BuiltInOrder' /\ StaleFilesNeverBlock'
  <2>1. \A j \in Instances : j # i /\ pc[j] \in Building =>
          /\ at[j] \in DOMAIN files[j]
          /\ \A k \in DOMAIN files[j] : dir'[files[j][k]] = dir[files[j][k]]
    BY <1>7, FilesFacts DEF BuiltInOrder
  <2>2. BuiltInOrder'
    <3>1. pc'[i] \notin Building /\ at'[i] = 0 /\ pc'[i] \notin {"size", "init", "up"}
      BY <1>1, <1>5 DEF BuiltInOrder, Building
    <3>2. \A j \in Instances \ {i} : /\ pc'[j] = pc[j] /\ at'[j] = at[j] /\ files'[j] = files[j]
                                    /\ File(j)' = File(j) /\ Inode(j)' = Inode(j)
      BY <1>1, <1>5 DEF File, Inode
    <3>3. \A j \in Instances \ {i} : pc[j] \in Building => dir'[File(j)] = dir[File(j)]
      BY <2>1 DEF File
    <3>4. {"size", "init", "up"} \subseteq Building
      BY DEF Building
    <3> SUFFICES ASSUME NEW j \in Instances
                 PROVE  /\ pc'[j] \notin Building => at'[j] = 0
                        /\ pc'[j] \in Building =>
                             /\ at'[j] \in DOMAIN files'[j]
                             /\ \A k \in DOMAIN files'[j] : k < at'[j] =>
                                  dir'[files'[j][k]] = <<j, k>> /\ ist'[<<j, k>>] = "ready"
                        /\ pc'[j] \in {"size", "init", "up"} => dir'[File(j)'] = Inode(j)'
                        /\ pc'[j] = "size" => ist'[Inode(j)'] = "empty"
                        /\ pc'[j] = "init" => ist'[Inode(j)'] = "sized"
                        /\ pc'[j] = "up" => /\ ist'[Inode(j)'] = "ready"
                                           /\ \A k \in DOMAIN files'[j] : k <= at'[j]
      BY DEF BuiltInOrder
    <3>5. CASE j = i
      BY <3>1, <3>5
    <3>6. CASE j # i
      <4>1. pc'[j] \in Building => \A k \in DOMAIN files[j] : k < at[j] =>
                                    dir'[files[j][k]] = <<j, k>> /\ ist[<<j, k>>] = "ready"
        BY <2>1, <3>2, <3>6 DEF BuiltInOrder
      <4>2. pc'[j] \in {"size", "init", "up"} => dir'[File(j)] = Inode(j)
        BY <3>2, <3>3, <3>4, <3>6 DEF BuiltInOrder
      <4>3. /\ pc[j] \notin Building => at[j] = 0
            /\ pc[j] = "size" => ist[Inode(j)] = "empty"
            /\ pc[j] = "init" => ist[Inode(j)] = "sized"
            /\ pc[j] = "up" => ist[Inode(j)] = "ready" /\ \A k \in DOMAIN files[j] : k <= at[j]
        BY DEF BuiltInOrder
      <4>4. ist' = ist
        BY <1>1
      <4> HIDE DEF Inv
      <4> QED
        BY <2>1, <3>2, <3>6, <4>1, <4>2, <4>3, <4>4
    <3> QED
      BY <3>5, <3>6
  <2>3. StaleFilesNeverBlock'
    BY <1>1, <1>5, <2>1 DEF StaleFilesNeverBlock, File, Building
  <2> QED
    BY <2>2, <2>3
<1>10. InodesBelong'
  <2>1. Onward(i)
    BY <1>1, <1>5 DEF Onward
  <2> QED
    BY <1>1, <1>6, <1>7, <2>1, InodesOnward
<1>11. SerialFirstMapped'
  BY <1>1, <1>5, SerialKept DEF Building
<1> QED
  BY <1>6, <1>8, <1>9, <1>10, <1>11

(* The instance is gone. *)
LEMMA DownInv ==
  ASSUME Inv, NEW i \in Instances, Down(i), UNCHANGED <<dir, ist, info, rdr>>
  PROVE  Inv'
<1> USE DEF Inv
<1>1. /\ pc' = [pc EXCEPT ![i] = "down"] /\ held' = [held EXCEPT ![i] = None]
      /\ files' = [files EXCEPT ![i] = <<>>] /\ at' = [at EXCEPT ![i] = 0]
      /\ UNCHANGED <<dir, ist, info, rpc, rfiles, rfd, rmap>>
  BY DEF Down, rdr
<1>2. TypeOK'
  BY <1>1 DEF TypeOK, Layouts, Positions
<1>3. /\ pc'[i] = "down" /\ held'[i] = None /\ at'[i] = 0
      /\ \A j \in Instances \ {i} : /\ pc'[j] = pc[j] /\ held'[j] = held[j]
                                     /\ files'[j] = files[j] /\ at'[j] = at[j]
  BY <1>1 DEF TypeOK
<1>4. LockExclusive'
  BY <1>1, <1>3 DEF LockExclusive, Building
<1>5. BuiltInOrder' /\ StaleFilesNeverBlock'
  <2>1. BuiltInOrder'
    <3>1. pc'[i] \notin Building
      BY <1>3 DEF Building
    <3>2. \A j \in Instances \ {i} : File(j)' = File(j) /\ Inode(j)' = Inode(j)
      BY <1>3 DEF File, Inode
    <3>3. pc'[i] \notin {"size", "init", "up"} /\ at'[i] = 0
      BY <1>3
    <3> SUFFICES ASSUME NEW j \in Instances
                 PROVE  (/\ pc[j] \notin Building => at[j] = 0
                         /\ pc[j] \in Building =>
                              /\ at[j] \in DOMAIN files[j]
                              /\ \A k \in DOMAIN files[j] :
                                   k < at[j] => dir[files[j][k]] = <<j, k>> /\ ist[<<j, k>>] = "ready"
                         /\ pc[j] \in {"size", "init", "up"} => dir[File(j)] = Inode(j)
                         /\ pc[j] = "size" => ist[Inode(j)] = "empty"
                         /\ pc[j] = "init" => ist[Inode(j)] = "sized"
                         /\ pc[j] = "up" => ist[Inode(j)] = "ready" /\ \A k \in DOMAIN files[j] : k <= at[j])'
      BY DEF BuiltInOrder
    <3>4. CASE j = i
      BY <3>1, <3>3, <3>4
    <3>5. CASE j # i
      BY <1>1, <1>3, <3>2, <3>5 DEF BuiltInOrder
    <3> QED
      BY <3>4, <3>5
  <2>2. StaleFilesNeverBlock'
    BY <1>1, <1>3 DEF StaleFilesNeverBlock, File
  <2> QED
    BY <2>1, <2>2
<1>6. InodesBelong'
  <2>1. Onward(i)
    BY <1>3 DEF Onward
  <2> QED
    BY <1>1, <1>2, <2>1, InodesOnward
<1>7. SerialFirstMapped'
  BY <1>1, <1>3, SerialKept
<1> QED
  BY <1>2, <1>4, <1>5, <1>6, <1>7

-----------------------------------------------------------------------------
(* The writer's lock. *)

LEMMA TakeLockInv ==
  ASSUME Inv, NEW i \in Instances, TakeLock(i)
  PROVE  Inv'
<1> USE DEF Inv
<1> DEFINE n == IF dir[LockFile] = None THEN LockInode(i) ELSE dir[LockFile]
<1>1. /\ pc[i] = "lock" /\ dir' = [dir EXCEPT ![LockFile] = n]
      /\ UNCHANGED <<ist, info, rpc, rfiles, rfd, rmap>> /\ UNCHANGED rdr
  BY DEF TakeLock, rdr
<1>2. n \in Inodes /\ n # None
  <2>1. LockInode(i) \in Inodes
    BY DEF LockInode, Inodes, Positions
  <2> QED
    BY <2>1, ReservedFacts, NoneAssumption DEF TypeOK
<1>3. CASE (\E j \in Instances : held[j] = n) /\ Down(i)
  <2>1. dir[LockFile] = n
    BY <1>2, <1>3 DEF LockExclusive
  <2>2. dir' = dir
    BY <1>1, <2>1 DEF TypeOK
  <2> QED
    BY <1>1, <1>3, <2>2, DownInv
<1>4. CASE /\ \A j \in Instances : held[j] # n
           /\ pc' = [pc EXCEPT ![i] = "unlink"] /\ held' = [held EXCEPT ![i] = n]
           /\ GoesOn(i) /\ UNCHANGED files
  <2>1. PICK k \in Following(i) : at' = [at EXCEPT ![i] = k]
    BY <1>4 DEF GoesOn
  <2>2. /\ k \in DOMAIN files[i] /\ k \in Positions /\ at[i] = 0
        /\ \A m \in DOMAIN files[i] : m \in Int /\ k \in Int /\ k <= m
    BY <1>1, <2>1, FilesFacts DEF Following, BuiltInOrder, Building
  <2>3. TypeOK'
    <3>1. dir' \in [Paths -> Inodes \cup {None}] /\ held' \in [Instances -> Inodes \cup {None}]
      BY <1>1, <1>2, <1>4, ReservedFacts DEF TypeOK
    <3> QED
      BY <1>1, <1>4, <2>1, <2>2, <3>1 DEF TypeOK
  <2>4. /\ pc'[i] = "unlink" /\ held'[i] = n /\ at'[i] = k /\ dir'[LockFile] = n
        /\ \A j \in Instances \ {i} : pc'[j] = pc[j] /\ held'[j] = held[j] /\ at'[j] = at[j]
        /\ \A f \in Paths : f # LockFile => dir'[f] = dir[f]
    BY <1>1, <1>4, <2>1, ReservedFacts DEF TypeOK
  <2>5. \A j \in Instances : held[j] = None /\ pc[j] \notin Building
    BY <1>4 DEF LockExclusive
  <2>6. LockExclusive'
    BY <1>2, <2>4, <2>5 DEF LockExclusive, Building
  <2>7. BuiltInOrder'
    <3>1. \A m \in DOMAIN files[i] : ~ (m < k)
      BY <2>2
    <3> QED
      BY <1>4, <2>2, <2>4, <2>5, <3>1 DEF BuiltInOrder, Building
  <2>8. StaleFilesNeverBlock'
    BY <2>4, <2>5 DEF StaleFilesNeverBlock, Building
  <2>9. InodesBelong'
    <3>1. Onward(i)
      BY <1>1, <1>4, <2>4 DEF Onward, Building
    <3> QED
      BY <1>1, <2>3, <2>4, <3>1, InodesOnward
  <2>10. SerialFirstMapped'
    BY <1>1, <1>4, <2>4, SerialKept
  <2> QED
    BY <2>3, <2>6, <2>7, <2>8, <2>9, <2>10
<1> QED
  BY <1>3, <1>4 DEF TakeLock, Step

-----------------------------------------------------------------------------
(* new_rw, by the one instance that has the lock.                          *)

LEMMA BuildFrame ==
  ASSUME Inv, NEW i \in Instances, pc[i] \in Building, NEW p \in Building,
         pc' = [pc EXCEPT ![i] = p], UNCHANGED <<files, held>>,
         at' = at \/ GoesOn(i), dir'[LockFile] = dir[LockFile]
  PROVE  /\ LockExclusive'
         /\ pc'[i] = p /\ \A j \in Instances \ {i} : /\ pc[j] \notin Building /\ pc'[j] = pc[j]
                                                     /\ at'[j] = at[j] /\ at'[j] = 0
         /\ at' \in [Instances -> Positions]
<1> USE DEF Inv
<1>1. pc'[i] = p /\ \A j \in Instances \ {i} : pc'[j] = pc[j]
  BY DEF TypeOK
<1>2. \A j \in Instances \ {i} : pc[j] \notin Building /\ at[j] = 0
  BY DEF LockExclusive, BuiltInOrder
<1>3. LockExclusive'
  BY <1>1 DEF LockExclusive
<1>4. /\ at' \in [Instances -> Positions]
      /\ \A j \in Instances \ {i} : at'[j] = at[j]
  <2>1. CASE at' = at
    BY <2>1 DEF TypeOK
  <2>2. CASE GoesOn(i)
    <3>1. PICK k \in Following(i) : at' = [at EXCEPT ![i] = k]
      BY <2>2 DEF GoesOn
    <3>2. k \in Positions
      BY FilesFacts DEF Following
    <3> QED
      BY <3>1, <3>2 DEF TypeOK
  <2> QED
    BY <2>1, <2>2
<1> QED
  BY <1>1, <1>2, <1>3, <1>4

(* What is left to show of a step of the building instance. *)
LEMMA BuildStep ==
  ASSUME Inv, NEW i \in Instances, pc[i] \in Building, NEW p \in Building \ {"up"},
         pc' = [pc EXCEPT ![i] = p], UNCHANGED <<files, held, info, rpc, rfiles, rfd, rmap>>,
         at' = at, dir' \in [Paths -> Inodes \cup {None}],
         ist' \in [Inodes -> {"none", "empty", "sized", "ready"}],
         \A f \in Paths : f # File(i) => dir'[f] = dir[f],
         \A n \in Inodes : n # Inode(i) => ist'[n] = ist[n],
         dir'[File(i)] \in {dir[File(i)], None, Inode(i)},
         pc[i] \in {"size", "init", "up"} => p \in {"size", "init"},
         p \in {"size", "init"} => dir'[File(i)] = Inode(i),
         dir'[File(i)] = Inode(i) => dir[File(i)] = Inode(i) \/ p \in {"size", "init"},
         p = "size" => ist'[Inode(i)] = "empty",
         p = "init" => ist'[Inode(i)] = "sized",
         p = "create" => dir'[File(i)] = None,
         ist'[Inode(i)] = ist[Inode(i)] \/ ist[Inode(i)] # "ready" \/ pc[i] \in {"create", "stale"}
  PROVE  Inv'
<1> USE DEF Inv
<1>1. /\ at[i] \in DOMAIN files[i] /\ File(i) = files[i][at[i]]
      /\ File(i) \in Paths /\ File(i) \notin {Info, LockFile}
      /\ Inode(i) \in Inodes /\ Inode(i) = <<i, at[i]>>
  BY AtFacts
<1>2. dir'[LockFile] = dir[LockFile]
  BY <1>1, ReservedFacts
<1>3. /\ LockExclusive'
      /\ pc'[i] = p /\ \A j \in Instances \ {i} : pc[j] \notin Building /\ pc'[j] = pc[j] /\ at'[j] = 0
  BY <1>2, BuildFrame
<1>4. TypeOK'
  BY DEF TypeOK, Building
<1>5. BuiltInOrder'
  <2>1. \A k \in DOMAIN files[i] : k < at[i] => dir'[files[i][k]] = <<i, k>> /\ ist'[<<i, k>>] = "ready"
    <3> SUFFICES ASSUME NEW k \in DOMAIN files[i], k < at[i]
                 PROVE  dir'[files[i][k]] = <<i, k>> /\ ist'[<<i, k>>] = "ready"
      OBVIOUS
    <3>1. dir[files[i][k]] = <<i, k>> /\ ist[<<i, k>>] = "ready"
      BY DEF BuiltInOrder
    <3>2. k \in Positions /\ k # at[i] /\ files[i][k] \in Paths /\ files[i][k] # File(i)
      BY <1>1, FilesFacts
    <3>3. <<i, k>> \in Inodes /\ <<i, k>> # Inode(i)
      BY <1>1, <3>2 DEF Inodes
    <3> QED
      BY <3>1, <3>2, <3>3
  <2>2. File(i)' = File(i) /\ Inode(i)' = Inode(i)
    BY DEF File, Inode
  <2> SUFFICES ASSUME NEW j \in Instances
               PROVE  (/\ pc[j] \notin Building => at[j] = 0
                       /\ pc[j] \in Building =>
                            /\ at[j] \in DOMAIN files[j]
                            /\ \A k \in DOMAIN files[j] :
                                 k < at[j] => dir[files[j][k]] = <<j, k>> /\ ist[<<j, k>>] = "ready"
                       /\ pc[j] \in {"size", "init", "up"} => dir[File(j)] = Inode(j)
                       /\ pc[j] = "size" => ist[Inode(j)] = "empty"
                       /\ pc[j] = "init" => ist[Inode(j)] = "sized"
                       /\ pc[j] = "up" => ist[Inode(j)] = "ready" /\ \A k \in DOMAIN files[j] : k <= at[j])'
    BY DEF BuiltInOrder
  <2>3. CASE j = i
    BY <1>1, <1>3, <2>1, <2>2, <2>3
  <2>4. CASE j # i
    BY <1>3, <2>4 DEF Building
  <2> QED
    BY <2>3, <2>4
<1>6. StaleFilesNeverBlock'
  BY <1>3 DEF StaleFilesNeverBlock, File, Building
<1>7. InodesBelong'
  <2>1. Onward(i)
    <3>1. at[i] <= at'[i] /\ pc[i] # "down"
      BY FilesFacts DEF Building
    <3> QED
      BY <1>3, <3>1 DEF Onward
  <2>2. ASSUME NEW r \in Readers, NEW f \in Paths, rmap[r][f] # None, ist[rmap[r][f]] = "ready"
        PROVE  ist'[rmap[r][f]] = "ready"
    <3>1. rmap[r][f] \in Inodes /\ BelongsAt(f, rmap[r][f])
      BY <2>2 DEF TypeOK, InodesBelong
    <3>2. CASE rmap[r][f] # Inode(i)
      BY <2>2, <3>1, <3>2
    <3>3. CASE rmap[r][f] = Inode(i)
      <4>1. pc[i] \in {"size", "init", "up"}
        BY <1>1, <3>1, <3>3 DEF BelongsAt, Building
      <4> QED
        BY <2>2, <3>3, <4>1
    <3> QED
      BY <3>2, <3>3
  <2>3. ASSUME NEW f \in Paths \ {Info, LockFile}
        PROVE  dir'[f] \in {dir[f], None} \/ BelongsAt(f, dir[f])'
    <3>1. CASE f = File(i) /\ dir'[f] = Inode(i) /\ dir[f] # Inode(i)
      <4>1. p \in {"size", "init"}
        BY <3>1
      <4>2. files'[i] = files[i] /\ at'[i] = at[i] /\ at[i] \in Int
        BY FilesFacts
      <4>3. <<i, at[i]>>[1] = i /\ <<i, at[i]>>[2] = at[i]
        OBVIOUS
      <4>4. dir'[f] = <<i, at[i]>>
        BY <1>1, <3>1
      <4> QED
        BY <1>1, <1>3, <3>1, <4>1, <4>2, <4>3, <4>4 DEF BelongsAt, Building
    <3> QED
      BY <3>1
  <2> QED
    BY <1>4, <2>1, <2>2, <2>3, InodesOnward
<1>8. SerialFirstMapped'
  BY <1>3, SerialKept
<1> QED
  BY <1>3, <1>4, <1>5, <1>6, <1>7, <1>8

LEMMA UnlinkInv ==
  ASSUME Inv, NEW i \in Instances, Unlink(i) \/ UnlinkFails(i)
  PROVE  Inv'
<1>1. pc[i] \in Building /\ pc[i] = "unlink"
  BY DEF Unlink, UnlinkFails, Step, Building
<1>2. /\ File(i) \in Paths /\ Inode(i) \in Inodes
  BY <1>1, AtFacts DEF Inv
<1>3. PICK p \in {"create", "stale"} :
        /\ pc' = [pc EXCEPT ![i] = p] /\ p \in Building \ {"up"}
        /\ p = "create" => dir' = [dir EXCEPT ![File(i)] = None]
        /\ p = "stale" => dir' = dir
  BY DEF Unlink, UnlinkFails, Step, Building
<1>4. UNCHANGED <<ist, at, files, held, info, rpc, rfiles, rfd, rmap>>
  BY DEF Unlink, UnlinkFails, rdr
<1>5. /\ dir' \in [Paths -> Inodes \cup {None}]
      /\ \A f \in Paths : f # File(i) => dir'[f] = dir[f]
      /\ dir'[File(i)] \in {dir[File(i)], None}
      /\ p = "create" => dir'[File(i)] = None
      /\ ist \in [Inodes -> {"none", "empty", "sized", "ready"}]
  BY <1>2, <1>3 DEF Inv, TypeOK
<1>6. Inode(i) # None
  BY <1>2, NoneAssumption
<1> QED
  BY <1>1, <1>3, <1>4, <1>5, <1>6, BuildStep

LEMMA CreateInv ==
  ASSUME Inv, NEW i \in Instances, Create(i)
  PROVE  Inv'
<1>1. pc[i] \in Building /\ pc[i] \in {"create", "stale"}
  BY DEF Create, Building
<1>2. CASE Down(i) /\ UNCHANGED <<dir, ist>>
  BY <1>2, DownInv DEF Create
<1>3. CASE /\ dir[File(i)] = None /\ pc' = [pc EXCEPT ![i] = "size"]
           /\ dir' = [dir EXCEPT ![File(i)] = Inode(i)]
           /\ ist' = [ist EXCEPT ![Inode(i)] = "empty"]
           /\ UNCHANGED <<files, at, held>>
  <2>1. /\ File(i) \in Paths /\ Inode(i) \in Inodes
    BY <1>1, AtFacts DEF Inv
  <2>2. UNCHANGED <<info, rpc, rfiles, rfd, rmap>>
    BY DEF Create, rdr
  <2>3. /\ dir' \in [Paths -> Inodes \cup {None}]
        /\ ist' \in [Inodes -> {"none", "empty", "sized", "ready"}]
        /\ \A f \in Paths : f # File(i) => dir'[f] = dir[f]
        /\ \A n \in Inodes : n # Inode(i) => ist'[n] = ist[n]
        /\ dir'[File(i)] = Inode(i) /\ ist'[Inode(i)] = "empty"
    BY <1>3, <2>1 DEF Inv, TypeOK
  <2>4. "size" \in Building \ {"up"}
    BY DEF Building
  <2> QED
    BY <1>1, <1>3, <2>2, <2>3, <2>4, BuildStep
<1> QED
  BY <1>2, <1>3 DEF Create

LEMMA SizeInv ==
  ASSUME Inv, NEW i \in Instances, Size(i)
  PROVE  Inv'
<1>1. /\ pc[i] \in Building /\ pc[i] = "size" /\ pc' = [pc EXCEPT ![i] = "init"]
      /\ "init" \in Building \ {"up"}
      /\ UNCHANGED <<dir, at, files, held, info, rpc, rfiles, rfd, rmap>>
  BY DEF Size, Step, rdr, Building
<1>2. Inode(i) \in Inodes /\ File(i) \in Paths
  BY <1>1, AtFacts DEF Inv
<1>3. /\ ist' \in [Inodes -> {"none", "empty", "sized", "ready"}]
      /\ \A n \in Inodes : n # Inode(i) => ist'[n] = ist[n]
      /\ ist'[Inode(i)] = "sized" /\ dir \in [Paths -> Inodes \cup {None}]
  BY <1>2 DEF Size, Inv, TypeOK
<1>4. dir[File(i)] = Inode(i) /\ ist[Inode(i)] = "empty"
  BY <1>1 DEF Inv, BuiltInOrder
<1> QED
  BY <1>1, <1>3, <1>4, BuildStep

(* The area is ready.  If it is the last one, the instance comes up, and no *)
(* reader has its serial area: that is the one that was not ready.          *)
LEMMA InitAreaInv ==
  ASSUME Inv, NEW i \in Instances, InitArea(i)
  PROVE  Inv'
<1> USE DEF Inv
<1>1. /\ pc[i] \in Building /\ pc[i] = "init" /\ ist' = [ist EXCEPT ![Inode(i)] = "ready"]
      /\ UNCHANGED <<dir, files, held, info, rpc, rfiles, rfd, rmap>>
  BY DEF InitArea, Step, rdr, Building
<1>2. /\ at[i] \in DOMAIN files[i] /\ File(i) = files[i][at[i]]
      /\ File(i) \in Paths /\ File(i) \notin {Info, LockFile}
      /\ Inode(i) \in Inodes /\ Inode(i) = <<i, at[i]>>
  BY <1>1, AtFacts
<1>3. dir[File(i)] = Inode(i) /\ ist[Inode(i)] = "sized"
  BY <1>1 DEF BuiltInOrder
<1>4. PICK p \in {"unlink", "up"} :
        /\ pc' = [pc EXCEPT ![i] = p] /\ p \in Building
        /\ p = "unlink" => GoesOn(i)
        /\ p = "up" => at' = at /\ \A m \in DOMAIN files[i] : m <= at[i]
  BY DEF InitArea, Step, Building
<1>5. at' = at \/ GoesOn(i)
  BY <1>4
<1>6. /\ LockExclusive'
      /\ pc'[i] = p /\ \A j \in Instances \ {i} : /\ pc[j] \notin Building /\ pc'[j] = pc[j]
                                                  /\ at'[j] = at[j] /\ at'[j] = 0
      /\ at' \in [Instances -> Positions]
  BY <1>1, <1>4, <1>5, BuildFrame
<1>7. TypeOK'
  <2>1. pc' \in [Instances -> {"off", "write", "load", "lock", "unlink", "create", "stale", "size",
                               "init", "up", "down"}]
        /\ ist' \in [Inodes -> {"none", "empty", "sized", "ready"}]
    BY <1>1, <1>4 DEF TypeOK
  <2> QED
    BY <1>1, <1>6, <2>1 DEF TypeOK
<1>8. \A n \in Inodes : ist'[n] = IF n = Inode(i) THEN "ready" ELSE ist[n]
  BY <1>1 DEF TypeOK
<1>9. \A k \in DOMAIN files[i] : k <= at[i] => dir[files[i][k]] = <<i, k>> /\ ist'[<<i, k>>] = "ready"
  <2> SUFFICES ASSUME NEW k \in DOMAIN files[i], k <= at[i]
               PROVE  dir[files[i][k]] = <<i, k>> /\ ist'[<<i, k>>] = "ready"
    OBVIOUS
  <2>1. k \in Int /\ at[i] \in Int /\ k \in Positions
    BY FilesFacts
  <2>2. <<i, k>> \in Inodes
    BY <2>1 DEF Inodes
  <2>3. CASE k = at[i]
    BY <1>2, <1>3, <1>8, <2>3
  <2>4. CASE k < at[i]
    BY <1>1, <1>8, <2>2, <2>4 DEF BuiltInOrder
  <2> QED
    BY <2>1, <2>3, <2>4
<1>10. /\ at'[i] \in DOMAIN files[i] /\ at[i] <= at'[i] /\ (p = "unlink" => at[i] < at'[i])
       /\ \A k \in DOMAIN files[i] : k < at'[i] => k <= at[i]
  <2>1. CASE p = "up"
    BY <1>2, <1>4, <2>1, FilesFacts
  <2>2. CASE p = "unlink"
    <3>1. PICK k \in Following(i) : at' = [at EXCEPT ![i] = k]
      BY <1>4, <2>2 DEF GoesOn
    <3>2. at'[i] = k
      BY <3>1 DEF TypeOK
    <3> QED
      BY <3>2, FilesFacts DEF Following
  <2> QED
    BY <2>1, <2>2
<1>11. BuiltInOrder'
  <2>1. p = "up" => File(i)' = File(i) /\ Inode(i)' = Inode(i)
    BY <1>1, <1>4 DEF File, Inode
  <2>2. p = "up" => ist'[Inode(i)] = "ready"
    BY <1>2, <1>8
  <2>3. \A k \in DOMAIN files[i] : k < at'[i] => dir[files[i][k]] = <<i, k>> /\ ist'[<<i, k>>] = "ready"
    BY <1>9, <1>10
  <2> SUFFICES ASSUME NEW j \in Instances
               PROVE  (/\ pc[j] \notin Building => at[j] = 0
                       /\ pc[j] \in Building =>
                            /\ at[j] \in DOMAIN files[j]
                            /\ \A k \in DOMAIN files[j] :
                                 k < at[j] => dir[files[j][k]] = <<j, k>> /\ ist[<<j, k>>] = "ready"
                       /\ pc[j] \in {"size", "init", "up"} => dir[File(j)] = Inode(j)
                       /\ pc[j] = "size" => ist[Inode(j)] = "empty"
                       /\ pc[j] = "init" => ist[Inode(j)] = "sized"
                       /\ pc[j] = "up" => ist[Inode(j)] = "ready" /\ \A k \in DOMAIN files[j] : k <= at[j])'
    BY DEF BuiltInOrder
  <2>4. CASE j = i
    BY <1>1, <1>3, <1>4, <1>6, <1>10, <2>1, <2>2, <2>3, <2>4
  <2>5. CASE j # i
    BY <1>6, <2>5 DEF Building
  <2> QED
    BY <2>4, <2>5
<1>12. StaleFilesNeverBlock'
  BY <1>4, <1>6 DEF StaleFilesNeverBlock, Building
<1>13. InodesBelong'
  <2>1. Onward(i)
    <3>1. at'[i] = at[i] => p = "up"
      BY <1>4, <1>10, FilesFacts
    <3> QED
      BY <1>1, <1>4, <1>6, <1>10, <3>1 DEF Onward
  <2>2. \A r \in Readers, f \in Paths :
          rmap[r][f] # None /\ ist[rmap[r][f]] = "ready" => ist'[rmap[r][f]] = "ready"
    BY <1>8 DEF TypeOK
  <2> QED
    BY <1>1, <1>7, <2>1, <2>2, InodesOnward
<1>14. SerialFirstMapped'
  <2>1. CASE p = "unlink"
    BY <1>1, <1>6, <2>1, SerialKept
  <2>2. CASE p = "up"
    <3>1. ASSUME NEW r \in Readers, rmap[r][Serial] # None, rmap[r][Serial][1] = i
          PROVE  FALSE
      <4>1. BelongsAt(Serial, rmap[r][Serial]) /\ ist[rmap[r][Serial]] = "ready" /\ rmap[r][Serial] \in Inodes
        BY <3>1, ReservedFacts DEF InodesBelong, TypeOK
      <4>2. PICK k : rmap[r][Serial] = <<i, k>>
        BY <3>1, <4>1 DEF Inodes
      <4>3. k \in DOMAIN files[i] /\ files[i][k] = Serial /\ k <= at[i]
        BY <1>1, <4>1, <4>2 DEF BelongsAt
      <4>4. k = at[i]
        BY <1>2, <4>3, FilesFacts
      <4> QED
        BY <1>2, <1>3, <4>1, <4>2, <4>4
    <3>2. \A j \in Instances : pc'[j] = "up" => j = i
      BY <1>6 DEF Building
    <3> QED
      BY <1>1, <3>1, <3>2 DEF SerialFirstMapped
  <2> QED
    BY <2>1, <2>2
<1> QED
  BY <1>6, <1>7, <1>11, <1>12, <1>13, <1>14

-----------------------------------------------------------------------------
(* Readers change nothing but what they have open and mapped.              *)

LEMMA ReaderFrame ==
  ASSUME Inv, UNCHANGED <<dir, ist, info, pc, files, at, held>>
  PROVE  LockExclusive' /\ BuiltInOrder' /\ StaleFilesNeverBlock'
BY DEF Inv, LockExclusive, BuiltInOrder, StaleFilesNeverBlock, File, Inode

LEMMA ReadInfoInv ==
  ASSUME Inv, NEW r \in Readers, ReadInfo(r)
  PROVE  Inv'
<1> USE DEF Inv
<1>1. /\ UNCHANGED <<dir, ist, info, pc, files, at, held, rfd, rmap>> /\ rpc[r] = "start"
      /\ \E p \in {"serial", "failed"} : rpc' = [rpc EXCEPT ![r] = p]
      /\ rfiles' = [rfiles EXCEPT ![r] = IF InfoValid THEN AreaFiles(Table[info.by]) ELSE <<>>]
  BY DEF ReadInfo, inst
<1>2. TypeOK'
  <2>1. (IF InfoValid THEN AreaFiles(Table[info.by]) ELSE <<>>) \in Layouts
    BY DEF InfoValid, TypeOK, Layouts
  <2> QED
    BY <1>1, <2>1 DEF TypeOK
<1>3. InodesBelong'
  BY <1>1 DEF InodesBelong, BelongsAt
<1>4. SerialFirstMapped'
  <2>1. rfd[r] = None /\ \A f \in Paths : rmap[r][f] = None
    BY <1>1 DEF SerialFirstMapped
  <2>2. /\ rpc'[r] \in {"serial", "failed"}
        /\ \A q \in Readers \ {r} : rpc'[q] = rpc[q] /\ rfiles'[q] = rfiles[q]
    BY <1>1 DEF TypeOK
  <2> QED
    BY <1>1, <2>1, <2>2, ReservedFacts DEF SerialFirstMapped
<1> QED
  BY <1>1, <1>2, <1>3, <1>4, ReaderFrame

LEMMA OpenAreaInv ==
  ASSUME Inv, NEW r \in Readers, NEW f \in Paths, OpenArea(r, f)
  PROVE  Inv'
<1> USE DEF Inv
<1>1. /\ UNCHANGED <<dir, ist, info, pc, files, at, held, rfiles, rmap>>
      /\ rpc[r] \in {"serial", "up"} /\ rfd[r] = None /\ f \in Mappable(r)
  BY DEF OpenArea, inst
<1>2. /\ f \in FilesIn(rfiles[r]) /\ rmap[r][f] = None /\ (rpc[r] = "serial" => f = Serial)
      /\ f \notin {Info, LockFile}
  <2>1. rfiles[r] \in Layouts
    BY DEF TypeOK
  <2> QED
    BY <1>1, <2>1, LayoutFacts DEF Mappable, FilesIn
<1>3. CASE MapFails(r) /\ UNCHANGED rfd
  <2>1. rpc' = [rpc EXCEPT ![r] = IF rpc[r] = "serial" THEN "failed" ELSE rpc[r]]
    BY <1>3 DEF MapFails
  <2>2. TypeOK' /\ InodesBelong'
    BY <1>1, <1>3, <2>1 DEF TypeOK, InodesBelong, BelongsAt
  <2>3. SerialFirstMapped'
    BY <1>1, <1>3, <2>1 DEF SerialFirstMapped, TypeOK
  <2> QED
    BY <1>1, <2>2, <2>3, ReaderFrame
<1>4. CASE dir[f] # None /\ rfd' = [rfd EXCEPT ![r] = <<f, dir[f]>>] /\ UNCHANGED rpc
  <2>1. dir[f] \in Inodes /\ BelongsAt(f, dir[f])
    BY <1>2, <1>4 DEF TypeOK, InodesBelong
  <2>2. /\ rfd'[r] = <<f, dir[f]>> /\ rfd'[r][1] = f /\ rfd'[r][2] = dir[f]
        /\ \A q \in Readers \ {r} : rfd'[q] = rfd[q]
    BY <1>4 DEF TypeOK
  <2>3. TypeOK'
    <3>1. rfd' \in [Readers -> (Paths \X Inodes) \cup {None}]
      BY <1>4, <2>1 DEF TypeOK
    <3> QED
      BY <1>1, <1>4, <3>1 DEF TypeOK
  <2>4. InodesBelong'
    <3>1. \A q \in Readers : rfd'[q] # None => BelongsAt(rfd[q][1], rfd[q][2])'
      <4> SUFFICES ASSUME NEW q \in Readers, rfd'[q] # None PROVE BelongsAt(rfd[q][1], rfd[q][2])'
        OBVIOUS
      <4>1. CASE q = r
        BY <1>1, <2>1, <2>2, <4>1 DEF BelongsAt
      <4>2. CASE q # r
        BY <1>1, <2>2, <4>2 DEF InodesBelong, BelongsAt
      <4> QED
        BY <4>1, <4>2
    <3>2. \A g \in Paths \ {Info, LockFile} : dir'[g] # None => BelongsAt(g, dir[g])'
      BY <1>1 DEF InodesBelong, BelongsAt
    <3>3. \A q \in Readers, g \in Paths : rmap'[q][g] # None =>
            BelongsAt(g, rmap[q][g])' /\ ist'[rmap'[q][g]] = "ready"
      BY <1>1 DEF InodesBelong, BelongsAt
    <3> QED
      BY <3>1, <3>2, <3>3 DEF InodesBelong
  <2>5. SerialFirstMapped'
    <3>1. ASSUME NEW i \in Instances, pc[i] = "up", f \in FilesIn(files[i]) PROVE dir[f][1] = i
      <4>1. PICK k \in DOMAIN files[i] : f = files[i][k]
        BY <3>1 DEF FilesIn
      <4>2. dir[f] = <<i, k>>
        BY <3>1, <4>1, Intact DEF LiveAreasIntact
      <4> QED
        BY <4>2
    <3> QED
      BY <1>1, <1>2, <1>4, <2>2, <3>1 DEF SerialFirstMapped
  <2> QED
    BY <1>1, <2>3, <2>4, <2>5, ReaderFrame
<1> QED
  BY <1>3, <1>4 DEF OpenArea

LEMMA MapAreaInv ==
  ASSUME Inv, NEW r \in Readers, MapArea(r)
  PROVE  Inv'
<1> USE DEF Inv
<1> DEFINE f == rfd[r][1]
           n == rfd[r][2]
<1>1. /\ UNCHANGED <<dir, ist, info, pc, files, at, held, rfiles>>
      /\ rfd[r] # None /\ rfd' = [rfd EXCEPT ![r] = None]
  BY DEF MapArea, inst
<1>2. f \in Paths /\ n \in Inodes /\ n # None /\ BelongsAt(f, n)
  BY <1>1, NoneAssumption DEF TypeOK, InodesBelong
<1>3. /\ rpc[r] \in {"serial", "up"} /\ (rpc[r] = "serial" => f = Serial)
      /\ rmap[r][f] = None /\ f \in FilesIn(rfiles[r])
  BY <1>1 DEF SerialFirstMapped
<1>4. rfd'[r] = None /\ \A q \in Readers \ {r} : rfd'[q] = rfd[q]
  BY <1>1 DEF TypeOK
<1>5. CASE MapFails(r) /\ UNCHANGED rmap
  <2>1. rpc' = [rpc EXCEPT ![r] = IF rpc[r] = "serial" THEN "failed" ELSE rpc[r]]
    BY <1>5 DEF MapFails
  <2>2. TypeOK'
    BY <1>1, <1>5, <2>1 DEF TypeOK
  <2>3. InodesBelong'
    BY <1>1, <1>4, <1>5 DEF InodesBelong, BelongsAt
  <2>4. SerialFirstMapped'
    BY <1>1, <1>4, <1>5, <2>1 DEF SerialFirstMapped, TypeOK
  <2> QED
    BY <1>1, <2>2, <2>3, <2>4, ReaderFrame
<1>6. CASE /\ ist[n] = "ready" /\ rmap' = [rmap EXCEPT ![r][f] = n]
           /\ rpc' = [rpc EXCEPT ![r] = "up"]
  <2>1. /\ rmap'[r] \in [Paths -> Inodes \cup {None}]
        /\ \A g \in Paths : rmap'[r][g] = IF g = f THEN n ELSE rmap[r][g]
        /\ \A q \in Readers \ {r} : rmap'[q] = rmap[q] /\ rpc'[q] = rpc[q]
        /\ rpc'[r] = "up"
    BY <1>2, <1>6 DEF TypeOK
  <2>2. TypeOK'
    <3>1. rmap' \in [Readers -> [Paths -> Inodes \cup {None}]]
      BY <1>2, <1>6 DEF TypeOK
    <3> QED
      BY <1>1, <1>6, <3>1 DEF TypeOK
  <2>3. InodesBelong'
    <3>1. \A q \in Readers : rfd'[q] # None => BelongsAt(rfd[q][1], rfd[q][2])'
      BY <1>1, <1>4 DEF InodesBelong, BelongsAt
    <3>2. \A g \in Paths \ {Info, LockFile} : dir'[g] # None => BelongsAt(g, dir[g])'
      BY <1>1 DEF InodesBelong, BelongsAt
    <3>3. ASSUME NEW q \in Readers, NEW g \in Paths, rmap'[q][g] # None
          PROVE  BelongsAt(g, rmap[q][g])' /\ ist'[rmap'[q][g]] = "ready"
      <4>1. CASE q = r /\ g = f
        BY <1>1, <1>2, <1>6, <2>1, <4>1 DEF BelongsAt
      <4>2. CASE ~ (q = r /\ g = f)
        <5>1. rmap'[q][g] = rmap[q][g]
          BY <2>1, <4>2
        <5> QED
          BY <1>1, <3>3, <5>1 DEF InodesBelong, BelongsAt
      <4> QED
        BY <4>1, <4>2
    <3> QED
      BY <3>1, <3>2, <3>3 DEF InodesBelong
  <2>4. SerialFirstMapped'
    <3>1. rmap'[r][Serial] # None
      BY <1>2, <1>3, <2>1, ReservedFacts DEF SerialFirstMapped
    <3>2. ASSUME NEW i \in Instances, pc[i] = "up", rmap'[r][Serial][1] = i,
                 NEW g \in FilesIn(files[i]), rmap'[r][g] # None, g \in Paths
          PROVE  rmap'[r][g][1] = i
      <4>1. CASE rpc[r] = "serial"
        BY <1>3, <2>1, <3>2, <4>1 DEF SerialFirstMapped
      <4>2. CASE rpc[r] = "up"
        <5>1. rmap[r][Serial] # None /\ f # Serial /\ rmap'[r][Serial] = rmap[r][Serial]
          BY <1>3, <2>1, <4>2, ReservedFacts DEF SerialFirstMapped
        <5>2. /\ rmap[r][g] # None => rmap[r][g][1] = i
              /\ f = g => n[1] = i
          BY <1>1, <3>2, <5>1 DEF SerialFirstMapped
        <5> QED
          BY <2>1, <3>2, <5>2
      <4> QED
        BY <1>3, <4>1, <4>2
    <3>3. \A i \in Instances : FilesIn(files[i]) \subseteq Paths
      BY FilesFacts DEF FilesIn
    <3>4. \A g \in Paths : rmap'[r][g] # None => g \in FilesIn(rfiles[r])
      BY <1>3, <2>1 DEF SerialFirstMapped
    <3> SUFFICES ASSUME NEW q \in Readers
                 PROVE  (/\ rpc[q] # "up" => \A g \in Paths : rmap[q][g] = None
                         /\ rpc[q] = "up" => rmap[q][Serial] # None
                         /\ rfd[q] # None =>
                              /\ rpc[q] \in {"serial", "up"} /\ (rpc[q] = "serial" => rfd[q][1] = Serial)
                              /\ rmap[q][rfd[q][1]] = None /\ rfd[q][1] \in FilesIn(rfiles[q])
                         /\ \A g \in Paths : rmap[q][g] # None => g \in FilesIn(rfiles[q])
                         /\ \A i \in Instances :
                              pc[i] = "up" /\ rmap[q][Serial] # None /\ rmap[q][Serial][1] = i =>
                                \A g \in FilesIn(files[i]) :
                                  /\ rmap[q][g] # None => rmap[q][g][1] = i
                                  /\ rfd[q] # None /\ rfd[q][1] = g => rfd[q][2][1] = i)'
      BY DEF SerialFirstMapped
    <3>5. CASE q = r
      BY <1>1, <1>4, <2>1, <3>1, <3>2, <3>3, <3>4, <3>5 DEF FilesIn
    <3>6. CASE q # r
      <4>1. rfd'[q] = rfd[q] /\ rmap'[q] = rmap[q] /\ rpc'[q] = rpc[q]
        BY <1>4, <2>1, <3>6
      <4>2. FilesIn(rfiles'[q]) = FilesIn(rfiles[q]) /\ \A i \in Instances : FilesIn(files'[i]) = FilesIn(files[i])
        BY <1>1
      <4> QED
        BY <1>1, <4>1, <4>2 DEF SerialFirstMapped
    <3> QED
      BY <3>5, <3>6
  <2> QED
    BY <1>1, <2>2, <2>3, <2>4, ReaderFrame
<1> QED
  BY <1>5, <1>6 DEF MapArea

-----------------------------------------------------------------------------
LEMMA InitHolds == Init => Inv
<1> SUFFICES ASSUME Init PROVE Inv
  OBVIOUS
<1>1. TypeOK
  BY DEF Init, TypeOK, Layouts, Positions
<1>2. LockExclusive /\ BuiltInOrder /\ StaleFilesNeverBlock
  BY DEF Init, LockExclusive, BuiltInOrder, StaleFilesNeverBlock, Building
<1>3. InodesBelong /\ SerialFirstMapped
  BY ReservedFacts DEF Init, InodesBelong, SerialFirstMapped
<1> QED
  BY <1>1, <1>2, <1>3 DEF Inv

LEMMA StepInv == Inv /\ [Next]_vars => Inv'
<1> SUFFICES ASSUME Inv, [Next]_vars PROVE Inv'
  OBVIOUS
<1>1. CASE UNCHANGED vars
  <2>1. UNCHANGED <<dir, ist, info, pc, files, at, held, rpc, rfiles, rfd, rmap>>
    BY <1>1 DEF vars, inst, rdr
  <2>2. TypeOK'
    BY <2>1 DEF Inv, TypeOK
  <2>3. InodesBelong' /\ SerialFirstMapped'
    BY <2>1 DEF Inv, InodesBelong, BelongsAt, SerialFirstMapped, FilesIn
  <2> QED
    BY <2>1, <2>2, <2>3, ReaderFrame DEF Inv
<1>2. ASSUME NEW i \in Instances, Instance(i) PROVE Inv'
  <2>1. CASE CreateInfo(i) \/ WriteInfo(i)
    BY <2>1, InfoStepInv
  <2>2. CASE LoadInfo(i)
    <3>1. CASE InfoValid
      BY <2>2, <3>1, InfoStepInv
    <3>2. CASE ~ InfoValid
      BY <2>2, <3>2, DownInv DEF LoadInfo
    <3> QED
      BY <3>1, <3>2
  <2>3. CASE TakeLock(i) \/ Unlink(i) \/ UnlinkFails(i) \/ Create(i) \/ Size(i) \/ InitArea(i)
    BY <2>3, TakeLockInv, UnlinkInv, CreateInv, SizeInv, InitAreaInv
  <2>4. CASE Dies(i)
    BY <2>4, DownInv DEF Dies
  <2> QED
    BY <1>2, <2>1, <2>2, <2>3, <2>4 DEF Instance
<1>3. ASSUME NEW r \in Readers, Reader(r) PROVE Inv'
  BY <1>3, ReadInfoInv, OpenAreaInv, MapAreaInv DEF Reader
<1> QED
  BY <1>1, <1>2, <1>3 DEF Next

LEMMA InvHolds == Spec => []Inv
BY InitHolds, StepInv, PTL DEF Spec

(* Of all instances that start, one at a time holds the lock and builds the *)
(* directory; the areas of one that is up stay its own files at their paths, *)
(* and files left by the others never make a create fail.                   *)
THEOREM DirInvariant == Spec => []DirInv
<1>1. Inv => DirInv
  BY Intact DEF Inv, DirInv
<1> QED
  BY <1>1, InvHolds, PTL

(* A reader that mapped the serial area of a running instance, whatever      *)
(* table it loaded, maps that instance's file wherever the instance has one; *)
(* all else it maps was left by instances that are down.                     *)
THEOREM ReaderOneGeneration == Spec => []OneGeneration
<1>1. Inv => OneGeneration
  <2> SUFFICES ASSUME Inv, NEW r \in Readers, NEW i \in Instances,
                      pc[i] = "up", rmap[r][Serial] # None, rmap[r][Serial][1] = i,
                      NEW f \in Paths, rmap[r][f] # None, rmap[r][f][1] # i
               PROVE  f \notin FilesIn(files[i]) /\ pc[rmap[r][f][1]] = "down"
    BY DEF OneGeneration
  <2>1. f \notin FilesIn(files[i])
    BY DEF Inv, SerialFirstMapped
  <2> DEFINE j == rmap[r][f][1]
  <2>2. j \in Instances
    <3>1. rmap[r][f] \in Instances \X Positions
      BY DEF Inv, TypeOK, Inodes
    <3> QED
      BY <3>1
  <2>3. pc[j] \notin Building
    <3>1. pc[i] \in Building
      BY DEF Building
    <3> QED
      BY <2>2, <3>1 DEF Inv, LockExclusive
  <2>4. BelongsAt(f, rmap[r][f])
    BY DEF Inv, InodesBelong
  <2> QED
    BY <2>1, <2>3, <2>4 DEF BelongsAt
<1> QED
  BY <1>1, InvHolds, PTL
=============================================================================
