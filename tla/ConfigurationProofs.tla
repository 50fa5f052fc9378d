------------------------- MODULE ConfigurationProofs -------------------------
(***************************************************************************)
(* Proofs about what a process is configured with: the process-wide cells  *)
(* (GlobalDirs), the loader of build.prop files (BuildProps) and the rules *)
(* of property_contexts (PropertyInfoArea).  They hold for every set of    *)
(* threads and configurations, every file system, every nesting and budget *)
(* of imports, and every list of rules.  The three specifications have no  *)
(* variable in common.                                                     *)
(***************************************************************************)
EXTENDS GlobalDirs, BuildProps, PropertyInfoArea, SequenceTheorems, TLAPS

-------------------------------------------------------------------------------
(* The process-wide cells. *)

(* What the parts of a configuration, and what a call may answer, can be. *)
LEMMA ConfFacts ==
  /\ DefaultProps \in Dirs /\ DefaultSock \in Dirs
  /\ StoreOrEnv \in {StoreVersion, EnvVersion} \ {Unset}
  /\ NoConf = [props |-> Unset, sock |-> Unset]
  /\ \A g \in Configs \cup {NoConf} :
       /\ g.props \in Dirs \cup {Unset} /\ g.sock \in Dirs \cup {Unset}
       /\ g = [props |-> g.props, sock |-> g.sock]
BY ConfigsAssumption, VersionsAssumption DEF Dirs, NoConf, StoreOrEnv

(* The cells are empty and nobody has called. *)
LEMMA InitHolds == Init => InitInv
BY ThreadsAssumption, ConfFacts, DirsAssumption
   DEF Init, InitInv, TypeOK, LockOrder, CommitPending, StoreFromDir, InitAllOrNothing,
       StoreUp, Locked, Opening, NoConf

(* A thread calls. *)
LEMMA CallInv ==
  ASSUME InitInv, NEW t \in Threads, NEW g \in Configs \cup {NoConf},
         NEW to \in {"lockInit", "props", "sock", "sys", "version"}, Call(t, to, g)
  PROVE  InitInv'
<1> USE DEF InitInv
<1>1. TypeOK'
  BY ConfFacts DEF TypeOK, Call, Go, cells, StoreUp, Locked, Opening
<1>2. LockOrder'
  BY DEF TypeOK, LockOrder, Call, Go, cells, Locked, Opening
<1>3. CommitPending'
  BY DEF TypeOK, CommitPending, Call, Go, cells
<1>4. StoreFromDir'
  BY DEF TypeOK, StoreFromDir, StoreUp, Call, Go, cells
<1>5. InitAllOrNothing'
  BY DirsAssumption DEF TypeOK, InitAllOrNothing, Call, Go, cells
<1> QED
  BY <1>1, <1>2, <1>3, <1>4, <1>5

(* A thread gets GLOBAL_DIRS_LOCK. *)
LEMMA LockDirsInv ==
  ASSUME InitInv, NEW t \in Threads,
         \/ LockDirs(t, "lockInit", "check")
         \/ LockDirs(t, "lockProps", "latchProps")
         \/ LockDirs(t, "lockSock", "latchSock")
         \/ LockDirs(t, "sysLock", "sysLatch")
  PROVE  InitInv'
<1> USE DEF InitInv
<1>1. TypeOK'
  BY DEF TypeOK, LockDirs, Go, cells, hist, Locked, Opening
<1>2. LockOrder'
  BY ThreadsAssumption DEF TypeOK, LockOrder, LockDirs, Go, cells, hist, Locked, Opening
<1>3. CommitPending' /\ StoreFromDir' /\ InitAllOrNothing'
  BY DEF TypeOK, CommitPending, StoreFromDir, StoreUp, InitAllOrNothing, LockDirs, Go, cells, hist
<1> QED
  BY <1>1, <1>2, <1>3

(* try_init's check of everything it intends to set. *)
LEMMA InitCheckInv ==
  ASSUME InitInv, NEW t \in Threads, InitCheck(t)
  PROVE  InitInv'
<1> USE DEF InitInv
<1>1. TypeOK'
  BY ConfFacts DEF TypeOK, InitCheck, Go, Return, cells, hist, Locked, Opening, StoreUp
<1>2. LockOrder'
  BY ThreadsAssumption, DirsAssumption DEF TypeOK, LockOrder, InitCheck, Go, Return, cells, hist, Locked, Opening
<1>3. CommitPending'
  BY ConfFacts DEF TypeOK, LockOrder, CommitPending, InitCheck, Go, Return, cells, hist, Locked
<1>4. StoreFromDir'
  BY DirsAssumption DEF TypeOK, LockOrder, CommitPending, StoreFromDir, StoreUp, InitCheck, Go, Return, cells, hist, Opening
<1>5. InitAllOrNothing'
  BY ConfFacts, DirsAssumption, VersionsAssumption
     DEF TypeOK, LockOrder, CommitPending, InitAllOrNothing, InitCheck, Go, Return, cells, hist, Locked
<1> QED
  BY <1>1, <1>2, <1>3, <1>4, <1>5

(* try_init sets the first cell. *)
LEMMA InitSetPropsInv ==
  ASSUME InitInv, NEW t \in Threads, InitSetProps(t)
  PROVE  InitInv'
<1> USE DEF InitInv
<1>1. TypeOK'
  BY ConfFacts DEF TypeOK, InitSetProps, Go, Locked, Opening, StoreUp
<1>2. LockOrder'
  BY ThreadsAssumption, DirsAssumption DEF TypeOK, LockOrder, InitSetProps, Go, Locked, Opening
<1>3. CommitPending'
  BY ConfFacts DEF TypeOK, LockOrder, CommitPending, InitSetProps, Go, Locked
<1>4. StoreFromDir'
  BY DirsAssumption DEF TypeOK, LockOrder, CommitPending, StoreFromDir, StoreUp, InitSetProps, Go, Opening
<1>5. InitAllOrNothing'
  BY ConfFacts, DirsAssumption, VersionsAssumption
     DEF TypeOK, LockOrder, CommitPending, InitAllOrNothing, InitSetProps, Go, Locked
<1> QED
  BY <1>1, <1>2, <1>3, <1>4, <1>5

(* try_init sets the second cell and returns. *)
LEMMA InitSetSockInv ==
  ASSUME InitInv, NEW t \in Threads, InitSetSock(t)
  PROVE  InitInv'
<1> USE DEF InitInv
<1>1. TypeOK'
  BY ConfFacts DEF TypeOK, InitSetSock, Return, Locked, Opening, StoreUp
<1>2. LockOrder'
  BY ThreadsAssumption, DirsAssumption DEF TypeOK, LockOrder, InitSetSock, Return, Locked, Opening
<1>3. CommitPending'
  BY ConfFacts DEF TypeOK, LockOrder, CommitPending, InitSetSock, Return, Locked
<1>4. StoreFromDir'
  BY DirsAssumption DEF TypeOK, LockOrder, CommitPending, StoreFromDir, StoreUp, InitSetSock, Return, Opening
<1>5. InitAllOrNothing'
  BY ConfFacts, DirsAssumption, VersionsAssumption
     DEF TypeOK, LockOrder, CommitPending, InitAllOrNothing, InitSetSock, Return, Locked
<1> QED
  BY <1>1, <1>2, <1>3, <1>4, <1>5

(* The lock-free fast paths. *)
LEMMA FastInv ==
  ASSUME InitInv, NEW t \in Threads, FastProps(t) \/ FastSock(t)
  PROVE  InitInv'
<1> USE DEF InitInv
<1>1. TypeOK'
  BY ConfFacts DEF TypeOK, FastProps, FastSock, Go, Return, cells, hist, Locked, Opening, StoreUp
<1>2. LockOrder'
  BY ThreadsAssumption, DirsAssumption DEF TypeOK, LockOrder, FastProps, FastSock, Go, Return, cells, hist, Locked, Opening
<1>3. CommitPending'
  BY ConfFacts DEF TypeOK, LockOrder, CommitPending, FastProps, FastSock, Go, Return, cells, hist, Locked
<1>4. StoreFromDir'
  BY DirsAssumption DEF TypeOK, LockOrder, CommitPending, StoreFromDir, StoreUp, FastProps, FastSock, Go, Return, cells, hist, Opening
<1>5. InitAllOrNothing'
  BY ConfFacts, DirsAssumption, VersionsAssumption
     DEF TypeOK, LockOrder, CommitPending, InitAllOrNothing, FastProps, FastSock, Go, Return, cells, hist, Locked
<1> QED
  BY <1>1, <1>2, <1>3, <1>4, <1>5

(* A first use latches a default. *)
LEMMA LatchInv ==
  ASSUME InitInv, NEW t \in Threads, LatchProps(t) \/ LatchSock(t)
  PROVE  InitInv'
<1> USE DEF InitInv
<1>1. TypeOK'
  <2>1. CASE LatchProps(t)
    <3>1. propsDir' \in Dirs
      BY <2>1, ConfFacts DEF TypeOK, LatchProps
    <3> QED
      BY <2>1, <3>1 DEF TypeOK, LatchProps, Return, hist, Locked, Opening
  <2>2. CASE LatchSock(t)
    <3>1. sockDir' \in Dirs
      BY <2>2, ConfFacts DEF TypeOK, LatchSock
    <3> QED
      BY <2>2, <3>1 DEF TypeOK, LatchSock, Return, hist, Locked, Opening
  <2> QED
    BY <2>1, <2>2
<1>2. LockOrder'
  BY ThreadsAssumption, DirsAssumption DEF TypeOK, LockOrder, LatchProps, LatchSock, Return, hist, Locked, Opening
<1>3. CommitPending'
  BY ConfFacts DEF TypeOK, LockOrder, CommitPending, LatchProps, LatchSock, Return, hist, Locked
<1>4. StoreFromDir'
  BY DirsAssumption DEF TypeOK, LockOrder, CommitPending, StoreFromDir, StoreUp, LatchProps, LatchSock, Return, hist, Opening
<1>5. InitAllOrNothing'
  BY ConfFacts, DirsAssumption, VersionsAssumption
     DEF TypeOK, LockOrder, CommitPending, InitAllOrNothing, LatchProps, LatchSock, Return, hist, Locked
<1> QED
  BY <1>1, <1>2, <1>3, <1>4, <1>5

(* The OnceLock of the store: its value, or its initialiser. *)
LEMMA SysGetInv ==
  ASSUME InitInv, NEW t \in Threads, SysGet(t)
  PROVE  InitInv'
<1> USE DEF InitInv
<1>1. TypeOK'
  <2>1. sys \notin {Unset, "running"} => sys \in Dirs \cup {"err"}
    BY DEF TypeOK
  <2> QED
    BY <2>1 DEF TypeOK, SysGet, Go, Return, hist, Locked, Opening
<1>2. LockOrder'
  BY ThreadsAssumption, DirsAssumption DEF TypeOK, LockOrder, SysGet, Go, Return, hist, Locked, Opening
<1>3. CommitPending'
  BY ConfFacts DEF TypeOK, LockOrder, CommitPending, SysGet, Go, Return, hist, Locked
<1>4. StoreFromDir'
  BY DirsAssumption DEF TypeOK, LockOrder, CommitPending, StoreFromDir, StoreUp, SysGet, Go, Return, hist, Opening
<1>5. InitAllOrNothing'
  BY ConfFacts, DirsAssumption, VersionsAssumption
     DEF TypeOK, LockOrder, CommitPending, InitAllOrNothing, SysGet, Go, Return, hist, Locked
<1> QED
  BY <1>1, <1>2, <1>3, <1>4, <1>5

(* The initialiser asks for the directory. *)
LEMMA SysDirInv ==
  ASSUME InitInv, NEW t \in Threads, SysDir(t) \/ SysLatch(t)
  PROVE  InitInv'
<1> USE DEF InitInv
<1>1. TypeOK'
  BY ConfFacts DEF TypeOK, SysDir, SysLatch, Go, cells, hist, Locked, Opening, StoreUp
<1>2. LockOrder'
  BY ThreadsAssumption, DirsAssumption DEF TypeOK, LockOrder, SysDir, SysLatch, Go, cells, hist, Locked, Opening
<1>3. CommitPending'
  BY ConfFacts DEF TypeOK, LockOrder, CommitPending, SysDir, SysLatch, Go, cells, hist, Locked
<1>4. StoreFromDir'
  BY DirsAssumption DEF TypeOK, LockOrder, CommitPending, StoreFromDir, StoreUp, SysDir, SysLatch, Go, cells, hist, Opening
<1>5. InitAllOrNothing'
  BY ConfFacts, DirsAssumption, VersionsAssumption
     DEF TypeOK, LockOrder, CommitPending, InitAllOrNothing, SysDir, SysLatch, Go, cells, hist, Locked
<1> QED
  BY <1>1, <1>2, <1>3, <1>4, <1>5

(* The initialiser opens it. *)
LEMMA SysOpenInv ==
  ASSUME InitInv, NEW t \in Threads, SysOpen(t)
  PROVE  InitInv'
<1> USE DEF InitInv
<1>1. TypeOK'
  BY ConfFacts DEF TypeOK, SysOpen, Return, hist, Locked, Opening, StoreUp
<1>2. LockOrder'
  BY ThreadsAssumption, DirsAssumption DEF TypeOK, LockOrder, SysOpen, Return, hist, Locked, Opening
<1>3. CommitPending'
  BY ConfFacts DEF TypeOK, LockOrder, CommitPending, SysOpen, Return, hist, Locked
<1>4. StoreFromDir'
  BY DirsAssumption DEF TypeOK, LockOrder, CommitPending, StoreFromDir, StoreUp, SysOpen, Return, hist, Opening
<1>5. InitAllOrNothing'
  BY ConfFacts, DirsAssumption, VersionsAssumption
     DEF TypeOK, LockOrder, CommitPending, InitAllOrNothing, SysOpen, Return, hist, Locked
<1> QED
  BY <1>1, <1>2, <1>3, <1>4, <1>5

(* protocol_version. *)
LEMMA VersionInv ==
  ASSUME InitInv, NEW t \in Threads, Version(t)
  PROVE  InitInv'
<1> USE DEF InitInv
<1>1. TypeOK'
  BY ConfFacts DEF TypeOK, Version, Return, hist, Locked, Opening, StoreUp
<1>2. LockOrder'
  BY ThreadsAssumption, DirsAssumption DEF TypeOK, LockOrder, Version, Return, hist, Locked, Opening
<1>3. CommitPending'
  BY ConfFacts DEF TypeOK, LockOrder, CommitPending, Version, Return, hist, Locked
<1>4. StoreFromDir'
  BY DirsAssumption DEF TypeOK, LockOrder, CommitPending, StoreFromDir, StoreUp, Version, Return, hist, Opening
<1>5. InitAllOrNothing'
  <2>1. ret'[t] \in {StoreOrEnv, EnvVersion} /\ ret' = [ret EXCEPT ![t] = ret'[t]]
    BY DEF TypeOK, Version, Return
  <2>2. ret'[t] \notin {"ok", "already"}
    BY <2>1, ConfFacts, VersionsAssumption
  <2> QED
    BY <2>1, <2>2 DEF TypeOK, InitAllOrNothing, Version, hist
<1> QED
  BY <1>1, <1>2, <1>3, <1>4, <1>5

-----------------------------------------------------------------------------
(* Every step keeps the invariant. *)
LEMMA StepInv == InitInv /\ [Next]_vars => InitInv'
<1> SUFFICES ASSUME InitInv, [Next]_vars PROVE InitInv'
  OBVIOUS
<1>1. CASE UNCHANGED vars
  BY <1>1 DEF vars, cells, hist, InitInv, TypeOK, LockOrder, CommitPending, StoreFromDir,
     InitAllOrNothing, StoreUp
<1>2. ASSUME NEW t \in Threads, Thread(t) PROVE InitInv'
  <2>1. CASE Calls(t)
    BY <2>1, CallInv DEF Calls
  <2>2. CASE \/ LockDirs(t, "lockInit", "check") \/ LockDirs(t, "lockProps", "latchProps")
             \/ LockDirs(t, "lockSock", "latchSock") \/ LockDirs(t, "sysLock", "sysLatch")
    BY <2>2, LockDirsInv
  <2>3. CASE InitCheck(t) \/ InitSetProps(t) \/ InitSetSock(t)
    BY <2>3, InitCheckInv, InitSetPropsInv, InitSetSockInv
  <2>4. CASE FastProps(t) \/ FastSock(t) \/ LatchProps(t) \/ LatchSock(t)
    BY <2>4, FastInv, LatchInv
  <2>5. CASE SysGet(t) \/ SysDir(t) \/ SysLatch(t) \/ SysOpen(t) \/ Version(t)
    BY <2>5, SysGetInv, SysDirInv, SysOpenInv, VersionInv
  <2> QED
    BY <1>2, <2>1, <2>2, <2>3, <2>4, <2>5 DEF Thread
<1> QED
  BY <1>1, <1>2 DEF Next

(* try_init is all or nothing for any number of threads, whichever of them   *)
(* initialise, read or latch the directories at the same time.               *)
THEOREM InitInvariant == Spec => []InitInv
<1> QED
  BY InitHolds, StepInv, PTL DEF Spec

(* A directory somebody was given, and the one the store was opened from,    *)
(* are never replaced (try_init, properties_dir, socket_dir).                *)
THEOREM DirsKept == Spec => DirsNeverChange
<1> DEFINE Kept == /\ propsDir # Unset => propsDir' = propsDir
                   /\ sockDir # Unset => sockDir' = sockDir
                   /\ StoreUp => sys' = sys /\ sys = propsDir
<1>1. InitInv /\ [Next]_vars => [Kept]_vars
  <2> SUFFICES ASSUME InitInv, NEW t \in Threads, Thread(t) PROVE Kept
    BY DEF Next
  <2>1. StoreUp => sys = propsDir
    BY DEF InitInv, StoreFromDir
  <2>2. propsDir # Unset => propsDir' = propsDir
    BY DEF InitInv, CommitPending, Thread, Calls, Call, LockDirs, InitCheck, InitSetProps,
       InitSetSock, FastProps, FastSock, LatchProps, LatchSock, SysGet, SysDir, SysLatch, SysOpen,
       Version, Go, cells
  <2>3. sockDir # Unset => sockDir' = sockDir
    BY DEF InitInv, CommitPending, Thread, Calls, Call, LockDirs, InitCheck, InitSetProps,
       InitSetSock, FastProps, FastSock, LatchProps, LatchSock, SysGet, SysDir, SysLatch, SysOpen,
       Version, Go, cells
  <2>4. StoreUp => sys' = sys
    BY DEF InitInv, LockOrder, StoreUp, Thread, Calls, Call, LockDirs, InitCheck, InitSetProps,
       InitSetSock, FastProps, FastSock, LatchProps, LatchSock, SysGet, SysDir, SysLatch, SysOpen,
       Version, Go, cells, Opening
  <2> QED
    BY <2>1, <2>2, <2>3, <2>4
<1> QED
  BY <1>1, InitInvariant, PTL DEF Spec, DirsNeverChange

(* Once the store is up, its version is what every later call reports,       *)
(* whatever was answered before (protocol_version).                          *)
THEOREM VersionFromStore == Spec => []StoreVersionWins
<1> DEFINE Inv == InitInv /\ StoreVersionWins
<1>1. Init => Inv
  BY InitHolds DEF Init, StoreVersionWins
<1>2. Inv /\ [Next]_vars => Inv'
  <2> SUFFICES ASSUME Inv, [Next]_vars PROVE StoreVersionWins'
    BY StepInv
  <2>1. CASE UNCHANGED vars
    BY <2>1 DEF vars, hist, StoreVersionWins
  <2>2. ASSUME NEW t \in Threads, Calls(t) PROVE StoreVersionWins'
    <3>1. ret' = [ret EXCEPT ![t] = Unset] /\ \A u \in Threads \ {t} : late'[u] = late[u]
      BY <2>2 DEF Calls, Call, InitInv, TypeOK
    <3> QED
      BY <3>1 DEF StoreVersionWins, InitInv, TypeOK
  <2>3. ASSUME NEW t \in Threads, Version(t) PROVE StoreVersionWins'
    <3>1. StoreUp => ret'[t] = StoreOrEnv
      BY <2>3, ConfFacts DEF Version, Return, InitInv, TypeOK
    <3>2. late[t] => StoreUp
      BY DEF InitInv, StoreFromDir
    <3> QED
      BY <2>3, <3>1, <3>2 DEF Version, Return, hist, StoreVersionWins, InitInv, TypeOK
  <2>4. ASSUME NEW t \in Threads, Thread(t), ~ Calls(t), ~ Version(t) PROVE StoreVersionWins'
    <3>1. late' = late
      BY <2>4 DEF Thread, LockDirs, InitCheck, InitSetProps, InitSetSock, FastProps, FastSock,
         LatchProps, LatchSock, SysGet, SysDir, SysLatch, SysOpen, hist
    <3>2. InitInv'
      BY StepInv
    <3>3. \/ ret' = ret
          \/ \E v \in Dirs \cup {"ok", "already", "err"} : ret' = [ret EXCEPT ![t] = v]
      BY <2>4, ConfFacts, <3>2 DEF Thread, LockDirs, InitCheck, InitSetProps, InitSetSock, FastProps, FastSock,
         LatchProps, LatchSock, SysGet, SysDir, SysLatch, SysOpen, Return, InitInv, TypeOK, LockOrder
    <3> QED
      BY <3>1, <3>3, VersionsAssumption DEF StoreVersionWins, InitInv, TypeOK
  <2> QED
    BY <2>1, <2>2, <2>3, <2>4 DEF Next
<1> QED
  BY <1>1, <1>2, PTL DEF Spec

-------------------------------------------------------------------------------
(* The loader of build.prop files. *)

LoaderOK == LimitsOK /\ KeysOK /\ FilesOK

LEMMA LoaderParameters == LoaderOK
BY BuildPropsAssumption DEF LoaderOK

Frame == [file : DOMAIN fs, pos : Nat \ {0}]

(* What the open files look like while a call runs. *)
LEMMA StackFacts ==
  ASSUME LoaderOK, LoaderInv, status = "running"
  PROVE  /\ stack \in Seq(Frame) /\ Len(stack) \in Nat /\ Len(stack) > 0
         /\ DOMAIN stack = 1 .. Len(stack)
         /\ Top \in Frame /\ Top.pos <= Len(fs[Top.file]) + 1
         /\ Len(fs[Top.file]) \in Nat
         /\ Reading => Top.pos \in DOMAIN fs[Top.file] /\ LineOK(Line)
<1>1. stack \in Seq(Frame) /\ stack # <<>>
  BY DEF LoaderInv, LTypeOK, Frame
<1>2. /\ Len(stack) \in Nat /\ Len(stack) > 0 /\ DOMAIN stack = 1 .. Len(stack)
      /\ Top \in Frame
  BY <1>1 DEF Top
<1>3. Top.pos <= Len(fs[Top.file]) + 1
  BY <1>2 DEF LoaderInv, LTypeOK, Top
<1>4. /\ fs[Top.file] \in Seq({fs[Top.file][i] : i \in DOMAIN fs[Top.file]})
      /\ \A i \in DOMAIN fs[Top.file] : LineOK(fs[Top.file][i])
  BY <1>2 DEF LoaderInv, LTypeOK, TextsOK, Frame
<1>5. Len(fs[Top.file]) \in Nat /\ DOMAIN fs[Top.file] = 1 .. Len(fs[Top.file])
  BY <1>4
<1>6. Reading => Top.pos \in DOMAIN fs[Top.file]
  BY <1>2, <1>5 DEF Reading, Frame
<1> QED
  BY <1>1, <1>2, <1>3, <1>4, <1>5, <1>6 DEF Line

(* Reading on in the open file keeps the stack in order. *)
LEMMA AdvanceKept ==
  ASSUME LoaderOK, LoaderInv, Reading
  PROVE  /\ Advanced \in Seq(Frame) /\ Len(Advanced) = Len(stack) /\ DOMAIN Advanced = DOMAIN stack
         /\ \A i \in DOMAIN stack : /\ Advanced[i].file = stack[i].file
                                    /\ Advanced[i].pos <= Len(fs[stack[i].file]) + 1
                                    /\ Advanced[i].pos = stack[i].pos + (IF i = Len(stack) THEN 1 ELSE 0)
<1>1. status = "running"
  BY DEF Reading
<1>2. PICK n \in Nat : n = Len(stack) /\ n > 0 /\ DOMAIN stack = 1 .. n
  BY <1>1, StackFacts
<1>3. Top \in Frame /\ Top.pos < Len(fs[Top.file]) + 1 /\ Len(fs[Top.file]) \in Nat
  BY <1>1, StackFacts DEF Reading, Frame
<1>4. \A i \in DOMAIN stack : stack[i] \in Frame
  BY <1>1, <1>2, StackFacts
<1>5. Advanced = [i \in 1 .. n |-> IF i = n THEN [stack[n] EXCEPT !.pos = @ + 1] ELSE stack[i]]
  BY <1>1, <1>2, StackFacts DEF Advanced
<1>6. [stack[n] EXCEPT !.pos = @ + 1] = [file |-> stack[n].file, pos |-> stack[n].pos + 1]
  BY <1>2, <1>4 DEF Frame
<1>7. [stack[n] EXCEPT !.pos = @ + 1] \in Frame
  BY <1>6, <1>2, <1>4 DEF Frame
<1>8. Advanced \in [1 .. n -> Frame]
  BY <1>2, <1>4, <1>5, <1>7
<1>9. Advanced \in Seq(Frame) /\ Len(Advanced) = n
  BY <1>8
<1>10. \A i \in 1 .. n : stack[i].pos <= Len(fs[stack[i].file]) + 1
  BY <1>2 DEF LoaderInv, LTypeOK
<1>11. ASSUME NEW i \in 1 .. n
       PROVE  /\ Advanced[i].file = stack[i].file
              /\ Advanced[i].pos <= Len(fs[stack[i].file]) + 1
              /\ Advanced[i].pos = stack[i].pos + (IF i = n THEN 1 ELSE 0)
  <2>1. CASE i = n
    BY <2>1, <1>2, <1>3, <1>4, <1>5, <1>6 DEF Top, Frame
  <2>2. CASE i # n
    BY <2>2, <1>2, <1>4, <1>5, <1>10 DEF Frame
  <2> QED
    BY <2>1, <2>2
<1> QED
  BY <1>2, <1>8, <1>9, <1>11

LEMMA LoaderInitHolds == LoaderOK /\ LInit => LoaderInv
BY DEF LoaderOK, LimitsOK, FilesOK, LInit, LoaderInv, LTypeOK, VisitedIsStack

(* What is to be shown of a step, apart from the import stack. *)
LEMMA LoaderTypeKept ==
  ASSUME LTypeOK, UNCHANGED fs,
         status' \in {"idle", "running", "ok", "err"}, stack' # <<>> <=> status' = "running",
         stack' \in Seq(Frame),
         \A i \in DOMAIN stack' : stack'[i].pos <= Len(fs[stack'[i].file]) + 1,
         loads' \in 0 .. MaxLoads + 1, status' = "running" => loads' <= MaxLoads,
         DOMAIN props' \subseteq Keys \ Disallowed,
         \A k \in DOMAIN props' : props'[k] \in Values
  PROVE  LTypeOK'
<1>1. TextsOK(fs)'
  BY DEF LTypeOK, TextsOK
<1>2. (stack \in Seq([file : DOMAIN fs, pos : Nat \ {0}]))'
  BY DEF Frame
<1> QED
  BY <1>1, <1>2 DEF LTypeOK

(* Steps that only read on. *)
LEMMA AdvanceInv ==
  ASSUME LoaderOK, LoaderInv, Reading, stack' = Advanced,
         UNCHANGED <<fs, visited, status>>, loads' \in 0 .. MaxLoads,
         /\ DOMAIN props' \subseteq Keys \ Disallowed
         /\ \A k \in DOMAIN props' : props'[k] \in Values
  PROVE  LoaderInv'
<1>1. /\ stack' \in Seq(Frame) /\ Len(stack') = Len(stack) /\ DOMAIN stack' = DOMAIN stack
      /\ \A i \in DOMAIN stack : /\ stack'[i].file = stack[i].file
                                 /\ stack'[i].pos <= Len(fs[stack[i].file]) + 1
  BY AdvanceKept
<1>2. status = "running" /\ stack' # <<>>
  BY <1>1, StackFacts DEF Reading
<1>3. LTypeOK'
  <2>1. \A i \in DOMAIN stack' : stack'[i].pos <= Len(fs[stack'[i].file]) + 1
    BY <1>1
  <2>2. loads' \in 0 .. MaxLoads + 1 /\ loads' <= MaxLoads
    BY DEF LoaderOK, LimitsOK
  <2> QED
    BY <1>1, <1>2, <2>1, <2>2, LoaderTypeKept DEF LoaderInv
<1>4. visited' = {stack'[i].file : i \in DOMAIN stack'}
  BY <1>1 DEF LoaderInv, VisitedIsStack
<1>5. VisitedIsStack'
  BY <1>1, <1>4 DEF LoaderInv, VisitedIsStack
<1> QED
  BY <1>3, <1>5 DEF LoaderInv

LEMMA ReturnInv ==
  ASSUME LoaderOK, LoaderInv, NEW result \in {"ok", "err"}, LReturn(result),
         UNCHANGED <<fs, props>>, loads' \in 0 .. MaxLoads + 1
  PROVE  LoaderInv'
<1>1. LTypeOK'
  BY LoaderTypeKept DEF LoaderInv, LTypeOK, LReturn
<1>2. VisitedIsStack'
  BY DEF LoaderOK, LimitsOK, VisitedIsStack, LReturn
<1> QED
  BY <1>1, <1>2 DEF LoaderInv

LEMMA CloseInv ==
  ASSUME LoaderOK, LoaderInv, status = "running", Len(stack) > 1, Close,
         UNCHANGED <<fs, props, loads>>
  PROVE  LoaderInv'
<1> DEFINE n == Len(stack)
<1>0. n \in Nat /\ n > 1 /\ Len(stack) # 1
  <2>1. PICK m \in Nat : m = Len(stack) /\ m > 1
    BY StackFacts
  <2>2. m # 1
    BY <2>1
  <2> QED
    BY <2>1, <2>2, Zenon
<1>1. /\ stack' = SubSeq(stack, 1, n - 1) /\ visited' = visited \ {Top.file} /\ UNCHANGED status
      /\ n \in Nat /\ n > 1
  BY <1>0, Zenon DEF Close
<1>2. /\ stack' \in Seq(Frame) /\ Len(stack') = n - 1 /\ DOMAIN stack' = 1 .. (n - 1)
      /\ \A i \in 1 .. (n - 1) : stack'[i] = stack[i]
  BY <1>1, StackFacts
<1>3. DOMAIN stack = 1 .. n
  BY StackFacts
<1>4. LTypeOK'
  <2>1. stack' # <<>>
    <3>1. 1 \in DOMAIN stack'
      BY <1>0, <1>2
    <3> QED
      BY <3>1
  <2>2. \A i \in DOMAIN stack' : stack'[i].pos <= Len(fs[stack'[i].file]) + 1
    BY <1>1, <1>2, <1>3 DEF LoaderInv, LTypeOK
  <2> QED
    BY <1>1, <1>2, <2>1, <2>2, LoaderTypeKept DEF LoaderInv, LTypeOK
<1>5. /\ visited = {stack[i].file : i \in 1 .. n} /\ n <= MaxDepth + 1 /\ MaxDepth \in Nat
      /\ \A i, j \in 1 .. n : stack[i].file = stack[j].file => i = j
  BY <1>3 DEF LoaderInv, VisitedIsStack, LoaderOK, LimitsOK
<1> HIDE DEF n
<1>6. visited' = {stack'[i].file : i \in 1 .. (n - 1)}
  <2>1. visited' = {stack[i].file : i \in 1 .. n} \ {stack[n].file}
    BY <1>1, <1>5 DEF Top, n
  <2>2. {stack[i].file : i \in 1 .. n} \ {stack[n].file} = {stack[i].file : i \in 1 .. (n - 1)}
    BY <1>1, <1>5
  <2> QED
    BY <2>1, <2>2, <1>2
<1>7. \A i, j \in 1 .. (n - 1) : stack'[i].file = stack'[j].file => i = j
  BY <1>1, <1>2, <1>5
<1>8. Len(stack') <= MaxDepth + 1
  BY <1>1, <1>2, <1>5
<1>9. VisitedIsStack'
  BY <1>2, <1>6, <1>7, <1>8 DEF VisitedIsStack
<1> QED
  BY <1>4, <1>9 DEF LoaderInv

LEMMA OpenInv ==
  ASSUME LoaderOK, LoaderInv, Reading, ImportOpens, UNCHANGED <<fs, props>>
  PROVE  LoaderInv'
<1> DEFINE n == Len(stack)
           file == Canon(Expand(Line, props))
           new == [file |-> file, pos |-> 1]
<1>1. /\ Depth + 1 <= MaxDepth /\ loads' = loads + 1 /\ loads + 1 <= MaxLoads
      /\ file \notin visited /\ file \in DOMAIN fs
      /\ stack' = Append(Advanced, new) /\ visited' = visited \cup {file} /\ UNCHANGED status
  BY DEF ImportOpens, Readable
<1>2. /\ Advanced \in Seq(Frame) /\ Len(Advanced) = n /\ n \in Nat /\ DOMAIN stack = 1 .. n
      /\ \A i \in 1 .. n : /\ Advanced[i].file = stack[i].file
                           /\ Advanced[i].pos <= Len(fs[stack[i].file]) + 1
  BY AdvanceKept, StackFacts DEF Reading
<1>3. new \in Frame
  BY <1>1 DEF Frame
<1> HIDE DEF file, new, n
<1>4. /\ stack' \in Seq(Frame) /\ Len(stack') = n + 1 /\ DOMAIN stack' = 1 .. (n + 1)
      /\ \A i \in 1 .. n : stack'[i] = Advanced[i]
      /\ stack'[n + 1] = new
  BY <1>1, <1>2, <1>3
<1>5. new.file = file /\ new.pos = 1 /\ Len(fs[file]) \in Nat
  BY <1>1 DEF new, LoaderInv, LTypeOK, TextsOK
<1>6. \A i \in DOMAIN stack' : stack'[i].pos <= Len(fs[stack'[i].file]) + 1
  <2> SUFFICES ASSUME NEW i \in 1 .. (n + 1) PROVE stack'[i].pos <= Len(fs[stack'[i].file]) + 1
    BY <1>4
  <2>1. CASE i = n + 1
    BY <1>4, <1>5, <2>1
  <2>2. CASE i \in 1 .. n
    BY <1>2, <1>4, <2>2
  <2> QED
    BY <1>2, <2>1, <2>2
<1>7. LTypeOK'
  <2>1. status = "running" /\ stack' # <<>>
    BY <1>2, <1>4 DEF Reading
  <2>2. loads' \in 0 .. MaxLoads + 1 /\ loads' <= MaxLoads
    BY <1>1 DEF LoaderInv, LTypeOK, LoaderOK, LimitsOK
  <2> QED
    BY <1>1, <1>4, <1>6, <2>1, <2>2, LoaderTypeKept DEF LoaderInv, LTypeOK
<1>8. visited' = {stack'[i].file : i \in DOMAIN stack'}
  <2>1. visited = {stack[i].file : i \in 1 .. n}
    BY <1>2 DEF LoaderInv, VisitedIsStack
  <2>2. {stack'[i].file : i \in 1 .. (n + 1)} = {stack[i].file : i \in 1 .. n} \cup {file}
    <3>1. \A i \in 1 .. n : stack'[i].file = stack[i].file
      BY <1>2, <1>4
    <3> QED
      BY <1>2, <1>4, <1>5, <3>1
  <2> QED
    BY <1>1, <1>4, <2>1, <2>2
<1>9. \A i, j \in DOMAIN stack' : stack'[i].file = stack'[j].file => i = j
  <2>1. visited = {stack[i].file : i \in 1 .. n} /\ \A i, j \in 1 .. n : stack[i].file = stack[j].file => i = j
    BY <1>2 DEF LoaderInv, VisitedIsStack
  <2>2. \A i \in 1 .. n : stack'[i].file = stack[i].file /\ stack'[i].file # file
    BY <1>1, <1>2, <1>4, <2>1
  <2> QED
    BY <1>2, <1>4, <1>5, <2>1, <2>2
<1>10. Len(stack') <= MaxDepth + 1
  BY <1>1, <1>2, <1>4 DEF Depth, LoaderOK, LimitsOK, n
<1> QED
  BY <1>7, <1>8, <1>9, <1>10 DEF LoaderInv, VisitedIsStack

LEMMA LoadInv ==
  ASSUME LoaderOK, LoaderInv, NEW f, Load(f)
  PROVE  LoaderInv'
<1> DEFINE root == Canon(Roots[pass + 1])
<1>1. UNCHANGED <<fs, props>> /\ loads' = 1 /\ loads' \in 0 .. MaxLoads + 1
  BY DEF Load, LoaderOK, LimitsOK
<1>2. CASE ~Readable(root)
  BY <1>1, <1>2, ReturnInv DEF Load
<1>3. CASE Readable(root)
  <2>1. /\ root \in DOMAIN fs /\ status' = "running" /\ visited' = {root}
        /\ stack' = <<[file |-> root, pos |-> 1]>>
    BY <1>3 DEF Load, Readable
  <2> HIDE DEF root
  <2>2. /\ stack' \in Seq(Frame) /\ Len(stack') = 1 /\ DOMAIN stack' = {1} /\ stack' # <<>>
        /\ stack'[1].file = root /\ stack'[1].pos = 1
    BY <2>1 DEF Frame
  <2>3. Len(fs[root]) \in Nat
    BY <2>1 DEF LoaderInv, LTypeOK, TextsOK
  <2>4. LTypeOK'
    <3>1. \A i \in DOMAIN stack' : stack'[i].pos <= Len(fs[stack'[i].file]) + 1
      BY <2>2, <2>3
    <3>2. loads' <= MaxLoads
      BY <1>1 DEF LoaderOK, LimitsOK
    <3> QED
      BY <1>1, <2>1, <2>2, <3>1, <3>2, LoaderTypeKept DEF LoaderInv, LTypeOK
  <2>5. VisitedIsStack'
    BY <2>1, <2>2 DEF VisitedIsStack, LoaderOK, LimitsOK
  <2> QED
    BY <2>4, <2>5 DEF LoaderInv
<1> QED
  BY <1>2, <1>3

LEMMA AssignInv ==
  ASSUME LoaderOK, LoaderInv, Assign
  PROVE  LoaderInv'
<1>1. Reading /\ Line.op = "set" /\ stack' = Advanced /\ UNCHANGED <<fs, visited, loads, status>>
  BY DEF Assign
<1>2. Line.key \in Keys /\ Line.value \in Values
  BY <1>1, StackFacts DEF LineOK, Reading
<1>3. /\ DOMAIN props \subseteq Keys \ Disallowed
      /\ \A k \in DOMAIN props : props[k] \in Values
      /\ loads \in 0 .. MaxLoads
  BY <1>1 DEF LoaderInv, LTypeOK, Reading
<1>4. /\ DOMAIN props' \subseteq Keys \ Disallowed
      /\ \A k \in DOMAIN props' : props'[k] \in Values
  <2>1. CASE Wanted(Line.key)
    <3>1. props' = [x \in DOMAIN props \cup {Line.key} |-> IF x = Line.key THEN Line.value ELSE props[x]]
      BY <2>1 DEF Assign, Insert
    <3>2. Line.key \notin Disallowed
      BY <2>1 DEF Wanted
    <3> QED
      BY <3>1, <3>2, <1>2, <1>3
  <2>2. CASE ~Wanted(Line.key)
    BY <2>2, <1>3 DEF Assign
  <2> QED
    BY <2>1, <2>2
<1> QED
  BY <1>1, <1>3, <1>4, AdvanceInv

LEMMA LoaderStepInv == LoaderOK /\ LoaderInv /\ [LNext]_lvars => LoaderInv'
<1> SUFFICES ASSUME LoaderOK, LoaderInv, [LNext]_lvars PROVE LoaderInv'
  OBVIOUS
<1>1. /\ DOMAIN props \subseteq Keys \ Disallowed
      /\ \A k \in DOMAIN props : props[k] \in Values
      /\ loads \in 0 .. MaxLoads + 1 /\ MaxLoads \in Nat
      /\ status = "running" => loads \in 0 .. MaxLoads
  BY DEF LoaderInv, LTypeOK, LoaderOK, LimitsOK
<1>2. CASE SkipLine
  BY <1>1, <1>2, AdvanceInv DEF SkipLine, Reading
<1>3. CASE Assign
  BY <1>3, AssignInv
<1>4. CASE Import
  <2>1. Reading /\ UNCHANGED <<fs, props>>
    BY <1>4 DEF Import
  <2>2. CASE ImportFails
    BY <1>1, <2>1, <2>2, AdvanceInv DEF ImportFails, Reading
  <2>3. CASE BudgetExceeded
    <3>1. loads < MaxLoads + 1
      BY <1>1, <2>1 DEF Reading
    <3> QED
      BY <1>1, <2>1, <2>3, <3>1, ReturnInv DEF BudgetExceeded
  <2>4. CASE ImportOpens
    BY <2>1, <2>4, OpenInv
  <2> QED
    BY <1>4, <2>2, <2>3, <2>4 DEF Import
<1>5. CASE EndOfFile \/ ReadFails
  <2>1. status = "running" /\ UNCHANGED <<fs, props, loads>>
    BY <1>5 DEF EndOfFile, ReadFails, Reading
  <2>2. CASE Len(stack) > 1
    <3>1. Len(stack) # 1
      BY <2>1, <2>2, StackFacts
    <3>2. Close
      BY <1>5, <3>1, Zenon DEF EndOfFile, ReadFails
    <3> QED
      BY <2>1, <2>2, <3>2, CloseInv
  <2>3. CASE Len(stack) = 1
    <3>1. LReturn("ok") \/ LReturn("err")
      BY <1>5, <2>3 DEF EndOfFile, ReadFails, Close
    <3> QED
      BY <1>1, <2>1, <3>1, ReturnInv
  <2> QED
    BY <1>5, <2>2, <2>3 DEF EndOfFile, ReadFails, Close
<1>6. CASE \E f \in Filters : Load(f)
  BY <1>6, LoadInv
<1>7. CASE UNCHANGED lvars
  BY <1>7 DEF lvars, LoaderInv, LTypeOK, VisitedIsStack, TextsOK
<1> QED
  BY <1>2, <1>3, <1>4, <1>5, <1>6, <1>7 DEF LNext, Step

(* Whatever the files hold and import, the import stack is exact: no file is *)
(* open twice, none is left behind, and no disallowed key is stored          *)
(* (load_properties_impl).                                                   *)
THEOREM LoaderInvariant == LSpec => []LoaderInv
<1>1. LInit => LoaderInv
  BY LoaderParameters, LoaderInitHolds
<1>2. LoaderInv /\ [LNext]_lvars => LoaderInv'
  BY LoaderParameters, LoaderStepInv
<1> QED
  BY <1>1, <1>2, PTL DEF LSpec

(* A step that does not count a load brings some open file nearer to its end. *)
LEMMA ProgressMade ==
  ASSUME LoaderOK, LoaderInv, LoaderInv', LNext, status = "running", status' = "running"
  PROVE  \/ loads' = loads + 1 /\ loads' <= MaxLoads
         \/ /\ loads' = loads
            /\ \A d \in 1 .. MaxDepth + 1 : Left(d) \in Nat /\ Left(d)' <= Left(d)
            /\ \E d \in 1 .. MaxDepth + 1 : Left(d)' < Left(d)
<1>0. PICK n \in Nat : n = Len(stack)
  BY StackFacts
<1>1. /\ n > 0 /\ n <= MaxDepth + 1 /\ MaxDepth \in Nat /\ DOMAIN stack = 1 .. n
      /\ \A i \in 1 .. n : stack[i] \in Frame
  BY <1>0, StackFacts DEF LoaderInv, VisitedIsStack, LoaderOK, LimitsOK
<1>2. \A i \in 1 .. n : Len(fs[stack[i].file]) \in Nat /\ stack[i].pos \in Nat
  BY <1>1 DEF LoaderInv, LTypeOK, TextsOK, Frame
<1>3. \A i \in 1 .. n : stack[i].pos <= Len(fs[stack[i].file]) + 1
  BY <1>1 DEF LoaderInv, LTypeOK
<1>4. \A d \in 1 .. MaxDepth + 1 : Left(d) \in Nat /\ (d \in 1 .. n => Left(d) > 0)
  <2> SUFFICES ASSUME NEW d \in 1 .. MaxDepth + 1 PROVE Left(d) \in Nat /\ (d \in 1 .. n => Left(d) > 0)
    OBVIOUS
  <2>1. CASE d \in 1 .. n
    <3>1. PICK len \in Nat, pos \in Nat : len = Len(fs[stack[d].file]) /\ pos = stack[d].pos
      BY <1>2, <2>1
    <3>2. Left(d) = len + 2 - pos
      BY <1>1, <2>1, <3>1 DEF Left
    <3>3. pos <= len + 1
      BY <1>3, <2>1, <3>1
    <3> QED
      BY <3>2, <3>3
  <2>2. CASE d \notin 1 .. n
    BY <1>1, <2>2 DEF Left
  <2> QED
    BY <2>1, <2>2
<1>5. CASE Reading /\ stack' = Advanced /\ UNCHANGED <<fs, loads>>
  <2>1. /\ DOMAIN stack' = 1 .. n
        /\ \A i \in 1 .. n : /\ stack'[i].file = stack[i].file
                             /\ stack'[i].pos = stack[i].pos + (IF i = n THEN 1 ELSE 0)
    BY <1>5, <1>0, <1>1, AdvanceKept
  <2>2. \A d \in 1 .. MaxDepth + 1 :
          Left(d)' = IF d \in 1 .. n THEN Len(fs[stack[d].file]) + 2 - stack'[d].pos ELSE 0
    BY <1>5, <2>1 DEF Left
  <2>3. \A d \in 1 .. MaxDepth + 1 : Left(d)' = Left(d) - (IF d = n THEN 1 ELSE 0)
    <3> SUFFICES ASSUME NEW d \in 1 .. MaxDepth + 1 PROVE Left(d)' = Left(d) - (IF d = n THEN 1 ELSE 0)
      OBVIOUS
    <3>1. CASE d \in 1 .. n
      <4>1. Left(d) = Len(fs[stack[d].file]) + 2 - stack[d].pos
        BY <1>1, <3>1 DEF Left
      <4>2. Left(d)' = Len(fs[stack[d].file]) + 2 - stack'[d].pos
        BY <2>2, <3>1
      <4>3. stack'[d].pos = stack[d].pos + (IF d = n THEN 1 ELSE 0)
        BY <2>1, <3>1
      <4>4. Len(fs[stack[d].file]) \in Nat /\ stack[d].pos \in Nat
        BY <1>2, <3>1
      <4>5. CASE d = n
        <5>1. stack'[d].pos = stack[d].pos + 1
          BY <4>3, <4>5
        <5>2. PICK k \in Nat, m \in Nat : k = Len(fs[stack[d].file]) /\ m = stack[d].pos
          BY <4>4
        <5>3. Left(d) = k + 2 - m
          BY <4>1, <5>2
        <5>4. Left(d)' = k + 2 - (m + 1)
          BY <4>2, <5>1, <5>2
        <5> QED
          BY <4>5, <5>3, <5>4
      <4>6. CASE d # n
        <5>1. stack'[d].pos = stack[d].pos
          BY <4>3, <4>4, <4>6
        <5> QED
          BY <4>1, <4>2, <4>4, <4>6, <5>1
      <4> QED
        BY <4>5, <4>6
    <3>2. CASE d \notin 1 .. n
      BY <1>1, <2>1, <2>2, <3>2 DEF Left
    <3> QED
      BY <3>1, <3>2
  <2>4. Left(n)' < Left(n) /\ n \in 1 .. MaxDepth + 1
    BY <1>1, <1>4, <2>3
  <2> QED
    BY <1>4, <1>5, <2>3, <2>4
<1>6. CASE stack' = SubSeq(stack, 1, n - 1) /\ UNCHANGED <<fs, loads>>
  <2>1. DOMAIN stack' = 1 .. (n - 1) /\ \A i \in 1 .. (n - 1) : stack'[i] = stack[i]
    BY <1>0, <1>1, <1>6, StackFacts
  <2>2. \A d \in 1 .. MaxDepth + 1 : Left(d)' = IF d = n THEN 0 ELSE Left(d)
    BY <1>1, <1>6, <2>1 DEF Left
  <2>3. Left(n)' < Left(n) /\ n \in 1 .. MaxDepth + 1
    BY <1>1, <1>4, <2>2
  <2> QED
    BY <1>4, <1>6, <2>2, <2>3
<1>7. CASE loads' = loads + 1
  BY <1>7 DEF LoaderInv, LTypeOK
<1>8. ~ LReturn("ok") /\ ~ LReturn("err")
  BY DEF LReturn
<1>9. CASE SkipLine \/ Assign
  BY <1>5, <1>9 DEF SkipLine, Assign
<1>10. CASE Import
  <2>1. Reading /\ UNCHANGED fs
    BY <1>10 DEF Import
  <2> QED
    BY <1>5, <1>7, <1>8, <1>10, <2>1 DEF Import, ImportFails, ImportOpens, BudgetExceeded
<1>11. CASE EndOfFile \/ ReadFails
  <2>1. Close
    BY <1>8, <1>11, Zenon DEF EndOfFile, ReadFails
  <2>2. stack' = SubSeq(stack, 1, n - 1)
    BY <1>0, <1>8, <2>1, Zenon DEF Close
  <2> QED
    BY <1>6, <1>11, <2>2 DEF EndOfFile, ReadFails
<1>12. ~ \E f \in Filters : Load(f)
  BY DEF Load
<1> QED
  BY <1>9, <1>10, <1>11, <1>12 DEF LNext, Step

(* The variant of a load: at most MaxLoads files are counted, and between two *)
(* of them each step reads on in an open file, cycles and repeated imports    *)
(* included.  With the fairness of Step this is why every call returns.       *)
THEOREM LoadsProgress == LSpec => LoadProgress
<1>1. LoaderInv /\ LoaderInv' /\ [LNext]_lvars =>
        [status = "running" /\ status' = "running" =>
           \/ loads' = loads + 1 /\ loads' <= MaxLoads
           \/ /\ loads' = loads
              /\ \A d \in 1 .. MaxDepth + 1 : Left(d) \in Nat /\ Left(d)' <= Left(d)
              /\ \E d \in 1 .. MaxDepth + 1 : Left(d)' < Left(d)]_lvars
  BY LoaderParameters, ProgressMade
<1> QED
  BY <1>1, LoaderInvariant, PTL DEF LSpec, LoadProgress

-------------------------------------------------------------------------------
(* The rules of property_contexts. *)

InfoOK == LinesOK /\ BoundsOK

LEMMA InfoParameters == InfoOK
BY LinesAssumption, BoundsAssumption DEF InfoOK

(* A path is its parent with its last segment, and determined by them. *)
LEMMA PathFacts ==
  ASSUME NEW p \in Seq(Strings), p # Empty
  PROVE  /\ Len(p) \in Nat \ {0} /\ Front(p) \in Seq(Strings) /\ Len(Front(p)) = Len(p) - 1
         /\ Last(p) \in Strings
         /\ p = Append(Front(p), Last(p))
<1>1. Len(p) \in Nat \ {0} /\ DOMAIN p = 1 .. Len(p) /\ \A i \in 1 .. Len(p) : p[i] \in Strings
  BY EmptySeq, LenProperties, ElementOfSeq DEF Empty
<1>2. /\ Front(p) \in Seq(Strings) /\ Len(Front(p)) = Len(p) - 1
      /\ \A i \in 1 .. Len(p) - 1 : Front(p)[i] = p[i]
  BY <1>1, SubSeqProperties DEF Front
<1>3. Last(p) \in Strings
  BY <1>1 DEF Last
<1>4. p = Append(Front(p), Last(p))
  <2>1. PICK front \in Seq(Strings), last \in Strings : front = Front(p) /\ last = Last(p)
    BY <1>2, <1>3
  <2>2. /\ Append(front, last) \in Seq(Strings)
        /\ Len(Append(front, last)) = Len(front) + 1
        /\ \A i \in 1 .. Len(front) : Append(front, last)[i] = front[i]
        /\ Append(front, last)[Len(front) + 1] = last
    BY AppendProperties
  <2>3. Len(front) + 1 = Len(p) /\ last = p[Len(p)]
    <3>1. Len(front) = Len(p) - 1
      BY <1>2, <2>1, Zenon
    <3>2. last = p[Len(p)]
      BY <2>1, Zenon DEF Last
    <3> QED
      BY <1>1, <3>1, <3>2
  <2>4. \A i \in 1 .. Len(p) : Append(front, last)[i] = p[i]
    BY <1>1, <1>2, <2>1, <2>2, <2>3
  <2>5. Append(front, last) = p
    BY <2>2, <2>3, <2>4, SeqEqual
  <2> QED
    BY <2>1, <2>5
<1> QED
  BY <1>1, <1>2, <1>3, <1>4

(* What is taken of a prefix of a path. *)
LEMMA PrefixFacts ==
  ASSUME NEW p \in Seq(Strings), NEW i \in 0 .. Len(p)
  PROVE  /\ SubSeq(p, 1, i) \in Seq(Strings) /\ Len(SubSeq(p, 1, i)) = i
         /\ i > 0 => Front(SubSeq(p, 1, i)) = SubSeq(p, 1, i - 1)
         /\ i = 0 => SubSeq(p, 1, i) = Empty
         /\ i = Len(p) => SubSeq(p, 1, i) = p
<1>1. Len(p) \in Nat
  BY LenProperties
<1>2. \A k \in 0 .. Len(p) : /\ SubSeq(p, 1, k) \in Seq(Strings) /\ Len(SubSeq(p, 1, k)) = k
                             /\ \A j \in 1 .. k : SubSeq(p, 1, k)[j] = p[j]
  BY <1>1, SubSeqProperties
<1>3. ASSUME i > 0 PROVE Front(SubSeq(p, 1, i)) = SubSeq(p, 1, i - 1)
  <2>1. i - 1 \in 0 .. Len(p)
    BY <1>1, <1>3
  <2>2. /\ Front(SubSeq(p, 1, i)) \in Seq(Strings) /\ Len(Front(SubSeq(p, 1, i))) = i - 1
        /\ \A j \in 1 .. i - 1 : Front(SubSeq(p, 1, i))[j] = SubSeq(p, 1, i)[j]
    BY <1>1, <1>2, <1>3, SubSeqProperties DEF Front
  <2>3. \A j \in 1 .. i - 1 : Front(SubSeq(p, 1, i))[j] = SubSeq(p, 1, i - 1)[j]
    BY <1>1, <1>2, <2>1, <2>2
  <2> QED
    BY <1>2, <2>1, <2>2, <2>3, SeqEqual
<1>4. i = 0 => SubSeq(p, 1, i) = Empty
  BY <1>2 DEF Empty
<1>5. i = Len(p) => SubSeq(p, 1, i) = p
  BY <1>2, SeqEqual
<1> QED
  BY <1>2, <1>3, <1>4, <1>5

(* What a parsed rule is, and what makes one valid. *)
LEMMA RuleFacts ==
  ASSUME InfoOK, NEW e \in ParsedRules
  PROVE  /\ e.name \in Names /\ Parts(e.name) \in Seq(Strings)
         /\ Kind(e) \in {"exact", "prefix", "node"}
         /\ ValidEntry(e) => /\ Parts(e.name) # Empty /\ Len(Parts(e.name)) \in 1 .. MaxSegments
                             /\ Parts(e.name) = Append(Parent(e), Leaf(e))
                             /\ Parent(e) \in Seq(Strings) /\ Leaf(e) \in Strings
<1>1. PICK l \in Lines : e = EntryOf(l)
  BY DEF ParsedRules
<1>2. e.name = l.name /\ l.name \in Names
  BY <1>1 DEF EntryOf, InfoOK, LinesOK
<1>3. e.name \in Seq(Strings) /\ e.name # Empty
  BY <1>2 DEF Names
<1>4. Parts(e.name) \in Seq(Strings)
  BY <1>3, PathFacts DEF Parts
<1>5. ASSUME ValidEntry(e)
      PROVE  Parts(e.name) # Empty /\ Len(Parts(e.name)) \in 1 .. MaxSegments
  <2>1. Len(Parts(e.name)) \in 1 .. MaxSegments
    BY <1>5 DEF ValidEntry, ValidName
  <2> QED
    BY <2>1 DEF Empty
<1> QED
  BY <1>2, <1>3, <1>4, <1>5, PathFacts DEF Kind, Parent, Leaf

(* The way to a rule's place: nothing is lost, and new nodes are blank. *)
LEMMA WalkedFacts ==
  ASSUME InfoOK, NodesOK, NEW e \in ParsedRules, ValidEntry(e)
  PROVE  /\ DOMAIN nodes \subseteq DOMAIN Walked(e)
         /\ Kind(e) = "node" => Parts(e.name) \in DOMAIN Walked(e)
         /\ Kind(e) # "node" => Parent(e) \in DOMAIN Walked(e)
         /\ \A p \in DOMAIN Walked(e) :
              /\ Walked(e)[p] = IF p \in DOMAIN nodes THEN nodes[p] ELSE NewNode
              /\ IsNode(Walked(e)[p]) /\ p \in Seq(Strings) /\ Len(p) <= MaxSegments
              /\ p # Empty => Front(p) \in DOMAIN Walked(e)
<1>1. PICK P \in Seq(Strings), n \in Nat, m \in Nat :
        /\ P = Parts(e.name) /\ n = Len(P) /\ n \in 1 .. MaxSegments
        /\ m = n - (IF Kind(e) = "node" THEN 0 ELSE 1)
        /\ m \in 0 .. n
  <2>1. Len(Parts(e.name)) \in Nat \ {0} /\ Len(Parts(e.name)) \in 1 .. MaxSegments
    BY RuleFacts, LenProperties DEF InfoOK, BoundsOK
  <2>2. Len(Parts(e.name)) - (IF Kind(e) = "node" THEN 0 ELSE 1) \in 0 .. Len(Parts(e.name))
    BY <2>1
  <2> QED
    BY <2>1, <2>2, RuleFacts
<1> DEFINE path == {SubSeq(P, 1, i) : i \in 0 .. m}
<1>2. Walked(e) = [p \in DOMAIN nodes \cup path |-> IF p \in DOMAIN nodes THEN nodes[p] ELSE NewNode]
  BY <1>1, Zenon DEF Walked
<1>3. \A p \in path : p \in Seq(Strings) /\ Len(p) <= MaxSegments /\ (p # Empty => Front(p) \in path)
  <2> SUFFICES ASSUME NEW i \in 0 .. m
               PROVE  LET p == SubSeq(P, 1, i)
                      IN p \in Seq(Strings) /\ Len(p) <= MaxSegments /\ (p # Empty => Front(p) \in path)
    OBVIOUS
  <2>1. i \in 0 .. Len(P) /\ i <= MaxSegments
    BY <1>1 DEF InfoOK, BoundsOK
  <2>2. CASE i = 0
    BY <2>1, <2>2, PrefixFacts
  <2>3. CASE i > 0
    <3>1. i - 1 \in 0 .. m
      BY <1>1, <2>3
    <3> QED
      BY <2>1, <2>3, <3>1, PrefixFacts
  <2> QED
    BY <1>1, <2>2, <2>3
<1>4. Kind(e) = "node" => Parts(e.name) \in path
  BY <1>1, PrefixFacts
<1>5. Kind(e) # "node" => Parent(e) \in path
  BY <1>1 DEF Parent, Front
<1>6. IsNode(NewNode)
  BY DEF IsNode, NewNode
<1> HIDE DEF path
<1> QED
  BY <1>2, <1>3, <1>4, <1>5, <1>6 DEF NodesOK

(* Only the rule's own place changes. *)
LEMMA PlacedFacts ==
  ASSUME InfoOK, NodesOK, NEW e \in ParsedRules, ValidEntry(e)
  PROVE  LET W == Walked(e)  value == [ctx |-> e.ctx, type |-> e.type] IN
         /\ DOMAIN Placed(e) = DOMAIN W
         /\ \A p \in DOMAIN W :
              Placed(e)[p] =
                [ctx  |-> IF Kind(e) = "node" /\ p = Parts(e.name) THEN {e.ctx} ELSE W[p].ctx,
                 type |-> IF Kind(e) = "node" /\ p = Parts(e.name) THEN {e.type} ELSE W[p].type,
                 prefixes |-> IF Kind(e) = "prefix" /\ p = Parent(e) THEN Set(W[p].prefixes, Leaf(e), value)
                                                                    ELSE W[p].prefixes,
                 exacts   |-> IF Kind(e) = "exact" /\ p = Parent(e) THEN Set(W[p].exacts, Leaf(e), value)
                                                                   ELSE W[p].exacts]
<1> DEFINE value == [ctx |-> e.ctx, type |-> e.type]
<1>1. PICK W : W = Walked(e)
  OBVIOUS
<1>2. /\ W = [p \in DOMAIN W |-> W[p]] /\ \A p \in DOMAIN W : IsNode(W[p])
      /\ Kind(e) = "node" => Parts(e.name) \in DOMAIN W
      /\ Kind(e) # "node" => Parent(e) \in DOMAIN W
  <2>1. W = [p \in DOMAIN W |-> W[p]]
    BY <1>1 DEF Walked
  <2> QED
    BY <1>1, <2>1, WalkedFacts
<1>3. CASE Kind(e) = "exact"
  <2>1. Placed(e) = [W EXCEPT ![Parent(e)].exacts = Set(@, Leaf(e), value)]
    BY <1>1, <1>3 DEF Placed
  <2> HIDE DEF value
  <2> QED
    BY <1>1, <1>2, <1>3, <2>1 DEF IsNode, value
<1>4. CASE Kind(e) = "prefix"
  <2>1. Placed(e) = [W EXCEPT ![Parent(e)].prefixes = Set(@, Leaf(e), value)]
    BY <1>1, <1>4 DEF Placed
  <2> QED
    BY <1>1, <1>2, <1>4, <2>1 DEF IsNode
<1>5. CASE Kind(e) = "node"
  <2>1. Placed(e) = [W EXCEPT ![Parts(e.name)].ctx = {e.ctx}, ![Parts(e.name)].type = {e.type}]
    BY <1>1, <1>5 DEF Placed
  <2>2. PICK P \in DOMAIN W : P = Parts(e.name)
    BY <1>2, <1>5
  <2>3. PICK V : V = [W EXCEPT ![P].ctx = {e.ctx}]
    OBVIOUS
  <2>4. /\ DOMAIN V = DOMAIN W
        /\ \A p \in DOMAIN W : V[p] = [ctx |-> IF p = P THEN {e.ctx} ELSE W[p].ctx, type |-> W[p].type,
                                      prefixes |-> W[p].prefixes, exacts |-> W[p].exacts]
    <3>1. DOMAIN V = DOMAIN W /\ \A p \in DOMAIN W : p # P => V[p] = W[p]
      BY <1>2, <2>3
    <3>2. V[P] = [W[P] EXCEPT !.ctx = {e.ctx}]
      BY <1>2, <2>3
    <3>3. V[P] = [ctx |-> {e.ctx}, type |-> W[P].type, prefixes |-> W[P].prefixes, exacts |-> W[P].exacts]
      BY <1>2, <3>2 DEF IsNode
    <3> QED
      BY <1>2, <3>1, <3>3 DEF IsNode
  <2>5. Placed(e) = [V EXCEPT ![P].type = {e.type}]
    BY <2>1, <2>2, <2>3
  <2>6. /\ DOMAIN Placed(e) = DOMAIN W
        /\ \A p \in DOMAIN W : Placed(e)[p] = [ctx |-> IF p = P THEN {e.ctx} ELSE W[p].ctx,
                                              type |-> IF p = P THEN {e.type} ELSE W[p].type,
                                              prefixes |-> W[p].prefixes, exacts |-> W[p].exacts]
    <3>1. DOMAIN Placed(e) = DOMAIN W /\ \A p \in DOMAIN W : p # P => Placed(e)[p] = V[p]
      BY <2>4, <2>5
    <3>2. Placed(e)[P] = [V[P] EXCEPT !.type = {e.type}]
      BY <2>4, <2>5
    <3>3. Placed(e)[P] = [ctx |-> {e.ctx}, type |-> {e.type}, prefixes |-> W[P].prefixes, exacts |-> W[P].exacts]
      <4>1. V[P] = [ctx |-> {e.ctx}, type |-> W[P].type, prefixes |-> W[P].prefixes, exacts |-> W[P].exacts]
        BY <2>4
      <4> QED
        BY <3>2, <4>1
    <3> QED
      BY <2>4, <3>1, <3>3
  <2> QED
    BY <1>1, <1>5, <2>2, <2>6
<1> QED
  BY <1>3, <1>4, <1>5, RuleFacts

(* The inductive invariant of the builder. *)
BuilderInv == ATypeOK /\ TrieIsRules /\ FailsOnClashOnly

Bad(i) == ~ValidEntry(entries[i]) \/ \E j \in 1 .. i - 1 : Clash(entries[i], entries[j])

(* The rules of the file, and the ones the trie holds. *)
LEMMA EntriesFacts ==
  ASSUME InfoOK, BuilderInv
  PROVE  /\ Len(entries) \in Nat /\ DOMAIN entries = 1 .. Len(entries)
         /\ next \in Nat \ {0} /\ next <= Len(entries) + 1
         /\ \A i \in 1 .. Len(entries) : entries[i] \in ParsedRules
         /\ NodesOK
         /\ phase \in {"build", "built"} => \A j \in 1 .. next - 1 : ~Bad(j) /\ ValidEntry(entries[j])
<1>1. entries \in Seq(ParsedRules)
  BY DEF BuilderInv, ATypeOK
<1>2. Len(entries) \in Nat /\ DOMAIN entries = 1 .. Len(entries)
  BY <1>1, LenProperties
<1>3. \A i \in 1 .. Len(entries) : entries[i] \in ParsedRules
  BY <1>1, ElementOfSeq
<1>4. next \in 1 .. Len(entries) + 1
  BY DEF BuilderInv, ATypeOK
<1>5. NodesOK
  BY DEF BuilderInv, ATypeOK
<1>6. phase \in {"build", "built"} => \A j \in 1 .. next - 1 : ~Bad(j)
  BY DEF BuilderInv, FailsOnClashOnly, Bad
<1> QED
  BY <1>2, <1>3, <1>4, <1>5, <1>6 DEF Bad

(* A rule's place is taken exactly when an earlier rule says the same. *)
LEMMA DuplicateFacts ==
  ASSUME InfoOK, BuilderInv, phase = "build", NEW e \in ParsedRules, ValidEntry(e)
  PROVE  Duplicate(e) <=> Said(Kind(e), Parts(e.name))
<1>1. /\ \A j \in 1 .. next - 1 : InPlace(entries[j])
      /\ \A p \in DOMAIN nodes :
           /\ \A s \in DOMAIN nodes[p].exacts : Said("exact", Append(p, s))
           /\ \A s \in DOMAIN nodes[p].prefixes : Said("prefix", Append(p, s))
           /\ p # Empty /\ (nodes[p].ctx # None \/ nodes[p].type # None) => Said("node", p)
  BY DEF BuilderInv, TrieIsRules
<1>2. /\ Parts(e.name) # Empty /\ Parts(e.name) = Append(Parent(e), Leaf(e))
      /\ Kind(e) \in {"exact", "prefix", "node"}
  BY RuleFacts
<1>3. /\ DOMAIN nodes \subseteq DOMAIN Walked(e)
      /\ \A p \in DOMAIN Walked(e) : Walked(e)[p] = IF p \in DOMAIN nodes THEN nodes[p] ELSE NewNode
      /\ Kind(e) = "node" => Parts(e.name) \in DOMAIN Walked(e)
      /\ Kind(e) # "node" => Parent(e) \in DOMAIN Walked(e)
  BY EntriesFacts, WalkedFacts
<1>4. /\ DOMAIN NewNode.exacts = {} /\ DOMAIN NewNode.prefixes = {}
      /\ NewNode.ctx = None /\ NewNode.type = None
  BY DEF NewNode
<1>5. ASSUME Duplicate(e) PROVE Said(Kind(e), Parts(e.name))
  <2>1. CASE Kind(e) = "exact"
    BY <1>1, <1>2, <1>3, <1>4, <1>5, <2>1 DEF Duplicate
  <2>2. CASE Kind(e) = "prefix"
    BY <1>1, <1>2, <1>3, <1>4, <1>5, <2>2 DEF Duplicate
  <2>3. CASE Kind(e) = "node"
    BY <1>1, <1>2, <1>3, <1>4, <1>5, <2>3 DEF Duplicate
  <2> QED
    BY <1>2, <2>1, <2>2, <2>3
<1>6. ASSUME Said(Kind(e), Parts(e.name)) PROVE Duplicate(e)
  <2>1. PICK j \in 1 .. next - 1 : Kind(entries[j]) = Kind(e) /\ Parts(entries[j].name) = Parts(e.name)
    BY <1>6 DEF Said
  <2>2. InPlace(entries[j]) /\ Parent(entries[j]) = Parent(e) /\ Leaf(entries[j]) = Leaf(e)
    BY <1>1, <2>1 DEF Parent, Leaf
  <2>3. CASE Kind(e) = "exact"
    BY <1>3, <2>1, <2>2, <2>3 DEF Duplicate, InPlace
  <2>4. CASE Kind(e) = "prefix"
    BY <1>3, <2>1, <2>2, <2>4 DEF Duplicate, InPlace
  <2>5. CASE Kind(e) = "node"
    BY <1>3, <2>1, <2>2, <2>5 DEF Duplicate, InPlace, None
  <2> QED
    BY <1>2, <2>3, <2>4, <2>5
<1> QED
  BY <1>5, <1>6

(* A new rule is put in its place, and the others stay in theirs. *)
LEMMA TrieStep ==
  ASSUME InfoOK, BuilderInv, phase = "build", next <= Len(entries),
         ValidEntry(entries[next]), ~Duplicate(entries[next]),
         nodes' = Placed(entries[next]), next' = next + 1, UNCHANGED <<phase, entries>>,
         contexts' = contexts \cup {entries[next].ctx}, types' = types \cup {entries[next].type}
  PROVE  NodesOK' /\ TrieIsRules'
<1>1. PICK e \in ParsedRules : e = entries[next] /\ ValidEntry(e) /\ ~Duplicate(e)
  BY EntriesFacts
<1>2. PICK W : W = Walked(e)
  OBVIOUS
<1>3. /\ DOMAIN nodes \subseteq DOMAIN W
      /\ Kind(e) = "node" => Parts(e.name) \in DOMAIN W
      /\ Kind(e) # "node" => Parent(e) \in DOMAIN W
      /\ \A p \in DOMAIN W : /\ W[p] = IF p \in DOMAIN nodes THEN nodes[p] ELSE NewNode
                             /\ IsNode(W[p]) /\ p \in Seq(Strings) /\ Len(p) <= MaxSegments
                             /\ p # Empty => Front(p) \in DOMAIN W
  BY <1>1, <1>2, EntriesFacts, WalkedFacts
<1> DEFINE value == [ctx |-> e.ctx, type |-> e.type]
<1>4. /\ DOMAIN nodes' = DOMAIN W
      /\ \A p \in DOMAIN W :
           nodes'[p] = [ctx  |-> IF Kind(e) = "node" /\ p = Parts(e.name) THEN {e.ctx} ELSE W[p].ctx,
                        type |-> IF Kind(e) = "node" /\ p = Parts(e.name) THEN {e.type} ELSE W[p].type,
                        prefixes |-> IF Kind(e) = "prefix" /\ p = Parent(e)
                                     THEN Set(W[p].prefixes, Leaf(e), value) ELSE W[p].prefixes,
                        exacts |-> IF Kind(e) = "exact" /\ p = Parent(e)
                                   THEN Set(W[p].exacts, Leaf(e), value) ELSE W[p].exacts]
  BY <1>1, <1>2, EntriesFacts, PlacedFacts
<1>5. \A p \in DOMAIN W :
        /\ nodes'[p].ctx  = IF Kind(e) = "node" /\ p = Parts(e.name) THEN {e.ctx} ELSE W[p].ctx
        /\ nodes'[p].type = IF Kind(e) = "node" /\ p = Parts(e.name) THEN {e.type} ELSE W[p].type
        /\ nodes'[p].prefixes = IF Kind(e) = "prefix" /\ p = Parent(e)
                                THEN Set(W[p].prefixes, Leaf(e), value) ELSE W[p].prefixes
        /\ nodes'[p].exacts = IF Kind(e) = "exact" /\ p = Parent(e)
                              THEN Set(W[p].exacts, Leaf(e), value) ELSE W[p].exacts
        /\ IsNode(nodes'[p])
  <2> HIDE DEF value
  <2> TAKE p \in DOMAIN W
  <2>1. PICK c, t, x, y :
          /\ c = IF Kind(e) = "node" /\ p = Parts(e.name) THEN {e.ctx} ELSE W[p].ctx
          /\ t = IF Kind(e) = "node" /\ p = Parts(e.name) THEN {e.type} ELSE W[p].type
          /\ x = IF Kind(e) = "prefix" /\ p = Parent(e) THEN Set(W[p].prefixes, Leaf(e), value) ELSE W[p].prefixes
          /\ y = IF Kind(e) = "exact" /\ p = Parent(e) THEN Set(W[p].exacts, Leaf(e), value) ELSE W[p].exacts
    OBVIOUS
  <2>2. nodes'[p] = [ctx |-> c, type |-> t, prefixes |-> x, exacts |-> y]
    BY <1>4, <2>1
  <2>3. /\ nodes'[p].ctx = c /\ nodes'[p].type = t /\ nodes'[p].prefixes = x /\ nodes'[p].exacts = y
        /\ IsNode(nodes'[p])
    BY <2>2 DEF IsNode
  <2> QED
    BY <2>1, <2>3
<1> HIDE DEF value
<1>6. NodesOK'
  BY <1>3, <1>4, <1>5 DEF NodesOK
<1>7. /\ next \in Nat \ {0} /\ next' = next + 1 /\ entries' = entries
      /\ \A j \in 1 .. next - 1 : entries[j] \in ParsedRules /\ ValidEntry(entries[j])
  BY EntriesFacts
<1>8. ~Said(Kind(e), Parts(e.name))
  BY <1>1, DuplicateFacts
<1>9. ASSUME NEW kind, NEW path, Said(kind, path) PROVE Said(kind, path)'
  BY <1>7, <1>9 DEF Said
<1>10. Said(Kind(e), Parts(e.name))'
  BY <1>1, <1>7 DEF Said
<1>11. /\ Parts(e.name) # Empty /\ Parts(e.name) = Append(Parent(e), Leaf(e))
       /\ Kind(e) \in {"exact", "prefix", "node"}
  BY <1>1, RuleFacts
<1>12. InPlace(e)'
  <2>1. CASE Kind(e) = "exact"
    <3>1. Parent(e) \in DOMAIN W /\ nodes'[Parent(e)].exacts = Set(W[Parent(e)].exacts, Leaf(e), value)
      BY <1>3, <1>5, <2>1
    <3> QED
      BY <1>4, <2>1, <3>1 DEF InPlace, Set, value
  <2>2. CASE Kind(e) = "prefix"
    <3>1. Parent(e) \in DOMAIN W /\ nodes'[Parent(e)].prefixes = Set(W[Parent(e)].prefixes, Leaf(e), value)
      BY <1>3, <1>5, <2>2
    <3> QED
      BY <1>4, <2>2, <3>1 DEF InPlace, Set, value
  <2>3. CASE Kind(e) = "node"
    BY <1>3, <1>4, <1>5, <2>3 DEF InPlace
  <2> QED
    BY <1>11, <2>1, <2>2, <2>3
<1>13. ASSUME NEW j \in 1 .. next - 1 PROVE InPlace(entries[j])'
  <2>1. PICK f \in ParsedRules : f = entries[j] /\ ValidEntry(f)
    BY <1>7
  <2>2. InPlace(f) /\ ~(Kind(f) = Kind(e) /\ Parts(f.name) = Parts(e.name))
    BY <1>8, <2>1 DEF BuilderInv, TrieIsRules, Said
  <2>3. Kind(f) \in {"exact", "prefix", "node"} /\ Parts(f.name) = Append(Parent(f), Leaf(f))
    BY <2>1, RuleFacts
  <2>4. \A p \in DOMAIN nodes : p \in DOMAIN W /\ W[p] = nodes[p]
    BY <1>3
  <2>5. CASE Kind(f) = "exact"
    <3>1. Parent(f) \in DOMAIN W /\ Leaf(f) \in DOMAIN W[Parent(f)].exacts
          /\ W[Parent(f)].exacts[Leaf(f)] = [ctx |-> f.ctx, type |-> f.type]
      BY <2>2, <2>4, <2>5 DEF InPlace
    <3>2. ~(Kind(e) = "exact" /\ Parent(f) = Parent(e) /\ Leaf(f) = Leaf(e))
      BY <1>11, <2>2, <2>3, <2>5
    <3>3. Leaf(f) \in DOMAIN nodes'[Parent(f)].exacts
          /\ nodes'[Parent(f)].exacts[Leaf(f)] = [ctx |-> f.ctx, type |-> f.type]
      BY <1>5, <3>1, <3>2 DEF Set
    <3>4. InPlace(f)'
      BY <1>4, <2>5, <3>1, <3>3 DEF InPlace
    <3> QED
      BY <1>7, <2>1, <3>4
  <2>6. CASE Kind(f) = "prefix"
    <3>1. Parent(f) \in DOMAIN W /\ Leaf(f) \in DOMAIN W[Parent(f)].prefixes
          /\ W[Parent(f)].prefixes[Leaf(f)] = [ctx |-> f.ctx, type |-> f.type]
      BY <2>2, <2>4, <2>6 DEF InPlace
    <3>2. ~(Kind(e) = "prefix" /\ Parent(f) = Parent(e) /\ Leaf(f) = Leaf(e))
      BY <1>11, <2>2, <2>3, <2>6
    <3>3. Leaf(f) \in DOMAIN nodes'[Parent(f)].prefixes
          /\ nodes'[Parent(f)].prefixes[Leaf(f)] = [ctx |-> f.ctx, type |-> f.type]
      BY <1>5, <3>1, <3>2 DEF Set
    <3>4. InPlace(f)'
      BY <1>4, <2>6, <3>1, <3>3 DEF InPlace
    <3> QED
      BY <1>7, <2>1, <3>4
  <2>7. CASE Kind(f) = "node"
    <3>1. /\ Parts(f.name) \in DOMAIN W /\ W[Parts(f.name)].ctx = {f.ctx} /\ W[Parts(f.name)].type = {f.type}
          /\ ~(Kind(e) = "node" /\ Parts(f.name) = Parts(e.name))
      BY <2>2, <2>4, <2>7 DEF InPlace
    <3>2. nodes'[Parts(f.name)].ctx = {f.ctx} /\ nodes'[Parts(f.name)].type = {f.type}
      BY <1>5, <3>1
    <3>3. InPlace(f)'
      BY <1>4, <2>7, <3>1, <3>2 DEF InPlace
    <3> QED
      BY <1>7, <2>1, <3>3
  <2> QED
    BY <2>3, <2>5, <2>6, <2>7
<1>14. ASSUME NEW p \in DOMAIN nodes'
       PROVE  /\ \A s \in DOMAIN nodes'[p].exacts : Said("exact", Append(p, s))'
              /\ \A s \in DOMAIN nodes'[p].prefixes : Said("prefix", Append(p, s))'
              /\ p # Empty /\ (nodes'[p].ctx # None \/ nodes'[p].type # None) => Said("node", p)'
  <2>1. p \in DOMAIN W /\ W[p] = IF p \in DOMAIN nodes THEN nodes[p] ELSE NewNode
    BY <1>3, <1>4, <1>14
  <2>2. /\ \A s \in DOMAIN W[p].exacts : Said("exact", Append(p, s))
        /\ \A s \in DOMAIN W[p].prefixes : Said("prefix", Append(p, s))
        /\ p # Empty /\ (W[p].ctx # None \/ W[p].type # None) => Said("node", p)
    <3>1. CASE p \in DOMAIN nodes
      BY <2>1, <3>1 DEF BuilderInv, TrieIsRules
    <3>2. CASE p \notin DOMAIN nodes
      BY <2>1, <3>2 DEF NewNode
    <3> QED
      BY <3>1, <3>2
  <2>3. ASSUME NEW s \in DOMAIN nodes'[p].exacts PROVE Said("exact", Append(p, s))'
    <3>1. s \in DOMAIN W[p].exacts \/ (Kind(e) = "exact" /\ p = Parent(e) /\ s = Leaf(e))
      <4>1. CASE Kind(e) = "exact" /\ p = Parent(e)
        <5>1. nodes'[p].exacts = Set(W[p].exacts, Leaf(e), value)
          BY <1>5, <2>1, <4>1
        <5> QED
          BY <2>3, <4>1, <5>1 DEF Set
      <4>2. CASE ~(Kind(e) = "exact" /\ p = Parent(e))
        BY <1>5, <2>1, <2>3, <4>2
      <4> QED
        BY <4>1, <4>2
    <3> QED
      BY <1>9, <1>10, <1>11, <2>2, <3>1
  <2>4. ASSUME NEW s \in DOMAIN nodes'[p].prefixes PROVE Said("prefix", Append(p, s))'
    <3>1. s \in DOMAIN W[p].prefixes \/ (Kind(e) = "prefix" /\ p = Parent(e) /\ s = Leaf(e))
      <4>1. CASE Kind(e) = "prefix" /\ p = Parent(e)
        <5>1. nodes'[p].prefixes = Set(W[p].prefixes, Leaf(e), value)
          BY <1>5, <2>1, <4>1
        <5> QED
          BY <2>4, <4>1, <5>1 DEF Set
      <4>2. CASE ~(Kind(e) = "prefix" /\ p = Parent(e))
        BY <1>5, <2>1, <2>4, <4>2
      <4> QED
        BY <4>1, <4>2
    <3> QED
      BY <1>9, <1>10, <1>11, <2>2, <3>1
  <2>5. ASSUME p # Empty, nodes'[p].ctx # None \/ nodes'[p].type # None PROVE Said("node", p)'
    <3>1. \/ W[p].ctx # None \/ W[p].type # None
          \/ Kind(e) = "node" /\ p = Parts(e.name)
      BY <1>5, <2>1, <2>5
    <3> QED
      BY <1>9, <1>10, <2>2, <2>5, <3>1
  <2> QED
    BY <2>3, <2>4, <2>5
<1>15. Empty \in DOMAIN nodes' /\ nodes'[Empty].ctx = {DefaultCtx} /\ nodes'[Empty].type = {DefaultType}
  BY <1>3, <1>4, <1>5, <1>11 DEF BuilderInv, TrieIsRules
<1>16. contexts' = {DefaultCtx} \cup {entries[j].ctx : j \in 1 .. next' - 1}
  <2>1. contexts = {DefaultCtx} \cup {entries[j].ctx : j \in 1 .. next - 1}
    BY DEF BuilderInv, TrieIsRules
  <2>2. 1 .. next' - 1 = (1 .. next - 1) \cup {next}
    BY <1>7
  <2> QED
    BY <2>1, <2>2
<1>17. types' = {DefaultType} \cup {entries[j].type : j \in 1 .. next' - 1}
  <2>1. types = {DefaultType} \cup {entries[j].type : j \in 1 .. next - 1}
    BY DEF BuilderInv, TrieIsRules
  <2>2. 1 .. next' - 1 = (1 .. next - 1) \cup {next}
    BY <1>7
  <2> QED
    BY <2>1, <2>2
<1>18. \A j \in 1 .. next' - 1 : InPlace(entries[j])'
  BY <1>1, <1>7, <1>12, <1>13
<1> QED
  BY <1>6, <1>7, <1>14, <1>15, <1>16, <1>17, <1>18 DEF TrieIsRules

(* Nothing is parsed yet. *)
LEMMA BuilderInitHolds == InfoOK /\ AInit => BuilderInv
<1> SUFFICES ASSUME InfoOK, AInit PROVE BuilderInv
  OBVIOUS
<1>1. ATypeOK
  BY DEF AInit, TInit, ATypeOK, NodesOK, InfoOK, BoundsOK
<1>2. TrieIsRules /\ FailsOnClashOnly
  BY DEF AInit, TInit, TrieIsRules, FailsOnClashOnly
<1> QED
  BY <1>1, <1>2 DEF BuilderInv

(* One more line is read. *)
LEMMA ParseInv ==
  ASSUME InfoOK, BuilderInv, NEW l \in Lines, ParseLine(l), UNCHANGED area
  PROVE  BuilderInv'
<1>1. /\ Len(entries) \in Nat /\ errors \in Nat /\ entries \in Seq(ParsedRules)
      /\ next \in 1 .. Len(entries) + 1 /\ NodesOK /\ phase = "parse" /\ phase' = "parse"
      /\ Len(entries) + errors < MaxLines
      /\ UNCHANGED <<next, nodes, contexts, types, area>> /\ (area = NoImage) = (phase # "built")
  BY LenProperties DEF BuilderInv, ATypeOK, ParseLine
<1>2. CASE LineOk(l) /\ entries' = Append(entries, EntryOf(l)) /\ UNCHANGED errors
  <2>1. EntryOf(l) \in ParsedRules
    BY <1>2 DEF ParsedRules
  <2>2. entries' \in Seq(ParsedRules) /\ Len(entries') = Len(entries) + 1
    BY <1>1, <1>2, <2>1, AppendProperties
  <2> QED
    BY <1>1, <1>2, <2>2 DEF BuilderInv, ATypeOK, NodesOK, TrieIsRules, FailsOnClashOnly, InfoOK, BoundsOK
<1>3. CASE errors' = errors + 1 /\ UNCHANGED entries
  BY <1>1, <1>3 DEF BuilderInv, ATypeOK, NodesOK, TrieIsRules, FailsOnClashOnly, InfoOK, BoundsOK
<1> QED
  BY <1>2, <1>3 DEF ParseLine

(* The root has the defaults, or they are refused. *)
LEMMA NewTrieInv ==
  ASSUME InfoOK, BuilderInv, NewTrie, UNCHANGED area
  PROVE  BuilderInv'
<1>1. /\ Len(entries) \in Nat /\ phase = "parse" /\ next' = 1 /\ UNCHANGED <<entries, errors, area>>
      /\ (area = NoImage) = (phase # "built")
      /\ entries \in Seq(ParsedRules) /\ errors \in Nat /\ Len(entries) + errors <= MaxLines
  BY LenProperties DEF BuilderInv, ATypeOK, NewTrie
<1>2. CASE /\ HasNul(DefaultCtx) \/ HasNul(DefaultType)
           /\ phase' = "failed" /\ UNCHANGED <<nodes, contexts, types>>
  <2>1. NodesOK'
    BY <1>2 DEF BuilderInv, ATypeOK, NodesOK
  <2>2. ATypeOK'
    BY <1>1, <1>2, <2>1 DEF ATypeOK
  <2> QED
    BY <1>1, <1>2, <2>2 DEF BuilderInv, TrieIsRules, FailsOnClashOnly
<1>3. CASE /\ phase' = "build"
           /\ nodes' = [p \in {Empty} |-> [NewNode EXCEPT !.ctx = {DefaultCtx}, !.type = {DefaultType}]]
           /\ contexts' = {DefaultCtx} /\ types' = {DefaultType}
  <2>1. /\ DOMAIN nodes' = {Empty}
        /\ nodes'[Empty] = [ctx |-> {DefaultCtx}, type |-> {DefaultType}, prefixes |-> <<>>, exacts |-> <<>>]
    BY <1>3 DEF NewNode
  <2>2. /\ nodes'[Empty].ctx = {DefaultCtx} /\ nodes'[Empty].type = {DefaultType}
        /\ nodes'[Empty].prefixes = <<>> /\ nodes'[Empty].exacts = <<>> /\ IsNode(nodes'[Empty])
    BY <2>1 DEF IsNode
  <2>3. Empty \in Seq(Strings) /\ Len(Empty) = 0
    BY DEF Empty
  <2>4. NodesOK'
    <3>1. Len(Empty) <= MaxSegments
      BY <2>3 DEF InfoOK, BoundsOK
    <3> QED
      BY <2>1, <2>2, <2>3, <3>1 DEF NodesOK
  <2>5. ATypeOK'
    BY <1>1, <1>3, <2>4 DEF ATypeOK
  <2>6. TrieIsRules'
    <3>1. 1 .. next' - 1 = {}
      BY <1>1
    <3> QED
      BY <1>3, <2>1, <2>2, <3>1 DEF TrieIsRules
  <2>7. FailsOnClashOnly'
    BY <1>1, <1>3 DEF FailsOnClashOnly
  <2> QED
    BY <2>5, <2>6, <2>7 DEF BuilderInv
<1> QED
  BY <1>2, <1>3 DEF NewTrie

(* The next rule is put in its place, or ends the build. *)
LEMMA AddInv ==
  ASSUME InfoOK, BuilderInv, AddToTrie, UNCHANGED area
  PROVE  BuilderInv'
<1>1. /\ Len(entries) \in Nat /\ next \in Nat \ {0} /\ next <= Len(entries) /\ phase = "build"
      /\ UNCHANGED <<entries, errors, area>> /\ (area = NoImage) = (phase # "built")
      /\ entries \in Seq(ParsedRules) /\ errors \in Nat /\ Len(entries) + errors <= MaxLines /\ NodesOK
      /\ entries[next] \in ParsedRules
  <2>1. next <= Len(entries)
    BY DEF AddToTrie
  <2> QED
    BY <2>1, EntriesFacts DEF BuilderInv, ATypeOK, AddToTrie, Intern
<1>2. \A i \in 1 .. next - 1 : ~Bad(i)
  BY <1>1, EntriesFacts
<1>3. CASE phase' = "failed" /\ Bad(next) /\ UNCHANGED <<next, nodes>>
  <2>1. ATypeOK'
    BY <1>1, <1>3 DEF ATypeOK, NodesOK
  <2>2. FailsOnClashOnly'
    BY <1>1, <1>2, <1>3 DEF FailsOnClashOnly, Bad
  <2> QED
    BY <1>3, <2>1, <2>2 DEF BuilderInv, TrieIsRules
<1>4. CASE /\ ValidEntry(entries[next]) /\ ~Duplicate(entries[next]) /\ nodes' = Placed(entries[next])
           /\ next' = next + 1 /\ UNCHANGED phase
           /\ contexts' = contexts \cup {entries[next].ctx} /\ types' = types \cup {entries[next].type}
  <2>1. NodesOK' /\ TrieIsRules'
    BY <1>1, <1>4, TrieStep
  <2>2. ATypeOK'
    BY <1>1, <1>4, <2>1 DEF ATypeOK
  <2>3. ~Bad(next)
    <3>1. ~Said(Kind(entries[next]), Parts(entries[next].name))
      BY <1>1, <1>4, DuplicateFacts
    <3> QED
      BY <1>4, <3>1 DEF Bad, Said, Clash
  <2>4. \A i \in 1 .. next' - 1 : ~Bad(i)
    BY <1>1, <1>2, <1>4, <2>3
  <2>5. FailsOnClashOnly'
    BY <1>1, <1>4, <2>4 DEF FailsOnClashOnly, Bad
  <2> QED
    BY <2>1, <2>2, <2>5 DEF BuilderInv
<1>5. CASE ~ValidEntry(entries[next]) /\ phase' = "failed" /\ UNCHANGED <<next, nodes>>
  BY <1>3, <1>5 DEF Bad
<1>6. CASE ValidEntry(entries[next]) /\ Duplicate(entries[next]) /\ phase' = "failed" /\ UNCHANGED <<next, nodes>>
  <2>1. Said(Kind(entries[next]), Parts(entries[next].name))
    BY <1>1, <1>6, DuplicateFacts
  <2>2. Bad(next)
    BY <2>1 DEF Bad, Said, Clash
  <2> QED
    BY <1>3, <1>6, <2>2
<1> QED
  BY <1>4, <1>5, <1>6 DEF AddToTrie, Intern

(* The trie and its rules stay as they are. *)
LEMMA TrieKept ==
  ASSUME TrieIsRules, UNCHANGED <<entries, next, nodes, contexts, types>>,
         phase' \in {"build", "built"} => phase \in {"build", "built"}
  PROVE  TrieIsRules'
<1>1. ASSUME NEW e PROVE InPlace(e)' <=> InPlace(e)
  BY DEF InPlace
<1>2. ASSUME NEW kind, NEW path PROVE Said(kind, path)' <=> Said(kind, path)
  BY DEF Said
<1> QED
  BY <1>1, <1>2 DEF TrieIsRules

(* The trie is serialised, once or again. *)
LEMMA SerializeInv ==
  ASSUME InfoOK, BuilderInv, NEW order, Serialize(order)
  PROVE  BuilderInv'
<1>1. /\ Len(entries) \in Nat /\ next = Len(entries) + 1 /\ phase \in {"build", "built"}
      /\ UNCHANGED <<entries, errors, next, nodes, contexts, types>>
      /\ entries \in Seq(ParsedRules) /\ errors \in Nat /\ Len(entries) + errors <= MaxLines /\ NodesOK
  BY EntriesFacts DEF BuilderInv, ATypeOK, Serialize
<1>2. \/ phase' = "built" /\ area' # NoImage
      \/ phase' = "failed" /\ area' = NoImage
  BY DEF Serialize, NoImage
<1>3. ATypeOK'
  BY <1>1, <1>2 DEF ATypeOK, NodesOK
<1>4. TrieIsRules'
  BY <1>1, TrieKept DEF BuilderInv
<1>5. FailsOnClashOnly'
  BY <1>1, <1>2 DEF BuilderInv, FailsOnClashOnly
<1> QED
  BY <1>3, <1>4, <1>5 DEF BuilderInv

LEMMA BuilderStepInv == InfoOK /\ BuilderInv /\ [ANext]_avars => BuilderInv'
<1> SUFFICES ASSUME InfoOK, BuilderInv, [ANext]_avars PROVE BuilderInv'
  OBVIOUS
<1>1. CASE UNCHANGED avars
  <2>1. UNCHANGED <<phase, entries, errors, next, nodes, contexts, types, area>>
    BY <1>1 DEF avars, tvars
  <2>2. ATypeOK' /\ FailsOnClashOnly'
    BY <2>1 DEF BuilderInv, ATypeOK, NodesOK, FailsOnClashOnly
  <2> QED
    BY <2>1, <2>2, TrieKept DEF BuilderInv
<1>2. CASE ANext
  BY <1>2, ParseInv, NewTrieInv, AddInv, SerializeInv DEF ANext
<1> QED
  BY <1>1, <1>2

(* Whatever rules a file has, in whatever order, the builder's trie holds what *)
(* they say and nothing else, and it refuses only defaults with a NUL, and a   *)
(* rule that is ill formed or repeats an earlier one (TrieBuilder::new,        *)
(* add_to_trie).                                                               *)
THEOREM TrieHoldsRules == ASpec => [](ATypeOK /\ TrieIsRules /\ FailsOnClashOnly)
<1>1. AInit => BuilderInv
  BY InfoParameters, BuilderInitHolds
<1>2. BuilderInv /\ [ANext]_avars => BuilderInv'
  BY InfoParameters, BuilderStepInv
<1>3. BuilderInv => ATypeOK /\ TrieIsRules /\ FailsOnClashOnly
  BY DEF BuilderInv
<1> QED
  BY <1>1, <1>2, <1>3, PTL DEF ASpec
===============================================================================
