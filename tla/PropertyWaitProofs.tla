--------------------------- MODULE PropertyWaitProofs ---------------------------
(***************************************************************************)
(* Proofs about PropertyWait for every set of waiters, in the writer's     *)
(* process or not, every number of updates and every bound on the slices.  *)
(***************************************************************************)
EXTENDS PropertyWait, TLAPS

(* A clean serial is even. *)
LEMMA DirtyFacts ==
  ASSUME NEW n \in Nat
  PROVE  ~ Dirty(2 * n) /\ Dirty(2 * n + 1)
BY DEF Dirty

(* The serials are in range wherever the writer stands. *)
LEMMA SerialFacts ==
  ASSUME SerialsAgree, gserial \in 0 .. MaxUpdates
  PROVE  serial \in Serials /\ gserial \in Serials
BY BoundsAssumption DEF SerialsAgree, Serials

(* Nobody waits and nothing was updated. *)
LEMMA InitHolds == Init => WaitInv
<1> SUFFICES ASSUME Init PROVE WaitInv
  OBVIOUS
<1>1. SerialsAgree
  BY BoundsAssumption DEF Init, SerialsAgree
<1>2. TypeOK
  BY BoundsAssumption DEF Init, TypeOK, Serials, Ops
<1> QED
  BY <1>1, <1>2 DEF Init, WaitInv, SliceLeft, NoLostWakeup, GuardExcludesUpdate

-----------------------------------------------------------------------------
(* The writer.                                                             *)

(* update is called, and gets the node's lock. *)
LEMMA RequestInv ==
  ASSUME WaitInv, Request \/ Lock
  PROVE  WaitInv'
<1> USE DEF WaitInv
<1>1. SerialsAgree'
  BY BoundsAssumption DEF TypeOK, SerialsAgree, Request, Lock, Step, words
<1>2. TypeOK'
  <2>1. gserial' \in 0 .. MaxUpdates /\ serial' \in Serials
    BY <1>1, BoundsAssumption DEF TypeOK, SerialsAgree, Serials, Request, Lock, words
  <2> QED
    BY <2>1 DEF TypeOK, Request, Lock, Step, calls
<1>3. SliceLeft'
  BY DEF TypeOK, SliceLeft, Request, Lock, Step, calls
<1>4. NoLostWakeup'
  BY DEF TypeOK, SerialsAgree, NoLostWakeup, Word, Request, Lock, Step, calls, words
<1>5. GuardExcludesUpdate'
  BY DirtyFacts DEF TypeOK, SerialsAgree, GuardExcludesUpdate, Request, Lock, Step, words
<1> QED
  BY <1>1, <1>2, <1>3, <1>4, <1>5

(* The dirty and the clean serial. *)
LEMMA StoreInv ==
  ASSUME WaitInv, StoreDirty \/ StoreClean
  PROVE  WaitInv'
<1> USE DEF WaitInv
<1>1. SerialsAgree'
  BY BoundsAssumption DEF TypeOK, SerialsAgree, StoreDirty, StoreClean, Step, words
<1>2. TypeOK'
  <2>1. gserial' \in 0 .. MaxUpdates /\ serial' \in Serials
    BY <1>1, BoundsAssumption DEF TypeOK, SerialsAgree, Serials, StoreDirty, StoreClean, words
  <2> QED
    BY <2>1 DEF TypeOK, StoreDirty, StoreClean, Step, calls
<1>3. SliceLeft'
  BY DEF TypeOK, SliceLeft, StoreDirty, StoreClean, Step, calls
<1>4. NoLostWakeup'
  BY DEF TypeOK, SerialsAgree, NoLostWakeup, Word, StoreDirty, StoreClean, Step, calls, words
<1>5. GuardExcludesUpdate'
  BY DirtyFacts DEF TypeOK, SerialsAgree, GuardExcludesUpdate, StoreDirty, StoreClean, Step, words
<1> QED
  BY <1>1, <1>2, <1>3, <1>4, <1>5

(* The wake on the property's word. *)
LEMMA WakePropInv ==
  ASSUME WaitInv, WakeProp
  PROVE  WaitInv'
<1> USE DEF WaitInv
<1>1. SerialsAgree'
  BY BoundsAssumption DEF TypeOK, SerialsAgree, WakeProp, FutexWake, Sleepers, Step, words
<1>2. TypeOK'
  <2>1. gserial' \in 0 .. MaxUpdates /\ serial' \in Serials
    BY <1>1, BoundsAssumption DEF TypeOK, SerialsAgree, Serials, WakeProp, FutexWake, Sleepers, words
  <2> QED
    BY <2>1 DEF TypeOK, WakeProp, FutexWake, Sleepers, Step, calls
<1>3. SliceLeft'
  BY DEF TypeOK, SliceLeft, WakeProp, FutexWake, Sleepers, Step, calls
<1>4. NoLostWakeup'
  <2> SUFFICES ASSUME alive', NEW x \in Waiters, x \notin missed', pc'[x] = "sleep", Word(x)' # old'[x]
               PROVE  FALSE
    BY DEF NoLostWakeup
  <2>1. pc[x] = "sleep" /\ x \notin missed /\ op[x] = "any"
    BY DEF TypeOK, Ops, WakeProp, FutexWake, Sleepers
  <2>2. alive /\ wpc = "wake" /\ Word(x) # old[x]
    BY DEF WakeProp, Step, Word, calls, words
  <2> QED
    BY <2>1, <2>2 DEF NoLostWakeup
<1>5. GuardExcludesUpdate'
  BY DirtyFacts DEF TypeOK, SerialsAgree, GuardExcludesUpdate, WakeProp, FutexWake, Sleepers, Step, words
<1> QED
  BY <1>1, <1>2, <1>3, <1>4, <1>5

(* The global serial. *)
LEMMA BumpInv ==
  ASSUME WaitInv, Bump
  PROVE  WaitInv'
<1> USE DEF WaitInv
<1>1. SerialsAgree'
  BY BoundsAssumption DEF TypeOK, SerialsAgree, Bump, Step, words
<1>2. TypeOK'
  <2>1. gserial' \in 0 .. MaxUpdates /\ serial' \in Serials
    BY <1>1, BoundsAssumption DEF TypeOK, SerialsAgree, Serials, Bump, words
  <2> QED
    BY <2>1 DEF TypeOK, Bump, Step, calls
<1>3. SliceLeft'
  BY DEF TypeOK, SliceLeft, Bump, Step, calls
<1>4. NoLostWakeup'
  BY DEF TypeOK, SerialsAgree, NoLostWakeup, Word, Bump, Step, calls, words
<1>5. GuardExcludesUpdate'
  BY DirtyFacts DEF TypeOK, SerialsAgree, GuardExcludesUpdate, Bump, Step, words
<1> QED
  BY <1>1, <1>2, <1>3, <1>4, <1>5

(* The wake on the global serial. *)
LEMMA WakeGlobalInv ==
  ASSUME WaitInv, WakeGlobal
  PROVE  WaitInv'
<1> USE DEF WaitInv
<1>1. SerialsAgree'
  BY BoundsAssumption DEF TypeOK, SerialsAgree, WakeGlobal, FutexWake, Sleepers, Step, words
<1>2. TypeOK'
  <2>1. gserial' \in 0 .. MaxUpdates /\ serial' \in Serials
    BY <1>1, BoundsAssumption DEF TypeOK, SerialsAgree, Serials, WakeGlobal, FutexWake, Sleepers, words
  <2> QED
    BY <2>1 DEF TypeOK, WakeGlobal, FutexWake, Sleepers, Step, calls
<1>3. SliceLeft'
  BY DEF TypeOK, SliceLeft, WakeGlobal, FutexWake, Sleepers, Step, calls
<1>4. NoLostWakeup'
  BY DEF TypeOK, SerialsAgree, NoLostWakeup, Word, WakeGlobal, FutexWake, Sleepers, Step, calls, words
<1>5. GuardExcludesUpdate'
  BY DirtyFacts DEF TypeOK, SerialsAgree, GuardExcludesUpdate, WakeGlobal, FutexWake, Sleepers, Step, words
<1> QED
  BY <1>1, <1>2, <1>3, <1>4, <1>5

(* The writer's process dies. *)
LEMMA CrashInv ==
  ASSUME WaitInv, Crash
  PROVE  WaitInv'
<1> USE DEF WaitInv
<1>1. SerialsAgree'
  BY BoundsAssumption DEF TypeOK, SerialsAgree, Crash, Step, words
<1>2. TypeOK'
  <2>1. gserial' \in 0 .. MaxUpdates /\ serial' \in Serials
    BY <1>1, BoundsAssumption DEF TypeOK, SerialsAgree, Serials, Crash, words
  <2> QED
    BY <2>1 DEF TypeOK, Crash, Step, calls
<1>3. SliceLeft'
  BY DEF TypeOK, SliceLeft, Crash, Step, calls
<1>4. NoLostWakeup'
  BY DEF TypeOK, SerialsAgree, NoLostWakeup, Word, Crash, Step, calls, words
<1>5. GuardExcludesUpdate'
  BY DirtyFacts DEF TypeOK, SerialsAgree, GuardExcludesUpdate, Crash, Step, words
<1> QED
  BY <1>1, <1>2, <1>3, <1>4, <1>5

-----------------------------------------------------------------------------
(* The waiters leave the words and the writer alone.                       *)

(* A call. *)
LEMMA CallInv ==
  ASSUME WaitInv, NEW x \in Waiters, Calls(x)
  PROVE  WaitInv'
<1> USE DEF WaitInv
<1>1. UNCHANGED <<words, writer>>
  BY DEF Calls, Call, Goto
<1>2. TypeOK'
  <2>1. serial \in Serials /\ gserial \in Serials
    BY SerialFacts DEF TypeOK
  <2> QED
    <3>1. PICK o \in Ops, s \in Serials \cup {NoSerial}, t \in BOOLEAN : Call(x, o, s, t)
      <4>1. CASE Call(x, "serial", NoSerial, FALSE)
        BY <4>1 DEF Ops
      <4>2. CASE ~ Call(x, "serial", NoSerial, FALSE)
        <5>1. PICK o \in {"prop", "any"}, t \in BOOLEAN :
                \E s \in {NoSerial} \cup 0 .. (IF o = "any" THEN gserial ELSE serial) : Call(x, o, s, t)
          BY <4>2 DEF Calls
        <5>2. 0 .. (IF o = "any" THEN gserial ELSE serial) \subseteq Serials
          BY <2>1, BoundsAssumption DEF Serials
        <5> QED
          BY <5>1, <5>2 DEF Ops
      <4> QED
        BY <4>1, <4>2
    <3> QED
      BY <1>1, <3>1 DEF TypeOK, Call, Goto, words, writer
<1>3. SerialsAgree'
  BY <1>1 DEF SerialsAgree, words, writer
<1>4. SliceLeft'
  BY BoundsAssumption DEF TypeOK, SliceLeft, calls, Calls, Call, Goto
<1>5. NoLostWakeup'
  BY <1>1 DEF TypeOK, NoLostWakeup, Word, words, writer, calls, Calls, Call, Goto
<1>6. GuardExcludesUpdate'
  BY <1>1, DirtyFacts DEF TypeOK, SerialsAgree, GuardExcludesUpdate, words, writer, Calls, Call, Goto
<1> QED
  BY <1>2, <1>3, <1>4, <1>5, <1>6

(* A slice begins. *)
LEMMA LockSliceInv ==
  ASSUME WaitInv, NEW x \in Waiters, LockSlice(x)
  PROVE  WaitInv'
<1> USE DEF WaitInv
<1>1. UNCHANGED <<words, writer>>
  BY DEF LockSlice, Goto
<1>2. TypeOK'
  <2>1. serial \in Serials /\ gserial \in Serials
    BY SerialFacts DEF TypeOK
  <2> QED
    BY <1>1, <2>1, BoundsAssumption DEF TypeOK, SliceLeft, words, writer, calls, Ops, LockSlice, Goto
<1>3. SerialsAgree'
  BY <1>1 DEF SerialsAgree, words, writer
<1>4. SliceLeft'
  BY BoundsAssumption DEF TypeOK, SliceLeft, calls, LockSlice, Goto
<1>5. NoLostWakeup'
  BY <1>1 DEF TypeOK, NoLostWakeup, Word, words, writer, calls, LockSlice, Goto
<1>6. GuardExcludesUpdate'
  BY <1>1, DirtyFacts DEF TypeOK, SerialsAgree, GuardExcludesUpdate, words, writer, LockSlice, Goto
<1> QED
  BY <1>2, <1>3, <1>4, <1>5, <1>6

(* The caller's deadline. *)
LEMMA DeadlineInv ==
  ASSUME WaitInv, NEW x \in Waiters, DeadlineExpires(x)
  PROVE  WaitInv'
<1> USE DEF WaitInv
<1>1. UNCHANGED <<words, writer>>
  BY DEF DeadlineExpires, Return, Goto
<1>2. TypeOK'
  <2>1. serial \in Serials /\ gserial \in Serials
    BY SerialFacts DEF TypeOK
  <2> QED
    BY <1>1, <2>1, BoundsAssumption DEF TypeOK, SliceLeft, words, writer, calls, Ops, DeadlineExpires, Return, Goto
<1>3. SerialsAgree'
  BY <1>1 DEF SerialsAgree, words, writer
<1>4. SliceLeft'
  BY BoundsAssumption DEF TypeOK, SliceLeft, calls, DeadlineExpires, Return, Goto
<1>5. NoLostWakeup'
  BY <1>1 DEF TypeOK, NoLostWakeup, Word, words, writer, calls, DeadlineExpires, Return, Goto
<1>6. GuardExcludesUpdate'
  BY <1>1, DirtyFacts DEF TypeOK, SerialsAgree, GuardExcludesUpdate, words, writer, DeadlineExpires, Return, Goto
<1> QED
  BY <1>2, <1>3, <1>4, <1>5, <1>6

(* The loads of wait_any and of wait. *)
LEMMA LoadInv ==
  ASSUME WaitInv, NEW x \in Waiters, LoadAny(x) \/ LoadOld(x)
  PROVE  WaitInv'
<1> USE DEF WaitInv
<1>1. UNCHANGED <<words, writer>>
  BY DEF LoadAny, LoadOld, Return, Goto
<1>2. TypeOK'
  <2>1. serial \in Serials /\ gserial \in Serials
    BY SerialFacts DEF TypeOK
  <2> QED
    BY <1>1, <2>1, BoundsAssumption DEF TypeOK, SliceLeft, words, writer, calls, Ops, LoadAny, LoadOld, Return, Goto
<1>3. SerialsAgree'
  BY <1>1 DEF SerialsAgree, words, writer
<1>4. SliceLeft'
  BY BoundsAssumption DEF TypeOK, SliceLeft, calls, LoadAny, LoadOld, Return, Goto
<1>5. NoLostWakeup'
  BY <1>1 DEF TypeOK, NoLostWakeup, Word, words, writer, calls, LoadAny, LoadOld, Return, Goto
<1>6. GuardExcludesUpdate'
  BY <1>1, DirtyFacts DEF TypeOK, SerialsAgree, GuardExcludesUpdate, words, writer, LoadAny, LoadOld, Return, Goto
<1> QED
  BY <1>2, <1>3, <1>4, <1>5, <1>6

(* The re-check of wait. *)
LEMMA CheckInv ==
  ASSUME WaitInv, NEW x \in Waiters, CheckCurrent(x)
  PROVE  WaitInv'
<1> USE DEF WaitInv
<1>1. UNCHANGED <<words, writer>>
  BY DEF CheckCurrent, Return, Goto
<1>2. TypeOK'
  <2>1. serial \in Serials /\ gserial \in Serials
    BY SerialFacts DEF TypeOK
  <2> QED
    BY <1>1, <2>1, BoundsAssumption DEF TypeOK, SliceLeft, words, writer, calls, Ops, CheckCurrent, Return, Goto
<1>3. SerialsAgree'
  BY <1>1 DEF SerialsAgree, words, writer
<1>4. SliceLeft'
  BY BoundsAssumption DEF TypeOK, SliceLeft, calls, CheckCurrent, Return, Goto
<1>5. NoLostWakeup'
  BY <1>1 DEF TypeOK, NoLostWakeup, Word, words, writer, calls, CheckCurrent, Return, Goto
<1>6. GuardExcludesUpdate'
  BY <1>1, DirtyFacts DEF TypeOK, SerialsAgree, GuardExcludesUpdate, words, writer, CheckCurrent, Return, Goto
<1> QED
  BY <1>2, <1>3, <1>4, <1>5, <1>6

(* The load of serial(). *)
LEMMA LoadSerialInv ==
  ASSUME WaitInv, NEW x \in Waiters, LoadSerial(x)
  PROVE  WaitInv'
<1> USE DEF WaitInv
<1>1. UNCHANGED <<words, writer>>
  BY DEF LoadSerial, Return, Goto
<1>2. TypeOK'
  <2>1. serial \in Serials /\ gserial \in Serials
    BY SerialFacts DEF TypeOK
  <2> QED
    BY <1>1, <2>1, BoundsAssumption DEF TypeOK, SliceLeft, words, writer, calls, Ops, LoadSerial, Return, Goto
<1>3. SerialsAgree'
  BY <1>1 DEF SerialsAgree, words, writer
<1>4. SliceLeft'
  BY BoundsAssumption DEF TypeOK, SliceLeft, calls, LoadSerial, Return, Goto
<1>5. NoLostWakeup'
  BY <1>1 DEF TypeOK, NoLostWakeup, Word, words, writer, calls, LoadSerial, Return, Goto
<1>6. GuardExcludesUpdate'
  BY <1>1, DirtyFacts DEF TypeOK, SerialsAgree, GuardExcludesUpdate, words, writer, LoadSerial, Return, Goto
<1> QED
  BY <1>2, <1>3, <1>4, <1>5, <1>6

(* FUTEX_WAIT compares before it sleeps, and may be interrupted. *)
LEMMA FutexWaitInv ==
  ASSUME WaitInv, NEW x \in Waiters, FutexWait(x) \/ Interrupt(x)
  PROVE  WaitInv'
<1> USE DEF WaitInv
<1>1. UNCHANGED <<words, writer>>
  BY DEF FutexWait, Interrupt, Goto
<1>2. TypeOK'
  <2>1. serial \in Serials /\ gserial \in Serials
    BY SerialFacts DEF TypeOK
  <2> QED
    BY <1>1, <2>1, BoundsAssumption DEF TypeOK, SliceLeft, words, writer, calls, Ops, FutexWait, Interrupt, Goto
<1>3. SerialsAgree'
  BY <1>1 DEF SerialsAgree, words, writer
<1>4. SliceLeft'
  BY BoundsAssumption DEF TypeOK, SliceLeft, calls, FutexWait, Interrupt, Goto
<1>5. NoLostWakeup'
  BY <1>1 DEF TypeOK, NoLostWakeup, Word, words, writer, calls, FutexWait, Interrupt, Goto
<1>6. GuardExcludesUpdate'
  BY <1>1, DirtyFacts DEF TypeOK, SerialsAgree, GuardExcludesUpdate, words, writer, FutexWait, Interrupt, Goto
<1> QED
  BY <1>2, <1>3, <1>4, <1>5, <1>6

(* The reload after a wake. *)
LEMMA ReloadInv ==
  ASSUME WaitInv, NEW x \in Waiters, Reload(x)
  PROVE  WaitInv'
<1> USE DEF WaitInv
<1>1. UNCHANGED <<words, writer>>
  BY DEF Reload, Return, Goto
<1>2. TypeOK'
  <2>1. serial \in Serials /\ gserial \in Serials
    BY SerialFacts DEF TypeOK
  <2> QED
    <3>1. CASE Word(x) # old[x] /\ Return(x, Word(x)) /\ UNCHANGED <<op, timed>>
      <4>1. Word(x) \in Serials
        BY <2>1 DEF Word
      <4> QED
        BY <1>1, <3>1, <4>1, BoundsAssumption DEF TypeOK, Return, Goto, words, writer
    <3>2. CASE /\ \E to \in {"top", "futex"} : Goto(x, to)
               /\ holders' \subseteq holders /\ UNCHANGED <<op, timed, old, spent, ret>>
      BY <1>1, <3>2 DEF TypeOK, Goto, words, writer
    <3> QED
      BY <3>1, <3>2 DEF Reload, calls
<1>3. SerialsAgree'
  BY <1>1 DEF SerialsAgree, words, writer
<1>4. SliceLeft'
  BY BoundsAssumption DEF TypeOK, SliceLeft, calls, Reload, Return, Goto
<1>5. NoLostWakeup'
  BY <1>1 DEF TypeOK, NoLostWakeup, Word, words, writer, calls, Reload, Return, Goto
<1>6. GuardExcludesUpdate'
  BY <1>1, DirtyFacts DEF TypeOK, SerialsAgree, GuardExcludesUpdate, words, writer, Reload, Return, Goto
<1> QED
  BY <1>2, <1>3, <1>4, <1>5, <1>6

(* A slice ends. *)
LEMMA SliceExpiresInv ==
  ASSUME WaitInv, NEW x \in Waiters, SliceExpires(x)
  PROVE  WaitInv'
<1> USE DEF WaitInv
<1>1. UNCHANGED <<words, writer>>
  BY DEF SliceExpires, Goto
<1>2. TypeOK'
  <2>1. serial \in Serials /\ gserial \in Serials
    BY SerialFacts DEF TypeOK
  <2> QED
    BY <1>1, <2>1, BoundsAssumption DEF TypeOK, SliceLeft, words, writer, calls, Ops, SliceExpires, Goto
<1>3. SerialsAgree'
  BY <1>1 DEF SerialsAgree, words, writer
<1>4. SliceLeft'
  BY BoundsAssumption DEF TypeOK, SliceLeft, calls, SliceExpires, Goto
<1>5. NoLostWakeup'
  BY <1>1 DEF TypeOK, NoLostWakeup, Word, words, writer, calls, SliceExpires, Goto
<1>6. GuardExcludesUpdate'
  BY <1>1, DirtyFacts DEF TypeOK, SerialsAgree, GuardExcludesUpdate, words, writer, SliceExpires, Goto
<1> QED
  BY <1>2, <1>3, <1>4, <1>5, <1>6

(* FUTEX_WAIT fails. *)
LEMMA FutexFailsInv ==
  ASSUME WaitInv, NEW x \in Waiters, FutexFails(x)
  PROVE  WaitInv'
<1> USE DEF WaitInv
<1>1. UNCHANGED <<words, writer>>
  BY DEF FutexFails, Return, Goto
<1>2. TypeOK'
  <2>1. serial \in Serials /\ gserial \in Serials
    BY SerialFacts DEF TypeOK
  <2> QED
    BY <1>1, <2>1, BoundsAssumption DEF TypeOK, SliceLeft, words, writer, calls, Ops, FutexFails, Return, Goto
<1>3. SerialsAgree'
  BY <1>1 DEF SerialsAgree, words, writer
<1>4. SliceLeft'
  BY BoundsAssumption DEF TypeOK, SliceLeft, calls, FutexFails, Return, Goto
<1>5. NoLostWakeup'
  BY <1>1 DEF TypeOK, NoLostWakeup, Word, words, writer, calls, FutexFails, Return, Goto
<1>6. GuardExcludesUpdate'
  BY <1>1, DirtyFacts DEF TypeOK, SerialsAgree, GuardExcludesUpdate, words, writer, FutexFails, Return, Goto
<1> QED
  BY <1>2, <1>3, <1>4, <1>5, <1>6

-----------------------------------------------------------------------------
(* Every step keeps the invariant. *)
LEMMA StepInv == WaitInv /\ [Next]_vars => WaitInv'
<1> SUFFICES ASSUME WaitInv, [Next]_vars PROVE WaitInv'
  OBVIOUS
<1>1. CASE UNCHANGED vars
  BY <1>1 DEF vars, words, writer, calls, WaitInv, TypeOK, SerialsAgree, SliceLeft, NoLostWakeup,
     GuardExcludesUpdate, Word
<1>2. CASE WriterStep \/ Crash
  BY <1>2, RequestInv, StoreInv, WakePropInv, BumpInv, WakeGlobalInv, CrashInv DEF WriterStep
<1>3. ASSUME NEW x \in Waiters, Waiter(x) PROVE WaitInv'
  BY <1>3, CallInv, LockSliceInv, DeadlineInv, LoadInv, CheckInv, LoadSerialInv, FutexWaitInv,
     ReloadInv, SliceExpiresInv, FutexFailsInv DEF Waiter, Proceed
<1> QED
  BY <1>1, <1>2, <1>3 DEF Next

(* No waiter sleeps through a change that is not about to be announced, and  *)
(* no update starts under a reader's guard, for any number of waiters and    *)
(* updates (futex_wait, update, serial).                                     *)
THEOREM WaitInvariant == Spec => []WaitInv
<1> QED
  BY InitHolds, StepInv, PTL DEF Spec
=============================================================================
