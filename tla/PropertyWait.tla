---------------------------- MODULE PropertyWait ----------------------------
(***************************************************************************)
(* Waiting for a change (system_properties.rs: wait, wait_any, serial and  *)
(* futex_wait) against the writer that updates one property and bumps the  *)
(* global serial (update).  A serial is a number whose low bit is the      *)
(* dirty bit.  Waiters in Local share the writer's process and with it the *)
(* RwLock of the context node; the others are in processes of their own,   *)
(* where nobody contends for that lock.                                    *)
(***************************************************************************)
EXTENDS Integers, FiniteSets

CONSTANTS Waiters,      \* threads that wait
          Local,        \* those in the writer's process
          NoSerial,     \* Option::None
          MaxUpdates,   \* bound: updates in one behaviour
          MaxSlices     \* DIRTY_WAIT_TOTAL / DIRTY_SLICE

ASSUME WaitersAssumption == Local \subseteq Waiters
ASSUME BoundsAssumption ==
  MaxUpdates \in Nat /\ MaxSlices \in Nat /\ NoSerial \notin Nat

VARIABLES serial, gserial,     \* the two futex words
          wpc, alive,          \* the writer
          holders,             \* local waiters that hold the node's read lock
          pc, op, old, timed,  \* the waiters: where, which call, its arguments
          missed,              \* those asleep through a wake that failed
          spent,               \* slices serial() has waited
          ret                  \* what the last call returned

words  == <<serial, gserial>>
writer == <<wpc, alive>>
calls  == <<op, timed>>
vars   == <<words, writer, holders, pc, missed, calls, old, spent, ret>>

Ops     == {"prop", "any", "serial"}
Serials == 0 .. (2 * MaxUpdates)
Word(x) == IF op[x] = "any" THEN gserial ELSE serial
Dirty(s) == s % 2 = 1

Sleepers(o) == {x \in Waiters : pc[x] = "sleep" /\ op[x] \in o}

(* FUTEX_WAKE of everybody who sleeps on the word.  An error of futex_wake is *)
(* logged and the update goes on.                                            *)
FutexWake(o) ==
  \/ /\ pc' = [x \in Waiters |-> IF x \in Sleepers(o) THEN "awake" ELSE pc[x]]
     /\ missed' = missed \ Sleepers(o)
  \/ /\ Sleepers(o) # {} /\ UNCHANGED pc
     /\ missed' = missed \cup Sleepers(o)

Init ==
  /\ serial = 0 /\ gserial = 0
  /\ wpc = "idle" /\ alive = TRUE
  /\ holders = {} /\ missed = {}
  /\ pc = [x \in Waiters |-> "idle"]
  /\ op = [x \in Waiters |-> "prop"]
  /\ old = [x \in Waiters |-> NoSerial]
  /\ timed = [x \in Waiters |-> FALSE]
  /\ spent = [x \in Waiters |-> 0]
  /\ ret = [x \in Waiters |-> NoSerial]

-----------------------------------------------------------------------------
(* The writer: update, with the node's write lock from Lock to WakeGlobal. *)

Step(from, to) == alive /\ wpc = from /\ wpc' = to /\ UNCHANGED alive

Request ==
  /\ gserial < MaxUpdates
  /\ Step("idle", "want")
  /\ UNCHANGED <<words, holders, pc, missed, calls, old, spent, ret>>

Lock ==
  /\ holders = {}
  /\ Step("want", "dirty")
  /\ UNCHANGED <<words, holders, pc, missed, calls, old, spent, ret>>

StoreDirty ==
  /\ Step("dirty", "clean")
  /\ serial' = serial + 1
  /\ UNCHANGED <<gserial, holders, pc, missed, calls, old, spent, ret>>

StoreClean ==
  /\ Step("clean", "wake")
  /\ serial' = serial + 1
  /\ UNCHANGED <<gserial, holders, pc, missed, calls, old, spent, ret>>

WakeProp ==
  /\ Step("wake", "bump")
  /\ FutexWake({"prop", "serial"})
  /\ UNCHANGED <<words, holders, calls, old, spent, ret>>

Bump ==
  /\ Step("bump", "gwake")
  /\ gserial' = gserial + 1
  /\ UNCHANGED <<serial, holders, pc, missed, calls, old, spent, ret>>

(* Mutant: FUTEX_WAKE on the property's word instead of the global one. *)
WakeGlobalWrongWord ==
  /\ Step("gwake", "idle")
  /\ FutexWake({"prop", "serial"})
  /\ UNCHANGED <<words, holders, calls, old, spent, ret>>

WakeGlobal ==
  /\ Step("gwake", "idle")
  /\ FutexWake({"any"})
  /\ UNCHANGED <<words, holders, calls, old, spent, ret>>

(* The writer's process dies, and the waiters in it. *)
Crash ==
  /\ alive
  /\ alive' = FALSE
  /\ holders' = {} /\ missed' = missed \ Local
  /\ pc' = [x \in Waiters |-> IF x \in Local THEN "dead" ELSE pc[x]]
  /\ UNCHANGED <<words, wpc, calls, old, spent, ret>>

-----------------------------------------------------------------------------
(* The waiters.                                                            *)

Goto(x, to) == pc' = [pc EXCEPT ![x] = to] /\ missed' = missed \ {x}

Return(x, v) ==
  /\ Goto(x, "idle")
  /\ ret' = [ret EXCEPT ![x] = v]
  /\ holders' = holders \ {x}
  /\ old' = [old EXCEPT ![x] = NoSerial]
  /\ spent' = [spent EXCEPT ![x] = 0]

(* wait(index, old_serial, timeout), wait(None, ...), serial(index): the    *)
(* caller passes no serial, or one it saw before.                           *)
Call(x, o, s, t) ==
  /\ pc[x] = "idle"
  /\ Goto(x, IF o = "any" THEN "load" ELSE "top")
  /\ op' = [op EXCEPT ![x] = o]
  /\ old' = [old EXCEPT ![x] = s]
  /\ timed' = [timed EXCEPT ![x] = t]
  /\ ret' = [ret EXCEPT ![x] = NoSerial]
  /\ UNCHANGED <<words, writer, holders, spent>>

Calls(x) ==
  \/ \E o \in {"prop", "any"}, t \in BOOLEAN :
       \E s \in {NoSerial} \cup 0 .. (IF o = "any" THEN gserial ELSE serial) : Call(x, o, s, t)
  \/ Call(x, "serial", NoSerial, FALSE)

(* The top of the sliced loop: take the node's read lock for one slice.  The *)
(* RwLock lets no new reader in while a writer waits or holds it.           *)
LockSlice(x) ==
  /\ pc[x] = "top"
  /\ x \in Local => wpc = "idle"
  /\ Goto(x, "load")
  /\ holders' = holders \cup ({x} \cap Local)
  /\ UNCHANGED <<words, writer, calls, old, spent, ret>>

(* The caller's deadline: checked before the lock is taken again, or, on   *)
(* the global serial, inside futex_wait.                                   *)
DeadlineExpires(x) ==
  /\ timed[x]
  /\ pc[x] \in (IF op[x] = "any" THEN {"futex", "sleep"} ELSE {"top"})
  /\ Return(x, NoSerial)
  /\ UNCHANGED <<words, writer, calls>>

(* The loads before the futex. *)
LoadAny(x) ==
  /\ pc[x] = "load" /\ op[x] = "any"
  /\ \/ /\ old[x] \notin {NoSerial, gserial}
        /\ Return(x, gserial)
     \/ /\ old[x] \in {NoSerial, gserial}
        /\ Goto(x, "futex")
        /\ old' = [old EXCEPT ![x] = gserial]
        /\ UNCHANGED <<holders, spent, ret>>
  /\ UNCHANGED <<words, writer, calls>>

LoadOld(x) ==
  /\ pc[x] = "load" /\ op[x] = "prop"
  /\ Goto(x, "check")
  /\ old' = [old EXCEPT ![x] = IF @ = NoSerial THEN serial ELSE @]
  /\ UNCHANGED <<words, writer, holders, calls, spent, ret>>

(* Mutant: the slice sleeps again without the re-check. *)
CheckNothing(x) ==
  /\ pc[x] = "check" /\ Goto(x, "sleep")
  /\ UNCHANGED <<words, writer, calls, holders, old, spent, ret>>

(* The re-check at every re-acquisition of the lock. *)
CheckCurrent(x) ==
  /\ pc[x] = "check"
  /\ \/ serial # old[x] /\ Return(x, serial)
     \/ serial = old[x] /\ Goto(x, "futex") /\ UNCHANGED <<holders, old, spent, ret>>
  /\ UNCHANGED <<words, writer, calls>>

(* serial(): a clean serial is the answer, a dirty one is waited out until *)
(* the total bound is spent.                                               *)
LoadSerial(x) ==
  /\ pc[x] = "load" /\ op[x] = "serial"
  /\ \/ /\ ~ Dirty(serial) \/ spent[x] = MaxSlices
        /\ Return(x, serial)
     \/ /\ Dirty(serial) /\ spent[x] < MaxSlices
        /\ Goto(x, "futex")
        /\ old' = [old EXCEPT ![x] = serial]
        /\ UNCHANGED <<holders, spent, ret>>
  /\ UNCHANGED <<words, writer, calls>>

(* Mutant: sleep without the comparison. *)
FutexWaitBlind(x) ==
  /\ pc[x] = "futex"
  /\ Goto(x, "sleep")
  /\ UNCHANGED <<words, writer, holders, calls, old, spent, ret>>

(* FUTEX_WAIT compares and sleeps in one step; EAGAIN if the word moved. *)
FutexWait(x) ==
  /\ pc[x] = "futex"
  /\ Goto(x, IF Word(x) = old[x] THEN "sleep" ELSE "awake")
  /\ UNCHANGED <<words, writer, holders, calls, old, spent, ret>>

(* EINTR, or a wake nobody meant: back to the top of futex_wait's loop. *)
Interrupt(x) ==
  /\ pc[x] = "sleep"
  /\ Goto(x, "futex")
  /\ UNCHANGED <<words, writer, holders, calls, old, spent, ret>>

(* The reload after a wake or EAGAIN: Changed, or round again. *)
Reload(x) ==
  /\ pc[x] = "awake"
  /\ \/ Word(x) = old[x] /\ Goto(x, "futex") /\ UNCHANGED <<holders, old, spent, ret>>
     \/ Word(x) # old[x] /\ ~ (op[x] = "serial" /\ Dirty(Word(x))) /\ Return(x, Word(x))
     \/ Word(x) # old[x] /\ op[x] = "serial" /\ Dirty(Word(x)) /\ Goto(x, "top")
        /\ holders' = holders \ {x} /\ UNCHANGED <<old, spent, ret>>
  /\ UNCHANGED <<words, writer, calls>>

(* Mutant: the slice goes round with the lock in hand and its time unspent. *)
SliceExpiresLocked(x) ==
  /\ op[x] # "any" /\ pc[x] \in {"futex", "sleep"}
  /\ Goto(x, "load")
  /\ UNCHANGED <<words, writer, calls, holders, spent, old, ret>>

(* The slice's time is over: drop the lock and go round. *)
SliceExpires(x) ==
  /\ op[x] # "any" /\ pc[x] \in {"futex", "sleep"}
  /\ Goto(x, "top")
  /\ holders' = holders \ {x}
  /\ spent' = [spent EXCEPT ![x] = IF op[x] = "serial" THEN @ + 1 ELSE @]
  /\ UNCHANGED <<words, writer, calls, old, ret>>

(* FUTEX_WAIT fails for another reason. *)
FutexFails(x) ==
  /\ pc[x] = "futex"
  /\ Return(x, IF op[x] = "serial" THEN serial ELSE NoSerial)
  /\ UNCHANGED <<words, writer, calls>>

-----------------------------------------------------------------------------
WriterStep ==
  Request \/ Lock \/ StoreDirty \/ StoreClean \/ WakeProp \/ Bump \/ WakeGlobal

Proceed(x) ==
  \/ LockSlice(x) \/ LoadAny(x) \/ LoadOld(x) \/ CheckCurrent(x) \/ LoadSerial(x)
  \/ FutexWait(x) \/ Reload(x)

Waiter(x) ==
  Calls(x) \/ Proceed(x) \/ DeadlineExpires(x) \/ Interrupt(x) \/ SliceExpires(x) \/ FutexFails(x)

Next == WriterStep \/ Crash \/ \E x \in Waiters : Waiter(x)

Spec == Init /\ [][Next]_vars

(* A writer inside update goes on, a waiter that is not asleep goes on, and  *)
(* the time of a slice passes.                                              *)
Fairness ==
  /\ WF_vars(WriterStep /\ wpc # "idle")
  /\ \A x \in Waiters : WF_vars(Proceed(x)) /\ WF_vars(SliceExpires(x))

FairSpec == Spec /\ Fairness

-----------------------------------------------------------------------------
(* Properties.                                                             *)

TypeOK ==
  /\ serial \in Serials /\ gserial \in 0 .. MaxUpdates
  /\ wpc \in {"idle", "want", "dirty", "clean", "wake", "bump", "gwake"}
  /\ alive \in BOOLEAN
  /\ holders \subseteq Local
  /\ \A x \in missed : x \in Waiters /\ pc[x] = "sleep"
  /\ pc \in [Waiters -> {"idle", "top", "load", "check", "futex", "sleep", "awake", "dead"}]
  /\ op \in [Waiters -> Ops]
  /\ old \in [Waiters -> Serials \cup {NoSerial}]
  /\ timed \in [Waiters -> BOOLEAN]
  /\ spent \in [Waiters -> 0 .. MaxSlices]
  /\ ret \in [Waiters -> Serials \cup {NoSerial}]

(* No lost wakeup (futex_wait, update): a waiter asleep on a word that has   *)
(* moved will be woken, because the writer is still on its way to the wake   *)
(* (unless the writer died or that very wake failed).                        *)
NoLostWakeup ==
  alive =>
    \A x \in Waiters \ missed :
      pc[x] = "sleep" /\ Word(x) # old[x] =>
        IF op[x] = "any" THEN wpc = "gwake" ELSE wpc \in {"clean", "wake"}

(* "A same-process builder writer cannot be mid-update while we hold the     *)
(* read guard" (serial): a local waiter with the lock never finds a dirty    *)
(* serial, and its slice cannot be one that waits for itself.                *)
GuardExcludesUpdate ==
  holders # {} => wpc \in {"idle", "want"} /\ ~ Dirty(serial)

(* The two serials keep step: the global one counts the updates whose clean   *)
(* serial has been stored, and runs behind it until Bump.                    *)
SerialsAgree ==
  \/ wpc \in {"idle", "gwake"} /\ serial = 2 * gserial
  \/ wpc \in {"want", "dirty"} /\ serial = 2 * gserial /\ gserial < MaxUpdates
  \/ wpc = "clean" /\ serial = 2 * gserial + 1 /\ gserial < MaxUpdates
  \/ wpc \in {"wake", "bump"} /\ serial = 2 * gserial + 2 /\ gserial < MaxUpdates

(* serial() goes to the futex with a slice of its total left; the re-check    *)
(* is wait's alone.                                                          *)
SliceLeft ==
  \A x \in Waiters : op[x] = "serial" =>
    /\ pc[x] \in {"futex", "sleep", "awake"} => spent[x] < MaxSlices
    /\ pc[x] # "check"

(* Of the two serials and the lock: nobody sleeps through a wake that        *)
(* succeeded, and no lock-holder waits for a writer that waits for it.       *)
WaitInv == TypeOK /\ SerialsAgree /\ SliceLeft /\ NoLostWakeup /\ GuardExcludesUpdate

(* A per-property wait on a serial that has moved returns, even if the wake  *)
(* fails or the writer dies before it: every slice re-checks.                *)
PropWaitReturns ==
  \A x \in Waiters :
    (op[x] = "prop" /\ pc[x] \notin {"idle", "dead"} /\ old[x] \notin {NoSerial, serial})
      ~> (pc[x] \in {"idle", "dead"})

(* A wait on the global serial returns once it has moved, as long as the     *)
(* writer lives and its wake does not fail: this wait has no slices, so a    *)
(* failed wake is not made good before the next change.                      *)
AnyWaitReturns ==
  \A x \in Waiters :
    (op[x] = "any" /\ pc[x] \notin {"idle", "dead"} /\ old[x] \notin {NoSerial, gserial})
      ~> (pc[x] \in {"idle", "dead"} \/ ~ alive \/ x \in missed)

(* serial() returns: its wait for a clean serial is bounded, also when the   *)
(* writer died and left the entry dirty.                                     *)
SerialReturns ==
  \A x \in Waiters :
    (op[x] = "serial" /\ pc[x] \notin {"idle", "dead"}) ~> (pc[x] \in {"idle", "dead"})

(* A writer that asks for the node's lock gets it: slicing the wait keeps    *)
(* same-process waiters from blocking it for good.                           *)
WriterGetsLock == (wpc = "want") ~> (wpc # "want" \/ ~ alive)

(* What wait's documentation says: it waits until the property changes and   *)
(* returns the new serial, so the serial is that of a finished change.       *)
WaitReportsFinishedChange ==
  \A x \in Waiters :
    pc[x] = "idle" /\ op[x] = "prop" /\ ret[x] # NoSerial => ~ Dirty(ret[x])
=============================================================================
