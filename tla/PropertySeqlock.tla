--------------------------- MODULE PropertySeqlock ---------------------------
(***************************************************************************)
(* The seqlock that protects the values of one property area               *)
(* (property_info.rs, property_area.rs, system_properties.rs): one writer, *)
(* which updates entries in place, and readers of other threads and        *)
(* processes that take no lock against it.                                 *)
(*                                                                         *)
(* The code runs on machines that let stores become visible out of order,  *)
(* and half of the code's argument is about its fences, so a store is two  *)
(* steps here: the writer issues it (it is then in the writer's own view,  *)
(* the w... variables) and a Flush step makes it visible to the others.    *)
(* A Relaxed store may be flushed at any time; a Release store only after  *)
(* everything issued before it; fence(Release) waits until everything is   *)
(* visible, which nobody can tell from ordering it.  A crash stops the     *)
(* writer; what it has issued still reaches memory.                        *)
(*                                                                         *)
(* A reader's Relaxed byte loads may happen in any order, but its Acquire  *)
(* load comes before them and its fence(Acquire) keeps the re-check after. *)
(***************************************************************************)
EXTENDS Integers, Sequences

CONSTANTS Props,    \* the updatable (short, not "ro.") entries of the area
          Readers,  \* concurrent readers
          Byte,     \* the non-NUL bytes
          NUL,      \* the terminator
          Unread,   \* a byte of the reader's buffer it has not loaded yet
          MaxLen,   \* PROP_VALUE_MAX - 1: the longest short value
          Values,   \* the values the writer stores
          Period,   \* updates until the counter bits of a serial repeat
          GPeriod   \* the same for the global serial

ASSUME ByteAssumption == NUL \notin Byte /\ Unread \notin Byte \cup {NUL}
ASSUME LenAssumption == MaxLen \in Nat
ASSUME ValuesAssumption ==
  /\ Values # {}
  /\ Values \subseteq Seq(Byte)
  /\ \A v \in Values : Len(v) <= MaxLen
ASSUME PeriodAssumption ==
  /\ Period \in Nat /\ Period >= 2
  /\ GPeriod \in Nat /\ GPeriod >= 2

VARIABLES serial, value, backup, gserial,       \* what every process sees
          wserial, wvalue, wbackup, wgserial,   \* what the writer has issued
          wpc, wprop, wnew, alive,              \* the writer
          rpc, rprop, s1, buf, result           \* the readers

mem    == <<serial, value, backup, gserial>>
wview  == <<wserial, wvalue, wbackup, wgserial>>
writer == <<wpc, wprop, wnew, alive>>
reader == <<rpc, rprop, s1, buf, result>>
vars   == <<mem, wview, writer, reader>>

-----------------------------------------------------------------------------
(* Slots and serial words.                                                 *)

Idx    == 1 .. (MaxLen + 1)             \* the bytes of a value slot
Slot   == [Idx -> Byte \cup {NUL}]
Serial == [len : 0 .. MaxLen, ctr : 0 .. (Period - 1), dirty : BOOLEAN]
Blank  == [i \in Idx |-> NUL]
NoBuf  == [i \in Idx |-> Unread]
NoSerial == [len |-> 0, ctr |-> 0, dirty |-> FALSE]

(* Byte-wise store of v and its NUL: the bytes after the NUL stay. *)
WriteValue(slot, v) ==
  [i \in Idx |-> IF i <= Len(v) THEN v[i]
                 ELSE IF i = Len(v) + 1 THEN NUL ELSE slot[i]]

Prefix(slot, n) == [i \in 1 .. n |-> slot[i]]

(* A NUL scan of the slot stops after n bytes: at a NUL or at the end. *)
ScanStops(slot, n) ==
  /\ \A i \in 1 .. n : slot[i] \in Byte
  /\ n <= MaxLen => slot[n + 1] = NUL

(* read_value_atomic: the bytes before the first NUL. *)
Scan(slot) == Prefix(slot, CHOOSE n \in 0 .. (MaxLen + 1) : ScanStops(slot, n))

(* (dirty + 1) & SERIAL_COUNTER_MASK, in updates. *)
NextCtr(c) == IF c + 1 = Period THEN 0 ELSE c + 1

NextGlobal(g) == IF g + 1 = GPeriod THEN 0 ELSE g + 1

-----------------------------------------------------------------------------
Init ==
  /\ \E v \in [Props -> Values] :
        /\ serial = [p \in Props |-> [len |-> Len(v[p]), ctr |-> 0, dirty |-> FALSE]]
        /\ value = [p \in Props |-> WriteValue(Blank, v[p])]
        /\ \E p \in Props : wprop = p /\ wnew = v[p]
  /\ backup = Blank
  /\ gserial = 0
  /\ wserial = serial /\ wvalue = value /\ wbackup = backup /\ wgserial = gserial
  /\ wpc = "idle"
  /\ alive = TRUE
  /\ rpc = [r \in Readers |-> "idle"]
  /\ rprop = [r \in Readers |-> wprop]
  /\ s1 = [r \in Readers |-> NoSerial]
  /\ buf = [r \in Readers |-> NoBuf]
  /\ result = [r \in Readers |-> wnew]

-----------------------------------------------------------------------------
(* The memory: pending stores become visible.                              *)

ValuesVisible == value = wvalue /\ backup = wbackup
Drained       == ValuesVisible /\ serial = wserial /\ gserial = wgserial

FlushBackup(i) ==
  /\ backup[i] # wbackup[i]
  /\ backup' = [backup EXCEPT ![i] = wbackup[i]]
  /\ UNCHANGED <<serial, value, gserial, wview, writer, reader>>

FlushValue(p, i) ==
  /\ value[p][i] # wvalue[p][i]
  /\ value' = [value EXCEPT ![p][i] = wvalue[p][i]]
  /\ UNCHANGED <<serial, backup, gserial, wview, writer, reader>>

(* The counter comes round only after Period updates: no reader sits in    *)
(* the middle of one attempt for that long (the bound of every seqlock).   *)
NotLapped(p) ==
  \A r \in Readers : rpc[r] = "copy" /\ rprop[r] = p => s1[r] # wserial[p]

(* Mutant: a Relaxed store of the serial. *)
FlushSerialRelaxed(p) ==
  /\ serial[p] # wserial[p]
  /\ NotLapped(p)
  /\ serial' = [serial EXCEPT ![p] = wserial[p]]
  /\ UNCHANGED <<value, backup, gserial, wview, writer, reader>>

(* Both stores of an entry's serial are Release stores. *)
FlushSerial(p) ==
  /\ serial[p] # wserial[p]
  /\ ValuesVisible
  /\ NotLapped(p)
  /\ serial' = [serial EXCEPT ![p] = wserial[p]]
  /\ UNCHANGED <<value, backup, gserial, wview, writer, reader>>

(* fetch_add(1, Release) on the global serial. *)
FlushGlobal ==
  /\ gserial # wgserial
  /\ ValuesVisible /\ serial = wserial
  /\ gserial' = wgserial
  /\ UNCHANGED <<serial, value, backup, wview, writer, reader>>

-----------------------------------------------------------------------------
(* The writer: SystemProperties::update under the node's write lock.       *)

(* Mutant: no fence before the backup's bytes. *)
StoreBackupUnfenced(p, v) ==
  /\ alive /\ wpc = "idle"
  /\ wpc' = "dirty" /\ wprop' = p /\ wnew' = v
  /\ wbackup' = WriteValue(wbackup, Scan(wvalue[p]))
  /\ UNCHANGED <<mem, wserial, wvalue, wgserial, alive, reader>>

(* update snapshots the old value (NUL scan of its own memory), then       *)
(* set_dirty_backup_area: fence(Release), then the backup's bytes.         *)
StoreBackup(p, v) ==
  /\ alive /\ wpc = "idle"
  /\ Drained
  /\ wpc' = "dirty" /\ wprop' = p /\ wnew' = v
  /\ wbackup' = WriteValue(wbackup, Scan(wvalue[p]))
  /\ UNCHANGED <<mem, wserial, wvalue, wgserial, alive, reader>>

(* apply_write: publish current | 1; the length is still the old one. *)
StoreDirty ==
  /\ alive /\ wpc = "dirty"
  /\ wpc' = "value"
  /\ wserial' = [wserial EXCEPT ![wprop].dirty = TRUE]
  /\ UNCHANGED <<mem, wvalue, wbackup, wgserial, wprop, wnew, alive, reader>>

(* Mutant: no fence between the dirty serial and the value's bytes. *)
StoreValueUnfenced ==
  /\ alive /\ wpc = "value"
  /\ wpc' = "clean"
  /\ wvalue' = [wvalue EXCEPT ![wprop] = WriteValue(wvalue[wprop], wnew)]
  /\ UNCHANGED <<mem, wserial, wbackup, wgserial, wprop, wnew, alive, reader>>

(* fence(Release), then the value's bytes. *)
StoreValue ==
  /\ alive /\ wpc = "value"
  /\ Drained
  /\ wpc' = "clean"
  /\ wvalue' = [wvalue EXCEPT ![wprop] = WriteValue(wvalue[wprop], wnew)]
  /\ UNCHANGED <<mem, wserial, wbackup, wgserial, wprop, wnew, alive, reader>>

(* Publish the new length and the next even counter. *)
StoreClean ==
  /\ alive /\ wpc = "clean"
  /\ wpc' = "bump"
  /\ wserial' = [wserial EXCEPT ![wprop] =
                   [len |-> Len(wnew), ctr |-> NextCtr(wserial[wprop].ctr),
                    dirty |-> FALSE]]
  /\ UNCHANGED <<mem, wvalue, wbackup, wgserial, wprop, wnew, alive, reader>>

(* Announce the change and return. *)
BumpGlobal ==
  /\ alive /\ wpc = "bump"
  /\ wpc' = "idle"
  /\ wgserial' = NextGlobal(wgserial)
  /\ UNCHANGED <<mem, wserial, wvalue, wbackup, wprop, wnew, alive, reader>>

(* The writing process dies, at any point. *)
Crash ==
  /\ alive
  /\ alive' = FALSE
  /\ UNCHANGED <<mem, wview, wpc, wprop, wnew, reader>>

-----------------------------------------------------------------------------
(* The readers: read_with_callback.                                        *)

ReadCall(r, p) ==
  /\ rpc[r] = "idle"
  /\ rpc' = [rpc EXCEPT ![r] = "load"]
  /\ rprop' = [rprop EXCEPT ![r] = p]
  /\ UNCHANGED <<mem, wview, writer, s1, buf, result>>

(* Mutant: the reader spins on a dirty serial instead of using the backup. *)
LoadSerialSpins(r) ==
  /\ rpc[r] = "load"
  /\ rpc' = [rpc EXCEPT ![r] = IF serial[rprop[r]].dirty THEN "load" ELSE "copy"]
  /\ s1' = [s1 EXCEPT ![r] = serial[rprop[r]]]
  /\ UNCHANGED <<mem, wview, writer, rprop, buf, result>>

(* serial.load(Acquire), at the top of every attempt. *)
LoadSerial(r) ==
  /\ rpc[r] = "load"
  /\ rpc' = [rpc EXCEPT ![r] = "copy"]
  /\ s1' = [s1 EXCEPT ![r] = serial[rprop[r]]]
  /\ UNCHANGED <<mem, wview, writer, rprop, buf, result>>

(* A dirty serial sends the reader to the area's one backup slot. *)
SourceSlot(s, p) == IF s.dirty THEN backup ELSE value[p]

(* One Relaxed byte load: of the first len bytes of the backup, or of the  *)
(* value up to its NUL.                                                    *)
CopyByte(r, i) ==
  /\ rpc[r] = "copy"
  /\ buf[r][i] = Unread
  /\ IF s1[r].dirty THEN i <= s1[r].len
                    ELSE \A j \in 1 .. (i - 1) : buf[r][j] # NUL
  /\ buf' = [buf EXCEPT ![r][i] = SourceSlot(s1[r], rprop[r])[i]]
  /\ UNCHANGED <<mem, wview, writer, rpc, rprop, s1, result>>

(* The bytes the attempt has collected, once there are enough of them. *)
Copied(r, n) ==
  IF s1[r].dirty THEN n = s1[r].len /\ \A i \in 1 .. n : buf[r][i] # Unread
                 ELSE ScanStops(buf[r], n)

(* The attempt's locals are dead. *)
EndAttempt(r) ==
  /\ s1' = [s1 EXCEPT ![r] = NoSerial]
  /\ buf' = [buf EXCEPT ![r] = NoBuf]

(* fence(Acquire), then the re-check: the serial is still the one loaded,  *)
(* so the snapshot is handed to the caller.                                *)
Accept(r) ==
  /\ rpc[r] = "copy"
  /\ serial[rprop[r]] = s1[r]
  /\ \E n \in 0 .. (MaxLen + 1) :
        /\ Copied(r, n)
        /\ result' = [result EXCEPT ![r] = Prefix(buf[r], n)]
  /\ rpc' = [rpc EXCEPT ![r] = "idle"]
  /\ EndAttempt(r)
  /\ UNCHANGED <<mem, wview, writer, rprop>>

Retry(r) ==
  /\ rpc[r] = "copy"
  /\ \E n \in 0 .. (MaxLen + 1) : Copied(r, n)
  /\ serial[rprop[r]] # s1[r]
  /\ rpc' = [rpc EXCEPT ![r] = "load"]
  /\ EndAttempt(r)
  /\ UNCHANGED <<mem, wview, writer, rprop, result>>

-----------------------------------------------------------------------------
Flush ==
  \/ \E i \in Idx : FlushBackup(i)
  \/ \E p \in Props, i \in Idx : FlushValue(p, i)
  \/ \E p \in Props : FlushSerial(p)
  \/ FlushGlobal

Writer ==
  \/ \E p \in Props, v \in Values : StoreBackup(p, v)
  \/ StoreDirty
  \/ StoreValue
  \/ StoreClean
  \/ BumpGlobal

Reader(r) ==
  \/ \E p \in Props : ReadCall(r, p)
  \/ LoadSerial(r)
  \/ \E i \in Idx : CopyByte(r, i)
  \/ Accept(r)
  \/ Retry(r)

Next == Flush \/ Writer \/ Crash \/ \E r \in Readers : Reader(r)

Spec == Init /\ [][Next]_vars

(* Stores reach memory, and a reader inside a read goes on. *)
Fairness ==
  /\ WF_vars(Flush)
  /\ \A r \in Readers :
        WF_vars(LoadSerial(r) \/ (\E i \in Idx : CopyByte(r, i)) \/ Accept(r) \/ Retry(r))

FairSpec == Spec /\ Fairness

-----------------------------------------------------------------------------
(* Properties.                                                             *)

TypeOK ==
  /\ serial \in [Props -> Serial] /\ wserial \in [Props -> Serial]
  /\ value \in [Props -> Slot] /\ wvalue \in [Props -> Slot]
  /\ backup \in Slot /\ wbackup \in Slot
  /\ gserial \in 0 .. (GPeriod - 1) /\ wgserial \in 0 .. (GPeriod - 1)
  /\ wpc \in {"idle", "dirty", "value", "clean", "bump"}
  /\ wprop \in Props /\ wnew \in Values /\ alive \in BOOLEAN
  /\ rpc \in [Readers -> {"idle", "load", "copy"}]
  /\ rprop \in [Readers -> Props]
  /\ s1 \in [Readers -> Serial]
  /\ buf \in [Readers -> [Idx -> Byte \cup {NUL, Unread}]]

(* The value the visible serial stands for: a dirty one sends readers to the *)
(* backup, a clean one to the entry.                                        *)
Published(p) == Prefix(SourceSlot(serial[p], p), serial[p].len)

(* A clean serial became visible and the global serial has not moved yet. *)
Announced == ~ (serial = wserial /\ (wpc = "bump" \/ gserial # wgserial))

Abs == INSTANCE PropertyStore
         WITH store <- [p \in Props |-> Published(p)], announced <- Announced

(* Atomicity (read_with_callback against update): whatever the order in     *)
(* which stores become visible and wherever the writer dies, the store      *)
(* behaves as if an update replaced the value in one step and a read        *)
(* returned the value of one instant, never torn bytes, a stale backup or   *)
(* the backup of another entry; and every change is announced after it can  *)
(* be read and before the next change.                                      *)
Atomicity == Abs!Spec

(* The value readers are sent to changes only when the clean serial of the  *)
(* entry being updated becomes visible, and then to the whole new value:    *)
(* opening the dirty window and filling the slots change nothing.           *)
CommitPoint ==
  [][\A p \in Props :
       Published(p)' # Published(p) =>
         /\ p = wprop
         /\ serial[p].dirty /\ ~ serial[p].dirty'
         /\ Published(p)' = wnew]_vars

(* A writer that dies in the middle of an update blocks no reader: the       *)
(* dirty serial it may leave behind sends them to the backup.               *)
CrashNeverBlocksReaders ==
  \A r \in Readers : (rpc[r] # "idle" /\ ~ alive) ~> (rpc[r] = "idle")

-----------------------------------------------------------------------------
(* The inductive invariant.                                                *)

(* The slot holds a whole value of n bytes, with its NUL. *)
Holds(slot, n) == ScanStops(slot, n) /\ Prefix(slot, n) \in Values

(* No store to the entry is pending, and it is clean. *)
Quiet(p) ==
  /\ serial[p] = wserial[p] /\ value[p] = wvalue[p]
  /\ ~ serial[p].dirty
  /\ Holds(value[p], serial[p].len)

(* The backup, as issued, shadows the entry's first n bytes. *)
Shadows(p, n) == \A i \in 1 .. n : wbackup[i] = value[p][i]

(* The entry, as issued, holds the value of the current or last update. *)
Fresh == ScanStops(wvalue[wprop], Len(wnew)) /\ Prefix(wvalue[wprop], Len(wnew)) = wnew

(* The dirty serial is visible, and so is the whole backup. *)
DirtyVisible ==
  /\ serial[wprop].dirty
  /\ backup = wbackup
  /\ Prefix(backup, serial[wprop].len) \in Values

PhaseDirty ==
  wpc = "dirty" =>
    /\ Quiet(wprop) /\ gserial = wgserial
    /\ Shadows(wprop, serial[wprop].len)

PhaseValue ==
  wpc = "value" =>
    /\ value[wprop] = wvalue[wprop] /\ gserial = wgserial
    /\ wserial[wprop] = [serial[wprop] EXCEPT !.dirty = TRUE]
    /\ Holds(value[wprop], serial[wprop].len)
    /\ Shadows(wprop, serial[wprop].len)
    /\ serial[wprop].dirty => DirtyVisible

PhaseClean ==
  wpc = "clean" =>
    /\ serial[wprop] = wserial[wprop] /\ gserial = wgserial
    /\ DirtyVisible /\ Fresh

PhaseDone ==
  wpc \in {"bump", "idle"} =>
    /\ backup = wbackup /\ Fresh
    /\ ~ wserial[wprop].dirty /\ wserial[wprop].len = Len(wnew)
    /\ \/ Quiet(wprop)
       \/ DirtyVisible /\ (wpc = "idle" => gserial # wgserial)
    /\ wpc = "bump" => gserial = wgserial

(* A reader whose serial is still current holds the bytes it stands for. *)
CopyIntact ==
  \A r \in Readers :
    rpc[r] = "copy" /\ serial[rprop[r]] = s1[r] =>
      \A i \in Idx : buf[r][i] # Unread => buf[r][i] = SourceSlot(s1[r], rprop[r])[i]

(* Every attempt starts with an empty buffer. *)
BufFresh == \A r \in Readers : rpc[r] # "copy" => buf[r] = NoBuf

WriterInv ==
  /\ \A q \in Props \ {wprop} : Quiet(q)
  /\ PhaseDirty /\ PhaseValue /\ PhaseClean /\ PhaseDone

(* Every conjunct above, and no reader was ever handed anything else than a  *)
(* whole value some update stored.                                          *)
SeqlockInv ==
  /\ TypeOK
  /\ WriterInv
  /\ CopyIntact /\ BufFresh
  /\ result \in [Readers -> Values]
=============================================================================
