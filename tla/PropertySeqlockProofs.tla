----------------------- MODULE PropertySeqlockProofs -----------------------
(***************************************************************************)
(* Proofs about PropertySeqlock for every set of properties, readers and   *)
(* values, every slot length and every period of the serial's counter.     *)
(***************************************************************************)
EXTENDS PropertySeqlock, TLAPS

(* Every value fits the slot and has no NUL. *)
LEMMA ValueFacts ==
  ASSUME NEW v \in Values
  PROVE  /\ Len(v) \in 0 .. MaxLen
         /\ v \in Seq(Byte)
         /\ \A i \in 1 .. Len(v) : v[i] \in Byte
         /\ v = [i \in 1 .. Len(v) |-> v[i]]
<1>1. v \in Seq(Byte) /\ Len(v) <= MaxLen
  BY ValuesAssumption
<1>2. Len(v) \in Nat
  BY <1>1
<1> QED
  BY <1>1, <1>2, LenAssumption

(* write_value_atomic leaves a whole, NUL-terminated value in the slot. *)
LEMMA WriteValueFacts ==
  ASSUME NEW slot \in Slot, NEW v \in Values
  PROVE  /\ WriteValue(slot, v) \in Slot
         /\ ScanStops(WriteValue(slot, v), Len(v))
         /\ Prefix(WriteValue(slot, v), Len(v)) = v
<1>1. Len(v) \in 0 .. MaxLen /\ (\A i \in 1 .. Len(v) : v[i] \in Byte)
  BY ValueFacts
<1>2. WriteValue(slot, v) \in Slot
  BY <1>1, LenAssumption DEF WriteValue, Slot, Idx
<1>3. \A i \in 1 .. Len(v) : WriteValue(slot, v)[i] = v[i]
  BY <1>1, LenAssumption DEF WriteValue, Idx
<1>4. WriteValue(slot, v)[Len(v) + 1] = NUL
  BY <1>1, LenAssumption DEF WriteValue, Idx
<1>5. ScanStops(WriteValue(slot, v), Len(v))
  BY <1>1, <1>3, <1>4 DEF ScanStops
<1>6. Prefix(WriteValue(slot, v), Len(v)) = v
  <2>1. Prefix(WriteValue(slot, v), Len(v)) = [i \in 1 .. Len(v) |-> v[i]]
    BY <1>3 DEF Prefix
  <2> QED
    BY <2>1, ValueFacts
<1> QED
  BY <1>2, <1>5, <1>6

(* A NUL scan can stop at one length only. *)
LEMMA ScanUnique ==
  ASSUME NEW slot, NEW n \in 0 .. MaxLen, NEW m \in 0 .. (MaxLen + 1),
         ScanStops(slot, n), ScanStops(slot, m)
  PROVE  m = n
<1>1. ~ (m > n)
  <2> SUFFICES ASSUME m > n PROVE FALSE
    OBVIOUS
  <2>1. n + 1 \in 1 .. m /\ n <= MaxLen
    BY LenAssumption
  <2> QED
    BY <2>1, ByteAssumption DEF ScanStops
<1>2. ~ (m < n)
  <2> SUFFICES ASSUME m < n PROVE FALSE
    OBVIOUS
  <2>1. m + 1 \in 1 .. n /\ m <= MaxLen
    BY LenAssumption
  <2> QED
    BY <2>1, ByteAssumption DEF ScanStops
<1> QED
  BY <1>1, <1>2, LenAssumption

(* read_value_atomic returns the value the slot holds. *)
LEMMA ScanFacts ==
  ASSUME NEW slot, NEW n \in 0 .. MaxLen, ScanStops(slot, n)
  PROVE  Scan(slot) = Prefix(slot, n)
<1>1. n \in 0 .. (MaxLen + 1)
  BY LenAssumption
<1>2. (CHOOSE m \in 0 .. (MaxLen + 1) : ScanStops(slot, m)) = n
  BY <1>1, ScanUnique
<1> QED
  BY <1>2 DEF Scan

(* The counters stay in range, and move. *)
LEMMA CounterFacts ==
  /\ \A c \in 0 .. (Period - 1) : NextCtr(c) \in 0 .. (Period - 1) /\ NextCtr(c) # c
  /\ \A g \in 0 .. (GPeriod - 1) : NextGlobal(g) \in 0 .. (GPeriod - 1) /\ NextGlobal(g) # g
BY PeriodAssumption DEF NextCtr, NextGlobal

(* The initial serial and the empty buffer have their types. *)
LEMMA NoSerialFacts == NoSerial \in Serial /\ NoBuf \in [Idx -> Byte \cup {NUL, Unread}]
BY LenAssumption, PeriodAssumption DEF NoSerial, NoBuf, Serial

(* The visible serial of every entry stands for a whole value. *)
LEMMA PublishedFacts ==
  ASSUME TypeOK, WriterInv, NEW p \in Props
  PROVE  /\ Published(p) \in Values
         /\ ~ serial[p].dirty => ScanStops(value[p], serial[p].len)
<1>1. CASE p # wprop
  BY <1>1 DEF WriterInv, Quiet, Holds, Published, SourceSlot
<1>2. CASE p = wprop /\ wpc = "dirty"
  BY <1>2 DEF WriterInv, PhaseDirty, Quiet, Holds, Published, SourceSlot
<1>3. CASE p = wprop /\ wpc = "value"
  BY <1>3 DEF WriterInv, PhaseValue, DirtyVisible, Holds, Published, SourceSlot
<1>4. CASE p = wprop /\ wpc = "clean"
  BY <1>4 DEF WriterInv, PhaseClean, DirtyVisible, Published, SourceSlot
<1>5. CASE p = wprop /\ wpc \in {"bump", "idle"}
  BY <1>5 DEF WriterInv, PhaseDone, DirtyVisible, Quiet, Holds, Published, SourceSlot
<1> QED
  BY <1>1, <1>2, <1>3, <1>4, <1>5 DEF TypeOK

(* An accepted read returns the value the serial stands for at its re-check. *)
LEMMA AcceptFacts ==
  ASSUME SeqlockInv, NEW r \in Readers, Accept(r)
  PROVE  result' = [result EXCEPT ![r] = Published(rprop[r])]
<1> DEFINE p == rprop[r]
           src == SourceSlot(s1[r], p)
<1>1. TypeOK /\ WriterInv /\ CopyIntact
  BY DEF SeqlockInv
<1>2. p \in Props /\ serial[p] = s1[r] /\ s1[r] \in Serial
  BY <1>1 DEF TypeOK, Accept
<1>3. PICK n \in 0 .. (MaxLen + 1) :
        /\ Copied(r, n)
        /\ result' = [result EXCEPT ![r] = Prefix(buf[r], n)]
  BY DEF Accept
<1>4. \A i \in Idx : buf[r][i] # Unread => buf[r][i] = src[i]
  BY <1>1, <1>2 DEF CopyIntact, Accept
<1>5. n = s1[r].len /\ \A i \in 1 .. n : i \in Idx /\ buf[r][i] # Unread
  <2>1. CASE s1[r].dirty
    BY <1>2, <1>3, <2>1, LenAssumption DEF Copied, Serial, Idx
  <2>2. CASE ~ s1[r].dirty
    <3>1. ScanStops(buf[r], n)
      BY <1>3, <2>2 DEF Copied
    <3>2. \A i \in 1 .. n : i \in Idx /\ buf[r][i] # Unread /\ src[i] \in Byte
      BY <1>3, <1>4, <3>1, LenAssumption, ByteAssumption DEF ScanStops, Idx
    <3>3. n <= MaxLen => src[n + 1] = NUL
      BY <1>3, <1>4, <3>1, LenAssumption, ByteAssumption DEF ScanStops, Idx
    <3>4. ScanStops(src, n)
      BY <3>2, <3>3 DEF ScanStops
    <3>5. ScanStops(src, s1[r].len)
      BY <1>1, <1>2, <2>2, PublishedFacts DEF SourceSlot
    <3>6. s1[r].len \in 0 .. MaxLen
      BY <1>2 DEF Serial
    <3>7. n = s1[r].len
      BY <1>3, <3>4, <3>5, <3>6, ScanUnique
    <3> QED
      BY <3>2, <3>7
  <2> QED
    BY <2>1, <2>2
<1>6. Prefix(buf[r], n) = Prefix(src, n)
  BY <1>4, <1>5 DEF Prefix
<1> QED
  BY <1>2, <1>3, <1>5, <1>6 DEF Published

-----------------------------------------------------------------------------
(* The invariant holds initially. *)
LEMMA InitInv == Init => SeqlockInv
<1> SUFFICES ASSUME Init PROVE SeqlockInv
  OBVIOUS
<1>1. PICK v \in [Props -> Values] :
        /\ serial = [p \in Props |-> [len |-> Len(v[p]), ctr |-> 0, dirty |-> FALSE]]
        /\ value = [p \in Props |-> WriteValue(Blank, v[p])]
        /\ \E p \in Props : wprop = p /\ wnew = v[p]
  BY DEF Init
<1>2. wprop \in Props /\ wnew = v[wprop] /\ wnew \in Values
  BY <1>1
<1>3. Blank \in Slot
  BY DEF Blank, Slot
<1>4. \A p \in Props :
        /\ serial[p] \in Serial /\ serial[p].len = Len(v[p]) /\ ~ serial[p].dirty
        /\ value[p] \in Slot
        /\ ScanStops(value[p], Len(v[p]))
        /\ Prefix(value[p], Len(v[p])) = v[p]
  <2> TAKE p \in Props
  <2>1. v[p] \in Values /\ Len(v[p]) \in 0 .. MaxLen
    BY <1>1, ValueFacts
  <2>2. value[p] = WriteValue(Blank, v[p])
    BY <1>1
  <2>3. serial[p] = [len |-> Len(v[p]), ctr |-> 0, dirty |-> FALSE]
    BY <1>1
  <2> QED
    BY <1>3, <2>1, <2>2, <2>3, WriteValueFacts, PeriodAssumption DEF Serial
<1>5. NoSerial \in Serial
  BY LenAssumption, PeriodAssumption DEF NoSerial, Serial
<1>6. TypeOK
  <2>1. serial \in [Props -> Serial] /\ value \in [Props -> Slot]
    BY <1>1, <1>4
  <2>2. s1 \in [Readers -> Serial] /\ buf \in [Readers -> [Idx -> Byte \cup {NUL, Unread}]]
    BY <1>5 DEF Init, NoBuf
  <2>3. gserial \in 0 .. (GPeriod - 1)
    BY PeriodAssumption DEF Init
  <2> QED
    BY <1>2, <1>3, <2>1, <2>2, <2>3 DEF Init, TypeOK
<1>7. \A p \in Props : Quiet(p)
  <2>1. wserial = serial /\ wvalue = value
    BY DEF Init
  <2>2. \A p \in Props : v[p] \in Values
    BY <1>1
  <2> QED
    BY <1>4, <2>1, <2>2 DEF Quiet, Holds
<1>8. Fresh /\ wserial[wprop].len = Len(wnew) /\ ~ wserial[wprop].dirty
  BY <1>2, <1>4 DEF Fresh, Init
<1>9. WriterInv
  BY <1>2, <1>7, <1>8 DEF WriterInv, PhaseDirty, PhaseValue, PhaseClean, PhaseDone, Init
<1>10. CopyIntact /\ result \in [Readers -> Values]
  BY <1>2 DEF Init, CopyIntact
<1>11. BufFresh
  BY DEF Init, BufFresh
<1> QED
  BY <1>6, <1>9, <1>10, <1>11 DEF SeqlockInv

-----------------------------------------------------------------------------
(* Steps of a reader: memory and writer stay as they are. *)
LEMMA ReaderInv ==
  ASSUME SeqlockInv, NEW r \in Readers, Reader(r)
  PROVE  SeqlockInv'
<1> USE DEF SeqlockInv
<1>1. UNCHANGED <<mem, wview, writer>>
  BY DEF Reader, ReadCall, LoadSerial, CopyByte, Accept, Retry
<1>2. WriterInv'
  BY <1>1 DEF WriterInv, PhaseDirty, PhaseValue, PhaseClean, PhaseDone, Quiet, Holds,
     Shadows, Fresh, DirtyVisible, ScanStops, Prefix, mem, wview, writer
<1>3. TypeOK /\ CopyIntact /\ BufFresh
  OBVIOUS
<1>4. CASE \E p \in Props : ReadCall(r, p)
  <2>1. PICK p \in Props : ReadCall(r, p)
    BY <1>4
  <2>2. TypeOK'
    BY <1>1, <1>3, <2>1 DEF TypeOK, ReadCall, mem, wview, writer
  <2>3. CopyIntact'
    BY <1>1, <1>3, <2>1 DEF CopyIntact, ReadCall, TypeOK, SourceSlot, mem
  <2>4. BufFresh'
    BY <1>3, <2>1 DEF BufFresh, ReadCall, TypeOK
  <2> QED
    BY <1>2, <2>1, <2>2, <2>3, <2>4 DEF ReadCall
<1>5. CASE LoadSerial(r)
  <2>1. TypeOK'
    BY <1>1, <1>3, <1>5 DEF TypeOK, LoadSerial, mem, wview, writer
  <2>2. CopyIntact'
    BY <1>1, <1>3, <1>5 DEF CopyIntact, BufFresh, LoadSerial, TypeOK, SourceSlot, mem, NoBuf
  <2>3. BufFresh'
    BY <1>3, <1>5 DEF BufFresh, LoadSerial, TypeOK
  <2> QED
    BY <1>2, <1>5, <2>1, <2>2, <2>3 DEF LoadSerial
<1>6. CASE \E i \in Idx : CopyByte(r, i)
  <2>1. PICK i \in Idx : CopyByte(r, i)
    BY <1>6
  <2>2. SourceSlot(s1[r], rprop[r]) \in Slot
    BY <1>3 DEF TypeOK, SourceSlot
  <2>3. TypeOK'
    BY <1>1, <1>3, <2>1, <2>2 DEF TypeOK, CopyByte, Slot, mem, wview, writer
  <2>4. CopyIntact'
    BY <1>1, <1>3, <2>1 DEF CopyIntact, CopyByte, TypeOK, SourceSlot, mem
  <2>5. BufFresh'
    BY <1>3, <2>1 DEF BufFresh, CopyByte, TypeOK
  <2> QED
    BY <1>2, <2>1, <2>3, <2>4, <2>5 DEF CopyByte
<1>7. CASE Accept(r)
  <2>1. TypeOK'
    BY <1>1, <1>3, <1>7, NoSerialFacts DEF TypeOK, Accept, EndAttempt, mem, wview, writer
  <2>2. CopyIntact'
    BY <1>1, <1>3, <1>7 DEF CopyIntact, Accept, EndAttempt, TypeOK, SourceSlot, mem
  <2>3. result' \in [Readers -> Values]
    BY <1>3, <1>7, AcceptFacts, PublishedFacts DEF TypeOK
  <2>4. BufFresh'
    BY <1>3, <1>7 DEF BufFresh, Accept, EndAttempt, TypeOK
  <2> QED
    BY <1>2, <2>1, <2>2, <2>3, <2>4
<1>8. CASE Retry(r)
  <2>1. TypeOK'
    BY <1>1, <1>3, <1>8, NoSerialFacts DEF TypeOK, Retry, EndAttempt, mem, wview, writer
  <2>2. CopyIntact'
    BY <1>1, <1>3, <1>8 DEF CopyIntact, Retry, EndAttempt, TypeOK, SourceSlot, mem
  <2>3. BufFresh'
    BY <1>3, <1>8 DEF BufFresh, Retry, EndAttempt, TypeOK
  <2> QED
    BY <1>2, <1>8, <2>1, <2>2, <2>3 DEF Retry
<1> QED
  BY <1>4, <1>5, <1>6, <1>7, <1>8 DEF Reader

-----------------------------------------------------------------------------
(* Steps that leave memory and readers alone leave the readers' part alone. *)
LEMMA ReaderPart ==
  ASSUME CopyIntact, BufFresh, UNCHANGED <<mem, reader>>
  PROVE  CopyIntact' /\ BufFresh'
BY DEF CopyIntact, BufFresh, SourceSlot, mem, reader

(* Steps of the writer. *)
LEMMA StoreBackupInv ==
  ASSUME SeqlockInv, NEW p \in Props, NEW v \in Values, StoreBackup(p, v)
  PROVE  SeqlockInv'
<1> USE DEF SeqlockInv
<1>1. TypeOK /\ WriterInv
  OBVIOUS
<1>2. \A q \in Props : Quiet(q)
  BY <1>1 DEF WriterInv, PhaseDone, DirtyVisible, StoreBackup, Drained, Quiet, TypeOK
<1>3. Scan(wvalue[p]) = Prefix(value[p], serial[p].len) /\ Scan(wvalue[p]) \in Values
  BY <1>1, <1>2, ScanFacts DEF Quiet, Holds, TypeOK, Serial
<1>4. /\ wbackup' \in Slot
      /\ Prefix(wbackup', Len(Scan(wvalue[p]))) = Scan(wvalue[p])
  BY <1>1, <1>3, WriteValueFacts DEF StoreBackup, TypeOK
<1>5. \A i \in 1 .. serial[p].len : wbackup'[i] = value[p][i]
  <2>1. serial[p].len \in Nat
    BY <1>1 DEF TypeOK, Serial
  <2>2. Len(Scan(wvalue[p])) = serial[p].len
    BY <1>3, <2>1 DEF Prefix
  <2> QED
    BY <1>3, <1>4, <2>2 DEF Prefix
<1>6. TypeOK'
  BY <1>1, <1>4 DEF TypeOK, StoreBackup, mem, reader
<1>7. \A q \in Props : Quiet(q)'
  BY <1>2 DEF StoreBackup, Quiet, Holds, ScanStops, Prefix, mem
<1>8. WriterInv'
  BY <1>5, <1>7 DEF StoreBackup, WriterInv, PhaseDirty, PhaseValue, PhaseClean, PhaseDone,
     Shadows, Drained, mem
<1> QED
  BY <1>6, <1>8, ReaderPart DEF StoreBackup, reader

(* The dirty store (apply_write) leaves the update in its second phase. *)
LEMMA StoreDirtyInv ==
  ASSUME SeqlockInv, StoreDirty
  PROVE  SeqlockInv'
<1> USE DEF SeqlockInv
<1>1. TypeOK /\ WriterInv
  OBVIOUS
<1>2. wprop \in Props /\ Quiet(wprop) /\ gserial = wgserial /\ Shadows(wprop, serial[wprop].len)
  BY <1>1 DEF WriterInv, PhaseDirty, StoreDirty, TypeOK
<1>3. wserial'[wprop] = [serial[wprop] EXCEPT !.dirty = TRUE]
  BY <1>1, <1>2 DEF StoreDirty, Quiet, TypeOK
<1>4. TypeOK'
  BY <1>1 DEF TypeOK, StoreDirty, Serial, mem, reader
<1>5. \A q \in Props \ {wprop'} : Quiet(q)'
  BY <1>1 DEF WriterInv, StoreDirty, Quiet, Holds, ScanStops, Prefix, mem, TypeOK
<1>6. PhaseValue'
  BY <1>2, <1>3 DEF StoreDirty, PhaseValue, Quiet, Holds, Shadows, ScanStops, Prefix, mem
<1>7. WriterInv'
  BY <1>5, <1>6 DEF StoreDirty, WriterInv, PhaseDirty, PhaseClean, PhaseDone
<1> QED
  BY <1>4, <1>7, ReaderPart DEF StoreDirty, reader

(* The value bytes go to the entry once the dirty serial is visible. *)
LEMMA StoreValueInv ==
  ASSUME SeqlockInv, StoreValue
  PROVE  SeqlockInv'
<1> USE DEF SeqlockInv
<1>1. TypeOK /\ WriterInv
  OBVIOUS
<1>2. /\ wprop \in Props /\ wnew \in Values
      /\ serial[wprop] = wserial[wprop] /\ gserial = wgserial /\ DirtyVisible
  BY <1>1 DEF WriterInv, PhaseValue, StoreValue, Drained, TypeOK, Serial
<1>3. wvalue'[wprop] = WriteValue(wvalue[wprop], wnew)
  BY <1>1, <1>2 DEF StoreValue, TypeOK
<1>4. /\ wvalue'[wprop] \in Slot
      /\ ScanStops(wvalue'[wprop], Len(wnew))
      /\ Prefix(wvalue'[wprop], Len(wnew)) = wnew
  BY <1>1, <1>2, <1>3, WriteValueFacts DEF TypeOK
<1>5. TypeOK'
  BY <1>1, <1>3, <1>4 DEF TypeOK, StoreValue, mem, reader
<1>6. \A q \in Props \ {wprop'} : Quiet(q)'
  BY <1>1 DEF WriterInv, StoreValue, Quiet, Holds, ScanStops, Prefix, mem, TypeOK
<1>7. PhaseClean'
  BY <1>2, <1>4 DEF StoreValue, PhaseClean, DirtyVisible, Fresh, ScanStops, Prefix, mem
<1>8. WriterInv'
  BY <1>6, <1>7 DEF StoreValue, WriterInv, PhaseDirty, PhaseValue, PhaseDone
<1> QED
  BY <1>5, <1>8, ReaderPart DEF StoreValue, reader

(* The clean store is issued over a whole new value. *)
LEMMA StoreCleanInv ==
  ASSUME SeqlockInv, StoreClean
  PROVE  SeqlockInv'
<1> USE DEF SeqlockInv
<1>1. TypeOK /\ WriterInv
  OBVIOUS
<1>2. /\ wprop \in Props /\ wnew \in Values
      /\ serial[wprop] = wserial[wprop] /\ gserial = wgserial /\ DirtyVisible /\ Fresh
  BY <1>1 DEF WriterInv, PhaseClean, StoreClean, TypeOK
<1>3. wserial'[wprop] = [len |-> Len(wnew), ctr |-> NextCtr(wserial[wprop].ctr), dirty |-> FALSE]
  BY <1>1, <1>2 DEF StoreClean, TypeOK
<1>4. wserial'[wprop] \in Serial
  BY <1>1, <1>2, <1>3, ValueFacts, CounterFacts DEF TypeOK, Serial
<1>5. TypeOK'
  BY <1>1, <1>3, <1>4 DEF TypeOK, StoreClean, mem, reader
<1>6. \A q \in Props \ {wprop'} : Quiet(q)'
  BY <1>1 DEF WriterInv, StoreClean, Quiet, Holds, ScanStops, Prefix, mem, TypeOK
<1>7. PhaseDone'
  BY <1>2, <1>3 DEF StoreClean, PhaseDone, DirtyVisible, Fresh, ScanStops, Prefix, mem
<1>8. WriterInv'
  BY <1>6, <1>7 DEF StoreClean, WriterInv, PhaseDirty, PhaseValue, PhaseClean
<1> QED
  BY <1>5, <1>8, ReaderPart DEF StoreClean, reader

(* The global serial (update) moves after the entry's. *)
LEMMA BumpGlobalInv ==
  ASSUME SeqlockInv, BumpGlobal
  PROVE  SeqlockInv'
<1> USE DEF SeqlockInv
<1>1. TypeOK /\ WriterInv
  OBVIOUS
<1>2. wgserial' \in 0 .. (GPeriod - 1) /\ wgserial' # gserial
  BY <1>1, CounterFacts DEF BumpGlobal, WriterInv, PhaseDone, TypeOK
<1>3. TypeOK'
  BY <1>1, <1>2 DEF TypeOK, BumpGlobal, mem, reader
<1>4. \A q \in Props \ {wprop'} : Quiet(q)'
  BY <1>1 DEF WriterInv, BumpGlobal, Quiet, Holds, ScanStops, Prefix, mem
<1>5. PhaseDone'
  BY <1>1, <1>2 DEF WriterInv, BumpGlobal, PhaseDone, DirtyVisible, Quiet, Holds, Fresh,
     ScanStops, Prefix, mem
<1>6. WriterInv'
  BY <1>4, <1>5 DEF BumpGlobal, WriterInv, PhaseDirty, PhaseValue, PhaseClean
<1> QED
  BY <1>3, <1>6, ReaderPart DEF BumpGlobal, reader

(* The death of the writer changes nothing readers depend on. *)
LEMMA CrashInv ==
  ASSUME SeqlockInv, Crash
  PROVE  SeqlockInv'
<1> USE DEF SeqlockInv
<1>1. TypeOK'
  BY DEF TypeOK, Crash, mem, wview, reader
<1>2. WriterInv'
  BY DEF Crash, WriterInv, PhaseDirty, PhaseValue, PhaseClean, PhaseDone, Quiet, Holds,
     Shadows, Fresh, DirtyVisible, ScanStops, Prefix, mem, wview
<1> QED
  BY <1>1, <1>2, ReaderPart DEF Crash, reader

-----------------------------------------------------------------------------
(* Steps of the memory. *)

(* The backup is rewritten only while every visible serial is clean. *)
LEMMA BackupPending ==
  ASSUME TypeOK, WriterInv, backup # wbackup
  PROVE  /\ wpc \in {"dirty", "value"}
         /\ \A p \in Props : ~ serial[p].dirty
<1>1. wpc \in {"dirty", "value"}
  BY DEF TypeOK, WriterInv, PhaseClean, PhaseDone, DirtyVisible
<1>2. ~ serial[wprop].dirty
  BY <1>1 DEF WriterInv, PhaseDirty, PhaseValue, DirtyVisible, Quiet
<1> QED
  BY <1>1, <1>2 DEF WriterInv, Quiet

(* An entry is rewritten only while its visible serial is dirty. *)
LEMMA ValuePending ==
  ASSUME TypeOK, WriterInv, NEW p \in Props, value[p] # wvalue[p]
  PROVE  /\ p = wprop /\ DirtyVisible
         /\ wpc \in {"clean", "bump", "idle"}
BY DEF TypeOK, WriterInv, PhaseDirty, PhaseValue, PhaseClean, PhaseDone, Quiet

(* A serial waits to become visible only in the entry being updated. *)
LEMMA SerialPending ==
  ASSUME TypeOK, WriterInv, NEW p \in Props, serial[p] # wserial[p]
  PROVE  /\ p = wprop
         /\ \/ wpc = "value" /\ ~ serial[p].dirty
            \/ wpc \in {"bump", "idle"} /\ DirtyVisible
<1>1. p = wprop
  BY DEF WriterInv, Quiet
<1>2. wpc \in {"value", "bump", "idle"}
  BY <1>1 DEF TypeOK, WriterInv, PhaseDirty, PhaseClean, Quiet
<1>3. wpc = "value" => ~ serial[p].dirty
  BY <1>1 DEF WriterInv, PhaseValue, TypeOK, Serial
<1>4. wpc \in {"bump", "idle"} => DirtyVisible
  BY <1>1 DEF WriterInv, PhaseDone, Quiet
<1> QED
  BY <1>1, <1>2, <1>3, <1>4

(* A backup byte that becomes visible is not one anybody is sent to. *)
LEMMA FlushBackupInv ==
  ASSUME SeqlockInv, NEW i \in Idx, FlushBackup(i)
  PROVE  SeqlockInv'
<1> USE DEF SeqlockInv
<1>1. TypeOK /\ WriterInv /\ CopyIntact /\ BufFresh
  OBVIOUS
<1>2. wpc \in {"dirty", "value"} /\ \A p \in Props : ~ serial[p].dirty
  BY <1>1, BackupPending DEF FlushBackup
<1>3. TypeOK'
  BY <1>1 DEF TypeOK, FlushBackup, Slot, wview, writer, reader
<1>4. WriterInv'
  <2>1. wprop \in Props
    BY <1>1 DEF TypeOK
  <2> QED
    BY <1>1, <1>2, <2>1 DEF FlushBackup, WriterInv, PhaseDirty, PhaseValue, PhaseClean,
       PhaseDone, Quiet, Holds, Shadows, ScanStops, Prefix, wview, writer
<1>5. CopyIntact' /\ BufFresh'
  BY <1>1, <1>2 DEF CopyIntact, BufFresh, SourceSlot, FlushBackup, TypeOK, reader
<1> QED
  BY <1>3, <1>4, <1>5 DEF FlushBackup, reader

(* A value byte becomes visible only under a visible dirty serial. *)
LEMMA FlushValueInv ==
  ASSUME SeqlockInv, NEW p \in Props, NEW i \in Idx, FlushValue(p, i)
  PROVE  SeqlockInv'
<1> USE DEF SeqlockInv
<1>1. TypeOK /\ WriterInv /\ CopyIntact /\ BufFresh
  OBVIOUS
<1>2. p = wprop /\ DirtyVisible /\ wpc \in {"clean", "bump", "idle"}
  BY <1>1, ValuePending DEF FlushValue
<1>3. \A q \in Props \ {p} : value'[q] = value[q]
  BY <1>1 DEF FlushValue, TypeOK
<1>4. TypeOK'
  BY <1>1 DEF TypeOK, FlushValue, Slot, wview, writer, reader
<1>5. WriterInv'
  <2>1. \A q \in Props \ {wprop'} : Quiet(q)'
    BY <1>1, <1>2, <1>3 DEF FlushValue, WriterInv, Quiet, Holds, ScanStops, Prefix, wview, writer
  <2>2. DirtyVisible' /\ (Fresh => Fresh')
    BY <1>2 DEF FlushValue, DirtyVisible, Fresh, Prefix, ScanStops, wview, writer
  <2> QED
    BY <1>1, <1>2, <2>1, <2>2 DEF FlushValue, WriterInv, PhaseDirty, PhaseValue, PhaseClean,
       PhaseDone, Quiet, DirtyVisible, wview, writer
<1>6. CopyIntact' /\ BufFresh'
  BY <1>1, <1>2, <1>3 DEF CopyIntact, BufFresh, SourceSlot, DirtyVisible, FlushValue, TypeOK, reader
<1> QED
  BY <1>4, <1>5, <1>6 DEF FlushValue, reader

(* A serial that becomes visible differs from those readers hold. *)
LEMMA FlushSerialInv ==
  ASSUME SeqlockInv, NEW p \in Props, FlushSerial(p)
  PROVE  SeqlockInv'
<1> USE DEF SeqlockInv
<1>1. TypeOK /\ WriterInv /\ CopyIntact /\ BufFresh
  OBVIOUS
<1>2. /\ p = wprop
      /\ \/ wpc = "value" /\ ~ serial[p].dirty
         \/ wpc \in {"bump", "idle"} /\ DirtyVisible
  BY <1>1, SerialPending DEF FlushSerial
<1>3. serial'[p] = wserial[p] /\ \A q \in Props \ {p} : serial'[q] = serial[q]
  BY <1>1 DEF FlushSerial, TypeOK
<1>4. TypeOK'
  BY <1>1 DEF TypeOK, FlushSerial, wview, writer, reader
<1>5. \A q \in Props \ {wprop'} : Quiet(q)'
  BY <1>1, <1>2, <1>3 DEF FlushSerial, WriterInv, Quiet, Holds, ScanStops, Prefix, wview, writer
<1>6. CopyIntact' /\ BufFresh'
  BY <1>1, <1>3 DEF CopyIntact, BufFresh, SourceSlot, FlushSerial, NotLapped, TypeOK, reader
<1>7. CASE wpc = "value" /\ ~ serial[p].dirty
  <2>1. /\ wserial[p] = [serial[p] EXCEPT !.dirty = TRUE]
        /\ Holds(value[p], serial[p].len) /\ Shadows(p, serial[p].len)
        /\ value[p] = wvalue[p] /\ gserial = wgserial
    BY <1>1, <1>2, <1>7 DEF WriterInv, PhaseValue
  <2>2. serial'[p].len = serial[p].len /\ serial'[p].dirty /\ serial'[p] = wserial'[p]
    BY <1>1, <1>3, <2>1 DEF TypeOK, Serial, FlushSerial, wview
  <2>3. Prefix(backup, serial[p].len) = Prefix(value[p], serial[p].len)
    BY <2>1 DEF FlushSerial, ValuesVisible, Shadows, Prefix
  <2>4. DirtyVisible'
    <3>1. Prefix(backup', serial'[p].len) \in Values
      BY <2>1, <2>2, <2>3 DEF FlushSerial, Holds
    <3> QED
      BY <1>2, <2>2, <3>1 DEF FlushSerial, ValuesVisible, DirtyVisible, wview, writer
  <2>5. wserial'[p] = [serial'[p] EXCEPT !.dirty = TRUE]
    BY <1>1, <2>2 DEF TypeOK, FlushSerial, wview, Serial
  <2>6. PhaseValue'
    BY <1>2, <2>1, <2>2, <2>4, <2>5 DEF PhaseValue, FlushSerial, Holds, Shadows, ScanStops, Prefix,
       wview, writer
  <2> QED
    BY <1>4, <1>5, <1>7, <1>6, <2>6 DEF WriterInv, PhaseDirty, PhaseClean, PhaseDone, FlushSerial,
       writer, reader
<1>8. CASE wpc \in {"bump", "idle"} /\ DirtyVisible
  <2>1. /\ backup = wbackup /\ Fresh /\ ~ wserial[p].dirty /\ wserial[p].len = Len(wnew)
        /\ wpc = "bump" => gserial = wgserial
    BY <1>1, <1>2, <1>8 DEF WriterInv, PhaseDone
  <2>2. Quiet(p)'
    BY <1>1, <1>2, <1>3, <2>1 DEF Quiet, Holds, Fresh, FlushSerial, ValuesVisible, ScanStops, Prefix,
       TypeOK, wview, writer
  <2>3. PhaseDone'
    BY <1>2, <2>1, <2>2 DEF PhaseDone, Fresh, FlushSerial, ScanStops, Prefix, wview, writer
  <2> QED
    BY <1>4, <1>5, <1>8, <1>6, <2>3 DEF WriterInv, PhaseDirty, PhaseValue, PhaseClean, FlushSerial,
       writer, reader
<1> QED
  BY <1>2, <1>7, <1>8

(* The global serial that becomes visible closes the update. *)
LEMMA FlushGlobalInv ==
  ASSUME SeqlockInv, FlushGlobal
  PROVE  SeqlockInv'
<1> USE DEF SeqlockInv
<1>1. TypeOK /\ WriterInv /\ CopyIntact /\ BufFresh
  OBVIOUS
<1>2. wpc = "idle" /\ Quiet(wprop)
  BY <1>1 DEF FlushGlobal, TypeOK, WriterInv, PhaseDirty, PhaseValue, PhaseClean, PhaseDone,
     DirtyVisible
<1>3. TypeOK'
  BY <1>1 DEF TypeOK, FlushGlobal, wview, writer, reader
<1>4. \A q \in Props : Quiet(q)'
  BY <1>1, <1>2 DEF FlushGlobal, WriterInv, Quiet, Holds, ScanStops, Prefix, wview
<1>5. PhaseDone'
  BY <1>1, <1>2, <1>4 DEF FlushGlobal, WriterInv, PhaseDone, Fresh, Quiet, TypeOK, ScanStops,
     Prefix, wview, writer
<1>6. WriterInv'
  BY <1>2, <1>4, <1>5 DEF FlushGlobal, WriterInv, PhaseDirty, PhaseValue, PhaseClean, writer
<1>7. CopyIntact' /\ BufFresh'
  BY <1>1 DEF CopyIntact, BufFresh, SourceSlot, FlushGlobal, reader
<1> QED
  BY <1>3, <1>6, <1>7 DEF FlushGlobal, reader

-----------------------------------------------------------------------------
(* Every step keeps the invariant. *)
LEMMA NextInv == SeqlockInv /\ [Next]_vars => SeqlockInv'
<1> SUFFICES ASSUME SeqlockInv, [Next]_vars PROVE SeqlockInv'
  OBVIOUS
<1>1. CASE Flush
  BY <1>1, FlushBackupInv, FlushValueInv, FlushSerialInv, FlushGlobalInv DEF Flush
<1>2. CASE Writer
  BY <1>2, StoreBackupInv, StoreDirtyInv, StoreValueInv, StoreCleanInv, BumpGlobalInv DEF Writer
<1>3. CASE Crash
  BY <1>3, CrashInv
<1>4. CASE \E r \in Readers : Reader(r)
  BY <1>4, ReaderInv
<1>5. CASE UNCHANGED vars
  BY <1>5 DEF vars, mem, wview, writer, reader, SeqlockInv, TypeOK, WriterInv, PhaseDirty,
     PhaseValue, PhaseClean, PhaseDone, Quiet, Holds, Shadows, Fresh, DirtyVisible, ScanStops,
     Prefix, CopyIntact, BufFresh, SourceSlot
<1> QED
  BY <1>1, <1>2, <1>3, <1>4, <1>5 DEF Next

(* The seqlock's invariant: every visible serial stands for a whole value,  *)
(* the backup shadows the entry whose dirty serial is visible, and a reader *)
(* whose serial is still current has copied bytes of that value only        *)
(* (apply_write, set_dirty_backup_area, read_with_callback).                *)
THEOREM SeqlockInvariant == Spec => []SeqlockInv
<1>1. Init => SeqlockInv
  BY InitInv
<1>2. SeqlockInv /\ [Next]_vars => SeqlockInv'
  BY NextInv
<1> QED
  BY <1>1, <1>2, PTL DEF Spec

-----------------------------------------------------------------------------
(* A clean serial becomes visible after the update's dirty one. *)
Commits(p) ==
  /\ FlushSerial(p)
  /\ p = wprop /\ wpc \in {"bump", "idle"}
  /\ serial[p].dirty /\ ~ serial[p].dirty'
  /\ Published(p)' = wnew

(* A serial that becomes visible opens a dirty window, and no reader can    *)
(* tell, or commits the update.                                             *)
LEMMA FlushSerialPublishes ==
  ASSUME SeqlockInv, NEW p \in Props, FlushSerial(p)
  PROVE  /\ \A q \in Props \ {p} : Published(q)' = Published(q)
         /\ (Published(p)' = Published(p) /\ wpc = "value") \/ Commits(p)
<1>1. TypeOK /\ WriterInv
  BY DEF SeqlockInv
<1>2. /\ p = wprop
      /\ \/ wpc = "value" /\ ~ serial[p].dirty
         \/ wpc \in {"bump", "idle"} /\ DirtyVisible
  BY <1>1, SerialPending DEF FlushSerial
<1>3. serial'[p] = wserial[p] /\ \A q \in Props \ {p} : serial'[q] = serial[q]
  BY <1>1 DEF FlushSerial, TypeOK
<1>4. \A q \in Props \ {p} : Published(q)' = Published(q)
  BY <1>3 DEF Published, SourceSlot, Prefix, FlushSerial
<1>5. CASE wpc = "value" /\ ~ serial[p].dirty
  <2>1. /\ wserial[p] = [serial[p] EXCEPT !.dirty = TRUE]
        /\ Shadows(p, serial[p].len)
    BY <1>1, <1>2, <1>5 DEF WriterInv, PhaseValue
  <2>2. serial'[p].len = serial[p].len /\ serial'[p].dirty
    BY <1>1, <1>3, <2>1 DEF TypeOK, Serial
  <2>3. Prefix(backup, serial[p].len) = Prefix(value[p], serial[p].len)
    BY <2>1 DEF FlushSerial, ValuesVisible, Shadows, Prefix
  <2>4. Published(p)' = Prefix(backup, serial[p].len)
    BY <2>2 DEF Published, SourceSlot, FlushSerial, Prefix
  <2> QED
    BY <1>4, <1>5, <2>3, <2>4 DEF Published, SourceSlot
<1>6. CASE wpc \in {"bump", "idle"} /\ DirtyVisible
  <2>1. Fresh /\ ~ wserial[p].dirty /\ wserial[p].len = Len(wnew)
    BY <1>1, <1>2, <1>6 DEF WriterInv, PhaseDone
  <2>2. Published(p)' = Prefix(wvalue[p], Len(wnew))
    BY <1>3, <2>1 DEF Published, SourceSlot, FlushSerial, ValuesVisible, Prefix
  <2> QED
    BY <1>2, <1>3, <1>4, <1>6, <2>1, <2>2 DEF Commits, Fresh, DirtyVisible
<1> QED
  BY <1>2, <1>5, <1>6

(* Nothing but such a step changes what readers are sent to. *)
LEMMA PublishedKept ==
  ASSUME SeqlockInv, [Next]_vars, \A q \in Props : ~ FlushSerial(q)
  PROVE  [p \in Props |-> Published(p)]' = [p \in Props |-> Published(p)]
<1> SUFFICES ASSUME NEW p \in Props PROVE Published(p)' = Published(p)
  OBVIOUS
<1>1. TypeOK /\ WriterInv
  BY DEF SeqlockInv
<1>2. CASE UNCHANGED mem
  BY <1>2 DEF mem, Published, SourceSlot, Prefix
<1>3. ASSUME NEW i \in Idx, FlushBackup(i) PROVE Published(p)' = Published(p)
  BY <1>1, <1>3, BackupPending DEF FlushBackup, Published, SourceSlot, Prefix
<1>4. ASSUME NEW q \in Props, NEW i \in Idx, FlushValue(q, i) PROVE Published(p)' = Published(p)
  <2>1. q = wprop /\ DirtyVisible
    BY <1>1, <1>4, ValuePending DEF FlushValue
  <2>2. p # q => value'[p] = value[p]
    BY <1>1, <1>4 DEF FlushValue, TypeOK
  <2> QED
    BY <1>4, <2>1, <2>2 DEF FlushValue, DirtyVisible, Published, SourceSlot, Prefix
<1>5. CASE FlushGlobal
  BY <1>5 DEF FlushGlobal, Published, SourceSlot, Prefix
<1>6. CASE Writer \/ Crash \/ (\E r \in Readers : Reader(r)) \/ UNCHANGED vars
  <2>1. UNCHANGED mem
    BY <1>6 DEF Writer, StoreBackup, StoreDirty, StoreValue, StoreClean, BumpGlobal, Crash,
       Reader, ReadCall, LoadSerial, CopyByte, Accept, Retry, vars
  <2> QED
    BY <1>2, <2>1
<1> QED
  BY <1>3, <1>4, <1>5, <1>6 DEF Next, Flush

(* A store is committed by one step, the one that makes the update's clean  *)
(* serial visible; the dirty window and the crash change no property's value. *)
THEOREM SeqlockCommitPoint == Spec => CommitPoint
<1> DEFINE A == \A p \in Props :
                  Published(p)' # Published(p) =>
                    /\ p = wprop
                    /\ serial[p].dirty /\ ~ serial[p].dirty'
                    /\ Published(p)' = wnew
<1>1. SeqlockInv /\ [Next]_vars => A
  <2> SUFFICES ASSUME SeqlockInv, [Next]_vars PROVE A
    OBVIOUS
  <2>1. CASE \E q \in Props : FlushSerial(q)
    BY <2>1, FlushSerialPublishes DEF Commits
  <2>2. CASE \A q \in Props : ~ FlushSerial(q)
    BY <2>2, PublishedKept
  <2> QED
    BY <2>1, <2>2
<1>2. SeqlockInv /\ [Next]_vars => [A]_vars
  BY <1>1
<1> QED
  BY <1>2, SeqlockInvariant, PTL DEF Spec, CommitPoint

(* The announcement bit of the abstract store, step by step. *)
LEMMA AnnouncedKept ==
  ASSUME SeqlockInv, Writer \/ Crash \/ (\E r \in Readers : Reader(r))
  PROVE  Announced' = Announced
<1>1. TypeOK /\ WriterInv
  BY DEF SeqlockInv
<1>2. ASSUME NEW p \in Props, NEW v \in Values, StoreBackup(p, v) PROVE Announced' = Announced
  BY <1>2 DEF StoreBackup, Announced, Drained, mem
<1>3. CASE StoreDirty
  BY <1>1, <1>3 DEF StoreDirty, Announced, WriterInv, PhaseDirty, mem
<1>4. CASE StoreValue
  BY <1>1, <1>4 DEF StoreValue, Announced, Drained, mem
<1>5. CASE StoreClean
  <2>1. serial[wprop].dirty /\ gserial = wgserial
    BY <1>1, <1>5 DEF StoreClean, WriterInv, PhaseClean, DirtyVisible
  <2>2. ~ wserial'[wprop].dirty
    BY <1>1, <1>5 DEF StoreClean, TypeOK
  <2> QED
    BY <1>5, <2>1, <2>2 DEF StoreClean, Announced, mem
<1>6. CASE BumpGlobal
  BY <1>1, <1>6, CounterFacts DEF BumpGlobal, Announced, WriterInv, PhaseDone, TypeOK, mem
<1>7. CASE Crash \/ \E r \in Readers : Reader(r)
  BY <1>7 DEF Crash, Reader, ReadCall, LoadSerial, CopyByte, Accept, Retry, Announced, mem, wview, writer
<1> QED
  BY <1>2, <1>3, <1>4, <1>5, <1>6, <1>7 DEF Writer

(* Every step of the shared memory, the writer and the readers is a step of *)
(* the atomic store, or none.                                               *)
LEMMA StepRefines == SeqlockInv /\ [Next]_vars => [Abs!Next]_(Abs!vars)
<1> SUFFICES ASSUME SeqlockInv, [Next]_vars PROVE [Abs!Next]_(Abs!vars)
  OBVIOUS
<1> DEFINE st == [p \in Props |-> Published(p)]
<1>1. TypeOK /\ WriterInv
  BY DEF SeqlockInv
<1>2. ASSUME NEW p \in Props, FlushSerial(p) PROVE [Abs!Next]_(Abs!vars)
  <2>1. /\ \A q \in Props \ {p} : Published(q)' = Published(q)
        /\ (Published(p)' = Published(p) /\ wpc = "value") \/ Commits(p)
    BY <1>2, FlushSerialPublishes
  <2>2. result' = result
    BY <1>2 DEF FlushSerial, reader
  <2>3. CASE Published(p)' = Published(p) /\ wpc = "value"
    <3>1. Announced /\ Announced'
      BY <1>1, <1>2, <2>3 DEF FlushSerial, Announced, WriterInv, PhaseValue, wview, writer
    <3>2. st' = st
      BY <2>1, <2>3
    <3> QED
      BY <2>2, <3>1, <3>2 DEF Abs!vars
  <2>4. CASE Commits(p)
    <3>1. st' = [st EXCEPT ![p] = wnew]
      BY <2>1, <2>4 DEF Commits
    <3>2. Announced
      BY <1>2 DEF Announced, FlushSerial
    <3>3. serial' = wserial'
      <4>1. \A q \in Props \ {p} : serial[q] = wserial[q]
        BY <1>1, <2>4 DEF Commits, WriterInv, Quiet
      <4> QED
        BY <1>1, <1>2, <4>1 DEF FlushSerial, TypeOK, wview
    <3>4. ~ Announced'
      <4>1. wpc = "bump" \/ gserial # wgserial
        BY <1>1, <1>2, <2>4 DEF Commits, FlushSerial, WriterInv, PhaseDone, Quiet
      <4> QED
        BY <1>2, <3>3, <4>1 DEF Announced, FlushSerial, wview, writer
    <3>5. wnew \in Values
      BY <1>1 DEF TypeOK
    <3>6. Abs!Change(p, wnew)
      BY <2>2, <3>1, <3>2, <3>4 DEF Abs!Change
    <3> QED
      BY <3>5, <3>6 DEF Abs!Next
  <2> QED
    BY <2>1, <2>3, <2>4
<1>3. CASE FlushGlobal
  <2>1. \A q \in Props : ~ FlushSerial(q)
    BY <1>3 DEF FlushGlobal, FlushSerial
  <2>2. st' = st
    BY <2>1, PublishedKept
  <2>3. Announced'
    BY <1>1, <1>3 DEF FlushGlobal, Announced, WriterInv, PhaseDone, TypeOK, wview, writer
  <2>4. Abs!Announce
    BY <1>3, <2>2, <2>3 DEF Abs!Announce, FlushGlobal, reader
  <2> QED
    BY <2>4 DEF Abs!Next
<1>4. ASSUME NEW r \in Readers, Accept(r) PROVE [Abs!Next]_(Abs!vars)
  <2>1. result' = [result EXCEPT ![r] = st[rprop[r]]]
    BY <1>1, <1>4, AcceptFacts DEF TypeOK
  <2>2. st' = st
    BY <1>4 DEF Accept, mem, Published, SourceSlot, Prefix
  <2>3. Announced' = Announced
    BY <1>4, AnnouncedKept DEF Reader
  <2>4. Abs!Read(r, rprop[r])
    BY <2>1, <2>2, <2>3 DEF Abs!Read
  <2> QED
    BY <1>1, <2>4 DEF Abs!Next, TypeOK
<1>5. CASE /\ \A p \in Props : ~ FlushSerial(p)
           /\ ~ FlushGlobal
           /\ \A r \in Readers : ~ Accept(r)
  <2>1. st' = st
    BY <1>5, PublishedKept
  <2>2. result' = result
    BY <1>5 DEF Next, Flush, FlushBackup, FlushValue, Writer, StoreBackup, StoreDirty, StoreValue,
       StoreClean, BumpGlobal, Crash, Reader, ReadCall, LoadSerial, CopyByte, Retry, vars, reader
  <2>3. Announced' = Announced
    <3>1. CASE Writer \/ Crash \/ \E r \in Readers : Reader(r)
      BY <3>1, AnnouncedKept
    <3>2. CASE Flush
      BY <1>5, <3>2 DEF Flush, FlushBackup, FlushValue, Announced, wview, writer
    <3>3. CASE UNCHANGED vars
      BY <3>3 DEF vars, mem, wview, writer, Announced
    <3> QED
      BY <3>1, <3>2, <3>3 DEF Next
  <2> QED
    BY <2>1, <2>2, <2>3 DEF Abs!vars
<1> QED
  BY <1>2, <1>3, <1>4, <1>5

(* update and read_with_callback implement the atomic store: for every      *)
(* interleaving, every order in which the machine makes stores visible and  *)
(* every point at which the writer dies.                                    *)
THEOREM SeqlockAtomicity == Spec => Atomicity
<1>1. Init => Abs!Init
  <2> SUFFICES ASSUME Init PROVE Abs!Init
    OBVIOUS
  <2>1. SeqlockInv
    BY InitInv
  <2>2. \A p \in Props : Published(p) \in Values
    BY <2>1, PublishedFacts DEF SeqlockInv
  <2>3. Announced
    BY DEF Init, Announced
  <2> QED
    BY <2>1, <2>2, <2>3 DEF Abs!Init, SeqlockInv
<1>2. SeqlockInv /\ [Next]_vars => [Abs!Next]_(Abs!vars)
  BY StepRefines
<1> QED
  BY <1>1, <1>2, SeqlockInvariant, PTL DEF Spec, Atomicity, Abs!Spec
=============================================================================
