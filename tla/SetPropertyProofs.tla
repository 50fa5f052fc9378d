--------------------------- MODULE SetPropertyProofs ---------------------------
(***************************************************************************)
(* Proofs about SetProperty for every set of clients, connections and      *)
(* requests and every limit of the service.                                *)
(***************************************************************************)
EXTENDS SetProperty, FiniteSetTheorems, TLAPS

(* The clients' connections are looked at by themselves, further down. *)
TasksInv == TypeOK /\ CallsHaveRequest /\ PermitsConserved /\ OneMessage
Inv      == TasksInv /\ RepliesTrue

(* What one connection more or less does to a count of connections. *)
LEMMA CountFacts ==
  ASSUME NEW S \in SUBSET Conns, NEW k \in Conns
  PROVE  /\ Cardinality(S) \in Nat
         /\ k \notin S => Cardinality(S \cup {k}) = Cardinality(S) + 1
         /\ k \in S => Cardinality(S \ {k}) = Cardinality(S) - 1
<1>1. IsFiniteSet(S)
  BY ConnsAssumption, FS_Subset
<1> QED
  BY <1>1, FS_CardinalityType, FS_AddElement, FS_RemoveElement

(* The counts after the task of one connection has moved on. *)
LEMMA MoveFacts ==
  ASSUME TypeOK, NEW k \in Conns, NEW to, srv' = [srv EXCEPT ![k] = to]
  PROVE  /\ Busy' = IF to \in Handling THEN Busy \cup {k} ELSE Busy \ {k}
         /\ InRoom' = IF to = "waiting" THEN InRoom \cup {k} ELSE InRoom \ {k}
BY DEF TypeOK, Busy, InRoom

(* Permits come back to where they were taken, so they stay in range. *)
LEMMA PermitRange ==
  ASSUME waitSem' \in Int, connSem' \in Int, PermitsConserved', waitSem' >= 0, connSem' >= 0
  PROVE  waitSem' \in 0 .. MaxWaiting /\ connSem' \in 0 .. MaxConcurrent
<1>1. Busy' \in SUBSET Conns /\ InRoom' \in SUBSET Conns
  BY DEF Busy, InRoom
<1>2. Cardinality(Busy') \in Nat /\ Cardinality(InRoom') \in Nat
  BY <1>1, ConnsAssumption, FS_Subset, FS_CardinalityType
<1> QED
  BY <1>2, LimitsAssumption DEF PermitsConserved

(* The sequence of messages: what Append and Tail do to who is queued. *)
LEMMA AppendFacts ==
  ASSUME mailbox \in Seq(Conns), NEW k \in Conns, mailbox' = Append(mailbox, k)
  PROVE  /\ mailbox' \in Seq(Conns)
         /\ \A c \in Conns : Queued(c)' <=> Queued(c) \/ c = k
         /\ ~ Queued(k) /\ (\A i, j \in DOMAIN mailbox : mailbox[i] = mailbox[j] => i = j)
              => (\A i, j \in DOMAIN mailbox' : mailbox'[i] = mailbox'[j] => i = j)
BY DEF Queued

LEMMA TailFacts ==
  ASSUME mailbox \in Seq(Conns), mailbox # <<>>, mailbox' = Tail(mailbox),
         \A i, j \in DOMAIN mailbox : mailbox[i] = mailbox[j] => i = j
  PROVE  /\ mailbox' \in Seq(Conns) /\ Head(mailbox) \in Conns /\ Queued(Head(mailbox))
         /\ \A c \in Conns : Queued(c)' <=> Queued(c) /\ c # Head(mailbox)
         /\ \A i, j \in DOMAIN mailbox' : mailbox'[i] = mailbox'[j] => i = j
<1>1. /\ mailbox' \in Seq(Conns) /\ Head(mailbox) = mailbox[1] /\ 1 \in DOMAIN mailbox
      /\ Len(mailbox') = Len(mailbox) - 1 /\ \A i \in DOMAIN mailbox' : mailbox'[i] = mailbox[i + 1]
      /\ DOMAIN mailbox = 1 .. Len(mailbox) /\ DOMAIN mailbox' = 1 .. Len(mailbox) - 1
      /\ Len(mailbox) \in Nat
  OBVIOUS
<1>2. \A i, j \in DOMAIN mailbox' : mailbox'[i] = mailbox'[j] => i = j
  BY <1>1
<1>3. ASSUME NEW c \in Conns PROVE Queued(c)' <=> Queued(c) /\ c # Head(mailbox)
  <2>1. ASSUME Queued(c)' PROVE Queued(c) /\ c # Head(mailbox)
    BY <1>1, <2>1 DEF Queued
  <2>2. ASSUME Queued(c), c # Head(mailbox) PROVE Queued(c)'
    <3>1. PICK i \in DOMAIN mailbox : mailbox[i] = c
      BY <2>2 DEF Queued
    <3>2. i - 1 \in DOMAIN mailbox' /\ mailbox'[i - 1] = c
      BY <1>1, <2>2, <3>1
    <3> QED
      BY <3>2 DEF Queued
  <2> QED
    BY <2>1, <2>2
<1> QED
  BY <1>1, <1>2, <1>3 DEF Queued

-----------------------------------------------------------------------------
(* Nobody calls, no connection is there. *)
LEMMA InitHolds == Init => Inv
<1> SUFFICES ASSUME Init PROVE Inv
  OBVIOUS
<1>1. TypeOK /\ CallsHaveRequest /\ RepliesTrue /\ OneMessage
  BY RequestsAssumption, LimitsAssumption DEF Init, TypeOK, Handling, CallsHaveRequest, RepliesTrue,
     OneMessage, Queued
<1>2. Busy = {} /\ InRoom = {}
  BY DEF Init, Busy, InRoom, Handling
<1>3. PermitsConserved
  BY <1>2, FS_EmptySet, LimitsAssumption DEF Init, PermitsConserved
<1> QED
  BY <1>1, <1>3 DEF Inv, TasksInv

(* A client's steps touch the service's state only where they open a         *)
(* connection.                                                               *)
LEMMA ClientLeavesService ==
  ASSUME Inv, UNCHANGED <<task, fate, sems, actor>>
  PROVE  PermitsConserved' /\ OneMessage' /\ RepliesTrue'
BY DEF Inv, TasksInv, task, sems, actor, PermitsConserved, Busy, InRoom, OneMessage, RepliesTrue, Queued

LEMMA SetCallInv ==
  ASSUME Inv, NEW c \in Clients, NEW q \in Requests, Set(c, q)
  PROVE  Inv'
<1>1. PermitsConserved' /\ OneMessage' /\ RepliesTrue'
  BY ClientLeavesService DEF Set
<1>2. TypeOK'
  BY DEF Inv, TasksInv, TypeOK, Set, wire, task, sems, actor
<1>3. CallsHaveRequest'
  BY AbsentAssumption DEF Inv, TasksInv, TypeOK, CallsHaveRequest, Set
<1> QED
  BY <1>1, <1>2, <1>3 DEF Inv, TasksInv

LEMMA ConnectInv ==
  ASSUME Inv, NEW c \in Clients, NEW k \in Conns, Connect(c, k)
  PROVE  Inv'
<1> USE DEF Inv, TasksInv
<1>1. creq[c] \in Requests /\ srv[k] = "closed" /\ ~ Queued(k)
  BY DEF TypeOK, CallsHaveRequest, Connect, Free
<1>2. TypeOK'
  BY <1>1 DEF TypeOK, Connect, sems, actor
<1>3. CallsHaveRequest'
  BY ConnsAssumption DEF TypeOK, CallsHaveRequest, Connect
<1>4. Busy' = Busy /\ InRoom' = InRoom
  BY <1>1 DEF TypeOK, Connect, Busy, InRoom, Handling
<1>5. PermitsConserved'
  BY <1>4 DEF Connect, PermitsConserved, sems
<1>6. OneMessage' /\ RepliesTrue'
  BY <1>1 DEF TypeOK, Connect, OneMessage, RepliesTrue, Queued, actor
<1> QED
  BY <1>2, <1>3, <1>5, <1>6

(* The call ends, or its frame is sent. *)
LEMMA CallEndsInv ==
  ASSUME Inv, NEW c \in Clients,
         \/ ConnectFails(c) \/ Send(c) \/ SendFails(c)
         \/ Reply(c) \/ ReplyEof(c) \/ ReplyTimeout(c) \/ Drain(c)
  PROVE  Inv'
<1>1. PermitsConserved' /\ OneMessage' /\ RepliesTrue'
  BY ClientLeavesService DEF ConnectFails, Send, SendFails, Reply, ReplyEof, ReplyTimeout, Drain
<1>2. TypeOK'
  <2>1. TypeOK /\ UNCHANGED <<req, task, fate, sems, actor>>
    BY DEF Inv, TasksInv, ConnectFails, Send, SendFails, Reply, ReplyEof, ReplyTimeout, Drain
  <2>2. sent' \in [Conns -> {"none", "part", "full"}]
    BY <2>1 DEF TypeOK, ConnectFails, Send, SendFails, Reply, ReplyEof, ReplyTimeout, Drain
  <2>3. CASE Send(c)
    BY <2>1, <2>2, <2>3 DEF TypeOK, Send, task, sems, actor
  <2>4. CASE \E res \in {"ok", "io", "rejected"} : Finish(c, res)
    <3>1. open' \in [Conns -> BOOLEAN]
      BY <2>1, <2>4 DEF TypeOK, Finish
    <3> QED
      BY <2>1, <2>2, <2>4, <3>1 DEF TypeOK, Finish, task, sems, actor
  <2> QED
    BY <2>3, <2>4 DEF ConnectFails, SendFails, Reply, ReplyEof, ReplyTimeout, Drain
<1>3. CallsHaveRequest'
  BY DEF Inv, TasksInv, TypeOK, CallsHaveRequest, ConnectFails, Send, SendFails, Reply, ReplyEof,
     ReplyTimeout, Drain, Finish
<1> QED
  BY <1>1, <1>2, <1>3 DEF Inv, TasksInv

-----------------------------------------------------------------------------
(* The socket service: the steps of a task leave the clients alone.        *)

LEMMA AcceptInv ==
  ASSUME Inv, NEW k \in Conns, Accept(k)
  PROVE  Inv'
<1> USE DEF Inv, TasksInv
<1>1. PICK to \in {"waiting", "closed"} :
        /\ srv[k] = "backlog" /\ srv' = [srv EXCEPT ![k] = to]
        /\ \/ to = "waiting" /\ waitSem > 0 /\ waitSem' = waitSem - 1
           \/ to = "closed" /\ waitSem' = waitSem
  BY DEF Accept, Task
<1>2. UNCHANGED <<client, wire, ans, resp, fate, connSem, actor>>
  BY DEF Accept
<1>3. PermitsConserved'
  <2>1. k \notin Busy /\ k \notin InRoom
    BY <1>1 DEF Busy, InRoom, Handling
  <2>2. Busy' = Busy /\ InRoom' = IF to = "waiting" THEN InRoom \cup {k} ELSE InRoom
    <3>1. Busy \ {k} = Busy /\ InRoom \ {k} = InRoom
      BY <2>1
    <3> QED
      BY <1>1, <3>1, MoveFacts DEF Handling
  <2>3. InRoom \in SUBSET Conns
    BY DEF InRoom
  <2>4. /\ Cardinality(InRoom) \in Nat
        /\ Cardinality(InRoom') = Cardinality(InRoom) + (IF to = "waiting" THEN 1 ELSE 0)
    <3>1. /\ Cardinality(InRoom) \in Nat
          /\ Cardinality(InRoom \cup {k}) = Cardinality(InRoom) + 1
      BY <2>1, <2>3, CountFacts
    <3> QED
      BY <2>2, <3>1
  <2>5. /\ waitSem \in Int /\ waitSem' = waitSem - (IF to = "waiting" THEN 1 ELSE 0)
        /\ connSem' = connSem
    BY <1>1, <1>2, LimitsAssumption DEF TypeOK
  <2>6. connSem + Cardinality(Busy) = MaxConcurrent /\ waitSem + Cardinality(InRoom) = MaxWaiting
    BY DEF PermitsConserved
  <2>7. waitSem' + Cardinality(InRoom') = MaxWaiting
    BY <2>4, <2>5, <2>6
  <2> QED
    BY <2>2, <2>5, <2>6, <2>7 DEF PermitsConserved
<1>4. TypeOK'
  <2>1. waitSem' \in 0 .. MaxWaiting /\ connSem' \in 0 .. MaxConcurrent
    BY <1>1, <1>2, <1>3, PermitRange, LimitsAssumption DEF TypeOK
  <2> QED
    BY <1>1, <1>2, <2>1 DEF TypeOK, client, wire, actor
<1>5. CallsHaveRequest'
  BY <1>2 DEF CallsHaveRequest, client
<1>6. OneMessage' /\ RepliesTrue'
  BY <1>1, <1>2 DEF TypeOK, OneMessage, RepliesTrue, Queued, actor
<1> QED
  BY <1>3, <1>4, <1>5, <1>6

LEMMA GetPermitInv ==
  ASSUME Inv, NEW k \in Conns, GetPermit(k)
  PROVE  Inv'
<1> USE DEF Inv, TasksInv
<1>1. srv[k] = "waiting" /\ srv' = [srv EXCEPT ![k] = "reading"]
  BY DEF GetPermit, Task
<1>2. PermitsConserved'
  <2>1. k \notin Busy /\ k \in InRoom
    BY <1>1 DEF Busy, InRoom, Handling
  <2>2. Busy' = Busy \cup {k} /\ InRoom' = InRoom \ {k}
    BY <1>1, MoveFacts DEF Handling
  <2>3. InRoom \in SUBSET Conns /\ Busy \in SUBSET Conns
    BY DEF InRoom, Busy
  <2>4. Cardinality(Busy') = Cardinality(Busy) + 1 /\ Cardinality(InRoom') = Cardinality(InRoom) - 1
        /\ Cardinality(Busy) \in Nat /\ Cardinality(InRoom) \in Nat
    BY <2>1, <2>2, <2>3, CountFacts
  <2>5. waitSem \in Int /\ connSem \in Int /\ waitSem' = waitSem + 1 /\ connSem' = connSem - 1
    BY LimitsAssumption DEF GetPermit, TypeOK
  <2>6. connSem + Cardinality(Busy) = MaxConcurrent /\ waitSem + Cardinality(InRoom) = MaxWaiting
    BY DEF PermitsConserved
  <2> QED
    BY <2>4, <2>5, <2>6 DEF PermitsConserved
<1>3. TypeOK'
  <2>1. waitSem' \in 0 .. MaxWaiting /\ connSem' \in 0 .. MaxConcurrent
    BY <1>2, PermitRange, LimitsAssumption DEF TypeOK, GetPermit
  <2> QED
    BY <1>1, <2>1 DEF TypeOK, GetPermit, Handling, client, wire, actor
<1>4. CallsHaveRequest'
  BY DEF GetPermit, CallsHaveRequest, client
<1>5. OneMessage' /\ RepliesTrue'
  BY <1>1 DEF GetPermit, TypeOK, OneMessage, RepliesTrue, Queued, actor
<1> QED
  BY <1>2, <1>3, <1>4, <1>5

LEMMA WaitExpiresInv ==
  ASSUME Inv, NEW k \in Conns, WaitExpires(k)
  PROVE  Inv'
<1> USE DEF Inv, TasksInv
<1>1. srv[k] = "waiting" /\ srv' = [srv EXCEPT ![k] = "closed"]
  BY DEF WaitExpires, Task
<1>2. PermitsConserved'
  <2>1. k \notin Busy /\ k \in InRoom
    BY <1>1 DEF Busy, InRoom, Handling
  <2>2. Busy' = Busy /\ InRoom' = InRoom \ {k}
    <3>1. Busy \ {k} = Busy
      BY <2>1
    <3>2. Busy' = Busy \ {k} /\ InRoom' = InRoom \ {k}
      BY <1>1 DEF TypeOK, Busy, InRoom, Handling
    <3> QED
      BY <3>1, <3>2
  <2>3. InRoom \in SUBSET Conns
    BY DEF InRoom
  <2>4. Cardinality(InRoom') = Cardinality(InRoom) - 1 /\ Cardinality(InRoom) \in Nat
    BY <2>1, <2>2, <2>3, CountFacts
  <2> QED
    BY <2>2, <2>4, LimitsAssumption DEF WaitExpires, PermitsConserved, TypeOK
<1>3. TypeOK'
  <2>1. waitSem' \in 0 .. MaxWaiting /\ connSem' \in 0 .. MaxConcurrent
    BY <1>2, PermitRange, LimitsAssumption DEF TypeOK, WaitExpires
  <2> QED
    BY <1>1, <2>1 DEF TypeOK, WaitExpires, client, wire, actor
<1>4. CallsHaveRequest'
  BY DEF WaitExpires, CallsHaveRequest, client
<1>5. OneMessage' /\ RepliesTrue'
  BY <1>1 DEF WaitExpires, TypeOK, OneMessage, RepliesTrue, Queued, actor
<1> QED
  BY <1>2, <1>3, <1>4, <1>5

LEMMA ReadFrameInv ==
  ASSUME Inv, NEW k \in Conns, ReadFrame(k)
  PROVE  Inv'
<1> USE DEF Inv, TasksInv
<1>1. PICK to \in {"asking", "answer"} :
        /\ srv[k] = "reading" /\ srv' = [srv EXCEPT ![k] = to]
        /\ mailbox' = IF to = "asking" THEN Append(mailbox, k) ELSE mailbox
  BY DEF ReadFrame, Task
<1>2. UNCHANGED <<client, wire, ans, resp, fate, sems, alive, store>>
  BY DEF ReadFrame
<1>3. mailbox \in Seq(Conns) /\ ~ Queued(k)
  BY <1>1 DEF TypeOK, OneMessage
<1>4. Busy' = Busy /\ InRoom' = InRoom
  BY <1>1 DEF TypeOK, Busy, InRoom, Handling
<1>5. PermitsConserved'
  BY <1>2, <1>4 DEF PermitsConserved, sems
<1>6. TypeOK'
  BY <1>1, <1>2, <1>3, AppendFacts DEF TypeOK, Handling, client, wire, sems
<1>7. CallsHaveRequest'
  BY <1>2 DEF CallsHaveRequest, client
<1>8. OneMessage' /\ RepliesTrue'
  <2>1. CASE to = "asking"
    <3>1. \A c \in Conns : Queued(c)' <=> Queued(c) \/ c = k
      BY <1>1, <1>3, <2>1, AppendFacts
    <3>2. \A i, j \in DOMAIN mailbox' : mailbox'[i] = mailbox'[j] => i = j
      BY <1>1, <1>3, <2>1, AppendFacts DEF OneMessage
    <3>3. /\ ~ ans[k] /\ fate[k] = "none" /\ resp[k] = "none"
          /\ srv'[k] = "asking" /\ \A c \in Conns \ {k} : srv'[c] = srv[c]
      BY <1>1, <2>1 DEF TypeOK, OneMessage
    <3> QED
      BY <1>2, <3>1, <3>2, <3>3 DEF OneMessage, RepliesTrue
  <2>2. CASE to = "answer"
    BY <1>1, <1>2, <1>3, <2>2 DEF TypeOK, OneMessage, RepliesTrue, Queued
  <2> QED
    BY <2>1, <2>2
<1> QED
  BY <1>5, <1>6, <1>7, <1>8

(* A task gives its handler permit back: the peer left, the answer is sent,  *)
(* or its time is over.                                                      *)
LEMMA TaskEndsInv ==
  ASSUME Inv, NEW k \in Conns, ReadEof(k) \/ Answer(k) \/ HandlerExpires(k)
  PROVE  Inv'
<1> USE DEF Inv, TasksInv
<1>1. srv[k] \in Handling /\ srv' = [srv EXCEPT ![k] = "closed"] /\ connSem' = connSem + 1
  BY DEF ReadEof, Answer, HandlerExpires, Task, Handling
<1>2. UNCHANGED <<client, wire, ans, fate, waitSem, actor>>
  BY DEF ReadEof, Answer, HandlerExpires
<1>3. PermitsConserved'
  <2>1. k \in Busy /\ k \notin InRoom
    BY <1>1 DEF Busy, InRoom, Handling
  <2>2. Busy' = Busy \ {k} /\ InRoom' = InRoom
    <3>1. InRoom \ {k} = InRoom
      BY <2>1
    <3>2. Busy' = Busy \ {k} /\ InRoom' = InRoom \ {k}
      BY <1>1 DEF TypeOK, Busy, InRoom, Handling
    <3> QED
      BY <3>1, <3>2
  <2>3. Busy \in SUBSET Conns
    BY DEF Busy
  <2>4. Cardinality(Busy') = Cardinality(Busy) - 1 /\ Cardinality(Busy) \in Nat
    BY <2>1, <2>2, <2>3, CountFacts
  <2> QED
    BY <1>1, <1>2, <2>2, <2>4, LimitsAssumption DEF PermitsConserved, TypeOK
<1>4. resp' \in [Conns -> {"none", "ok", "error"}]
  BY DEF TypeOK, ReadEof, Answer, HandlerExpires
<1>5. TypeOK'
  <2>1. waitSem' \in 0 .. MaxWaiting /\ connSem' \in 0 .. MaxConcurrent
    BY <1>1, <1>2, <1>3, PermitRange, LimitsAssumption DEF TypeOK
  <2> QED
    BY <1>1, <1>2, <1>4, <2>1 DEF TypeOK, client, wire, actor
<1>6. CallsHaveRequest'
  BY <1>2 DEF CallsHaveRequest, client
<1>7. OneMessage' /\ RepliesTrue'
  <2>1. CASE resp' = resp
    BY <1>1, <1>2, <2>1 DEF TypeOK, OneMessage, RepliesTrue, Queued, actor
  <2>2. CASE Answer(k)
    BY <1>1, <1>2, <2>2 DEF Answer, Task, TypeOK, OneMessage, RepliesTrue, Queued, actor
  <2> QED
    BY <2>1, <2>2 DEF ReadEof, HandlerExpires
<1> QED
  BY <1>3, <1>5, <1>6, <1>7

-----------------------------------------------------------------------------
(* The actor.                                                              *)

(* What the store holds after a message. *)
LEMMA StoredFacts ==
  ASSUME TypeOK, NEW q \in Requests, NEW ok \in BOOLEAN, Stored(q, ok)
  PROVE  /\ store' \in [Names -> Values \cup {Absent}]
         /\ \A n \in Names \cap ReadOnly : store[n] # Absent => store'[n] = store[n]
<1>1. q.name \in Names /\ q.value \in Values
  BY DEF Names, Values
<1> QED
  BY <1>1 DEF TypeOK, Stored, Updatable

LEMMA HandleInv ==
  ASSUME Inv, Handle
  PROVE  /\ Inv'
         /\ \A n \in Names \cap ReadOnly : store[n] # Absent => store'[n] = store[n]
<1> USE DEF Inv, TasksInv
<1> DEFINE k == Head(mailbox)
<1>1. PICK ok \in BOOLEAN :
        /\ Stored(req[k], ok)
        /\ fate' = [fate EXCEPT ![k] = IF ok THEN "applied" ELSE "refused"]
        /\ srv' = [srv EXCEPT ![k] = IF srv[k] = "asking" THEN "answer" ELSE srv[k]]
        /\ ans' = [ans EXCEPT ![k] = ok]
  BY DEF Handle
<1>2. UNCHANGED <<client, wire, resp, sems, alive>>
  BY DEF Handle
<1>3. /\ mailbox' \in Seq(Conns) /\ k \in Conns /\ Queued(k)
      /\ \A c \in Conns : Queued(c)' <=> Queued(c) /\ c # k
      /\ \A i, j \in DOMAIN mailbox' : mailbox'[i] = mailbox'[j] => i = j
  BY TailFacts DEF Handle, OneMessage, TypeOK
<1>4. srv[k] \in {"asking", "closed"} /\ resp[k] = "none" /\ req[k] \in Requests
  BY <1>3 DEF OneMessage, TypeOK
<1>5. Busy' = Busy /\ InRoom' = InRoom
  BY <1>1, <1>3, <1>4 DEF TypeOK, Busy, InRoom, Handling
<1>6. PermitsConserved'
  BY <1>2, <1>5 DEF PermitsConserved, sems
<1>7. TypeOK'
  BY <1>1, <1>2, <1>3, <1>4, StoredFacts DEF TypeOK, Handling, client, wire, sems
<1>8. CallsHaveRequest'
  BY <1>2 DEF CallsHaveRequest, client
<1>9. OneMessage' /\ RepliesTrue'
  <2>1. /\ fate'[k] = (IF ok THEN "applied" ELSE "refused") /\ ans'[k] = ok
        /\ srv'[k] = (IF srv[k] = "asking" THEN "answer" ELSE "closed") /\ resp'[k] = "none"
    BY <1>1, <1>2, <1>3, <1>4 DEF TypeOK
  <2>2. \A c \in Conns \ {k} : /\ fate'[c] = fate[c] /\ ans'[c] = ans[c] /\ srv'[c] = srv[c]
                               /\ resp'[c] = resp[c] /\ (Queued(c)' <=> Queued(c))
    BY <1>1, <1>2, <1>3 DEF TypeOK
  <2>3. OneMessage'
    BY <1>3, <1>4, <2>1, <2>2 DEF OneMessage
  <2>4. RepliesTrue'
    BY <2>1, <2>2 DEF RepliesTrue
  <2> QED
    BY <2>3, <2>4
<1> QED
  BY <1>1, <1>4, <1>6, <1>7, <1>8, <1>9, StoredFacts

LEMMA ActorStopsInv ==
  ASSUME Inv, ActorStops
  PROVE  Inv'
<1> USE DEF Inv, TasksInv
<1>1. Busy' = Busy /\ InRoom' = InRoom
  BY DEF ActorStops, Busy, InRoom, Handling
<1>2. PermitsConserved'
  BY <1>1 DEF ActorStops, PermitsConserved, sems
<1>3. TypeOK'
  <2>1. srv' \in [Conns -> {"backlog", "waiting", "closed"} \cup Handling]
    BY DEF ActorStops, TypeOK, Handling
  <2>2. mailbox' \in Seq(Conns)
    BY DEF ActorStops
  <2> QED
    BY <2>1, <2>2 DEF ActorStops, TypeOK, client, wire, sems
<1>4. CallsHaveRequest'
  BY DEF ActorStops, CallsHaveRequest, client
<1>5. \A k \in Conns : ~ Queued(k)'
  BY DEF ActorStops, Queued
<1>6. OneMessage' /\ RepliesTrue'
  BY <1>5 DEF ActorStops, TypeOK, OneMessage, RepliesTrue
<1> QED
  BY <1>2, <1>3, <1>4, <1>6

-----------------------------------------------------------------------------
(* Every step keeps the invariant. *)
LEMMA StepInv == Inv /\ [Next]_vars => Inv'
<1> SUFFICES ASSUME Inv, [Next]_vars PROVE Inv'
  OBVIOUS
<1>1. CASE UNCHANGED vars
  <2>1. PermitsConserved' /\ OneMessage' /\ RepliesTrue'
    BY <1>1, ClientLeavesService DEF vars
  <2> QED
    BY <1>1, <2>1 DEF vars, client, wire, task, sems, actor, Inv, TasksInv, TypeOK, CallsHaveRequest
<1>2. ASSUME NEW c \in Clients, Client(c) PROVE Inv'
  BY <1>2, SetCallInv, ConnectInv, CallEndsInv DEF Client, Calling
<1>3. ASSUME NEW k \in Conns, Accept(k) \/ Serving(k) PROVE Inv'
  BY <1>3, AcceptInv, GetPermitInv, WaitExpiresInv, ReadFrameInv, TaskEndsInv DEF Serving
<1>4. CASE Handle \/ ActorStops
  BY <1>4, HandleInv, ActorStopsInv
<1> QED
  BY <1>1, <1>2, <1>3, <1>4 DEF Next

LEMMA Invariant == Spec => []Inv
<1> QED
  BY InitHolds, StepInv, PTL DEF Spec

-----------------------------------------------------------------------------
(* The clients and their connections.                                      *)

(* A call ends and leaves its connection. *)
LEMMA FinishOwn ==
  ASSUME TypeOK, OwnConnection, NEW c \in Clients, NEW res, Finish(c, res), UNCHANGED req
  PROVE  OwnConnection'
<1>1. /\ cpc' = [cpc EXCEPT ![c] = "idle"] /\ creq' = [creq EXCEPT ![c] = Absent]
      /\ ccon' = [ccon EXCEPT ![c] = Absent]
      /\ \A k \in Conns : open'[k] = (open[k] /\ k # ccon[c])
  BY DEF Finish
<1>2. cpc'[c] = "idle" /\ creq'[c] = Absent /\ ccon'[c] = Absent
  BY <1>1 DEF TypeOK
<1>3. \A d \in Clients \ {c} : cpc'[d] = cpc[d] /\ creq'[d] = creq[d] /\ ccon'[d] = ccon[d]
  BY <1>1 DEF TypeOK
<1>4. ASSUME NEW d \in Clients \ {c}, ccon[d] # Absent
      PROVE  open'[ccon[d]] /\ \A b \in Clients \ {d} : ccon'[b] # ccon[d]
  <2>1. ccon[d] \in Conns /\ open[ccon[d]] /\ ccon[d] # ccon[c]
    BY <1>4 DEF TypeOK, OwnConnection
  <2>2. open'[ccon[d]]
    BY <1>1, <2>1
  <2>3. \A b \in Clients \ {d} : ccon'[b] # ccon[d]
    BY <1>2, <1>3, <1>4 DEF OwnConnection
  <2> QED
    BY <2>2, <2>3
<1> QED
  BY <1>2, <1>3, <1>4 DEF OwnConnection

(* A connection that is made belonged to nobody. *)
LEMMA ConnectOwn ==
  ASSUME Inv, OwnConnection, NEW c \in Clients, NEW k \in Conns, Connect(c, k)
  PROVE  OwnConnection'
<1>1. TypeOK /\ ~ open[k] /\ Absent \notin Conns /\ cpc[c] = "connect"
  BY ConnsAssumption DEF Inv, TasksInv, Connect, Free
<1>2. \A d \in Clients : ccon[d] # k
  BY <1>1 DEF OwnConnection
<1>3. cpc'[c] = "send" /\ creq'[c] = Absent /\ ccon'[c] = k /\ open'[k]
  BY <1>1 DEF Connect, TypeOK
<1>4. \A d \in Clients \ {c} : cpc'[d] = cpc[d] /\ creq'[d] = creq[d] /\ ccon'[d] = ccon[d]
  BY <1>1 DEF Connect, TypeOK
<1>5. \A h \in Conns \ {k} : open'[h] = open[h] /\ req'[h] = req[h]
  BY <1>1 DEF Connect, TypeOK
<1>6. ASSUME NEW d \in Clients \ {c}
      PROVE  /\ cpc[d] = "drain" => req'[ccon[d]].ver = 1
             /\ ccon[d] # Absent => open'[ccon[d]] /\ \A b \in Clients \ {d} : ccon'[b] # ccon[d]
  <2>1. CASE ccon[d] = Absent
    BY <2>1 DEF Inv, TasksInv, CallsHaveRequest
  <2>2. CASE ccon[d] # Absent
    <3>1. ccon[d] \in Conns \ {k}
      BY <1>1, <1>2, <2>2 DEF TypeOK
    <3> QED
      BY <1>2, <1>3, <1>4, <1>5, <2>2, <3>1 DEF OwnConnection
  <2> QED
    BY <2>1, <2>2
<1> QED
  BY <1>2, <1>3, <1>4, <1>6 DEF OwnConnection

LEMMA OwnStep == Inv /\ OwnConnection /\ [Next]_vars => OwnConnection'
<1> SUFFICES ASSUME Inv, OwnConnection, [Next]_vars PROVE OwnConnection'
  OBVIOUS
<1>1. TypeOK
  BY DEF Inv, TasksInv
<1>2. CASE UNCHANGED <<client, wire>>
  BY <1>2 DEF OwnConnection, client, wire
<1>3. ASSUME NEW c \in Clients, Client(c) PROVE OwnConnection'
  <2>1. CASE \E q \in Requests : Set(c, q)
    BY <1>1, <2>1, AbsentAssumption DEF Set, TypeOK, OwnConnection, wire
  <2>2. CASE \E k \in Conns : Connect(c, k)
    BY <2>2, ConnectOwn
  <2>3. CASE Send(c)
    <3>1. ccon[c] \in Conns /\ req[ccon[c]].ver \in {1, 2} /\ cpc[c] = "send"
      BY <1>1, <2>3, RequestsAssumption DEF Inv, TasksInv, CallsHaveRequest, TypeOK, Send
    <3>2. /\ cpc'[c] = IF req[ccon[c]].ver = 2 THEN "reply" ELSE "drain"
          /\ \A d \in Clients \ {c} : cpc'[d] = cpc[d]
      BY <1>1, <2>3 DEF Send, TypeOK
    <3>3. UNCHANGED <<creq, ccon, req, open>>
      BY <2>3 DEF Send
    <3> QED
      BY <3>1, <3>2, <3>3 DEF OwnConnection
  <2>4. CASE UNCHANGED req /\ \E res \in {"ok", "io", "rejected"} : Finish(c, res)
    BY <1>1, <2>4, FinishOwn
  <2> QED
    BY <1>3, <2>1, <2>2, <2>3, <2>4
    DEF Client, Calling, ConnectFails, SendFails, Reply, ReplyEof, ReplyTimeout, Drain
<1>4. ASSUME NEW k \in Conns, Accept(k) \/ Serving(k) PROVE OwnConnection'
  BY <1>2, <1>4 DEF Accept, Serving, GetPermit, WaitExpires, ReadFrame, ReadEof, Answer, HandlerExpires
<1>5. CASE Handle \/ ActorStops
  BY <1>2, <1>5 DEF Handle, ActorStops
<1>6. CASE UNCHANGED vars
  BY <1>2, <1>6 DEF vars
<1> QED
  BY <1>3, <1>4, <1>5, <1>6 DEF Next

LEMMA OwnInvariant == Spec => []OwnConnection
<1>1. Init => OwnConnection
  BY DEF Init, OwnConnection
<1> QED
  BY <1>1, OwnStep, Invariant, PTL DEF Spec

(* Permits are conserved on every path of every connection, and a connection *)
(* never has more than one message and one client, for any limits and any    *)
(* clients.                                                                  *)
THEOREM PermitsInvariant == Spec => []SetInv
<1>1. Inv /\ OwnConnection => SetInv
  BY DEF Inv, TasksInv, SetInv
<1> QED
  BY <1>1, Invariant, OwnInvariant, PTL

(* A V2 reply is true, whatever timed out, was dropped or stopped before it  *)
(* (handle_setprop2, recv_i32).                                              *)
THEOREM RepliesAreTrue == Spec => []RepliesTrue
<1>1. Inv => RepliesTrue
  BY DEF Inv
<1> QED
  BY <1>1, Invariant, PTL

(* Read-only properties are write-once, whoever's message is handled when    *)
(* (SystemProperties::set).                                                  *)
THEOREM ReadOnlyKept == Spec => ReadOnlyWriteOnce
<1> DEFINE Kept == \A n \in Names \cap ReadOnly : store[n] # Absent => store'[n] = store[n]
<1>1. Inv /\ [Next]_vars => [Kept]_vars
  <2> SUFFICES ASSUME Inv, Next PROVE Kept
    OBVIOUS
  <2>1. CASE Handle
    BY <2>1, HandleInv
  <2>2. CASE ~ Handle
    <3>1. store' = store
      BY <2>2 DEF Next, Client, Calling, Set, Connect, ConnectFails, Send, SendFails, Reply, ReplyEof,
         ReplyTimeout, Drain, Accept, Serving, GetPermit, WaitExpires, ReadFrame, ReadEof, Answer,
         HandlerExpires, ActorStops, actor
    <3> QED
      BY <3>1
  <2> QED
    BY <2>1, <2>2
<1> QED
  BY <1>1, Invariant, PTL DEF Spec, ReadOnlyWriteOnce

-----------------------------------------------------------------------------
(* SetProperty implements RemoteSet.                                       *)

Early == {"backlog", "waiting", "reading"}

(* The effect of a request, as the service sees it. *)
LEMMA EffectFacts ==
  ASSUME NEW k \in Conns
  PROVE  /\ Effect[k] = IF Queued(k) \/ srv[k] \in Early THEN "pending"
                        ELSE IF fate[k] = "applied" THEN "applied" ELSE "void"
         /\ Effect'[k] = IF Queued(k)' \/ srv'[k] \in Early THEN "pending"
                         ELSE IF fate'[k] = "applied" THEN "applied" ELSE "void"
BY DEF Effect, Early

(* What a client does on its own moves no request. *)
LEMMA EffectKept ==
  ASSUME UNCHANGED <<task, fate, actor>>
  PROVE  Effect' = Effect
BY DEF Effect, Queued, task, actor

(* One request's effect changes. *)
LEMMA EffectSet ==
  ASSUME NEW k \in Conns, NEW e, Effect'[k] = e,
         \A h \in Conns \ {k} : (Queued(h)' <=> Queued(h)) /\ srv'[h] = srv[h] /\ fate'[h] = fate[h]
  PROVE  Effect' = [Effect EXCEPT ![k] = e]
<1>1. \A h \in Conns \ {k} : Effect'[h] = Effect[h]
  BY EffectFacts
<1>2. DOMAIN Effect' = Conns /\ DOMAIN Effect = Conns
  BY DEF Effect
<1>3. Effect' = [h \in Conns |-> Effect'[h]] /\ Effect = [h \in Conns |-> Effect[h]]
  BY DEF Effect
<1> QED
  BY <1>1, <1>2, <1>3

(* A step of the service drops one request, or none. *)
LEMMA RemoteDrop ==
  ASSUME NEW k \in Conns, UNCHANGED <<client, req, store>>,
         \A h \in Conns \ {k} : (Queued(h)' <=> Queued(h)) /\ srv'[h] = srv[h] /\ fate'[h] = fate[h],
         (Effect[k] = "pending" /\ Effect'[k] = "void") \/ Effect'[k] = Effect[k]
  PROVE  Remote!Next \/ UNCHANGED Remote!vars
<1>1. UNCHANGED <<store, creq, ccon, req, cres>>
  BY DEF client
<1>2. CASE Effect[k] = "pending" /\ Effect'[k] = "void"
  <2>1. Effect' = [Effect EXCEPT ![k] = "void"]
    BY <1>2, EffectSet
  <2>2. Effect' = [h \in Conns |-> IF h \in {k} THEN "void" ELSE Effect[h]]
    BY <2>1 DEF Effect
  <2>3. Remote!Drop({k})
    BY <1>1, <1>2, <2>2 DEF Remote!Drop
  <2>4. {k} \in SUBSET Conns
    OBVIOUS
  <2> QED
    BY <2>3, <2>4 DEF Remote!Next
<1>3. CASE Effect'[k] = Effect[k]
  <2>1. Effect' = [Effect EXCEPT ![k] = Effect[k]]
    BY <1>3, EffectSet
  <2>2. Effect' = Effect
    BY <2>1 DEF Effect
  <2> QED
    BY <1>1, <2>2 DEF Remote!vars
<1> QED
  BY <1>2, <1>3

LEMMA RemoteInit == Init => Remote!Init
<1> SUFFICES ASSUME Init PROVE Remote!Init
  OBVIOUS
<1>1. \A k \in Conns : ~ Queued(k) /\ srv[k] = "closed" /\ fate[k] = "none"
  BY DEF Init, Queued
<1>2. Effect = [k \in Conns |-> "void"]
  BY <1>1 DEF Effect
<1>3. req \in [Conns -> Requests]
  BY RequestsAssumption DEF Init
<1> QED
  BY <1>2, <1>3 DEF Init, Remote!Init, Names

(* The call begins, or is turned away. *)
LEMMA RemoteSetCall ==
  ASSUME Inv, OwnConnection, NEW c \in Clients, NEW q \in Requests, Set(c, q)
  PROVE  Remote!Next
<1>1. TypeOK /\ creq[c] = Absent /\ ccon[c] = Absent
  BY DEF Inv, TasksInv, OwnConnection, Set
<1>2. UNCHANGED <<store, ccon, req>> /\ Effect' = Effect
  BY EffectKept DEF Set, wire, actor
<1>3. CASE Valid(q)
  <2>1. Remote!Call(c, q)
    BY <1>1, <1>2, <1>3 DEF Set, Remote!Call
  <2> QED
    BY <2>1 DEF Remote!Next
<1>4. CASE ~ Valid(q)
  <2>1. ccon' = [ccon EXCEPT ![c] = Absent]
    BY <1>1, <1>2 DEF TypeOK
  <2>2. creq' = [creq EXCEPT ![c] = Absent] /\ cres' = [cres EXCEPT ![c] = "invalid"]
    BY <1>4 DEF Set
  <2>3. Remote!Truthful(c, "invalid")
    BY <1>1 DEF Remote!Truthful
  <2>4. Remote!Return(c, "invalid")
    BY <1>2, <2>1, <2>2, <2>3 DEF Remote!Return
  <2> QED
    BY <2>4 DEF Remote!Next
<1> QED
  BY <1>3, <1>4

LEMMA RemoteConnect ==
  ASSUME Inv, OwnConnection, NEW c \in Clients, NEW k \in Conns, Connect(c, k)
  PROVE  Remote!Next
<1>1. /\ TypeOK /\ ~ open[k] /\ srv[k] = "closed" /\ ~ Queued(k)
      /\ Absent \notin Conns /\ creq[c] # Absent
  BY ConnsAssumption DEF Inv, TasksInv, CallsHaveRequest, Connect, Free
<1>2. \A d \in Clients : ccon[d] # k
  BY <1>1 DEF OwnConnection
<1>3. Effect[k] # "pending"
  BY <1>1, EffectFacts DEF Early
<1>4. Effect' = [Effect EXCEPT ![k] = "pending"]
  <2>1. \A h \in Conns : Queued(h)' <=> Queued(h)
    BY DEF Connect, Queued, actor
  <2>2. \A h \in Conns \ {k} : srv'[h] = srv[h] /\ fate'[h] = fate[h]
    BY <1>1 DEF Connect, TypeOK
  <2>3. srv'[k] = "backlog"
    BY <1>1 DEF Connect, TypeOK
  <2>4. Effect'[k] = "pending"
    BY <2>3, EffectFacts DEF Early
  <2> QED
    BY <2>1, <2>2, <2>4, EffectSet
<1>5. Remote!HandOver(c, k)
  BY <1>1, <1>2, <1>3, <1>4 DEF Connect, actor, Remote!HandOver
<1> QED
  BY <1>5 DEF Remote!Next

(* The call ends, with a result that is true. *)
LEMMA RemoteReturn ==
  ASSUME NEW c \in Clients, NEW res \in {"ok", "io", "rejected"},
         Finish(c, res), UNCHANGED <<req, task, fate, actor>>, Remote!Truthful(c, res)
  PROVE  Remote!Next
<1>1. UNCHANGED <<store, req>> /\ Effect' = Effect
  BY EffectKept DEF actor
<1>2. Remote!Return(c, res)
  BY <1>1 DEF Finish, Remote!Return
<1> QED
  BY <1>2 DEF Remote!Next

LEMMA RemoteCallEnds ==
  ASSUME Inv, OwnConnection, NEW c \in Clients,
         ConnectFails(c) \/ SendFails(c) \/ Reply(c) \/ ReplyEof(c) \/ ReplyTimeout(c) \/ Drain(c)
  PROVE  Remote!Next
<1>1. UNCHANGED <<req, task, fate, actor>>
  BY DEF ConnectFails, SendFails, Reply, ReplyEof, ReplyTimeout, Drain
<1>2. CASE Finish(c, "io")
  BY <1>1, <1>2, RemoteReturn DEF Remote!Truthful
<1>3. CASE Drain(c)
  <2>1. ccon[c] # Absent /\ req[ccon[c]].ver = 1
    BY <1>3 DEF Inv, TasksInv, CallsHaveRequest, OwnConnection, Drain
  <2>2. Remote!Truthful(c, "ok")
    BY <2>1 DEF Remote!Truthful
  <2> QED
    BY <1>1, <1>3, <2>2, RemoteReturn DEF Drain
<1>4. CASE Reply(c)
  <2>1. PICK k \in Conns : k = ccon[c] /\ ccon[c] # Absent /\ resp[k] \in {"ok", "error"}
    BY <1>4 DEF Inv, TasksInv, CallsHaveRequest, TypeOK, Reply
  <2>2. ~ Queued(k) /\ srv[k] \notin Early
    BY <2>1 DEF Inv, TasksInv, OneMessage, Early
  <2>3. /\ resp[k] = "ok" => Effect[k] = "applied"
        /\ resp[k] = "error" => Effect[k] = "void"
    BY <2>1, <2>2, EffectFacts DEF Inv, RepliesTrue
  <2>4. CASE resp[k] = "ok"
    <3>1. Finish(c, "ok") /\ Remote!Truthful(c, "ok")
      BY <1>4, <2>1, <2>3, <2>4 DEF Reply, Remote!Truthful
    <3> QED
      BY <1>1, <3>1, RemoteReturn
  <2>5. CASE resp[k] = "error"
    <3>1. Finish(c, "rejected") /\ Remote!Truthful(c, "rejected")
      BY <1>4, <2>1, <2>3, <2>5 DEF Reply, Remote!Truthful
    <3> QED
      BY <1>1, <3>1, RemoteReturn
  <2> QED
    BY <2>1, <2>4, <2>5
<1> QED
  BY <1>2, <1>3, <1>4 DEF ConnectFails, SendFails, ReplyEof, ReplyTimeout

(* The service's tasks: a request is dropped, or moves on unnoticed. *)
LEMMA RemoteTask ==
  ASSUME Inv, NEW k \in Conns, Accept(k) \/ Serving(k)
  PROVE  Remote!Next \/ UNCHANGED Remote!vars
<1>1. /\ TypeOK /\ UNCHANGED <<client, req, store, fate>>
      /\ \A h \in Conns \ {k} : srv'[h] = srv[h] /\ fate'[h] = fate[h]
  BY DEF Inv, TasksInv, TypeOK, Accept, Serving, GetPermit, WaitExpires, ReadFrame, ReadEof, Answer,
     HandlerExpires, Task, wire, actor
<1>2. \A h \in Conns \ {k} : Queued(h)' <=> Queued(h)
  <2>1. CASE ReadFrame(k)
    <3>1. mailbox' = Append(mailbox, k) \/ mailbox' = mailbox
      BY <2>1 DEF ReadFrame
    <3> QED
      BY <1>1, <3>1, AppendFacts DEF TypeOK, Queued
  <2>2. CASE mailbox' = mailbox
    BY <2>2 DEF Queued
  <2> QED
    BY <2>1, <2>2 DEF Accept, Serving, GetPermit, WaitExpires, ReadEof, Answer, HandlerExpires, actor
<1>3. (Effect[k] = "pending" /\ Effect'[k] = "void") \/ Effect'[k] = Effect[k]
  <2>1. Queued(k) \/ srv[k] \in Early => fate[k] = "none"
    BY DEF Inv, TasksInv, OneMessage, Early
  <2>2. CASE Queued(k)' <=> Queued(k)
    <3>1. \/ srv'[k] \notin Early
          \/ srv[k] \in Early /\ srv'[k] \in Early
      BY <1>1 DEF TypeOK, Accept, Serving, GetPermit, WaitExpires, ReadFrame, ReadEof, Answer,
         HandlerExpires, Task, Early, Handling
    <3> QED
      BY <1>1, <2>1, <2>2, <3>1, EffectFacts
  <2>3. CASE ~ (Queued(k)' <=> Queued(k))
    <3>1. srv[k] = "reading" /\ Queued(k)'
      <4>1. ReadFrame(k) /\ mailbox' = Append(mailbox, k)
        BY <2>3 DEF Queued, Accept, Serving, GetPermit, WaitExpires, ReadFrame, ReadEof, Answer,
           HandlerExpires, actor
      <4> QED
        BY <1>1, <4>1, AppendFacts DEF TypeOK, ReadFrame, Task
    <3> QED
      BY <3>1, EffectFacts DEF Early
  <2> QED
    BY <2>2, <2>3
<1> QED
  BY <1>1, <1>2, <1>3, RemoteDrop

(* The actor handles a message: its request is applied or refused. *)
LEMMA RemoteHandle ==
  ASSUME Inv, Handle
  PROVE  Remote!Next \/ UNCHANGED Remote!vars
<1>1. PICK k \in Conns : k = Head(mailbox) /\ Queued(k) /\ \A c \in Conns : Queued(c)' <=> Queued(c) /\ c # k
  BY TailFacts DEF Handle, Inv, TasksInv, OneMessage, TypeOK
<1>2. PICK ok \in BOOLEAN :
        /\ Stored(req[k], ok)
        /\ fate' = [fate EXCEPT ![k] = IF ok THEN "applied" ELSE "refused"]
        /\ srv' = [srv EXCEPT ![k] = IF srv[k] = "asking" THEN "answer" ELSE srv[k]]
  BY <1>1 DEF Handle
<1>3. TypeOK /\ srv[k] \in {"asking", "closed"} /\ req[k] \in Requests
  BY <1>1 DEF Inv, TasksInv, OneMessage, TypeOK
<1>4. UNCHANGED <<client, req>> /\ UNCHANGED <<creq, ccon, cres>>
  BY DEF Handle, client, wire
<1>5. \A h \in Conns \ {k} : (Queued(h)' <=> Queued(h)) /\ srv'[h] = srv[h] /\ fate'[h] = fate[h]
  BY <1>1, <1>2, <1>3 DEF TypeOK
<1>6. /\ Effect[k] = "pending"
      /\ Effect'[k] = IF ok THEN "applied" ELSE "void"
  <2>1. srv'[k] \in {"answer", "closed"} /\ fate'[k] = IF ok THEN "applied" ELSE "refused"
    BY <1>2, <1>3 DEF TypeOK
  <2> QED
    BY <1>1, <2>1, EffectFacts DEF Early
<1>7. CASE ok
  <2>1. Effect' = [Effect EXCEPT ![k] = "applied"]
    BY <1>5, <1>6, <1>7, EffectSet
  <2>2. store' = [store EXCEPT ![req[k].name] = req[k].value] /\ Remote!Writable(req[k])
    BY <1>2, <1>7 DEF Stored, Updatable, Remote!Writable
  <2>3. Remote!Apply(k)
    BY <1>4, <1>6, <2>1, <2>2 DEF Remote!Apply
  <2> QED
    BY <2>3 DEF Remote!Next
<1>8. CASE ~ ok
  <2>1. UNCHANGED store
    BY <1>2, <1>8 DEF Stored
  <2> QED
    BY <1>4, <1>5, <1>6, <1>8, <2>1, RemoteDrop
<1> QED
  BY <1>7, <1>8

LEMMA RemoteActorStops ==
  ASSUME Inv, ActorStops
  PROVE  Remote!Next
<1> DEFINE lost == {k \in Conns : Queued(k)}
<1>1. /\ UNCHANGED <<creq, ccon, cres, req, store, fate>>
      /\ \A k \in Conns : ~ Queued(k)' /\ srv'[k] = IF srv[k] = "asking" THEN "answer" ELSE srv[k]
  BY DEF ActorStops, Queued, client, wire
<1>2. \A k \in Conns : Queued(k) => srv[k] \in {"asking", "closed"} /\ fate[k] = "none"
  BY DEF Inv, TasksInv, OneMessage
<1>3. \A k \in lost : Effect[k] = "pending"
  BY EffectFacts
<1>4. ASSUME NEW k \in Conns PROVE Effect'[k] = IF k \in lost THEN "void" ELSE Effect[k]
  <2>1. CASE Queued(k)
    BY <1>1, <1>2, <2>1, EffectFacts DEF Early
  <2>2. CASE ~ Queued(k)
    BY <1>1, <2>2, EffectFacts DEF Early
  <2> QED
    BY <2>1, <2>2
<1>5. Effect' = [k \in Conns |-> IF k \in lost THEN "void" ELSE Effect[k]]
  <2>1. Effect' = [k \in Conns |-> Effect'[k]]
    BY DEF Effect
  <2> HIDE DEF lost
  <2> QED
    BY <1>4, <2>1
<1>6. lost \in SUBSET Conns
  OBVIOUS
<1> HIDE DEF lost
<1>7. Remote!Drop(lost)
  BY <1>1, <1>3, <1>5 DEF Remote!Drop
<1> QED
  BY <1>6, <1>7 DEF Remote!Next

LEMMA RemoteStep == Inv /\ OwnConnection /\ [Next]_vars => [Remote!Next]_(Remote!vars)
<1> SUFFICES ASSUME Inv, OwnConnection, [Next]_vars PROVE Remote!Next \/ UNCHANGED Remote!vars
  OBVIOUS
<1>1. ASSUME UNCHANGED <<task, fate, actor, creq, ccon, cres, req>> PROVE UNCHANGED Remote!vars
  <2>1. Effect' = Effect /\ UNCHANGED store
    BY <1>1, EffectKept DEF actor
  <2> QED
    BY <1>1, <2>1 DEF Remote!vars
<1>2. CASE UNCHANGED vars
  BY <1>1, <1>2 DEF vars, client, wire
<1>3. ASSUME NEW c \in Clients, Client(c) PROVE Remote!Next \/ UNCHANGED Remote!vars
  <2>1. CASE Send(c)
    BY <1>1, <2>1 DEF Send
  <2> QED
    BY <1>3, <2>1, RemoteSetCall, RemoteConnect, RemoteCallEnds DEF Client, Calling
<1>4. ASSUME NEW k \in Conns, Accept(k) \/ Serving(k) PROVE Remote!Next \/ UNCHANGED Remote!vars
  BY <1>4, RemoteTask
<1> QED
  BY <1>2, <1>3, <1>4, RemoteHandle, RemoteActorStops DEF Next

(* Over any number of connections, and with every timeout, drop, late message *)
(* and stop of the actor, a request takes effect at most once and its call    *)
(* reports the truth (set, handle_client, SystemProperties::set).             *)
THEOREM SetRefinesRemote == Spec => SetIsAtomic
<1>1. Inv /\ OwnConnection /\ [Next]_vars => [Remote!Next]_(Remote!vars)
  BY RemoteStep
<1> QED
  BY <1>1, RemoteInit, Invariant, OwnInvariant, PTL DEF Spec, SetIsAtomic, Remote!Spec
=============================================================================
