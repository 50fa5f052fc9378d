----------------------------- MODULE SetProperty -----------------------------
(***************************************************************************)
(* Setting a property over the socket: the client (system_property_set.rs, *)
(* both protocol versions), the accept loop and the client tasks of the    *)
(* socket service (socket_service.rs) and the actor that owns the writable *)
(* store (properties_service.rs, SystemProperties::set).  A client gives   *)
(* up on its own clock and the service on another, so a connection and the *)
(* message it carries may outlive the call that made them.                 *)
(***************************************************************************)
EXTENDS Integers, Sequences, FiniteSets

CONSTANTS Clients,        \* threads that call set
          Conns,          \* connections that exist at a time
          Requests,       \* [name, value, ver]: the calls clients make
          ReadOnly,       \* names that start with "ro."
          WideNames,      \* names that do not fit the V1 frame
          LongValues,     \* values of PROP_VALUE_MAX bytes or more
          MaxConcurrent,  \* MAX_CONCURRENT_CLIENTS
          MaxWaiting,     \* MAX_WAITING_CLIENTS
          Absent          \* a property that is not there; no connection

Names  == {q.name : q \in Requests}
Values == {q.value : q \in Requests}

ASSUME RequestsAssumption == Requests # {} /\ \A q \in Requests : q.ver \in {1, 2}
ASSUME ConnsAssumption == IsFiniteSet(Conns) /\ Absent \notin Conns
ASSUME AbsentAssumption == Absent \notin Requests
ASSUME LimitsAssumption == {MaxConcurrent, MaxWaiting} \subseteq Nat \ {0}

VARIABLES cpc, creq, ccon, cres,         \* clients: step, request, connection, result
          req, sent, open,               \* connections: request, bytes sent, client end
          srv, ans, resp,                \* connections: server task, actor's answer, reply
          fate,                          \* history: what became of the request
          waitSem, connSem,              \* free permits
          mailbox, alive, store          \* the actor

client == <<cpc, creq, ccon, cres>>
wire   == <<req, sent, open>>
task   == <<srv, ans, resp>>
sems   == <<waitSem, connSem>>
actor  == <<mailbox, alive, store>>
vars   == <<client, wire, task, fate, sems, actor>>

Init ==
  /\ cpc = [c \in Clients |-> "idle"]
  /\ creq = [c \in Clients |-> Absent]
  /\ ccon = [c \in Clients |-> Absent]
  /\ cres = [c \in Clients |-> "none"]
  /\ req \in [Conns -> {CHOOSE q \in Requests : TRUE}]
  /\ sent = [k \in Conns |-> "none"]
  /\ open = [k \in Conns |-> FALSE]
  /\ srv = [k \in Conns |-> "closed"]
  /\ ans = [k \in Conns |-> FALSE]
  /\ resp = [k \in Conns |-> "none"]
  /\ fate = [k \in Conns |-> "none"]
  /\ waitSem = MaxWaiting /\ connSem = MaxConcurrent
  /\ mailbox = <<>> /\ alive = TRUE
  /\ store = [n \in Names |-> Absent]

-----------------------------------------------------------------------------
(* The client.                                                             *)

(* Only a read-only property may have a long value. *)
ValidValue(q) == q.value \in LongValues => q.name \in ReadOnly

(* The fixed fields of the V1 frame hold short names and values only. *)
FitsV1(q) == q.name \notin WideNames /\ q.value \notin LongValues

(* What set checks before it connects. *)
Valid(q) == ValidValue(q) /\ (q.ver = 1 => FitsV1(q))

(* set returns; the client's end of the connection closes. *)
Finish(c, res) ==
  /\ cpc' = [cpc EXCEPT ![c] = "idle"]
  /\ cres' = [cres EXCEPT ![c] = res]
  /\ open' = [k \in Conns |-> open[k] /\ k # ccon[c]]
  /\ ccon' = [ccon EXCEPT ![c] = Absent]
  /\ creq' = [creq EXCEPT ![c] = Absent]

Set(c, q) ==
  /\ cpc[c] = "idle"
  /\ creq' = [creq EXCEPT ![c] = IF Valid(q) THEN q ELSE Absent]
  /\ cpc' = [cpc EXCEPT ![c] = IF Valid(q) THEN "connect" ELSE "idle"]
  /\ cres' = [cres EXCEPT ![c] = IF Valid(q) THEN "none" ELSE "invalid"]
  /\ UNCHANGED <<ccon, wire, task, fate, sems, actor>>

Queued(k) == \E i \in DOMAIN mailbox : mailbox[i] = k

(* A connection both ends have left, and no message of it is under way. *)
Free(k) == srv[k] = "closed" /\ ~ open[k] /\ ~ Queued(k)

Connect(c, k) ==
  /\ cpc[c] = "connect" /\ Free(k)
  /\ cpc' = [cpc EXCEPT ![c] = "send"]
  /\ ccon' = [ccon EXCEPT ![c] = k]
  /\ req' = [req EXCEPT ![k] = creq[c]]
  /\ creq' = [creq EXCEPT ![c] = Absent]
  /\ sent' = [sent EXCEPT ![k] = "none"]
  /\ open' = [open EXCEPT ![k] = TRUE]
  /\ srv' = [srv EXCEPT ![k] = "backlog"]
  /\ resp' = [resp EXCEPT ![k] = "none"]
  /\ ans' = [ans EXCEPT ![k] = FALSE]
  /\ fate' = [fate EXCEPT ![k] = "none"]
  /\ UNCHANGED <<cres, sems, actor>>

(* No listener, or a full backlog until the deadline. *)
ConnectFails(c) ==
  /\ cpc[c] = "connect"
  /\ Finish(c, "io")
  /\ UNCHANGED <<req, sent, task, fate, sems, actor>>

Send(c) ==
  /\ cpc[c] = "send" /\ srv[ccon[c]] # "closed"
  /\ sent' = [sent EXCEPT ![ccon[c]] = "full"]
  /\ cpc' = [cpc EXCEPT ![c] = IF req[ccon[c]].ver = 2 THEN "reply" ELSE "drain"]
  /\ UNCHANGED <<creq, ccon, cres, req, open, task, fate, sems, actor>>

(* The peer is gone or the budget is spent; part of the frame may be out. *)
SendFails(c) ==
  /\ cpc[c] = "send"
  /\ sent' = [sent EXCEPT ![ccon[c]] = "part"]
  /\ Finish(c, "io")
  /\ UNCHANGED <<req, task, fate, sems, actor>>

(* recv_i32: a status, *)
Reply(c) ==
  /\ cpc[c] = "reply" /\ resp[ccon[c]] # "none"
  /\ Finish(c, IF resp[ccon[c]] = "ok" THEN "ok" ELSE "rejected")
  /\ UNCHANGED <<req, sent, task, fate, sems, actor>>

(* Mutant: the end of the stream is taken for success. *)
ReplyEofOk(c) ==
  /\ cpc[c] = "reply" /\ resp[ccon[c]] = "none" /\ srv[ccon[c]] = "closed"
  /\ Finish(c, "ok")
  /\ UNCHANGED <<req, sent, task, fate, sems, actor>>

(* or the end of the stream, *)
ReplyEof(c) ==
  /\ cpc[c] = "reply" /\ resp[ccon[c]] = "none" /\ srv[ccon[c]] = "closed"
  /\ Finish(c, "io")
  /\ UNCHANGED <<req, sent, task, fate, sems, actor>>

(* Mutant: a plain read, which only the peer ends. *)
ReplyUnbounded(c) ==
  /\ cpc[c] = "reply" /\ srv[ccon[c]] = "closed"
  /\ Finish(c, "io")
  /\ UNCHANGED <<req, sent, task, fate, sems, actor>>

(* or the budget of two seconds is spent. *)
ReplyTimeout(c) ==
  /\ cpc[c] = "reply"
  /\ Finish(c, "io")
  /\ UNCHANGED <<req, sent, task, fate, sems, actor>>

(* wait_for_socket_close: V1 reports success however the wait ends. *)
Drain(c) ==
  /\ cpc[c] = "drain"
  /\ Finish(c, "ok")
  /\ UNCHANGED <<req, sent, task, fate, sems, actor>>

-----------------------------------------------------------------------------
(* The socket service: on_idle and the task it spawns per connection.      *)

Task(k, from, to) == srv[k] \in from /\ srv' = [srv EXCEPT ![k] = to]
Handling == {"reading", "asking", "answer"}

(* A place in the waiting room, or the connection is dropped. *)
Accept(k) ==
  /\ \/ /\ waitSem > 0 /\ waitSem' = waitSem - 1
        /\ Task(k, {"backlog"}, "waiting")
     \/ /\ waitSem = 0 /\ UNCHANGED waitSem
        /\ Task(k, {"backlog"}, "closed")
  /\ UNCHANGED <<client, wire, ans, resp, fate, connSem, actor>>

(* A handler permit; only then is the place in the waiting room given up. *)
GetPermit(k) ==
  /\ Task(k, {"waiting"}, "reading")
  /\ connSem > 0 /\ connSem' = connSem - 1
  /\ waitSem' = waitSem + 1
  /\ UNCHANGED <<client, wire, ans, resp, fate, actor>>

WaitExpires(k) ==
  /\ Task(k, {"waiting"}, "closed")
  /\ waitSem' = waitSem + 1
  /\ UNCHANGED <<client, wire, ans, resp, fate, connSem, actor>>

(* handle_client has the whole frame and asks the actor; an actor that is    *)
(* gone is an error at once.                                                 *)
ReadFrame(k) ==
  /\ sent[k] = "full"
  /\ \/ /\ alive /\ Task(k, {"reading"}, "asking")
        /\ mailbox' = Append(mailbox, k)
     \/ /\ ~ alive /\ Task(k, {"reading"}, "answer")
        /\ UNCHANGED mailbox
  /\ UNCHANGED <<client, wire, ans, resp, fate, sems, alive, store>>

(* The peer went away in the middle of the frame. *)
ReadEof(k) ==
  /\ sent[k] # "full" /\ ~ open[k]
  /\ Task(k, {"reading"}, "closed")
  /\ connSem' = connSem + 1
  /\ UNCHANGED <<client, wire, ans, resp, fate, waitSem, actor>>

(* The status goes out (V2 only) and the task ends. *)
Answer(k) ==
  /\ Task(k, {"answer"}, "closed")
  /\ resp' = [resp EXCEPT ![k] = IF req[k].ver = 1 THEN "none"
                                 ELSE IF ans[k] THEN "ok" ELSE "error"]
  /\ connSem' = connSem + 1
  /\ UNCHANGED <<client, wire, ans, fate, waitSem, actor>>

(* Mutant: a task that waits for the actor has no deadline. *)
HandlerWaits(k) ==
  /\ Task(k, Handling \ {"asking"}, "closed")
  /\ connSem' = connSem + 1
  /\ UNCHANGED <<client, wire, ans, resp, fate, waitSem, actor>>

(* Mutant: the permit is not given back. *)
HandlerLeaks(k) ==
  /\ Task(k, Handling, "closed")
  /\ UNCHANGED <<client, wire, ans, resp, fate, sems, actor>>

(* CLIENT_TIMEOUT: the task is dropped where it stands, its message is not. *)
HandlerExpires(k) ==
  /\ Task(k, Handling, "closed")
  /\ connSem' = connSem + 1
  /\ UNCHANGED <<client, wire, ans, resp, fate, waitSem, actor>>

-----------------------------------------------------------------------------
(* The actor: SystemProperties::set, find and then update or add.          *)

(* update refuses read-only names and entries with a long value. *)
Updatable(q) ==
  /\ q.name \notin ReadOnly
  /\ store[q.name] \notin LongValues /\ q.value \notin LongValues

(* What the message's handler does: ok says whether the value was stored. *)
Stored(q, ok) ==
  \/ /\ ok
     /\ store[q.name] = Absent \/ Updatable(q)
     /\ store' = [store EXCEPT ![q.name] = q.value]
  \/ /\ ~ ok
     /\ store[q.name] = Absent \/ ~ Updatable(q)    \* a full area, or a refusal
     /\ UNCHANGED store

(* Mutant: the reply is sent whatever set returned. *)
HandleOk ==
  /\ alive /\ mailbox # <<>>
  /\ mailbox' = Tail(mailbox)
  /\ LET k == Head(mailbox) IN
       \E ok \in BOOLEAN :
         /\ Stored(req[k], ok)
         /\ fate' = [fate EXCEPT ![k] = IF ok THEN "applied" ELSE "refused"]
         /\ srv' = [srv EXCEPT ![k] = IF @ = "asking" THEN "answer" ELSE @]
         /\ ans' = [ans EXCEPT ![k] = TRUE]
  /\ UNCHANGED <<client, wire, resp, sems, alive>>

(* The head of the mailbox; the answer is lost if the task has expired. *)
Handle ==
  /\ alive /\ mailbox # <<>>
  /\ mailbox' = Tail(mailbox)
  /\ LET k == Head(mailbox) IN
       \E ok \in BOOLEAN :
         /\ Stored(req[k], ok)
         /\ fate' = [fate EXCEPT ![k] = IF ok THEN "applied" ELSE "refused"]
         /\ srv' = [srv EXCEPT ![k] = IF @ = "asking" THEN "answer" ELSE @]
         /\ ans' = [ans EXCEPT ![k] = ok]
  /\ UNCHANGED <<client, wire, resp, sems, alive>>

(* The actor stops; every ask that waits gets an error. *)
ActorStops ==
  /\ alive /\ alive' = FALSE
  /\ mailbox' = <<>>
  /\ srv' = [k \in Conns |-> IF srv[k] = "asking" THEN "answer" ELSE srv[k]]
  /\ UNCHANGED <<client, wire, ans, resp, fate, sems, store>>

-----------------------------------------------------------------------------
Calling(c) ==
  \/ \E k \in Conns : Connect(c, k)
  \/ ConnectFails(c) \/ Send(c) \/ SendFails(c)
  \/ Reply(c) \/ ReplyEof(c) \/ ReplyTimeout(c) \/ Drain(c)

Client(c) == (\E q \in Requests : Set(c, q)) \/ Calling(c)

Serving(k) ==
  GetPermit(k) \/ WaitExpires(k) \/ ReadFrame(k) \/ ReadEof(k) \/ Answer(k) \/ HandlerExpires(k)

Next ==
  \/ \E c \in Clients : Client(c)
  \/ \E k \in Conns : Accept(k) \/ Serving(k)
  \/ Handle \/ ActorStops

Spec == Init /\ [][Next]_vars

(* Time passes for a call and for a client task; nothing is asked of the     *)
(* accept loop, of the actor or of the peer.                                 *)
Fairness ==
  /\ \A c \in Clients : WF_vars(Calling(c))
  /\ \A k \in Conns : WF_vars(Serving(k))

FairSpec == Spec /\ Fairness

-----------------------------------------------------------------------------
(* Properties.                                                             *)

TypeOK ==
  /\ cpc \in [Clients -> {"idle", "connect", "send", "reply", "drain"}]
  /\ creq \in [Clients -> Requests \cup {Absent}]
  /\ ccon \in [Clients -> Conns \cup {Absent}]
  /\ cres \in [Clients -> {"none", "ok", "invalid", "io", "rejected"}]
  /\ req \in [Conns -> Requests]
  /\ sent \in [Conns -> {"none", "part", "full"}]
  /\ open \in [Conns -> BOOLEAN]
  /\ srv \in [Conns -> {"backlog", "waiting", "closed"} \cup Handling]
  /\ ans \in [Conns -> BOOLEAN]
  /\ resp \in [Conns -> {"none", "ok", "error"}]
  /\ fate \in [Conns -> {"none", "applied", "refused"}]
  /\ waitSem \in 0 .. MaxWaiting /\ connSem \in 0 .. MaxConcurrent
  /\ mailbox \in Seq(Conns) /\ alive \in BOOLEAN
  /\ store \in [Names -> Values \cup {Absent}]

(* A V2 reply is true: success means the value was stored, an error means    *)
(* that it was not and never will be, whichever timeouts, drops and stops    *)
(* of the actor came between (handle_setprop2, recv_i32).                    *)
RepliesTrue ==
  \A k \in Conns :
    /\ resp[k] = "ok" => fate[k] = "applied"
    /\ resp[k] = "error" => fate[k] # "applied" /\ ~ Queued(k)

Busy   == {k \in Conns : srv[k] \in Handling}
InRoom == {k \in Conns : srv[k] = "waiting"}

(* No path through a client task leaks a permit, so the service never holds  *)
(* more than MAX_CONCURRENT_CLIENTS + MAX_WAITING_CLIENTS connections and    *)
(* never runs out of slots for good.                                         *)
PermitsConserved ==
  /\ connSem + Cardinality(Busy) = MaxConcurrent
  /\ waitSem + Cardinality(InRoom) = MaxWaiting

(* What a request's effect is so far: it is pending until its message is      *)
(* handled or can no longer reach the actor.                                 *)
Effect == [k \in Conns |->
             IF Queued(k) \/ srv[k] \in {"backlog", "waiting", "reading"} THEN "pending"
             ELSE IF fate[k] = "applied" THEN "applied" ELSE "void"]

Remote == INSTANCE RemoteSet WITH want <- creq, at <- ccon, effect <- Effect, result <- cres

(* Each request takes effect at most once, at one moment, and what its call  *)
(* reports of it is true, although a call, its task and its message give up, *)
(* are dropped and arrive independently of one another (set, handle_client,  *)
(* the actor).                                                               *)
SetIsAtomic == Remote!Spec

(* "`ro.*` properties are write-once" (set): once it has a value it keeps    *)
(* it, however late the message of an abandoned call is handled.             *)
ReadOnlyWriteOnce ==
  [][\A n \in Names \cap ReadOnly : store[n] # Absent => store'[n] = store[n]]_vars

(* set returns, even if the service stopped accepting, reading or answering. *)
SetReturns == \A c \in Clients : (cpc[c] # "idle") ~> (cpc[c] = "idle")

(* An accepted connection is closed, even if the client or the actor hangs.  *)
ConnectionsEnd ==
  \A k \in Conns : (srv[k] \in Handling \cup {"waiting"}) ~> (srv[k] = "closed")

(* A connection has at most one message in the mailbox, also after its task   *)
(* was dropped, and it is not answered before that message is handled: the   *)
(* answer a task holds is the fate of its own request.                       *)
OneMessage ==
  /\ \A i, j \in DOMAIN mailbox : mailbox[i] = mailbox[j] => i = j
  /\ \A k \in Conns :
       /\ Queued(k) => srv[k] \in {"asking", "closed"}
       /\ Queued(k) \/ srv[k] \in {"backlog", "waiting", "reading", "asking"} =>
            ~ ans[k] /\ fate[k] = "none" /\ resp[k] = "none"
       /\ srv[k] = "answer" => resp[k] = "none" /\ (ans[k] <=> fate[k] = "applied")

(* A client in a call knows its request, and then its connection. *)
CallsHaveRequest ==
  \A c \in Clients :
    /\ cpc[c] = "connect" => creq[c] # Absent
    /\ cpc[c] \in {"send", "reply", "drain"} => ccon[c] # Absent

(* A connection is open as long as its call runs, and belongs to one call. *)
OwnConnection ==
  \A c \in Clients :
    /\ cpc[c] # "connect" => creq[c] = Absent
    /\ cpc[c] \in {"idle", "connect"} => ccon[c] = Absent
    /\ ccon[c] # Absent => open[ccon[c]] /\ \A d \in Clients \ {c} : ccon[d] # ccon[c]
    /\ cpc[c] = "drain" => req[ccon[c]].ver = 1

(* However a connection ends, its permits are back where they were taken,    *)
(* and its message is its own.                                               *)
SetInv == TypeOK /\ CallsHaveRequest /\ OwnConnection /\ PermitsConserved /\ OneMessage
=============================================================================
