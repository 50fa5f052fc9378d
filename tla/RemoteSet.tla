------------------------------ MODULE RemoteSet ------------------------------
(***************************************************************************)
(* What set promises over the socket, whatever its parts time out on, drop *)
(* or lose: a request that was handed over takes effect at most once, in   *)
(* one step and only on a property that may be written.  A call may give   *)
(* up before that, but what it reports of the effect is true.              *)
(***************************************************************************)
CONSTANTS Clients, Conns, Requests, ReadOnly, LongValues, Absent

VARIABLES store,    \* the properties
          want,     \* want[c]: the request client c calls with, or Absent
          at,       \* at[c]: the connection it handed the request over on, or Absent
          req,      \* req[k]: the request of connection k
          effect,   \* effect[k]: "pending"; "applied"; "void", it has none and never will
          result    \* result[c]: of c's last call

vars == <<store, want, at, req, effect, result>>

Init ==
  /\ store = [n \in {q.name : q \in Requests} |-> Absent]
  /\ want = [c \in Clients |-> Absent] /\ at = [c \in Clients |-> Absent]
  /\ req \in [Conns -> Requests] /\ effect = [k \in Conns |-> "void"]
  /\ result = [c \in Clients |-> "none"]

Call(c, q) ==
  /\ want[c] = Absent /\ at[c] = Absent
  /\ want' = [want EXCEPT ![c] = q] /\ result' = [result EXCEPT ![c] = "none"]
  /\ UNCHANGED <<store, at, req, effect>>

(* A connection carries one request, of one client. *)
HandOver(c, k) ==
  /\ want[c] # Absent /\ effect[k] # "pending" /\ \A d \in Clients : at[d] # k
  /\ at' = [at EXCEPT ![c] = k] /\ want' = [want EXCEPT ![c] = Absent]
  /\ req' = [req EXCEPT ![k] = want[c]] /\ effect' = [effect EXCEPT ![k] = "pending"]
  /\ UNCHANGED <<store, result>>

(* Read-only and long values are written once. *)
Writable(q) ==
  \/ store[q.name] = Absent
  \/ q.name \notin ReadOnly /\ {store[q.name], q.value} \cap LongValues = {}

Apply(k) ==
  /\ effect[k] = "pending" /\ Writable(req[k])
  /\ store' = [store EXCEPT ![req[k].name] = req[k].value]
  /\ effect' = [effect EXCEPT ![k] = "applied"]
  /\ UNCHANGED <<want, at, req, result>>

(* Refused, or lost on the way. *)
Drop(S) ==
  /\ \A k \in S : effect[k] = "pending"
  /\ effect' = [k \in Conns |-> IF k \in S THEN "void" ELSE effect[k]]
  /\ UNCHANGED <<store, want, at, req, result>>

(* What a result says.  Protocol V1 has no reply: its ok says nothing. *)
Truthful(c, res) ==
  /\ res = "ok" => at[c] # Absent /\ (req[at[c]].ver = 1 \/ effect[at[c]] = "applied")
  /\ res = "rejected" => at[c] # Absent /\ effect[at[c]] = "void"
  /\ res = "invalid" => want[c] = Absent /\ at[c] = Absent

Return(c, res) ==
  /\ Truthful(c, res)
  /\ result' = [result EXCEPT ![c] = res]
  /\ want' = [want EXCEPT ![c] = Absent] /\ at' = [at EXCEPT ![c] = Absent]
  /\ UNCHANGED <<store, req, effect>>

Next ==
  \/ \E c \in Clients : \/ \E q \in Requests : Call(c, q)
                        \/ \E k \in Conns : HandOver(c, k)
                        \/ \E res \in {"ok", "rejected", "invalid", "io"} : Return(c, res)
  \/ \E k \in Conns : Apply(k)
  \/ \E S \in SUBSET Conns : Drop(S)

Spec == Init /\ [][Next]_vars
=============================================================================
