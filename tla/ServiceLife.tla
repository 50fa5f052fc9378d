----------------------------- MODULE ServiceLife -----------------------------
(***************************************************************************)
(* The life of the service: run starts the socket actor and the properties *)
(* actor side by side, waits for both and takes both down if one fails     *)
(* (rsproperties-service/src/lib.rs).  The socket actor puts two sockets   *)
(* in place (bind_socket_with_mode) and unlinks them when it is dropped;   *)
(* the properties actor takes the writer's lock, starts from empty areas   *)
(* and adds the build properties one by one before it handles its mailbox. *)
(* Processes die at any step and others are started on the same            *)
(* directories.  What a set goes through on its way is in SetProperty, the *)
(* building of the areas in PropertyDir, the reading of build.prop files   *)
(* in BuildProps.                                                          *)
(***************************************************************************)
EXTENDS Integers, Sequences, FiniteSets

CONSTANTS Instances,   \* service processes, 1 .. n, started in this order
          Pid,         \* Pid[i]: process ids may be used again
          Hasty,       \* the instances that may start while another one runs
          Builds,      \* what the build.prop files may give: key/value pairs in key order
          Requests,    \* key/value pairs clients set
          ReadOnly,    \* the keys that begin with "ro."
          TooLong,     \* values add refuses for keys that are not read-only
          MaxSets,     \* sets clients send in all
          None

Stop    == <<"stop">>
Files   == [by : Instances, mode : {"umask", "0660"}]

ASSUME InstancesAssumption == Instances \subseteq Nat /\ None \notin Instances \cup Files
ASSUME HastyAssumption     == Hasty \subseteq Instances
ASSUME RequestsAssumption  == Stop \notin Requests
(* The loader gives every key once. *)
ASSUME BuildsAssumption ==
  \A b \in Builds : /\ b \in Seq({b[n] : n \in DOMAIN b})
                    /\ \A m, n \in DOMAIN b : b[m][1] = b[n][1] => m = n

Sockets == {1, 2}      \* PROPERTY_SERVICE_SOCKET_NAME, ..._FOR_SYSTEM_...
Pids    == {Pid[i] : i \in Instances}

VARIABLES run,         \* run[i]: the task of run and, once it returned, its caller
          clashed,     \* those that have run beside another one
          sk, cur,     \* socket actor: step, the socket it is at
          pr, build, done,  \* properties actor: step, build properties, how many are added
          stop,        \* stop[i]: the socket actor was told to stop
          mbox,        \* the properties actor's mailbox: sets, and Stop
          sock, tmp,   \* files: sockets at their names, and under temporary names
          lock,        \* who holds the flock of the directory
          store,       \* the properties in the areas at the directory's names
          sets         \* sets sent so far

sfiles == <<sock, tmp>>
svars  == <<sk, cur, sfiles>>
pvars  == <<pr, build, done, lock, store, sets>>
vars   == <<run, clashed, stop, mbox, svars, pvars>>

Init ==
  /\ run = [i \in Instances |-> "off"] /\ clashed = {}
  /\ sk = [i \in Instances |-> "off"] /\ cur = [i \in Instances |-> 1]
  /\ pr = [i \in Instances |-> "off"]
  /\ build = [i \in Instances |-> <<>>] /\ done = [i \in Instances |-> 0]
  /\ stop = [i \in Instances |-> FALSE]
  /\ mbox = [i \in Instances |-> <<>>]
  /\ sock = [s \in Sockets |-> None]
  /\ tmp = [s \in Sockets |-> [p \in Pids |-> None]]
  /\ lock = None /\ store = <<>> /\ sets = 0

(* The properties actor ends in state st, with its locals and its mailbox. *)
PropsEnds(i, st) ==
  /\ pr' = [pr EXCEPT ![i] = st]
  /\ build' = [build EXCEPT ![i] = <<>>] /\ done' = [done EXCEPT ![i] = 0]
  /\ mbox' = [mbox EXCEPT ![i] = <<>>]

(* Nothing of the process, or of its failed or stopped service, runs on. *)
Gone(i) ==
  \/ run[i] = "dead"
  \/ /\ run[i] \in {"failed", "stopped"}
     /\ sk[i] \in {"failed", "stopped"} /\ pr[i] \in {"failed", "stopped"}

-----------------------------------------------------------------------------
(* run. *)

Running == {j \in Instances : run[j] # "off" /\ ~Gone(j)}

Start(i) ==
  /\ run[i] = "off" /\ \A j \in Instances : j < i => run[j] # "off"
  /\ Running = {} \/ (i \in Hasty /\ \A j \in Running : Pid[j] # Pid[i])
  /\ clashed' = IF Running = {} THEN clashed ELSE clashed \cup Running \cup {i}
  /\ run' = [run EXCEPT ![i] = "askSock"]
  /\ sk' = [sk EXCEPT ![i] = "sweep"]
  /\ pr' = [pr EXCEPT ![i] = "load"]
  /\ UNCHANGED <<stop, mbox, cur, sfiles, build, done, lock, store, sets>>

(* Mutant: only the socket actor is taken down. *)
StopSocketOnly(i) ==
  /\ stop' = [stop EXCEPT ![i] = TRUE] /\ UNCHANGED mbox

(* Each actor finds the stop behind the messages it was sent before. *)
StopBoth(i) ==
  /\ stop' = [stop EXCEPT ![i] = TRUE]
  /\ mbox' = [mbox EXCEPT ![i] = Append(@, Stop)]

(* An error: both actors are told to stop before run returns it. *)
FailRun(i) == run' = [run EXCEPT ![i] = "failed"] /\ StopBoth(i)

(* The socket actor answers Ready once its on_start is over; if that failed, *)
(* the question does.                                                        *)
AskSocket(i) ==
  /\ run[i] = "askSock"
  /\ \/ sk[i] = "ready" /\ run' = [run EXCEPT ![i] = "askProps"] /\ UNCHANGED <<stop, mbox>>
     \/ sk[i] = "failed" /\ FailRun(i)
  /\ UNCHANGED <<clashed, svars, pvars>>

(* Mutant: the properties actor is taken to be ready. *)
AskPropsUnasked(i) ==
  /\ run[i] = "askProps"
  /\ \/ pr[i] # "failed" /\ run' = [run EXCEPT ![i] = "up"] /\ UNCHANGED <<stop, mbox>>
     \/ pr[i] = "failed" /\ FailRun(i)
  /\ UNCHANGED <<clashed, svars, pvars>>

AskProps(i) ==
  /\ run[i] = "askProps"
  /\ \/ pr[i] = "ready" /\ run' = [run EXCEPT ![i] = "up"] /\ UNCHANGED <<stop, mbox>>
     \/ pr[i] = "failed" /\ FailRun(i)
  /\ UNCHANGED <<clashed, svars, pvars>>

(* The caller stops the service it was given. *)
StopService(i) ==
  /\ run[i] = "up"
  /\ run' = [run EXCEPT ![i] = "stopped"] /\ StopBoth(i)
  /\ UNCHANGED <<clashed, svars, pvars>>

(* The process is killed: no Drop, but the kernel releases the lock. *)
Die(i) ==
  /\ run[i] # "off" /\ ~Gone(i)
  /\ run' = [run EXCEPT ![i] = "dead"]
  /\ sk' = [sk EXCEPT ![i] = "dead"] /\ cur' = [cur EXCEPT ![i] = 1]
  /\ PropsEnds(i, "dead") /\ stop' = [stop EXCEPT ![i] = FALSE]
  /\ lock' = IF lock = i THEN None ELSE lock
  /\ UNCHANGED <<clashed, sfiles, store, sets>>

-----------------------------------------------------------------------------
(* The socket actor. *)

Tmp(i)     == tmp[cur[i]][Pid[i]]
At(i, s)   == sk[i] = s
To(i, s)   == sk' = [sk EXCEPT ![i] = s]
SetTmp(i, f) == tmp' = [tmp EXCEPT ![cur[i]][Pid[i]] = f]

(* on_start: the directory cannot be asked for, or not be created. *)
SocketDirFails(i) ==
  /\ At(i, "sweep") /\ To(i, "failed")
  /\ UNCHANGED <<clashed, run, stop, mbox, cur, sfiles, pvars>>

(* Every temporary socket in the directory is removed; that read_dir or a    *)
(* removal fails is ignored by the code, and left out here.                  *)
Sweep(i) ==
  /\ At(i, "sweep") /\ To(i, "clear")
  /\ tmp' = [s \in Sockets |-> [p \in Pids |-> None]]
  /\ UNCHANGED <<clashed, run, stop, mbox, cur, sock, pvars>>

(* Mutant: the old socket is unlinked first. *)
ClearTmpAndName(i) ==
  /\ At(i, "clear") /\ To(i, "bind")
  /\ SetTmp(i, None)
  /\ sock' = [sock EXCEPT ![cur[i]] = None]
  /\ UNCHANGED <<clashed, run, stop, mbox, cur, pvars>>

(* bind_socket_with_mode: the process's own leftover, then *)
ClearTmp(i) ==
  /\ At(i, "clear") /\ To(i, "bind")
  /\ SetTmp(i, None)
  /\ UNCHANGED <<clashed, run, stop, mbox, cur, sock, pvars>>

(* Mutant: bound at its final name, after what is there has been unlinked. *)
BindInPlace(i) ==
  /\ At(i, "bind") /\ To(i, "chmod")
  /\ SetTmp(i, [by |-> i, mode |-> "umask"])
  /\ sock' = [sock EXCEPT ![cur[i]] = [by |-> i, mode |-> "umask"]]
  /\ UNCHANGED <<clashed, run, stop, mbox, cur, pvars>>

(* The listener's file has the mode the umask leaves. *)
Bind(i) ==
  /\ At(i, "bind") /\ To(i, "chmod")
  /\ Tmp(i) = None
  /\ SetTmp(i, [by |-> i, mode |-> "umask"])
  /\ UNCHANGED <<clashed, run, stop, mbox, cur, sock, pvars>>

(* Too long a path, no permission, no descriptor; or the name is taken. *)
BindFails(i) ==
  /\ At(i, "bind") /\ To(i, "failed")
  /\ UNCHANGED <<clashed, run, stop, mbox, cur, sfiles, pvars>>

Chmod(i) ==
  /\ At(i, "chmod") /\ To(i, "rename")
  /\ Tmp(i) # None
  /\ SetTmp(i, [Tmp(i) EXCEPT !.mode = "0660"])
  /\ UNCHANGED <<clashed, run, stop, mbox, cur, sock, pvars>>

(* chmod or rename fails: the temporary file is removed. *)
FinalizeFails(i) ==
  /\ sk[i] \in {"chmod", "rename"} /\ To(i, "failed")
  /\ SetTmp(i, None)
  /\ UNCHANGED <<clashed, run, stop, mbox, cur, sock, pvars>>

(* The actor subscribes to both listeners and is constructed, or that fails *)
(* and they are closed, their names still there.                            *)
Subscribe(i) == To(i, "ready") \/ To(i, "failed")

(* rename replaces what is at the name in one step. *)
Rename(i) ==
  /\ At(i, "rename") /\ Tmp(i) # None
  /\ sock' = [sock EXCEPT ![cur[i]] = Tmp(i)]
  /\ SetTmp(i, None)
  /\ \/ cur[i] = 1 /\ To(i, "clear") /\ cur' = [cur EXCEPT ![i] = 2]
     \/ cur[i] = 2 /\ Subscribe(i) /\ cur' = [cur EXCEPT ![i] = 1]
  /\ UNCHANGED <<clashed, run, stop, mbox, pvars>>

SocketStops(i) ==
  /\ At(i, "ready") /\ stop[i] /\ To(i, "drop")
  /\ UNCHANGED <<clashed, run, stop, mbox, cur, sfiles, pvars>>

(* Drop: both files are unlinked by name, whoever's they are. *)
DropSocket(i) ==
  /\ At(i, "drop")
  /\ sock' = [sock EXCEPT ![cur[i]] = None]
  /\ \/ cur[i] = 1 /\ cur' = [cur EXCEPT ![i] = 2] /\ UNCHANGED sk
     \/ cur[i] = 2 /\ cur' = [cur EXCEPT ![i] = 1] /\ To(i, "stopped")
  /\ UNCHANGED <<clashed, run, stop, mbox, tmp, pvars>>

-----------------------------------------------------------------------------
(* The properties actor. *)

(* init_system_properties_sync up to new_area: the rules, property_info and *)
(* the build.prop files, any of which may be unreadable.                    *)
LoadBuild(i) ==
  /\ pr[i] = "load"
  /\ \/ /\ \E b \in Builds : build' = [build EXCEPT ![i] = b]
        /\ pr' = [pr EXCEPT ![i] = "lock"]
        /\ UNCHANGED <<done, mbox>>
     \/ PropsEnds(i, "failed")
  /\ UNCHANGED <<clashed, run, stop, svars, lock, store, sets>>

(* new_area: the flock, then fresh areas. *)
TakeLock(i) ==
  /\ pr[i] = "lock"
  /\ \/ /\ lock = None /\ lock' = i /\ store' = <<>>
        /\ pr' = [pr EXCEPT ![i] = "apply"] /\ UNCHANGED <<build, done, mbox>>
     \/ lock # None /\ PropsEnds(i, "failed") /\ UNCHANGED <<lock, store>>
  /\ UNCHANGED <<clashed, run, stop, svars, sets>>

With(f, k, v) == [x \in DOMAIN f \cup {k} |-> IF x = k THEN v ELSE f[x]]
Refused(k, v) == v \in TooLong /\ k \notin ReadOnly

(* One add.  A key that is there keeps its value; a value that is refused *)
(* ends the start, and the areas stay as they are.                        *)
Apply(i) ==
  /\ pr[i] = "apply" /\ done[i] < Len(build[i])
  /\ LET k == build[i][done[i] + 1][1]  v == build[i][done[i] + 1][2] IN
       \/ /\ Refused(k, v)
          /\ PropsEnds(i, "failed") /\ lock' = None
          /\ UNCHANGED store
       \/ /\ ~Refused(k, v)
          /\ store' = IF k \in DOMAIN store THEN store ELSE With(store, k, v)
          /\ done' = [done EXCEPT ![i] = @ + 1]
          /\ UNCHANGED <<pr, build, mbox, lock>>
  /\ UNCHANGED <<clashed, run, stop, svars, sets>>

Applied(i) ==
  /\ pr[i] = "apply" /\ done[i] = Len(build[i])
  /\ pr' = [pr EXCEPT ![i] = "ready"]
  /\ UNCHANGED <<clashed, run, stop, svars, build, done, mbox, lock, store, sets>>

(* Mutant: answers while on_start is still adding. *)
ServesEarly(i) == pr[i] \in {"apply", "ready"}

(* The mailbox is looked at once on_start is over. *)
Serves(i) == pr[i] = "ready"

(* SystemProperties::set: update what is there unless it is read-only. *)
Handle(i) ==
  /\ Serves(i) /\ mbox[i] # <<>> /\ Head(mbox[i]) # Stop
  /\ LET k == Head(mbox[i])[1]  v == Head(mbox[i])[2] IN
       store' = IF (k \in DOMAIN store /\ k \in ReadOnly) \/ Refused(k, v) THEN store
                ELSE With(store, k, v)
  /\ mbox' = [mbox EXCEPT ![i] = Tail(@)]
  /\ UNCHANGED <<clashed, run, stop, svars, pr, build, done, lock, sets>>

(* Sets behind the stop are never handled. *)
PropsStop(i) ==
  /\ pr[i] = "ready" /\ mbox[i] # <<>> /\ Head(mbox[i]) = Stop
  /\ PropsEnds(i, "stopped") /\ lock' = None
  /\ UNCHANGED <<clashed, run, stop, svars, store, sets>>

(* A client connects to the file at a name; its set reaches the mailbox of *)
(* the process behind it as long as that accepts.                          *)
ClientSet(s, q) ==
  /\ sets < MaxSets /\ sock[s] # None
  /\ LET i == sock[s].by IN
       /\ sk[i] = "ready" /\ pr[i] \notin {"failed", "stopped"}
       /\ mbox' = [mbox EXCEPT ![i] = Append(@, q)]
  /\ sets' = sets + 1
  /\ UNCHANGED <<clashed, run, stop, svars, pr, build, done, lock, store>>

-----------------------------------------------------------------------------
Ask(i)        == AskSocket(i) \/ AskProps(i)
SocketStep(i) == \/ SocketDirFails(i) \/ Sweep(i) \/ ClearTmp(i) \/ Bind(i) \/ BindFails(i) \/ Chmod(i)
                 \/ FinalizeFails(i) \/ Rename(i) \/ SocketStops(i) \/ DropSocket(i)
PropsStep(i)  == LoadBuild(i) \/ TakeLock(i) \/ Apply(i) \/ Applied(i) \/ Handle(i) \/ PropsStop(i)

Next ==
  \/ \E i \in Instances : \/ Start(i) \/ Ask(i) \/ StopService(i) \/ Die(i)
                          \/ SocketStep(i) \/ PropsStep(i)
  \/ \E s \in Sockets, q \in Requests : ClientSet(s, q)

(* The tasks of run and of the two actors are polled as long as the process *)
(* lives.  Nobody has to start, stop or kill a service, or to send a set.   *)
Spec ==
  /\ Init /\ [][Next]_vars
  /\ \A i \in Instances : WF_vars(Ask(i)) /\ WF_vars(SocketStep(i)) /\ WF_vars(PropsStep(i))

-----------------------------------------------------------------------------
(* Types. *)
TypeOK ==
  /\ sock \in [Sockets -> Files \cup {None}] /\ tmp \in [Sockets -> [Pids -> Files \cup {None}]]
  /\ lock \in Instances \cup {None}
  /\ run \in [Instances -> {"off", "askSock", "askProps", "up", "failed", "stopped", "dead"}]
  /\ sk \in [Instances -> {"off", "sweep", "clear", "bind", "chmod", "rename", "ready", "drop",
                           "failed", "stopped", "dead"}]
  /\ pr \in [Instances -> {"off", "load", "lock", "apply", "ready", "failed", "stopped", "dead"}]
  /\ cur \in [Instances -> Sockets] /\ stop \in [Instances -> BOOLEAN]
  /\ build \in [Instances -> Builds \cup {<<>>}] /\ done \in [Instances -> Nat]
  /\ mbox \in [Instances -> Seq(Requests \cup {Stop})]
  /\ clashed \subseteq Instances

(* The three tasks of a process keep step: an actor is told to stop only once *)
(* run has failed or its caller stops it, and run goes on with what is ready. *)
TasksInStep ==
  \A i \in Instances :
    /\ (run[i] = "off") = (sk[i] = "off") /\ (run[i] = "off") = (pr[i] = "off")
    /\ run[i] = "dead" => sk[i] = "dead" /\ pr[i] = "dead"
    /\ stop[i] \/ sk[i] = "drop" \/ (\E n \in DOMAIN mbox[i] : mbox[i][n] = Stop)
         => run[i] \in {"failed", "stopped"}
    /\ sk[i] \in {"off", "sweep"} => cur[i] = 1
    /\ run[i] \in {"askProps", "up"} => sk[i] = "ready"
    /\ run[i] = "up" => pr[i] = "ready"

(* While on_start adds the build properties the store holds those added so   *)
(* far and nothing else; afterwards it holds all of them.                    *)
BuildAdded ==
  \A i \in Instances :
    /\ pr[i] \in {"off", "load", "lock"} => done[i] = 0
    /\ pr[i] \in {"apply", "ready"} =>
         /\ done[i] <= Len(build[i])
         /\ \A n \in 1 .. done[i] : build[i][n][1] \in DOMAIN store
    /\ pr[i] = "apply" => \A k \in DOMAIN store : \E n \in 1 .. done[i] : build[i][n][1] = k
    /\ pr[i] = "ready" => done[i] = Len(build[i])

(* A temporary socket has the name of its process, and is renamed only with  *)
(* its final mode.                                                           *)
OwnTmp ==
  /\ \A i, j \in Running : Pid[i] = Pid[j] => i = j
  /\ \A i \in Instances : sk[i] \in {"chmod", "rename"} /\ Tmp(i) # None =>
       Tmp(i).by = i /\ (sk[i] = "rename" => Tmp(i).mode = "0660")

(* A process that no other one runs beside finds the directory as it left it. *)
Alone ==
  \A i \in Running \ clashed :
    /\ Running = {i}
    /\ sk[i] \in {"clear", "bind", "chmod", "rename", "ready"} =>
         \A s \in Sockets, p \in Pids : tmp[s][p] # None =>
           sk[i] \in {"chmod", "rename"} /\ s = cur[i] /\ p = Pid[i]
    /\ \A s \in Sockets :
         sk[i] = "ready" \/ (s < cur[i] /\ sk[i] \in {"clear", "bind", "chmod", "rename"}) =>
           sock[s] # None /\ sock[s].by = i

(* No client ever finds a socket at one of the two names with a mode wider  *)
(* than SOCKET_FILE_MODE, also after a start that failed or died half way   *)
(* through, or over the files an earlier one left (bind_socket_with_mode).  *)
NeverReachableWide == \A s \in Sockets : sock[s] # None => sock[s].mode = "0660"

(* The flock is held from new_area to the end of the actor, by one process. *)
LockHeld == \A i \in Instances : (lock = i) = (pr[i] \in {"apply", "ready"})

(* What other processes meet in the two directories is never half done. *)
ServiceInv ==
  TypeOK /\ TasksInStep /\ LockHeld /\ BuildAdded /\ OwnTmp /\ Alone /\ NeverReachableWide

(* When run returns Ok, and until the service is stopped, and if no other    *)
(* one ran beside it (Drop unlinks by name), both names lead to              *)
(* this process, no temporary files are left (the sweep could remove them),  *)
(* it holds the lock, and every build property is there; so whoever opens    *)
(* the store from then on misses none of them.                               *)
UpMeansServing ==
  \A i \in Instances \ clashed : run[i] = "up" =>
    /\ \A s \in Sockets : sock[s] # None /\ sock[s].by = i /\ \A p \in Pids : tmp[s][p] = None
    /\ lock = i
    /\ \A n \in DOMAIN build[i] : build[i][n][1] \in DOMAIN store

(* A read-only property of build.prop has the value from build.prop from the *)
(* moment it exists, however early a client's set for it arrives: sets wait  *)
(* for the end of on_start (add keeps a value that is already there).        *)
BuildValueWins ==
  \A i \in Instances : lock = i =>
    \A n \in DOMAIN build[i] :
      LET k == build[i][n][1] IN
        k \in ReadOnly \cap DOMAIN store => store[k] = build[i][n][2]

(* A name a client could connect to disappears only when a service that had  *)
(* been started is stopped or its run has failed: a restart after a kill     *)
(* replaces the socket without a moment where there is none.                 *)
NoEnoentWindow ==
  [][\A s \in Sockets : sock[s] # None /\ sock'[s] = None
       => \E i \in Instances : sk[i] = "drop" /\ run[i] \in {"failed", "stopped"}]_vars

(* Every run comes to an end, whichever actor fails to start: it is up, or   *)
(* nothing of the service stays behind in the process, both actors have      *)
(* ended and the lock is free for the next start.                            *)
RunEnds ==
  \A i \in Instances :
    (run[i] = "askSock") ~> \/ run[i] \in {"up", "stopped", "dead"}
                            \/ run[i] = "failed" /\ Gone(i) /\ lock # i
=============================================================================
