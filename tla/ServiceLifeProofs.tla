--------------------------- MODULE ServiceLifeProofs ---------------------------
(***************************************************************************)
(* Proofs about ServiceLife for every set of processes, any of which may   *)
(* overlap, every set of build properties and every set of client sets.    *)
(***************************************************************************)
EXTENDS ServiceLife, TLAPS

Inv == ServiceInv /\ BuildValueWins

(* Whatever has a task that is not over is running. *)
LEMMA RunningFacts ==
  ASSUME TypeOK, TasksInStep, NEW i \in Instances,
         \/ run[i] \in {"askSock", "askProps", "up"}
         \/ sk[i] \notin {"off", "failed", "stopped", "dead"}
         \/ pr[i] \notin {"off", "failed", "stopped", "dead"}
  PROVE  i \in Running
BY DEF TypeOK, TasksInStep, Running, Gone

(* Steps that neither start a process nor touch the sockets. *)
LEMMA SocketsKept ==
  ASSUME OwnTmp, Alone, NeverReachableWide, Running' \subseteq Running,
         UNCHANGED <<clashed, sk, cur, sock, tmp>>
  PROVE  OwnTmp' /\ Alone' /\ NeverReachableWide'
BY DEF OwnTmp, Alone, NeverReachableWide, Tmp

(* Steps that leave the properties actors and the store alone. *)
LEMMA PropsKept ==
  ASSUME LockHeld, BuildAdded, BuildValueWins, UNCHANGED <<pr, build, done, lock, store>>
  PROVE  LockHeld' /\ BuildAdded' /\ BuildValueWins'
BY DEF LockHeld, BuildAdded, BuildValueWins

(* Nothing has been started. *)
LEMMA InitHolds == Init => Inv
<1> SUFFICES ASSUME Init PROVE Inv
  OBVIOUS
<1>1. TypeOK
  BY DEF Init, TypeOK, Sockets
<1>2. Running = {}
  BY DEF Init, Running
<1>3. TasksInStep /\ LockHeld /\ BuildAdded /\ BuildValueWins /\ NeverReachableWide
  BY InstancesAssumption DEF Init, TasksInStep, LockHeld, BuildAdded, BuildValueWins, NeverReachableWide
<1>4. OwnTmp /\ Alone
  BY <1>2 DEF Init, OwnTmp, Alone
<1> QED
  BY <1>1, <1>3, <1>4 DEF Inv, ServiceInv

-----------------------------------------------------------------------------
(* run and the process.                                                    *)

LEMMA StartInv ==
  ASSUME Inv, NEW i \in Instances, Start(i)
  PROVE  Inv'
<1> USE DEF Inv, ServiceInv
<1>1. /\ run' = [run EXCEPT ![i] = "askSock"] /\ sk' = [sk EXCEPT ![i] = "sweep"]
      /\ pr' = [pr EXCEPT ![i] = "load"] /\ run[i] = "off" /\ sk[i] = "off" /\ pr[i] = "off"
      /\ UNCHANGED <<stop, mbox, cur, sock, tmp, build, done, lock, store, sets>>
  BY DEF Start, TasksInStep, sfiles
<1>2. clashed' = (IF Running = {} THEN clashed ELSE clashed \cup Running \cup {i})
  BY DEF Start
<1>3. Running' = Running \cup {i}
  BY <1>1 DEF TypeOK, Running, Gone
<1>4. TypeOK'
  BY <1>1, <1>2 DEF TypeOK, Running
<1>5. TasksInStep'
  BY <1>1 DEF TypeOK, TasksInStep
<1>6. LockHeld' /\ NeverReachableWide'
  BY <1>1 DEF TypeOK, LockHeld, NeverReachableWide
<1>7. BuildAdded' /\ BuildValueWins'
  BY <1>1 DEF TypeOK, BuildAdded, BuildValueWins, LockHeld
<1>8. OwnTmp'
  <2>1. \A j \in Running : Pid[j] # Pid[i]
    BY DEF Start
  <2> QED
    BY <1>1, <1>3, <2>1 DEF TypeOK, OwnTmp, Tmp
<1>9. Alone'
  <2>1. CASE Running = {}
    BY <1>1, <1>3, <2>1 DEF TypeOK, Alone, Sockets
  <2>2. CASE Running # {}
    <3>1. Running' \ clashed' = {}
      BY <1>2, <1>3, <2>2
    <3> QED
      BY <3>1 DEF Alone
  <2> QED
    BY <2>1, <2>2
<1> QED
  BY <1>4, <1>5, <1>6, <1>7, <1>8, <1>9

(* A Stop, or a set, behind the messages of a mailbox. *)
LEMMA AppendFacts ==
  ASSUME TypeOK, NEW i \in Instances, NEW m \in Requests \cup {Stop},
         mbox' = [mbox EXCEPT ![i] = Append(@, m)]
  PROVE  /\ mbox' \in [Instances -> Seq(Requests \cup {Stop})]
         /\ \A j \in Instances \ {i} : mbox'[j] = mbox[j]
         /\ (\E n \in DOMAIN mbox'[i] : mbox'[i][n] = Stop) =>
              m = Stop \/ \E n \in DOMAIN mbox[i] : mbox[i][n] = Stop
BY DEF TypeOK

(* The answers run waits for, and the caller's stop. *)
LEMMA RunStepInv ==
  ASSUME Inv, NEW i \in Instances, Ask(i) \/ StopService(i)
  PROVE  Inv'
<1> USE DEF Inv, ServiceInv
<1>1. UNCHANGED <<clashed, sk, cur, sock, tmp, pr, build, done, lock, store, sets>>
  BY DEF Ask, AskSocket, AskProps, StopService, svars, sfiles, pvars
<1>2. /\ run[i] \in {"askSock", "askProps", "up"}
      /\ \E r \in {"askProps", "up", "failed", "stopped"} : run' = [run EXCEPT ![i] = r]
  BY DEF Ask, AskSocket, AskProps, StopService, FailRun
<1>3. \/ /\ UNCHANGED <<stop, mbox>> /\ sk[i] = "ready"
         /\ \/ run' = [run EXCEPT ![i] = "askProps"]
            \/ run' = [run EXCEPT ![i] = "up"] /\ pr[i] = "ready"
      \/ /\ run' \in {[run EXCEPT ![i] = "failed"], [run EXCEPT ![i] = "stopped"]}
         /\ stop' = [stop EXCEPT ![i] = TRUE] /\ mbox' = [mbox EXCEPT ![i] = Append(@, Stop)]
  BY DEF Ask, AskSocket, AskProps, StopService, FailRun, StopBoth, TasksInStep
<1>4. i \in Running
  BY <1>2, RunningFacts
<1>5. Running' \subseteq Running
  BY <1>1, <1>2, <1>4 DEF TypeOK, Running, Gone
<1>6. TypeOK' /\ TasksInStep'
  <2>1. CASE UNCHANGED <<stop, mbox>>
    BY <1>1, <1>2, <1>3, <2>1 DEF TypeOK, TasksInStep
  <2>2. CASE /\ run' \in {[run EXCEPT ![i] = "failed"], [run EXCEPT ![i] = "stopped"]}
             /\ stop' = [stop EXCEPT ![i] = TRUE] /\ mbox' = [mbox EXCEPT ![i] = Append(@, Stop)]
    <3>1. /\ mbox' \in [Instances -> Seq(Requests \cup {Stop})]
          /\ \A j \in Instances \ {i} : mbox'[j] = mbox[j]
      BY <2>2, AppendFacts
    <3>2. TypeOK'
      BY <1>1, <1>2, <2>2, <3>1 DEF TypeOK
    <3>3. TasksInStep'
      BY <1>1, <1>2, <2>2, <3>1 DEF TypeOK, TasksInStep
    <3> QED
      BY <3>2, <3>3
  <2> QED
    BY <1>3, <2>1, <2>2
<1> QED
  BY <1>1, <1>5, <1>6, SocketsKept, PropsKept

LEMMA DieInv ==
  ASSUME Inv, NEW i \in Instances, Die(i)
  PROVE  Inv'
<1> USE DEF Inv, ServiceInv
<1>1. /\ run' = [run EXCEPT ![i] = "dead"] /\ sk' = [sk EXCEPT ![i] = "dead"]
      /\ pr' = [pr EXCEPT ![i] = "dead"] /\ cur' = [cur EXCEPT ![i] = 1]
      /\ build' = [build EXCEPT ![i] = <<>>] /\ done' = [done EXCEPT ![i] = 0]
      /\ mbox' = [mbox EXCEPT ![i] = <<>>] /\ stop' = [stop EXCEPT ![i] = FALSE]
      /\ lock' = (IF lock = i THEN None ELSE lock)
      /\ UNCHANGED <<clashed, sock, tmp, store, sets>>
  BY DEF Die, PropsEnds, sfiles
<1>2. run[i] # "off"
  BY DEF Die
<1>3. Running' \subseteq Running \ {i}
  BY <1>1 DEF TypeOK, Running, Gone
<1>4. TypeOK'
  BY <1>1 DEF TypeOK, Sockets
<1>5. TasksInStep'
  BY <1>1, <1>2 DEF TypeOK, TasksInStep
<1>6. LockHeld' /\ NeverReachableWide'
  BY <1>1, InstancesAssumption DEF TypeOK, LockHeld, NeverReachableWide
<1>7. BuildAdded' /\ BuildValueWins'
  BY <1>1, InstancesAssumption DEF TypeOK, BuildAdded, BuildValueWins
<1>8. OwnTmp' /\ Alone'
  BY <1>1, <1>3 DEF TypeOK, OwnTmp, Alone, Tmp, Running
<1> QED
  BY <1>4, <1>5, <1>6, <1>7, <1>8

-----------------------------------------------------------------------------
(* The socket actor leaves everything but its step and the files alone.    *)

LEMMA SocketFrame ==
  ASSUME Inv, NEW i \in Instances, SocketStep(i)
  PROVE  /\ UNCHANGED <<clashed, run, stop, mbox, pr, build, done, lock, store>>
         /\ i \in Running /\ Running' \subseteq Running
         /\ \A j \in Running' \ clashed' : j = i /\ Running' = {i} /\ i \in Running \ clashed
         /\ sk' = [sk EXCEPT ![i] = sk'[i]] /\ cur' = [cur EXCEPT ![i] = cur'[i]]
         /\ cur'[i] \in Sockets
         /\ sk'[i] \in {"clear", "bind", "chmod", "rename", "ready", "drop", "failed", "stopped"}
         /\ sk'[i] \in {"drop", "stopped"} \/ sk[i] # "ready"
         /\ sk'[i] = "drop" => stop[i] \/ sk[i] = "drop"
         /\ sk[i] = "drop" \/ sk[i] = "ready" => sk'[i] \in {"drop", "stopped"}
<1> USE DEF Inv, ServiceInv
<1>1. /\ UNCHANGED <<clashed, run, stop, mbox, pr, build, done, lock, store>>
      /\ sk[i] \in {"sweep", "clear", "bind", "chmod", "rename", "ready", "drop"}
  BY DEF SocketStep, SocketDirFails, Sweep, ClearTmp, Bind, BindFails, Chmod, FinalizeFails, Rename, Subscribe, SocketStops,
     DropSocket, At, pvars
<1>2. i \in Running
  BY <1>1, RunningFacts
<1>3. /\ sk' = [sk EXCEPT ![i] = sk'[i]] /\ cur' = [cur EXCEPT ![i] = cur'[i]]
      /\ cur'[i] \in Sockets
      /\ sk'[i] \in {"clear", "bind", "chmod", "rename", "ready", "drop", "failed", "stopped"}
      /\ sk'[i] \in {"drop", "stopped"} \/ sk[i] # "ready"
      /\ sk'[i] = "drop" => stop[i] \/ sk[i] = "drop"
      /\ sk[i] = "drop" \/ sk[i] = "ready" => sk'[i] \in {"drop", "stopped"}
  <2>1. CASE SocketDirFails(i) \/ Sweep(i) \/ ClearTmp(i) \/ Bind(i) \/ BindFails(i) \/ Chmod(i) \/ FinalizeFails(i)
    BY <2>1 DEF SocketDirFails, Sweep, ClearTmp, Bind, BindFails, Chmod, FinalizeFails, At, To, TypeOK
  <2>2. CASE Rename(i) \/ SocketStops(i) \/ DropSocket(i)
    BY <2>2 DEF Rename, Subscribe, SocketStops, DropSocket, At, To, TypeOK, Sockets
  <2> QED
    BY <2>1, <2>2 DEF SocketStep
<1>4. Running' \subseteq Running
  BY <1>1, <1>2, <1>3 DEF TypeOK, Running, Gone
<1>5. \A j \in Running' \ clashed' : j = i /\ Running' = {i} /\ i \in Running \ clashed
  BY <1>1, <1>2, <1>4 DEF Alone
<1> QED
  BY <1>1, <1>2, <1>3, <1>4, <1>5

(* What only the files decide. *)
LEMMA SocketStepInv ==
  ASSUME Inv, NEW i \in Instances, SocketStep(i),
         sock' \in [Sockets -> Files \cup {None}], tmp' \in [Sockets -> [Pids -> Files \cup {None}]],
         OwnTmp', Alone', NeverReachableWide'
  PROVE  Inv'
<1> USE DEF Inv, ServiceInv
<1>1. LockHeld' /\ BuildAdded' /\ BuildValueWins'
  BY SocketFrame, PropsKept
<1>0. /\ UNCHANGED <<clashed, run, stop, mbox, pr, build, done, lock, store>>
      /\ sk' = [sk EXCEPT ![i] = sk'[i]] /\ cur' = [cur EXCEPT ![i] = cur'[i]]
      /\ cur'[i] \in Sockets
      /\ sk'[i] \in {"clear", "bind", "chmod", "rename", "ready", "drop", "failed", "stopped"}
  BY SocketFrame
<1>2. TypeOK'
  <2>1. /\ sk' \in [Instances -> {"off", "sweep", "clear", "bind", "chmod", "rename", "ready", "drop",
                                  "failed", "stopped", "dead"}]
        /\ cur' \in [Instances -> Sockets]
    BY <1>0 DEF TypeOK
  <2> QED
    BY <1>0, <2>1 DEF TypeOK
<1>3. TasksInStep'
  <2>1. /\ run[i] \notin {"off", "dead"} /\ sk[i] # "off"
        /\ sk'[i] = "drop" => run[i] \in {"failed", "stopped"}
        /\ run[i] \in {"askProps", "up"} => FALSE
    <3>1. sk[i] = "ready" => stop[i]
      BY DEF SocketStep, SocketDirFails, Sweep, ClearTmp, Bind, BindFails, Chmod, FinalizeFails, Rename, Subscribe, SocketStops,
         DropSocket, At
    <3>2. i \in Running
      BY SocketFrame
    <3> QED
      BY <3>1, <3>2, SocketFrame DEF TasksInStep, Running, Gone
  <2>2. \A j \in Instances \ {i} : sk'[j] = sk[j] /\ cur'[j] = cur[j]
    BY <1>0 DEF TypeOK
  <2>3. stop[i] \/ (\E n \in DOMAIN mbox[i] : mbox[i][n] = Stop) => run[i] \in {"failed", "stopped"}
    BY DEF TasksInStep
  <2>4. pr[i] # "off"
    BY <2>1 DEF TasksInStep
  <2> SUFFICES ASSUME NEW j \in Instances
               PROVE  (/\ (run[j] = "off") = (sk[j] = "off") /\ (run[j] = "off") = (pr[j] = "off")
                       /\ run[j] = "dead" => sk[j] = "dead" /\ pr[j] = "dead"
                       /\ stop[j] \/ sk[j] = "drop" \/ (\E n \in DOMAIN mbox[j] : mbox[j][n] = Stop)
                            => run[j] \in {"failed", "stopped"}
                       /\ sk[j] \in {"off", "sweep"} => cur[j] = 1
                       /\ run[j] \in {"askProps", "up"} => sk[j] = "ready"
                       /\ run[j] = "up" => pr[j] = "ready")'
    BY DEF TasksInStep
  <2>5. CASE j = i
    BY <1>0, <2>1, <2>3, <2>4, <2>5
  <2>6. CASE j # i
    BY <1>0, <2>2, <2>6 DEF TasksInStep
  <2> QED
    BY <2>5, <2>6
<1> QED
  BY <1>1, <1>2, <1>3

(* The name a running process gives its temporary socket is no other one's. *)
LEMMA TmpOfOthers ==
  ASSUME Inv, NEW i \in Instances, i \in Running, NEW f,
         tmp' = [tmp EXCEPT ![cur[i]][Pid[i]] = f]
  PROVE  /\ \A s \in Sockets, p \in Pids :
              tmp'[s][p] = IF s = cur[i] /\ p = Pid[i] THEN f ELSE tmp[s][p]
         /\ \A j \in Running \ {i} : tmp'[cur[j]][Pid[j]] = Tmp(j)
         /\ f \in Files \cup {None} => tmp' \in [Sockets -> [Pids -> Files \cup {None}]]
<1>1. TypeOK /\ OwnTmp /\ cur[i] \in Sockets /\ Pid[i] \in Pids
  BY DEF Inv, ServiceInv, TypeOK, Pids
<1>2. tmp' = [s \in Sockets |-> [p \in Pids |-> IF s = cur[i] /\ p = Pid[i] THEN f ELSE tmp[s][p]]]
  BY <1>1 DEF TypeOK
<1>3. \A j \in Running \ {i} : cur[j] \in Sockets /\ Pid[j] \in Pids /\ Pid[j] # Pid[i]
  BY <1>1 DEF TypeOK, OwnTmp, Running, Pids
<1> QED
  BY <1>1, <1>2, <1>3 DEF TypeOK, Tmp

LEMMA TmpType ==
  ASSUME Inv, NEW i \in Instances
  PROVE  Tmp(i) \in Files \cup {None} /\ cur[i] \in Sockets /\ Pid[i] \in Pids
<1>1. cur[i] \in Sockets /\ Pid[i] \in Pids
  BY DEF Inv, ServiceInv, TypeOK, Pids
<1>2. tmp[cur[i]] \in [Pids -> Files \cup {None}]
  BY <1>1 DEF Inv, ServiceInv, TypeOK
<1> QED
  BY <1>1, <1>2 DEF Tmp

(* Another process that has a temporary socket runs. *)
LEMMA OtherSockets ==
  ASSUME Inv, NEW i \in Instances, SocketStep(i)
  PROVE  \A j \in Instances \ {i} : /\ sk'[j] = sk[j] /\ cur'[j] = cur[j]
                                    /\ (sk[j] \in {"chmod", "rename"} => j \in Running)
<1>1. sk' = [sk EXCEPT ![i] = sk'[i]] /\ cur' = [cur EXCEPT ![i] = cur'[i]]
  BY SocketFrame
<1>2. \A j \in Instances : sk[j] \in {"chmod", "rename"} => j \in Running
  <2> SUFFICES ASSUME NEW j \in Instances, sk[j] \in {"chmod", "rename"} PROVE j \in Running
    OBVIOUS
  <2> QED
    BY RunningFacts DEF Inv, ServiceInv
<1> QED
  BY <1>1, <1>2 DEF Inv, ServiceInv, TypeOK

(* bind, chmod and the removal of the temporary file. *)
LEMMA SetTmpInv ==
  ASSUME Inv, NEW i \in Instances, ClearTmp(i) \/ Bind(i) \/ Chmod(i) \/ FinalizeFails(i)
  PROVE  Inv'
<1> USE DEF Inv, ServiceInv
<1>1. SocketStep(i) /\ UNCHANGED <<sock, cur>> /\ i \in Running
  BY SocketFrame DEF SocketStep, ClearTmp, Bind, Chmod, FinalizeFails
<1>2. PICK f \in Files \cup {None} :
        /\ tmp' = [tmp EXCEPT ![cur[i]][Pid[i]] = f]
        /\ f # None => f.by = i /\ sk'[i] \in {"chmod", "rename"} /\ (sk'[i] = "rename" => f.mode = "0660")
  <2>1. CASE ClearTmp(i) \/ FinalizeFails(i)
    BY <2>1 DEF ClearTmp, FinalizeFails, SetTmp
  <2>2. CASE Bind(i)
    <3>1. [by |-> i, mode |-> "umask"] \in Files \cup {None}
      BY DEF Files
    <3>2. sk'[i] = "chmod"
      BY <2>2 DEF Bind, To, TypeOK
    <3>3. tmp' = [tmp EXCEPT ![cur[i]][Pid[i]] = [by |-> i, mode |-> "umask"]]
      BY <2>2 DEF Bind, SetTmp
    <3> WITNESS [by |-> i, mode |-> "umask"] \in Files \cup {None}
    <3> QED
      BY <3>2, <3>3
  <2>3. CASE Chmod(i)
    <3>1. Tmp(i) \in Files /\ Tmp(i).by = i
      <4>1. Tmp(i) \in Files \cup {None}
        BY TmpType
      <4> QED
        BY <2>3, <4>1 DEF Chmod, At, OwnTmp
    <3>2. [Tmp(i) EXCEPT !.mode = "0660"] = [by |-> i, mode |-> "0660"]
      BY <3>1 DEF Files
    <3>3. [by |-> i, mode |-> "0660"] \in Files
      BY DEF Files
    <3>4. sk'[i] = "rename"
      BY <2>3 DEF Chmod, To, TypeOK
    <3> QED
      BY <2>3, <3>2, <3>3, <3>4 DEF Chmod, SetTmp
  <2> QED
    BY <2>1, <2>2, <2>3
<1>3. /\ \A s \in Sockets, p \in Pids :
           tmp'[s][p] = IF s = cur[i] /\ p = Pid[i] THEN f ELSE tmp[s][p]
      /\ \A j \in Running \ {i} : tmp'[cur[j]][Pid[j]] = Tmp(j)
      /\ tmp' \in [Sockets -> [Pids -> Files \cup {None}]]
  BY <1>1, <1>2, TmpOfOthers
<1>4. OwnTmp'
  <2>1. \A j \in Instances : j # i => sk'[j] = sk[j] /\ (sk[j] \in {"chmod", "rename"} => j \in Running)
    BY <1>1, OtherSockets
  <2>2. Tmp(i)' = f
    BY <1>1, <1>3 DEF Tmp, TypeOK, Pids
  <2>3. \A j \in Running \ {i} : Tmp(j)' = Tmp(j)
    BY <1>1, <1>3 DEF Tmp
  <2>4. \A a, b \in Running' : Pid[a] = Pid[b] => a = b
    BY <1>1, SocketFrame DEF OwnTmp
  <2> QED
    BY <1>2, <2>1, <2>2, <2>3, <2>4 DEF OwnTmp
<1>5. Alone'
  <2> SUFFICES ASSUME i \in Running \ clashed, Running' = {i}
               PROVE  /\ \A s \in Sockets, p \in Pids : tmp'[s][p] # None =>
                           sk'[i] \in {"chmod", "rename"} /\ s = cur[i] /\ p = Pid[i]
                      /\ \A s \in Sockets :
                           sk'[i] = "ready" \/ (s < cur[i] /\ sk'[i] \in {"clear", "bind", "chmod", "rename"})
                             => sock[s] # None /\ sock[s].by = i
    BY <1>1, SocketFrame DEF Alone
  <2>1. sk[i] \in {"clear", "bind", "chmod", "rename"} /\ sk'[i] # "ready"
    BY DEF ClearTmp, Bind, Chmod, FinalizeFails, At, To, TypeOK
  <2>2. \A s \in Sockets, p \in Pids : tmp[s][p] # None => s = cur[i] /\ p = Pid[i]
    BY <2>1 DEF Alone
  <2>3. \A s \in Sockets : s < cur[i] => sock[s] # None /\ sock[s].by = i
    BY <2>1 DEF Alone
  <2> QED
    BY <1>2, <1>3, <2>1, <2>2, <2>3
<1>6. NeverReachableWide'
  BY <1>1 DEF NeverReachableWide
<1> QED
  BY <1>1, <1>3, <1>4, <1>5, <1>6, SocketStepInv DEF TypeOK

(* rename: the file at the name is whole from one step to the next. *)
LEMMA RenameInv ==
  ASSUME Inv, NEW i \in Instances, Rename(i)
  PROVE  Inv'
<1> USE DEF Inv, ServiceInv
<1>1. SocketStep(i) /\ i \in Running /\ sk[i] = "rename" /\ Tmp(i) # None
  BY SocketFrame DEF SocketStep, Rename, At
<1>2. /\ Tmp(i) \in Files /\ Tmp(i).by = i /\ Tmp(i).mode = "0660"
      /\ cur[i] \in Sockets /\ Pid[i] \in Pids
  BY <1>1, TmpType DEF OwnTmp
<1>3. sock' = [sock EXCEPT ![cur[i]] = Tmp(i)] /\ tmp' = [tmp EXCEPT ![cur[i]][Pid[i]] = None]
  BY DEF Rename, SetTmp
<1>4. /\ \A s \in Sockets, p \in Pids :
           tmp'[s][p] = IF s = cur[i] /\ p = Pid[i] THEN None ELSE tmp[s][p]
      /\ \A j \in Running \ {i} : tmp'[cur[j]][Pid[j]] = Tmp(j)
      /\ tmp' \in [Sockets -> [Pids -> Files \cup {None}]]
  BY <1>1, <1>3, TmpOfOthers
<1>5. sock' \in [Sockets -> Files \cup {None}] /\ NeverReachableWide'
  BY <1>2, <1>3 DEF TypeOK, NeverReachableWide
<1>6. OwnTmp'
  <2>1. sk'[i] \in {"clear", "ready", "failed"}
    BY DEF Rename, Subscribe, To, TypeOK
  <2>2. \A j \in Instances \ {i} : /\ sk'[j] = sk[j] /\ cur'[j] = cur[j]
                                   /\ (sk[j] \in {"chmod", "rename"} => j \in Running)
    BY <1>1, OtherSockets
  <2>3. \A j \in Running \ {i} : Tmp(j)' = Tmp(j)
    BY <1>4, <2>2 DEF Tmp, Running
  <2>4. \A a, b \in Running' : Pid[a] = Pid[b] => a = b
    BY <1>1, SocketFrame DEF OwnTmp
  <2> QED
    BY <2>1, <2>2, <2>3, <2>4 DEF OwnTmp
<1>7. Alone'
  <2> SUFFICES ASSUME i \in Running \ clashed, Running' = {i}
               PROVE  /\ \A s \in Sockets, p \in Pids : tmp'[s][p] = None
                      /\ \A s \in Sockets :
                           sk'[i] = "ready" \/ (s < cur'[i] /\ sk'[i] \in {"clear", "bind", "chmod", "rename"})
                             => sock'[s] # None /\ sock'[s].by = i
    BY <1>1, SocketFrame DEF Alone
  <2>1. \A s \in Sockets, p \in Pids : tmp[s][p] # None => s = cur[i] /\ p = Pid[i]
    BY <1>1 DEF Alone
  <2>2. \A s \in Sockets : s < cur[i] => sock[s] # None /\ sock[s].by = i
    BY <1>1 DEF Alone
  <2>3. \/ cur[i] = 1 /\ sk'[i] = "clear" /\ cur'[i] = 2
        \/ cur[i] = 2 /\ sk'[i] \in {"ready", "failed"}
    BY DEF Rename, Subscribe, To, TypeOK
  <2>4. sock'[cur[i]] # None /\ sock'[cur[i]].by = i /\ \A s \in Sockets \ {cur[i]} : sock'[s] = sock[s]
    BY <1>1, <1>2, <1>3 DEF TypeOK
  <2> QED
    BY <1>4, <2>1, <2>2, <2>3, <2>4 DEF Sockets
<1> QED
  BY <1>1, <1>4, <1>5, <1>6, <1>7, SocketStepInv

(* The remaining steps of the actor. *)
LEMMA SocketRestInv ==
  ASSUME Inv, NEW i \in Instances,
         SocketDirFails(i) \/ Sweep(i) \/ BindFails(i) \/ SocketStops(i) \/ DropSocket(i)
  PROVE  Inv'
<1> USE DEF Inv, ServiceInv
<1>1. SocketStep(i) /\ i \in Running
  BY SocketFrame DEF SocketStep
<1>2. /\ sk'[i] \notin {"bind", "chmod", "rename", "ready"}
      /\ sk'[i] = "clear" => sk[i] = "sweep" /\ cur'[i] = cur[i]
      /\ sk'[i] = "clear" => \A s \in Sockets, p \in Pids : tmp'[s][p] = None
  BY DEF SocketDirFails, Sweep, BindFails, SocketStops, DropSocket, At, To, TypeOK
<1>3. tmp' = tmp \/ tmp' = [s \in Sockets |-> [p \in Pids |-> None]]
  BY DEF SocketDirFails, Sweep, BindFails, SocketStops, DropSocket, sfiles
<1>4. sock' = sock \/ sock' = [sock EXCEPT ![cur[i]] = None]
  BY DEF SocketDirFails, Sweep, BindFails, SocketStops, DropSocket, sfiles
<1>5. /\ tmp' \in [Sockets -> [Pids -> Files \cup {None}]]
      /\ sock' \in [Sockets -> Files \cup {None}] /\ NeverReachableWide'
  <2>1. tmp' \in [Sockets -> [Pids -> Files \cup {None}]]
    BY <1>3 DEF TypeOK
  <2>2. sock' \in [Sockets -> Files \cup {None}] /\ \A s \in Sockets : sock'[s] \in {sock[s], None}
    BY <1>4 DEF TypeOK
  <2> QED
    BY <2>1, <2>2 DEF NeverReachableWide
<1>6. OwnTmp'
  <2>1. \A j \in Instances \ {i} : sk'[j] = sk[j] /\ cur'[j] = cur[j]
    BY <1>1, SocketFrame DEF TypeOK
  <2>2. \A j \in Instances \ {i} : Tmp(j)' = Tmp(j) \/ Tmp(j)' = None
    <3>1. \A j \in Instances : cur[j] \in Sockets /\ Pid[j] \in Pids
      BY DEF TypeOK, Pids
    <3> QED
      BY <1>3, <2>1, <3>1 DEF Tmp
  <2>3. \A a, b \in Running' : Pid[a] = Pid[b] => a = b
    BY <1>1, SocketFrame DEF OwnTmp
  <2> QED
    BY <1>2, <2>1, <2>2, <2>3 DEF OwnTmp
<1>7. Alone'
  <2>1. sk'[i] = "clear" => \A s \in Sockets : ~ (s < cur'[i])
    BY <1>2 DEF TasksInStep, Sockets
  <2> QED
    BY <1>1, <1>2, <2>1, SocketFrame DEF Alone
<1> QED
  BY <1>1, <1>5, <1>6, <1>7, SocketStepInv

-----------------------------------------------------------------------------
(* The properties actor leaves the sockets alone.                          *)

LEMMA PropsFrame ==
  ASSUME Inv, NEW i \in Instances, PropsStep(i)
  PROVE  /\ UNCHANGED <<clashed, run, stop, sk, cur, sock, tmp>>
         /\ pr[i] \in {"load", "lock", "apply", "ready"}
         /\ i \in Running /\ Running' \subseteq Running
         /\ OwnTmp' /\ Alone' /\ NeverReachableWide'
<1> USE DEF Inv, ServiceInv
<1>1. /\ UNCHANGED <<clashed, run, stop, sk, cur, sock, tmp>>
      /\ pr[i] \in {"load", "lock", "apply", "ready"}
  BY DEF PropsStep, LoadBuild, TakeLock, Apply, Applied, Handle, PropsStop, Serves, svars, sfiles
<1>2. i \in Running
  BY <1>1, RunningFacts
<1>3. \A j \in Instances \ {i} : pr'[j] = pr[j]
  BY DEF PropsStep, LoadBuild, TakeLock, Apply, Applied, Handle, PropsStop, PropsEnds, TypeOK
<1>4. Running' \subseteq Running
  BY <1>1, <1>2, <1>3 DEF Running, Gone
<1> QED
  BY <1>1, <1>2, <1>4, SocketsKept

(* The actor ends in failure, or because it was told to. *)
LEMMA PropsEndsInv ==
  ASSUME Inv, NEW i \in Instances, PropsStep(i), NEW st \in {"failed", "stopped"}, PropsEnds(i, st),
         st = "stopped" => \E n \in DOMAIN mbox[i] : mbox[i][n] = Stop,
         store' = store, lock' = IF pr[i] \in {"apply", "ready"} THEN None ELSE lock,
         pr[i] = "ready" => st = "stopped"
  PROVE  Inv'
<1> USE DEF Inv, ServiceInv
<1>1. /\ pr' = [pr EXCEPT ![i] = st] /\ build' = [build EXCEPT ![i] = <<>>]
      /\ done' = [done EXCEPT ![i] = 0] /\ mbox' = [mbox EXCEPT ![i] = <<>>]
  BY DEF PropsEnds
<1>2. /\ UNCHANGED <<clashed, run, stop, sk, cur, sock, tmp>>
      /\ pr[i] \in {"load", "lock", "apply", "ready"}
  BY PropsFrame
<1>3. TypeOK'
  BY <1>1, <1>2 DEF TypeOK
<1>4. TasksInStep'
  BY <1>1, <1>2 DEF TypeOK, TasksInStep
<1>5. lock = i <=> pr[i] \in {"apply", "ready"}
  BY DEF LockHeld
<1>6. LockHeld'
  BY <1>1, <1>5, InstancesAssumption DEF TypeOK, LockHeld
<1>7. BuildAdded' /\ BuildValueWins'
  BY <1>1, <1>5, InstancesAssumption DEF TypeOK, BuildAdded, BuildValueWins
<1> QED
  BY <1>3, <1>4, <1>6, <1>7, PropsFrame

LEMMA LoadInv ==
  ASSUME Inv, NEW i \in Instances, LoadBuild(i)
  PROVE  Inv'
<1> USE DEF Inv, ServiceInv
<1>1. PropsStep(i) /\ pr[i] = "load" /\ UNCHANGED <<lock, store>>
  BY DEF PropsStep, LoadBuild
<1>2. CASE PropsEnds(i, "failed")
  BY <1>1, <1>2, PropsEndsInv
<1>3. CASE ~ PropsEnds(i, "failed")
  <2>1. PICK b \in Builds : build' = [build EXCEPT ![i] = b]
    BY <1>3 DEF LoadBuild
  <2>2. pr' = [pr EXCEPT ![i] = "lock"] /\ UNCHANGED <<done, mbox>>
    BY <1>3 DEF LoadBuild
  <2>3. UNCHANGED <<clashed, run, stop, sk, cur, sock, tmp>>
    BY <1>1, PropsFrame
  <2>4. TypeOK'
    BY <1>1, <2>1, <2>2, <2>3 DEF TypeOK
  <2>5. TasksInStep'
    BY <1>1, <2>2, <2>3 DEF TypeOK, TasksInStep
  <2>6. LockHeld'
    BY <1>1, <2>2 DEF TypeOK, LockHeld
  <2>7. BuildAdded' /\ BuildValueWins'
    <3>1. \A j \in Instances \ {i} : pr'[j] = pr[j] /\ build'[j] = build[j]
      BY <2>1, <2>2 DEF TypeOK
    <3>2. pr'[i] = "lock" /\ done[i] = 0 /\ lock # i
      BY <1>1, <2>2 DEF TypeOK, BuildAdded, LockHeld
    <3>3. BuildAdded'
      BY <1>1, <2>2, <3>1, <3>2 DEF BuildAdded
    <3>4. BuildValueWins'
      BY <1>1, <3>1, <3>2 DEF BuildValueWins
    <3> QED
      BY <3>3, <3>4
  <2> QED
    BY <1>1, <2>4, <2>5, <2>6, <2>7, PropsFrame
<1> QED
  BY <1>2, <1>3

(* The store is empty when the lock is taken. *)
LEMMA LockInv ==
  ASSUME Inv, NEW i \in Instances, TakeLock(i)
  PROVE  Inv'
<1> USE DEF Inv, ServiceInv
<1>1. PropsStep(i) /\ pr[i] = "lock" /\ UNCHANGED <<clashed, run, stop, svars, sets>>
  BY DEF PropsStep, TakeLock
<1>2. CASE PropsEnds(i, "failed") /\ UNCHANGED <<lock, store>>
  BY <1>1, <1>2, PropsEndsInv
<1>3. CASE /\ lock = None /\ lock' = i /\ store' = <<>>
           /\ pr' = [pr EXCEPT ![i] = "apply"] /\ UNCHANGED <<build, done, mbox>>
  <2>1. UNCHANGED <<clashed, run, stop, sk, cur, sock, tmp>>
    BY <1>1, PropsFrame
  <2>2. \A j \in Instances : pr[j] \notin {"apply", "ready"}
    BY <1>3, InstancesAssumption DEF LockHeld
  <2>3. TypeOK' /\ LockHeld'
    BY <1>3, <2>1, <2>2 DEF TypeOK, LockHeld
  <2>4. TasksInStep'
    BY <1>1, <1>3, <2>1 DEF TypeOK, TasksInStep
  <2>5. done[i] = 0 /\ Len(build[i]) \in Nat
    <3>1. build[i] = <<>> \/ build[i] \in Seq({build[i][n] : n \in DOMAIN build[i]})
      BY BuildsAssumption DEF TypeOK
    <3> QED
      BY <1>1, <3>1 DEF BuildAdded
  <2>6. BuildAdded'
    BY <1>3, <2>2, <2>5 DEF TypeOK, BuildAdded
  <2>7. BuildValueWins'
    BY <1>3 DEF BuildValueWins
  <2> QED
    BY <1>1, <2>3, <2>4, <2>6, <2>7, PropsFrame
<1> QED
  BY <1>2, <1>3 DEF TakeLock

(* A process's build properties: a sequence whose keys are different. *)
LEMMA BuildFacts ==
  ASSUME Inv, NEW i \in Instances
  PROVE  /\ Len(build[i]) \in Nat /\ DOMAIN build[i] = 1 .. Len(build[i])
         /\ \A m, n \in DOMAIN build[i] : build[i][m][1] = build[i][n][1] => m = n
         /\ done[i] \in Nat
<1>1. CASE build[i] = <<>>
  BY <1>1 DEF Inv, ServiceInv, TypeOK
<1>2. CASE build[i] \in Builds
  <2>1. build[i] \in Seq({build[i][n] : n \in DOMAIN build[i]})
    BY <1>2, BuildsAssumption
  <2>2. \A m, n \in DOMAIN build[i] : build[i][m][1] = build[i][n][1] => m = n
    BY <1>2, BuildsAssumption
  <2> QED
    BY <2>1, <2>2 DEF Inv, ServiceInv, TypeOK
<1> QED
  BY <1>1, <1>2 DEF Inv, ServiceInv, TypeOK

(* One add: the key is a new one, since the store holds those added before. *)
LEMMA ApplyInv ==
  ASSUME Inv, NEW i \in Instances, Apply(i)
  PROVE  Inv'
<1> USE DEF Inv, ServiceInv
<1> DEFINE k == build[i][done[i] + 1][1]
           v == build[i][done[i] + 1][2]
<1>1. PropsStep(i) /\ pr[i] = "apply" /\ done[i] < Len(build[i])
  BY DEF PropsStep, Apply
<1>2. CASE PropsEnds(i, "failed") /\ lock' = None /\ UNCHANGED store
  BY <1>1, <1>2, PropsEndsInv
<1>3. CASE /\ store' = IF k \in DOMAIN store THEN store ELSE With(store, k, v)
           /\ done' = [done EXCEPT ![i] = @ + 1]
           /\ UNCHANGED <<pr, build, mbox, lock>>
  <2>1. UNCHANGED <<clashed, run, stop, sk, cur, sock, tmp>>
    BY <1>1, PropsFrame
  <2>2. TypeOK' /\ LockHeld'
    BY <1>3, <2>1 DEF TypeOK, LockHeld
  <2>3. TasksInStep'
    BY <1>3, <2>1 DEF TasksInStep
  <2>4. /\ Len(build[i]) \in Nat /\ DOMAIN build[i] = 1 .. Len(build[i]) /\ done[i] \in Nat
        /\ \A m, n \in DOMAIN build[i] : build[i][m][1] = build[i][n][1] => m = n
    BY BuildFacts
  <2>5. lock = i /\ \A j \in Instances \ {i} : pr[j] \notin {"apply", "ready"}
    BY <1>1 DEF LockHeld
  <2>6. k \notin DOMAIN store
    <3> SUFFICES ASSUME k \in DOMAIN store PROVE FALSE
      OBVIOUS
    <3>1. PICK n \in 1 .. done[i] : build[i][n][1] = k
      BY <1>1 DEF BuildAdded
    <3>2. n \in DOMAIN build[i] /\ done[i] + 1 \in DOMAIN build[i] /\ n # done[i] + 1
      BY <1>1, <2>4, <3>1
    <3> QED
      BY <2>4, <3>1, <3>2
  <2>7. DOMAIN store' = DOMAIN store \cup {k} /\ store'[k] = v /\ \A x \in DOMAIN store : store'[x] = store[x]
    BY <1>3, <2>6 DEF With
  <2>8. done'[i] = done[i] + 1 /\ \A j \in Instances \ {i} : done'[j] = done[j]
    BY <1>3 DEF TypeOK
  <2>9. BuildAdded'
    <3>1. /\ done'[i] <= Len(build[i])
          /\ \A n \in 1 .. done'[i] : build[i][n][1] \in DOMAIN store'
          /\ \A x \in DOMAIN store' : \E n \in 1 .. done'[i] : build[i][n][1] = x
      <4>1. /\ \A n \in 1 .. done[i] : build[i][n][1] \in DOMAIN store
            /\ \A x \in DOMAIN store : \E n \in 1 .. done[i] : build[i][n][1] = x
        BY <1>1 DEF BuildAdded
      <4>2. 1 .. done'[i] = (1 .. done[i]) \cup {done[i] + 1}
        BY <2>4, <2>8
      <4>3. done'[i] <= Len(build[i])
        BY <1>1, <2>4, <2>8
      <4>4. \A n \in 1 .. done'[i] : build[i][n][1] \in DOMAIN store'
        BY <2>7, <4>1, <4>2
      <4>5. \A x \in DOMAIN store' : \E n \in 1 .. done'[i] : build[i][n][1] = x
        BY <2>7, <4>1, <4>2
      <4> QED
        BY <4>3, <4>4, <4>5
    <3>2. \A j \in Instances \ {i} : pr[j] \in {"off", "load", "lock"} => done'[j] = 0
      BY <2>8 DEF BuildAdded
    <3>3. UNCHANGED <<pr, build>>
      BY <1>3
    <3> SUFFICES ASSUME NEW j \in Instances
                 PROVE  /\ pr[j] \in {"off", "load", "lock"} => done'[j] = 0
                        /\ pr[j] \in {"apply", "ready"} =>
                             /\ done'[j] <= Len(build[j])
                             /\ \A n \in 1 .. done'[j] : build[j][n][1] \in DOMAIN store'
                        /\ pr[j] = "apply" =>
                             \A x \in DOMAIN store' : \E n \in 1 .. done'[j] : build[j][n][1] = x
                        /\ pr[j] = "ready" => done'[j] = Len(build[j])
      BY <3>3 DEF BuildAdded
    <3>4. CASE j = i
      BY <1>1, <3>1, <3>4
    <3>5. CASE j # i
      BY <2>5, <3>2, <3>5
    <3> QED
      BY <3>4, <3>5
  <2>10. BuildValueWins'
    <3> SUFFICES ASSUME NEW n \in DOMAIN build[i], build[i][n][1] \in DOMAIN store',
                        build[i][n][1] \in ReadOnly
                 PROVE  store'[build[i][n][1]] = build[i][n][2]
      BY <1>3, <2>5 DEF BuildValueWins
    <3>1. CASE build[i][n][1] = k
      <4>1. n = done[i] + 1
        BY <1>1, <2>4, <3>1
      <4> QED
        BY <2>7, <4>1
    <3>2. CASE build[i][n][1] # k
      BY <2>5, <2>7, <3>2 DEF BuildValueWins
    <3> QED
      BY <3>1, <3>2
  <2> QED
    BY <1>1, <2>2, <2>3, <2>9, <2>10, PropsFrame
<1> QED
  BY <1>2, <1>3 DEF Apply

LEMMA AppliedInv ==
  ASSUME Inv, NEW i \in Instances, Applied(i)
  PROVE  Inv'
<1> USE DEF Inv, ServiceInv
<1>1. /\ PropsStep(i) /\ pr[i] = "apply" /\ done[i] = Len(build[i])
      /\ pr' = [pr EXCEPT ![i] = "ready"] /\ UNCHANGED <<build, done, mbox, lock, store>>
  BY DEF PropsStep, Applied
<1>2. UNCHANGED <<clashed, run, stop, sk, cur, sock, tmp>>
  BY <1>1, PropsFrame
<1>3. TypeOK' /\ LockHeld'
  BY <1>1, <1>2 DEF TypeOK, LockHeld
<1>4. TasksInStep'
  BY <1>1, <1>2 DEF TypeOK, TasksInStep
<1>5. BuildAdded' /\ BuildValueWins'
  <2>1. pr'[i] = "ready" /\ \A j \in Instances \ {i} : pr'[j] = pr[j]
    BY <1>1 DEF TypeOK
  <2>2. BuildAdded'
    BY <1>1, <2>1 DEF BuildAdded
  <2>3. BuildValueWins'
    BY <1>1 DEF BuildValueWins
  <2> QED
    BY <2>2, <2>3
<1> QED
  BY <1>1, <1>3, <1>4, <1>5, PropsFrame

(* A set: the build properties are all there, and the read-only ones of *)
(* them are refused.                                                    *)
LEMMA HandleInv ==
  ASSUME Inv, NEW i \in Instances, Handle(i)
  PROVE  Inv'
<1> USE DEF Inv, ServiceInv
<1> DEFINE k == Head(mbox[i])[1]
           v == Head(mbox[i])[2]
<1>1. /\ PropsStep(i) /\ pr[i] = "ready" /\ mbox[i] # <<>>
      /\ mbox' = [mbox EXCEPT ![i] = Tail(@)] /\ UNCHANGED <<pr, build, done, lock>>
  BY DEF PropsStep, Handle, Serves
<1>2. store' = store \/ (~ (k \in DOMAIN store /\ k \in ReadOnly) /\ store' = With(store, k, v))
  BY DEF Handle
<1>3. UNCHANGED <<clashed, run, stop, sk, cur, sock, tmp>>
  BY <1>1, PropsFrame
<1>4. /\ Tail(mbox[i]) \in Seq(Requests \cup {Stop})
      /\ \A n \in DOMAIN Tail(mbox[i]) : n + 1 \in DOMAIN mbox[i] /\ Tail(mbox[i])[n] = mbox[i][n + 1]
  BY <1>1 DEF TypeOK
<1>5. TypeOK' /\ LockHeld'
  BY <1>1, <1>3, <1>4 DEF TypeOK, LockHeld
<1>6. TasksInStep'
  BY <1>1, <1>3, <1>4 DEF TypeOK, TasksInStep
<1>7. lock = i /\ \A j \in Instances \ {i} : pr[j] \notin {"apply", "ready"}
  BY <1>1 DEF LockHeld
<1>8. DOMAIN store \subseteq DOMAIN store'
      /\ \A x \in DOMAIN store : x \in ReadOnly => store'[x] = store[x]
  BY <1>2 DEF With
<1>9. BuildAdded'
  BY <1>1, <1>7, <1>8 DEF BuildAdded
<1>10. BuildValueWins'
  <2> SUFFICES ASSUME NEW n \in DOMAIN build[i], build[i][n][1] \in ReadOnly
               PROVE  store'[build[i][n][1]] = build[i][n][2]
    BY <1>1, <1>7 DEF BuildValueWins
  <2>1. build[i][n][1] \in DOMAIN store
    BY <1>1, BuildFacts DEF BuildAdded
  <2> QED
    BY <1>7, <1>8, <2>1 DEF BuildValueWins
<1> QED
  BY <1>1, <1>5, <1>6, <1>9, <1>10, PropsFrame

LEMMA StopInv ==
  ASSUME Inv, NEW i \in Instances, PropsStop(i)
  PROVE  Inv'
<1>1. /\ PropsStep(i) /\ pr[i] = "ready" /\ PropsEnds(i, "stopped") /\ lock' = None /\ store' = store
      /\ mbox[i] # <<>> /\ Head(mbox[i]) = Stop
  BY DEF PropsStep, PropsStop
<1>2. 1 \in DOMAIN mbox[i] /\ mbox[i][1] = Stop
  BY <1>1 DEF Inv, ServiceInv, TypeOK
<1> QED
  BY <1>1, <1>2, PropsEndsInv

(* A client's message is behind the others in the mailbox, and no Stop. *)
LEMMA ClientSetInv ==
  ASSUME Inv, NEW s \in Sockets, NEW q \in Requests, ClientSet(s, q)
  PROVE  Inv'
<1> USE DEF Inv, ServiceInv
<1>1. PICK i \in Instances : mbox' = [mbox EXCEPT ![i] = Append(@, q)]
  <2>1. sock[s] \in Files
    BY DEF ClientSet, TypeOK
  <2> QED
    BY <2>1 DEF ClientSet, Files
<1>2. UNCHANGED <<clashed, run, stop, sk, cur, sock, tmp, pr, build, done, lock, store>>
  BY DEF ClientSet, svars, sfiles
<1>3. /\ mbox' \in [Instances -> Seq(Requests \cup {Stop})]
      /\ \A j \in Instances \ {i} : mbox'[j] = mbox[j]
      /\ (\E n \in DOMAIN mbox'[i] : mbox'[i][n] = Stop) =>
           q = Stop \/ \E n \in DOMAIN mbox[i] : mbox[i][n] = Stop
  BY <1>1, AppendFacts
<1>4. q # Stop
  BY RequestsAssumption
<1>5. TypeOK'
  BY <1>2, <1>3 DEF TypeOK
<1>6. TasksInStep'
  BY <1>2, <1>3, <1>4 DEF TasksInStep
<1>7. Running' = Running
  BY <1>2 DEF Running, Gone
<1> QED
  BY <1>2, <1>5, <1>6, <1>7, SocketsKept, PropsKept

-----------------------------------------------------------------------------
LEMMA StepInv == Inv /\ [Next]_vars => Inv'
<1> SUFFICES ASSUME Inv, [Next]_vars PROVE Inv'
  OBVIOUS
<1>1. CASE UNCHANGED vars
  <2>1. /\ UNCHANGED <<run, clashed, stop, mbox, sk, cur, sock, tmp>>
        /\ UNCHANGED <<pr, build, done, lock, store>>
    BY <1>1 DEF vars, svars, sfiles, pvars
  <2>2. Running' = Running
    BY <2>1 DEF Running, Gone
  <2>3. TypeOK' /\ TasksInStep'
    BY <2>1 DEF Inv, ServiceInv, TypeOK, TasksInStep
  <2> QED
    BY <2>1, <2>2, <2>3, SocketsKept, PropsKept DEF Inv, ServiceInv
<1>2. CASE \E s \in Sockets, q \in Requests : ClientSet(s, q)
  BY <1>2, ClientSetInv
<1>3. ASSUME NEW i \in Instances,
             Start(i) \/ Ask(i) \/ StopService(i) \/ Die(i) \/ SocketStep(i) \/ PropsStep(i)
      PROVE  Inv'
  <2>1. CASE Start(i) \/ Ask(i) \/ StopService(i) \/ Die(i)
    BY <2>1, StartInv, RunStepInv, DieInv
  <2>2. CASE SocketStep(i)
    BY <2>2, SetTmpInv, RenameInv, SocketRestInv DEF SocketStep
  <2>3. CASE PropsStep(i)
    BY <2>3, LoadInv, LockInv, ApplyInv, AppliedInv, HandleInv, StopInv DEF PropsStep
  <2> QED
    BY <1>3, <2>1, <2>2, <2>3
<1> QED
  BY <1>1, <1>2, <1>3 DEF Next

LEMMA InvHolds == Spec => []Inv
BY InitHolds, StepInv, PTL DEF Spec

(* What other processes meet in the socket and property directories, and    *)
(* what run, the socket actor and the properties actor know of one another, *)
(* holds however often processes start, overlap, fail and are killed.       *)
THEOREM ServiceInvariant == Spec => []ServiceInv
BY InvHolds, PTL DEF Inv

(* run returns Ok only when both names lead to this process, it holds the   *)
(* lock and every build property is there, and that stays so until it is    *)
(* stopped, if no other service runs beside it.                             *)
THEOREM ServingWhenUp == Spec => []UpMeansServing
<1>1. Inv => UpMeansServing
  <2> SUFFICES ASSUME Inv, NEW i \in Instances \ clashed, run[i] = "up"
               PROVE  /\ \A s \in Sockets : /\ sock[s] # None /\ sock[s].by = i
                                            /\ \A p \in Pids : tmp[s][p] = None
                      /\ lock = i
                      /\ \A n \in DOMAIN build[i] : build[i][n][1] \in DOMAIN store
    BY DEF UpMeansServing
  <2>1. sk[i] = "ready" /\ pr[i] = "ready"
    BY DEF Inv, ServiceInv, TasksInStep
  <2>2. i \in Running \ clashed
    BY RunningFacts DEF Inv, ServiceInv
  <2>3. lock = i /\ \A n \in DOMAIN build[i] : build[i][n][1] \in DOMAIN store
    BY <2>1, BuildFacts DEF Inv, ServiceInv, LockHeld, BuildAdded
  <2> QED
    BY <2>1, <2>2, <2>3 DEF Inv, ServiceInv, Alone
<1> QED
  BY <1>1, InvHolds, PTL

(* A read-only property of build.prop never has a client's value. *)
THEOREM BuildValueKept == Spec => []BuildValueWins
BY InvHolds, PTL DEF Inv

(* Only the Drop of a service whose run has failed or that was stopped      *)
(* takes a socket away from its name.                                       *)
THEOREM SocketNeverMissing == Spec => NoEnoentWindow
<1> DEFINE Step == \A s \in Sockets : sock[s] # None /\ sock'[s] = None
                     => \E i \in Instances : sk[i] = "drop" /\ run[i] \in {"failed", "stopped"}
<1>1. ASSUME Inv, [Next]_vars PROVE [Step]_vars
  <2>1. CASE \E i \in Instances : DropSocket(i)
    BY <1>1, <2>1 DEF DropSocket, At, Inv, ServiceInv, TasksInStep
  <2>2. CASE \E i \in Instances : Rename(i)
    <3>1. PICK i \in Instances : Rename(i)
      BY <2>2
    <3>2. sock' = [sock EXCEPT ![cur[i]] = Tmp(i)] /\ Tmp(i) # None
      BY <3>1 DEF Rename
    <3> QED
      BY <1>1, <3>2 DEF Inv, ServiceInv, TypeOK
  <2>3. CASE ~ (\E i \in Instances : DropSocket(i) \/ Rename(i))
    <3>1. sock' = sock
      BY <1>1, <2>3 DEF Next, vars, svars, sfiles, Start, Ask, AskSocket, AskProps, StopService, Die,
         SocketStep, SocketDirFails, Sweep, ClearTmp, Bind, BindFails, Chmod, FinalizeFails, SocketStops,
         PropsStep, LoadBuild, TakeLock, Apply, Applied, Handle, PropsStop, ClientSet
    <3> QED
      BY <3>1
  <2> QED
    BY <2>1, <2>2, <2>3
<1> QED
  BY <1>1, InvHolds, PTL DEF Spec, NoEnoentWindow
=============================================================================
