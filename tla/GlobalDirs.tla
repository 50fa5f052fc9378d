----------------------------- MODULE GlobalDirs -----------------------------
(***************************************************************************)
(* The process-wide cells of the client library (lib.rs and                *)
(* system_property_set.rs): the two directories, which are set once by     *)
(* try_init or latched to a default by their first use, the global         *)
(* SystemProperties behind a OnceLock, and the protocol version.  Threads  *)
(* call in any order; only GLOBAL_DIRS_LOCK orders the commits.            *)
(***************************************************************************)
EXTENDS Integers

CONSTANTS Threads,
          Configs,        \* [props, sock]: arguments of try_init, either may be Unset
          Unset,          \* an empty cell; a directory that is not configured
          DefaultProps,   \* PROP_DIRNAME
          DefaultSock,    \* PROPERTY_SERVICE_SOCKET_DIR, or /dev/socket
          StoreVersion,   \* what ro.property_service.version says, or Unset
          EnvVersion      \* what the environment says, or the default

Dirs == (UNION {{g.props, g.sock} : g \in Configs}) \cup {DefaultProps, DefaultSock}

ASSUME ThreadsAssumption == Unset \notin Threads
ASSUME ConfigsAssumption == \A g \in Configs : g = [props |-> g.props, sock |-> g.sock]
(* Directories, versions and outcomes are values of different types. *)
ASSUME DirsAssumption ==
  /\ DefaultProps # Unset /\ DefaultSock # Unset
  /\ (Dirs \cup {Unset}) \cap {"running", "ok", "already", "err"} = {}
ASSUME VersionsAssumption ==
  /\ EnvVersion # Unset
  /\ ({StoreVersion, EnvVersion} \ {Unset}) \cap (Dirs \cup {"ok", "already", "err"}) = {}

VARIABLES propsDir, sockDir,   \* the OnceLock cells of the directories
          lock,                \* holder of GLOBAL_DIRS_LOCK, or Unset
          sys,                 \* SYSTEM_PROPERTIES: Unset, "running", "err", or a directory
          version,             \* PROTOCOL_VERSION
          pc, conf, ret,       \* threads: step, config of try_init, what the call returned
          late, wrote          \* history: was the store up when the call began; what it set

cells == <<propsDir, sockDir, sys, version>>
hist  == <<late, wrote>>
vars  == <<cells, lock, pc, conf, ret, hist>>

NoConf == [props |-> Unset, sock |-> Unset]

Init ==
  /\ propsDir = Unset /\ sockDir = Unset /\ sys = Unset /\ version = Unset
  /\ lock = Unset
  /\ pc = [t \in Threads |-> "idle"]
  /\ conf = [t \in Threads |-> NoConf]
  /\ ret = [t \in Threads |-> Unset]
  /\ late = [t \in Threads |-> FALSE]
  /\ wrote = [t \in Threads |-> NoConf]

-----------------------------------------------------------------------------
Go(t, from, to) == pc[t] = from /\ pc' = [pc EXCEPT ![t] = to]
StoreUp == sys \notin {Unset, "running", "err"}
Locked  == {"check", "setProps", "setSock", "latchProps", "latchSock", "sysLatch"}
Opening == {"sysProps", "sysLock", "sysLatch", "sysOpen"}

(* The call returns v; its arguments are kept for the properties. *)
Return(t, v) ==
  /\ pc' = [pc EXCEPT ![t] = "idle"]
  /\ ret' = [ret EXCEPT ![t] = v]

Call(t, to, g) ==
  /\ Go(t, "idle", to)
  /\ conf' = [conf EXCEPT ![t] = g]
  /\ ret' = [ret EXCEPT ![t] = Unset]
  /\ late' = [late EXCEPT ![t] = StoreUp]
  /\ wrote' = [wrote EXCEPT ![t] = NoConf]
  /\ UNCHANGED <<cells, lock>>

(* lock_global_dirs. *)
LockDirs(t, from, to) ==
  /\ Go(t, from, to)
  /\ lock = Unset /\ lock' = t
  /\ UNCHANGED <<cells, conf, ret, hist>>

-----------------------------------------------------------------------------
(* try_init.                                                               *)

(* The pre-check of everything the call intends to set. *)
InitCheck(t) ==
  /\ pc[t] = "check"
  /\ LET taken == \/ conf[t].props # Unset /\ propsDir # Unset
                  \/ conf[t].sock # Unset /\ sockDir # Unset IN
       \/ taken /\ Return(t, "already") /\ lock' = Unset
       \/ ~ taken /\ Go(t, "check", "setProps") /\ UNCHANGED <<ret, lock>>
  /\ UNCHANGED <<cells, conf, hist>>

InitSetProps(t) ==
  /\ Go(t, "setProps", "setSock")
  /\ propsDir' = IF conf[t].props # Unset THEN conf[t].props ELSE propsDir
  /\ wrote' = [wrote EXCEPT ![t].props = conf[t].props]
  /\ UNCHANGED <<sockDir, sys, version, lock, conf, ret, late>>

(* set_socket_dir fails on a cell that is set. *)
InitSetSock(t) ==
  /\ pc[t] = "setSock"
  /\ LET wanted == conf[t].sock # Unset IN
       /\ sockDir' = IF wanted /\ sockDir = Unset THEN conf[t].sock ELSE sockDir
       /\ wrote' = [wrote EXCEPT ![t].sock = IF sockDir = Unset THEN conf[t].sock ELSE Unset]
       /\ Return(t, IF wanted /\ sockDir # Unset THEN "already" ELSE "ok")
  /\ lock' = Unset
  /\ UNCHANGED <<propsDir, sys, version, conf, late>>

-----------------------------------------------------------------------------
(* properties_dir and socket_dir: the lock-free fast path, then the latch.  *)

FastProps(t) ==
  /\ pc[t] = "props"
  /\ \/ propsDir # Unset /\ Return(t, propsDir)
     \/ propsDir = Unset /\ Go(t, "props", "lockProps") /\ UNCHANGED ret
  /\ UNCHANGED <<cells, lock, conf, hist>>

LatchProps(t) ==
  /\ pc[t] = "latchProps"
  /\ propsDir' = IF propsDir = Unset THEN DefaultProps ELSE propsDir
  /\ Return(t, propsDir')
  /\ lock' = Unset
  /\ UNCHANGED <<sockDir, sys, version, conf, hist>>

(* Mutant: the first use latches the default without the lock. *)
FastSockUnlocked(t) ==
  /\ pc[t] = "sock"
  /\ sockDir' = IF sockDir = Unset THEN DefaultSock ELSE sockDir
  /\ Return(t, sockDir')
  /\ UNCHANGED <<propsDir, sys, version, lock, conf, hist>>

FastSock(t) ==
  /\ pc[t] = "sock"
  /\ \/ sockDir # Unset /\ Return(t, sockDir)
     \/ sockDir = Unset /\ Go(t, "sock", "lockSock") /\ UNCHANGED ret
  /\ UNCHANGED <<cells, lock, conf, hist>>

(* Mutant: what was set between the fast path and the lock is overwritten. *)
LatchSockBlind(t) ==
  /\ pc[t] = "latchSock"
  /\ sockDir' = DefaultSock
  /\ Return(t, sockDir')
  /\ lock' = Unset
  /\ UNCHANGED <<propsDir, sys, version, conf, hist>>

LatchSock(t) ==
  /\ pc[t] = "latchSock"
  /\ sockDir' = IF sockDir = Unset THEN DefaultSock ELSE sockDir
  /\ Return(t, sockDir')
  /\ lock' = Unset
  /\ UNCHANGED <<propsDir, sys, version, conf, hist>>

-----------------------------------------------------------------------------
(* try_system_properties: one thread runs the initialiser, the others wait. *)

SysGet(t) ==
  /\ pc[t] = "sys"
  /\ \/ sys \notin {Unset, "running"} /\ Return(t, sys) /\ UNCHANGED sys
     \/ sys = Unset /\ sys' = "running" /\ Go(t, "sys", "sysProps") /\ UNCHANGED ret
  /\ UNCHANGED <<propsDir, sockDir, version, lock, conf, hist>>

(* The initialiser asks for properties_dir(), *)
SysDir(t) ==
  /\ pc[t] = "sysProps"
  /\ pc' = [pc EXCEPT ![t] = IF propsDir # Unset THEN "sysOpen" ELSE "sysLock"]
  /\ UNCHANGED <<cells, lock, conf, ret, hist>>

SysLatch(t) ==
  /\ Go(t, "sysLatch", "sysOpen")
  /\ propsDir' = IF propsDir = Unset THEN DefaultProps ELSE propsDir
  /\ lock' = Unset
  /\ UNCHANGED <<sockDir, sys, version, conf, ret, hist>>

(* then opens it; the outcome is latched, an error too. *)
SysOpen(t) ==
  /\ pc[t] = "sysOpen"
  /\ \E out \in {propsDir, "err"} : sys' = out /\ Return(t, out)
  /\ UNCHANGED <<propsDir, sockDir, version, lock, conf, hist>>

-----------------------------------------------------------------------------
(* protocol_version: latched only once the store is up. *)

StoreOrEnv == IF StoreVersion # Unset THEN StoreVersion ELSE EnvVersion

(* Mutant: the provisional answer is latched as well. *)
VersionLatchesAlways(t) ==
  /\ pc[t] = "version"
  /\ version' = IF version # Unset THEN version ELSE IF StoreUp THEN StoreOrEnv ELSE EnvVersion
  /\ Return(t, version')
  /\ UNCHANGED <<propsDir, sockDir, sys, lock, conf, hist>>

Version(t) ==
  /\ pc[t] = "version"
  /\ version' = IF version = Unset /\ StoreUp THEN StoreOrEnv ELSE version
  /\ Return(t, IF version' # Unset THEN version' ELSE EnvVersion)
  /\ UNCHANGED <<propsDir, sockDir, sys, lock, conf, hist>>

-----------------------------------------------------------------------------
Calls(t) ==
  \/ \E g \in Configs : Call(t, "lockInit", g)
  \/ \E to \in {"props", "sock", "sys", "version"} : Call(t, to, NoConf)

Thread(t) ==
  \/ Calls(t)
  \/ LockDirs(t, "lockInit", "check") \/ InitCheck(t) \/ InitSetProps(t) \/ InitSetSock(t)
  \/ FastProps(t) \/ LockDirs(t, "lockProps", "latchProps") \/ LatchProps(t)
  \/ FastSock(t) \/ LockDirs(t, "lockSock", "latchSock") \/ LatchSock(t)
  \/ SysGet(t) \/ SysDir(t) \/ LockDirs(t, "sysLock", "sysLatch") \/ SysLatch(t) \/ SysOpen(t)
  \/ Version(t)

Next == \E t \in Threads : Thread(t)

Spec == Init /\ [][Next]_vars

-----------------------------------------------------------------------------
(* Properties.                                                             *)

TypeOK ==
  /\ propsDir \in Dirs \cup {Unset} /\ sockDir \in Dirs \cup {Unset}
  /\ sys \in Dirs \cup {Unset, "running", "err"}
  /\ version \in {Unset, StoreOrEnv}
  /\ lock \in Threads \cup {Unset}
  /\ pc \in [Threads -> {"idle", "props", "lockProps", "sock", "lockSock", "sys", "version", "lockInit"}
                          \cup Locked \cup Opening]
  /\ conf \in [Threads -> Configs \cup {NoConf}]
  /\ wrote \in [Threads -> [props : Dirs \cup {Unset}, sock : Dirs \cup {Unset}]]
  /\ late \in [Threads -> BOOLEAN]
  /\ ret \in [Threads -> Dirs \cup {Unset, "ok", "already", "err", StoreOrEnv, EnvVersion}]

(* The steps under GLOBAL_DIRS_LOCK belong to its holder, and the steps of   *)
(* the OnceLock's initialiser to one thread.                                 *)
LockOrder ==
  \A t \in Threads :
    /\ pc[t] \in Locked => lock = t
    /\ pc[t] \in Opening => sys = "running" /\ \A u \in Threads : pc[u] \in Opening => u = t
    /\ pc[t] = "sysOpen" => propsDir # Unset

(* What a thread between its check and its last store relies on: the cells   *)
(* it is about to set are still empty, and the one it has set is its own.    *)
CommitPending ==
  \A t \in Threads :
    /\ pc[t] # "idle" => ret[t] = Unset
    /\ pc[t] \in {"lockInit", "check", "setProps"} => wrote[t] = NoConf
    /\ pc[t] = "setProps" => conf[t].props = Unset \/ propsDir = Unset
    /\ pc[t] = "setSock" => /\ wrote[t] = [props |-> conf[t].props, sock |-> Unset]
                            /\ conf[t].props \in {Unset, propsDir}
    /\ pc[t] \in {"setProps", "setSock"} => conf[t].sock = Unset \/ sockDir = Unset

(* The store was opened from the directory everybody uses, and a call that   *)
(* began when it was up will find it up.                                     *)
StoreFromDir ==
  /\ StoreUp => sys = propsDir
  /\ \A t \in Threads : late[t] => StoreUp

(* try_init applies its whole configuration or nothing of it (lib.rs: "a     *)
(* failed init never leaves the global state half-applied"), against other   *)
(* inits and against first uses that latch a default; and what a successful  *)
(* one set stays in force.                                                   *)
InitAllOrNothing ==
  \A t \in Threads :
    /\ ret[t] = "already" => wrote[t] = NoConf
    /\ ret[t] = "ok" =>
         /\ wrote[t] = conf[t]
         /\ conf[t].props \in {Unset, propsDir} /\ conf[t].sock \in {Unset, sockDir}

(* The lock orders the commits, and each commit is whole. *)
InitInv == TypeOK /\ LockOrder /\ CommitPending /\ StoreFromDir /\ InitAllOrNothing

(* A directory a caller was given is the one everybody uses from then on,    *)
(* and so is the directory the global store was opened from.                 *)
DirsNeverChange ==
  [][/\ propsDir # Unset => propsDir' = propsDir
     /\ sockDir # Unset => sockDir' = sockDir
     /\ StoreUp => sys' = sys /\ sys = propsDir]_vars

(* Once the store is up, its ro.property_service.version decides, whatever   *)
(* provisional answers were given before (protocol_version).                 *)
StoreVersionWins ==
  \A t \in Threads : late[t] /\ ret[t] \in {StoreVersion, EnvVersion} \ {Unset} => ret[t] = StoreOrEnv
=============================================================================
