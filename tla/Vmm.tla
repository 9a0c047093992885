-------------------------------- MODULE Vmm --------------------------------
(***************************************************************************)
(* The microVM manager of a node (shellwego-agent, vmm/mod.rs) in its KVM  *)
(* and PVM modes, used by several tasks at once.                           *)
(*                                                                         *)
(* The table `vms` is behind a read-write lock.  start, restore and stop   *)
(* hold it for writing while they talk to Firecracker; count, pause,       *)
(* snapshot and resume take it for reading for one request at a time, so   *)
(* each of those is one step, possible while nobody writes.                *)
(*                                                                         *)
(* Firecracker is external.  One process at a time can be bound to an      *)
(* application's socket file: a process started while the file exists      *)
(* exits at once, and the file outlives the process.  A dropped child      *)
(* handle does not kill its process (kill_on_drop is never set).           *)
(***************************************************************************)
EXTENDS Integers, FiniteSets

CONSTANTS Clients,       \* the tasks that call the manager
          Restorers,     \* those of them that call restore_from_snapshot
          Apps,          \* application ids
          MaxMicrovms,   \* max_microvms of the configuration
          FaultKinds,    \* which failures of the environment may happen
          MaxFaults      \* bound on how many of them happen

ASSUME VmmAssumption ==
    /\ Restorers \subseteq Clients
    /\ IsFiniteSet(Apps)
    /\ MaxMicrovms \in Nat
    /\ MaxFaults \in Nat

VARIABLES vms,       \* applications with an entry in the table
          held,      \* those whose child handle is the process on the socket
          sock,      \* applications whose socket file exists
          proc,      \* the process bound to the application's socket
          ghosts,    \* applications with a process no socket leads to any more
          at,        \* where each client is in its call
          target,    \* the application each client's call is about
          spawned,   \* clients whose child is the process on the socket
          writer,    \* the client holding the lock for writing, if any
          faults     \* failures so far

table == <<vms, held>>
host  == <<sock, proc, ghosts>>
task  == <<at, target, spawned, writer>>
vars  == <<vms, held, sock, proc, ghosts, at, target, spawned, writer, faults>>

Booted    == {"running", "paused"}
ProcState == {"none", "blank"} \cup Booted
Entry     == {"start_check", "restore_lock", "stop_lock", "pause"}
Exclusive == {"configure", "boot", "load", "halt"}
Finished  == {"ok", "failed"}
Position  == Entry \cup Exclusive \cup Finished
             \cup {"idle", "start_lock", "snapshot", "disk", "resume", "resume_failed"}

Fault(kind) ==
    /\ kind \in FaultKinds
    /\ faults < MaxFaults
    /\ faults' = faults + 1

NoFault == UNCHANGED faults

GoTo(c, step) ==
    /\ at' = [at EXCEPT ![c] = step]
    /\ UNCHANGED <<target, spawned, writer>>

\* Mutant: the write guard is leaked.
FinishLeakingGuard(c, result) ==
    /\ at' = [at EXCEPT ![c] = result]
    /\ spawned' = spawned \ {c}
    /\ UNCHANGED <<target, writer>>

\* The call returns and every guard and handle it owns is dropped.
Finish(c, result) ==
    /\ at' = [at EXCEPT ![c] = result]
    /\ writer' = writer \ {c}
    /\ spawned' = spawned \ {c}
    /\ UNCHANGED target

-----------------------------------------------------------------------------
Init ==
    /\ vms = {} /\ held = {} /\ sock = {} /\ ghosts = {}
    /\ proc = [a \in Apps |-> "none"]
    /\ at = [c \in Clients |-> "idle"]
    /\ target \in [Clients -> Apps]
    /\ spawned = {} /\ writer = {}
    /\ faults = 0

\* A task calls start, restore_from_snapshot, stop or create_snapshot.
Call(c, app, entry) ==
    /\ at[c] = "idle"
    /\ entry = "restore_lock" => c \in Restorers
    /\ at' = [at EXCEPT ![c] = entry]
    /\ target' = [target EXCEPT ![c] = app]
    /\ UNCHANGED <<table, host, spawned, writer, faults>>

\* The task takes the result of its call.
Return(c) ==
    /\ at[c] \in Finished
    /\ GoTo(c, "idle")
    /\ UNCHANGED <<table, host, faults>>

\* Mutant: the comparison lets one more start pass.
StartCheckOffByOne(c) ==
    /\ at[c] = "start_check"
    /\ writer = {}
    /\ Cardinality(vms) <= MaxMicrovms
    /\ NoFault
    /\ GoTo(c, "start_lock")
    /\ UNCHANGED <<table, host>>

\* start: validation, then the limit, read under a lock that is dropped
\* before the table is locked for writing.
StartCheck(c) ==
    /\ at[c] = "start_check"
    /\ writer = {}
    /\ \/ Fault("validate") /\ Finish(c, "failed")
       \/ Cardinality(vms) >= MaxMicrovms /\ NoFault /\ Finish(c, "failed")
       \/ Cardinality(vms) < MaxMicrovms /\ NoFault /\ GoTo(c, "start_lock")
    /\ UNCHANGED <<table, host>>

\* Mutant: a start replaces the entry that is already there.
LockReplacing(c, from, next) ==
    /\ at[c] = from
    /\ writer = {}
    /\ vms' = vms \ {target[c]}
    /\ sock' = sock \cup {target[c]}
    /\ proc' = [proc EXCEPT ![target[c]] = "blank"]
    /\ at' = [at EXCEPT ![c] = next]
    /\ writer' = {c}
    /\ UNCHANGED <<held, ghosts, target, spawned, faults>>

\* Taking the table for writing, and spawning a Firecracker process: the
\* wait loop is over at once when a socket file is already there.
LockAndSpawn(c, from, next) ==
    LET app == target[c] IN
    /\ at[c] = from
    /\ writer = {}
    /\ UNCHANGED <<table, ghosts>>
    /\ \/ /\ app \in vms
          /\ Finish(c, "failed")
          /\ UNCHANGED <<sock, proc, faults>>
       \/ /\ app \notin vms
          /\ app \in sock
          /\ at' = [at EXCEPT ![c] = next]
          /\ writer' = {c}
          /\ UNCHANGED <<target, spawned, sock, proc, faults>>
       \/ /\ app \notin vms
          /\ app \notin sock
          /\ sock' = sock \cup {app}
          /\ proc' = [proc EXCEPT ![app] = "blank"]
          /\ at' = [at EXCEPT ![c] = next]
          /\ writer' = {c}
          /\ spawned' = spawned \cup {c}
          /\ UNCHANGED <<target, faults>>
       \/ /\ app \notin vms
          /\ Fault("spawn")
          /\ Finish(c, "failed")
          /\ UNCHANGED <<sock, proc>>

StartLock(c)   == LockAndSpawn(c, "start_lock", "configure")
RestoreLock(c) == LockAndSpawn(c, "restore_lock", "load")

\* configure_vm: only a process that has not booted takes a configuration.
Configure(c) ==
    /\ at[c] = "configure"
    /\ \/ proc[target[c]] = "blank" /\ NoFault /\ GoTo(c, "boot")
       \/ proc[target[c]] # "blank" /\ NoFault /\ Finish(c, "failed")
       \/ Fault("configure") /\ Finish(c, "failed")
    /\ UNCHANGED <<table, host>>

\* The process now runs the guest and the table gets its entry.
Insert(c) ==
    LET app == target[c] IN
    /\ proc[app] = "blank"
    /\ proc' = [proc EXCEPT ![app] = "running"]
    /\ vms' = vms \cup {app}
    /\ held' = IF c \in spawned THEN held \cup {app} ELSE held
    /\ Finish(c, "ok")
    /\ UNCHANGED <<sock, ghosts, faults>>

\* The request fails, before or after Firecracker acted on it; the child
\* handle is dropped and the process stays.
BootFails(c, lost) ==
    LET app == target[c] IN
    /\ \/ proc[app] # "blank" /\ NoFault /\ UNCHANGED proc
       \/ Fault("boot") /\ UNCHANGED proc
       \/ /\ proc[app] = "blank"
          /\ Fault(lost)
          /\ proc' = [proc EXCEPT ![app] = "running"]
    /\ Finish(c, "failed")
    /\ UNCHANGED <<table, sock, ghosts>>

\* start_vm and the insertion.
Boot(c) ==
    /\ at[c] = "boot"
    /\ Insert(c) \/ BootFails(c, "boot_lost")

\* load_snapshot with resume_vm, and the insertion.
Load(c) ==
    /\ at[c] = "load"
    /\ Insert(c) \/ BootFails(c, "boot_lost")

\* stop takes the entry out of the table first.
StopLock(c) ==
    LET app == target[c] IN
    /\ at[c] = "stop_lock"
    /\ writer = {}
    /\ \/ app \notin vms /\ Finish(c, "failed") /\ UNCHANGED vms
       \/ /\ app \in vms
          /\ vms' = vms \ {app}
          /\ writer' = {c}
          /\ at' = [at EXCEPT ![c] = "halt"]
          /\ UNCHANGED <<target, spawned>>
    /\ UNCHANGED <<held, host, faults>>

\* Mutant: the timeout returns without killing the process.
HaltWithoutKill(c) ==
    /\ at[c] = "halt"
    /\ held' = held \ {target[c]}
    /\ Finish(c, "ok")
    /\ UNCHANGED <<vms, host, faults>>

\* Ctrl+Alt+Del, then the wait on the child handle with SIGKILL after the
\* timeout, then the removal of the directory with the socket.  A child
\* handle that is not the process on the socket is already dead: the wait
\* returns at once and whether the process goes away is up to the guest.
Halt(c) ==
    LET app == target[c] IN
    /\ at[c] = "halt"
    /\ proc' = [proc EXCEPT ![app] = "none"]
    /\ sock' = sock \ {app}
    /\ held' = held \ {app}
    /\ \/ UNCHANGED ghosts
       \/ /\ app \notin held
          /\ proc[app] # "none"
          /\ ghosts' = ghosts \cup {app}
    /\ Finish(c, "ok")
    /\ UNCHANGED <<vms, faults>>

\* create_snapshot of the snapshot manager, step 1: pause.
Pause(c) ==
    LET app == target[c] IN
    /\ at[c] = "pause"
    /\ writer = {}
    /\ \/ /\ app \in vms
          /\ proc[app] \in Booted
          /\ proc' = [proc EXCEPT ![app] = "paused"]
          /\ NoFault
          /\ GoTo(c, "snapshot")
       \/ /\ app \notin vms \/ proc[app] \notin Booted
          /\ NoFault /\ Finish(c, "failed") /\ UNCHANGED proc
       \/ Fault("api") /\ Finish(c, "failed") /\ UNCHANGED proc
    /\ UNCHANGED <<table, sock, ghosts>>

\* Mutant: a failed memory snapshot returns without resuming the VM.
SnapshotWithoutResume(c) ==
    /\ at[c] = "snapshot"
    /\ writer = {}
    /\ Finish(c, "failed")
    /\ UNCHANGED <<table, host, faults>>

\* step 2: the memory snapshot, refused by Firecracker while the VM runs.
Snapshot(c) ==
    LET app == target[c] IN
    /\ at[c] = "snapshot"
    /\ writer = {}
    /\ \/ /\ app \in vms /\ proc[app] = "paused"
          /\ NoFault /\ GoTo(c, "disk")
       \/ /\ app \notin vms \/ proc[app] # "paused"
          /\ NoFault /\ GoTo(c, "resume_failed")
       \/ Fault("api") /\ GoTo(c, "resume_failed")
    /\ UNCHANGED <<table, host>>

\* step 3: the disk snapshot, taken outside the lock; its failure is only
\* logged.
DiskSnapshot(c) ==
    /\ at[c] = "disk"
    /\ GoTo(c, "resume")
    /\ UNCHANGED <<table, host, faults>>

\* step 4: resume, on success and on failure of the snapshot alike.
Resume(c) ==
    LET app == target[c] IN
    /\ at[c] \in {"resume", "resume_failed"}
    /\ writer = {}
    /\ \/ /\ app \in vms
          /\ proc[app] \in Booted
          /\ proc' = [proc EXCEPT ![app] = "running"]
          /\ NoFault
          /\ Finish(c, IF at[c] = "resume" THEN "ok" ELSE "failed")
       \/ /\ app \notin vms \/ proc[app] \notin Booted
          /\ NoFault /\ Finish(c, "failed") /\ UNCHANGED proc
       \/ Fault("api") /\ Finish(c, "failed") /\ UNCHANGED proc
    /\ UNCHANGED <<table, sock, ghosts>>

\* External: a Firecracker process crashes or is killed.
ProcDies(app) ==
    /\ proc[app] # "none"
    /\ Fault("die")
    /\ proc' = [proc EXCEPT ![app] = "none"]
    /\ UNCHANGED <<table, sock, ghosts, task>>

\* The steps by which a call makes progress.
Step(c) ==
    \/ StartCheck(c) \/ StartLock(c) \/ Configure(c) \/ Boot(c)
    \/ RestoreLock(c) \/ Load(c)
    \/ StopLock(c) \/ Halt(c)
    \/ Pause(c) \/ Snapshot(c) \/ DiskSnapshot(c) \/ Resume(c)

Next ==
    \/ \E c \in Clients :
          \/ \E app \in Apps, entry \in Entry : Call(c, app, entry)
          \/ Step(c)
          \/ Return(c)
    \/ \E app \in Apps : ProcDies(app)

Spec == Init /\ [][Next]_vars

\* The lock queues its waiters fairly, and every request to Firecracker is
\* answered or fails: no call is passed over for ever.
FairSpec == Spec /\ \A c \in Clients : SF_vars(Step(c))

-----------------------------------------------------------------------------
\* Types; a handle is only held for an entry or one being halted.
TypeOK ==
    /\ vms \subseteq Apps /\ held \subseteq Apps
    /\ sock \subseteq Apps /\ ghosts \subseteq Apps
    /\ proc \in [Apps -> ProcState]
    /\ at \in [Clients -> Position]
    /\ target \in [Clients -> Apps]
    /\ spawned \subseteq Clients /\ writer \subseteq Clients
    /\ faults \in 0 .. MaxFaults

\* The table is modified by one call at a time: whoever is between taking
\* the lock and dropping it is the writer.
TableExclusive ==
    \A c \in Clients : at[c] \in Exclusive => writer = {c}

\* An entry keeps its socket file until its own stop, so pause, snapshot,
\* resume and stop always find the socket they were given.
EntryHasSocket == vms \subseteq sock

\* Applications some call is starting, restoring or stopping.
Busy == {target[c] : c \in {d \in Clients : at[d] \in Exclusive}}

\* As long as nothing fails, no Firecracker process lives outside the
\* table: each belongs to an entry or to the call that holds the lock.
NoOrphanWithoutFault ==
    faults = 0 => /\ \A app \in Apps : proc[app] # "none" => app \in vms \cup Busy
                  /\ sock \subseteq vms \cup Busy
                  /\ ghosts = {}

\* As long as nothing fails, a VM is paused only while a snapshot of it is
\* under way that will still resume it, however snapshots, stops and starts
\* of the same application interleave.
PausedHasResumer ==
    faults = 0 =>
        \A app \in vms : proc[app] = "paused" =>
            \E c \in Clients : /\ target[c] = app
                               /\ at[c] \in {"snapshot", "disk", "resume", "resume_failed"}

\* No VM is lost while start, restore, stop and create_snapshot overlap:
\* neither a process outside the table nor a guest that stays paused.
NoVmLost == NoOrphanWithoutFault /\ PausedHasResumer

\* An entry leaves the table only by a stop of that application.
OnlyStopRemoves ==
    [][\A app \in vms \ vms' :
          \E c \in Clients : at[c] = "stop_lock" /\ target[c] = app]_vars

\* Every call returns: no client waits for ever for the lock.
CallsReturn ==
    \A c \in Clients : at[c] # "idle" ~> at[c] \in Finished \cup {"idle"}
=============================================================================
