---------------------------- MODULE AgentProofs ----------------------------
(* Theorems about the agent, for any applications, subnet, capacity and    *)
(* failures: the node keeps its limits and its guests their addresses, and *)
(* the reconciler stops only what the pass does not want.  And about its   *)
(* snapshot manager, for any calls and identifiers: the file at rest holds *)
(* the table.  And about its link, for any messages and losses: who waits  *)
(* for the client's mutex, and that a loop that reconnects waits for ever. *)
EXTENDS MCAgent, SequenceTheorems, FiniteSetTheorems, TLAPS

USE DEF Rec

LEMMA AgentStarts == NodeInit => Init
BY DEF NodeInit

LEMMA AgentStep == [NodeNext]_nodeVars => [Next]_vars
BY DEF NodeNext, nodeVars

-----------------------------------------------------------------------------
LEMMA AgentBegins == Init => AgentInv
<1> SUFFICES ASSUME Init PROVE AgentInv
  OBVIOUS
<1> USE AgentAssumption DEF Init, Net!Init, Vm!Init
<1>1. Cardinality(vms) = 0
  BY FS_EmptySet
<1>2. NodeCapacity /\ LiveAddressHeld
  BY <1>1 DEF NodeCapacity, LiveAddressHeld, Vm!Booted
<1>3. Net!TypeOK /\ Net!UniqueAddresses
  BY DEF Net!TypeOK, Net!UniqueAddresses, Net!Replies
<1> QED BY <1>2, <1>3 DEF AgentInv, Reached, Vm!ProcState

\* An address that is assigned is a free one, and stays its application's.
LEMMA AllocateGives ==
    ASSUME Net!TypeOK, Net!UniqueAddresses, NEW app \in Apps, Net!Allocate(app)
    PROVE  /\ Net!TypeOK' /\ Net!UniqueAddresses'
           /\ DOMAIN allocated \subseteq DOMAIN allocated'
           /\ \A a \in DOMAIN allocated : allocated'[a] = allocated[a]
           /\ reply' = "ok" => app \in DOMAIN allocated'
<1>1. Net!Free # {} => Net!FirstFree \in Net!Free
  <2>1. Net!Free \subseteq Nat
    BY AgentAssumption DEF Net!Free, Net!Usable, Net!Subnet
  <2> QED BY <2>1, LeastIsThere DEF Net!FirstFree
<1>2. CASE UNCHANGED allocated /\ reply' \in {"ok", "exhausted"}
           /\ (reply' = "ok" => app \in DOMAIN allocated)
  BY <1>2 DEF Net!TypeOK, Net!UniqueAddresses, Net!Replies
<1>3. CASE app \notin DOMAIN allocated /\ Net!Free # {} /\ Net!Assign(app, Net!FirstFree) /\ reply' = "ok"
  <2>1. PICK ip : ip = Net!FirstFree
    OBVIOUS
  <2>2. ip \in Net!Usable /\ \A a \in DOMAIN allocated : allocated[a] # ip
    BY <1>1, <1>3, <2>1 DEF Net!Free, Net!InUse
  <2>3. /\ DOMAIN allocated' = DOMAIN allocated \cup {app}
        /\ \A a \in DOMAIN allocated' : allocated'[a] = IF a = app THEN ip ELSE allocated[a]
        /\ allocated' = [a \in DOMAIN allocated' |-> allocated'[a]]
    BY <1>3, <2>1 DEF Net!Assign
  <2>4. Net!TypeOK'
    BY <1>3, <2>2, <2>3 DEF Net!TypeOK, Net!Replies
  <2> QED BY <1>3, <2>2, <2>3, <2>4 DEF Net!UniqueAddresses
<1> QED BY <1>2, <1>3 DEF Net!Allocate

\* A step of the pass that leaves the manager and the guests alone.
LEMMA PassKeeps ==
    ASSUME AgentInv, UNCHANGED <<vms, proc, at, target, guests, net>>,
           cache' \in Seq(Apps), desired' \in Seq(Apps), pos' \in Nat \ {0},
           actual' \subseteq Apps,
           at[Rec] \in {"start_check", "start_lock", "configure", "boot"} => pc' = "starting",
           at[Rec] \in {"stop_lock", "halt"} => pc' = "stopping",
           pc' \in {"network", "start", "starting"} => pos' <= Len(desired'),
           pc' \in {"start", "starting"} => desired'[pos'] \in DOMAIN allocated,
           pc' = "starting" => target[Rec] = desired'[pos'],
           at[Rec] = "boot" => desired'[pos'] = desired[pos],
           pc' = "stopping" => target[Rec] \in actual' \ Elements(desired')
    PROVE  AgentInv'
<1> USE DEF guests, net
<1>1. Net!TypeOK' /\ Net!UniqueAddresses'
  BY DEF AgentInv, Net!TypeOK, Net!UniqueAddresses
<1>2. NodeCapacity' /\ LiveAddressHeld'
  BY DEF AgentInv, NodeCapacity, LiveAddressHeld
<1> QED BY <1>1, <1>2 DEF AgentInv, App, Wanted, Elements

LEMMA CommandKeeps ==
    ASSUME AgentInv, NEW app \in Apps, ScheduleApp(app) \/ TerminateApp(app)
    PROVE  AgentInv'
<1>1. cache' \in Seq(Apps)
  <2>1. PICK m, T : m = cache /\ T = Apps \ {app}
    OBVIOUS
  <2>2. m \in Seq(Apps)
    BY <2>1 DEF AgentInv
  <2>3. LET t == Retain(m, T) IN t \in Seq(Apps)
    BY <2>2, RetainElements
  <2> QED BY <2>1, <2>2, <2>3 DEF ScheduleApp, TerminateApp
<1> QED BY <1>1, PassKeeps
        DEF AgentInv, ScheduleApp, TerminateApp, pass, net, vmm, table, host, task, App, Wanted

\* Where no call of the manager is under way, the pass may end.
LEMMA EndKeeps ==
    ASSUME AgentInv, EndPass, at[Rec] \in {"idle", "ok", "failed"},
           UNCHANGED <<vms, proc, at, target, guests, net, cache>>
    PROVE  AgentInv'
BY PassKeeps DEF AgentInv, EndPass

LEMMA CreatingKeeps ==
    ASSUME AgentInv, Tick \/ ListRunning \/ CreateNext
    PROVE  AgentInv'
<1> USE DEF vmm, table, host, task
<1>1. at[Rec] \in {"idle", "ok", "failed"}
  BY DEF AgentInv, Reached, Tick, ListRunning, CreateNext
<1>2. CASE Tick \/ ListRunning
  BY <1>1, <1>2, PassKeeps DEF AgentInv, Tick, ListRunning
<1>3. CASE CreateNext
  <2>1. UNCHANGED <<vms, proc, at, target, guests, net, cache>>
    BY <1>3 DEF CreateNext
  <2>2. CASE EndPass
    BY <1>1, <2>1, <2>2, EndKeeps
  <2>3. CASE UNCHANGED <<desired, actual, pos>> /\ pc' = "remove"
    BY <1>1, <2>1, <2>3, PassKeeps DEF AgentInv
  <2>4. CASE pos' = pos + 1 /\ UNCHANGED <<pc, desired, actual>> /\ pc = "create"
    BY <1>1, <2>1, <2>4, PassKeeps DEF AgentInv
  <2>5. CASE pos <= Len(desired) /\ pc' = "network" /\ UNCHANGED <<desired, actual, pos>>
    BY <1>1, <2>1, <2>5, PassKeeps DEF AgentInv
  <2> QED BY <1>3, <2>2, <2>3, <2>4, <2>5 DEF CreateNext
<1> QED BY <1>2, <1>3

\* A new address disturbs none that a guest uses.
LEMMA SetupKeeps ==
    ASSUME AgentInv, SetupNetwork
    PROVE  AgentInv'
<1> USE DEF table, host, task, guests
<1>1. /\ pc = "network" /\ Net!Allocate(App)
      /\ UNCHANGED <<vms, proc, at, target, addr, foreign, cache>>
  BY DEF SetupNetwork
<1>2. App \in Apps /\ at[Rec] \in {"idle", "ok", "failed"}
  BY <1>1, ElementOfSeq DEF AgentInv, App, Reached
<1>3. /\ Net!TypeOK' /\ Net!UniqueAddresses'
      /\ DOMAIN allocated \subseteq DOMAIN allocated'
      /\ \A a \in DOMAIN allocated : allocated'[a] = allocated[a]
      /\ reply' = "ok" => App \in DOMAIN allocated'
  BY <1>1, <1>2, AllocateGives DEF AgentInv
<1>4. NodeCapacity' /\ LiveAddressHeld'
  BY <1>1, <1>3 DEF AgentInv, NodeCapacity, LiveAddressHeld
<1>5. CASE EndPass
  BY <1>1, <1>2, <1>3, <1>4, <1>5 DEF AgentInv, EndPass
<1>6. CASE reply' = "ok" /\ pc' = "start" /\ UNCHANGED <<desired, actual, pos>>
  BY <1>1, <1>2, <1>3, <1>4, <1>6 DEF AgentInv, App
<1> QED BY <1>5, <1>6 DEF SetupNetwork

LEMMA CallsKeep ==
    ASSUME AgentInv, StartVm \/ StartReturns \/ RemoveNext \/ StopReturns
    PROVE  AgentInv'
<1> USE DEF table, host, task, guests, net, vmm
<1>0. Net!TypeOK /\ Net!UniqueAddresses /\ NodeCapacity /\ LiveAddressHeld
  BY DEF AgentInv
<1>1. ASSUME UNCHANGED <<vms, proc, addr, foreign, allocated, reply>>
      PROVE  Net!TypeOK' /\ Net!UniqueAddresses' /\ NodeCapacity' /\ LiveAddressHeld'
  BY <1>0, <1>1 DEF Net!TypeOK, Net!UniqueAddresses, NodeCapacity, LiveAddressHeld
<1>2. CASE StartVm
  <2>1. /\ at' = [at EXCEPT ![Rec] = "start_check"] /\ target' = [target EXCEPT ![Rec] = App]
        /\ pc = "start" /\ pc' = "starting"
        /\ UNCHANGED <<vms, proc, desired, actual, pos, cache, addr, foreign, allocated, reply>>
    BY <1>2 DEF StartVm, Vm!Call, Vm!table, Vm!host
  <2>2. App \in Apps
    BY <2>1, ElementOfSeq DEF AgentInv, App
  <2> QED BY <1>1, <2>1, <2>2 DEF AgentInv, App, Reached
<1>3. CASE StartReturns \/ StopReturns
  <2>1. /\ at' = [at EXCEPT ![Rec] = "idle"] /\ at[Rec] \in {"ok", "failed"}
        /\ UNCHANGED <<vms, proc, target, cache, addr, foreign, allocated, reply>>
    BY <1>3 DEF StartReturns, StopReturns, Vm!Return, Vm!GoTo, Vm!Finished, Vm!table, Vm!host
  <2>2. CASE EndPass
    BY <1>1, <2>1, <2>2 DEF AgentInv, EndPass, Reached
  <2>3. CASE pc' = "create" /\ pos' = pos + 1 /\ UNCHANGED <<desired, actual>>
    BY <1>1, <2>1, <2>3 DEF AgentInv, Reached
  <2>4. CASE pc' = "remove" /\ actual' \subseteq actual /\ UNCHANGED <<desired, pos>>
    BY <1>1, <2>1, <2>4 DEF AgentInv, Reached
  <2> QED BY <1>3, <2>2, <2>3, <2>4 DEF StartReturns, StopReturns
<1>4. CASE RemoveNext
  <2>1. pc = "remove" /\ UNCHANGED <<vms, proc, cache, addr, foreign, allocated, reply>>
    BY <1>4 DEF RemoveNext, Vm!Call, Vm!table, Vm!host
  <2>2. ASSUME NEW app \in actual \ Wanted, Vm!Call(Rec, app, "stop_lock"), pc' = "stopping",
               UNCHANGED <<desired, actual, pos>>
        PROVE  AgentInv'
    <3>1. at' = [at EXCEPT ![Rec] = "stop_lock"] /\ target' = [target EXCEPT ![Rec] = app]
      BY <2>2 DEF Vm!Call
    <3> QED BY <1>1, <2>1, <2>2, <3>1 DEF AgentInv, Wanted, Elements, Reached
  <2>3. CASE EndPass /\ UNCHANGED vmm
    <3>1. at[Rec] \in {"idle", "ok", "failed"}
      BY <2>1 DEF AgentInv, Reached
    <3> QED BY <2>1, <2>3, <3>1, EndKeeps
  <2> QED BY <1>4, <2>2, <2>3 DEF RemoveNext
<1> QED BY <1>2, <1>3, <1>4

-----------------------------------------------------------------------------
\* Nothing is inserted, no address or pass is touched: what the manager does
\* between taking a call and returning.
LEMMA ManagerMoves ==
    ASSUME AgentInv, vms' \subseteq vms, proc' \in [Apps -> Vm!ProcState],
           \A a \in Apps \ foreign : proc'[a] \in Vm!Booted => proc[a] \in Vm!Booted,
           UNCHANGED <<target, pass, cache, guests, net>>,
           at' \in [{Rec} -> Reached],
           at'[Rec] \in {"start_check", "start_lock", "configure", "boot"} => pc = "starting",
           at'[Rec] \in {"stop_lock", "halt"} => pc = "stopping",
           at'[Rec] \in {"start_lock", "configure", "boot"} => Cardinality(vms') < MaxMicrovms,
           at'[Rec] = "boot" => at[Rec] = "boot"
    PROVE  AgentInv'
<1> USE DEF pass, guests, net
<1>1. Net!TypeOK' /\ Net!UniqueAddresses' /\ LiveAddressHeld'
  BY DEF AgentInv, Net!TypeOK, Net!UniqueAddresses, LiveAddressHeld
<1>2. NodeCapacity'
  <2>1. IsFiniteSet(vms) /\ Cardinality(vms) \in Nat
    BY AgentAssumption, FS_Subset, FS_CardinalityType DEF AgentInv
  <2>2. Cardinality(vms') <= Cardinality(vms) /\ Cardinality(vms') \in Nat
    BY <2>1, FS_Subset, FS_CardinalityType
  <2> QED BY <2>1, <2>2, AgentAssumption DEF AgentInv, NodeCapacity
<1> QED BY <1>1, <1>2 DEF AgentInv, App, Wanted, Elements

LEMMA ManagerKeeps ==
    ASSUME AgentInv, VmmStep
    PROVE  AgentInv'
<1> USE DEF Vm!Finish, Vm!GoTo, Vm!table, Vm!host, Vm!task, Vm!Booted, Vm!ProcState, Reached
<1>1. /\ at \in [{Rec} -> Reached] /\ target \in [{Rec} -> Apps]
      /\ proc \in [Apps -> Vm!ProcState]
      /\ UNCHANGED <<cache, pass, net>>
  BY DEF AgentInv, VmmStep
<1>2. ~ (at[Rec] = "configure" /\ at'[Rec] = "boot") => UNCHANGED guests
  BY DEF VmmStep, guests
<1>3. CASE Vm!StartCheck(Rec)
  <2>1. UNCHANGED <<vms, proc, target>> /\ at[Rec] = "start_check"
    BY <1>3 DEF Vm!StartCheck
  <2>2. \/ at' = [at EXCEPT ![Rec] = "failed"]
        \/ at' = [at EXCEPT ![Rec] = "start_lock"] /\ Cardinality(vms) < MaxMicrovms
    <3>1. Vm!Cardinality(vms) = Cardinality(vms)
      BY DEF Vm!Cardinality, Cardinality
    <3> QED BY <1>3, <3>1 DEF Vm!StartCheck
  <2> QED BY <1>1, <1>2, <2>1, <2>2, ManagerMoves DEF AgentInv
<1>4. CASE Vm!StartLock(Rec)
  <2>1. vms' = vms /\ target' = target /\ at[Rec] = "start_lock"
        /\ \/ proc' = proc
           \/ proc' = [proc EXCEPT ![target[Rec]] = "blank"]
    BY <1>4 DEF Vm!StartLock, Vm!LockAndSpawn
  <2>2. at' = [at EXCEPT ![Rec] = "failed"] \/ at' = [at EXCEPT ![Rec] = "configure"]
    BY <1>4 DEF Vm!StartLock, Vm!LockAndSpawn
  <2> QED BY <1>1, <1>2, <2>1, <2>2, ManagerMoves DEF AgentInv
<1>5. CASE Vm!Configure(Rec)
  <2>1. UNCHANGED <<vms, proc, target>> /\ at[Rec] = "configure"
    BY <1>5 DEF Vm!Configure
  <2>2. CASE at' = [at EXCEPT ![Rec] = "failed"]
    BY <1>1, <1>2, <2>1, <2>2, ManagerMoves DEF AgentInv
  <2>3. CASE at' = [at EXCEPT ![Rec] = "boot"] /\ proc[target[Rec]] = "blank"
    <3>1. App \in Apps /\ target[Rec] = App /\ App \in DOMAIN allocated
      BY <1>1, <2>1 DEF AgentInv
    <3>2. at'[Rec] = "boot"
      BY <1>1, <2>3
    <3>3. addr' = [addr EXCEPT ![App] = allocated[App]] /\ foreign' = foreign \ {App}
      BY <2>1, <3>2 DEF VmmStep
    <3>4. LiveAddressHeld'
      BY <1>1, <2>1, <2>3, <3>1, <3>3 DEF AgentInv, LiveAddressHeld, net
    <3>5. Net!TypeOK' /\ Net!UniqueAddresses' /\ NodeCapacity'
      BY <1>1, <2>1 DEF AgentInv, Net!TypeOK, Net!UniqueAddresses, NodeCapacity, net
    <3>6. addr'[App] = allocated[App]
      BY <3>1, <3>3 DEF AgentInv
    <3> QED BY <1>1, <2>1, <2>3, <3>1, <3>2, <3>3, <3>4, <3>5, <3>6
            DEF AgentInv, App, Wanted, Elements, pass, net
  <2> QED BY <1>5, <2>2, <2>3 DEF Vm!Configure
<1>6. CASE Vm!Boot(Rec)
  <2>1. /\ at[Rec] = "boot" /\ target' = target /\ UNCHANGED guests
        /\ at' = [at EXCEPT ![Rec] = "ok"] \/ at' = [at EXCEPT ![Rec] = "failed"]
        /\ vms' = vms \/ vms' = vms \cup {target[Rec]}
        /\ proc' = proc \/ proc' = [proc EXCEPT ![target[Rec]] = "running"]
    BY <1>1, <1>2, <1>6 DEF Vm!Boot, Vm!Insert, Vm!BootFails
  <2>2. target[Rec] = App /\ App \in Apps /\ App \in DOMAIN allocated /\ addr[App] = allocated[App]
    BY <1>1, <2>1 DEF AgentInv
  <2>3. LiveAddressHeld'
    BY <1>1, <2>1, <2>2 DEF AgentInv, LiveAddressHeld, net, guests
  <2>4. NodeCapacity'
    <3>1. IsFiniteSet(vms) /\ Cardinality(vms) \in Nat /\ Cardinality(vms) < MaxMicrovms
      BY <2>1, AgentAssumption, FS_Subset, FS_CardinalityType DEF AgentInv
    <3>2. Cardinality(vms \cup {target[Rec]}) <= Cardinality(vms) + 1
          /\ Cardinality(vms \cup {target[Rec]}) \in Nat
      <4>1. PICK V, t : V = vms /\ t = target[Rec]
        OBVIOUS
      <4>2. Cardinality(V \cup {t}) \in {Cardinality(V), Cardinality(V) + 1}
        BY <3>1, <4>1, FS_AddElement
      <4> QED BY <3>1, <4>1, <4>2
    <3> QED BY <2>1, <3>1, <3>2, AgentAssumption DEF NodeCapacity
  <2>5. Net!TypeOK' /\ Net!UniqueAddresses'
    BY <1>1 DEF AgentInv, Net!TypeOK, Net!UniqueAddresses, net
  <2> QED BY <1>1, <2>1, <2>2, <2>3, <2>4, <2>5 DEF AgentInv, App, Wanted, Elements, pass, net, guests
<1>7. CASE Vm!StopLock(Rec)
  <2>1. /\ at[Rec] = "stop_lock" /\ vms' \subseteq vms /\ proc' = proc /\ target' = target
        /\ at' = [at EXCEPT ![Rec] = "failed"] \/ at' = [at EXCEPT ![Rec] = "halt"]
    BY <1>7 DEF Vm!StopLock
  <2> QED BY <1>1, <1>2, <2>1, ManagerMoves DEF AgentInv
<1>8. CASE Vm!Halt(Rec)
  <2>1. /\ at[Rec] = "halt" /\ vms' = vms /\ proc' = [proc EXCEPT ![target[Rec]] = "none"]
        /\ target' = target /\ at' = [at EXCEPT ![Rec] = "ok"]
    BY <1>8 DEF Vm!Halt
  <2> QED BY <1>1, <1>2, <2>1, ManagerMoves DEF AgentInv
<1>9. ~ (Vm!RestoreLock(Rec) \/ Vm!Load(Rec) \/ Vm!Pause(Rec) \/ Vm!Snapshot(Rec)
         \/ Vm!DiskSnapshot(Rec) \/ Vm!Resume(Rec))
  BY <1>1 DEF Vm!RestoreLock, Vm!LockAndSpawn, Vm!Load, Vm!Pause, Vm!Snapshot, Vm!DiskSnapshot,
     Vm!Resume
<1> QED BY <1>3, <1>4, <1>5, <1>6, <1>7, <1>8, <1>9 DEF VmmStep, Vm!Step

LEMMA RestartKeeps ==
    ASSUME AgentInv, Restart
    PROVE  AgentInv'
<1> USE DEF Restart, EndPass, host
<1>1. Net!TypeOK' /\ Net!UniqueAddresses'
  BY DEF Net!TypeOK, Net!UniqueAddresses, Net!Replies
<1>2. NodeCapacity'
  <2>1. Cardinality({}) = 0
    BY FS_EmptySet
  <2> QED BY <2>1, AgentAssumption DEF NodeCapacity
<1>3. LiveAddressHeld'
  BY DEF AgentInv, LiveAddressHeld, Vm!Booted
<1> QED BY <1>1, <1>2, <1>3 DEF AgentInv, Reached

LEMMA VmDiesKeeps ==
    ASSUME AgentInv, NEW app \in Apps, VmDies(app)
    PROVE  AgentInv'
<1>1. /\ proc' = [proc EXCEPT ![app] = "none"]
      /\ UNCHANGED <<vms, at, target, pass, cache, guests, net>>
  BY DEF VmDies, Vm!ProcDies, Vm!table, Vm!task
<1>2. /\ proc' \in [Apps -> Vm!ProcState] /\ at' \in [{Rec} -> Reached]
      /\ \A a \in Apps : proc'[a] \in Vm!Booted => proc[a] \in Vm!Booted
  BY <1>1 DEF AgentInv, Vm!ProcState, Vm!Booted
<1> QED BY <1>1, <1>2, ManagerMoves DEF AgentInv

LEMMA AgentKeeps == AgentInv /\ [Next]_vars => AgentInv'
<1> SUFFICES ASSUME AgentInv, [Next]_vars PROVE AgentInv'
  OBVIOUS
<1>1. CASE UNCHANGED vars
  BY <1>1, PassKeeps DEF vars, vmm, table, host, task, pass, AgentInv, App, Wanted
<1>2. CASE Reconcile
  BY <1>2, CreatingKeeps, SetupKeeps, CallsKeep, ManagerKeeps DEF Reconcile
<1> QED BY <1>1, <1>2, CommandKeeps, RestartKeeps, VmDiesKeeps DEF Next

\* Whatever the control plane commands, whatever fails, dies or is restarted:
\* the node runs no more VMs than max_microvms (the check in vmm.start is not
\* atomic with the insertion), a guest's address stays its application's, and
\* so no two guests have one address (failed setups keep their address).
THEOREM NodeIsSafe == NodeSpec => []NodeSafe
<1>1. AgentInv => NodeSafe
  <2> SUFFICES ASSUME AgentInv PROVE NoAddressCollision
    BY DEF AgentInv, NodeSafe
  <2> QED BY DEF AgentInv, LiveAddressHeld, NoAddressCollision, Net!UniqueAddresses
<1> QED BY AgentStarts, AgentStep, AgentBegins, AgentKeeps, <1>1, PTL DEF NodeSpec

\* The reconciler's pass works on snapshots taken one after the other, yet it
\* stops no VM whose application its own snapshot of the cache wants.
THEOREM StopsAreUnwanted == NodeSpec => StopsOnlyUnwanted
<1>1. AgentInv /\ [Next]_vars => [StopsRight]_vars
  <2> SUFFICES ASSUME AgentInv, Next, NEW a \in vms \ vms', ~Restart
               PROVE  pc = "stopping" /\ a \notin Wanted /\ a \in actual
    BY DEF StopsRight
  <2> USE DEF table, host, task, vmm, Vm!table, Vm!host, Vm!task
  <2>1. VmmStep
    <3>1. ASSUME NEW app \in Apps, ScheduleApp(app) \/ TerminateApp(app) \/ VmDies(app) PROVE FALSE
      BY <3>1 DEF ScheduleApp, TerminateApp, VmDies, Vm!ProcDies
    <3>2. ~(Tick \/ ListRunning \/ CreateNext \/ SetupNetwork)
      BY DEF Tick, ListRunning, CreateNext, SetupNetwork
    <3>3. ~(StartVm \/ StartReturns \/ RemoveNext \/ StopReturns)
      BY DEF StartVm, StartReturns, RemoveNext, StopReturns, Vm!Call, Vm!Return
    <3> QED BY <3>1, <3>2, <3>3 DEF Next, Reconcile
  <2>2. Vm!StopLock(Rec)
    <3>1. Vm!StopLock(Rec) \/ vms \subseteq vms'
      BY <2>1 DEF VmmStep, Vm!Step, Vm!StartCheck, Vm!StartLock, Vm!RestoreLock, Vm!LockAndSpawn,
         Vm!Configure, Vm!Boot, Vm!Load, Vm!Insert, Vm!BootFails, Vm!Halt, Vm!Pause, Vm!Snapshot,
         Vm!DiskSnapshot, Vm!Resume
    <3> QED BY <3>1
  <2>3. at[Rec] = "stop_lock" /\ a = target[Rec]
    BY <2>2 DEF Vm!StopLock
  <2> QED BY <2>3 DEF AgentInv
<1> QED BY AgentStarts, AgentStep, AgentBegins, AgentKeeps, <1>1, PTL DEF NodeSpec, StopsOnlyUnwanted

-----------------------------------------------------------------------------
LEMMA SnapshotsStart == NodeInit => Snap!Init
BY DEF NodeInit

LEMMA SnapshotsStep == [NodeNext]_nodeVars => [Snap!Next]_snapshotVars
BY DEF NodeNext, nodeVars

LEMMA SnapshotsBegin == Snap!Init => Snap!SnapshotsInv
BY DEF Snap!Init, Snap!SnapshotsInv, Snap!File, Snap!NoCall

\* A step of a call that leaves table and file alone.
LEMMA SnapshotCallMoves ==
    ASSUME Snap!SnapshotsInv, running, UNCHANGED <<metadata, stored, unsaved, running>>,
           NEW c \in SnapshotCalls, DOMAIN snap' = SnapshotCalls,
           \A d \in SnapshotCalls \ {c} : snap'[d] = snap[d],
           "do" \in DOMAIN snap'[c],
           Snap!Saving(c) => snap'[c].do \in {"save", "write"},
           snap'[c].do = "write" => c \in readers' /\ snap'[c].content = Snap!File(metadata),
           \A d \in SnapshotCalls \ {c} : d \in readers => d \in readers'
    PROVE  Snap!SnapshotsInv'
<1>2. \A d \in SnapshotCalls : "do" \in DOMAIN snap'[d]
  BY DEF Snap!SnapshotsInv
<1>3. \A d \in SnapshotCalls : snap'[d].do = "write" =>
         d \in readers' /\ snap'[d].content = Snap!File(metadata')
  BY DEF Snap!SnapshotsInv, Snap!File
<1>4. ~unsaved => stored = Snap!File(metadata) \/ \E d \in SnapshotCalls : Snap!Saving(d)'
  BY DEF Snap!SnapshotsInv, Snap!Saving
<1> QED BY <1>2, <1>3, <1>4 DEF Snap!SnapshotsInv, Snap!File

\* A change of the table is made when nobody reads it, and is to be saved.
LEMMA TableChanges ==
    ASSUME Snap!SnapshotsInv, running, readers = {}, UNCHANGED <<stored, running>>,
           NEW c \in SnapshotCalls, DOMAIN snap' = SnapshotCalls,
           \A d \in SnapshotCalls \ {c} : snap'[d] = snap[d],
           "do" \in DOMAIN snap'[c], snap'[c].do \in {"remove", "save"}
    PROVE  Snap!SnapshotsInv'
<1>2. \A d \in SnapshotCalls : "do" \in DOMAIN snap'[d] /\ snap'[d].do # "write"
  BY DEF Snap!SnapshotsInv
<1> QED BY <1>2 DEF Snap!SnapshotsInv, Snap!Saving, Snap!File

\* The calls begin, and those that only look or write elsewhere proceed.
LEMMA SnapshotTaken ==
    ASSUME Snap!SnapshotsInv, NEW c \in SnapshotCalls,
           \/ Snap!create_snapshot(c) \/ Snap!create_disk_only_snapshot(c)
           \/ Snap!create_memory_only_snapshot(c) \/ Snap!create_snapshot_with_config(c)
           \/ Snap!create_incremental_snapshot(c) \/ Snap!migrate_out(c)
           \/ Snap!MemoryState(c) \/ Snap!create_disk_snapshot(c)
    PROVE  Snap!SnapshotsInv'
<1> USE DEF Snap!At, Snap!Goes, Snap!Ends, Snap!Proceeds, Snap!TableSame, Snap!MovesSame,
            Snap!NoCall, Snap!Saving
<1>0. DOMAIN snap = SnapshotCalls
  BY DEF Snap!SnapshotsInv
<1>1. ASSUME NEW kind, Snap!Begins(c, kind) PROVE Snap!SnapshotsInv'
  <2>1. CASE UNCHANGED snap
    BY <1>0, <1>1, <2>1, SnapshotCallMoves DEF Snap!Begins, Snap!SnapshotsInv
  <2>2. ASSUME NEW i, snap' = [snap EXCEPT ![c] = [do |-> IF kind = "DiskOnly" THEN "disk" ELSE "memory",
                                 id |-> i, kind |-> kind, todo |-> {}]]
        PROVE  Snap!SnapshotsInv'
    BY <1>0, <1>1, <2>2, SnapshotCallMoves DEF Snap!Begins
  <2> QED BY <1>1, <2>1, <2>2 DEF Snap!Begins
<1>2. ASSUME Snap!MemoryState(c) \/ Snap!create_disk_snapshot(c) PROVE Snap!SnapshotsInv'
  <2>1. running /\ UNCHANGED <<metadata, stored, unsaved, running, readers>> /\ ~Snap!Saving(c)
    BY <1>2 DEF Snap!MemoryState, Snap!create_disk_snapshot
  <2>2. CASE Snap!Ends(c)
    BY <1>0, <2>1, <2>2, SnapshotCallMoves
  <2>3. CASE Snap!Proceeds(c, "disk")
    <3>1. PICK t : t = [snap[c] EXCEPT !.do = "disk"]
      OBVIOUS
    <3>2. "do" \in DOMAIN t /\ t.do = "disk"
      BY <3>1 DEF Snap!SnapshotsInv
    <3> QED BY <1>0, <2>1, <2>3, <3>1, <3>2, SnapshotCallMoves
  <2>4. ASSUME NEW disk, Snap!Stamped(c, disk) PROVE Snap!SnapshotsInv'
    BY <1>0, <2>1, <2>4, SnapshotCallMoves DEF Snap!Stamped
  <2> QED BY <1>2, <2>2, <2>3, <2>4 DEF Snap!MemoryState, Snap!create_disk_snapshot
<1> QED BY <1>1, <1>2 DEF Snap!create_snapshot, Snap!create_disk_only_snapshot,
        Snap!create_memory_only_snapshot, Snap!create_snapshot_with_config,
        Snap!create_incremental_snapshot, Snap!migrate_out

LEMMA SnapshotUsed ==
    ASSUME Snap!SnapshotsInv, NEW c \in SnapshotCalls,
           \/ Snap!restore_snapshot(c) \/ Snap!migrate_in(c) \/ Snap!restore_disk_snapshot(c)
           \/ Snap!delete_snapshot(c) \/ Snap!gc_old_snapshots(c) \/ Snap!verify_snapshot(c)
           \/ Snap!Verified(c) \/ Snap!transfer_snapshot(c) \/ Snap!cancel(c)
    PROVE  Snap!SnapshotsInv'
<1> USE DEF Snap!At, Snap!Goes, Snap!Ends, Snap!TableSame, Snap!MovesSame, Snap!NoCall, Snap!Saving,
            Snap!migrate_in, Snap!restore_snapshot, Snap!restore_disk_snapshot, Snap!delete_snapshot,
            Snap!verify_snapshot, Snap!Verified, Snap!transfer_snapshot, Snap!cancel
<1>0. DOMAIN snap = SnapshotCalls
  BY DEF Snap!SnapshotsInv
<1>1. /\ running /\ UNCHANGED <<metadata, stored, unsaved, running>> /\ ~Snap!Saving(c)
      /\ \A d \in SnapshotCalls \ {c} : d \in readers => d \in readers'
  BY DEF Snap!gc_old_snapshots
<1>2. \/ Snap!Ends(c)
      \/ \E do \in {"clone", "delete", "verify"} : \E i, todo :
            Snap!Goes(c, [do |-> do, id |-> i, kind |-> "other", todo |-> todo])
  BY Zenon DEF Snap!gc_old_snapshots
<1>3. CASE Snap!Ends(c)
  BY <1>0, <1>1, <1>3, SnapshotCallMoves
<1>4. ASSUME NEW do \in {"clone", "delete", "verify"}, NEW i, NEW todo,
             Snap!Goes(c, [do |-> do, id |-> i, kind |-> "other", todo |-> todo])
      PROVE  Snap!SnapshotsInv'
  BY <1>0, <1>1, <1>4, SnapshotCallMoves
<1> QED BY <1>2, <1>3, <1>4

LEMMA TableSaved ==
    ASSUME Snap!SnapshotsInv, NEW c \in SnapshotCalls,
           \/ Snap!InsertEntry(c) \/ Snap!Amend(c) \/ Snap!DeleteEntry(c) \/ Snap!RemoveFiles(c)
           \/ Snap!save_metadata(c) \/ Snap!WriteFile(c)
    PROVE  Snap!SnapshotsInv'
<1> USE DEF Snap!At, Snap!Goes, Snap!Ends, Snap!Proceeds, Snap!TableSame, Snap!MovesSame, Snap!NoCall,
            Snap!Saving
<1>0. DOMAIN snap = SnapshotCalls
  BY DEF Snap!SnapshotsInv
<1>1. CASE Snap!InsertEntry(c)
  BY <1>0, <1>1, TableChanges DEF Snap!InsertEntry
<1>2. CASE Snap!Amend(c)
  BY <1>0, <1>2, TableChanges DEF Snap!Amend
<1>3. CASE Snap!DeleteEntry(c)
  <2>1. PICK r, s : /\ r = [snap[c] EXCEPT !.do = "remove", !.todo = @ \ {snap[c].id}]
                    /\ s = [snap[c] EXCEPT !.do = "save", !.todo = @ \ {snap[c].id}]
    OBVIOUS
  <2>2. "do" \in DOMAIN r /\ "do" \in DOMAIN s /\ r.do = "remove" /\ s.do = "save"
    BY <2>1 DEF Snap!SnapshotsInv
  <2>3. /\ running /\ readers = {} /\ UNCHANGED <<stored, running>>
        /\ snap' = [snap EXCEPT ![c] = r] \/ snap' = [snap EXCEPT ![c] = s]
    BY <1>3, <2>1 DEF Snap!DeleteEntry
  <2> QED BY <1>0, <2>2, <2>3, TableChanges
<1>4. CASE Snap!RemoveFiles(c)
  <2>1. PICK t : t = [snap[c] EXCEPT !.do = "save"]
    OBVIOUS
  <2>2. "do" \in DOMAIN t /\ t.do = "save"
    BY <2>1 DEF Snap!SnapshotsInv
  <2> QED BY <1>0, <1>4, <2>1, <2>2, SnapshotCallMoves DEF Snap!RemoveFiles
<1>5. CASE Snap!save_metadata(c)
  BY <1>0, <1>5, SnapshotCallMoves DEF Snap!save_metadata, Snap!read_guard
<1>6. CASE Snap!WriteFile(c)
  <2>1. PICK saved \in BOOLEAN :
           /\ IF saved THEN stored' = snap[c].content ELSE stored' \in {stored, Snap!Torn}
           /\ unsaved' = ~saved
           /\ Snap!AfterSave(c, saved)
    BY <1>6 DEF Snap!WriteFile
  <2>2. PICK t : snap' = [snap EXCEPT ![c] = t] /\ "do" \in DOMAIN t /\ t.do # "write"
    <3>1. PICK i : i = CHOOSE j \in snap[c].todo : TRUE
      OBVIOUS
    <3>2. PICK r : r = [snap[c] EXCEPT !.do = "delete", !.id = i]
      OBVIOUS
    <3>3. "do" \in DOMAIN r /\ r.do = "delete"
      BY <3>2 DEF Snap!SnapshotsInv
    <3>4. \/ snap' = [snap EXCEPT ![c] = r] \/ snap' = [snap EXCEPT ![c] = Snap!NoCall]
          \/ \E do \in {"amend", "transfer"} :
                snap' = [snap EXCEPT ![c] = [do |-> do, id |-> snap[c].id, kind |-> snap[c].kind, todo |-> {}]]
      BY <2>1, <3>1, <3>2 DEF Snap!AfterSave
    <3> QED BY <3>3, <3>4
  <2>3. /\ DOMAIN snap' = SnapshotCalls /\ snap'[c] = t
        /\ \A d \in SnapshotCalls \ {c} : snap'[d] = snap[d]
    BY <2>2 DEF Snap!SnapshotsInv
  <2>4. UNCHANGED <<metadata, running>> /\ readers' = readers \ {c} /\ snap[c].do = "write" /\ running
    BY <1>6 DEF Snap!WriteFile
  <2>5. saved => stored' = Snap!File(metadata)
    BY <2>1, <2>4 DEF Snap!SnapshotsInv
  <2>6. (stored \in {Snap!Torn, Snap!File(stored.table)})'
    BY <2>1, <2>5 DEF Snap!SnapshotsInv, Snap!File
  <2>7. (\A d \in SnapshotCalls : snap[d].do = "write" => d \in readers /\ snap[d].content = Snap!File(metadata))'
        /\ \A d \in SnapshotCalls : "do" \in DOMAIN snap'[d]
    BY <2>2, <2>3, <2>4 DEF Snap!SnapshotsInv, Snap!File
  <2>8. (~unsaved => stored = Snap!File(metadata))' /\ running'
    BY <2>1, <2>4, <2>5 DEF Snap!File
  <2> QED BY <2>3, <2>4, <2>6, <2>7, <2>8 DEF Snap!SnapshotsInv, Snap!Saving
<1> QED BY <1>1, <1>2, <1>3, <1>4, <1>5, <1>6

\* The agent dies: what a call was writing is the table, or lost; it starts
\* again with what the file holds.
LEMMA SnapshotsRestart ==
    ASSUME Snap!SnapshotsInv, Snap!Crash \/ Snap!load_metadata \/ Snap!Repair
    PROVE  Snap!SnapshotsInv'
<1>1. CASE Snap!Crash
  <2>1. stored' \in {Snap!Torn, Snap!File(stored'.table)}
    <3>1. \/ stored' = stored \/ stored' = Snap!Torn \/ stored' = Snap!File(Snap!Empty)
          \/ \E c \in SnapshotCalls : snap[c].do = "write" /\ stored' = snap[c].content
      BY <1>1 DEF Snap!Crash
    <3> QED BY <3>1 DEF Snap!SnapshotsInv, Snap!File
  <2> QED BY <1>1, <2>1 DEF Snap!Crash, Snap!SnapshotsInv, Snap!NoCall
<1>2. CASE Snap!load_metadata
  BY <1>2 DEF Snap!load_metadata, Snap!SnapshotsInv, Snap!File, Snap!Torn
<1>3. CASE Snap!Repair
  BY <1>3 DEF Snap!Repair, Snap!SnapshotsInv, Snap!File
<1> QED BY <1>1, <1>2, <1>3

LEMMA SnapshotsKeep == Snap!SnapshotsInv /\ [Snap!Next]_snapshotVars => Snap!SnapshotsInv'
<1> SUFFICES ASSUME Snap!SnapshotsInv, [Snap!Next]_snapshotVars PROVE Snap!SnapshotsInv'
  OBVIOUS
<1>1. CASE UNCHANGED snapshotVars
  BY <1>1 DEF snapshotVars, Snap!SnapshotsInv, Snap!Saving, Snap!File
<1> QED BY <1>1, SnapshotTaken, SnapshotUsed, TableSaved, SnapshotsRestart DEF Snap!Next

\* However creations, amendments, deletions, collections, cancelled migrations
\* and crashes overlap: once all have returned, and unless the last write
\* failed, snapshots.json holds the table (the read lock is kept while it is
\* written).
THEOREM TableIsSaved == NodeSpec => []SavedAtRest
<1>1. Snap!SnapshotsInv => SavedAtRest
  BY DEF Snap!SnapshotsInv, SavedAtRest, Snap!SavedAtRest, Snap!Saving, Snap!NoCall
<1> QED BY SnapshotsStart, SnapshotsStep, SnapshotsBegin, SnapshotsKeep, <1>1, PTL DEF NodeSpec

-----------------------------------------------------------------------------
LEMMA LinkStarts == NodeInit => Link!Init
BY DEF NodeInit

LEMMA LinkStep == [NodeNext]_nodeVars => [Link!Next]_Link!vars
BY DEF NodeNext, nodeVars, linkVars, Link!vars

LEMMA SameRetainLink == \A s, T : Link!Retain(s, T) = Retain(s, T)
<1>1. \A S : Link!Cardinality(S) = Cardinality(S)
  BY DEF Link!Cardinality, Cardinality
<1>2. \A P, i : Link!Rank(P, i) = Rank(P, i)
  BY <1>1 DEF Link!Rank, Rank
<1>3. \A P, n : Link!Nth(P, n) = Nth(P, n)
  BY <1>2 DEF Link!Nth, Nth
<1>4. \A s, T : Link!Positions(s, T) = Positions(s, T)
  BY DEF Link!Positions, Positions
<1> QED BY <1>1, <1>3, <1>4 DEF Link!Retain, Retain

LEMMA LinkBegins == Link!Init => Link!LinkInv
BY DEF Link!Init, Link!LinkInv, Link!TypeOK, Link!Distinct, Link!In, Link!Messages

Tickets == {"cc", "send", "reconnect"}

\* The mutex and the tasks, which every action but the deliveries moves.
LEMMA LinkMoves ==
    ASSUME Link!LinkInv, mutex' \in Seq(Tickets), Distinct(mutex'),
           hb' \in {"sleeping", "send", "reconnect"}, cc' \in {"ready", "receive", "backoff"},
           In("cc", mutex') <=> cc' # "ready",
           In("send", mutex') <=> hb' # "sleeping",
           In("reconnect", mutex') <=> hb' = "reconnect",
           cc' = "backoff" => mutex' # <<>> /\ Head(mutex') = "cc",
           hb' = "reconnect" => mutex' # <<>> /\ Head(mutex') = "send" /\ connected' = "down",
           connected' \in {"up", "down"}, listed' \subseteq LinkApps, inbox' \in Seq(Link!Messages)
    PROVE  Link!LinkInv'
BY DEF Link!LinkInv, Link!TypeOK, Link!Holds, Link!Distinct, Link!In, Distinct, In, Tickets,
       Link!Messages

\* The invariant in the words of Selection.
LEMMA LinkFacts ==
    ASSUME Link!LinkInv
    PROVE  /\ mutex \in Seq(Tickets) /\ Distinct(mutex)
           /\ hb \in {"sleeping", "send", "reconnect"} /\ cc \in {"ready", "receive", "backoff"}
           /\ In("cc", mutex) <=> cc # "ready"
           /\ In("send", mutex) <=> hb # "sleeping"
           /\ In("reconnect", mutex) <=> hb = "reconnect"
           /\ cc = "backoff" => mutex # <<>> /\ Head(mutex) = "cc"
           /\ hb = "reconnect" => mutex # <<>> /\ Head(mutex) = "send" /\ connected = "down"
           /\ connected \in {"up", "down"} /\ listed \subseteq LinkApps
           /\ inbox \in Seq(Link!Messages)
BY DEF Link!LinkInv, Link!TypeOK, Link!Holds, Link!Distinct, Link!In, Distinct, In, Tickets,
       Link!Messages

\* A task asks for the mutex: whoever holds it goes on holding it.
LEMMA LinkAsks ==
    ASSUME Link!LinkInv, Link!HbTick \/ Link!HbSendFails \/ Link!CcLock
    PROVE  Link!LinkInv'
<1>1. PICK x \in Tickets : mutex' = Append(mutex, x) /\ ~In(x, mutex)
                           /\ (x = "send" <=> hb = "sleeping" /\ hb' = "send")
                           /\ (x = "reconnect" <=> hb = "send" /\ hb' = "reconnect")
                           /\ (x = "cc" <=> cc = "ready" /\ cc' = "receive")
                           /\ (x # "cc" => cc' = cc) /\ (x = "cc" => hb' = hb)
                           /\ (x = "reconnect" => mutex # <<>> /\ Head(mutex) = "send" /\ connected = "down")
  BY LinkFacts DEF Link!HbTick, Link!HbSendFails, Link!CcLock, Link!Enqueue, Link!Holds, Tickets
<1>2. PICK m : m = mutex
  OBVIOUS
<1>3. m \in Seq(Tickets) /\ Distinct(m) /\ ~In(x, m)
  BY <1>1, <1>2, LinkFacts
<1>4. /\ Append(m, x) \in Seq(Tickets) /\ Distinct(Append(m, x))
      /\ \A y : In(y, Append(m, x)) <=> In(y, m) \/ y = x
      /\ m # <<>> => Head(Append(m, x)) = Head(m)
      /\ Append(m, x) # <<>>
  BY <1>3, Joined
<1>5. UNCHANGED <<connected, inbox, listed>>
  BY DEF Link!HbTick, Link!HbSendFails, Link!CcLock
<1> QED BY <1>1, <1>2, <1>4, <1>5, LinkFacts, LinkMoves DEF Tickets

\* The consumer's statement ends: the next in the queue has the mutex.
LEMMA LinkServes ==
    ASSUME Link!LinkInv, Link!CcReceive \/ Link!CcBackoffEnds
    PROVE  Link!LinkInv'
<1>1. /\ mutex # <<>> /\ Head(mutex) = "cc" /\ mutex' = Tail(mutex) /\ cc' = "ready"
      /\ hb' = hb /\ connected' = connected /\ cc # "ready"
  BY LinkFacts DEF Link!CcReceive, Link!CcBackoffEnds, Link!Holds
<1>2. PICK m : m = mutex
  OBVIOUS
<1>3. m \in Seq(Tickets) /\ Distinct(m) /\ m # <<>> /\ Head(m) = "cc"
  BY <1>1, <1>2, LinkFacts
<1>4. /\ Tail(m) \in Seq(Tickets) /\ Distinct(Tail(m))
      /\ \A y : In(y, Tail(m)) <=> In(y, m) /\ y # Head(m)
  BY <1>3, Served
<1>5. listed' \subseteq LinkApps /\ inbox' \in Seq(Link!Messages)
  <2>1. CASE Link!CcBackoffEnds
    BY <2>1, LinkFacts DEF Link!CcBackoffEnds
  <2>2. CASE Link!CcReceive
    <3>1. inbox \in Seq(Link!Messages) /\ inbox # <<>> /\ inbox' = Tail(inbox)
      BY <2>2, LinkFacts DEF Link!CcReceive
    <3>2. Head(inbox) \in Link!Messages /\ inbox' \in Seq(Link!Messages)
      BY <3>1
    <3>3. Head(inbox).app \in LinkApps
      BY <3>2 DEF Link!Messages
    <3> QED BY <2>2, <3>2, <3>3, LinkFacts DEF Link!CcReceive
  <2> QED BY <2>1, <2>2
<1> QED BY <1>1, <1>2, <1>3, <1>4, <1>5, LinkFacts, LinkMoves

\* The heartbeat's statement ends, and with it all of its guards: one that
\* asked to reconnect never gets here, as its own guard is before it.
LEMMA LinkReleases ==
    ASSUME Link!LinkInv, Link!HbCall
    PROVE  Link!LinkInv' /\ hb # "reconnect"
<1>1. /\ hb # "sleeping" /\ mutex # <<>> /\ Head(mutex) = hb /\ hb' = "sleeping"
      /\ mutex' = Link!Retain(mutex, {"cc"})
      /\ UNCHANGED <<cc, inbox, listed>>
  BY DEF Link!HbCall, Link!Holds
<1>2. hb = "send" /\ connected' = connected
  BY <1>1, LinkFacts DEF Link!HbCall
<1>3. PICK m, T : m = mutex /\ T = {"cc"}
  OBVIOUS
<1>4. m \in Seq(Tickets) /\ Distinct(m) /\ mutex' = Retain(m, T)
  BY <1>1, <1>3, LinkFacts, SameRetainLink
<1>5. Retain(m, T) \in Seq(Tickets) /\ \A x : In(x, Retain(m, T)) <=> In(x, m) /\ x \in T
  BY <1>4, Retained
<1>6. Distinct(Retain(m, T))
  <2>1. \A i, j \in 1 .. Len(m) : i # j => m[i] # m[j]
    BY <1>4 DEF Distinct
  <2>2. PICK t : t = Retain(m, T)
    OBVIOUS
  <2>3. \A i, j \in 1 .. Len(t) : i # j => t[i] # t[j]
    BY <1>4, <2>1, <2>2, RetainDistinct
  <2> QED BY <2>2, <2>3 DEF Distinct
<1>7. cc # "backoff"
  BY <1>1, <1>2, LinkFacts
<1> QED BY <1>1, <1>2, <1>3, <1>4, <1>5, <1>6, <1>7, LinkFacts, LinkMoves

\* The connection, and what arrives over it.
LEMMA LinkDelivers ==
    ASSUME Link!LinkInv, Link!LoseConnection \/ \E msg \in Link!Messages : Link!Deliver(msg)
    PROVE  Link!LinkInv'
<1>1. UNCHANGED <<mutex, hb, cc, listed>> /\ (connected' = connected \/ connected' = "down")
  BY DEF Link!LoseConnection, Link!Deliver
<1>2. PICK M, box : M = Link!Messages /\ box = inbox
  OBVIOUS
<1>3. box \in Seq(M)
  BY <1>2, LinkFacts
<1>4. inbox' = <<>> \/ \E msg \in M : inbox' = Append(box, msg)
  BY <1>2 DEF Link!LoseConnection, Link!Deliver
<1>5. <<>> \in Seq(M) /\ \A msg \in M : Append(box, msg) \in Seq(M)
  BY <1>3, AppendProperties
<1>6. inbox' \in Seq(M)
  BY ONLY <1>4, <1>5
<1> QED BY <1>1, <1>2, <1>6, LinkFacts, LinkMoves

LEMMA LinkErrs ==
    ASSUME Link!LinkInv, Link!CcError
    PROVE  Link!LinkInv'
<1>1. /\ UNCHANGED <<mutex, hb, listed, connected>> /\ cc = "receive" /\ cc' = "backoff"
      /\ mutex # <<>> /\ Head(mutex) = "cc"
  BY DEF Link!CcError, Link!Holds
<1>2. inbox' = inbox \/ (inbox # <<>> /\ inbox' = Tail(inbox))
  BY DEF Link!CcError
<1>3. PICK M, box : M = Link!Messages /\ box = inbox
  OBVIOUS
<1>4. box \in Seq(M)
  BY <1>3, LinkFacts
<1>5. inbox' \in Seq(M)
  BY <1>2, <1>3, <1>4
<1> QED BY <1>1, <1>3, <1>5, LinkFacts, LinkMoves

LEMMA LinkKeeps == Link!LinkInv /\ [Link!Next]_Link!vars => Link!LinkInv'
<1> SUFFICES ASSUME Link!LinkInv, [Link!Next]_Link!vars PROVE Link!LinkInv'
  OBVIOUS
<1>1. CASE UNCHANGED Link!vars
  BY <1>1, LinkFacts, LinkMoves DEF Link!vars
<1>2. CASE Link!Next
  BY <1>2, LinkAsks, LinkServes, LinkReleases, LinkDelivers, LinkErrs
     DEF Link!Next, Link!Heartbeat, Link!Consumer
<1> QED BY <1>1, <1>2

\* For any number of messages and losses: each task waits in the mutex's queue
\* exactly once for each guard it has asked for, the consumer's error arm keeps
\* the mutex, and a loop that asks to reconnect asks for what it holds.
THEOREM LinkIsOrdered == NodeSpec => []Link!LinkInv
BY LinkStarts, LinkStep, LinkBegins, LinkKeeps, PTL DEF NodeSpec

\* Reconnecting waits for itself: after one heartbeat that could not be sent
\* the agent stays disconnected and its desired state as it is.
THEOREM HeartbeatStuckForGood == NodeSpec => Link!StuckForGood
<1>1. Link!LinkInv /\ [Link!Next]_Link!vars
      => [hb = "reconnect" => hb' = "reconnect" /\ connected' = "down" /\ listed' = listed]_Link!vars
  <2> SUFFICES ASSUME Link!LinkInv, Link!Next, hb = "reconnect"
               PROVE  hb' = "reconnect" /\ connected' = "down" /\ listed' = listed
    OBVIOUS
  <2>1. Head(mutex) = "send" /\ connected = "down" /\ cc # "backoff"
    BY LinkFacts
  <2>2. ~Link!Heartbeat
    BY <2>1, LinkReleases DEF Link!Heartbeat, Link!HbTick, Link!HbSendFails
  <2>3. ~(Link!CcReceive \/ Link!CcError \/ Link!CcBackoffEnds)
    BY <2>1 DEF Link!CcReceive, Link!CcError, Link!CcBackoffEnds, Link!Holds
  <2> QED BY <2>1, <2>2, <2>3
          DEF Link!Next, Link!Consumer, Link!CcLock, Link!Deliver, Link!LoseConnection
<1> QED BY LinkStarts, LinkStep, LinkBegins, LinkKeeps, <1>1, PTL DEF NodeSpec, Link!StuckForGood
=============================================================================
