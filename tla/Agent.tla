------------------------------- MODULE Agent -------------------------------
(***************************************************************************)
(* A node's agent: the desired-state cache the command consumer writes     *)
(* (daemon.rs), the reconciler that reads it every tick (reconciler.rs),   *)
(* and the two components the reconciler drives, the microVM manager (Vmm) *)
(* and the address manager (Ipam).  The reconciler is the only task of the *)
(* agent that calls them.                                                  *)
(*                                                                         *)
(* One pass works on two snapshots, taken one after the other: `desired`,  *)
(* a clone of the cache, and `actual`, the table of the manager.  The      *)
(* consumer may change the cache at any step of the pass.  The first error *)
(* ends the pass; the next tick starts over.                               *)
(***************************************************************************)
EXTENDS Integers, Selection

CONSTANTS Apps,          \* application ids the control plane may schedule
          SubnetSize,    \* addresses of the node's subnet
          MaxMicrovms,   \* max_microvms of the configuration
          FaultKinds,    \* which failures of the environment may happen
          MaxFaults,     \* bound on how many of them happen
          MaxCommands    \* bound on the commands of the control plane

ASSUME AgentAssumption ==
    /\ IsFiniteSet(Apps) /\ MaxMicrovms \in Nat
    /\ SubnetSize \in Nat /\ SubnetSize >= 4

VARIABLES cache,      \* app ids of state_cache, in the order of its Vec
          commands,   \* commands received so far
          pc,         \* where the reconciler is in its pass
          desired,    \* the pass's clone of the cache
          actual,     \* the pass's list of running VMs, less those it stopped
          pos,        \* the desired app the pass is at
          addr,       \* the address a process was configured with
          foreign     \* apps whose process an earlier run of the agent started

VARIABLES allocated, reply
VARIABLES vms, held, sock, proc, ghosts, at, target, spawned, writer, faults

Rec == "reconciler"

Net == INSTANCE Ipam
Vm  == INSTANCE Vmm WITH Clients <- {Rec}, Restorers <- {}

pass  == <<pc, desired, actual, pos>>
net   == <<allocated, reply>>
table == <<vms, held>>
host  == <<sock, proc, ghosts>>
task  == <<at, target, spawned, writer>>
vmm   == <<table, host, task, faults>>
guests == <<addr, foreign>>
vars  == <<cache, commands, pass, guests, net, vmm>>

Elements(s) == {s[i] : i \in 1 .. Len(s)}
Wanted      == Elements(desired)
App         == desired[pos]

-----------------------------------------------------------------------------
Init ==
    /\ cache = <<>> /\ commands = 0
    /\ pc = "sleeping" /\ desired = <<>> /\ actual = {} /\ pos = 1
    /\ addr = [a \in Apps |-> 0] /\ foreign = {}
    /\ Net!Init
    /\ Vm!Init

\* command_consumer: ScheduleApp adds the app to the cache unless present.
ScheduleApp(app) ==
    /\ commands < MaxCommands
    /\ commands' = commands + 1
    /\ cache' = IF app \in Elements(cache) THEN cache ELSE Append(cache, app)
    /\ UNCHANGED <<pass, guests, net, vmm>>

\* command_consumer: TerminateApp retains the others.
TerminateApp(app) ==
    /\ commands < MaxCommands
    /\ commands' = commands + 1
    /\ cache' = Retain(cache, Apps \ {app})
    /\ UNCHANGED <<pass, guests, net, vmm>>

\* The pass ends, with an error or without: the loop waits for the next tick.
EndPass ==
    /\ pc' = "sleeping"
    /\ desired' = <<>> /\ actual' = {} /\ pos' = 1

\* The ticker fires; get_desired_state clones the cache.
Tick ==
    /\ pc = "sleeping"
    /\ desired' = cache
    /\ pc' = "list"
    /\ UNCHANGED <<actual, pos, cache, commands, guests, net, vmm>>

\* list_running
ListRunning ==
    /\ pc = "list"
    /\ actual' = vms
    /\ pc' = "create"
    /\ UNCHANGED <<desired, pos, cache, commands, guests, net, vmm>>

\* The loop over the desired apps: one that runs already is passed over
\* (check_image_updates answers no), for one that does not the root file
\* system and the secrets are prepared.
CreateNext ==
    /\ pc = "create"
    /\ \/ /\ pos > Len(desired)
          /\ pc' = "remove"
          /\ UNCHANGED <<desired, actual, pos, faults>>
       \/ /\ pos <= Len(desired) /\ App \in actual
          /\ pos' = pos + 1
          /\ UNCHANGED <<pc, desired, actual, faults>>
       \/ /\ pos <= Len(desired) /\ App \notin actual
          /\ pc' = "network"
          /\ UNCHANGED <<desired, actual, pos, faults>>
       \/ /\ pos <= Len(desired) /\ App \notin actual
          /\ Vm!Fault("prepare")
          /\ EndPass
    /\ UNCHANGED <<cache, commands, guests, net, table, host, task>>

\* Mutant: a setup that fails gives the address back.
SetupNetworkReleasing ==
    /\ pc = "network"
    /\ \/ Net!Allocate(App) /\ pc' = "start" /\ UNCHANGED <<desired, actual, pos, faults>>
       \/ Net!Release(App) /\ Vm!Fault("network") /\ EndPass
    /\ UNCHANGED <<cache, commands, guests, table, host, task>>

\* network.setup: an address, then the TAP device and its filters.  A failure
\* after the address was assigned leaves it assigned.
SetupNetwork ==
    /\ pc = "network"
    /\ Net!Allocate(App)
    /\ \/ reply' = "ok" /\ pc' = "start" /\ UNCHANGED <<desired, actual, pos, faults>>
       \/ reply' = "exhausted" /\ EndPass /\ UNCHANGED faults
       \/ reply' = "ok" /\ Vm!Fault("network") /\ EndPass
    /\ UNCHANGED <<cache, commands, guests, table, host, task>>

\* vmm.start is called, and its outcome continues or ends the pass.
StartVm ==
    /\ pc = "start"
    /\ Vm!Call(Rec, App, "start_check")
    /\ pc' = "starting"
    /\ UNCHANGED <<desired, actual, pos, cache, commands, guests, net>>

StartReturns ==
    /\ pc = "starting"
    /\ Vm!Return(Rec)
    /\ \/ /\ at[Rec] = "ok"
          /\ pc' = "create" /\ pos' = pos + 1
          /\ UNCHANGED <<desired, actual>>
       \/ at[Rec] = "failed" /\ EndPass
    /\ UNCHANGED <<cache, commands, guests, net>>

\* Mutant: the membership test of the removal loop is inverted.
RemoveWanted ==
    /\ pc = "remove"
    /\ \/ \E app \in actual \cap Wanted :
             /\ Vm!Call(Rec, app, "stop_lock")
             /\ pc' = "stopping"
             /\ UNCHANGED <<desired, actual, pos>>
       \/ /\ actual \cap Wanted = {}
          /\ EndPass
          /\ UNCHANGED vmm
    /\ UNCHANGED <<cache, commands, guests, net>>

\* Mutant: the removal loop is left out.
RemoveNone ==
    /\ pc = "remove"
    /\ EndPass
    /\ UNCHANGED <<cache, commands, guests, net, vmm>>

\* The loop over the running VMs, in the order of a hash map; what follows it
\* (volumes, network policies) has nothing to do for the apps of the cache.
RemoveNext ==
    /\ pc = "remove"
    /\ \/ \E app \in actual \ Wanted :
             /\ Vm!Call(Rec, app, "stop_lock")
             /\ pc' = "stopping"
             /\ UNCHANGED <<desired, actual, pos>>
       \/ /\ actual \subseteq Wanted
          /\ EndPass
          /\ UNCHANGED vmm
    /\ UNCHANGED <<cache, commands, guests, net>>

StopReturns ==
    /\ pc = "stopping"
    /\ Vm!Return(Rec)
    /\ \/ /\ at[Rec] = "ok"
          /\ pc' = "remove" /\ actual' = actual \ {target[Rec]}
          /\ UNCHANGED <<desired, pos>>
       \/ at[Rec] = "failed" /\ EndPass
    /\ UNCHANGED <<cache, commands, guests, net>>

\* The manager works on the call; configure_vm passes the address of
\* network.setup in the kernel's boot arguments.
VmmStep ==
    /\ Vm!Step(Rec)
    /\ addr' = IF at[Rec] = "configure" /\ at'[Rec] = "boot"
               THEN [addr EXCEPT ![App] = allocated[App]]
               ELSE addr
    /\ foreign' = IF at[Rec] = "configure" /\ at'[Rec] = "boot"
                  THEN foreign \ {App}
                  ELSE foreign
    /\ UNCHANGED <<cache, commands, pass, net>>

Reconcile ==
    \/ Tick \/ ListRunning \/ CreateNext \/ SetupNetwork
    \/ StartVm \/ StartReturns \/ RemoveNext \/ StopReturns \/ VmmStep

\* External: a VM's process dies.  Nothing in the agent watches it.
VmDies(app) ==
    /\ Vm!ProcDies(app)
    /\ UNCHANGED <<cache, commands, pass, guests, net>>

\* The agent is killed, or stops on a signal without stopping its VMs, and
\* is started again: what it kept in memory is gone, the processes are not.
Restart ==
    /\ Vm!Fault("restart")
    /\ cache' = <<>>
    /\ EndPass
    /\ allocated' = [a \in {} |-> 0] /\ reply' = "none"
    /\ vms' = {} /\ held' = {}
    /\ at' = [c \in {Rec} |-> "idle"] /\ spawned' = {} /\ writer' = {}
    /\ foreign' = {a \in Apps : proc[a] # "none"}
    /\ UNCHANGED <<commands, addr, target, host>>

Next ==
    \/ \E app \in Apps : ScheduleApp(app) \/ TerminateApp(app) \/ VmDies(app)
    \/ Reconcile
    \/ Restart

Spec == Init /\ [][Next]_vars

\* The reconciler is a loop over a ticker and every call it awaits returns.
FairSpec == Spec /\ WF_vars(Reconcile)

-----------------------------------------------------------------------------
\* The state of the pass is well formed and both components are.
TypeOK ==
    /\ cache \in Seq(Apps) /\ desired \in Seq(Apps)
    /\ Cardinality(Elements(cache)) = Len(cache)
    /\ actual \subseteq Apps
    /\ pc \in {"sleeping", "list", "create", "network", "start", "starting",
               "remove", "stopping"}
    /\ pos \in 1 .. Len(desired) + 1
    /\ Net!TypeOK
    /\ Vm!TypeOK

\* max_microvms holds on the node: the check of vmm.start is not atomic with
\* the insertion, but the agent has a single caller of it.
NodeCapacity == Cardinality(vms) <= MaxMicrovms

\* A guest this run of the agent started uses the address its application
\* still holds in the address manager, whatever stopped, failed, died or was
\* left behind in between; so no other application can be given it.
LiveAddressHeld ==
    \A a \in Apps \ foreign : proc[a] \in Vm!Booted =>
        a \in DOMAIN allocated /\ addr[a] = allocated[a]

\* "Tracks allocated IPs within a subnet to prevent collisions": no two
\* guests the agent started have the same address.
NoAddressCollision ==
    \A a, b \in Apps \ foreign :
        a # b /\ proc[a] \in Vm!Booted /\ proc[b] \in Vm!Booted => addr[a] # addr[b]

\* The node keeps its limits and its guests their addresses.
NodeSafe == NodeCapacity /\ LiveAddressHeld /\ NoAddressCollision

\* The reconciler stops a VM only in the removal phase of a pass whose own
\* snapshot of the desired state lacks the application.
StopsRight ==
    \A a \in vms \ vms' :
        \/ pc = "stopping" /\ a \notin Wanted /\ a \in actual
        \/ Restart
StopsOnlyUnwanted == [][StopsRight]_vars

\* What these rest on.  The reconciler has one call of the manager under way
\* at most, and knows which; a start has the address of its application and
\* the room it found, a stop an application the pass does not want; and what
\* is about to boot was configured with that address.
Reached == {"idle", "ok", "failed", "start_check", "start_lock", "configure", "boot",
            "stop_lock", "halt"}

AgentInv ==
    /\ cache \in Seq(Apps) /\ desired \in Seq(Apps) /\ pos \in Nat \ {0}
    /\ actual \subseteq Apps
    /\ vms \subseteq Apps /\ proc \in [Apps -> Vm!ProcState] /\ foreign \subseteq Apps
    /\ at \in [{Rec} -> Reached] /\ target \in [{Rec} -> Apps]
    /\ DOMAIN addr = Apps
    /\ Net!TypeOK /\ Net!UniqueAddresses
    /\ NodeCapacity /\ LiveAddressHeld
    /\ at[Rec] \in {"start_check", "start_lock", "configure", "boot"} => pc = "starting"
    /\ at[Rec] \in {"stop_lock", "halt"} => pc = "stopping"
    /\ pc \in {"network", "start", "starting"} => pos <= Len(desired)
    /\ pc \in {"start", "starting"} => App \in DOMAIN allocated
    /\ pc = "starting" => target[Rec] = App
    /\ pc = "stopping" => target[Rec] \in actual \ Wanted
    /\ at[Rec] \in {"start_lock", "configure", "boot"} => Cardinality(vms) < MaxMicrovms
    /\ at[Rec] = "boot" => App \notin foreign /\ addr[App] = allocated[App]

\* Applications whose socket leads to no process, or to one that runs a
\* guest already, while neither the table nor a call knows of them: what a
\* failed start, a dead process or an earlier agent left behind.
Stranded == {a \in sock \ (vms \cup Vm!Busy) : proc[a] # "blank"}

\* The node has room for what is desired beside what still runs, and an
\* address for what is desired beside the addresses given out so far.
RoomForBoth ==
    /\ Cardinality(Elements(cache) \cup vms) <= MaxMicrovms
    /\ Cardinality(Elements(cache) \cup DOMAIN allocated) <= Cardinality(Net!Usable)

\* When the desired state comes to rest with room for it beside the old one
\* and no application stays or becomes stranded, the table comes to agree
\* with it and stays so, through failures of any step of a creation,
\* commands during a pass and restarts.
ConvergesUnlessStranded ==
    <>[](RoomForBoth /\ Stranded = {}) => <>[](vms = Elements(cache))
=============================================================================
