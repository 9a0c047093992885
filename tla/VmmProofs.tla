----------------------------- MODULE VmmProofs -----------------------------
(***************************************************************************)
(* Theorems about the microVM manager, for any number of tasks,            *)
(* applications and failures.                                              *)
(*                                                                         *)
(* TableExclusive is inductive together with the types.  The others need   *)
(* to know what a call in its exclusive section has already done: its      *)
(* application is out of the table (LockedOut), and while nothing has      *)
(* failed its process is the fresh one it spawned itself, every entry      *)
(* holds the handle of its process, and so does a call that is halting one *)
(* (Clean).                                                                *)
(***************************************************************************)
EXTENDS Vmm, TLAPS

Filling == {"configure", "boot", "load"}

LockedOut ==
    \A c \in Clients :
        /\ at[c] \in Exclusive => target[c] \notin vms
        /\ at[c] \in Filling => target[c] \in sock

Owned == \A app \in Apps : proc[app] # "none" \/ app \in sock
             => app \in vms \/ \E c \in Clients : at[c] \in Exclusive /\ target[c] = app

Handled ==
    /\ vms \subseteq held
    /\ \A c \in Clients :
          /\ at[c] \in Filling => c \in spawned /\ proc[target[c]] = "blank"
          /\ at[c] = "halt" => target[c] \in held

Clean == Owned /\ Handled /\ ghosts = {}

Safe == TypeOK /\ TableExclusive /\ LockedOut /\ EntryHasSocket

IInv == Safe /\ (faults = 0 => Clean) /\ PausedHasResumer

USE DEF GoTo, Finish, NoFault, table, host, task, Entry, Exclusive, Finished, Booted, Filling

-----------------------------------------------------------------------------
LEMMA InitSafe == Init => IInv
BY VmmAssumption DEF Init, IInv, Safe, TypeOK, TableExclusive, LockedOut, EntryHasSocket, Clean,
   Owned, Handled, PausedHasResumer, ProcState, Position

LEMMA CallKeeps ==
    ASSUME IInv, NEW c \in Clients, NEW app \in Apps, NEW entry \in Entry, Call(c, app, entry)
    PROVE  IInv'
<1>1. Safe'
  BY DEF IInv, Safe, TypeOK, TableExclusive, LockedOut, EntryHasSocket, Call, Position
<1>2. faults' = 0 => Clean'
  BY DEF IInv, Safe, TypeOK, Clean, Owned, Handled, Call
<1>3. PausedHasResumer'
  BY DEF IInv, Safe, TypeOK, PausedHasResumer, Call
<1> QED BY <1>1, <1>2, <1>3 DEF IInv

LEMMA ReturnKeeps ==
    ASSUME IInv, NEW c \in Clients, Return(c)
    PROVE  IInv'
<1> USE DEF Return
<1>1. TypeOK'
  BY VmmAssumption DEF IInv, Safe, TypeOK, ProcState, Position
<1>2. TableExclusive' /\ LockedOut' /\ EntryHasSocket'
  BY DEF IInv, Safe, TypeOK, TableExclusive, LockedOut, EntryHasSocket
<1>3. faults' = 0 => Clean'
  BY DEF IInv, Safe, TypeOK, TableExclusive, LockedOut, Clean, Owned, Handled
<1>4. PausedHasResumer'
  BY DEF IInv, Safe, TypeOK, TableExclusive, LockedOut, PausedHasResumer
<1> QED BY <1>1, <1>2, <1>3, <1>4 DEF IInv, Safe

LEMMA StartCheckKeeps ==
    ASSUME IInv, NEW c \in Clients, StartCheck(c)
    PROVE  IInv'
<1> USE DEF StartCheck, Fault
<1>1. TypeOK'
  BY VmmAssumption DEF IInv, Safe, TypeOK, ProcState, Position
<1>2. TableExclusive' /\ LockedOut' /\ EntryHasSocket'
  BY DEF IInv, Safe, TypeOK, TableExclusive, LockedOut, EntryHasSocket
<1>3. faults' = 0 => Clean'
  BY DEF IInv, Safe, TypeOK, TableExclusive, LockedOut, Clean, Owned, Handled
<1>4. PausedHasResumer'
  BY DEF IInv, Safe, TypeOK, TableExclusive, LockedOut, PausedHasResumer
<1> QED BY <1>1, <1>2, <1>3, <1>4 DEF IInv, Safe

LEMMA SpawnKeeps ==
    ASSUME IInv, NEW c \in Clients, StartLock(c) \/ RestoreLock(c)
    PROVE  IInv'
<1> USE DEF StartLock, RestoreLock, LockAndSpawn, Fault
<1>1. TypeOK'
  BY VmmAssumption DEF IInv, Safe, TypeOK, ProcState, Position
<1>2. TableExclusive' /\ LockedOut' /\ EntryHasSocket'
  BY DEF IInv, Safe, TypeOK, TableExclusive, LockedOut, EntryHasSocket
<1>3. ASSUME faults' = 0 PROVE Clean'
  <2>1. faults = 0 /\ Clean
    BY <1>3, VmmAssumption DEF IInv, Safe, TypeOK
  <2>2. \A d \in Clients : at[d] \notin Exclusive
    BY DEF IInv, Safe, TableExclusive
  <2>3. target[c] \in sock => target[c] \in vms
    BY <2>1, <2>2 DEF IInv, Safe, TypeOK, Clean, Owned
  <2>4. Owned'
    BY <2>1, <2>2, <2>3 DEF IInv, Safe, TypeOK, Clean, Owned
  <2>5. Handled' /\ ghosts' = {}
    BY <1>3, <2>1, <2>2, <2>3, VmmAssumption DEF IInv, Safe, TypeOK, Clean, Handled
  <2> QED BY <2>4, <2>5 DEF Clean
<1>4. PausedHasResumer'
  BY DEF IInv, Safe, TypeOK, TableExclusive, LockedOut, PausedHasResumer
<1> QED BY <1>1, <1>2, <1>3, <1>4 DEF IInv, Safe

LEMMA ConfigureKeeps ==
    ASSUME IInv, NEW c \in Clients, Configure(c)
    PROVE  IInv'
<1> USE DEF Configure, Fault
<1>1. TypeOK'
  BY VmmAssumption DEF IInv, Safe, TypeOK, ProcState, Position
<1>2. TableExclusive' /\ LockedOut' /\ EntryHasSocket'
  BY DEF IInv, Safe, TypeOK, TableExclusive, LockedOut, EntryHasSocket
<1>3. faults' = 0 => Clean'
  BY DEF IInv, Safe, TypeOK, TableExclusive, LockedOut, Clean, Owned, Handled
<1>4. PausedHasResumer'
  BY DEF IInv, Safe, TypeOK, TableExclusive, LockedOut, PausedHasResumer
<1> QED BY <1>1, <1>2, <1>3, <1>4 DEF IInv, Safe

LEMMA BootKeeps ==
    ASSUME IInv, NEW c \in Clients, Boot(c) \/ Load(c)
    PROVE  IInv'
<1> USE DEF Boot, Load, Insert, BootFails, Fault
<1>1. TypeOK'
  BY VmmAssumption DEF IInv, Safe, TypeOK, ProcState, Position
<1>2. TableExclusive' /\ LockedOut' /\ EntryHasSocket'
  BY DEF IInv, Safe, TypeOK, TableExclusive, LockedOut, EntryHasSocket
<1>3. faults' = 0 => Clean'
  BY DEF IInv, Safe, TypeOK, TableExclusive, LockedOut, Clean, Owned, Handled
<1>4. PausedHasResumer'
  BY DEF IInv, Safe, TypeOK, TableExclusive, LockedOut, PausedHasResumer
<1> QED BY <1>1, <1>2, <1>3, <1>4 DEF IInv, Safe

LEMMA StopLockKeeps ==
    ASSUME IInv, NEW c \in Clients, StopLock(c)
    PROVE  IInv'
<1> USE DEF StopLock
<1>1. TypeOK'
  BY VmmAssumption DEF IInv, Safe, TypeOK, ProcState, Position
<1>2. TableExclusive' /\ LockedOut' /\ EntryHasSocket'
  BY DEF IInv, Safe, TypeOK, TableExclusive, LockedOut, EntryHasSocket
<1>3. faults' = 0 => Clean'
  BY DEF IInv, Safe, TypeOK, TableExclusive, LockedOut, Clean, Owned, Handled
<1>4. PausedHasResumer'
  BY DEF IInv, Safe, TypeOK, TableExclusive, LockedOut, PausedHasResumer
<1> QED BY <1>1, <1>2, <1>3, <1>4 DEF IInv, Safe

LEMMA HaltKeeps ==
    ASSUME IInv, NEW c \in Clients, Halt(c)
    PROVE  IInv'
<1> USE DEF Halt
<1>1. TypeOK'
  BY VmmAssumption DEF IInv, Safe, TypeOK, ProcState, Position
<1>2. TableExclusive' /\ LockedOut' /\ EntryHasSocket'
  BY DEF IInv, Safe, TypeOK, TableExclusive, LockedOut, EntryHasSocket
<1>3. faults' = 0 => Clean'
  BY DEF IInv, Safe, TypeOK, TableExclusive, LockedOut, Clean, Owned, Handled
<1>4. PausedHasResumer'
  BY DEF IInv, Safe, TypeOK, TableExclusive, LockedOut, PausedHasResumer
<1> QED BY <1>1, <1>2, <1>3, <1>4 DEF IInv, Safe

LEMMA PauseKeeps ==
    ASSUME IInv, NEW c \in Clients, Pause(c)
    PROVE  IInv'
<1> USE DEF Pause, Fault
<1>1. TypeOK'
  BY VmmAssumption DEF IInv, Safe, TypeOK, ProcState, Position
<1>2. TableExclusive' /\ LockedOut' /\ EntryHasSocket'
  BY DEF IInv, Safe, TypeOK, TableExclusive, LockedOut, EntryHasSocket
<1>3. faults' = 0 => Clean'
  BY DEF IInv, Safe, TypeOK, TableExclusive, LockedOut, Clean, Owned, Handled
<1>4. PausedHasResumer'
  BY DEF IInv, Safe, TypeOK, TableExclusive, LockedOut, PausedHasResumer
<1> QED BY <1>1, <1>2, <1>3, <1>4 DEF IInv, Safe

LEMMA SnapshotKeeps ==
    ASSUME IInv, NEW c \in Clients, Snapshot(c)
    PROVE  IInv'
<1> USE DEF Snapshot, Fault
<1>1. TypeOK'
  BY VmmAssumption DEF IInv, Safe, TypeOK, ProcState, Position
<1>2. TableExclusive' /\ LockedOut' /\ EntryHasSocket'
  BY DEF IInv, Safe, TypeOK, TableExclusive, LockedOut, EntryHasSocket
<1>3. faults' = 0 => Clean'
  BY DEF IInv, Safe, TypeOK, TableExclusive, LockedOut, Clean, Owned, Handled
<1>4. PausedHasResumer'
  BY DEF IInv, Safe, TypeOK, TableExclusive, LockedOut, PausedHasResumer
<1> QED BY <1>1, <1>2, <1>3, <1>4 DEF IInv, Safe

LEMMA DiskSnapshotKeeps ==
    ASSUME IInv, NEW c \in Clients, DiskSnapshot(c)
    PROVE  IInv'
<1> USE DEF DiskSnapshot
<1>1. TypeOK'
  BY VmmAssumption DEF IInv, Safe, TypeOK, ProcState, Position
<1>2. TableExclusive' /\ LockedOut' /\ EntryHasSocket'
  BY DEF IInv, Safe, TypeOK, TableExclusive, LockedOut, EntryHasSocket
<1>3. faults' = 0 => Clean'
  BY DEF IInv, Safe, TypeOK, TableExclusive, LockedOut, Clean, Owned, Handled
<1>4. PausedHasResumer'
  BY DEF IInv, Safe, TypeOK, TableExclusive, LockedOut, PausedHasResumer
<1> QED BY <1>1, <1>2, <1>3, <1>4 DEF IInv, Safe

LEMMA ResumeKeeps ==
    ASSUME IInv, NEW c \in Clients, Resume(c)
    PROVE  IInv'
<1> USE DEF Resume, Fault
<1>1. TypeOK'
  BY VmmAssumption DEF IInv, Safe, TypeOK, ProcState, Position
<1>2. TableExclusive' /\ LockedOut' /\ EntryHasSocket'
  BY DEF IInv, Safe, TypeOK, TableExclusive, LockedOut, EntryHasSocket
<1>3. faults' = 0 => Clean'
  BY DEF IInv, Safe, TypeOK, TableExclusive, LockedOut, Clean, Owned, Handled
<1>4. PausedHasResumer'
  BY DEF IInv, Safe, TypeOK, TableExclusive, LockedOut, PausedHasResumer
<1> QED BY <1>1, <1>2, <1>3, <1>4 DEF IInv, Safe

LEMMA ProcDiesKeeps ==
    ASSUME IInv, NEW app \in Apps, ProcDies(app)
    PROVE  IInv'
BY VmmAssumption DEF IInv, Safe, TypeOK, TableExclusive, LockedOut, EntryHasSocket, PausedHasResumer,
   ProcDies, Fault, ProcState

-----------------------------------------------------------------------------
LEMMA NextKeeps == IInv /\ [Next]_vars => IInv'
<1> SUFFICES ASSUME IInv, [Next]_vars PROVE IInv'
  OBVIOUS
<1>1. CASE UNCHANGED vars
  BY <1>1 DEF vars, IInv, Safe, TypeOK, TableExclusive, LockedOut, EntryHasSocket, Clean, Owned,
     Handled, PausedHasResumer
<1>2. CASE \E c \in Clients, app \in Apps, entry \in Entry : Call(c, app, entry)
  BY <1>2, CallKeeps
<1>3. CASE \E c \in Clients : Step(c)
  BY <1>3, StartCheckKeeps, SpawnKeeps, ConfigureKeeps, BootKeeps, StopLockKeeps, HaltKeeps,
     PauseKeeps, SnapshotKeeps, DiskSnapshotKeeps, ResumeKeeps DEF Step
<1>4. CASE \E c \in Clients : Return(c)
  BY <1>4, ReturnKeeps
<1>5. CASE \E app \in Apps : ProcDies(app)
  BY <1>5, ProcDiesKeeps
<1> QED BY <1>1, <1>2, <1>3, <1>4, <1>5 DEF Next

LEMMA CleanHasNoOrphan == IInv => NoOrphanWithoutFault
BY DEF IInv, Safe, TypeOK, Clean, Owned, NoOrphanWithoutFault, Busy

\* However many tasks start, restore, stop and snapshot VMs at once: the
\* table has one writer, an entry has its socket, and as long as nothing
\* failed no process lives outside the table and every paused VM will be
\* resumed (the write lock, the order of removal and insertion in start and
\* stop, the resume on both paths of create_snapshot).
THEOREM ManagerSafe ==
    Spec => [](TypeOK /\ TableExclusive /\ EntryHasSocket /\ NoVmLost)
<1>1. IInv => TypeOK /\ TableExclusive /\ EntryHasSocket /\ NoVmLost
  BY CleanHasNoOrphan DEF IInv, Safe, NoVmLost
<1> QED BY InitSafe, NextKeeps, <1>1, PTL DEF Spec

\* Whatever fails, an entry leaves the table only in the stop of its own
\* application (inner.vms.remove in stop is the only removal).
THEOREM EntriesLeaveByStop == Spec => OnlyStopRemoves
<1>1. [Next]_vars => [\A app \in vms \ vms' :
                         \E c \in Clients : at[c] = "stop_lock" /\ target[c] = app]_vars
  <2> SUFFICES ASSUME Next, NEW app \in vms \ vms'
               PROVE  \E c \in Clients : at[c] = "stop_lock" /\ target[c] = app
    OBVIOUS
  <2>1. ASSUME NEW c \in Clients, Step(c)
        PROVE  StopLock(c) \/ vms \subseteq vms'
    BY <2>1 DEF Step, StartCheck, StartLock, RestoreLock, LockAndSpawn, Configure, Boot, Load,
       Insert, BootFails, Halt, Pause, Snapshot, DiskSnapshot, Resume
  <2>2. ASSUME NEW c \in Clients, Return(c) PROVE FALSE
    BY <2>2 DEF Return
  <2>3. ASSUME NEW c \in Clients, NEW a \in Apps, NEW entry \in Entry, Call(c, a, entry)
        PROVE FALSE
    BY <2>3 DEF Call
  <2>4. ASSUME NEW a \in Apps, ProcDies(a) PROVE FALSE
    BY <2>4 DEF ProcDies
  <2>5. ASSUME NEW c \in Clients, StopLock(c)
        PROVE  at[c] = "stop_lock" /\ target[c] = app
    BY <2>5 DEF StopLock
  <2> QED BY <2>1, <2>2, <2>3, <2>4, <2>5 DEF Next
<1> QED BY <1>1, PTL DEF Spec, OnlyStopRemoves
=============================================================================
