------------------------------ MODULE Metering ------------------------------
(***************************************************************************)
(* Usage metering over a database (shellwego-billing/src/metering.rs and   *)
(* record_usage, flush_counters of lib.rs), for one customer and resource: *)
(* usage is added to a real-time counter and to a buffer of events, and    *)
(* whoever fills the buffer flushes it, beside the worker that turns the   *)
(* counters into events every minute.                                      *)
(*                                                                         *)
(* Neither map is locked across a flush: the buffer is copied, the copy    *)
(* stored in a transaction, and then the whole buffer cleared; the         *)
(* counters are read and then cleared.                                     *)
(***************************************************************************)
EXTENDS Naturals, FiniteSets, FiniteSetsExt

CONSTANTS Recorders,        \* calls of record_usage in progress at once
          Worker,           \* the aggregation worker
          max_buffer_size,
          MaxEvents,        \* bound on the events of a behaviour
          MaxFlushFaults    \* bound on failed transactions and restarts

VARIABLES counter,    \* the real-time counter
          buffer,     \* events not yet stored
          rows,       \* how often each event is in the table
          recorded,   \* usage reported by the callers
          used,       \* identities given to events
          task,       \* where each recorder and the worker are
          failures    \* failures so far

vars == <<counter, buffer, rows, recorded, used, task, failures>>

Tasks  == Recorders \cup {Worker}
Events == [id : 1 .. MaxEvents, quantity : Nat]
Idle   == [pc |-> "idle"]

Init ==
    /\ counter = 0 /\ buffer = {} /\ rows = <<>>
    /\ recorded = 0 /\ used = 0 /\ failures = 0
    /\ task = [t \in Tasks |-> Idle]

Becomes(t, state) == task' = [task EXCEPT ![t] = state]
Fail == failures < MaxFlushFaults /\ failures' = failures + 1

\* The events of a copy are inserted, again if they are there already.
Insert(copy) ==
    rows' = [e \in DOMAIN rows \cup copy |->
                (IF e \in DOMAIN rows THEN rows[e] ELSE 0) + (IF e \in copy THEN 1 ELSE 0)]

-----------------------------------------------------------------------------
increment(amount) == counter' = counter + amount

\* record_usage: the counter is incremented, the event goes to the store.
RecordUsage(t) ==
    /\ task[t] = Idle /\ t # Worker
    /\ used < MaxEvents
    /\ used' = used + 1 /\ recorded' = recorded + 1
    /\ increment(1)
    /\ Becomes(t, [pc |-> "push", event |-> [id |-> used + 1, quantity |-> 1]])
    /\ UNCHANGED <<buffer, rows, failures>>

\* insert: the event is buffered; a full buffer is flushed.
Push(t) ==
    /\ task[t].pc = "push"
    /\ buffer' = buffer \cup {task[t].event}
    /\ Becomes(t, IF Cardinality(buffer') >= max_buffer_size THEN [pc |-> "copy"] ELSE Idle)
    /\ UNCHANGED <<counter, rows, recorded, used, failures>>

\* flush takes a copy and opens a transaction; another flush may have
\* emptied the buffer.
Copy(t) ==
    /\ task[t].pc = "copy"
    /\ Becomes(t, IF buffer = {} THEN Idle ELSE [pc |-> "commit", copy |-> buffer])
    /\ UNCHANGED <<counter, buffer, rows, recorded, used, failures>>

\* Mutant: the buffer is cleared although the transaction failed.
CommitFailsCleared(t) ==
    /\ task[t].pc = "commit"
    /\ Fail
    /\ buffer' = {} /\ UNCHANGED rows
    /\ Becomes(t, Idle)
    /\ UNCHANGED <<counter, recorded, used>>

\* The transaction fails, or it is committed and the answer is lost: flush
\* returns with the buffer as it is.
CommitFails(t) ==
    /\ task[t].pc = "commit"
    /\ Fail
    /\ UNCHANGED rows \/ Insert(task[t].copy)
    /\ Becomes(t, Idle)
    /\ UNCHANGED <<counter, buffer, recorded, used>>

Commit(t) ==
    /\ task[t].pc = "commit"
    /\ Insert(task[t].copy)
    /\ Becomes(t, [task[t] EXCEPT !.pc = "clear"])
    /\ UNCHANGED <<counter, buffer, recorded, used, failures>>

Clear(t) ==
    /\ task[t].pc = "clear"
    /\ buffer' = {}
    /\ Becomes(t, Idle)
    /\ UNCHANGED <<counter, rows, recorded, used, failures>>

-----------------------------------------------------------------------------
\* flush_all reads the counters ...
FlushCounters ==
    /\ task[Worker] = Idle
    /\ counter > 0 /\ used < MaxEvents
    /\ Becomes(Worker, [pc |-> "reset", amount |-> counter])
    /\ UNCHANGED <<counter, buffer, rows, recorded, used, failures>>

\* ... and clears them; what was read becomes an event.
ResetCounters ==
    /\ task[Worker].pc = "reset"
    /\ used < MaxEvents
    /\ counter' = 0
    /\ used' = used + 1
    /\ Becomes(Worker, [pc |-> "push",
                        event |-> [id |-> used + 1, quantity |-> task[Worker].amount]])
    /\ UNCHANGED <<buffer, rows, recorded, failures>>

\* The process ends: what is in memory only is lost.
Restart ==
    /\ Fail
    /\ counter' = 0 /\ buffer' = {}
    /\ task' = [t \in Tasks |-> Idle]
    /\ UNCHANGED <<rows, recorded, used>>

-----------------------------------------------------------------------------
Flush(t) == Copy(t) \/ Commit(t) \/ CommitFails(t) \/ Clear(t)

Next ==
    \/ \E t \in Tasks : RecordUsage(t) \/ Push(t) \/ Flush(t)
    \/ FlushCounters \/ ResetCounters
    \/ Restart

-----------------------------------------------------------------------------
\* Types.
TypeOK ==
    /\ counter \in Nat /\ recorded \in Nat
    /\ used \in 0 .. MaxEvents /\ failures \in 0 .. MaxFlushFaults
    /\ buffer \subseteq Events /\ DOMAIN rows \subseteq Events
    /\ \A t \in Tasks : task[t].pc \in {"idle", "push", "copy", "commit", "clear", "reset"}

\* An event leaves the buffer without being in the table only when the
\* process ends, or when a flush clears the buffer that took its copy
\* before the event came: no failed transaction loses one by itself.
DropsOnlyLate ==
    \A e \in buffer \ buffer' :
        \/ e \in DOMAIN rows
        \/ \E t \in Tasks : task[t].pc = "clear" /\ e \notin task[t].copy
        \/ Restart

\* The sum that get_usage takes over what query reads from the table.
query == MapThenSumSet(LAMBDA e : e.quantity * rows[e], DOMAIN rows)

\* "Update real-time counter for dashboard displays": what the counters hold
\* is shown, the events are billed, and no usage is billed twice.
UsageCountedOnce == query <= recorded

\* What DropsOnlyLate rests on: what a flush copied is in the table when it
\* clears the buffer.
MeterInv ==
    /\ DOMAIN task = Tasks /\ \A t \in Tasks : "pc" \in DOMAIN task[t]
    /\ \A t \in Tasks : task[t].pc = "clear" => task[t].copy \subseteq DOMAIN rows
==============================================================================
