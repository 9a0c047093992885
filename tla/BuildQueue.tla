----------------------------- MODULE BuildQueue -----------------------------
(***************************************************************************)
(* The build queue of the control plane (git/builder.rs).                  *)
(*                                                                         *)
(* A build is listed in `pending`, `running` or `completed`, each behind   *)
(* its own lock.  Its order of service comes from a second structure, a    *)
(* bounded channel to the processor task, which waits for a permit of the  *)
(* semaphore and then hands the build to a task of its own.  Between two   *)
(* locks of the same task anything may happen.                             *)
(***************************************************************************)
EXTENDS Integers, Selection

CONSTANTS Builds,          \* build ids, a finite set
          Priority,        \* the priority each build is submitted with
          ChannelSize,     \* capacity of the channel, at least one
          MaxConcurrent    \* max_concurrent_builds, at least one

VARIABLES pending,      \* listed builds waiting, by falling priority
          running,      \* partial function: build -> status shown for it
          completed,    \* partial function: build -> final status
          channel,      \* builds on their way to the processor
          permits,      \* permits left in the semaphore
          stage,        \* how far the code working on each build has come
          cancelling    \* builds a cancel looks for in `running` next

vars == <<pending, running, completed, channel, permits, stage, cancelling>>

Elements(s) == {s[i] : i \in 1 .. Len(s)}
Without(s, b) == Retain(s, Builds \ {b})

\* Before the first waiting build of a lower priority, or at the end.
InsertSorted(s, b) ==
    Retain(s, {other \in Builds : Priority[other] >= Priority[b]}) \o <<b>>
    \o Retain(s, {other \in Builds : Priority[other] < Priority[b]})

Set(f, b, v) == [x \in DOMAIN f \cup {b} |-> IF x = b THEN v ELSE f[x]]
Drop(f, b)   == [x \in DOMAIN f \ {b} |-> f[x]]

Stages == {"new", "sending", "queued", "received", "permitted", "claimed",
           "executing", "executed", "unlisted", "finished"}

\* Stages in which a build's task holds a permit.
Holding == {"permitted", "claimed", "executing", "executed", "unlisted"}

Move(b, to) == stage' = [stage EXCEPT ![b] = to]

-----------------------------------------------------------------------------
Init ==
    /\ pending = <<>> /\ channel = <<>>
    /\ running = [b \in {} |-> ""] /\ completed = [b \in {} |-> ""]
    /\ permits = MaxConcurrent
    /\ stage = [b \in Builds |-> "new"]
    /\ cancelling = {}

\* submit lists the build ...
Submit(b) ==
    /\ stage[b] = "new"
    /\ pending' = InsertSorted(pending, b)
    /\ Move(b, "sending")
    /\ UNCHANGED <<running, completed, channel, permits, cancelling>>

\* ... and then sends it, waiting while the channel is full.
Send(b) ==
    /\ stage[b] = "sending"
    /\ Len(channel) < ChannelSize
    /\ channel' = Append(channel, b)
    /\ Move(b, "queued")
    /\ UNCHANGED <<pending, running, completed, permits, cancelling>>

\* The processor takes the next build, one at a time.
Receive ==
    /\ channel # <<>>
    /\ \A b \in Builds : stage[b] # "received"
    /\ channel' = Tail(channel)
    /\ Move(Head(channel), "received")
    /\ UNCHANGED <<pending, running, completed, permits, cancelling>>

\* It waits for a permit and spawns the build's task.
Acquire(b) ==
    /\ stage[b] = "received"
    /\ permits > 0
    /\ permits' = permits - 1
    /\ Move(b, "permitted")
    /\ UNCHANGED <<pending, running, completed, channel, cancelling>>

\* Mutant: the early end of a cancelled build's task keeps the permit.
ClaimLeaksPermit(b) ==
    /\ stage[b] = "permitted"
    /\ \/ /\ b \in Elements(pending)
          /\ pending' = Without(pending, b)
          /\ Move(b, "claimed")
       \/ /\ b \notin Elements(pending)
          /\ Move(b, "finished")
          /\ UNCHANGED pending
    /\ UNCHANGED <<permits, running, completed, channel, cancelling>>

\* Mutant: the job is copied out of `pending` instead of removed.
ClaimCopies(b) ==
    /\ stage[b] = "permitted"
    /\ b \in Elements(pending)
    /\ Move(b, "claimed")
    /\ UNCHANGED <<pending, permits, running, completed, channel, cancelling>>

\* The task takes the build out of `pending`; one that was cancelled is not
\* there, and the permit goes back.
Claim(b) ==
    /\ stage[b] = "permitted"
    /\ \/ /\ b \in Elements(pending)
          /\ pending' = Without(pending, b)
          /\ Move(b, "claimed")
          /\ UNCHANGED permits
       \/ /\ b \notin Elements(pending)
          /\ Move(b, "finished")
          /\ permits' = permits + 1
          /\ UNCHANGED pending
    /\ UNCHANGED <<running, completed, channel, cancelling>>

\* It lists the build as running,
ListRunning(b) ==
    /\ stage[b] = "claimed"
    /\ running' = Set(running, b, "Running")
    /\ Move(b, "executing")
    /\ UNCHANGED <<pending, completed, channel, permits, cancelling>>

\* executes it (the phases are simulated and do not fail),
Execute(b) ==
    /\ stage[b] = "executing"
    /\ Move(b, "executed")
    /\ UNCHANGED <<pending, running, completed, channel, permits, cancelling>>

\* Mutant: the running entry stays.
UnlistKeeps(b) ==
    /\ stage[b] = "executed"
    /\ Move(b, "unlisted")
    /\ UNCHANGED <<running, pending, completed, channel, permits, cancelling>>

\* takes it off the list,
Unlist(b) ==
    /\ stage[b] = "executed"
    /\ running' = Drop(running, b)
    /\ Move(b, "unlisted")
    /\ UNCHANGED <<pending, completed, channel, permits, cancelling>>

\* and records the result of the execution, then drops the permit.
Complete(b) ==
    /\ stage[b] = "unlisted"
    /\ completed' = Set(completed, b, "Success")
    /\ permits' = permits + 1
    /\ Move(b, "finished")
    /\ UNCHANGED <<pending, running, channel, cancelling>>

\* cancel looks in `pending` first ...
CancelPending(b) ==
    /\ b \notin cancelling
    /\ \/ /\ b \in Elements(pending)
          /\ pending' = Without(pending, b)
          /\ UNCHANGED cancelling
       \/ /\ b \notin Elements(pending)
          /\ cancelling' = cancelling \cup {b}
          /\ UNCHANGED pending
    /\ UNCHANGED <<running, completed, channel, permits, stage>>

\* ... then in `running`, where it changes the status of the listed copy; it
\* answers NotFound either way.
CancelRunning(b) ==
    /\ b \in cancelling
    /\ cancelling' = cancelling \ {b}
    /\ \/ /\ b \in DOMAIN running
          /\ running' = Set(running, b, "Cancelled")
       \/ b \notin DOMAIN running /\ UNCHANGED running
    /\ UNCHANGED <<pending, completed, channel, permits, stage>>

Work(b) ==
    \/ Send(b) \/ Acquire(b) \/ Claim(b) \/ ListRunning(b) \/ Execute(b)
    \/ Unlist(b) \/ Complete(b)

Next ==
    \/ Receive
    \/ \E b \in Builds : Submit(b) \/ Work(b) \/ CancelPending(b) \/ CancelRunning(b)

Spec == Init /\ [][Next]_vars

\* The processor, the tasks and the submitters waiting on the channel are
\* polled whenever they can make progress; the channel queues its senders.
Fairness == WF_vars(Receive) /\ \A b \in Builds : SF_vars(Work(b))
FairSpec == Spec /\ Fairness

-----------------------------------------------------------------------------
\* Types.
TypeOK ==
    /\ pending \in Seq(Builds) /\ channel \in Seq(Builds)
    /\ DOMAIN running \subseteq Builds /\ DOMAIN completed \subseteq Builds
    /\ \A b \in DOMAIN running : running[b] \in {"Running", "Cancelled"}
    /\ \A b \in DOMAIN completed : completed[b] = "Success"
    /\ permits \in 0 .. MaxConcurrent
    /\ stage \in [Builds -> Stages]
    /\ cancelling \subseteq Builds

\* No more than max_concurrent_builds builds are between claiming their job
\* and having their result recorded, and no permit is lost or made up.
PermitsAccounted ==
    permits + Cardinality({b \in Builds : stage[b] \in Holding}) = MaxConcurrent

\* A build is listed at most once: never pending and running, or running and
\* completed, so get_status gives one answer.
ListedOnce ==
    \A b \in Builds :
        /\ Cardinality({i \in 1 .. Len(pending) : pending[i] = b}) <= 1
        /\ b \in Elements(pending) => b \notin DOMAIN running \cup DOMAIN completed
        /\ b \in DOMAIN running => b \notin DOMAIN completed

\* What is pending has not been claimed: a cancel that answers Ok has kept
\* the build from running.
PendingNotStarted ==
    \A b \in Elements(pending) : stage[b] \in {"sending", "queued", "received", "permitted"}

\* The lists, the permits and the tasks of the builds agree, whatever order
\* submit, cancel and the tasks take the locks in.
QueueConsistent == PermitsAccounted /\ ListedOnce /\ PendingNotStarted

\* What that rests on: a build is in the channel once, while it is queued; in
\* the list of running builds while it is executed; and completed at its end.
QueueInv ==
    /\ TypeOK /\ PermitsAccounted /\ PendingNotStarted
    /\ \A i, j \in 1 .. Len(pending) : i # j => pending[i] # pending[j]
    /\ \A i, j \in 1 .. Len(channel) : i # j => channel[i] # channel[j]
    /\ \A i \in 1 .. Len(channel) : stage[channel[i]] = "queued"
    /\ \A b \in DOMAIN running : stage[b] \in {"executing", "executed"}
    /\ \A b \in DOMAIN completed : stage[b] = "finished"

\* Every build that is submitted comes to its end: it is completed, or was
\* taken out of `pending` by a cancel, however full the channel and however
\* scarce the permits.
EveryBuildFinishes == \A b \in Builds : stage[b] = "sending" ~> stage[b] = "finished"
=============================================================================
