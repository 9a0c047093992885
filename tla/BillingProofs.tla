---------------------------- MODULE BillingProofs ----------------------------
(* Theorems about the billing system, for any invoices, customers, calls,  *)
(* rows, retries, plans, events and failures.                              *)
EXTENDS MCBilling, TLAPS

-----------------------------------------------------------------------------
(* DunningRight and PaidStays for any invoices, calls, rows, retries and   *)
(* failures.  The worker counts a retry after it made it, in a row it read *)
(* at the start of its pass, so RetriesBounded is not inductive.  The      *)
(* invariant says how far the count of a row may be behind the retries     *)
(* really made: one while the worker is between the charge and the count   *)
(* of that very row, and one for every failure so far.                     *)

\* What the payments table holds of one attempt.
Stored == [invoice : {payment[r].invoice : r \in DOMAIN payment},
           status : {"succeeded", "failed"}, retries : 0 .. MaxRetries, due : BOOLEAN]

\* The worker sleeps, is between two rows, or is busy with one.
WorkerOK ==
    \/ worker = Sleep
    \/ worker = [pc |-> "retry", batch |-> worker.batch]
    \/ /\ worker = [pc |-> worker.pc, batch |-> worker.batch,
                    entry |-> worker.entry, ok |-> worker.ok]
       /\ worker.pc \in {"save", "settle", "count", "suspend"}
       /\ worker.entry \in worker.batch

Busy == worker.pc \in {"save", "settle", "count", "suspend"}

\* The worker retried the payment and has not counted it.
Tried(r) == worker.pc \in {"save", "count"} /\ worker.entry.row = r

\* What was read of the rows still to come is what they hold.
BatchOK ==
    /\ \A e \in worker.batch :
          /\ e.row \in DOMAIN payment /\ e.retries \in Nat /\ e.retries < MaxRetries
          /\ (~ Busy \/ e # worker.entry \/ worker.pc \in {"save", "count"}) =>
                payment[e.row].retries = e.retries /\ payment[e.row].status = "failed"
    /\ \A e, f \in worker.batch : e.row = f.row => e = f

\* The count of a row and the retries made of it.
RowOK(r) ==
    /\ payment[r] \in Stored
    /\ payment[r].retries <= attempts[r]
    /\ attempts[r] <= MaxRetries + faults
    /\ Tried(r) => /\ attempts[r] <= payment[r].retries + faults + 1
                   /\ attempts[r] >= payment[r].retries + 1
    /\ ~ Tried(r) /\ payment[r].status = "failed" => attempts[r] <= payment[r].retries + faults

DunningInv ==
    /\ attempts \in [Rows -> Nat] /\ faults \in Nat
    /\ DOMAIN payment \subseteq Rows
    /\ \A r \in Rows \ DOMAIN payment : attempts[r] = 0
    /\ WorkerOK
    /\ BatchOK
    /\ \A r \in DOMAIN payment : RowOK(r)
    /\ worker.pc = "suspend" => attempts[worker.entry.row] >= MaxRetries
    /\ SuspensionEarned

LEMMA InitDunning == Init => DunningInv
BY DunningAssumption DEF Init, DunningInv, WorkerOK, BatchOK, Busy, Sleep, SuspensionEarned

LEMMA InvBounds == DunningInv => DunningRight
BY DunningAssumption DEF DunningInv, DunningRight, RetriesBounded, RowOK

\* Steps that leave the worker and the retries alone; the table may gain a row.
LEMMA OthersKeep ==
    ASSUME DunningInv, UNCHANGED <<worker, attempts, faults>>,
           DOMAIN payment \subseteq DOMAIN payment', DOMAIN payment' \subseteq Rows,
           \A r \in DOMAIN payment :
              /\ payment'[r] \in Stored'
              /\ payment'[r].invoice = payment[r].invoice
              /\ payment'[r].status = payment[r].status
              /\ payment'[r].retries = payment[r].retries,
           \A r \in DOMAIN payment' \ DOMAIN payment :
              payment'[r] \in Stored' /\ payment'[r].retries = 0,
           suspended' \subseteq suspended
    PROVE  DunningInv'
<1>1. WorkerOK'
  BY DEF DunningInv, WorkerOK
<1>2. BatchOK'
  BY DEF DunningInv, BatchOK, Busy
<1>3. ASSUME NEW r \in DOMAIN payment' PROVE RowOK(r)'
  <2>1. CASE r \in DOMAIN payment
    BY <2>1 DEF DunningInv, RowOK, Tried
  <2>2. CASE r \notin DOMAIN payment
    <3>1. attempts[r] = 0 /\ ~ Tried(r)
      BY <2>2 DEF DunningInv, Tried, WorkerOK, BatchOK, Sleep
    <3> QED BY <2>2, <3>1, DunningAssumption DEF DunningInv, RowOK, Tried
  <2> QED BY <2>1, <2>2
<1>4. SuspensionEarned'
  BY DEF DunningInv, SuspensionEarned
<1> QED BY <1>1, <1>2, <1>3, <1>4 DEF DunningInv

LEMMA StoredKept == (\A r \in DOMAIN payment : RowOK(r)) /\ UNCHANGED payment =>
                        \A r \in DOMAIN payment : payment'[r] \in Stored'
BY DEF RowOK, Stored

LEMMA RecordKeeps ==
    ASSUME DunningInv, NEW c \in Callers, RecordPaymentAttempt(c)
    PROVE  DunningInv'
<1>1. CASE UNCHANGED payment
  <2>1. \A r \in DOMAIN payment : payment'[r] \in Stored'
    BY <1>1, StoredKept DEF DunningInv
  <2> QED BY <1>1, <2>1, OthersKeep DEF RecordPaymentAttempt, DunningInv
<1>2. ASSUME NEW r \in Rows \ DOMAIN payment,
             payment' = [q \in DOMAIN payment \cup {r} |->
                            IF q = r THEN Attempt(caller[c].invoice, caller[c].ok)
                                     ELSE payment[q]]
      PROVE DunningInv'
  <2>1. \A q \in DOMAIN payment : payment'[q] = payment[q]
    BY <1>2
  <2>2. payment'[r] = Attempt(caller[c].invoice, caller[c].ok)
    BY <1>2
  <2>3. \A q \in DOMAIN payment' : payment'[q] \in Stored'
    BY <1>2, <2>1, <2>2, DunningAssumption DEF DunningInv, RowOK, Stored, Attempt
  <2>4. payment'[r].retries = 0
    BY <2>2 DEF Attempt
  <2>5. UNCHANGED <<worker, attempts, faults, suspended>>
    BY DEF RecordPaymentAttempt
  <2> QED BY <1>2, <2>1, <2>3, <2>4, <2>5, OthersKeep DEF DunningInv
<1> QED BY <1>1, <1>2 DEF RecordPaymentAttempt

\* A step of the worker on the row of its entry, which may change the row's
\* status and count, but neither the other rows nor the batch.
LEMMA WorkerKeeps ==
    ASSUME DunningInv, WorkerOK', BatchOK', SuspensionEarned',
           attempts' \in [Rows -> Nat], faults' \in Nat, faults <= faults',
           DOMAIN payment' = DOMAIN payment,
           \A r \in Rows \ DOMAIN payment : attempts'[r] = attempts[r],
           \A r \in DOMAIN payment : RowOK(r)',
           worker'.pc = "suspend" => attempts'[worker'.entry.row] >= MaxRetries
    PROVE  DunningInv'
BY DEF DunningInv

LEMMA FetchKeeps == DunningInv /\ FetchFailed => DunningInv'
<1> SUFFICES ASSUME DunningInv, FetchFailed PROVE DunningInv'
  OBVIOUS
<1> DEFINE batch == {[row |-> r, retries |-> payment[r].retries] : r \in Retryable}
<1>1. worker = Sleep /\ worker' = [pc |-> "retry", batch |-> batch]
  BY DEF FetchFailed
<1>2. UNCHANGED <<payment, attempts, faults, suspended>>
  BY DEF FetchFailed
<1>3. WorkerOK'
  BY <1>1 DEF WorkerOK
<1>4. \A r \in Retryable : /\ r \in DOMAIN payment /\ payment[r].retries \in Nat
                           /\ payment[r].status = "failed" /\ payment[r].retries < MaxRetries
  BY DunningAssumption DEF Retryable, DunningInv, RowOK, Stored
<1>5. BatchOK'
  BY <1>1, <1>2, <1>4 DEF BatchOK, Busy
<1>6. \A r \in DOMAIN payment : RowOK(r)'
  BY <1>1, <1>2 DEF DunningInv, RowOK, Stored, Tried, Sleep
<1>7. SuspensionEarned'
  BY <1>2 DEF DunningInv, SuspensionEarned
<1> QED BY <1>1, <1>2, <1>3, <1>5, <1>6, <1>7, WorkerKeeps DEF DunningInv

LEMMA RetryKeeps == DunningInv /\ RetryPayment => DunningInv'
<1> SUFFICES ASSUME DunningInv, RetryPayment PROVE DunningInv'
  OBVIOUS
<1>1. PICK e \in worker.batch, ok \in BOOLEAN :
          /\ CardPayment(payment[e.row].invoice, ok)
          /\ attempts' = [attempts EXCEPT ![e.row] = @ + 1]
          /\ worker' = [pc |-> "save", batch |-> worker.batch, entry |-> e, ok |-> ok]
  BY DEF RetryPayment
<1>2. worker.pc = "retry" /\ ~ Busy /\ UNCHANGED <<payment, suspended>>
  BY DEF RetryPayment, Busy
<1>3. faults' = faults \/ faults' = faults + 1
  BY <1>1 DEF CardPayment, Fault
<1>4. e.row \in DOMAIN payment /\ e.row \in Rows
      /\ payment[e.row].status = "failed" /\ payment[e.row].retries < MaxRetries
  BY <1>2 DEF DunningInv, BatchOK
<1>5. /\ attempts' \in [Rows -> Nat] /\ attempts'[e.row] = attempts[e.row] + 1
      /\ \A r \in Rows : r # e.row => attempts'[r] = attempts[r]
  BY <1>1, <1>4 DEF DunningInv
<1>6. WorkerOK'
  BY <1>1 DEF WorkerOK
<1>7. BatchOK'
  BY <1>1, <1>2 DEF DunningInv, BatchOK, Busy
<1>8. ASSUME NEW r \in DOMAIN payment PROVE RowOK(r)'
  <2>1. /\ payment'[r] \in Stored' /\ payment[r].retries \in Nat /\ attempts[r] \in Nat
        /\ r \in Rows /\ faults \in Nat /\ faults' \in Nat /\ ~ Tried(r)
    BY <1>2, <1>3, DunningAssumption DEF DunningInv, RowOK, Stored, Tried
  <2>2. CASE r = e.row
    <3>1. attempts[r] <= payment[r].retries + faults
      BY <1>4, <2>1, <2>2 DEF DunningInv, RowOK
    <3> QED BY <1>1, <1>2, <1>3, <1>4, <1>5, <2>1, <2>2, <3>1, DunningAssumption
            DEF DunningInv, RowOK, Tried
  <2>3. CASE r # e.row
    BY <1>1, <1>2, <1>3, <1>5, <2>1, <2>3, DunningAssumption DEF DunningInv, RowOK, Tried
  <2> QED BY <2>2, <2>3
<1>9. SuspensionEarned'
  BY <1>2, <1>5, DunningAssumption DEF DunningInv, SuspensionEarned
<1> QED BY <1>1, <1>2, <1>3, <1>4, <1>5, <1>6, <1>7, <1>8, <1>9, WorkerKeeps DEF DunningInv

\* While the worker is busy its entry stands for a row of the table.
LEMMA EntryFacts ==
    ASSUME DunningInv, Busy
    PROVE  /\ worker = [pc |-> worker.pc, batch |-> worker.batch,
                        entry |-> worker.entry, ok |-> worker.ok]
           /\ worker.entry \in worker.batch
           /\ worker.entry.row \in DOMAIN payment /\ worker.entry.row \in Rows
           /\ worker.entry.retries \in Nat /\ worker.entry.retries < MaxRetries
           /\ worker.pc \in {"save", "count"} =>
                 /\ payment[worker.entry.row].retries = worker.entry.retries
                 /\ payment[worker.entry.row].status = "failed"
BY DEF DunningInv, WorkerOK, BatchOK, Busy, Sleep

\* What a row holds.
LEMMA RowFacts ==
    ASSUME DunningInv, NEW r \in DOMAIN payment
    PROVE  /\ payment[r] \in Stored
           /\ payment[r].retries \in Nat /\ payment[r].retries <= MaxRetries
           /\ attempts[r] \in Nat /\ faults \in Nat /\ MaxRetries \in Nat /\ RowOK(r)
BY DunningAssumption DEF DunningInv, RowOK, Stored

\* The worker is done with its entry.
LEMMA RemainingKeeps ==
    ASSUME DunningInv, Busy, worker' = Remaining,
           DOMAIN payment' = DOMAIN payment,
           \A r \in DOMAIN payment : r # worker.entry.row => payment'[r] = payment[r]
    PROVE  WorkerOK' /\ BatchOK' /\ worker'.pc \in {"sleep", "retry"}
<1>1. WorkerOK' /\ worker'.pc \in {"sleep", "retry"} /\ ~ Busy'
  BY DEF Remaining, WorkerOK, Sleep, Busy
<1>2. \A e \in worker'.batch : e \in worker.batch /\ e # worker.entry
  BY DEF Remaining, Sleep
<1>3. \A e \in worker'.batch : e.row # worker.entry.row
  BY <1>2, EntryFacts DEF DunningInv, BatchOK
<1>4. BatchOK'
  BY <1>1, <1>2, <1>3 DEF DunningInv, BatchOK
<1> QED BY <1>1, <1>4

\* A row that nobody touches in a step that may fail.
LEMMA RowKept ==
    ASSUME DunningInv, NEW r \in DOMAIN payment, ~ Tried(r), ~ Tried(r)',
           UNCHANGED attempts, faults' = faults \/ faults' = faults + 1,
           payment'[r] = payment[r], payment'[r] \in Stored'
    PROVE  RowOK(r)'
BY RowFacts DEF RowOK

\* The rows may only change in ways that the set of their contents allows.
LEMMA StoredIn ==
    ASSUME DOMAIN payment' = DOMAIN payment, NEW r \in DOMAIN payment,
           payment[r] \in Stored, payment'[r].invoice = payment[r].invoice,
           payment'[r] = [payment[r] EXCEPT !.status = payment'[r].status,
                             !.retries = payment'[r].retries, !.due = payment'[r].due],
           payment'[r].status \in {"succeeded", "failed"},
           payment'[r].retries \in 0 .. MaxRetries, payment'[r].due \in BOOLEAN
    PROVE  payment'[r] \in Stored'
BY DEF Stored

LEMMA SettleKeeps == DunningInv /\ Settle => DunningInv'
<1> SUFFICES ASSUME DunningInv, Settle PROVE DunningInv'
  OBVIOUS
<1>1. /\ worker.pc = "settle" /\ Busy /\ worker' = Remaining
      /\ UNCHANGED <<payment, suspended, attempts>>
      /\ faults' = faults \/ faults' = faults + 1
  BY DEF Settle, Busy, Fault
<1>2. WorkerOK' /\ BatchOK' /\ worker'.pc \in {"sleep", "retry"}
  BY <1>1, RemainingKeeps
<1>3. \A r \in DOMAIN payment : RowOK(r)'
  BY <1>1, <1>2, RowKept, StoredKept DEF DunningInv, Tried
<1>4. SuspensionEarned'
  BY <1>1 DEF DunningInv, SuspensionEarned
<1> QED BY <1>1, <1>2, <1>3, <1>4, WorkerKeeps DEF DunningInv

LEMMA SuspendKeeps == DunningInv /\ Suspend => DunningInv'
<1> SUFFICES ASSUME DunningInv, Suspend PROVE DunningInv'
  OBVIOUS
<1>1. /\ worker.pc = "suspend" /\ Busy /\ worker' = Remaining
      /\ UNCHANGED <<payment, attempts>>
      /\ faults' = faults \/ faults' = faults + 1
      /\ suspended' \subseteq suspended \cup {Owner[payment[worker.entry.row].invoice]}
  BY DEF Suspend, Busy, Fault
<1>2. WorkerOK' /\ BatchOK' /\ worker'.pc \in {"sleep", "retry"}
  BY <1>1, RemainingKeeps
<1>3. \A r \in DOMAIN payment : RowOK(r)'
  BY <1>1, <1>2, RowKept, StoredKept DEF DunningInv, Tried
<1>4. worker.entry.row \in DOMAIN payment /\ attempts[worker.entry.row] >= MaxRetries
  BY <1>1, EntryFacts DEF DunningInv
<1>5. SuspensionEarned'
  BY <1>1, <1>4 DEF DunningInv, SuspensionEarned
<1> QED BY <1>1, <1>2, <1>3, <1>5, WorkerKeeps DEF DunningInv

LEMMA SaveKeeps == DunningInv /\ SaveStatus => DunningInv'
<1> SUFFICES ASSUME DunningInv, SaveStatus PROVE DunningInv'
  OBVIOUS
<1> DEFINE e == worker.entry
           status == IF worker.ok THEN "succeeded" ELSE "failed"
           saved == [payment[e.row] EXCEPT !.status = status]
<1>1. /\ worker.pc = "save" /\ Busy
      /\ UNCHANGED <<suspended, attempts>>
      /\ worker' = [worker EXCEPT !.pc = IF worker.ok THEN "settle" ELSE "count"]
      /\ \/ payment' = [payment EXCEPT ![e.row] = saved] /\ faults' = faults
         \/ UNCHANGED payment /\ faults' = faults + 1
  BY DEF SaveStatus, Busy, Fault, Update
<1>2. /\ worker'.batch = worker.batch /\ worker'.entry = e
      /\ worker'.pc = IF worker.ok THEN "settle" ELSE "count"
      /\ worker' = [pc |-> worker'.pc, batch |-> worker.batch, entry |-> e, ok |-> worker.ok]
  BY <1>1, EntryFacts
<1>3. WorkerOK'
  BY <1>1, <1>2, EntryFacts DEF WorkerOK
<1>4. /\ DOMAIN payment' = DOMAIN payment
      /\ \A r \in DOMAIN payment : r # e.row => payment'[r] = payment[r]
      /\ payment'[e.row] = saved \/ payment'[e.row] = payment[e.row]
  BY <1>1, EntryFacts
<1>5. /\ saved.status = status /\ saved.retries = payment[e.row].retries
      /\ saved.invoice = payment[e.row].invoice /\ saved.due = payment[e.row].due
  BY <1>1, EntryFacts, RowFacts DEF Stored
<1>6. \A r \in DOMAIN payment : payment'[r].invoice = payment[r].invoice
  BY <1>4, <1>5
<1>6a. /\ \A r \in DOMAIN payment : payment'[r].retries = payment[r].retries
       /\ ~ worker.ok => payment'[e.row].status = "failed"
       /\ worker.ok /\ faults' = faults => payment'[e.row].status = "succeeded"
  <2>1. /\ payment'[e.row].retries = payment[e.row].retries
        /\ ~ worker.ok => payment'[e.row].status = "failed"
    BY <1>1, <1>4, <1>5, EntryFacts
  <2>2. worker.ok /\ faults' = faults => payment'[e.row] = saved
    BY <1>1, EntryFacts, RowFacts
  <2> QED BY <1>4, <1>5, <2>1, <2>2
<1>7. BatchOK'
  <2> SUFFICES ASSUME NEW f \in worker.batch
               PROVE  (~ Busy' \/ f # e \/ worker'.pc \in {"save", "count"}) =>
                         payment'[f.row].retries = f.retries /\ payment'[f.row].status = "failed"
    BY <1>2, <1>4 DEF DunningInv, BatchOK
  <2>1. CASE f = e
    BY <1>1, <1>2, <1>6a, <2>1, EntryFacts DEF Busy
  <2>2. CASE f # e
    <3>1. f.row # e.row /\ f.row \in DOMAIN payment
      BY <1>1, <2>2, EntryFacts DEF DunningInv, BatchOK
    <3>2. payment[f.row].retries = f.retries /\ payment[f.row].status = "failed"
      BY <2>2 DEF DunningInv, BatchOK
    <3> QED BY <1>4, <3>1, <3>2
  <2> QED BY <2>1, <2>2
<1>8. ASSUME NEW r \in DOMAIN payment PROVE RowOK(r)'
  <2>1. payment'[r] \in Stored'
    <3>1. payment[r] \in Stored
      BY RowFacts
    <3>2. saved \in Stored
      BY <1>1, EntryFacts, RowFacts DEF Stored
    <3> QED BY <1>4, <1>6, <3>1, <3>2 DEF Stored
  <2>2. CASE r # e.row
    <3>1. payment'[r] = payment[r] /\ ~ Tried(r) /\ ~ Tried(r)'
      BY <1>2, <1>4, <2>2 DEF Tried
    <3> QED BY <1>1, <2>1, <3>1, RowKept
  <2>3. CASE r = e.row
    <3>1. Tried(r) /\ RowOK(r) /\ payment[r].status = "failed" /\ payment[r].retries < MaxRetries
      BY <1>1, <2>3, EntryFacts, RowFacts DEF Tried
    <3>2. /\ payment'[r].retries = payment[r].retries
          /\ Tried(r)' <=> ~ worker.ok
          /\ worker.ok /\ faults' = faults => payment'[r].status = "succeeded"
      BY <1>2, <1>6a, <2>3 DEF Tried
    <3>3. faults' = faults \/ faults' = faults + 1
      BY <1>1
    <3> QED BY <1>1, <2>1, <3>1, <3>2, <3>3, RowFacts DEF RowOK
  <2> QED BY <2>2, <2>3
<1>9. SuspensionEarned'
  BY <1>1, <1>4, <1>6 DEF DunningInv, SuspensionEarned
<1> QED BY <1>1, <1>2, <1>3, <1>4, <1>7, <1>8, <1>9, WorkerKeeps DEF DunningInv

LEMMA CountKeeps == DunningInv /\ CountRetry => DunningInv'
<1> SUFFICES ASSUME DunningInv, CountRetry PROVE DunningInv'
  OBVIOUS
<1> DEFINE e == worker.entry
           counted == [payment[e.row] EXCEPT !.retries = e.retries + 1, !.due = FALSE]
<1>1. /\ worker.pc = "count" /\ Busy
      /\ UNCHANGED <<suspended, attempts>>
      /\ worker' = IF e.retries + 1 >= MaxRetries THEN [worker EXCEPT !.pc = "suspend"]
                                                  ELSE Remaining
      /\ \/ payment' = [payment EXCEPT ![e.row] = counted] /\ faults' = faults
         \/ UNCHANGED payment /\ faults' = faults + 1
  BY DEF CountRetry, Busy, Fault, Update
<1>2. /\ DOMAIN payment' = DOMAIN payment
      /\ \A r \in DOMAIN payment : r # e.row => payment'[r] = payment[r]
      /\ payment'[e.row] = counted \/ payment'[e.row] = payment[e.row]
  BY <1>1, EntryFacts
<1>3. /\ counted.status = "failed" /\ counted.retries = payment[e.row].retries + 1
      /\ counted.invoice = payment[e.row].invoice /\ counted.due = FALSE
  BY <1>1, EntryFacts, RowFacts DEF Stored
<1>4. \A r \in DOMAIN payment : payment'[r].invoice = payment[r].invoice
  BY <1>2, <1>3
<1>5. attempts[e.row] >= e.retries + 1 /\ MaxRetries \in Nat /\ attempts[e.row] \in Nat
  BY <1>1, EntryFacts, RowFacts DEF RowOK, Tried
<1>6. /\ WorkerOK' /\ BatchOK' /\ worker'.pc \in {"sleep", "retry", "suspend"}
      /\ worker'.pc = "suspend" => attempts'[worker'.entry.row] >= MaxRetries
  <2>1. CASE e.retries + 1 >= MaxRetries
    <3>1. /\ worker'.batch = worker.batch /\ worker'.entry = e /\ worker'.pc = "suspend"
          /\ worker' = [pc |-> worker'.pc, batch |-> worker.batch, entry |-> e, ok |-> worker.ok]
      BY <1>1, <2>1, EntryFacts
    <3>2. WorkerOK'
      BY <1>1, <3>1, EntryFacts DEF WorkerOK
    <3>3. BatchOK'
      BY <1>1, <1>2, <3>1, EntryFacts DEF DunningInv, BatchOK, Busy
    <3> QED BY <1>1, <1>5, <2>1, <3>1, <3>2, <3>3, EntryFacts
  <2>2. CASE ~ (e.retries + 1 >= MaxRetries)
    <3>1. worker' = Remaining
      BY <1>1, <2>2
    <3> QED BY <1>1, <1>2, <3>1, RemainingKeeps
  <2> QED BY <2>1, <2>2
<1>7. ASSUME NEW r \in DOMAIN payment PROVE RowOK(r)'
  <2>1. payment'[r] \in Stored'
    <3>1. payment[r] \in Stored
      BY RowFacts
    <3>2. payment[e.row] \in Stored /\ e.retries + 1 \in 0 .. MaxRetries
      BY <1>1, <1>5, EntryFacts, RowFacts
    <3>3. counted \in Stored
      BY <3>2 DEF Stored
    <3> QED BY <1>2, <1>4, <3>1, <3>3 DEF Stored
  <2>2. ~ Tried(r)'
    BY <1>6 DEF Tried
  <2>3. CASE r # e.row
    <3>1. payment'[r] = payment[r] /\ ~ Tried(r)
      BY <1>2, <2>3 DEF Tried
    <3> QED BY <1>1, <2>1, <2>2, <3>1, RowKept
  <2>4. CASE r = e.row
    <3>1. Tried(r) /\ RowOK(r) /\ payment[r].retries < MaxRetries
      BY <1>1, <2>4, EntryFacts, RowFacts DEF Tried
    <3>2. \/ payment'[r].retries = payment[r].retries + 1 /\ faults' = faults
          \/ payment'[r].retries = payment[r].retries /\ faults' = faults + 1
      BY <1>1, <1>3, <2>4
    <3> QED BY <1>1, <2>1, <2>2, <3>1, <3>2, RowFacts DEF RowOK
  <2> QED BY <2>3, <2>4
<1>8. SuspensionEarned'
  BY <1>1, <1>2, <1>4 DEF DunningInv, SuspensionEarned
<1> QED BY <1>1, <1>2, <1>6, <1>7, <1>8, WorkerKeeps DEF DunningInv

LEMMA RestartKeeps == DunningInv /\ Restart => DunningInv'
<1> SUFFICES ASSUME DunningInv, Restart PROVE DunningInv'
  OBVIOUS
<1>1. worker' = Sleep /\ faults' = faults + 1 /\ UNCHANGED <<payment, attempts, suspended>>
  BY DEF Restart, Fault
<1>2. WorkerOK' /\ BatchOK'
  BY <1>1 DEF WorkerOK, BatchOK, Sleep
<1>3. ASSUME NEW r \in DOMAIN payment PROVE RowOK(r)'
  <2>1. payment'[r] \in Stored' /\ ~ Tried(r)'
    BY <1>1, RowFacts, StoredKept DEF DunningInv, Tried, Sleep
  <2> QED BY <1>1, <2>1, RowFacts DEF RowOK
<1>4. SuspensionEarned'
  BY <1>1 DEF DunningInv, SuspensionEarned
<1> QED BY <1>1, <1>2, <1>3, <1>4, WorkerKeeps DEF DunningInv, Sleep

LEMMA ElapseKeeps ==
    ASSUME DunningInv, NEW r \in Rows, Elapse(r)
    PROVE  DunningInv'
<1> DEFINE row == [payment[r] EXCEPT !.due = TRUE]
<1>1. /\ r \in DOMAIN payment /\ payment' = [payment EXCEPT ![r] = row]
      /\ UNCHANGED <<worker, attempts, faults, suspended>>
  BY DEF Elapse, Update
<1>2. /\ DOMAIN payment' = DOMAIN payment
      /\ \A q \in DOMAIN payment : payment'[q] = IF q = r THEN row ELSE payment[q]
  BY <1>1
<1>3. \A q \in DOMAIN payment : /\ payment'[q].invoice = payment[q].invoice
                               /\ payment'[q].status = payment[q].status
                               /\ payment'[q].retries = payment[q].retries
  BY <1>2, RowFacts DEF Stored
<1>4. row \in Stored /\ \A q \in DOMAIN payment : payment[q] \in Stored
  BY <1>1, RowFacts DEF Stored
<1>5. \A q \in DOMAIN payment : payment'[q] \in Stored'
  BY <1>2, <1>3, <1>4 DEF Stored
<1> QED BY <1>1, <1>2, <1>3, <1>5, OthersKeep DEF DunningInv

LEMMA NextKeeps == DunningInv /\ [Next]_vars => DunningInv'
<1> SUFFICES ASSUME DunningInv, [Next]_vars PROVE DunningInv'
  OBVIOUS
<1>1. CASE UNCHANGED <<worker, attempts, faults, payment>> /\ suspended' \subseteq suspended
  <2>1. \A r \in DOMAIN payment : payment'[r] \in Stored'
    BY <1>1, StoredKept DEF DunningInv
  <2> QED BY <1>1, <2>1, OthersKeep DEF DunningInv
<1>2. CASE \E c \in Callers : Charge(c) \/ Mark(c)
  <2>1. /\ UNCHANGED <<worker, attempts, payment, suspended>>
        /\ faults' = faults \/ faults' = faults + 1
    BY <1>2 DEF Charge, Mark, CardPayment, OtherPayment, Fault
  <2>2. WorkerOK' /\ BatchOK'
    BY <2>1 DEF DunningInv, WorkerOK, BatchOK, Busy
  <2>3. ASSUME NEW r \in DOMAIN payment PROVE RowOK(r)'
    <3>1. payment'[r] \in Stored' /\ (Tried(r)' <=> Tried(r))
      BY <2>1, StoredKept DEF DunningInv, Tried
    <3> QED BY <2>1, <3>1, RowFacts DEF RowOK
  <2>4. SuspensionEarned'
    BY <2>1 DEF DunningInv, SuspensionEarned
  <2> QED BY <2>1, <2>2, <2>3, <2>4, WorkerKeeps DEF DunningInv
<1>3. CASE \E c \in Callers : RecordPaymentAttempt(c)
  BY <1>3, RecordKeeps
<1>4. CASE RetryWorker
  BY <1>4, FetchKeeps, RetryKeeps, SaveKeeps, SettleKeeps, CountKeeps, SuspendKeeps
     DEF RetryWorker
<1>5. CASE \E r \in Rows : Elapse(r)
  BY <1>5, ElapseKeeps
<1>6. CASE Restart
  BY <1>6, RestartKeeps
<1>7. CASE \E inv \in Invoices :
              \/ GenerateInvoice(inv) \/ PaymentSucceeded(inv) \/ HandlePaymentFailure(inv)
              \/ \E c \in Callers : ProcessPayment(c, inv)
  BY <1>1, <1>7 DEF GenerateInvoice, PaymentSucceeded, HandlePaymentFailure, ProcessPayment, books
<1>8. CASE \E cust \in Customers : UpdateCustomer(cust)
  BY <1>1, <1>8 DEF UpdateCustomer, books
<1>9. CASE UNCHANGED vars
  BY <1>1, <1>9 DEF vars
<1> QED BY <1>2, <1>3, <1>4, <1>5, <1>6, <1>7, <1>8, <1>9 DEF Next, Call

\* Customers are dunned neither longer nor less than configured: a payment is
\* retried at most max_retries times and once more for every failure, and
\* nobody is suspended before a payment of theirs was retried max_retries
\* times (retry_failed_payments, lib.rs).
THEOREM DunnedAsConfigured == BillingSpec => []DunningRight
<1>1. BillingInit => Init
  BY DEF BillingInit
<1>2. [BillingNext]_<<vars, meterVars, invoicingVars, part>> => [Next]_vars
  BY DEF BillingNext
<1> QED BY <1>1, <1>2, InitDunning, NextKeeps, InvBounds, PTL DEF BillingSpec

\* A paid invoice stays paid: neither a late report of a failed payment nor
\* the worker reopens it (handle_webhook, lib.rs).
THEOREM PaidForGood == BillingSpec => PaidStays
<1>1. BillingInit => Init
  BY DEF BillingInit
<1>2. [BillingNext]_<<vars, meterVars, invoicingVars, part>> => [Next]_vars
  BY DEF BillingNext
<1>3. Init => DOMAIN invoice = Invoices
  BY DEF Init
<1>4. DOMAIN invoice = Invoices /\ [Next]_vars =>
         /\ (DOMAIN invoice = Invoices)'
         /\ [\A inv \in Invoices : invoice[inv] = "Paid" => invoice'[inv] = "Paid"]_vars
  BY DEF Next, vars, Call, GenerateInvoice, PaymentSucceeded, HandlePaymentFailure,
         ProcessPayment, UpdateCustomer, Charge, RecordPaymentAttempt, Mark, RetryWorker,
         FetchFailed, RetryPayment, SaveStatus, Settle, CountRetry, Suspend, Elapse, Restart,
         MarkPaid
<1> QED BY <1>1, <1>2, <1>3, <1>4, PTL DEF BillingSpec, PaidStays

-----------------------------------------------------------------------------
(* Metering: whatever the recorders and the worker flush at once.           *)
LEMMA MeterStarts == Meter!Init => Meter!MeterInv
BY DEF Meter!Init, Meter!MeterInv, Meter!Idle

LEMMA InsertGrows ==
    ASSUME NEW copy, Meter!Insert(copy)
    PROVE  DOMAIN rows \subseteq DOMAIN rows' /\ copy \subseteq DOMAIN rows'
BY DEF Meter!Insert

LEMMA MeterKeeps == Meter!MeterInv /\ [Meter!Next]_meterVars => Meter!MeterInv'
<1> SUFFICES ASSUME Meter!MeterInv, [Meter!Next]_meterVars PROVE Meter!MeterInv'
  OBVIOUS
<1> USE DEF Meter!MeterInv, Meter!Becomes, Meter!Idle
<1>0. Worker \in Meter!Tasks
  BY DEF Meter!Tasks
<1>1. CASE UNCHANGED meterVars
  BY <1>1 DEF meterVars
<1>2. ASSUME NEW t \in Meter!Tasks,
             Meter!RecordUsage(t) \/ Meter!Push(t) \/ Meter!Copy(t) \/ Meter!Clear(t)
      PROVE  Meter!MeterInv'
  <2>1. /\ rows' = rows /\ DOMAIN task' = Meter!Tasks
        /\ \A u \in Meter!Tasks \ {t} : task'[u] = task[u]
        /\ "pc" \in DOMAIN task'[t] /\ task'[t].pc # "clear"
    BY <1>2 DEF Meter!RecordUsage, Meter!Push, Meter!Copy, Meter!Clear
  <2> QED BY <2>1
<1>3. ASSUME NEW t \in Meter!Tasks, Meter!CommitFails(t) PROVE Meter!MeterInv'
  <2>1. DOMAIN rows \subseteq DOMAIN rows'
    BY <1>3, InsertGrows DEF Meter!CommitFails
  <2>2. task' = [task EXCEPT ![t] = [pc |-> "idle"]]
    BY <1>3 DEF Meter!CommitFails
  <2> QED BY <2>1, <2>2
<1>4. ASSUME NEW t \in Meter!Tasks, Meter!Commit(t) PROVE Meter!MeterInv'
  <2>1. PICK copy : copy = task[t].copy
    OBVIOUS
  <2>2. DOMAIN rows \subseteq DOMAIN rows' /\ copy \subseteq DOMAIN rows'
    BY <1>4, <2>1, InsertGrows DEF Meter!Commit
  <2>3. task' = [task EXCEPT ![t] = [task[t] EXCEPT !.pc = "clear"]]
    BY <1>4 DEF Meter!Commit
  <2>4. PICK s : s = [task[t] EXCEPT !.pc = "clear"]
    OBVIOUS
  <2>5. "pc" \in DOMAIN s /\ s.copy = copy
    BY <2>1, <2>4
  <2> QED BY <2>2, <2>3, <2>4, <2>5
<1>5. CASE Meter!FlushCounters \/ Meter!ResetCounters
  <2>1. /\ rows' = rows /\ DOMAIN task' = Meter!Tasks
        /\ \A u \in Meter!Tasks \ {Worker} : task'[u] = task[u]
        /\ "pc" \in DOMAIN task'[Worker] /\ task'[Worker].pc # "clear"
    BY <1>0, <1>5 DEF Meter!FlushCounters, Meter!ResetCounters
  <2> QED BY <2>1
<1>6. CASE Meter!Restart
  BY <1>6 DEF Meter!Restart
<1> QED BY <1>1, <1>2, <1>3, <1>4, <1>5, <1>6 DEF Meter!Next, Meter!Flush

\* No failed flush loses a usage event: one leaves the buffer unstored only
\* when the process ends or when it came after the copy of the flush that
\* clears the buffer (neither map is locked across a flush).
THEOREM DroppedLate == BillingSpec => DroppedOnlyIfLate
<1>1. Meter!MeterInv /\ [Meter!Next]_meterVars => [Meter!DropsOnlyLate]_meterVars
  <2> SUFFICES ASSUME Meter!MeterInv, Meter!Next, NEW e \in buffer \ buffer', ~Meter!Restart
               PROVE  \/ e \in DOMAIN rows
                      \/ \E t \in Meter!Tasks : task[t].pc = "clear" /\ e \notin task[t].copy
    BY DEF Meter!DropsOnlyLate
  <2>1. PICK t \in Meter!Tasks : Meter!Clear(t)
    BY DEF Meter!Next, Meter!Flush, Meter!RecordUsage, Meter!Push, Meter!Copy, Meter!Commit,
       Meter!CommitFails, Meter!FlushCounters, Meter!ResetCounters
  <2> QED BY <2>1 DEF Meter!Clear, Meter!MeterInv
<1>2. BillingInit => Meter!Init
  BY DEF BillingInit
<1>3. [BillingNext]_<<vars, meterVars, invoicingVars, part>> => [Meter!Next]_meterVars
  BY DEF BillingNext
<1> QED BY <1>1, <1>2, <1>3, MeterStarts, MeterKeeps, PTL DEF BillingSpec, DroppedOnlyIfLate

-----------------------------------------------------------------------------
(* Invoicing: plans and customers change while an invoice is made.          *)
LEMMA InvoicingStarts == Inv!Init => Inv!InvoicingInv
BY DEF Inv!Init, Inv!InvoicingInv, Inv!NoCall, Inv!Nothing

\* What get_pricing may answer are the prices that hold.
LEMMA PricesHold ==
    ASSUME NEW ps, NEW r
    PROVE  Inv!get_pricing(ps, r) = Inv!Active(ps, r)
BY DEF Inv!get_pricing, Inv!Active, Inv!in_force, Inv!get_pricing_fallback

LEMMA LineAdded ==
    ASSUME Inv!InvoicingInv, making.at = "lines", NEW r \in making.todo, NEW ok \in BOOLEAN, NEW x,
           x \in IF ok THEN Inv!get_pricing(plans, r) ELSE {Fallback},
           making' = [making EXCEPT !.todo = @ \ {r},
                        !.failed = IF ok THEN @ ELSE @ \cup {r},
                        !.lines = [q \in DOMAIN @ \cup {r} |-> IF q = r THEN x ELSE @[q]]],
           UNCHANGED <<plans, offered>>
    PROVE  Inv!InvoicingInv'
<1> USE DEF Inv!InvoicingInv, Inv!NoCall
<1>1. r \in Resources /\ DOMAIN making.lines \subseteq Resources
  BY DEF Inv!InvoicingInv
<1>l. PICK l : l = [q \in DOMAIN making.lines \cup {r} |-> IF q = r THEN x ELSE making.lines[q]]
  OBVIOUS
<1>f. PICK f : f = IF ok THEN making.failed ELSE making.failed \cup {r}
  OBVIOUS
<1>2. making' = [at |-> "lines", credits |-> making.credits, todo |-> making.todo \ {r},
                 lines |-> l, failed |-> f]
  <2>1. PICK m : m = making
    OBVIOUS
  <2>2. m = [at |-> "lines", credits |-> m.credits, todo |-> m.todo, lines |-> m.lines,
             failed |-> m.failed]
    BY <2>1
  <2> QED BY <1>l, <1>f, <2>1, <2>2
<1>3. /\ making'.at = "lines" /\ making'.todo = making.todo \ {r} /\ making'.lines = l /\ making'.failed = f
      /\ making' = [at |-> "lines", credits |-> making'.credits, todo |-> making'.todo,
                    lines |-> making'.lines, failed |-> making'.failed]
  <2>1. PICK m, c, t : m = making' /\ c = making.credits /\ t = making.todo \ {r}
    OBVIOUS
  <2>2. m = [at |-> "lines", credits |-> c, todo |-> t, lines |-> l, failed |-> f]
    BY ONLY <1>2, <2>1
  <2>3. /\ m.at = "lines" /\ m.todo = t /\ m.lines = l /\ m.failed = f
        /\ m = [at |-> "lines", credits |-> m.credits, todo |-> m.todo, lines |-> m.lines,
                failed |-> m.failed]
    BY ONLY <2>2
  <2> QED BY ONLY <2>1, <2>3
<1>v. /\ DOMAIN l = DOMAIN making.lines \cup {r} /\ l[r] = x
      /\ \A q \in DOMAIN making.lines \ {r} : l[q] = making.lines[q]
  BY <1>l
<1>g. making.failed \subseteq f
  BY <1>f
<1>h. ~ok => r \in f
  BY <1>f
<1>4. x \in offered[r] \/ (~ok /\ x = Fallback)
  BY <1>1, PricesHold
<1>5. Inv!LinePriced(r)'
  BY <1>3, <1>4, <1>v, <1>h DEF Inv!LinePriced
<1>6. ASSUME NEW q \in DOMAIN making.lines \ {r} PROVE Inv!LinePriced(q)'
  <2>1. Inv!LinePriced(q)
    BY <1>6
  <2> QED BY <2>1, <1>3, <1>6, <1>v, <1>g DEF Inv!LinePriced
<1> QED BY <1>1, <1>3, <1>5, <1>6, <1>v

LEMMA InvoicingKeeps == Inv!InvoicingInv /\ [Inv!Next]_invoicingVars => Inv!InvoicingInv'
<1> SUFFICES ASSUME Inv!InvoicingInv, [Inv!Next]_invoicingVars PROVE Inv!InvoicingInv'
  OBVIOUS
<1> USE DEF Inv!NoCall
<1>1. CASE UNCHANGED invoicingVars
  BY <1>1 DEF invoicingVars, Inv!InvoicingInv, Inv!Active, Inv!LinePriced
<1>2. CASE Inv!upsert_pricing_plan
  <2>1. UNCHANGED making
        /\ offered' = IF making = [at |-> "idle"] THEN Inv!Nothing
                      ELSE [r \in Resources |-> offered[r] \cup Inv!Active(plans', r)]
    BY <1>2 DEF Inv!upsert_pricing_plan
  <2>2. CASE making = [at |-> "idle"]
    BY <2>1, <2>2 DEF Inv!InvoicingInv, Inv!Nothing
  <2>3. CASE making # [at |-> "idle"]
    <3>1. /\ DOMAIN offered' = Resources
          /\ \A r \in Resources : offered'[r] = offered[r] \cup Inv!Active(plans', r)
      BY <2>1, <2>3
    <3>2. \A r \in Resources : Inv!Active(plans, r)' \subseteq offered'[r]
      BY <3>1 DEF Inv!Active
    <3>3. \A r \in Resources : Inv!LinePriced(r) => Inv!LinePriced(r)'
      BY <2>1, <3>1 DEF Inv!LinePriced
    <3> QED BY <2>1, <3>1, <3>2, <3>3 DEF Inv!InvoicingInv
  <2> QED BY <2>2, <2>3
<1>3. CASE Inv!update_customer
  BY <1>3 DEF Inv!update_customer, Inv!InvoicingInv, Inv!Active, Inv!LinePriced
<1>4. CASE Inv!Ends
  BY <1>4 DEF Inv!Ends, Inv!InvoicingInv, Inv!Nothing
<1>5. CASE Inv!generate_invoice
  <2>1. /\ making' = [at |-> "types", credits |-> customer.credits] /\ plans' = plans
        /\ offered' = [r \in Resources |-> Inv!Active(plans, r)]
    BY <1>5 DEF Inv!generate_invoice
  <2>2. \A r \in Resources : Inv!Active(plans, r)' \subseteq offered'[r]
    BY <2>1 DEF Inv!Active
  <2> QED BY <2>1, <2>2 DEF Inv!InvoicingInv
<1>6. ASSUME UNCHANGED <<plans, offered>>, making # [at |-> "idle"]
      PROVE  /\ DOMAIN offered' = Resources
             /\ \A r \in Resources : Inv!Active(plans, r)' \subseteq offered'[r]
  BY <1>6 DEF Inv!InvoicingInv, Inv!Active
<1>7. CASE Inv!get_usage /\ ~Inv!Ends
  <2>1. /\ UNCHANGED <<plans, offered>> /\ making.at = "types"
        /\ making' = [at |-> "lines", credits |-> making.credits, todo |-> Resources,
                      lines |-> [r \in {} |-> 0], failed |-> {}]
    BY <1>7 DEF Inv!get_usage, Inv!Fails
  <2> QED BY <1>6, <2>1 DEF Inv!InvoicingInv
<1>8. CASE Inv!PriceLine /\ ~Inv!Ends
  BY <1>8, LineAdded DEF Inv!PriceLine, Inv!Fails, Inv!get_pricing_fallback
<1>9. CASE Inv!Discount
  <2>1. PICK subtotal : making' = [at |-> "store", credits |-> making.credits, lines |-> making.lines,
                                   failed |-> making.failed, subtotal |-> subtotal]
    BY <1>9 DEF Inv!Discount
  <2>2. UNCHANGED <<plans, offered>> /\ making.at = "lines"
    BY <1>9 DEF Inv!Discount
  <2>3. making'.lines = making.lines /\ making'.failed = making.failed /\ making'.at = "store"
    BY <2>1
  <2>4. \A r \in DOMAIN making.lines : Inv!LinePriced(r)'
    BY <2>2, <2>3 DEF Inv!InvoicingInv, Inv!LinePriced
  <2> QED BY <1>6, <2>2, <2>3, <2>4 DEF Inv!InvoicingInv
<1> QED BY <1>1, <1>2, <1>3, <1>4, <1>5, <1>7, <1>8, <1>9 DEF Inv!Next, Inv!store_invoice

\* Every line of an invoice that is about to be stored has a price that held
\* at some time during the call, and the built-in one only if no plan was
\* active then or the statement failed (generate_invoice reads usage and
\* plans one after the other).
THEOREM LinesArePriced == BillingSpec => []LinesPriced
<1>1. Inv!InvoicingInv => LinesPriced
  BY DEF Inv!InvoicingInv, LinesPriced, Inv!LinesPriced, Inv!LinePriced
<1>2. BillingInit => Inv!Init
  BY DEF BillingInit
<1>3. [BillingNext]_<<vars, meterVars, invoicingVars, part>> => [Inv!Next]_invoicingVars
  BY DEF BillingNext
<1> QED BY <1>1, <1>2, <1>3, InvoicingStarts, InvoicingKeeps, PTL DEF BillingSpec
=============================================================================
