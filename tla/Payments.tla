------------------------------ MODULE Payments ------------------------------
(***************************************************************************)
(* Invoices and their payment in the billing system with a database        *)
(* (shellwego-billing/src/lib.rs): calls of process_payment, the hourly    *)
(* worker that retries failed payments, and the webhooks of the provider.  *)
(*                                                                         *)
(* Every database statement and every request to the provider is a step,   *)
(* and any of them can fail: process_payment reads the status of the       *)
(* invoice, charges, records the attempt and marks the invoice, in four    *)
(* steps without a transaction, and the worker works on rows it read at    *)
(* the start of its pass.  A charge whose answer is lost is reported as a  *)
(* failed one.  Amounts, currencies and tokens are left out.               *)
(***************************************************************************)
EXTENDS Naturals, FiniteSets

CONSTANTS Invoices,     \* invoices that may be generated
          Customers,
          Owner,        \* the customer of each invoice
          Callers,      \* calls of process_payment in progress at once
          Rows,         \* rows the payments table may come to have
          MaxRetries,   \* dunning.max_retries
          MaxFaults     \* bound on failed statements, lost answers and restarts

ASSUME DunningAssumption ==
    /\ Owner \in [Invoices -> Customers]
    /\ MaxRetries \in Nat \ {0} /\ MaxFaults \in Nat

VARIABLES invoice,      \* the status of each invoice, "none" before it is stored
          payment,      \* partial function: row -> attempt
          suspended,    \* customers whose status is Suspended
          caller,       \* where each call of process_payment is
          worker,       \* where the retry worker is, and the rows it has read
          charged,      \* the provider's books: invoices with a charge
          open,         \* ... with a refused or unsettled payment there
          attempts,     \* how often each row was retried
          faults        \* failures so far

vars == <<invoice, payment, suspended, caller, worker, charged, open, attempts, faults>>
books == <<charged, open>>

Idle  == [pc |-> "idle"]
Sleep == [pc |-> "sleep", batch |-> {}]

\* A row as record_payment_attempt inserts it: retry_count 0, next_retry_at
\* null, which retry_failed_payments takes for due.
Attempt(inv, ok) ==
    [invoice |-> inv, status |-> IF ok THEN "succeeded" ELSE "failed", retries |-> 0,
     due |-> TRUE]

Init ==
    /\ invoice = [inv \in Invoices |-> "none"]
    /\ payment = <<>> /\ suspended = {}
    /\ caller = [c \in Callers |-> Idle]
    /\ worker = Sleep
    /\ charged = {} /\ open = {}
    /\ attempts = [r \in Rows |-> 0]
    /\ faults = 0

Fault == faults < MaxFaults /\ faults' = faults + 1

-----------------------------------------------------------------------------
\* generate_invoice stores the invoice as a draft.
GenerateInvoice(inv) ==
    /\ invoice[inv] = "none"
    /\ invoice' = [invoice EXCEPT ![inv] = "Draft"]
    /\ UNCHANGED <<payment, suspended, caller, worker, books, attempts, faults>>

\* update_customer writes the whole record, its status included.
UpdateCustomer(cust) ==
    /\ cust \in suspended
    /\ suspended' = suspended \ {cust}
    /\ UNCHANGED <<invoice, payment, caller, worker, books, attempts, faults>>

\* process_card_payment: the charge succeeds or is accepted for processing,
\* is refused (some refusals leave no payment behind that the provider would
\* report on), or its answer does not arrive, whatever became of it.
CardPayment(inv, ok) ==
    \/ /\ ok /\ charged' = charged \cup {inv}
       /\ UNCHANGED <<open, faults>>
    \/ /\ open' = open \cup {inv}
       /\ UNCHANGED <<charged, faults>>
    \/ /\ ~ok /\ UNCHANGED <<books, faults>>
    \/ /\ ~ok /\ Fault
       /\ charged' \in {charged, charged \cup {inv}}
       /\ UNCHANGED open

\* process_bank_transfer, process_wallet_payment, process_crypto_payment:
\* success is reported at once, the money is to come.
OtherPayment(inv, ok) ==
    /\ ok
    /\ open' = open \cup {inv}
    /\ UNCHANGED <<charged, faults>>

\* mark_invoice_paid.
MarkPaid(inv) == invoice' = [invoice EXCEPT ![inv] = "Paid"]

\* process_payment: an invoice that is already paid is left alone.
ProcessPayment(c, inv) ==
    /\ caller[c] = Idle
    /\ invoice[inv] \notin {"none", "Paid"}
    /\ caller' = [caller EXCEPT ![c] = [pc |-> "charge", invoice |-> inv]]
    /\ UNCHANGED <<invoice, payment, suspended, worker, books, attempts, faults>>

Charge(c) ==
    /\ caller[c].pc = "charge"
    /\ \E ok \in BOOLEAN :
          /\ CardPayment(caller[c].invoice, ok) \/ OtherPayment(caller[c].invoice, ok)
          /\ caller' = [caller EXCEPT ![c] =
                           [pc |-> "record", invoice |-> caller[c].invoice, ok |-> ok]]
    /\ UNCHANGED <<invoice, payment, suspended, worker, attempts>>

\* record_payment_attempt; when the insertion fails the call goes on.
RecordPaymentAttempt(c) ==
    /\ caller[c].pc = "record"
    /\ \/ UNCHANGED payment
       \/ \E r \in Rows \ DOMAIN payment :
             payment' = [q \in DOMAIN payment \cup {r} |->
                            IF q = r THEN Attempt(caller[c].invoice, caller[c].ok)
                                     ELSE payment[q]]
    /\ caller' = [caller EXCEPT ![c] =
                     IF caller[c].ok THEN [pc |-> "mark", invoice |-> caller[c].invoice]
                                     ELSE Idle]
    /\ UNCHANGED <<invoice, suspended, worker, books, attempts, faults>>

Mark(c) ==
    /\ caller[c].pc = "mark"
    /\ \/ MarkPaid(caller[c].invoice) /\ UNCHANGED faults
       \/ Fault /\ UNCHANGED invoice
    /\ caller' = [caller EXCEPT ![c] = Idle]
    /\ UNCHANGED <<payment, suspended, worker, books, attempts>>

-----------------------------------------------------------------------------
\* handle_webhook: the provider reports a charge, the settlement of an open
\* payment, or its failure, late, twice, or not at all.
PaymentSucceeded(inv) ==
    /\ inv \in charged \cup open
    /\ MarkPaid(inv)
    /\ UNCHANGED <<payment, suspended, caller, worker, books, attempts, faults>>

\* Mutant: the status is not looked at.
HandlePaymentFailureAlways(inv) ==
    /\ inv \in open
    /\ invoice' = [invoice EXCEPT ![inv] = "Open"]
    /\ UNCHANGED <<payment, suspended, caller, worker, books, attempts, faults>>

HandlePaymentFailure(inv) ==
    /\ inv \in open
    /\ invoice[inv] = "Draft"
    /\ invoice' = [invoice EXCEPT ![inv] = "Open"]
    /\ UNCHANGED <<payment, suspended, caller, worker, books, attempts, faults>>

-----------------------------------------------------------------------------
\* Mutant: the last retry is left out.
RetryableOneLess ==
    {r \in DOMAIN payment :
        payment[r].status = "failed" /\ payment[r].retries + 1 < MaxRetries /\ payment[r].due}

\* What the worker's query returns.
Retryable ==
    {r \in DOMAIN payment :
        payment[r].status = "failed" /\ payment[r].retries < MaxRetries /\ payment[r].due}

\* retry_failed_payments reads the rows it will retry.
FetchFailed ==
    /\ worker = Sleep
    /\ Retryable # {}
    /\ worker' = [pc |-> "retry",
                  batch |-> {[row |-> r, retries |-> payment[r].retries] : r \in Retryable}]
    /\ UNCHANGED <<invoice, payment, suspended, caller, books, attempts, faults>>

\* retry_payment: the charge is made again, whatever the invoice's status.
RetryPayment ==
    /\ worker.pc = "retry"
    /\ \E e \in worker.batch, ok \in BOOLEAN :
          /\ CardPayment(payment[e.row].invoice, ok)
          /\ attempts' = [attempts EXCEPT ![e.row] = @ + 1]
          /\ worker' = [pc |-> "save", batch |-> worker.batch, entry |-> e, ok |-> ok]
    /\ UNCHANGED <<invoice, payment, suspended, caller>>

Update(r, row) == payment' = [payment EXCEPT ![r] = row]

\* retry_payment stores the new status; an error is ignored.
SaveStatus ==
    /\ worker.pc = "save"
    /\ LET r == worker.entry.row
       IN  \/ /\ Update(r, [payment[r] EXCEPT !.status =
                                IF worker.ok THEN "succeeded" ELSE "failed"])
              /\ UNCHANGED faults
           \/ Fault /\ UNCHANGED payment
    /\ worker' = [worker EXCEPT !.pc = IF worker.ok THEN "settle" ELSE "count"]
    /\ UNCHANGED <<invoice, suspended, caller, books, attempts>>

\* The rest of the batch.
Remaining ==
    LET rest == worker.batch \ {worker.entry}
    IN  IF rest = {} THEN Sleep ELSE [pc |-> "retry", batch |-> rest]

\* The retry succeeded: the invoice is paid; an error is ignored.
Settle ==
    /\ worker.pc = "settle"
    /\ \/ MarkPaid(payment[worker.entry.row].invoice) /\ UNCHANGED faults
       \/ Fault /\ UNCHANGED invoice
    /\ worker' = Remaining
    /\ UNCHANGED <<payment, suspended, caller, books, attempts>>

\* Mutant: the customer is suspended one retry early.
CountRetryEarly ==
    /\ worker.pc = "count"
    /\ LET r == worker.entry.row
           n == worker.entry.retries + 1
       IN  /\ \/ Update(r, [payment[r] EXCEPT !.retries = n, !.due = FALSE]) /\ UNCHANGED faults
              \/ Fault /\ UNCHANGED payment
           /\ worker' = IF n + 1 >= MaxRetries THEN [worker EXCEPT !.pc = "suspend"]
                                               ELSE Remaining
    /\ UNCHANGED <<invoice, suspended, caller, books, attempts>>

\* Mutant: the count of a failed retry is not stored.
CountRetryForgotten ==
    /\ worker.pc = "count"
    /\ worker' = IF worker.entry.retries + 1 >= MaxRetries
                 THEN [worker EXCEPT !.pc = "suspend"] ELSE Remaining
    /\ UNCHANGED <<invoice, payment, suspended, caller, books, attempts, faults>>

\* It failed: retry_count and next_retry_at are stored, from the count read
\* at the start of the pass; an error is ignored.
CountRetry ==
    /\ worker.pc = "count"
    /\ LET r == worker.entry.row
           n == worker.entry.retries + 1
       IN  /\ \/ Update(r, [payment[r] EXCEPT !.retries = n, !.due = FALSE]) /\ UNCHANGED faults
              \/ Fault /\ UNCHANGED payment
           /\ worker' = IF n >= MaxRetries THEN [worker EXCEPT !.pc = "suspend"]
                                           ELSE Remaining
    /\ UNCHANGED <<invoice, suspended, caller, books, attempts>>

\* ... and after the last retry the customer is suspended, as
\* suspend_after_max_retries asks for by default.
Suspend ==
    /\ worker.pc = "suspend"
    /\ \/ /\ suspended' = suspended \cup {Owner[payment[worker.entry.row].invoice]}
          /\ UNCHANGED faults
       \/ Fault /\ UNCHANGED suspended
    /\ worker' = Remaining
    /\ UNCHANGED <<invoice, payment, caller, books, attempts>>

\* next_retry_at passes.
Elapse(r) ==
    /\ r \in DOMAIN payment /\ ~payment[r].due
    /\ Update(r, [payment[r] EXCEPT !.due = TRUE])
    /\ UNCHANGED <<invoice, suspended, caller, worker, books, attempts, faults>>

\* The process ends and comes back: calls and the worker's pass are lost.
Restart ==
    /\ Fault
    /\ caller' = [c \in Callers |-> Idle]
    /\ worker' = Sleep
    /\ UNCHANGED <<invoice, payment, suspended, books, attempts>>

-----------------------------------------------------------------------------
RetryWorker == FetchFailed \/ RetryPayment \/ SaveStatus \/ Settle \/ CountRetry \/ Suspend
Call(c)     == Charge(c) \/ RecordPaymentAttempt(c) \/ Mark(c)

Next ==
    \/ \E inv \in Invoices :
          \/ GenerateInvoice(inv) \/ PaymentSucceeded(inv) \/ HandlePaymentFailure(inv)
          \/ \E c \in Callers : ProcessPayment(c, inv)
    \/ \E cust \in Customers : UpdateCustomer(cust)
    \/ \E c \in Callers : Call(c)
    \/ RetryWorker
    \/ \E r \in Rows : Elapse(r)
    \/ Restart

Spec == Init /\ [][Next]_vars

\* The worker wakes up every hour and its requests time out; time passes.
Fairness == WF_vars(RetryWorker) /\ \A r \in Rows : WF_vars(Elapse(r))
FairSpec == Spec /\ Fairness

-----------------------------------------------------------------------------
\* Types.
TypeOK ==
    /\ invoice \in [Invoices -> {"none", "Draft", "Open", "Paid"}]
    /\ DOMAIN payment \subseteq Rows
    /\ \A r \in DOMAIN payment :
          payment[r] \in [invoice : Invoices, status : {"succeeded", "failed"},
                          retries : 0 .. MaxRetries, due : BOOLEAN]
    /\ suspended \subseteq Customers
    /\ \A c \in Callers : caller[c].pc \in {"idle", "charge", "record", "mark"}
    /\ \A e \in worker.batch : e.row \in DOMAIN payment /\ e.retries < MaxRetries
    /\ charged \subseteq Invoices /\ open \subseteq Invoices
    /\ attempts \in [Rows -> Nat] /\ faults \in 0 .. MaxFaults

\* An invoice that is paid stays paid: a late report of a failed payment, or
\* the worker, never reopens it.
PaidStays ==
    [][\A inv \in Invoices : invoice[inv] = "Paid" => invoice'[inv] = "Paid"]_vars

\* "retry_count < max_retries": a payment is retried max_retries times at
\* most, one more for every statement that failed or restart that hit the
\* worker between the charge and the count.
RetriesBounded == \A r \in Rows : attempts[r] <= MaxRetries + faults

\* Nobody is suspended before one payment of theirs was retried as often as
\* the configuration says.
SuspensionEarned ==
    \A cust \in suspended :
        \E r \in DOMAIN payment :
            Owner[payment[r].invoice] = cust /\ attempts[r] >= MaxRetries

\* A customer is dunned neither longer nor less than configured.
DunningRight == RetriesBounded /\ SuspensionEarned

\* "retry_failed_payments() actually retries failed payments": a failed
\* payment ends up settled or retried to the limit.
RetriedToTheEnd ==
    \A r \in Rows :
        (r \in DOMAIN payment /\ payment[r].status = "failed")
            ~> (/\ r \in DOMAIN payment
                /\ payment[r].status = "succeeded" \/ payment[r].retries = MaxRetries)
=============================================================================
