----------------------------- MODULE MCBilling -----------------------------
(* The three parts of the billing system: payments, metering and the       *)
(* making of an invoice.  They share no state here, so that one run        *)
(* explores each by itself: `part` says which of them moves.               *)
(*                                                                         *)
(* Payments: one invoice, one call at a time beside the worker and the     *)
(* webhooks, two rows, two retries and one failure.  Metering: two         *)
(* recorders and the worker, a buffer of two and four events, so that      *)
(* flushes overlap.  Invoicing: two plans, so that two may price one       *)
(* resource, and two tiers the customer may have.                          *)
EXTENDS Payments

CONSTANTS k1,
          Recorders, Worker, max_buffer_size, MaxEvents, MaxFlushFaults,
          Resources, Plans, Prices, Fallback, Quantity, Tiers, Credits

\* The invoices are of one customer; two units of every resource were used.
MCOwner    == [inv \in Invoices |-> k1]
MCQuantity == [r \in Resources |-> 2]

VARIABLES part, counter, buffer, rows, recorded, used, task, failures,
          plans, customer, making, stored, offered

Meter == INSTANCE Metering

Inv == INSTANCE Invoicing

meterVars == <<counter, buffer, rows, recorded, used, task, failures>>
invoicingVars == <<plans, customer, making, stored, offered>>

BillingInit ==
    Init /\ Meter!Init /\ Inv!Init /\ part \in {"payments", "metering", "invoicing"}

BillingNext ==
    /\ UNCHANGED part
    /\ \/ part = "payments" /\ Next /\ UNCHANGED <<meterVars, invoicingVars>>
       \/ part = "metering" /\ Meter!Next /\ UNCHANGED <<vars, invoicingVars>>
       \/ part = "invoicing" /\ Inv!Next /\ UNCHANGED <<vars, meterVars>>

BillingSpec ==
    BillingInit /\ [][BillingNext]_<<vars, meterVars, invoicingVars, part>> /\ Fairness

\* Types of all the parts.
BillingTypeOK == TypeOK /\ Meter!TypeOK /\ Inv!InvoicingTypeOK

\* Every line of a stored invoice has a price that held while it was made.
LinesPriced == Inv!LinesPriced

\* No failed flush loses a usage event: one leaves the buffer unstored only
\* when the process ends or when it came after the copy of the flush that
\* clears the buffer.
DroppedOnlyIfLate == [][Meter!DropsOnlyLate]_meterVars

\* The real-time counters are for display: no usage is billed twice.
UsageCountedOnce == Meter!UsageCountedOnce
=============================================================================
