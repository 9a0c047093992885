------------------------------ MODULE Invoicing ------------------------------
(* How an invoice comes about (shellwego-billing/src/lib.rs:                *)
(* generate_invoice over get_usage and get_pricing).  The customer, the     *)
(* usage of every resource, the plan that prices it and the customer once   *)
(* more are read by separate statements, while plans and the customer may   *)
(* be written.  A statement that fails ends the call, except the one for    *)
(* the plan, after which the built-in price is taken.                       *)
(*                                                                          *)
(* Amounts are whole multiples of a twentieth, the smallest discount, so    *)
(* that Decimal's exact arithmetic is exact here too.                       *)
EXTENDS Naturals, FiniteSets, FiniteSetsExt

CONSTANTS Resources,    \* resource types with usage
          Plans,        \* identifiers of pricing plans
          Prices,       \* what a plan may charge for a unit
          Fallback,     \* the built-in price
          Quantity,     \* the usage of each resource in the period
          Tiers,        \* tiers the customer may have
          Credits       \* credits the customer may have

VARIABLES plans,        \* plan -> resource, price, is_active
          customer,     \* tier and credits in the database
          making,       \* the call in progress, with what it has read
          stored,       \* the total of the invoice last stored, 0 while one is made
          offered       \* since the call began: resource -> prices that held

invoicingVars == <<plans, customer, making, stored, offered>>

NoCall  == [at |-> "idle"]
Nothing == [r \in Resources |-> {}]

InvoicingTypeOK ==
    /\ \A p \in DOMAIN plans : plans[p] \in [resource : Resources, price : Prices, is_active : BOOLEAN]
    /\ customer \in [tier : Tiers, credits : Credits] /\ stored \in Nat

Init ==
    /\ plans = [p \in {} |-> NoCall]
    /\ customer \in [tier : Tiers, credits : Credits]
    /\ making = NoCall /\ stored = 0
    /\ offered = Nothing

\* Mutant: plans that are no longer active price as well.
in_force_any(ps, r) == {p \in DOMAIN ps : ps[p].resource = r}

\* The plans the query of get_pricing may return: LIMIT 1, in no order.
in_force(ps, r) == {p \in DOMAIN ps : ps[p].resource = r /\ ps[p].is_active}

\* What get_pricing may answer, and get_pricing_fallback when there is no row.
get_pricing_fallback(r) == Fallback
get_pricing(ps, r) ==
    IF in_force(ps, r) = {} THEN {get_pricing_fallback(r)}
    ELSE {ps[p].price : p \in in_force(ps, r)}

\* In twentieths of the amount.
calculate_tier_discount(tier) ==
    CASE tier = "Free" -> 0 [] tier = "Starter" -> 1 [] tier = "Growth" -> 2
      [] tier = "Custom" -> 3 [] tier = "Enterprise" -> 4

\* The prices that hold now: of the active plans, or the built-in one.
Active(ps, r) ==
    LET a == {p \in DOMAIN ps : ps[p].resource = r /\ ps[p].is_active}
    IN  IF a = {} THEN {Fallback} ELSE {ps[p].price : p \in a}

-----------------------------------------------------------------------------
\* upsert_pricing_plan: the row of this identifier is replaced, whatever
\* resource it was for.
upsert_pricing_plan ==
    /\ \E p \in Plans, r \in Resources, x \in Prices, active \in BOOLEAN :
         plans' = [q \in DOMAIN plans \cup {p} |->
                      IF q = p THEN [resource |-> r, price |-> x, is_active |-> active]
                      ELSE plans[q]]
    /\ offered' = IF making = NoCall THEN Nothing
                  ELSE [r \in Resources |-> offered[r] \cup Active(plans', r)]
    /\ UNCHANGED <<customer, making, stored>>

\* update_customer writes tier and credits.
update_customer ==
    /\ customer' \in [tier : Tiers, credits : Credits]
    /\ UNCHANGED <<plans, making, stored, offered>>

Ends  == making' = NoCall /\ offered' = Nothing
Fails == Ends /\ UNCHANGED <<plans, customer, stored>>

\* generate_invoice reads the customer, and will use these credits.
generate_invoice ==
    /\ making = NoCall
    /\ making' = [at |-> "types", credits |-> customer.credits]
    /\ offered' = [r \in Resources |-> Active(plans, r)]
    /\ stored' = 0
    /\ UNCHANGED <<plans, customer>>

\* get_usage: the resource types first ...
get_usage ==
    /\ making.at = "types"
    /\ \/ Fails
       \/ /\ making' = [at |-> "lines", credits |-> making.credits, todo |-> Resources,
                        lines |-> [r \in {} |-> 0], failed |-> {}]
          /\ UNCHANGED <<plans, customer, stored, offered>>

\* ... then for each of them its quantity and its price; a failure of the
\* second statement is taken for the absence of a plan ...
PriceLine ==
    /\ making.at = "lines"
    /\ \/ Fails
       \/ \E r \in making.todo, ok \in BOOLEAN :
            \E x \in IF ok THEN get_pricing(plans, r) ELSE {get_pricing_fallback(r)} :
              making' = [making EXCEPT
                           !.todo = @ \ {r},
                           !.failed = IF ok THEN @ ELSE @ \cup {r},
                           !.lines = [q \in DOMAIN @ \cup {r} |-> IF q = r THEN x ELSE @[q]]]
          /\ UNCHANGED <<plans, customer, stored, offered>>

\* ... and the customer again for the discount of its tier.
Discount ==
    LET gross == MapThenSumSet(LAMBDA r : making.lines[r] * Quantity[r], DOMAIN making.lines)
    IN
    /\ making.at = "lines" /\ making.todo = {}
    /\ making' = [at |-> "store", credits |-> making.credits, lines |-> making.lines,
                  failed |-> making.failed,
                  subtotal |-> gross - (gross * calculate_tier_discount(customer.tier)) \div 20]
    /\ UNCHANGED <<plans, customer, stored, offered>>

\* Credits are taken off up to the subtotal, and stay the customer's:
\* store_invoice writes the invoice only.
credit_applied(m) == IF m.credits < m.subtotal THEN m.credits ELSE m.subtotal

store_invoice ==
    /\ making.at = "store"
    /\ Ends
    /\ stored' = making.subtotal - credit_applied(making)
    /\ UNCHANGED <<plans, customer>>

Next ==
    \/ upsert_pricing_plan \/ update_customer
    \/ generate_invoice \/ get_usage \/ PriceLine \/ Discount \/ store_invoice

InvoicingSpec == Init /\ [][Next]_invoicingVars
-----------------------------------------------------------------------------
\* Plans change while an invoice is being made, and two may price one
\* resource: every line that is about to be stored has a price that held at
\* some time during the call, and the built-in price only if at some time no
\* plan was active or the statement for the plan failed.
LinesPriced ==
    making.at = "store" =>
        \A r \in DOMAIN making.lines :
            making.lines[r] \in offered[r] \cup {Fallback : q \in making.failed \cap {r}}

\* What that rests on: the prices that hold now are among those that held,
\* and so is that of every line so far.
LinePriced(r) == making.lines[r] \in offered[r] \cup {Fallback : q \in making.failed \cap {r}}
InvoicingInv ==
    /\ DOMAIN offered = Resources
    /\ making # NoCall => \A r \in Resources : Active(plans, r) \subseteq offered[r]
    /\ making = NoCall \/ making.at \in {"types", "lines", "store"}
    /\ making.at = "lines" =>
         /\ making = [at |-> "lines", credits |-> making.credits, todo |-> making.todo,
                      lines |-> making.lines, failed |-> making.failed]
         /\ making.todo \subseteq Resources
    /\ making.at \in {"lines", "store"} =>
         DOMAIN making.lines \subseteq Resources /\ \A r \in DOMAIN making.lines : LinePriced(r)
==============================================================================
