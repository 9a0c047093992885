------------------------------ MODULE Firewall ------------------------------
(* The data plane of a node as it is built by default, without the eBPF    *)
(* programs (ebpf/mod.rs, firewall.rs, qos.rs): blocklist and rate limits  *)
(* are tables behind a mutex each, and every change of one is followed by  *)
(* iptables commands outside of it, whose failure nobody looks at.         *)
(* iptables -I adds one rule more, -D removes one.  The traffic shapers    *)
(* are a table by handle, and no shaping; nothing joins the two.           *)
EXTENDS Naturals, FiniteSets

CONSTANTS Clients,      \* concurrent calls
          Addresses,
          MaxRules,     \* bound on the rules of an address in a chain
          Rates,        \* bits per second; 0 is the rate of an impairment
          MaxHandles    \* bound on the handles drawn

VARIABLES blocked_ips,  \* the blocklist
          rate_limits,  \* the addresses with a configured limit
          rules,        \* chain -> address -> number of its DROP rules
          limits,       \* the addresses with a hashlimit rule
          ranges,       \* there is a rule of block_cidr
          attached,     \* the flag
          chains,       \* [made, jumps]: the chain SHELLWEGO-FW, jumps to it
          wall,         \* per client: the call being executed
          disturbed     \* addresses whose calls overlapped, or a command failed

VARIABLES shapers,      \* handle -> its rate
          next_handle

firewallVars == <<blocked_ips, rate_limits, rules, limits, ranges, attached, chains,
                  wall, disturbed>>

Idle == [do |-> "none"]
Chains == {"INPUT", "FORWARD"}

FirewallTypeOK ==
    /\ blocked_ips \subseteq Addresses /\ rate_limits \subseteq Addresses
    /\ rules \in [Chains -> [Addresses -> 0..MaxRules]]
    /\ limits \subseteq Addresses

\* XdpFirewall::new
Init ==
    /\ blocked_ips = {} /\ rate_limits = {} /\ disturbed = {}
    /\ rules = [k \in Chains |-> [a \in Addresses |-> 0]]
    /\ limits = {} /\ ranges = FALSE
    /\ attached = FALSE /\ chains = [made |-> FALSE, jumps |-> 0]
    /\ wall = [c \in Clients |-> Idle]

\* The feature is not built: is_ebpf_loaded is false, so that attach_firewall,
\* apply_qos and detach_all do nothing.
is_ebpf_loaded == FALSE

Goes(c, t) == wall' = [wall EXCEPT ![c] = t]
At(c, step) == wall[c].do = step
ListsSame == UNCHANGED <<blocked_ips, rate_limits>>
RulesSame == UNCHANGED <<rules, limits, ranges>>
XdpSame   == UNCHANGED <<attached, chains>>

\* Another call that adds or removes rules of the address is on its way.
Overlapped(c, a) == \E d \in Clients \ {c} : At(d, "block") /\ wall[d].ip = a

\* block_ip, block_ip_with_reason and unblock_ip: first the list ...
Changes(c, a, add) ==
    /\ At(c, "none")
    /\ blocked_ips' = IF add THEN blocked_ips \cup {a} ELSE blocked_ips \ {a}
    /\ Goes(c, [do |-> "block", ip |-> a, add |-> add, todo |-> Chains])
    /\ disturbed' = IF Overlapped(c, a) THEN disturbed \cup {a}
                    ELSE IF add THEN disturbed \ {a} ELSE disturbed
    /\ RulesSame /\ XdpSame /\ UNCHANGED rate_limits
block_ip_with_reason(c) == \E a \in Addresses : Changes(c, a, TRUE)
unblock_ip(c)           == \E a \in Addresses : Changes(c, a, FALSE)

\* The chains that are served, in this order.
NextChain(todo) == IF "INPUT" \in todo THEN "INPUT" ELSE "FORWARD"

\* Mutant: the chain of forwarded packets is forgotten.
chains_left_none(todo) == {}

chains_left(todo) == todo \ {NextChain(todo)}

\* ... then one command for each chain.
apply_iptables_block(c) ==
    LET t == wall[c]  k == NextChain(t.todo)  left == chains_left(t.todo) IN
    /\ At(c, "block")
    /\ \/ /\ ~t.add \/ rules[k][t.ip] < MaxRules
          /\ rules' = [rules EXCEPT ![k][t.ip] = IF t.add THEN @ + 1 ELSE IF @ = 0 THEN 0 ELSE @ - 1]
          /\ UNCHANGED disturbed
       \/ disturbed' = disturbed \cup {t.ip} /\ UNCHANGED rules
    /\ Goes(c, IF left = {} THEN Idle ELSE [t EXCEPT !.todo = left])
    /\ ListsSame /\ XdpSame /\ UNCHANGED <<limits, ranges>>

\* add_rate_limit: a further rule at every call.
add_rate_limit(c) ==
    /\ At(c, "none")
    /\ \E a \in Addresses :
         /\ rate_limits' = rate_limits \cup {a}
         /\ Goes(c, [do |-> "limit", ip |-> a])
    /\ RulesSame /\ XdpSame /\ UNCHANGED <<blocked_ips, disturbed>>
apply_iptables_rate_limit(c) ==
    /\ At(c, "limit")
    /\ limits' \in {limits, limits \cup {wall[c].ip}}
    /\ Goes(c, Idle)
    /\ ListsSame /\ XdpSame /\ UNCHANGED <<rules, ranges, disturbed>>

\* remove_rate_limit: the rule it asks iptables to delete has a rate of one
\* and no burst, so that none of the rules above is the one.
remove_iptables_rate_limit(a) == UNCHANGED limits
remove_rate_limit(c) ==
    /\ At(c, "none")
    /\ \E a \in rate_limits :
         rate_limits' = rate_limits \ {a} /\ remove_iptables_rate_limit(a)
    /\ XdpSame /\ UNCHANGED <<blocked_ips, rules, ranges, wall, disturbed>>

\* block_cidr: one rule for the range, in one chain, and no entry.
expand_and_block_cidr(c) ==
    /\ At(c, "none") /\ ~ranges
    /\ ranges' = TRUE
    /\ ListsSame /\ XdpSame /\ UNCHANGED <<rules, limits, wall, disturbed>>

\* The list is emptied, the rules stay.
clear_blocklist(c) ==
    /\ At(c, "none") /\ blocked_ips # {}
    /\ blocked_ips' = {}
    /\ RulesSame /\ XdpSame /\ UNCHANGED <<rate_limits, wall, disturbed>>

\* attach: checked first, set last; in between the chain and its jumps.
attach(c) ==
    /\ At(c, "none") /\ ~attached
    /\ Goes(c, [do |-> "attach"])
    /\ ListsSame /\ RulesSame /\ XdpSame /\ UNCHANGED disturbed
apply_iptables_chains(c) ==
    /\ At(c, "attach") /\ ~is_ebpf_loaded
    /\ chains' = [made |-> TRUE, jumps |-> IF chains.jumps < MaxRules THEN chains.jumps + 1 ELSE chains.jumps]
    /\ attached' = TRUE
    /\ Goes(c, Idle)
    /\ ListsSame /\ RulesSame /\ UNCHANGED disturbed

\* detach: one jump is removed, and the chain only if it was the last.
detach(c) ==
    /\ At(c, "none") /\ attached
    /\ Goes(c, [do |-> "detach"])
    /\ ListsSame /\ RulesSame /\ XdpSame /\ UNCHANGED disturbed
cleanup_iptables_chains(c) ==
    LET jumps == IF chains.jumps = 0 THEN 0 ELSE chains.jumps - 1 IN
    /\ At(c, "detach")
    /\ chains' = [made |-> chains.made /\ jumps # 0, jumps |-> jumps]
    /\ attached' = FALSE
    /\ Goes(c, Idle)
    /\ ListsSame /\ RulesSame /\ UNCHANGED disturbed

Next ==
    \E c \in Clients :
        \/ block_ip_with_reason(c) \/ unblock_ip(c) \/ apply_iptables_block(c)
        \/ add_rate_limit(c) \/ apply_iptables_rate_limit(c) \/ remove_rate_limit(c)
        \/ expand_and_block_cidr(c) \/ clear_blocklist(c)
        \/ attach(c) \/ apply_iptables_chains(c) \/ detach(c) \/ cleanup_iptables_chains(c)

FirewallSpec == Init /\ [][Next]_firewallVars

\* The traffic shapers.
qosVars == <<shapers, next_handle>>

QosTypeOK ==
    /\ next_handle \in 1..(MaxHandles + 1)
    /\ DOMAIN shapers \subseteq 1..(next_handle - 1)
    /\ \A h \in DOMAIN shapers : shapers[h] \in Rates \cup {0}

QosInit == shapers = [h \in {} |-> h] /\ next_handle = 1

\* The handle is drawn from an atomic counter.
Added(rate) ==
    /\ next_handle <= MaxHandles
    /\ shapers' = [h \in DOMAIN shapers \cup {next_handle} |-> IF h = next_handle THEN rate ELSE shapers[h]]
    /\ next_handle' = next_handle + 1

limit_bandwidth == \E rate \in Rates : Added(rate)
add_impairment  == Added(0)

\* set_priority refuses a DSCP above 63 and otherwise does nothing; an
\* unknown handle is an error here ...
update_rate ==
    /\ \E h \in DOMAIN shapers, rate \in Rates : shapers' = [shapers EXCEPT ![h] = rate]
    /\ UNCHANGED next_handle

\* ... and a warning here.
remove_shaper ==
    /\ \E h \in DOMAIN shapers : shapers' = [g \in DOMAIN shapers \ {h} |-> shapers[g]]
    /\ UNCHANGED next_handle

QosNext == limit_bandwidth \/ add_impairment \/ update_rate \/ remove_shaper
-----------------------------------------------------------------------------
\* An address of the blocklist whose block has returned is dropped by both
\* chains, whatever was blocked, unblocked or cleared before, unless another
\* call changed the same address at the same time or a command failed.
BlockedIsDropped ==
    \A a \in blocked_ips \ disturbed :
        \/ \E c \in Clients : At(c, "block") /\ wall[c].ip = a
        \/ \A k \in Chains : rules[k][a] > 0

\* What is true of an address that no two calls changed at once and no
\* command failed for: at most one call is changing it, a block has added the
\* rules of the chains it has done with, and an unblock has taken the address
\* off the list before.
Blocking(a) == {c \in Clients : At(c, "block") /\ wall[c].ip = a}
Orderly(a) ==
    /\ \A c, d \in Blocking(a) : c = d
    /\ \A c \in Blocking(a) :
         IF wall[c].add THEN \A k \in Chains \ wall[c].todo : rules[k][a] > 0
         ELSE a \notin blocked_ips
    /\ a \in blocked_ips => Blocking(a) # {} \/ \A k \in Chains : rules[k][a] > 0

FirewallInv ==
    /\ rules \in [Chains -> [Addresses -> Nat]]
    /\ blocked_ips \subseteq Addresses
    /\ DOMAIN wall = Clients
    /\ \A c \in Clients : At(c, "block") =>
         wall[c] \in [do : {"block"}, ip : Addresses, add : BOOLEAN, todo : {Chains, {"FORWARD"}}]
    /\ \A a \in Addresses \ disturbed : Orderly(a)
=============================================================================
