---------------------------- MODULE HealthChecks ----------------------------
(* The health check service (services/health_check.rs): targets with their *)
(* counters behind a lock that is not held while a check is made.  Checks  *)
(* of one target may overlap, their results are then counted in the order  *)
(* in which they arrive.  A check answers healthy or unhealthy; nothing    *)
(* produces the statuses degraded and unknown.                             *)
EXTENDS Naturals, Sequences

CONSTANTS Clients, Targets,
          success_threshold, failure_threshold,
          MaxChecks     \* bound on the checks counted per target

VARIABLES targets,      \* id -> state of the target
          probe,        \* per client: the check being made
          former,       \* identifiers drawn so far
          counted       \* id -> the results counted so far, in order

healthVars == <<targets, probe, former, counted>>

Statuses == {"unknown", "healthy", "unhealthy"}

HealthTypeOK ==
    /\ DOMAIN targets \subseteq former
    /\ \A t \in DOMAIN targets :
         targets[t] \in [status : Statuses, failures : Nat, successes : Nat]

NoProbe == [target |-> "none", rest |-> {}]

Init ==
    /\ targets = [t \in {} |-> t]
    /\ probe = [c \in Clients |-> NoProbe]
    /\ former = {}
    /\ counted = [t \in Targets |-> <<>>]

\* Identifiers have no meaning: the next one drawn stands for any fresh one.
Fresh == IF Targets \subseteq former THEN {}
         ELSE {CHOOSE t \in Targets : t \notin former}

register_target ==
    \E t \in Fresh :
        /\ targets' = [x \in DOMAIN targets \cup {t} |->
                         IF x = t THEN [status |-> "unknown", failures |-> 0, successes |-> 0]
                         ELSE targets[x]]
        /\ former' = former \cup {t}
        /\ UNCHANGED <<probe, counted>>

deregister_target ==
    \E t \in DOMAIN targets :
        /\ targets' = [x \in DOMAIN targets \ {t} |-> targets[x]]
        /\ UNCHANGED <<probe, former, counted>>

\* check_target and check_all, which reads the keys once and then checks
\* them one after the other.
CheckTarget(c) ==
    /\ probe[c] = NoProbe
    /\ \E t \in DOMAIN targets : probe' = [probe EXCEPT ![c] = [target |-> t, rest |-> {}]]
    /\ UNCHANGED <<targets, former, counted>>

CheckAll(c) ==
    /\ probe[c] = NoProbe
    /\ DOMAIN targets # {}
    /\ probe' = [probe EXCEPT ![c] = [target |-> "none", rest |-> DOMAIN targets]]
    /\ UNCHANGED <<targets, former, counted>>

\* The next target of check_all; one that was deregistered is passed over.
CheckNext(c) ==
    /\ probe[c].target = "none"
    /\ \E t \in probe[c].rest :
         probe' = [probe EXCEPT ![c] =
                     [target |-> IF t \in DOMAIN targets THEN t ELSE "none",
                      rest |-> probe[c].rest \ {t}]]
    /\ UNCHANGED <<targets, former, counted>>

\* What perform_check may return, by the kind of check: HTTP and TCP checks
\* answer either way (a refused connection, a timeout, another status or
\* body), the simulated exec and gRPC checks always pass.
check_http == {"healthy", "unhealthy"}
check_tcp  == {"healthy", "unhealthy"}
check_exec == {"healthy"}
check_grpc == {"healthy"}

perform_check == check_http \cup check_tcp \cup check_exec \cup check_grpc

\* Mutant: a success does not interrupt a run of failures.
update_state_kept(s, result) ==
    IF result = "healthy"
    THEN [s EXCEPT !.successes = @ + 1,
                   !.status = IF s.successes + 1 >= success_threshold THEN "healthy" ELSE @]
    ELSE [s EXCEPT !.failures = @ + 1, !.successes = 0,
                   !.status = IF s.failures + 1 >= failure_threshold THEN "unhealthy" ELSE @]

update_state(s, result) ==
    IF result = "healthy"
    THEN [successes |-> s.successes + 1, failures |-> 0,
          status |-> IF s.successes + 1 >= success_threshold THEN "healthy" ELSE s.status]
    ELSE [failures |-> s.failures + 1, successes |-> 0,
          status |-> IF s.failures + 1 >= failure_threshold THEN "unhealthy" ELSE s.status]

\* The result arrives; the target may have been deregistered meanwhile.
CheckDone(c) ==
    /\ probe[c].target # "none"
    /\ LET t == probe[c].target
       IN \E result \in perform_check :
            IF t \in DOMAIN targets
            THEN /\ Len(counted[t]) < MaxChecks
                 /\ targets' = [targets EXCEPT ![t] = update_state(@, result)]
                 /\ counted' = [counted EXCEPT ![t] = Append(@, result)]
            ELSE UNCHANGED <<targets, counted>>
    /\ probe' = [probe EXCEPT ![c].target = "none"]
    /\ UNCHANGED former

Next ==
    \/ register_target \/ deregister_target
    \/ \E c \in Clients : CheckTarget(c) \/ CheckAll(c) \/ CheckNext(c) \/ CheckDone(c)

HealthSpec == Init /\ [][Next]_healthVars
-----------------------------------------------------------------------------
\* Result i of h is an r, and so are the n - 1 before it.
Run(h, i, n, r) == i >= n /\ h[i] = r /\ \A j \in (i - n + 1)..i : h[j] = r

\* Where h reaches n results r in a row.
Turns(h, n, r) == {i \in 1..Len(h) : Run(h, i, n, r)}

\* Healthy after success_threshold successes in a row, unhealthy after
\* failure_threshold failures in a row, and whichever came last.
Verdict(h) ==
    LET goods == Turns(h, success_threshold, "healthy")
        bads  == Turns(h, failure_threshold, "unhealthy")
    IN CASE \E i \in goods : \A j \in bads : j < i -> "healthy"
         [] \E i \in bads : \A j \in goods : j < i -> "unhealthy"
         [] OTHER -> "unknown"

\* The status is what the whole history of counted results says, although
\* the service keeps two counters of it.
StatusIsHysteresis == \A t \in DOMAIN targets : targets[t].status = Verdict(counted[t])

\* n is the number of results r that h ends with.
EndsWith(h, n, r) ==
    /\ n <= Len(h)
    /\ \A j \in (Len(h) - n + 1)..Len(h) : h[j] = r
    /\ n < Len(h) => h[Len(h) - n] # r

\* What that rests on: the two counters measure the run the history ends with.
HealthInv ==
    /\ StatusIsHysteresis
    /\ DOMAIN targets \subseteq former /\ former \subseteq Targets
    /\ counted \in [Targets -> Seq({"healthy", "unhealthy"})]
    /\ \A t \in Targets \ former : counted[t] = <<>>
    /\ \A t \in DOMAIN targets :
         /\ targets[t] \in [status : Statuses, failures : Nat, successes : Nat]
         /\ EndsWith(counted[t], targets[t].successes, "healthy")
         /\ EndsWith(counted[t], targets[t].failures, "unhealthy")
=============================================================================
