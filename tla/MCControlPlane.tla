--------------------------- MODULE MCControlPlane ---------------------------
(* The services of the control plane.  They keep their state in maps of    *)
(* their own, so one run explores each by itself: `focus` says which one   *)
(* moves.  Two requests at once everywhere (three for certificates), and   *)
(* for each service the few identifiers that let two requests meet on one  *)
(* of them.                                                                *)
(*                                                                         *)
(* Rate limiter: one key and rules that replace each other, one of every   *)
(* action, one of them with a rate of zero.                                *)
(*                                                                         *)
(* Build queue: three builds, one of them urgent, two permits and a        *)
(* channel of one, so that the channel fills up and the permits run out.   *)
EXTENDS RateLimiter, Selection, TLC

CONSTANTS Ids, NoId, Names,                                     \* HTTP API, keys
          Probe, MaxPrefix, MaxVersions,                        \* key management
          Usernames, UserIds, Jtis, expiry_secs, refresh_expiry_secs, MaxClock,
          InstanceIds, Requests,                                \* operators
          BackupIds, BackedUp, Retentions, U32, MaxDay,         \* backups
          HealthTargets, success_threshold, failure_threshold, MaxChecks,
          CertClients, CertIds,                                 \* certificates
          Regions, Shared, Timeout, MaxPublished, MaxFailures,  \* federation
          Apps, MaxEvents,                                      \* webhooks
          Builds, Priority, ChannelSize, MaxConcurrent          \* build queue

ASSUME ControlPlaneAssumption ==
    /\ expiry_secs \in Nat /\ refresh_expiry_secs \in Nat
    /\ NoId \notin Ids
    /\ IsFiniteSet(Builds) /\ Priority \in [Builds -> Nat]
    /\ ChannelSize \in Nat \ {0} /\ MaxConcurrent \in Nat \ {0}
    /\ Timeout \in Nat /\ MaxFailures \in Nat
    /\ success_threshold \in Nat /\ failure_threshold \in Nat
    /\ U32 \in Nat \ {0} /\ Retentions \subseteq Nat

Rule(id, rate, burst, action, delay, enabled) ==
    [id |-> id, keys |-> Keys, rate |-> rate, burst |-> burst, action |-> action,
     delay |-> delay, enabled |-> enabled]

MCDefault == Rule("default", 2, 2, "Reject", 0, TRUE)
MCRules   == {Rule("a", 1, 1, "Throttle", 1, TRUE), Rule("a", 2, 1, "Delay", 0, TRUE),
              Rule("b", 0, 1, "Reject", 0, TRUE)}

MCRequests == {[over |-> {}, replicas |-> 0, backup |-> TRUE],
               [over |-> {"cpu"}, replicas |-> 2, backup |-> FALSE]}

MCPriority == [b \in Builds |-> IF b = CHOOSE c \in Builds : TRUE THEN 3 ELSE 1]

VARIABLES focus,
          db, agents, sealed, request, used, gone,
          users, usernames, blocklist, issued, login, drawn, revoked, clock,
          secrets, key_versions, kms,
          instances, running, kept, op, contested,
          backups, schedules, backup_task, day, latest, born, early, collected,
          targets, probe, former, counted,
          certs, cert_task, guard, writers, ended, raced,
          local_version, published, peers, peer_states, crossing, heard, missed,
          repositories, events, delivery, asked, in_force,
          pending, executing, completed, channel, permits, stage, cancelling

Rest == INSTANCE Api WITH call <- request
Au == INSTANCE Auth WITH MaxTime <- MaxClock, now <- clock
Km == INSTANCE Kms
Ops == INSTANCE Operators
Bk == INSTANCE Backups WITH Resources <- BackedUp
Hc == INSTANCE HealthChecks WITH Targets <- HealthTargets
Crt == INSTANCE CertService WITH Clients <- CertClients
Fed == INSTANCE Federation WITH Peers <- Regions, Resources <- Shared,
         MaxVersion <- MaxPublished
Hk == INSTANCE Webhooks
Bq == INSTANCE BuildQueue WITH running <- executing

restVars   == <<db, agents, sealed, request, used, gone>>
authVars   == <<users, usernames, blocklist, issued, login, drawn, revoked, clock>>
kmsVars    == <<secrets, key_versions, kms>>
opsVars    == <<instances, running, kept, op, contested>>
backupVars == <<backups, schedules, backup_task, day, latest, born, early, collected>>
healthVars == <<targets, probe, former, counted>>
certVars   == <<certs, cert_task, guard, writers, ended, raced>>
fedVars    == <<local_version, published, peers, peer_states, crossing, heard, missed>>
hookVars   == <<repositories, events, delivery, asked, in_force>>
queueVars  == <<pending, executing, completed, channel, permits, stage, cancelling>>

Parts == {"rate", "api", "auth", "kms", "operators", "backups", "health",
          "certificates", "federation", "webhooks", "builds"}

CPInit ==
    /\ focus \in Parts
    /\ Init /\ Rest!Init /\ Au!Init /\ Km!Init /\ Ops!Init
    /\ Bk!Init /\ Hc!Init /\ Crt!Init /\ Fed!Init /\ Hk!Init /\ Bq!Init

\* The parts that are not in focus rest.
Still(part, v) == focus # part => UNCHANGED v

CPNext ==
    /\ UNCHANGED focus
    /\ \/ focus = "rate" /\ Next
       \/ focus = "api" /\ Rest!Next
       \/ focus = "auth" /\ Au!Next
       \/ focus = "kms" /\ Km!Next
       \/ focus = "operators" /\ Ops!Next
       \/ focus = "backups" /\ Bk!Next
       \/ focus = "health" /\ Hc!Next
       \/ focus = "certificates" /\ Crt!Next
       \/ focus = "federation" /\ Fed!Next
       \/ focus = "webhooks" /\ Hk!Next
       \/ focus = "builds" /\ Bq!Next
    /\ Still("rate", vars) /\ Still("api", restVars) /\ Still("auth", authVars)
    /\ Still("kms", kmsVars) /\ Still("operators", opsVars)
    /\ Still("backups", backupVars) /\ Still("health", healthVars)
    /\ Still("certificates", certVars) /\ Still("federation", fedVars)
    /\ Still("webhooks", hookVars) /\ Still("builds", queueVars)

cpVars == <<focus, vars, restVars, authVars, kmsVars, opsVars, backupVars,
            healthVars, certVars, fedVars, hookVars, queueVars>>

CPSpec == CPInit /\ [][CPNext]_cpVars

\* The build queue alone, with the fairness its tasks have.
QueueInit == CPInit /\ focus = "builds"
QueueSpec == QueueInit /\ [][CPNext]_cpVars /\ Bq!Fairness

Symmetry == Permutations(Clients)

\* Types of all the services.
CPTypeOK ==
    /\ TypeOK /\ Rest!TypeOK /\ Au!AuthTypeOK /\ Km!KmsTypeOK /\ Ops!OperatorsTypeOK
    /\ Bk!BackupsTypeOK /\ Hc!HealthTypeOK /\ Crt!CertsTypeOK /\ Fed!FederationTypeOK
    /\ Hk!HooksTypeOK /\ Bq!TypeOK

\* HTTP API: what a handler reported deleted stays deleted, although other
\* handlers write back whole rows they read before.
GoneStaysGone == Rest!GoneStaysGone

\* HTTP API: no row refers to a row that is gone.
ReferencesHold == Rest!ReferencesHold

\* Authentication: a logged-out token opens nothing again.
RevokedRefused == Au!RevokedRefused

\* Key management: one key is active, the newest, through overlapping
\* rotations.
OneActiveKey == Km!OneActiveKey

\* Operators: at rest, the manager's map and the engines' maps agree unless
\* calls on one instance overlapped.
TrackedAtRest == Ops!TrackedAtRest

\* Backups: the collector chooses only backups past a schedule's retention.
GcSparesFresh == Bk!GcSparesFresh

\* Health checks: a target's status is the hysteresis of its results.
StatusIsHysteresis == Hc!StatusIsHysteresis

\* Certificates: a revocation is final for every renewal that begins later.
RevokedStays == Crt!RevokedStays

\* Gossip: a peer is declared dead only after three silent checks in a row.
DeadOnlyIfSilent == Fed!DeadOnlyIfSilent

\* Webhooks: a delivery builds at most once, for a registration in force.
BuildsRegistered == Hk!BuildsRegistered

\* Build queue: the lists, the permits and the tasks of the builds agree,
\* whatever order submit, cancel and the tasks take the locks in.
QueueConsistent == Bq!QueueConsistent

\* Build queue: every build that is submitted comes to its end, however full
\* the channel and however scarce the permits.
EveryBuildFinishes == Bq!EveryBuildFinishes
=============================================================================
