----------------------------- MODULE Operators ------------------------------
(* The operators of the managed databases (operators/).  Each engine keeps *)
(* its own instances and backups; the manager keeps, in a map of its own,  *)
(* which engine an instance id belongs to.  Every method checks, sleeps    *)
(* (the simulated work) and then stores, so that methods overlap.          *)
(*                                                                         *)
(* A request is abstracted to the quotas it exceeds, the replicas it asks  *)
(* for and whether it wants backups.                                       *)
EXTENDS Naturals

CONSTANTS Clients, InstanceIds,
          Requests      \* the requests of provision and scale

VARIABLES instances,    \* the manager's map: instance id -> engine
          running,      \* <<engine, id>> -> the engine's instance
          kept,         \* the <<engine, id>> that have backups
          op,           \* per client: the method being executed
          contested     \* ids on which calls overlapped or engines differed

operatorVars == <<instances, running, kept, op, contested>>

Engines == {"postgres", "mysql", "redis"}

Request == [over : SUBSET {"cpu", "memory", "storage"}, replicas : Nat, backup : BOOLEAN]

OperatorsTypeOK ==
    /\ DOMAIN instances \subseteq InstanceIds
    /\ \A id \in DOMAIN instances : instances[id] \in Engines
    /\ DOMAIN running \subseteq Engines \X InstanceIds
    /\ kept \subseteq Engines \X InstanceIds
    /\ Requests \subseteq Request

Set(f, k, v) == [x \in DOMAIN f \cup {k} |-> IF x = k THEN v ELSE f[x]]
Unset(f, k)  == [x \in DOMAIN f \ {k} |-> f[x]]

NoOp == [do |-> "none"]

NoRequest == [over |-> {}, replicas |-> 0, backup |-> FALSE]

Init ==
    /\ instances = [id \in {} |-> id]
    /\ running = [k \in {} |-> k]
    /\ kept = {}
    /\ op = [c \in Clients |-> NoOp]
    /\ contested = {}

\* The quotas each engine's provision and scale compare the request with.
provision_postgres(r) == r.over = {}
provision_mysql(r)    == r.over \cap {"cpu", "memory"} = {}
provision_redis(r)    == "memory" \notin r.over

provisions(e, r) ==
    CASE e = "postgres" -> provision_postgres(r)
      [] e = "mysql"    -> provision_mysql(r)
      [] e = "redis"    -> provision_redis(r)

scales(e, r) ==
    CASE e = "postgres" -> r.over \cap {"cpu", "memory"} = {}
      [] e = "mysql"    -> "cpu" \notin r.over
      [] e = "redis"    -> "memory" \notin r.over

\* The instance an engine builds: one primary and the replicas asked for.
postgres_instance(r) ==
    [over |-> r.over, ha |-> r.replicas, ready |-> r.replicas + 1, backup |-> r.backup]
mysql_instance(r) ==
    [over |-> r.over, ha |-> r.replicas, ready |-> r.replicas + 1, backup |-> r.backup]

\* Standalone without high availability, behind sentinels with it.
redis_instance(r) ==
    [over |-> r.over, ha |-> r.replicas, backup |-> r.backup,
     ready |-> IF r.replicas = 0 THEN 1 ELSE r.replicas + 1]

instance(e, r) ==
    CASE e = "postgres" -> postgres_instance(r)
      [] e = "mysql"    -> mysql_instance(r)
      [] e = "redis"    -> redis_instance(r)

\* scale replaces CPU and memory and keeps the storage; PostgreSQL also takes
\* over the replicas, unless the request asks for a single one.
rescaled(i, r) == [i EXCEPT !.over = (r.over \ {"storage"}) \cup (i.over \cap {"storage"})]

scale_postgres(i, r) ==
    IF r.replicas > 1
    THEN [rescaled(i, r) EXCEPT !.ha = r.replicas - 1, !.ready = r.replicas]
    ELSE rescaled(i, r)
scale_mysql(i, r) == rescaled(i, r)
scale_redis(i, r) == rescaled(i, r)

Idle(c) == op[c].do = "none"

End(c) == op' = [op EXCEPT ![c] = NoOp]

Continue(c, do) == op' = [op EXCEPT ![c].do = do]

Busy(id) == {c \in Clients : ~Idle(c) /\ op[c].id = id}

\* A call on id begins; it is contested when another is under way or when the
\* id is known under another engine.
Begin(c, do, e, id, r) ==
    /\ op' = [op EXCEPT ![c] = [do |-> do, engine |-> e, id |-> id, req |-> r]]
    /\ contested' =
         IF Busy(id) # {} \/ \E k \in DOMAIN running : k[2] = id /\ k[1] # e
         THEN contested \cup {id} ELSE contested

\* OperatorManager::provision; MongoDB and ClickHouse have no operator.
Provision(c) ==
    /\ Idle(c)
    /\ \E e \in Engines, id \in InstanceIds, r \in Requests :
         /\ <<e, id>> \notin DOMAIN running
         /\ provisions(e, r)
         /\ Begin(c, "store", e, id, r)
    /\ UNCHANGED <<instances, running, kept>>

Store(c) ==
    /\ op[c].do = "store"
    /\ running' = Set(running, <<op[c].engine, op[c].id>>, instance(op[c].engine, op[c].req))
    /\ Continue(c, "track")
    /\ UNCHANGED <<instances, kept, contested>>

Track(c) ==
    /\ op[c].do = "track"
    /\ instances' = Set(instances, op[c].id, op[c].engine)
    /\ End(c)
    /\ UNCHANGED <<running, kept, contested>>

\* OperatorManager::deprovision: the engine the manager knows must have it.
Deprovision(c) ==
    /\ Idle(c)
    /\ \E id \in DOMAIN instances :
         LET e == instances[id]
         IN /\ <<e, id>> \in DOMAIN running
            /\ Begin(c, IF e = "postgres" /\ running[<<e, id>>].backup THEN "final" ELSE "remove",
                     e, id, NoRequest)
    /\ UNCHANGED <<instances, running, kept>>

\* PostgreSQL only: a last backup, whose failure is ignored.
FinalBackup(c) ==
    /\ op[c].do = "final"
    /\ Continue(c, IF <<op[c].engine, op[c].id>> \in DOMAIN running THEN "last" ELSE "remove")
    /\ UNCHANGED <<instances, running, kept, contested>>

Remove(c, e) ==
    /\ op[c].do = "remove"
    /\ op[c].engine = e
    /\ running' = Unset(running, <<e, op[c].id>>)
    /\ Continue(c, "purge")
    /\ UNCHANGED <<instances, kept, contested>>

deprovision_postgres(c) == Remove(c, "postgres")
deprovision_mysql(c)    == Remove(c, "mysql")
deprovision_redis(c)    == Remove(c, "redis")

\* The engine's backups of the instance go too, the last one included.
Purge(c) ==
    /\ op[c].do = "purge"
    /\ kept' = kept \ {<<op[c].engine, op[c].id>>}
    /\ Continue(c, "untrack")
    /\ UNCHANGED <<instances, running, contested>>

\* Mutant: the manager keeps the entry.
untrack_nothing(id) == instances

untrack(id) == Unset(instances, id)

Untrack(c) ==
    /\ op[c].do = "untrack"
    /\ instances' = untrack(op[c].id)
    /\ End(c)
    /\ UNCHANGED <<running, kept, contested>>

\* backup: the instance must exist, the backup is stored after the work.
Backup(c, e) ==
    /\ Idle(c)
    /\ \E id \in InstanceIds :
         <<e, id>> \in DOMAIN running /\ Begin(c, "push", e, id, NoRequest)
    /\ UNCHANGED <<instances, running, kept>>

backup_postgres(c) == Backup(c, "postgres")
backup_mysql(c)    == Backup(c, "mysql")
backup_redis(c)    == Backup(c, "redis")

Push(c) ==
    /\ op[c].do \in {"push", "last"}
    /\ kept' = kept \cup {<<op[c].engine, op[c].id>>}
    /\ IF op[c].do = "last" THEN Continue(c, "remove") ELSE End(c)
    /\ UNCHANGED <<instances, running, contested>>

\* scale: the instance may be gone when the work is done.
Scale(c) ==
    /\ Idle(c)
    /\ \E k \in DOMAIN running, r \in Requests :
         scales(k[1], r) /\ Begin(c, "scale", k[1], k[2], r)
    /\ UNCHANGED <<instances, running, kept>>

ScaleStore(c) ==
    /\ op[c].do = "scale"
    /\ LET k == <<op[c].engine, op[c].id>>
           r == op[c].req
       IN running' =
            IF k \notin DOMAIN running THEN running
            ELSE [running EXCEPT ![k] = CASE k[1] = "postgres" -> scale_postgres(@, r)
                                          [] k[1] = "mysql"    -> scale_mysql(@, r)
                                          [] k[1] = "redis"    -> scale_redis(@, r)]
    /\ End(c)
    /\ UNCHANGED <<instances, kept, contested>>

Next ==
    \E c \in Clients :
        \/ Provision(c) \/ Store(c) \/ Track(c)
        \/ Deprovision(c) \/ FinalBackup(c) \/ Purge(c) \/ Untrack(c)
        \/ deprovision_postgres(c) \/ deprovision_mysql(c) \/ deprovision_redis(c)
        \/ backup_postgres(c) \/ backup_mysql(c) \/ backup_redis(c) \/ Push(c)
        \/ Scale(c) \/ ScaleStore(c)

OperatorsSpec == Init /\ [][Next]_operatorVars
-----------------------------------------------------------------------------
\* The manager's map and the engines' maps are written apart, yet at rest
\* they agree on every instance, and no backup outlives its instance, unless
\* calls on the id overlapped or the id was given to two engines.
TrackedAtRest ==
    \A id \in InstanceIds \ contested : Busy(id) = {} =>
        \A e \in Engines :
            /\ <<e, id>> \in DOMAIN running <=> id \in DOMAIN instances /\ instances[id] = e
            /\ <<e, id>> \in kept => <<e, id>> \in DOMAIN running

\* What that rests on: how far the one call on an uncontested id has come
\* says what the three maps hold of it.
Held(id) == {e \in Engines : <<e, id>> \in DOMAIN running}
Saved(id) == {e \in Engines : <<e, id>> \in kept}
Known(id) == {e \in Engines : id \in DOMAIN instances /\ instances[id] = e}

Reached(id, do, e) ==
    CASE do = "store"   -> Held(id) = {}  /\ Known(id) = {}  /\ Saved(id) = {}
      [] do = "track"   -> Held(id) = {e} /\ Known(id) = {}  /\ Saved(id) = {}
      [] do = "purge"   -> Held(id) = {}  /\ Known(id) = {e} /\ Saved(id) \subseteq {e}
      [] do = "untrack" -> Held(id) = {}  /\ Known(id) = {e} /\ Saved(id) = {}
      [] OTHER          -> Held(id) = {e} /\ Known(id) = {e} /\ Saved(id) \subseteq {e}

Call == [do : {"store", "track", "final", "last", "remove", "purge", "untrack", "push", "scale"},
         engine : Engines, id : InstanceIds, req : Requests \cup {NoRequest}]

OperatorsInv ==
    /\ \A id \in DOMAIN instances : instances[id] \in Engines
    /\ DOMAIN running \subseteq Engines \X InstanceIds
    /\ op \in [Clients -> {NoOp} \cup Call]
    /\ \A id \in InstanceIds \ contested :
         /\ \A c, d \in Busy(id) : c = d
         /\ \A c \in Busy(id) : Reached(id, op[c].do, op[c].engine)
    /\ TrackedAtRest
=============================================================================
