-------------------------------- MODULE Api --------------------------------
(* The HTTP handlers of the control plane (api/handlers.rs) over the       *)
(* database layer (orm/mod.rs) and the map of live agents (state.rs).      *)
(*                                                                         *)
(* A statement is atomic, a handler is not: most of them read a row, then  *)
(* write the whole row back, and another handler may run in between.  The  *)
(* schema's foreign keys are enforced (PRAGMA foreign_keys=ON): a row is   *)
(* refused when the row it refers to does not exist, and a row that is     *)
(* referred to cannot be deleted.  The create handlers pass a null         *)
(* organization, which the insert functions bind as the empty string.      *)
EXTENDS Naturals, FiniteSets

CONSTANTS Clients,      \* concurrent HTTP requests
          Ids,          \* row and node identifiers (fresh UUIDs)
          Names,        \* names of secrets
          NoId          \* the empty string, no row's identifier

VARIABLES db,           \* the rows: a function from identifiers to rows
          agents,       \* AppState::agents: the nodes registered in memory
          sealed,       \* the names whose ciphertext the KMS client holds
          call,         \* what each request is doing
          used,         \* the identifiers drawn so far
          gone          \* those whose deletion was answered with success

vars == <<db, agents, sealed, call, used, gone>>

\* The tables whose rows belong to an organization.
Owned == {"apps", "nodes", "volumes", "domains", "managed_databases", "secrets"}

Tables == Owned \cup {"organizations", "deployments", "builds"}

\* What is kept of a row: its table, the row it refers to, its status, and
\* whether the API's type can be read back from it.
Statuses == {"creating", "ready", "pending", "provisioning", "free", "v1", "v2", "stopped",
             "running", "attached", "available", "verified", "draining"}

Row == [table : Tables, parent : Ids \cup {NoId}, status : Statuses, readable : BOOLEAN]

NewRow(t, parent, status) ==
    [table |-> t, parent |-> parent, status |-> status, readable |-> TRUE]

\* The row each insert function stores for the entity a create handler built.
insert_app       == NewRow("apps", NoId, "creating")
insert_node      == NewRow("nodes", NoId, "ready")
insert_volume    == NewRow("volumes", NoId, "creating")
insert_domain    == NewRow("domains", NoId, "pending")
insert_managed_database == NewRow("managed_databases", NoId, "provisioning")
insert_secret    == NewRow("secrets", NoId, "v1")
insert_organization     == NewRow("organizations", NoId, "free")
insert_build     == NewRow("builds", NoId, "pending")
insert_deployment(app)  == NewRow("deployments", app, "pending")

Idle == [op |-> "idle", id |-> NoId, row |-> insert_app]

\* The request is answered with a status, which is not kept: the deletions
\* answered with success are in `gone`.
Answer(c, status) == call' = [call EXCEPT ![c] = Idle]

\* The call goes on with another statement, holding the row it has read.
Goes(c, op, id, row) ==
    call' = [call EXCEPT ![c] = [op |-> op, id |-> id, row |-> row]]

\* The foreign keys an INSERT must satisfy.
Refers(row) ==
    \/ row.table = "organizations"
    \/ row.parent \in DOMAIN db

\* INSERT INTO: the database with the row, when the constraints accept it.
With(id, row) == [i \in DOMAIN db \cup {id} |-> IF i = id THEN row ELSE db[i]]

\* Mutant: a row that is no longer there is inserted again.
update_or_insert(id, row) == IF Refers(row) THEN With(id, row) ELSE db

\* UPDATE ... WHERE id: no row is changed when there is none, and the number
\* of rows is not looked at.
update(id, row) == IF id \in DOMAIN db THEN [db EXCEPT ![id] = row] ELSE db

\* Mutant: foreign keys are not enforced.
ReferencedUnchecked(id) == FALSE

\* DELETE ... WHERE id: refused while another row refers to it.
Referenced(id) == \E i \in DOMAIN db : db[i].parent = id

Without(id) == [i \in DOMAIN db \ {id} |-> db[i]]

In(t, id) == id \in DOMAIN db /\ db[id].table = t

\* find_by_id of table t: the row, absent, or a deserialization error.
Find(t, id) ==
    CASE ~In(t, id)          -> "none"
      [] ~db[id].readable    -> "error"
      [] OTHER               -> "row"

\* Identifiers have no meaning: the next one drawn stands for any fresh one.
Fresh == IF Ids \subseteq used THEN {} ELSE {CHOOSE i \in Ids : i \notin used}

Init ==
    /\ db = [i \in {} |-> insert_app]
    /\ agents = {}
    /\ sealed = {}
    /\ call = [c \in Clients |-> Idle]
    /\ used = {}
    /\ gone = {}

Free(c) == call[c].op = "idle"

\* A row of an organization, put into the database by its administrator.
Seed ==
    \E id \in Fresh, t \in Owned, org \in DOMAIN db :
        /\ db[org].table = "organizations"
        /\ db' = With(id, NewRow(t, org, "ready"))
        /\ used' = used \cup {id}
        /\ UNCHANGED <<agents, sealed, call, gone>>

\* The create handlers: validate, insert, then fetch the stored row for the
\* answer.
Create(c, row) ==
    /\ Free(c)
    /\ \/ Answer(c, "400") /\ UNCHANGED <<db, used>>
       \/ \E id \in Fresh :
            /\ used' = used \cup {id}
            /\ IF Refers(row)
               THEN db' = With(id, row) /\ Goes(c, "fetch", id, row)
               ELSE Answer(c, "500") /\ UNCHANGED db
    /\ UNCHANGED <<agents, gone>>

CreateApp(c)      == Create(c, insert_app) /\ UNCHANGED sealed
CreateVolume(c)   == Create(c, insert_volume) /\ UNCHANGED sealed
CreateDomain(c)   == Create(c, insert_domain) /\ UNCHANGED sealed
CreateDatabase(c) == Create(c, insert_managed_database) /\ UNCHANGED sealed

\* The value is encrypted first, and the KMS client keeps it under the name.
CreateSecret(c) ==
    /\ Create(c, insert_secret)
    /\ \E n \in Names : sealed' = sealed \cup {n}

\* The slug must be unique: a second organization of a name is refused.
CreateOrganization(c) ==
    /\ UNCHANGED sealed
    /\ \/ Create(c, insert_organization)
       \/ /\ Free(c)
          /\ \E i \in DOMAIN db : db[i].table = "organizations"
          /\ Answer(c, "500")
          /\ UNCHANGED <<db, agents, used, gone>>

\* github_webhook and gitlab_webhook insert a build of no app.
Webhook(c) ==
    /\ Free(c)
    /\ \E id \in Fresh :
         /\ used' = used \cup {id}
         /\ IF Refers(insert_build)
            THEN db' = With(id, insert_build) /\ Answer(c, "2xx")
            ELSE Answer(c, "500") /\ UNCHANGED db
    /\ UNCHANGED <<agents, sealed, gone>>

\* The last statement of the create handlers and of scale, attach, detach
\* and rotate: the row is read again for the answer.
Fetch(c) ==
    /\ call[c].op = "fetch"
    /\ Answer(c, IF Find(call[c].row.table, call[c].id) = "row" THEN "2xx" ELSE "500")
    /\ UNCHANGED <<db, agents, sealed, used, gone>>

\* A handler that reads one row of a table: found, missing, or not readable.
Found(t, id) ==
    CASE Find(t, id) = "none"  -> "404"
      [] Find(t, id) = "error" -> "500"
      [] OTHER                 -> "2xx"

Look(c, t) ==
    /\ Free(c)
    /\ \E id \in used : Answer(c, Found(t, id))
    /\ UNCHANGED <<db, agents, sealed, used, gone>>

get_app(c)          == Look(c, "apps")
get_volume(c)       == Look(c, "volumes")
get_domain(c)       == Look(c, "domains")
get_database(c)     == Look(c, "managed_databases")
get_secret(c)       == Look(c, "secrets")
get_build(c)        == Look(c, "builds")
get_organization(c) == Look(c, "organizations")

\* A live agent is answered from memory.
get_node(c) ==
    /\ Free(c)
    /\ \E id \in used : Answer(c, IF id \in agents THEN "2xx" ELSE Found("nodes", id))
    /\ UNCHANGED <<db, agents, sealed, used, gone>>

\* These find the row and promise work that nothing does.
restart_app(c)      == Look(c, "apps")
snapshot_volume(c)  == Look(c, "volumes")
backup_database(c)  == Look(c, "managed_databases")
restore_database(c) == Look(c, "managed_databases")
get_build_logs(c)   == Look(c, "builds")
cancel_build(c)     == Look(c, "builds")

\* find_all and query: one row that cannot be read fails the whole answer.
find_all(t) == \A i \in DOMAIN db : db[i].table = t => db[i].readable

List(c, t) ==
    /\ Free(c)
    /\ Answer(c, IF find_all(t) THEN "2xx" ELSE "500")
    /\ UNCHANGED <<db, agents, sealed, used, gone>>

list_apps(c)          == List(c, "apps")
list_volumes(c)       == List(c, "volumes")
list_domains(c)       == List(c, "domains")
list_databases(c)     == List(c, "managed_databases")
list_secrets(c)       == List(c, "secrets")
list_builds(c)        == List(c, "builds")
list_organizations(c) == List(c, "organizations")

\* list_nodes takes a failed query for an empty table, get_metrics a failed
\* count for zero; both answer whatever the database holds.
list_nodes(c)  == Free(c) /\ Answer(c, "2xx") /\ UNCHANGED <<db, agents, sealed, used, gone>>
get_metrics(c) == list_nodes(c)

Reads(c) ==
    \/ get_app(c) \/ get_volume(c) \/ get_domain(c) \/ get_database(c) \/ get_secret(c)
    \/ get_build(c) \/ get_organization(c) \/ get_node(c)
    \/ restart_app(c) \/ snapshot_volume(c) \/ backup_database(c) \/ restore_database(c)
    \/ get_build_logs(c) \/ cancel_build(c)
    \/ list_apps(c) \/ list_volumes(c) \/ list_domains(c) \/ list_databases(c)
    \/ list_secrets(c) \/ list_builds(c) \/ list_organizations(c)
    \/ list_nodes(c) \/ get_metrics(c)

\* The delete handlers.
Delete(c, t) ==
    /\ Free(c)
    /\ \E id \in used :
         \/ ~In(t, id) /\ Answer(c, "404") /\ UNCHANGED <<db, gone>>
         \/ In(t, id) /\ Referenced(id) /\ Answer(c, "500") /\ UNCHANGED <<db, gone>>
         \/ /\ In(t, id) /\ ~Referenced(id)
            /\ db' = Without(id)
            /\ gone' = gone \cup {id}
            /\ Answer(c, "2xx")
    /\ UNCHANGED <<agents, sealed, used>>

DeleteApp(c)      == Delete(c, "apps")
DeleteVolume(c)   == Delete(c, "volumes")
DeleteDomain(c)   == Delete(c, "domains")
DeleteDatabase(c) == Delete(c, "managed_databases")
DeleteSecret(c)   == Delete(c, "secrets")

\* The handlers that first verify that the row exists, and where they write.
TableOf ==
    [deploy |-> "apps", scale |-> "apps", stop |-> "apps", start |-> "apps",
     attach |-> "volumes", detach |-> "volumes", verify |-> "domains",
     rotate |-> "secrets"]

Verify(c, op) ==
    /\ Free(c)
    /\ \E id \in used :
         CASE Find(TableOf[op], id) = "none"  -> Answer(c, "404")
           [] Find(TableOf[op], id) = "error" -> Answer(c, "500")
           [] OTHER                           -> Goes(c, op, id, db[id])
    /\ UNCHANGED <<db, agents, sealed, used, gone>>

\* deploy_app: the deployment row of the app that was found.
Deploy(c) ==
    /\ call[c].op = "deploy"
    /\ \E id \in Fresh :
         /\ used' = used \cup {id}
         /\ IF call[c].id \in DOMAIN db
            THEN db' = With(id, insert_deployment(call[c].id)) /\ Answer(c, "2xx")
            ELSE UNCHANGED db /\ Answer(c, "500")
    /\ UNCHANGED <<agents, sealed, gone>>

\* The rows the handlers' UPDATEs write, from the row they have read.
scale_app(row)     == row
stop_app(row)      == [row EXCEPT !.status = "stopped"]
start_app(row)     == [row EXCEPT !.status = "running"]
attach_volume(row) == [row EXCEPT !.status = "attached"]
detach_volume(row) == [row EXCEPT !.status = "available"]
verify_domain(row) == [row EXCEPT !.status = "verified"]
rotate_secret(row) == [row EXCEPT !.status = "v2"]

Written(op, row) ==
    CASE op = "scale"  -> scale_app(row)
      [] op = "stop"   -> stop_app(row)
      [] op = "start"  -> start_app(row)
      [] op = "attach" -> attach_volume(row)
      [] op = "detach" -> detach_volume(row)
      [] op = "verify" -> verify_domain(row)
      [] op = "rotate" -> rotate_secret(row)

\* The UPDATE of scale, attach, detach and rotate, which then read the row
\* again, and of stop, start and verify, which answer.
Write(c) ==
    /\ call[c].op \in DOMAIN TableOf \ {"deploy"}
    /\ db' = update(call[c].id, Written(call[c].op, call[c].row))
    /\ IF call[c].op \in {"scale", "attach", "detach", "rotate"}
       THEN Goes(c, "fetch", call[c].id, call[c].row)
       ELSE Answer(c, "2xx")
    /\ IF call[c].op = "rotate"
       THEN \E n \in Names : sealed' = sealed \cup {n}
       ELSE UNCHANGED sealed
    /\ UNCHANGED <<agents, used, gone>>

\* register_node: the agent is kept in memory before the row is inserted,
\* and stays there when the insert fails.
RegisterNode(c) ==
    /\ Free(c)
    /\ \E id \in Fresh :
         /\ used' = used \cup {id}
         /\ agents' = agents \cup {id}
         /\ Goes(c, "register", id, insert_node)
    /\ UNCHANGED <<db, sealed, gone>>

RegisterRow(c) ==
    /\ call[c].op = "register"
    /\ IF Refers(call[c].row)
       THEN db' = With(call[c].id, call[c].row) /\ Answer(c, "2xx")
       ELSE UNCHANGED db /\ Answer(c, "500")
    /\ UNCHANGED <<agents, sealed, used, gone>>

\* deregister_node: memory first, then the row, which need not exist.
DeregisterNode(c) ==
    /\ Free(c)
    /\ \E id \in used :
         /\ agents' = agents \ {id}
         /\ Goes(c, "deregister", id, insert_node)
    /\ UNCHANGED <<db, sealed, used, gone>>

DeregisterRow(c) ==
    /\ call[c].op = "deregister"
    /\ db' = IF In("nodes", call[c].id) THEN Without(call[c].id) ELSE db
    /\ gone' = IF In("nodes", call[c].id) THEN gone \cup {call[c].id} ELSE gone
    /\ Answer(c, "2xx")
    /\ UNCHANGED <<agents, sealed, used>>

\* drain_node: a node in memory or in the database; the row it writes holds
\* a null capacity, which the API's type cannot be read from.
DrainNode(c) ==
    /\ Free(c)
    /\ \E id \in used :
         CASE id \in agents              -> Goes(c, "drain", id, insert_node)
           [] Find("nodes", id) = "none"  -> Answer(c, "404")
           [] Find("nodes", id) = "error" -> Answer(c, "500")
           [] OTHER                       -> Goes(c, "drain", id, db[id])
    /\ UNCHANGED <<db, agents, sealed, used, gone>>

DrainRow(c) ==
    /\ call[c].op = "drain"
    /\ db' = update(call[c].id, [call[c].row EXCEPT !.status = "draining",
                                                   !.readable = FALSE])
    /\ Answer(c, "2xx")
    /\ UNCHANGED <<agents, sealed, used, gone>>

\* A new process over the same database: what is in memory is lost, the KMS
\* client's ciphertexts included.
Restart ==
    /\ agents' = {}
    /\ sealed' = {}
    /\ call' = [c \in Clients |-> Idle]
    /\ UNCHANGED <<db, used, gone>>

Next ==
    \/ Seed \/ Restart
    \/ \E c \in Clients :
         \/ CreateApp(c) \/ CreateVolume(c) \/ CreateDomain(c)
         \/ CreateDatabase(c) \/ CreateSecret(c) \/ CreateOrganization(c)
         \/ Webhook(c)
         \/ Reads(c)
         \/ DeleteApp(c) \/ DeleteVolume(c) \/ DeleteDomain(c)
         \/ DeleteDatabase(c) \/ DeleteSecret(c)
         \/ \E op \in DOMAIN TableOf : Verify(c, op)
         \/ Fetch(c) \/ Deploy(c) \/ Write(c)
         \/ RegisterNode(c) \/ RegisterRow(c)
         \/ DeregisterNode(c) \/ DeregisterRow(c)
         \/ DrainNode(c) \/ DrainRow(c)

Spec == Init /\ [][Next]_vars
-----------------------------------------------------------------------------
TypeOK ==
    /\ DOMAIN db \subseteq used
    /\ \A i \in DOMAIN db : db[i] \in Row
    /\ agents \subseteq used /\ sealed \subseteq Names /\ gone \subseteq used /\ used \subseteq Ids
    /\ \A c \in Clients : call[c].row \in Row

\* A deletion that was answered with success is final: no handler that read
\* the row before it (scale, stop, attach, rotate, drain...) brings it back.
GoneStaysGone == \A i \in gone : i \notin DOMAIN db /\ i \notin agents

\* Whatever the order of deployments, deletions and creations, every row
\* refers to a row that exists: deploy_app finds the app and inserts the
\* deployment in two statements, and delete_app may run in between.
ReferencesHold ==
    \A i \in DOMAIN db : db[i].table # "organizations" => db[i].parent \in DOMAIN db

\* What both rest on.  An identifier is drawn once, so a row that is gone has
\* no second life; a row keeps its table and parent, and a call that holds a
\* copy of it has them right; what a row refers to is an organization or an
\* app, which are only deleted unreferenced; no row of an agent is accepted.
Belongs(row) ==
    \/ row.table = "organizations"
    \/ row.parent \in DOMAIN db /\ db[row.parent].table \in {"organizations", "apps"}

Copies == DOMAIN TableOf \cup {"drain"}

Calls == [op : Copies \cup {"idle", "fetch", "register", "deregister"},
          id : Ids \cup {NoId}, row : Row]

RowsOK ==
    /\ used \subseteq Ids /\ gone \subseteq used /\ agents \subseteq used
    /\ DOMAIN db \subseteq used
    /\ db \in [DOMAIN db -> Row]
    /\ agents \cap DOMAIN db = {} /\ agents \cap gone = {} /\ gone \cap DOMAIN db = {}
    /\ \A i \in DOMAIN db : Belongs(db[i])

CallOK(k) ==
    /\ k.op # "idle" => k.id \in used
    /\ k.op \in Copies /\ k.id \in DOMAIN db =>
         db[k.id].table = k.row.table /\ db[k.id].parent = k.row.parent
    /\ k.op = "deploy" => k.row.table = "apps"
    /\ k.op = "register" => k.row = insert_node

ApiInv ==
    /\ RowsOK
    /\ call \in [Clients -> Calls]
    /\ \A c \in Clients : CallOK(call[c])
=============================================================================
