---------------------------- MODULE EdgeRouting ----------------------------
(***************************************************************************)
(* The edge proxy's routing: the route table (router.rs), the connections  *)
(* and requests that use it (lib.rs) and the choice of an upstream         *)
(* (proxy.rs).  The pool of idle connections is in Proxy; counters that    *)
(* are only reported are left out.                                         *)
(*                                                                         *)
(* A request holds the router's read guard from the match until the        *)
(* upstream has answered; add_route, remove_route and reload take the      *)
(* write guard.  tokio's RwLock serves its waiters in order.               *)
(*                                                                         *)
(* A route is its id, priority, host matchers, the requests its other      *)
(* matchers accept, its upstreams and strategy, and whether validate_route *)
(* accepts it.                                                             *)
(***************************************************************************)
EXTENDS Integers, Sequences, SequencesExt, Selection

CONSTANTS Clients,    \* connections open at once
          Admins,     \* callers of add_route, remove_route and reload
          Routes,     \* the routes that may be added
          Configs,    \* sequences of routes that reload may bring
          Hosts,      \* host names of requests
          Requests,   \* requests, records with a host
          Wildcards,  \* host patterns that start with "*."
          Covers,     \* pairs of a wildcard and a host it matches
          RoundRobin, \* a common multiple of the numbers of healthy upstreams
          MaxOps      \* bound on the changes of the table

ASSUME RoutingAssumption ==
    /\ MaxOps \in Nat /\ RoundRobin \in Nat \ {0}
    /\ IsFiniteSet(Clients) /\ Clients \cap Admins = {} /\ Configs \subseteq Seq(Routes)
    /\ \A r \in Routes : IsFiniteSet(r.hosts) /\ r.priority \in Int
    /\ \A q \in Requests : q.host \in Hosts

VARIABLES table,      \* the Router: routes and its three indexes
          queue,      \* waiters of the router's lock, in order
          admin,      \* the change each admin waits to make
          conn,       \* state of each connection
          rr,         \* round-robin counter of the pool
          active,     \* ProxyStats::active_connections
          accepting,  \* the accept loop has not been shut down
          ops         \* changes submitted so far

vars == <<table, queue, admin, conn, rr, active, accepting, ops>>

Ids    == {r.id : r \in Routes}
Idle   == [op |-> "none"]
Closed == [at |-> "closed"]
Open   == [at |-> "open"]

-----------------------------------------------------------------------------
\* The route table.
EmptyTable ==
    [routes |-> [id \in {} |-> Idle], host_index |-> [h \in Hosts |-> <<>>],
     wildcard_hosts |-> <<>>, priorities |-> <<>>]

\* A stable sort in descending order puts the new entry behind its equals.
ByPriority(list, entry) ==
    Retain(list, {e \in ToSet(list) : e[1] >= entry[1]}) \o <<entry>>
        \o Retain(list, {e \in ToSet(list) : e[1] < entry[1]})

\* add_route of a valid route; one with the same id is replaced in `routes`
\* and keeps its index entries.
AddRoute(t, r) ==
    [routes |-> [id \in DOMAIN t.routes \cup {r.id} |-> IF id = r.id THEN r ELSE t.routes[id]],
     host_index |-> [h \in Hosts |-> IF h \in r.hosts THEN Append(t.host_index[h], r.id)
                                     ELSE t.host_index[h]],
     wildcard_hosts |-> t.wildcard_hosts
         \o SetToSeq({<<p, r.id>> : p \in r.hosts \cap Wildcards}),
     priorities |-> ByPriority(t.priorities, <<r.priority, r.id>>)]

\* Mutant: the entries of a host go for every route, as those of a wildcard.
RemoveRouteByHost(t, id) ==
    LET r == t.routes[id]
    IN  [routes |-> [i \in DOMAIN t.routes \ {id} |-> t.routes[i]],
         host_index |-> [h \in Hosts |-> IF h \in r.hosts THEN <<>> ELSE t.host_index[h]],
         wildcard_hosts |-> Retain(t.wildcard_hosts, (Wildcards \ r.hosts) \X Ids),
         priorities |-> Retain(t.priorities, Int \X (Ids \ {id}))]

\* remove_route; the wildcard entries go by pattern, whoever's they are.
RemoveRoute(t, id) ==
    LET r == t.routes[id]
    IN  [routes |-> [i \in DOMAIN t.routes \ {id} |-> t.routes[i]],
         host_index |-> [h \in Hosts |-> IF h \in r.hosts
                                         THEN Retain(t.host_index[h], Ids \ {id})
                                         ELSE t.host_index[h]],
         wildcard_hosts |-> Retain(t.wildcard_hosts, (Wildcards \ r.hosts) \X Ids),
         priorities |-> Retain(t.priorities, Int \X (Ids \ {id}))]

\* The table with the routes added one after the other.
Filled(routes) ==
    LET fill[n \in 0 .. Len(routes)] ==
            IF n = 0 THEN EmptyTable ELSE AddRoute(fill[n - 1], routes[n])
    IN  fill[Len(routes)]

\* reload: the table is emptied and filled up to the first invalid route.
Loaded(config) ==
    LET bad  == {i \in DOMAIN config : ~config[i].valid}
        good == IF bad = {} THEN config ELSE SubSeq(config, 1, Min(bad) - 1)
    IN  Filled(good)

MatchesHost(pattern, host) == pattern = host \/ <<pattern, host>> \in Covers

MatchesRoute(r, q) == q \in r.accepts /\ \A p \in r.hosts : MatchesHost(p, q.host)

Takes(t, id, q) == id \in DOMAIN t.routes /\ MatchesRoute(t.routes[id], q)

\* match_request: the first route that takes the request, of those with its
\* exact host in the order they were added, then those with a wildcard in
\* that order, then those without a host by priority; none or one.
MatchRequest(t, q) ==
    LET named == t.host_index[q.host]
        exact == {i \in DOMAIN named : Takes(t, named[i], q)}
        wild  == {i \in DOMAIN t.wildcard_hosts :
                     /\ <<t.wildcard_hosts[i][1], q.host>> \in Covers
                     /\ Takes(t, t.wildcard_hosts[i][2], q)}
        catch == {i \in DOMAIN t.priorities :
                     /\ Takes(t, t.priorities[i][2], q)
                     /\ t.routes[t.priorities[i][2]].hosts = {}}
    IN  IF exact # {} THEN {named[Min(exact)]}
        ELSE IF wild # {} THEN {t.wildcard_hosts[Min(wild)][2]}
        ELSE IF catch # {} THEN {t.priorities[Min(catch)][2]}
        ELSE {}

\* select_upstream: the candidates for the next request on the route.  A
\* weighted round robin is a plain one, the hash of the address is constant
\* (as with LeastConnections, the first is taken: nothing is ever counted as
\* active).
Healthy(r) == SelectSeq(r.upstreams, LAMBDA u : u.healthy)

Selected(r) ==
    LET up == Healthy(r)
    IN  CASE r.strategy = "RoundRobin" -> {up[(rr % Len(up)) + 1]}
          [] r.strategy = "LeastConnections" -> {up[1]}
          [] r.strategy = "Random" -> ToSet(up)

-----------------------------------------------------------------------------
Init ==
    /\ table = EmptyTable
    /\ queue = <<>>
    /\ admin = [a \in Admins |-> Idle]
    /\ conn = [c \in Clients |-> Closed]
    /\ rr = 0
    /\ active = 0
    /\ accepting = TRUE
    /\ ops = 0

\* The accept loop hands a connection to a task of its own.
Accept(c) ==
    /\ accepting /\ conn[c] = Closed
    /\ conn' = [conn EXCEPT ![c] = [at |-> "handshake"]]
    /\ active' = active + 1
    /\ UNCHANGED <<table, queue, admin, rr, accepting, ops>>

HandshakeDone(c) ==
    /\ conn[c].at = "handshake"
    /\ conn' = [conn EXCEPT ![c] = Open]
    /\ UNCHANGED <<table, queue, admin, rr, active, accepting, ops>>

HandshakeFails(c) ==
    /\ conn[c].at = "handshake"
    /\ conn' = [conn EXCEPT ![c] = Closed]
    /\ active' = active - 1
    /\ UNCHANGED <<table, queue, admin, rr, accepting, ops>>

\* handle_https_request asks for the read guard.
Request(c, q) ==
    /\ conn[c] = Open
    /\ conn' = [conn EXCEPT ![c] = [at |-> "queued", request |-> q]]
    /\ queue' = Append(queue, c)
    /\ UNCHANGED <<table, admin, rr, active, accepting, ops>>

\* The guard is granted and the request matched.  Without a route, or a
\* healthy upstream on it, the answer is immediate and the guard is gone.
Route(c) ==
    LET served == {id \in MatchRequest(table, conn[c].request) :
                      Healthy(table.routes[id]) # <<>>}
    IN  /\ queue # <<>> /\ Head(queue) = c
        /\ queue' = Tail(queue)
        /\ \/ /\ served = {}
              /\ conn' = [conn EXCEPT ![c] = Open]
              /\ UNCHANGED rr
           \/ \E id \in served :
                 LET r == table.routes[id]
                 IN  /\ \E u \in Selected(r) :
                           conn' = [conn EXCEPT ![c] = [at |-> "forward", route |-> r, url |-> u.url]]
                     /\ rr' = IF r.strategy = "RoundRobin" THEN (rr + 1) % RoundRobin ELSE rr
        /\ UNCHANGED <<table, admin, active, accepting, ops>>

\* The upstream answers; its connection goes to the pool.
Answered(c) ==
    /\ conn[c].at = "forward"
    /\ conn' = [conn EXCEPT ![c] = Open]
    /\ UNCHANGED <<table, queue, admin, rr, active, accepting, ops>>

\* Mutant: no timeout; the request waits for its upstream.
ForwardNeverFails(c) ==
    /\ conn[c].at = "forward" /\ FALSE
    /\ UNCHANGED vars

\* The connection or the request fails, at the latest by its timeout.
ForwardFails(c) ==
    /\ conn[c].at = "forward"
    /\ conn' = [conn EXCEPT ![c] = Open]
    /\ UNCHANGED <<table, queue, admin, rr, active, accepting, ops>>

\* The client closes the connection, or goes away in the middle of a
\* request, whose future is dropped with its guard or its place in the queue.
Disconnect(c) ==
    /\ conn[c].at \in {"open", "queued", "forward"}
    /\ conn' = [conn EXCEPT ![c] = Closed]
    /\ queue' = Retain(queue, (Clients \cup Admins) \ {c})
    /\ active' = active - 1
    /\ UNCHANGED <<table, admin, rr, accepting, ops>>

\* ServerHandle::shutdown ends the accept loop; open connections stay.
Shutdown ==
    /\ accepting
    /\ accepting' = FALSE
    /\ UNCHANGED <<table, queue, admin, conn, rr, active, ops>>

Changes == [op : {"add"}, route : Routes] \cup [op : {"remove"}, id : Ids]
               \cup [op : {"reload"}, config : Configs]

\* add_route, remove_route or reload asks for the write guard.
Submit(a, change) ==
    /\ admin[a] = Idle /\ ops < MaxOps
    /\ admin' = [admin EXCEPT ![a] = change]
    /\ queue' = Append(queue, a)
    /\ ops' = ops + 1
    /\ UNCHANGED <<table, conn, rr, active, accepting>>

Readers == {c \in Clients : conn[c].at = "forward"}

\* What a change makes of the table; an error leaves it as it was.
Changed(change) ==
    CASE change.op = "add" -> IF change.route.valid THEN AddRoute(table, change.route) ELSE table
      [] change.op = "remove" -> IF change.id \in DOMAIN table.routes
                                 THEN RemoveRoute(table, change.id) ELSE table
      [] change.op = "reload" -> Loaded(change.config)

\* Mutant: the change does not wait for the readers.
ApplyAtOnce(a) ==
    /\ queue # <<>> /\ Head(queue) = a
    /\ queue' = Tail(queue)
    /\ admin' = [admin EXCEPT ![a] = Idle]
    /\ table' = Changed(admin[a])
    /\ UNCHANGED <<conn, rr, active, accepting, ops>>

\* The write guard is granted when no request is being forwarded.
Apply(a) ==
    /\ queue # <<>> /\ Head(queue) = a
    /\ Readers = {}
    /\ queue' = Tail(queue)
    /\ admin' = [admin EXCEPT ![a] = Idle]
    /\ table' = Changed(admin[a])
    /\ UNCHANGED <<conn, rr, active, accepting, ops>>

Next ==
    \/ \E c \in Clients :
          \/ Accept(c) \/ HandshakeDone(c) \/ HandshakeFails(c)
          \/ \E q \in Requests : Request(c, q)
          \/ Route(c) \/ Answered(c) \/ ForwardFails(c) \/ Disconnect(c)
    \/ \E a \in Admins : (\E change \in Changes : Submit(a, change)) \/ Apply(a)
    \/ Shutdown

Spec == Init /\ [][Next]_vars

\* The lock serves its queue, and the timeouts of proxy.rs end a forward.
Fairness ==
    /\ \A c \in Clients : WF_vars(Route(c)) /\ WF_vars(ForwardFails(c))
    /\ \A a \in Admins : WF_vars(Apply(a))

FairSpec == Spec /\ Fairness

-----------------------------------------------------------------------------
\* Types.
TypeOK ==
    /\ DOMAIN table.routes \subseteq Ids
    /\ \A h \in Hosts : ToSet(table.host_index[h]) \subseteq Ids
    /\ ToSet(queue) \subseteq Clients \cup Admins
    /\ rr \in 0 .. RoundRobin - 1
    /\ active \in 0 .. Cardinality(Clients)

\* active_connections counts the connections that are open, however they
\* end: in the handshake, by the client or in the middle of a request.
Connected == {c \in Clients : conn[c] # Closed}
ConnectionsCounted == active = Cardinality(Connected)

\* A request is forwarded by a route that is in the table as long as the
\* request lasts, whatever changes are asked for meanwhile.
RouteInForce ==
    \A c \in Readers :
        /\ conn[c].route.id \in DOMAIN table.routes
        /\ table.routes[conn[c].route.id] = conn[c].route

\* After any history of additions, replacements, removals and reloads, a
\* request that some installed route accepts finds a route, if that route
\* names its host exactly or names none.
Reachable ==
    \A q \in Requests :
        (\E id \in DOMAIN table.routes :
            LET r == table.routes[id]
            IN  MatchesRoute(r, q) /\ (r.hosts = {} \/ q.host \in r.hosts))
            => MatchRequest(table, q) # {}

\* Requests find a route that takes them and keep it.
RoutesRight == RouteInForce /\ Reachable

\* A change of the table is made, however many requests are in flight or
\* keep arriving, and no upstream can hold it up for good.
ChangesApplied == \A a \in Admins : admin[a] # Idle ~> admin[a] = Idle
=============================================================================
