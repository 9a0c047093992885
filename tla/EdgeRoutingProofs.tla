------------------------- MODULE EdgeRoutingProofs -------------------------
(* Theorems about the edge's routing, for every set of clients, admins and *)
(* routes: the lookups of the table find whatever it holds, and a request  *)
(* keeps the route it was given; and the counter of connections is right.  *)
EXTENDS EdgeRouting, SequenceTheorems, FiniteSetTheorems, TLAPS

\* Every installed route is known by its id, and its id is in the index of
\* each of its hosts and in the list of priorities.  Nothing is said of the
\* other entries: an id whose route is gone may be left behind.
TableRight(t) ==
    /\ DOMAIN t.routes \subseteq Ids
    /\ t.host_index \in [Hosts -> Seq(Ids)]
    /\ t.wildcard_hosts \in Seq(Wildcards \X Ids)
    /\ t.priorities \in Seq(Int \X Ids)
    /\ \A id \in DOMAIN t.routes :
          /\ t.routes[id] \in Routes /\ t.routes[id].id = id
          /\ \A h \in t.routes[id].hosts \cap Hosts : In(id, t.host_index[h])
          /\ \E p \in Int : In(<<p, id>>, t.priorities)

Waiters == Clients \cup Admins

\* Who waits for the lock has something to ask of it.
QueueRight ==
    /\ queue \in Seq(Waiters) /\ Distinct(queue)
    /\ \A c \in Clients : In(c, queue) => conn[c] \in [at : {"queued"}, request : Requests]
    /\ \A a \in Admins : In(a, queue) => admin[a] \in Changes

RoutingInv ==
    /\ TableRight(table) /\ QueueRight /\ RouteInForce
    /\ DOMAIN conn = Clients /\ DOMAIN admin = Admins

-----------------------------------------------------------------------------
\* The operations on the table.

\* The wildcard patterns of a route become entries in some order.
LEMMA SetToSeqLists ==
    ASSUME NEW S, IsFiniteSet(S)
    PROVE  SetToSeq(S) \in Seq(S)
<1>1. Cardinality(S) \in Nat /\ ExistsBijection(1 .. Cardinality(S), S)
  BY FS_CountingElements, FS_CardinalityType
<1>2. PICK f : f \in Bijection(1 .. Cardinality(S), S)
  BY <1>1 DEF ExistsBijection
<1>3. f \in [1 .. Cardinality(S) -> S] /\ IsInjective(f)
  BY <1>2 DEF Bijection, Injection, IsInjective
<1>4. SetToSeq(S) \in [1 .. Cardinality(S) -> S]
  BY <1>3 DEF SetToSeq
<1> QED BY <1>1, <1>4, IsASeq

\* What is in a sequence stays in one that it is a part of.
LEMMA Concatenated ==
    ASSUME NEW S, NEW s \in Seq(S), NEW t \in Seq(S)
    PROVE  /\ s \o t \in Seq(S)
           /\ \A x : In(x, s \o t) <=> In(x, s) \/ In(x, t)
<1>1. PICK u : u = s \o t
  OBVIOUS
<1>2. /\ u \in Seq(S) /\ Len(u) = Len(s) + Len(t) /\ Len(s) \in Nat /\ Len(t) \in Nat
      /\ \A i \in 1 .. Len(s) + Len(t) : u[i] = IF i <= Len(s) THEN s[i] ELSE t[i - Len(s)]
  BY <1>1, ConcatProperties
<1>3. ASSUME NEW x, In(x, s) PROVE In(x, u)
  BY <1>2, <1>3 DEF In
<1>4. ASSUME NEW x, In(x, t) PROVE In(x, u)
  <2>1. PICK i \in 1 .. Len(t) : t[i] = x
    BY <1>4 DEF In
  <2>2. i + Len(s) \in 1 .. Len(u) /\ ~(i + Len(s) <= Len(s)) /\ i + Len(s) - Len(s) = i
    BY <1>2
  <2> QED BY <1>2, <2>1, <2>2 DEF In
<1>5. ASSUME NEW x, In(x, u) PROVE In(x, s) \/ In(x, t)
  <2>1. PICK i \in 1 .. Len(u) : u[i] = x
    BY <1>5 DEF In
  <2>2. i <= Len(s) => i \in 1 .. Len(s)
    BY <1>2
  <2>3. ~(i <= Len(s)) => i - Len(s) \in 1 .. Len(t)
    BY <1>2
  <2> QED BY <1>2, <2>1, <2>2, <2>3 DEF In
<1> QED BY <1>1, <1>2, <1>3, <1>4, <1>5

LEMMA Inserted ==
    ASSUME NEW list \in Seq(Int \X Ids), NEW e \in Int \X Ids
    PROVE  /\ ByPriority(list, e) \in Seq(Int \X Ids)
           /\ \A x : In(x, ByPriority(list, e)) <=> In(x, list) \/ x = e
<1>1. PICK hi, lo, S : /\ hi = {x \in ToSet(list) : x[1] >= e[1]}
                       /\ lo = {x \in ToSet(list) : x[1] < e[1]}
                       /\ S = Int \X Ids
  OBVIOUS
<1>2. \A x : In(x, list) => x \in hi \/ x \in lo
  <2> SUFFICES ASSUME NEW x, In(x, list) PROVE x \in hi \/ x \in lo
    OBVIOUS
  <2>1. PICK i \in 1 .. Len(list) : list[i] = x
    BY DEF In
  <2>2. x \in Int \X Ids /\ x \in ToSet(list)
    BY <2>1, ElementOfSeq DEF ToSet
  <2>3. x[1] \in Int /\ e[1] \in Int
    BY <2>2
  <2>4. x[1] >= e[1] \/ x[1] < e[1]
    BY <2>3
  <2> QED BY <1>1, <2>2, <2>4
<1>3. PICK a, b, c : a = Retain(list, hi) /\ b = <<e>> /\ c = Retain(list, lo)
  OBVIOUS
<1>4. a \in Seq(S) /\ c \in Seq(S) /\ list \in Seq(S) /\ e \in S
      /\ (\A x : In(x, a) <=> In(x, list) /\ x \in hi)
      /\ (\A x : In(x, c) <=> In(x, list) /\ x \in lo)
  BY <1>1, <1>3, Retained
<1>5. b \in Seq(S) /\ \A x : In(x, b) <=> x = e
  BY <1>3, <1>4 DEF In
<1>6. a \o b \in Seq(S) /\ \A x : In(x, a \o b) <=> In(x, a) \/ In(x, b)
  BY <1>4, <1>5, Concatenated
<1>7. PICK d : d = a \o b
  OBVIOUS
<1>8. d \o c \in Seq(S) /\ \A x : In(x, d \o c) <=> In(x, d) \/ In(x, c)
  BY <1>4, <1>6, <1>7, Concatenated
<1>9. ByPriority(list, e) = d \o c
  BY <1>1, <1>3, <1>7 DEF ByPriority
<1> QED BY <1>1, <1>2, <1>4, <1>5, <1>6, <1>7, <1>8, <1>9

LEMMA AddKeeps ==
    ASSUME NEW t, TableRight(t), NEW r \in Routes
    PROVE  TableRight(AddRoute(t, r))
<1>1. PICK n, e, w : /\ n = AddRoute(t, r) /\ e = <<r.priority, r.id>>
                     /\ w = SetToSeq({<<p, r.id>> : p \in r.hosts \cap Wildcards})
  OBVIOUS
<1>2. /\ n.routes = [id \in DOMAIN t.routes \cup {r.id} |-> IF id = r.id THEN r ELSE t.routes[id]]
      /\ n.host_index = [h \in Hosts |-> IF h \in r.hosts THEN Append(t.host_index[h], r.id)
                                         ELSE t.host_index[h]]
      /\ n.wildcard_hosts = t.wildcard_hosts \o w
      /\ n.priorities = ByPriority(t.priorities, e)
  BY <1>1 DEF AddRoute
<1>3. r.id \in Ids /\ r.priority \in Int /\ IsFiniteSet(r.hosts) /\ e \in Int \X Ids
  BY <1>1, RoutingAssumption DEF Ids
<1>4. DOMAIN n.routes \subseteq Ids
      /\ \A id \in DOMAIN n.routes : n.routes[id] \in Routes /\ n.routes[id].id = id
  BY <1>2, <1>3 DEF TableRight
<1>5. ASSUME NEW h \in Hosts
      PROVE  /\ n.host_index[h] \in Seq(Ids)
             /\ \A id : In(id, t.host_index[h]) => In(id, n.host_index[h])
             /\ h \in r.hosts => In(r.id, n.host_index[h])
  <2>1. PICK s, u : s = t.host_index[h] /\ u = Append(s, r.id)
    OBVIOUS
  <2>2. s \in Seq(Ids)
    BY <2>1 DEF TableRight
  <2>3. /\ u \in Seq(Ids) /\ Len(u) = Len(s) + 1 /\ Len(s) \in Nat /\ u[Len(s) + 1] = r.id
        /\ \A i \in 1 .. Len(s) : u[i] = s[i]
    BY <1>3, <2>1, <2>2, AppendProperties
  <2>4. In(r.id, u) /\ \A id : In(id, s) => In(id, u)
    BY <2>3 DEF In
  <2> QED BY <1>2, <2>1, <2>2, <2>3, <2>4
<1>6. n.host_index \in [Hosts -> Seq(Ids)]
  BY <1>2, <1>5
<1>7. n.wildcard_hosts \in Seq(Wildcards \X Ids)
  <2>1. PICK f, S, T : /\ S = r.hosts \cap Wildcards /\ f = [p \in S |-> <<p, r.id>>]
                       /\ T = {<<p, r.id>> : p \in r.hosts \cap Wildcards}
    OBVIOUS
  <2>2. IsFiniteSet(S)
    BY <1>3, <2>1, FS_Subset
  <2>3. f \in Surjection(S, T)
    BY <2>1 DEF Surjection
  <2>4. IsFiniteSet(T)
    BY <2>2, <2>3, FS_Surjection
  <2>5. w \in Seq(T)
    BY <1>1, <2>1, <2>4, SetToSeqLists
  <2>6. T \subseteq Wildcards \X Ids
    BY <1>3, <2>1
  <2>7. PICK S2 : S2 = Wildcards \X Ids
    OBVIOUS
  <2>8. w \in Seq(S2) /\ t.wildcard_hosts \in Seq(S2)
    BY <2>5, <2>6, <2>7, SeqMonotonic DEF TableRight
  <2> QED BY <1>2, <2>7, <2>8, Concatenated
<1>8. /\ n.priorities \in Seq(Int \X Ids)
      /\ \A x : In(x, n.priorities) <=> In(x, t.priorities) \/ x = e
  <2>1. PICK list : list = t.priorities
    OBVIOUS
  <2>2. list \in Seq(Int \X Ids)
    BY <2>1 DEF TableRight
  <2>3. PICK u : u = ByPriority(list, e)
    OBVIOUS
  <2>4. u \in Seq(Int \X Ids) /\ \A x : In(x, u) <=> In(x, list) \/ x = e
    BY <1>3, <2>2, <2>3, Inserted
  <2> QED BY <1>2, <2>1, <2>3, <2>4
<1>9. ASSUME NEW id \in DOMAIN n.routes
      PROVE  /\ \A h \in n.routes[id].hosts \cap Hosts : In(id, n.host_index[h])
             /\ \E p \in Int : In(<<p, id>>, n.priorities)
  <2>1. CASE id = r.id
    BY <1>1, <1>2, <1>3, <1>5, <1>8, <2>1
  <2>2. CASE id # r.id
    <3>1. id \in DOMAIN t.routes /\ n.routes[id] = t.routes[id]
      BY <1>2, <2>2
    <3> QED BY <1>5, <1>8, <3>1 DEF TableRight
  <2> QED BY <2>1, <2>2
<1> QED BY <1>1, <1>4, <1>6, <1>7, <1>8, <1>9 DEF TableRight

LEMMA RemoveKeeps ==
    ASSUME NEW t, TableRight(t), NEW gone \in DOMAIN t.routes
    PROVE  TableRight(RemoveRoute(t, gone))
<1>1. PICK n, r : n = RemoveRoute(t, gone) /\ r = t.routes[gone]
  OBVIOUS
<1>2. /\ n.routes = [i \in DOMAIN t.routes \ {gone} |-> t.routes[i]]
      /\ n.host_index = [h \in Hosts |-> IF h \in r.hosts
                                         THEN Retain(t.host_index[h], Ids \ {gone})
                                         ELSE t.host_index[h]]
      /\ n.wildcard_hosts = Retain(t.wildcard_hosts, (Wildcards \ r.hosts) \X Ids)
      /\ n.priorities = Retain(t.priorities, Int \X (Ids \ {gone}))
  BY <1>1 DEF RemoveRoute
<1>3. DOMAIN n.routes \subseteq Ids
      /\ \A id \in DOMAIN n.routes : n.routes[id] \in Routes /\ n.routes[id].id = id
  BY <1>2 DEF TableRight
<1>4. ASSUME NEW h \in Hosts
      PROVE  /\ n.host_index[h] \in Seq(Ids)
             /\ \A id \in Ids \ {gone} : In(id, t.host_index[h]) => In(id, n.host_index[h])
  <2>1. t.host_index[h] \in Seq(Ids)
    BY DEF TableRight
  <2> QED BY <1>2, <2>1, Retained
<1>5. n.host_index \in [Hosts -> Seq(Ids)]
  BY <1>2, <1>4
<1>6. n.wildcard_hosts \in Seq(Wildcards \X Ids)
  BY <1>2, Retained DEF TableRight
<1>7. /\ n.priorities \in Seq(Int \X Ids)
      /\ \A x : In(x, n.priorities) <=> In(x, t.priorities) /\ x \in Int \X (Ids \ {gone})
  BY <1>2, Retained DEF TableRight
<1>8. ASSUME NEW id \in DOMAIN n.routes
      PROVE  /\ \A h \in n.routes[id].hosts \cap Hosts : In(id, n.host_index[h])
             /\ \E p \in Int : In(<<p, id>>, n.priorities)
  <2>1. id \in DOMAIN t.routes /\ id \in Ids \ {gone} /\ n.routes[id] = t.routes[id]
    BY <1>2, <1>3
  <2> QED BY <1>4, <1>7, <2>1 DEF TableRight
<1> QED BY <1>1, <1>3, <1>5, <1>6, <1>7, <1>8 DEF TableRight

LEMMA EmptyIsRight == TableRight(EmptyTable)
<1>1. /\ EmptyTable.routes = [id \in {} |-> Idle]
      /\ EmptyTable.host_index = [h \in Hosts |-> <<>>]
      /\ EmptyTable.wildcard_hosts = <<>> /\ EmptyTable.priorities = <<>>
  BY DEF EmptyTable
<1> QED BY <1>1 DEF TableRight

\* The tables that `fill` of Filled goes through exist.
Filling(f, s, n) == f = [m \in 0 .. n |-> IF m = 0 THEN EmptyTable ELSE AddRoute(f[m - 1], s[m])]

LEMMA FillingExists ==
    ASSUME NEW s, NEW n \in Nat
    PROVE  \E f : Filling(f, s, n)
<1> DEFINE P == {k \in 0 .. n : \E f : Filling(f, s, k)}
<1>1. 0 \in P
  <2>1. \A m \in 0 .. 0 : m = 0
    OBVIOUS
  <2>2. Filling([m \in 0 .. 0 |-> EmptyTable], s, 0)
    BY <2>1 DEF Filling
  <2> QED BY <2>2
<1>2. ASSUME NEW k \in 0 .. n - 1, k \in P PROVE k + 1 \in P
  <2>1. PICK f : Filling(f, s, k)
    BY <1>2
  <2>2. PICK g : g = [m \in 0 .. k + 1 |-> IF m = 0 THEN EmptyTable ELSE AddRoute(f[m - 1], s[m])]
    OBVIOUS
  <2>3. \A m \in 0 .. k + 1 : m # 0 => m - 1 \in 0 .. k
    OBVIOUS
  <2>4. \A j \in 0 .. k : f[j] = g[j]
    BY <2>1, <2>2 DEF Filling
  <2>5. Filling(g, s, k + 1)
    BY <2>2, <2>3, <2>4 DEF Filling
  <2>6. k + 1 \in 0 .. n
    OBVIOUS
  <2> QED BY <2>5, <2>6
<1>3. 0 .. n \subseteq P
  <2> HIDE DEF P
  <2> QED BY <1>1, <1>2, CountsUp
<1>4. n \in P
  <2>1. n \in 0 .. n
    OBVIOUS
  <2> QED BY ONLY <1>3, <2>1
<1> QED BY <1>4

LEMMA FilledIsRight ==
    ASSUME NEW s \in Seq(Routes)
    PROVE  TableRight(Filled(s))
<1>1. Len(s) \in Nat
  OBVIOUS
<1> DEFINE fill == CHOOSE f : Filling(f, s, Len(s))
           P == {k \in 0 .. Len(s) : TableRight(fill[k])}
<1>2. Filling(fill, s, Len(s))
  BY <1>1, FillingExists
<1>3. Filled(s) = fill[Len(s)]
  BY DEF Filled, Filling
<1> HIDE DEF fill
<1>4. /\ fill[0] = EmptyTable
      /\ \A m \in 1 .. Len(s) : fill[m] = AddRoute(fill[m - 1], s[m])
  BY <1>1, <1>2 DEF Filling
<1>5. 0 \in P
  BY <1>1, <1>4, EmptyIsRight
<1>6. ASSUME NEW k \in 0 .. Len(s) - 1, k \in P PROVE k + 1 \in P
  <2>1. k + 1 \in 1 .. Len(s) /\ (k + 1) - 1 = k
    BY <1>1
  <2>2. PICK t, r : t = fill[k] /\ r = s[k + 1]
    OBVIOUS
  <2>3. TableRight(t) /\ r \in Routes
    BY <1>6, <2>1, <2>2
  <2>4. TableRight(AddRoute(t, r))
    BY <2>3, AddKeeps
  <2>5. fill[k + 1] = AddRoute(t, r)
    BY <1>4, <2>1, <2>2
  <2> QED BY <2>1, <2>4, <2>5
<1>7. 0 .. Len(s) \subseteq P
  <2> HIDE DEF P
  <2> QED BY <1>1, <1>5, <1>6, CountsUp
<1>8. Len(s) \in P
  <2>1. Len(s) \in 0 .. Len(s)
    BY <1>1
  <2> QED BY ONLY <1>7, <2>1
<1> QED BY <1>3, <1>8

LEMMA LoadedIsRight ==
    ASSUME NEW config \in Seq(Routes)
    PROVE  TableRight(Loaded(config))
<1>1. PICK bad : bad = {i \in DOMAIN config : ~config[i].valid}
  OBVIOUS
<1>2. CASE bad = {}
  BY <1>1, <1>2, FilledIsRight DEF Loaded
<1>3. CASE bad # {}
  <2>1. PICK m : m = Min(bad)
    OBVIOUS
  <2>2. bad \subseteq 1 .. Len(config) /\ bad \subseteq Nat
    BY <1>1
  <2>3. m \in bad
    BY <1>3, <2>1, <2>2, LeastIsThere DEF Min
  <2>4. \A i \in 1 .. m - 1 : config[i] \in Routes
    BY <2>2, <2>3
  <2>5. PICK good : good = SubSeq(config, 1, m - 1)
    OBVIOUS
  <2>6. good \in Seq(Routes)
    BY <2>2, <2>3, <2>4, <2>5, SubSeqProperties
  <2>7. Loaded(config) = Filled(good)
    BY <1>1, <1>3, <2>1, <2>5 DEF Loaded
  <2> QED BY <2>6, <2>7, FilledIsRight
<1> QED BY <1>2, <1>3

LEMMA ChangedIsRight ==
    ASSUME TableRight(table), NEW change \in Changes
    PROVE  TableRight(Changed(change))
<1>1. CASE change \in [op : {"add"}, route : Routes]
  BY <1>1, AddKeeps DEF Changed
<1>2. CASE change \in [op : {"remove"}, id : Ids]
  BY <1>2, RemoveKeeps DEF Changed
<1>3. CASE change \in [op : {"reload"}, config : Configs]
  BY <1>3, LoadedIsRight, RoutingAssumption DEF Changed
<1> QED BY <1>1, <1>2, <1>3 DEF Changes

-----------------------------------------------------------------------------
\* match_request: what it finds is installed and takes the request.
LEMMA MatchIsInstalled ==
    ASSUME NEW t, TableRight(t), NEW q \in Requests, NEW id \in MatchRequest(t, q)
    PROVE  id \in DOMAIN t.routes
<1>1. PICK named, wilds, list : /\ named = t.host_index[q.host] /\ wilds = t.wildcard_hosts
                                /\ list = t.priorities
  OBVIOUS
<1>2. PICK exact, wild, catch :
        /\ exact = {i \in DOMAIN named : Takes(t, named[i], q)}
        /\ wild = {i \in DOMAIN wilds : <<wilds[i][1], q.host>> \in Covers
                                         /\ Takes(t, wilds[i][2], q)}
        /\ catch = {i \in DOMAIN list : Takes(t, list[i][2], q)
                                         /\ t.routes[list[i][2]].hosts = {}}
  OBVIOUS
<1>3. /\ exact \subseteq Nat /\ wild \subseteq Nat /\ catch \subseteq Nat
  <2>1. named \in Seq(Ids) /\ wilds \in Seq(Wildcards \X Ids) /\ list \in Seq(Int \X Ids)
    BY <1>1, RoutingAssumption DEF TableRight
  <2> QED BY <1>2, <2>1
<1>4. /\ exact # {} => Min(exact) \in exact
      /\ wild # {} => Min(wild) \in wild
      /\ catch # {} => Min(catch) \in catch
  BY <1>3, LeastIsThere DEF Min
<1>5. id \in (IF exact # {} THEN {named[Min(exact)]}
              ELSE IF wild # {} THEN {wilds[Min(wild)][2]}
              ELSE IF catch # {} THEN {list[Min(catch)][2]}
              ELSE {})
  BY <1>1, <1>2 DEF MatchRequest
<1>6. Takes(t, id, q)
  BY <1>2, <1>4, <1>5
<1> QED BY <1>6 DEF Takes

\* It finds one if a route that takes the request has its host or none.
LEMMA MatchIsFound ==
    ASSUME NEW t, TableRight(t), NEW q \in Requests, NEW id \in DOMAIN t.routes,
           MatchesRoute(t.routes[id], q),
           t.routes[id].hosts = {} \/ q.host \in t.routes[id].hosts
    PROVE  MatchRequest(t, q) # {}
<1>1. PICK named, list : named = t.host_index[q.host] /\ list = t.priorities
  OBVIOUS
<1>2. named \in Seq(Ids) /\ list \in Seq(Int \X Ids) /\ q.host \in Hosts
  BY <1>1, RoutingAssumption DEF TableRight
<1>3. Takes(t, id, q)
  BY DEF Takes
<1>4. CASE q.host \in t.routes[id].hosts
  <2>1. In(id, named)
    BY <1>1, <1>2, <1>4 DEF TableRight
  <2>2. {i \in DOMAIN named : Takes(t, named[i], q)} # {}
    BY <1>2, <1>3, <2>1 DEF In
  <2> QED BY <1>1, <2>2 DEF MatchRequest
<1>5. CASE t.routes[id].hosts = {}
  <2>1. PICK p : In(<<p, id>>, list)
    BY <1>1 DEF TableRight
  <2>2. PICK i \in 1 .. Len(list) : list[i] = <<p, id>>
    BY <2>1 DEF In
  <2>3. i \in DOMAIN list /\ list[i][2] = id
    BY <1>2, <2>2
  <2>4. {j \in DOMAIN list : Takes(t, list[j][2], q) /\ t.routes[list[j][2]].hosts = {}} # {}
    BY <1>3, <1>5, <2>3
  <2> QED BY <1>1, <2>4 DEF MatchRequest
<1> QED BY <1>4, <1>5

-----------------------------------------------------------------------------
\* A connection goes on, and leaves the queue or joins it.
LEMMA ConnGoes ==
    ASSUME RoutingInv, UNCHANGED <<table, admin>>, NEW c \in Clients, NEW k,
           conn' = [conn EXCEPT ![c] = k],
           queue' \in Seq(Waiters) /\ Distinct(queue)',
           \A x : In(x, queue') => In(x, queue) \/ x = c,
           In(c, queue') => k \in [at : {"queued"}, request : Requests],
           k.at = "forward" => k.route.id \in DOMAIN table.routes
                                 /\ table.routes[k.route.id] = k.route
    PROVE  RoutingInv'
<1>1. /\ DOMAIN conn' = Clients /\ conn'[c] = k /\ \A e \in Clients \ {c} : conn'[e] = conn[e]
      /\ TableRight(table) /\ QueueRight /\ RouteInForce
      /\ DOMAIN conn = Clients /\ DOMAIN admin = Admins
  BY DEF RoutingInv
<1>2. TableRight(table)'
  BY <1>1
<1>3. QueueRight'
  <2>1. \A e \in Clients : In(e, queue') => conn'[e] \in [at : {"queued"}, request : Requests]
    BY <1>1 DEF QueueRight
  <2>2. \A a \in Admins : In(a, queue') => admin'[a] \in Changes
    BY <1>1, RoutingAssumption DEF QueueRight
  <2> QED BY <2>1, <2>2 DEF QueueRight, In
<1>4. RouteInForce'
  BY <1>1 DEF RouteInForce, Readers
<1> QED BY <1>1, <1>2, <1>3, <1>4 DEF RoutingInv

LEMMA ConnStays ==
    ASSUME RoutingInv, NEW c \in Clients, NEW k, UNCHANGED <<table, admin, queue>>,
           conn' = [conn EXCEPT ![c] = k], conn[c].at # "queued", k.at # "forward"
    PROVE  RoutingInv'
<1>1. queue' \in Seq(Waiters) /\ Distinct(queue)' /\ ~In(c, queue')
      /\ \A x : In(x, queue') => In(x, queue)
  BY DEF RoutingInv, QueueRight, Distinct, In
<1> QED BY <1>1, ConnGoes

LEMMA RequestKeeps ==
    ASSUME RoutingInv, NEW c \in Clients, NEW q \in Requests, Request(c, q)
    PROVE  RoutingInv'
<1>1. PICK k : k = [at |-> "queued", request |-> q]
  OBVIOUS
<1>2. k \in [at : {"queued"}, request : Requests] /\ k.at # "forward"
  BY <1>1
<1>3. queue \in Seq(Waiters) /\ Distinct(queue) /\ ~In(c, queue) /\ c \in Waiters
  BY DEF RoutingInv, QueueRight, Request, Open, Waiters
<1>4. PICK s : s = Append(queue, c)
  OBVIOUS
<1>5. s \in Seq(Waiters) /\ Distinct(s) /\ \A x : In(x, s) => In(x, queue) \/ x = c
  BY <1>3, <1>4, Joined
<1>6. queue' = s /\ conn' = [conn EXCEPT ![c] = k] /\ UNCHANGED <<table, admin>>
  BY <1>1, <1>4 DEF Request
<1>7. Distinct(queue)'
  BY <1>5, <1>6 DEF Distinct
<1> QED BY <1>2, <1>5, <1>6, <1>7, ConnGoes

LEMMA RouteKeeps ==
    ASSUME RoutingInv, NEW c \in Clients, Route(c)
    PROVE  RoutingInv'
<1>1. queue \in Seq(Waiters) /\ Distinct(queue) /\ queue # <<>> /\ Head(queue) = c
  BY DEF RoutingInv, QueueRight, Route
<1>2. PICK s : s = Tail(queue)
  OBVIOUS
<1>3. s \in Seq(Waiters) /\ Distinct(s) /\ In(c, queue) /\ \A x : In(x, s) => In(x, queue) /\ x # c
  BY <1>1, <1>2, Served
<1>4. queue' = s /\ UNCHANGED <<table, admin>>
  BY <1>2 DEF Route
<1>5. Distinct(queue)'
  BY <1>3, <1>4 DEF Distinct
<1>6. PICK q : q = conn[c].request
  OBVIOUS
<1>7. q \in Requests /\ TableRight(table)
  BY <1>3, <1>6 DEF RoutingInv, QueueRight
<1>8. CASE conn' = [conn EXCEPT ![c] = Open]
  <2>1. Open.at # "forward"
    BY DEF Open
  <2> QED BY <1>3, <1>4, <1>5, <1>8, <2>1, ConnGoes
<1>9. ASSUME NEW id \in MatchRequest(table, q), NEW url,
             conn' = [conn EXCEPT ![c] = [at |-> "forward", route |-> table.routes[id], url |-> url]]
      PROVE  RoutingInv'
  <2>1. PICK k, r : k = [at |-> "forward", route |-> r, url |-> url] /\ r = table.routes[id]
    OBVIOUS
  <2>2. id \in DOMAIN table.routes
    BY <1>7, MatchIsInstalled
  <2>3. r.id = id
    BY <1>7, <2>1, <2>2 DEF TableRight
  <2>4. k.route.id \in DOMAIN table.routes /\ table.routes[k.route.id] = k.route
    BY <2>1, <2>2, <2>3
  <2>5. conn' = [conn EXCEPT ![c] = k]
    BY <1>9, <2>1
  <2> QED BY <1>3, <1>4, <1>5, <2>4, <2>5, ConnGoes
<1>10. \/ conn' = [conn EXCEPT ![c] = Open]
       \/ \E id \in MatchRequest(table, q) : \E url :
             conn' = [conn EXCEPT ![c] = [at |-> "forward", route |-> table.routes[id], url |-> url]]
  BY <1>6 DEF Route
<1> QED BY <1>8, <1>9, <1>10

LEMMA DisconnectKeeps ==
    ASSUME RoutingInv, NEW c \in Clients, Disconnect(c)
    PROVE  RoutingInv'
<1>1. queue \in Seq(Waiters) /\ Distinct(queue)
  BY DEF RoutingInv, QueueRight
<1>2. PICK s : s = Retain(queue, Waiters \ {c})
  OBVIOUS
<1>3. s \in Seq(Waiters) /\ Distinct(s) /\ \A x : In(x, s) => In(x, queue) /\ x # c
  BY <1>1, <1>2, Withdrawn
<1>4. queue' = s /\ UNCHANGED <<table, admin>> /\ conn' = [conn EXCEPT ![c] = Closed]
  BY <1>2 DEF Disconnect, Waiters
<1>5. Distinct(queue)'
  BY <1>3, <1>4 DEF Distinct
<1>6. Closed.at # "forward"
  BY DEF Closed
<1> QED BY <1>3, <1>4, <1>5, <1>6, ConnGoes

LEMMA SubmitKeeps ==
    ASSUME RoutingInv, NEW a \in Admins, NEW change \in Changes, Submit(a, change)
    PROVE  RoutingInv'
<1>1. queue \in Seq(Waiters) /\ Distinct(queue) /\ ~In(a, queue) /\ a \in Waiters
  BY DEF RoutingInv, QueueRight, Submit, Idle, Waiters, Changes
<1>2. PICK s : s = Append(queue, a)
  OBVIOUS
<1>3. s \in Seq(Waiters) /\ Distinct(s) /\ \A x : In(x, s) => In(x, queue) \/ x = a
  BY <1>1, <1>2, Joined
<1>4. queue' = s /\ UNCHANGED <<table, conn>> /\ admin' = [admin EXCEPT ![a] = change]
  BY <1>2 DEF Submit
<1>5. DOMAIN admin' = Admins /\ admin'[a] = change /\ \A b \in Admins \ {a} : admin'[b] = admin[b]
  BY <1>4 DEF RoutingInv
<1>6. QueueRight'
  <2>1. \A c \in Clients : In(c, queue') => conn'[c] \in [at : {"queued"}, request : Requests]
    BY <1>3, <1>4, RoutingAssumption DEF RoutingInv, QueueRight
  <2>2. \A b \in Admins : In(b, queue') => admin'[b] \in Changes
    BY <1>3, <1>4, <1>5 DEF RoutingInv, QueueRight
  <2>3. Distinct(queue)'
    BY <1>3, <1>4 DEF Distinct
  <2> QED BY <1>3, <1>4, <2>1, <2>2, <2>3 DEF QueueRight, In
<1>7. RouteInForce'
  BY <1>4 DEF RoutingInv, RouteInForce, Readers
<1>8. TableRight(table)' /\ DOMAIN conn' = Clients
  BY <1>4 DEF RoutingInv
<1> QED BY <1>5, <1>6, <1>7, <1>8 DEF RoutingInv

\* The write guard excludes the readers, so no route in force goes away.
LEMMA ApplyKeeps ==
    ASSUME RoutingInv, NEW a \in Admins, Apply(a)
    PROVE  RoutingInv'
<1>1. queue \in Seq(Waiters) /\ Distinct(queue) /\ queue # <<>> /\ Head(queue) = a
  BY DEF RoutingInv, QueueRight, Apply
<1>2. PICK s : s = Tail(queue)
  OBVIOUS
<1>3. s \in Seq(Waiters) /\ Distinct(s) /\ In(a, queue) /\ \A x : In(x, s) => In(x, queue) /\ x # a
  BY <1>1, <1>2, Served
<1>4. queue' = s /\ UNCHANGED conn /\ admin' = [admin EXCEPT ![a] = Idle]
  BY <1>2 DEF Apply
<1>5. PICK change \in Changes : change = admin[a]
  BY <1>3 DEF RoutingInv, QueueRight
<1>6. TableRight(table)'
  <2>1. PICK n : n = Changed(change)
    OBVIOUS
  <2>2. TableRight(n)
    BY <2>1, ChangedIsRight DEF RoutingInv
  <2>3. table' = n
    BY <1>5, <2>1 DEF Apply
  <2> QED BY <2>2, <2>3
<1>7. DOMAIN admin' = Admins /\ \A b \in Admins \ {a} : admin'[b] = admin[b]
  BY <1>4 DEF RoutingInv
<1>8. QueueRight'
  <2>1. \A c \in Clients : In(c, queue') => conn'[c] \in [at : {"queued"}, request : Requests]
    BY <1>3, <1>4 DEF RoutingInv, QueueRight
  <2>2. \A b \in Admins : In(b, queue') => admin'[b] \in Changes
    BY <1>3, <1>4, <1>7 DEF RoutingInv, QueueRight
  <2>3. Distinct(queue)'
    BY <1>3, <1>4 DEF Distinct
  <2> QED BY <1>3, <1>4, <2>1, <2>2, <2>3 DEF QueueRight, In
<1>9. RouteInForce'
  BY <1>4 DEF Apply, RouteInForce, Readers
<1> QED BY <1>4, <1>6, <1>7, <1>8, <1>9 DEF RoutingInv

-----------------------------------------------------------------------------
LEMMA RoutingStarts == Init => RoutingInv
<1> SUFFICES ASSUME Init PROVE RoutingInv
  OBVIOUS
<1>1. TableRight(table)
  <2>1. PICK t : t = EmptyTable
    OBVIOUS
  <2>2. TableRight(t)
    BY <2>1, EmptyIsRight
  <2> QED BY <2>1, <2>2 DEF Init
<1>2. QueueRight
  BY DEF Init, QueueRight, Distinct, In
<1>3. RouteInForce
  BY DEF Init, RouteInForce, Readers, Closed
<1> QED BY <1>1, <1>2, <1>3 DEF Init, RoutingInv

LEMMA RoutingSteps == RoutingInv /\ [Next]_vars => RoutingInv'
<1> SUFFICES ASSUME RoutingInv, [Next]_vars PROVE RoutingInv'
  OBVIOUS
<1>0. Open.at \notin {"forward", "queued"} /\ Closed.at \notin {"forward", "queued"}
  BY DEF Open, Closed
<1>1. ASSUME NEW c \in Clients, Accept(c) PROVE RoutingInv'
  <2>1. PICK k : k = [at |-> "handshake"]
    OBVIOUS
  <2>2. /\ UNCHANGED <<table, admin, queue>> /\ conn' = [conn EXCEPT ![c] = k]
        /\ conn[c].at # "queued" /\ k.at # "forward"
    BY <1>0, <1>1, <2>1 DEF Accept
  <2> QED BY <2>2, ConnStays
<1>2. ASSUME NEW c \in Clients, HandshakeDone(c) \/ HandshakeFails(c) PROVE RoutingInv'
  BY <1>0, <1>2, ConnStays DEF HandshakeDone, HandshakeFails
<1>3. ASSUME NEW c \in Clients, Answered(c) \/ ForwardFails(c) PROVE RoutingInv'
  BY <1>0, <1>3, ConnStays DEF Answered, ForwardFails
<1>4. CASE Shutdown
  BY <1>4 DEF Shutdown, RoutingInv, QueueRight, RouteInForce, Readers, Distinct, In
<1>5. CASE UNCHANGED vars
  BY <1>5 DEF vars, RoutingInv, QueueRight, RouteInForce, Readers, Distinct, In
<1> QED BY <1>1, <1>2, <1>3, <1>4, <1>5, RequestKeeps, RouteKeeps, DisconnectKeeps, SubmitKeeps,
           ApplyKeeps DEF Next

(* After any history of additions, replacements, removals and reloads a    *)
(* request finds a route if one takes it, and a route that serves a        *)
(* request stays in the table, unchanged, until the request is over.       *)
THEOREM RoutesAreRight == Spec => []RoutesRight
<1>1. RoutingInv => RoutesRight
  BY MatchIsFound DEF RoutingInv, RoutesRight, Reachable
<1> QED BY <1>1, RoutingStarts, RoutingSteps, PTL DEF Spec

-----------------------------------------------------------------------------
(***************************************************************************)
(* The counters of the proxy.                                              *)
(***************************************************************************)
CountersInv ==
    /\ DOMAIN conn = Clients
    /\ ConnectionsCounted
    /\ rr \in 0 .. RoundRobin - 1

LEMMA CountersStart == Init => CountersInv
<1> SUFFICES ASSUME Init PROVE CountersInv
  OBVIOUS
<1>1. Connected = {}
  BY DEF Init, Connected
<1> QED BY <1>1, FS_EmptySet, RoutingAssumption DEF Init, CountersInv, ConnectionsCounted

\* A connection that opens, one that closes and one that goes on.
LEMMA Opened ==
    ASSUME CountersInv, NEW c \in Clients, NEW k, conn[c] = Closed, k # Closed,
           conn' = [conn EXCEPT ![c] = k], active' = active + 1
    PROVE  ConnectionsCounted' /\ DOMAIN conn' = Clients
<1>1. Connected' = Connected \cup {c} /\ c \notin Connected /\ DOMAIN conn' = Clients
  BY DEF CountersInv, Connected
<1>2. IsFiniteSet(Connected)
  BY FS_Subset, RoutingAssumption DEF Connected
<1>3. Cardinality(Connected \cup {c}) = Cardinality(Connected) + 1
  BY <1>1, <1>2, FS_AddElement
<1> QED BY <1>1, <1>3 DEF CountersInv, ConnectionsCounted

LEMMA ClosedAgain ==
    ASSUME CountersInv, NEW c \in Clients, conn[c] # Closed,
           conn' = [conn EXCEPT ![c] = Closed], active' = active - 1
    PROVE  ConnectionsCounted' /\ DOMAIN conn' = Clients
<1>1. Connected' = Connected \ {c} /\ c \in Connected /\ DOMAIN conn' = Clients
  BY DEF CountersInv, Connected
<1>2. IsFiniteSet(Connected)
  BY FS_Subset, RoutingAssumption DEF Connected
<1>3. Cardinality(Connected \ {c}) = Cardinality(Connected) - 1
  BY <1>1, <1>2, FS_RemoveElement
<1> QED BY <1>1, <1>3 DEF CountersInv, ConnectionsCounted

LEMMA StaysOpen ==
    ASSUME CountersInv, NEW c \in Clients, NEW k, conn[c] # Closed, k # Closed,
           conn' = [conn EXCEPT ![c] = k], active' = active
    PROVE  ConnectionsCounted' /\ DOMAIN conn' = Clients
<1>1. Connected' = Connected /\ DOMAIN conn' = Clients
  BY DEF CountersInv, Connected
<1> QED BY <1>1 DEF CountersInv, ConnectionsCounted

LEMMA CountersKeep == RoutingInv /\ CountersInv /\ [Next]_vars => CountersInv'
<1> SUFFICES ASSUME RoutingInv, CountersInv, [Next]_vars PROVE CountersInv'
  OBVIOUS
<1>0. Closed.at = "closed" /\ Open # Closed /\ Open.at = "open"
  BY DEF Open, Closed
<1>1. ASSUME NEW c \in Clients, Accept(c) PROVE CountersInv'
  <2>1. [at |-> "handshake"] # Closed
    BY DEF Closed
  <2>2. rr' = rr
    BY <1>1 DEF Accept
  <2> QED BY <1>1, <2>1, <2>2, Opened DEF Accept, CountersInv
<1>2. ASSUME NEW c \in Clients, HandshakeFails(c) \/ Disconnect(c) PROVE CountersInv'
  <2>1. conn[c] # Closed /\ conn' = [conn EXCEPT ![c] = Closed] /\ active' = active - 1 /\ rr' = rr
    BY <1>0, <1>2 DEF HandshakeFails, Disconnect
  <2> QED BY <2>1, ClosedAgain DEF CountersInv
<1>3. ASSUME NEW c \in Clients, HandshakeDone(c) \/ Answered(c) \/ ForwardFails(c)
      PROVE  CountersInv'
  <2>1. conn[c] # Closed /\ conn' = [conn EXCEPT ![c] = Open] /\ active' = active /\ rr' = rr
    BY <1>0, <1>3 DEF HandshakeDone, Answered, ForwardFails
  <2> QED BY <1>0, <2>1, StaysOpen DEF CountersInv
<1>4. ASSUME NEW c \in Clients, NEW q \in Requests, Request(c, q) PROVE CountersInv'
  <2>1. PICK k : k = [at |-> "queued", request |-> q]
    OBVIOUS
  <2>2. conn[c] # Closed /\ k # Closed /\ conn' = [conn EXCEPT ![c] = k] /\ active' = active /\ rr' = rr
    BY <1>0, <1>4, <2>1 DEF Request
  <2> QED BY <2>2, StaysOpen DEF CountersInv
<1>5. ASSUME NEW c \in Clients, Route(c) PROVE CountersInv'
  <2>1. conn[c] # Closed
    <3>1. queue \in Seq(Waiters) /\ queue # <<>> /\ Head(queue) = c
      BY <1>5 DEF RoutingInv, QueueRight, Route
    <3>2. In(c, queue)
      BY <3>1, Served DEF RoutingInv, QueueRight
    <3> QED BY <1>0, <3>2 DEF RoutingInv, QueueRight
  <2>2. \E k : k # Closed /\ conn' = [conn EXCEPT ![c] = k]
    <3>1. CASE conn' = [conn EXCEPT ![c] = Open]
      BY <1>0, <3>1
    <3>2. ASSUME NEW r, NEW url, conn' = [conn EXCEPT ![c] = [at |-> "forward", route |-> r, url |-> url]]
          PROVE  \E k : k # Closed /\ conn' = [conn EXCEPT ![c] = k]
      <4>1. PICK k : k = [at |-> "forward", route |-> r, url |-> url]
        OBVIOUS
      <4>2. k # Closed
        BY <1>0, <4>1
      <4> QED BY <3>2, <4>1, <4>2
    <3> QED BY <1>5, <3>1, <3>2 DEF Route
  <2>3. active' = active
    BY <1>5 DEF Route
  <2>4. rr' \in 0 .. RoundRobin - 1
    <3>1. rr' = rr \/ rr' = (rr + 1) % RoundRobin
      BY <1>5 DEF Route
    <3>2. rr \in 0 .. RoundRobin - 1 /\ RoundRobin \in Nat \ {0}
      BY RoutingAssumption DEF CountersInv
    <3>3. (rr + 1) % RoundRobin \in 0 .. RoundRobin - 1
      BY <3>2
    <3> QED BY <3>1, <3>2, <3>3
  <2>5. ConnectionsCounted' /\ DOMAIN conn' = Clients
    BY <2>1, <2>2, <2>3, StaysOpen
  <2> QED BY <2>4, <2>5 DEF CountersInv
<1>6. ASSUME NEW a \in Admins, (\E change \in Changes : Submit(a, change)) \/ Apply(a)
      PROVE  CountersInv'
  BY <1>6 DEF Submit, Apply, CountersInv, ConnectionsCounted, Connected
<1>7. CASE Shutdown \/ UNCHANGED vars
  BY <1>7 DEF Shutdown, vars, CountersInv, ConnectionsCounted, Connected
<1> QED BY <1>1, <1>2, <1>3, <1>4, <1>5, <1>6, <1>7 DEF Next

\* The table, the queue and the counters stay what they are meant to be, and
\* active_connections is the number of open connections, however they end.
THEOREM ConnectionsAreCounted == Spec => [](TypeOK /\ ConnectionsCounted)
<1>1. RoutingInv /\ CountersInv => TypeOK /\ ConnectionsCounted
  <2> SUFFICES ASSUME RoutingInv, CountersInv PROVE TypeOK
    BY DEF CountersInv
  <2>1. DOMAIN table.routes \subseteq Ids
    BY DEF RoutingInv, TableRight
  <2>2. \A h \in Hosts : ToSet(table.host_index[h]) \subseteq Ids
    <3>1. TAKE h \in Hosts
    <3>2. PICK s \in Seq(Ids) : s = table.host_index[h]
      BY DEF RoutingInv, TableRight
    <3>3. \A i \in DOMAIN s : s[i] \in Ids
      OBVIOUS
    <3> QED BY <3>2, <3>3 DEF ToSet
  <2>3. ToSet(queue) \subseteq Clients \cup Admins
    <3>1. queue \in Seq(Clients \cup Admins)
      BY DEF RoutingInv, QueueRight, Waiters
    <3>2. \A i \in DOMAIN queue : queue[i] \in Clients \cup Admins
      BY <3>1
    <3> QED BY <3>2 DEF ToSet
  <2>4. active \in 0 .. Cardinality(Clients)
    <3>1. Connected \in SUBSET Clients /\ IsFiniteSet(Clients)
      BY RoutingAssumption DEF Connected
    <3>2. /\ Cardinality(Connected) \in Nat /\ Cardinality(Clients) \in Nat
          /\ Cardinality(Connected) <= Cardinality(Clients)
      BY <3>1, FS_Subset, FS_CardinalityType
    <3> QED BY <3>2 DEF CountersInv, ConnectionsCounted
  <2> QED BY <2>1, <2>2, <2>3, <2>4 DEF TypeOK, CountersInv
<1> QED BY <1>1, RoutingStarts, RoutingSteps, CountersStart, CountersKeep, PTL DEF Spec
=============================================================================
