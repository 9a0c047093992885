--------------------------- MODULE EdgeTlsProofs ---------------------------
(* Theorems about the edge's certificates, for every number of tasks,      *)
(* handshakes, domains and orders: the token the CA comes for is there,    *)
(* and what the stores and the caches have for a domain is a certificate   *)
(* that was issued for it.                                                 *)
EXTENDS EdgeTls, SequenceTheorems, TLAPS

Cert == [domain : Domains, kind : {"acme", "import"},
         age : {"none", "fresh", "expiring", "expired"}, usable : BOOLEAN]

\* A certificate that was issued for the domain; a key rustls takes.
Issued(id, d) == id \in DOMAIN certs /\ certs[id].age # "none" /\ certs[id].domain = d
Usable(id, d) == Issued(id, d) /\ certs[id].usable
\* An order the CA has not answered yet.
Open(id)      == id \in DOMAIN certs /\ certs[id].age = "none"
Ordered(id, d) == Open(id) /\ certs[id].domain = d

Challenged == {"validate", "finalize"}
Carrying   == {"put", "insert", "refill", "key"}
Places     == Challenged \cup Carrying \cup {"order", "delete", "warm", "fetch"}

\* What a task and a handshake have in hand.
TaskRight(p) ==
    \/ p = Idle \/ p = [at |-> "scan"]
    \/ /\ p \in [at : Places, domain : Domains, id : Nat]
       /\ p.at \in Challenged => Ordered(p.id, p.domain)
       /\ p.at = "validate" => p.id \in tokens
       /\ p.at \in Carrying => Issued(p.id, p.domain)
ConnRight(k) ==
    \/ k = Idle \/ k \in [at : {"miss"}, domain : Domains]
    \/ /\ k \in [at : {"keep"}, domain : Domains, id : Int]
       /\ k.id = Temp \/ Usable(k.id, k.domain)

CertsRight == certs \in Seq(Cert) /\ Len(certs) <= MaxCerts
StoresRight ==
    /\ store \in [Domains -> Nat] /\ cache \in [Domains -> Nat] /\ cert_cache \in [Domains -> Int]
    /\ \A d \in Domains :
          /\ store[d] = None \/ Issued(store[d], d)
          /\ cache[d] = None \/ Issued(cache[d], d)
          /\ cert_cache[d] \in {None, Temp} \/ Usable(cert_cache[d], d)
TokensOpen == \A n \in tokens : Open(n)
\* Of two tasks with a challenge each has an order of its own.
TasksRight ==
    /\ DOMAIN pc = Tasks /\ \A t \in Tasks : TaskRight(pc[t])
    /\ \A t, u \in Tasks :
          t # u /\ pc[t].at \in Challenged /\ pc[u].at \in Challenged => pc[t].id # pc[u].id
ConnsRight == DOMAIN conn = Conns /\ \A c \in Conns : ConnRight(conn[c])

TlsInv ==
    /\ CertsRight /\ StoresRight /\ TokensOpen /\ todo \subseteq Domains
    /\ TasksRight /\ ConnsRight

-----------------------------------------------------------------------------
\* Certificates are added, issued and age, and are never taken back.
CertsGrow ==
    /\ \A n \in DOMAIN certs :
          /\ n \in DOMAIN certs' /\ certs'[n].domain = certs[n].domain
          /\ certs[n].age # "none" => certs'[n].age # "none" /\ certs'[n].usable = certs[n].usable

LEMMA IssuedStays ==
    ASSUME CertsGrow
    PROVE  /\ \A id, d : Issued(id, d) => Issued(id, d)'
           /\ \A id, d : Usable(id, d) => Usable(id, d)'
BY DEF CertsGrow, Issued, Usable

LEMMA OthersStay ==
    ASSUME CertsGrow, StoresRight, ConnsRight
    PROVE  /\ UNCHANGED <<store, cache, cert_cache>> => StoresRight'
           /\ UNCHANGED conn => ConnsRight'
<1>1. UNCHANGED <<store, cache, cert_cache>> => StoresRight'
  <2> SUFFICES ASSUME UNCHANGED <<store, cache, cert_cache>> PROVE StoresRight'
    OBVIOUS
  <2>1. ASSUME NEW d \in Domains
        PROVE  (/\ store[d] = None \/ Issued(store[d], d)
                /\ cache[d] = None \/ Issued(cache[d], d)
                /\ cert_cache[d] \in {None, Temp} \/ Usable(cert_cache[d], d))'
    BY IssuedStays DEF StoresRight, Issued, Usable, None, Temp
  <2> QED BY <2>1 DEF StoresRight
<1>2. UNCHANGED conn => ConnsRight'
  <2> SUFFICES ASSUME UNCHANGED conn, NEW c \in Conns PROVE (ConnRight(conn[c]))'
    BY DEF ConnsRight
  <2>1. PICK k : k = conn[c]
    OBVIOUS
  <2>2. ConnRight(k)
    BY <2>1 DEF ConnsRight
  <2>3. ConnRight(k)'
    BY <2>2, IssuedStays DEF ConnRight, Idle, Temp
  <2> QED BY <2>1, <2>3 DEF ConnRight, Usable, Issued
<1> QED BY <1>1, <1>2

\* One task goes on; the challenges of the others are not touched.
LEMMA TaskGoes ==
    ASSUME TasksRight, CertsGrow, NEW t \in Tasks, NEW p, pc' = [pc EXCEPT ![t] = p],
           TaskRight(p)',
           \A u \in Tasks \ {t} : pc[u].at \in Challenged =>
               /\ Open(pc[u].id) => certs'[pc[u].id].age = "none"
               /\ pc[u].id \in tokens => pc[u].id \in tokens',
           p.at \in Challenged =>
               \A u \in Tasks \ {t} : pc[u].at \in Challenged => pc[u].id # p.id
    PROVE  TasksRight'
<1>1. /\ DOMAIN pc' = Tasks /\ pc'[t] = p /\ \A u \in Tasks \ {t} : pc'[u] = pc[u]
  BY DEF TasksRight
<1>2. ASSUME NEW u \in Tasks PROVE (TaskRight(pc[u]))'
  <2>1. CASE u = t
    <3>1. PICK q : q = pc'[u]
      OBVIOUS
    <3>2. TaskRight(q)'
      BY <1>1, <2>1, <3>1
    <3> QED BY <3>1, <3>2 DEF TaskRight, Ordered, Open, Issued
  <2>2. CASE u # t
    <3>1. PICK q : q = pc[u]
      OBVIOUS
    <3>2. TaskRight(q) /\ pc'[u] = q
      BY <1>1, <2>2, <3>1 DEF TasksRight
    <3>3. q.at \in Challenged =>
             /\ Open(q.id) => certs'[q.id].age = "none"
             /\ q.id \in tokens => q.id \in tokens'
      BY <2>2, <3>1
    <3>4. Open(q.id) => q.id \in DOMAIN certs' /\ certs'[q.id].domain = certs[q.id].domain
      BY DEF Open, CertsGrow
    <3>5. TaskRight(q)'
      BY <3>2, <3>3, <3>4, IssuedStays
         DEF TaskRight, Ordered, Open, Idle, Challenged, Carrying, Places
    <3> QED BY <3>2, <3>5 DEF TaskRight, Ordered, Open, Issued
  <2> QED BY <2>1, <2>2
<1>3. \A u, v \in Tasks :
         u # v /\ pc'[u].at \in Challenged /\ pc'[v].at \in Challenged => pc'[u].id # pc'[v].id
  BY <1>1 DEF TasksRight
<1> QED BY <1>1, <1>2, <1>3 DEF TasksRight

\* Steps that leave the certificates and the tokens alone.
LEMMA QuietStep ==
    ASSUME TlsInv, UNCHANGED <<certs, tokens>>
    PROVE  /\ CertsRight' /\ TokensOpen' /\ CertsGrow
           /\ \A id, d : Issued(id, d)' <=> Issued(id, d)
           /\ \A id, d : Usable(id, d)' <=> Usable(id, d)
           /\ \A p : TaskRight(p)' <=> TaskRight(p)
           /\ \A k : ConnRight(k)' <=> ConnRight(k)
BY DEF TlsInv, CertsRight, TokensOpen, Open, Ordered, CertsGrow, Issued, Usable, TaskRight, ConnRight,
   Cert, Idle, Temp, Challenged, Carrying, Places

LEMMA QuietTask ==
    ASSUME TlsInv, UNCHANGED <<certs, tokens>>, NEW t \in Tasks, NEW p,
           pc' = [pc EXCEPT ![t] = p], TaskRight(p),
           p.at \in Challenged => pc[t].at \in Challenged /\ p.id = pc[t].id
    PROVE  TasksRight'
<1>1. TasksRight /\ CertsGrow /\ TaskRight(p)'
  BY QuietStep DEF TlsInv
<1>2. \A u \in Tasks \ {t} : pc[u].at \in Challenged =>
         /\ Open(pc[u].id) => certs'[pc[u].id].age = "none"
         /\ pc[u].id \in tokens => pc[u].id \in tokens'
  BY DEF Open
<1>3. p.at \in Challenged =>
         \A u \in Tasks \ {t} : pc[u].at \in Challenged => pc[u].id # p.id
  BY DEF TlsInv, TasksRight
<1> QED BY <1>1, <1>2, <1>3, TaskGoes

\* What a task that is at a place has in hand.
LEMMA InHand ==
    ASSUME TlsInv, NEW t \in Tasks, pc[t].at \in Places
    PROVE  /\ pc[t] \in [at : Places, domain : Domains, id : Nat]
           /\ pc[t].at \in Challenged => Ordered(pc[t].id, pc[t].domain)
           /\ pc[t].at = "validate" => pc[t].id \in tokens
           /\ pc[t].at \in Carrying => Issued(pc[t].id, pc[t].domain)
BY DEF TlsInv, TasksRight, TaskRight, Places, Challenged, Carrying, Idle

\* Where request_certificate returns to.
LEMMA Returns ==
    ASSUME TlsInv, UNCHANGED <<certs, tokens>>, NEW t \in Tasks, pc[t].at \in Places,
           NEW ok \in BOOLEAN, Return(t, ok)
    PROVE  TasksRight'
<1>1. TaskRight(Idle) /\ TaskRight([at |-> "scan"])
  BY DEF TaskRight
<1>2. Idle.at \notin Challenged /\ [at |-> "scan"].at \notin Challenged
  BY DEF Idle, Challenged
<1>3. PICK q : q = [pc[t] EXCEPT !.at = "warm"]
  OBVIOUS
<1>4. TaskRight(q) /\ q.at = "warm" /\ q.at \notin Challenged
  BY <1>3, InHand DEF TaskRight, Places, Challenged, Carrying
<1>5. \/ pc' = [pc EXCEPT ![t] = Idle] \/ pc' = [pc EXCEPT ![t] = [at |-> "scan"]]
      \/ pc' = [pc EXCEPT ![t] = q]
  BY <1>3 DEF Return, Step, TlsInv, TasksRight
<1> QED BY <1>1, <1>2, <1>4, <1>5, QuietTask

\* Steps of a task in which only its place changes, and todo.
LEMMA OnlyTasks ==
    ASSUME TlsInv, UNCHANGED <<certs, store, cache, cert_cache, tokens, conn>>, TasksRight',
           todo' \subseteq Domains
    PROVE  TlsInv'
BY QuietStep, OthersStay DEF TlsInv

\* One store or cache gets a certificate of the domain, or loses it.
LEMMA StoreGets ==
    ASSUME TlsInv, UNCHANGED <<certs, tokens>>, NEW d \in Domains, NEW id,
           \/ /\ store' = [store EXCEPT ![d] = id] /\ UNCHANGED <<cache, cert_cache>>
              /\ id = None \/ Issued(id, d)
           \/ /\ cache' = [cache EXCEPT ![d] = id] /\ UNCHANGED <<store, cert_cache>>
              /\ id = None \/ Issued(id, d)
           \/ /\ cert_cache' = [cert_cache EXCEPT ![d] = id] /\ UNCHANGED <<store, cache>>
              /\ id \in {None, Temp} \/ Usable(id, d)
    PROVE  StoresRight'
<1>1. Issued(id, d) => id \in Nat
  BY DEF TlsInv, CertsRight, Issued
<1>2. Usable(id, d) => id \in Nat
  BY <1>1 DEF Usable
<1>3. /\ store' \in [Domains -> Nat] /\ cache' \in [Domains -> Nat]
      /\ cert_cache' \in [Domains -> Int]
  BY <1>1, <1>2 DEF TlsInv, StoresRight, None, Temp
<1>4. ASSUME NEW e \in Domains
      PROVE  /\ store'[e] = None \/ Issued(store'[e], e)
             /\ cache'[e] = None \/ Issued(cache'[e], e)
             /\ cert_cache'[e] \in {None, Temp} \/ Usable(cert_cache'[e], e)
  BY DEF TlsInv, StoresRight
<1> QED BY <1>3, <1>4 DEF StoresRight, Issued, Usable

\* Steps that change a store or a cache and where a task is.
LEMMA OnlyStores ==
    ASSUME TlsInv, UNCHANGED <<certs, tokens, conn, todo>>, TasksRight', StoresRight'
    PROVE  TlsInv'
BY QuietStep, OthersStay DEF TlsInv

LEMMA ProvisionKeeps ==
    ASSUME TlsInv, NEW t \in Tasks, NEW d \in Domains, Provision(t, d)
    PROVE  TlsInv'
<1>1. PICK q : q = [at |-> "order", domain |-> d, id |-> None]
  OBVIOUS
<1>2. TaskRight(q) /\ q.at \notin Challenged
  BY <1>1 DEF TaskRight, Challenged, Carrying, Places, None
<1>3. TasksRight'
  BY <1>1, <1>2, QuietTask DEF Provision, With
<1> QED BY <1>3, OnlyTasks DEF Provision, TlsInv

LEMMA FailuresKeep ==
    ASSUME TlsInv, NEW t \in Tasks, OrderFails(t) \/ AcmeFails(t)
    PROVE  TlsInv'
<1>1. pc[t].at \in Places
  BY DEF OrderFails, AcmeFails, Places, Challenged
<1>2. TasksRight'
  BY <1>1, Returns DEF OrderFails, AcmeFails
<1> QED BY <1>2, OnlyTasks DEF OrderFails, AcmeFails, TlsInv

LEMMA ValidatedKeeps ==
    ASSUME TlsInv, NEW t \in Tasks, Validated(t)
    PROVE  TlsInv'
<1>1. PICK q : q = [pc[t] EXCEPT !.at = "finalize"]
  OBVIOUS
<1>2. pc[t].at = "validate" /\ pc[t].at \in Places /\ pc[t].at \in Challenged
  BY DEF Validated, Places, Challenged
<1>3. TaskRight(q) /\ q.id = pc[t].id
  BY <1>1, <1>2, InHand DEF TaskRight, Places, Challenged, Carrying
<1>4. pc' = [pc EXCEPT ![t] = q]
  BY <1>1 DEF Validated, Step, TlsInv, TasksRight
<1>5. TasksRight'
  BY <1>2, <1>3, <1>4, QuietTask DEF Validated
<1> QED BY <1>5, OnlyTasks DEF Validated, TlsInv

LEMMA PutKeeps ==
    ASSUME TlsInv, NEW t \in Tasks, Put(t) PROVE TlsInv'
<1>1. PICK q : q = [pc[t] EXCEPT !.at = "insert"]
  OBVIOUS
<1>2. pc[t].at = "put" /\ pc[t].at \in Places /\ pc[t].at \in Carrying
  BY DEF Put, Places, Carrying
<1>3. TaskRight(q) /\ q.at \notin Challenged
  BY <1>1, <1>2, InHand DEF TaskRight, Places, Challenged, Carrying
<1>4. pc' = [pc EXCEPT ![t] = q]
  BY <1>1 DEF Put, Step, TlsInv, TasksRight
<1>5. TasksRight'
  BY <1>3, <1>4, QuietTask DEF Put
<1>6. pc[t].domain \in Domains /\ Issued(pc[t].id, pc[t].domain)
  BY <1>2, InHand
<1>7. StoresRight'
  BY <1>6, StoreGets DEF Put
<1> QED BY <1>5, <1>7, OnlyStores DEF Put

LEMMA InsertKeeps ==
    ASSUME TlsInv, NEW t \in Tasks, Insert(t) PROVE TlsInv'
<1>1. pc[t].at \in Places /\ pc[t].at \in Carrying
  BY DEF Insert, Places, Carrying
<1>2. TasksRight'
  BY <1>1, Returns DEF Insert
<1>3. pc[t].domain \in Domains /\ Issued(pc[t].id, pc[t].domain)
  BY <1>1, InHand
<1>4. StoresRight'
  BY <1>3, StoreGets DEF Insert
<1> QED BY <1>2, <1>4, OnlyStores DEF Insert

LEMMA RevokeKeeps ==
    ASSUME TlsInv, NEW t \in Tasks, NEW d \in Domains, Revoke(t, d) PROVE TlsInv'
<1>1. PICK q : q = [at |-> "delete", domain |-> d, id |-> None]
  OBVIOUS
<1>2. TaskRight(q) /\ q.at \notin Challenged
  BY <1>1 DEF TaskRight, Challenged, Carrying, Places, None
<1>3. TasksRight'
  BY <1>1, <1>2, QuietTask DEF Revoke, With
<1>4. StoresRight'
  BY StoreGets DEF Revoke
<1> QED BY <1>3, <1>4, OnlyStores DEF Revoke

LEMMA DeleteKeeps ==
    ASSUME TlsInv, NEW t \in Tasks, Delete(t) PROVE TlsInv'
<1>1. pc[t].at \in Places
  BY DEF Delete, Places
<1>2. TaskRight(Idle) /\ Idle.at \notin Challenged
  BY DEF TaskRight, Idle, Challenged
<1>3. TasksRight'
  BY <1>2, QuietTask DEF Delete
<1>4. pc[t].domain \in Domains
  BY <1>1, InHand
<1>5. StoresRight'
  BY <1>4, StoreGets DEF Delete
<1> QED BY <1>3, <1>5, OnlyStores DEF Delete

\* The four steps of warm_cache.
LEMMA WarmReadKeeps ==
    ASSUME TlsInv, NEW t \in Tasks, WarmRead(t) PROVE TlsInv'
<1>1. pc[t].at = "warm" /\ pc[t].at \in Places
  BY DEF WarmRead, Places
<1>2. PICK p : p = pc[t]
  OBVIOUS
<1>3. p \in [at : Places, domain : Domains, id : Nat]
  BY <1>1, <1>2, InHand
<1>4. CASE Valid(cache[p.domain])
  <2>1. PICK q : q = [at |-> "key", domain |-> p.domain, id |-> cache[p.domain]]
    OBVIOUS
  <2>2. Issued(cache[p.domain], p.domain) /\ cache[p.domain] \in Nat
    BY <1>3, <1>4 DEF TlsInv, StoresRight, Valid, None
  <2>3. TaskRight(q) /\ q.at \notin Challenged
    BY <1>3, <2>1, <2>2 DEF TaskRight, Challenged, Carrying, Places
  <2>4. TasksRight'
    BY <1>2, <1>4, <2>1, <2>3, QuietTask DEF WarmRead, With
  <2> QED BY <2>4, OnlyTasks DEF WarmRead, TlsInv
<1>5. CASE ~Valid(cache[p.domain])
  <2>1. PICK q : q = [p EXCEPT !.at = "fetch"]
    OBVIOUS
  <2>2. TaskRight(q) /\ q.at \notin Challenged
    BY <1>3, <2>1 DEF TaskRight, Challenged, Carrying, Places
  <2>3. pc' = [pc EXCEPT ![t] = q]
    BY <1>2, <1>5, <2>1 DEF WarmRead, Step, TlsInv, TasksRight
  <2>4. TasksRight'
    BY <2>2, <2>3, QuietTask DEF WarmRead
  <2> QED BY <2>4, OnlyTasks DEF WarmRead, TlsInv
<1> QED BY <1>4, <1>5

LEMMA WarmFetchKeeps ==
    ASSUME TlsInv, NEW t \in Tasks, WarmFetch(t) PROVE TlsInv'
<1>1. pc[t].at = "fetch" /\ pc[t].at \in Places
  BY DEF WarmFetch, Places, Carrying
<1>2. PICK p : p = pc[t]
  OBVIOUS
<1>3. p \in [at : Places, domain : Domains, id : Nat]
  BY <1>1, <1>2, InHand
<1>4. CASE Valid(store[p.domain])
  <2>1. PICK q : q = [at |-> "refill", domain |-> p.domain, id |-> store[p.domain]]
    OBVIOUS
  <2>2. Issued(store[p.domain], p.domain) /\ store[p.domain] \in Nat
    BY <1>3, <1>4 DEF TlsInv, StoresRight, Valid, None
  <2>3. TaskRight(q) /\ q.at \notin Challenged
    BY <1>3, <2>1, <2>2 DEF TaskRight, Challenged, Carrying, Places
  <2>4. TasksRight'
    BY <1>2, <1>4, <2>1, <2>3, QuietTask DEF WarmFetch, With
  <2> QED BY <2>4, OnlyTasks DEF WarmFetch, TlsInv
<1>5. CASE ~Valid(store[p.domain])
  <2>1. TaskRight(Idle) /\ Idle.at \notin Challenged
    BY DEF TaskRight, Idle, Challenged
  <2>2. TasksRight'
    BY <1>2, <1>5, <2>1, QuietTask DEF WarmFetch
  <2> QED BY <2>2, OnlyTasks DEF WarmFetch, TlsInv
<1> QED BY <1>4, <1>5

LEMMA WarmRefillKeeps ==
    ASSUME TlsInv, NEW t \in Tasks, WarmRefill(t) PROVE TlsInv'
<1>1. PICK q : q = [pc[t] EXCEPT !.at = "key"]
  OBVIOUS
<1>2. pc[t].at = "refill" /\ pc[t].at \in Places /\ pc[t].at \in Carrying
  BY DEF WarmRefill, Places, Carrying
<1>3. TaskRight(q) /\ q.at \notin Challenged
  BY <1>1, <1>2, InHand DEF TaskRight, Places, Challenged, Carrying
<1>4. pc' = [pc EXCEPT ![t] = q]
  BY <1>1 DEF WarmRefill, Step, TlsInv, TasksRight
<1>5. TasksRight'
  BY <1>3, <1>4, QuietTask DEF WarmRefill
<1>6. pc[t].domain \in Domains /\ Issued(pc[t].id, pc[t].domain)
  BY <1>2, InHand
<1>7. StoresRight'
  BY <1>6, StoreGets DEF WarmRefill
<1> QED BY <1>5, <1>7, OnlyStores DEF WarmRefill

LEMMA WarmKeyKeeps ==
    ASSUME TlsInv, NEW t \in Tasks, WarmKey(t) PROVE TlsInv'
<1>1. pc[t].at \in Places /\ pc[t].at \in Carrying
  BY DEF WarmKey, Places, Carrying
<1>2. TaskRight(Idle) /\ Idle.at \notin Challenged
  BY DEF TaskRight, Idle, Challenged
<1>3. TasksRight'
  BY <1>2, QuietTask DEF WarmKey
<1>4. PICK d, id : d = pc[t].domain /\ id = pc[t].id
  OBVIOUS
<1>5. d \in Domains /\ Issued(id, d)
  BY <1>1, <1>4, InHand
<1>6. StoresRight'
  <2>1. CASE to_rustls_cert(id)
    <3>1. cert_cache' = [cert_cache EXCEPT ![d] = id] /\ Usable(id, d)
      BY <1>4, <1>5, <2>1 DEF WarmKey, Usable, to_rustls_cert
    <3> QED BY <1>5, <3>1, StoreGets DEF WarmKey
  <2>2. CASE ~to_rustls_cert(id)
    <3>1. UNCHANGED cert_cache
      BY <1>4, <1>5, <2>2 DEF WarmKey, TlsInv, StoresRight
    <3> QED BY <3>1, QuietStep, OthersStay DEF WarmKey, TlsInv
  <2> QED BY <2>1, <2>2
<1> QED BY <1>3, <1>6, OnlyStores DEF WarmKey

LEMMA RenewalKeeps ==
    ASSUME TlsInv, Renewal PROVE TlsInv'
<1>1. /\ TaskRight(Idle) /\ Idle.at \notin Challenged
      /\ TaskRight([at |-> "scan"]) /\ [at |-> "scan"].at \notin Challenged
  BY DEF TaskRight, Idle, Challenged
<1>2. Worker \in Tasks
  BY DEF Tasks
<1>3. CASE WorkerTick
  <2>1. TasksRight'
    BY <1>1, <1>2, <1>3, QuietTask DEF WorkerTick
  <2> QED BY <1>3, <2>1, OnlyTasks DEF WorkerTick
<1>4. ASSUME NEW d \in Domains, WorkerScan(d) PROVE TlsInv'
  <2>1. PICK q : q = [at |-> "order", domain |-> d, id |-> None]
    OBVIOUS
  <2>2. TaskRight(q) /\ q.at \notin Challenged
    BY <2>1 DEF TaskRight, Challenged, Carrying, Places, None
  <2>3. CASE needs_renewal(store[d])
    <3>1. TasksRight'
      BY <1>2, <1>4, <2>1, <2>2, <2>3, QuietTask DEF WorkerScan, With
    <3> QED BY <1>4, <3>1, OnlyTasks DEF WorkerScan, TlsInv
  <2>4. CASE ~needs_renewal(store[d])
    <3>1. UNCHANGED <<certs, tokens, pc>>
      BY <1>4, <2>4 DEF WorkerScan
    <3>2. TasksRight'
      BY <3>1, QuietStep DEF TlsInv, TasksRight, TaskRight, Ordered, Open, Issued
    <3> QED BY <1>4, <3>2, OnlyTasks DEF WorkerScan, TlsInv
  <2> QED BY <2>3, <2>4
<1>5. CASE WorkerDone
  <2>1. TasksRight'
    BY <1>1, <1>2, <1>5, QuietTask DEF WorkerDone
  <2> QED BY <1>5, <2>1, OnlyTasks DEF WorkerDone, TlsInv
<1> QED BY <1>3, <1>4, <1>5 DEF Renewal

-----------------------------------------------------------------------------
\* Steps that add a certificate or change one.
LEMMA Added ==
    ASSUME TlsInv, NEW r \in Cert, Len(certs) + 1 <= MaxCerts, certs' = Append(certs, r)
    PROVE  /\ CertsRight' /\ CertsGrow
           /\ Len(certs) + 1 \in Nat \ DOMAIN certs
           /\ Len(certs) + 1 \in DOMAIN certs' /\ certs'[Len(certs) + 1] = r
           /\ \A n \in DOMAIN certs : n \in DOMAIN certs' /\ certs'[n] = certs[n]
<1>1. certs \in Seq(Cert)
  BY DEF TlsInv, CertsRight
<1>2. certs' \in Seq(Cert)
  BY <1>1
<1>3. /\ Len(certs') = Len(certs) + 1 /\ Len(certs) \in Nat
      /\ DOMAIN certs = 1 .. Len(certs) /\ DOMAIN certs' = 1 .. Len(certs')
      /\ certs'[Len(certs) + 1] = r
      /\ \A n \in 1 .. Len(certs) : certs'[n] = certs[n]
  BY <1>1, <1>2, AppendProperties
<1>4. \A n \in DOMAIN certs : n \in DOMAIN certs' /\ certs'[n] = certs[n]
  BY <1>3
<1>5. CertsRight' /\ CertsGrow
  BY <1>2, <1>3, <1>4 DEF CertsRight, CertsGrow
<1> QED BY <1>3, <1>4, <1>5

LEMMA Changed ==
    ASSUME TlsInv, NEW n \in DOMAIN certs, NEW r \in Cert, certs' = [certs EXCEPT ![n] = r],
           r.domain = certs[n].domain, r.age # "none",
           certs[n].age # "none" => r.usable = certs[n].usable
    PROVE  /\ CertsRight' /\ CertsGrow
           /\ n \in DOMAIN certs' /\ certs'[n] = r
           /\ \A m \in DOMAIN certs : m # n => certs'[m] = certs[m]
           /\ DOMAIN certs' = DOMAIN certs
<1>1. certs \in Seq(Cert) /\ Len(certs) <= MaxCerts
  BY DEF TlsInv, CertsRight
<1>2. certs' \in Seq(Cert) /\ Len(certs') = Len(certs)
  BY <1>1
<1>3. /\ DOMAIN certs' = DOMAIN certs /\ certs'[n] = r
      /\ \A m \in DOMAIN certs : m # n => certs'[m] = certs[m]
  BY <1>1
<1> QED BY <1>1, <1>2, <1>3 DEF CertsRight, CertsGrow

LEMMA Challenges ==
    ASSUME TlsInv, NEW u \in Tasks, pc[u].at \in Challenged
    PROVE  pc[u].id \in DOMAIN certs /\ certs[pc[u].id].age = "none"
BY InHand DEF Places, Ordered, Open

LEMMA OrderKeeps ==
    ASSUME TlsInv, NEW t \in Tasks, Order(t) PROVE TlsInv'
<1>1. PICK d, id, r, q : /\ d = pc[t].domain /\ id = Len(certs) + 1
                         /\ r = [domain |-> d, kind |-> "acme", age |-> "none", usable |-> FALSE]
                         /\ q = [at |-> "validate", domain |-> d, id |-> id]
  OBVIOUS
<1>2. pc[t].at \in Places
  BY DEF Order, Places
<1>3. d \in Domains /\ r \in Cert
  BY <1>1, <1>2, InHand DEF Cert
<1>4. certs' = Append(certs, r) /\ tokens' = tokens \cup {id} /\ pc' = [pc EXCEPT ![t] = q]
      /\ UNCHANGED <<store, cache, cert_cache, todo, conn>> /\ id <= MaxCerts
  BY <1>1 DEF Order, With
<1>5. /\ CertsRight' /\ CertsGrow /\ id \in Nat \ DOMAIN certs
      /\ id \in DOMAIN certs' /\ certs'[id] = r
      /\ \A n \in DOMAIN certs : n \in DOMAIN certs' /\ certs'[n] = certs[n]
  BY <1>1, <1>3, <1>4, Added
<1>6. TokensOpen'
  <2> SUFFICES ASSUME NEW n \in tokens' PROVE n \in DOMAIN certs' /\ certs'[n].age = "none"
    BY DEF TokensOpen, Open
  <2> QED BY <1>1, <1>4, <1>5 DEF TlsInv, TokensOpen, Open
<1>7. TaskRight(q)'
  BY <1>1, <1>3, <1>4, <1>5 DEF TaskRight, Ordered, Open, Challenged, Carrying, Places
<1>8. \A u \in Tasks \ {t} : pc[u].at \in Challenged =>
         /\ Open(pc[u].id) => certs'[pc[u].id].age = "none"
         /\ pc[u].id \in tokens => pc[u].id \in tokens'
  BY <1>4, <1>5 DEF Open
<1>9. \A u \in Tasks \ {t} : pc[u].at \in Challenged => pc[u].id # q.id
  BY <1>1, <1>5, Challenges
<1>10. TasksRight'
  BY <1>4, <1>5, <1>7, <1>8, <1>9, TaskGoes DEF TlsInv
<1> QED BY <1>4, <1>5, <1>6, <1>10, OthersStay DEF TlsInv

LEMMA ImportKeeps ==
    ASSUME TlsInv, NEW t \in Tasks, NEW d \in Domains, NEW usable \in BOOLEAN,
           Import(t, d, usable)
    PROVE  TlsInv'
<1>1. PICK id, r, q : /\ id = Len(certs) + 1
                      /\ r = [domain |-> d, kind |-> "import", age |-> "fresh", usable |-> usable]
                      /\ q = [at |-> "put", domain |-> d, id |-> id]
  OBVIOUS
<1>2. Len(certs) \in Nat /\ MaxCerts \in Nat
  BY TlsAssumption DEF TlsInv, CertsRight
<1>3. r \in Cert
  BY <1>1 DEF Cert
<1>4. certs' = Append(certs, r) /\ pc' = [pc EXCEPT ![t] = q] /\ id <= MaxCerts
      /\ UNCHANGED <<store, cache, cert_cache, tokens, todo, conn>>
  BY <1>1, <1>2 DEF Import, With
<1>5. /\ CertsRight' /\ CertsGrow /\ id \in Nat \ DOMAIN certs
      /\ id \in DOMAIN certs' /\ certs'[id] = r
      /\ \A n \in DOMAIN certs : n \in DOMAIN certs' /\ certs'[n] = certs[n]
  BY <1>1, <1>3, <1>4, Added
<1>6. TokensOpen'
  BY <1>4, <1>5 DEF TlsInv, TokensOpen, Open
<1>7. TaskRight(q)' /\ q.at \notin Challenged
  BY <1>1, <1>3, <1>5 DEF TaskRight, Issued, Challenged, Carrying, Places
<1>8. \A u \in Tasks \ {t} : pc[u].at \in Challenged =>
         /\ Open(pc[u].id) => certs'[pc[u].id].age = "none"
         /\ pc[u].id \in tokens => pc[u].id \in tokens'
  BY <1>4, <1>5 DEF Open
<1>9. TasksRight'
  BY <1>4, <1>5, <1>7, <1>8, TaskGoes DEF TlsInv
<1> QED BY <1>4, <1>5, <1>6, <1>9, OthersStay DEF TlsInv

LEMMA IssueKeeps ==
    ASSUME TlsInv, NEW t \in Tasks, Issue(t) PROVE TlsInv'
<1>0. PICK p : p = pc[t]
  OBVIOUS
<1>1. PICK usable \in BOOLEAN :
          p = pc[t] /\ certs' = [certs EXCEPT ![p.id].age = "fresh", ![p.id].usable = usable]
  BY <1>0 DEF Issue
<1>2. pc[t].at = "finalize" /\ pc[t].at \in Places /\ pc[t].at \in Challenged
  BY DEF Issue, Places, Challenged
<1>3. p \in [at : Places, domain : Domains, id : Nat] /\ Ordered(p.id, p.domain)
  BY <1>1, <1>2, InHand
<1>4. PICK n, c, r : n = p.id /\ c = certs[n] /\ r = [c EXCEPT !.age = "fresh", !.usable = usable]
  OBVIOUS
<1>5. n \in DOMAIN certs /\ c \in Cert /\ c.age = "none" /\ c.domain = p.domain
  BY <1>3, <1>4 DEF Ordered, Open, TlsInv, CertsRight
<1>6. r \in Cert /\ r.age = "fresh" /\ r.domain = p.domain
  BY <1>1, <1>4, <1>5 DEF Cert
<1>7. certs' = [certs EXCEPT ![n] = r]
  BY <1>1, <1>4, <1>5, <1>6 DEF TlsInv, CertsRight
<1>8. /\ CertsRight' /\ CertsGrow /\ n \in DOMAIN certs' /\ certs'[n] = r
      /\ \A m \in DOMAIN certs : m # n => certs'[m] = certs[m]
      /\ DOMAIN certs' = DOMAIN certs
  BY <1>4, <1>5, <1>6, <1>7, Changed
<1>9. PICK q : q = [p EXCEPT !.at = "put"]
  OBVIOUS
<1>10. /\ tokens' = tokens \ {n} /\ pc' = [pc EXCEPT ![t] = q]
       /\ UNCHANGED <<store, cache, cert_cache, todo, conn>>
  BY <1>1, <1>4, <1>9 DEF Issue, Step, TlsInv, TasksRight
<1>11. TokensOpen'
  BY <1>8, <1>10 DEF TlsInv, TokensOpen, Open
<1>12. TaskRight(q)' /\ q.at \notin Challenged
  BY <1>3, <1>4, <1>6, <1>8, <1>9 DEF TaskRight, Issued, Challenged, Carrying, Places
<1>13. \A u \in Tasks \ {t} : pc[u].at \in Challenged =>
          /\ Open(pc[u].id) => certs'[pc[u].id].age = "none"
          /\ pc[u].id \in tokens => pc[u].id \in tokens'
  <2> SUFFICES ASSUME NEW u \in Tasks \ {t}, pc[u].at \in Challenged
               PROVE  /\ Open(pc[u].id) => certs'[pc[u].id].age = "none"
                      /\ pc[u].id \in tokens => pc[u].id \in tokens'
    OBVIOUS
  <2>1. pc[u].id # n
    BY <1>1, <1>2, <1>4 DEF TlsInv, TasksRight
  <2> QED BY <1>8, <1>10, <2>1 DEF Open
<1>14. TasksRight'
  BY <1>8, <1>10, <1>12, <1>13, TaskGoes DEF TlsInv
<1> QED BY <1>8, <1>10, <1>11, <1>14, OthersStay DEF TlsInv

LEMMA AgeKeeps ==
    ASSUME TlsInv, NEW n \in DOMAIN certs, Age(n) PROVE TlsInv'
<1>1. PICK c, r : c = certs[n] /\ r = [c EXCEPT !.age = Older[c.age]]
  OBVIOUS
<1>2. c \in Cert /\ c.age \in {"fresh", "expiring"}
  BY <1>1 DEF Age, Older, TlsInv, CertsRight
<1>3. r \in Cert /\ r.age # "none" /\ r.domain = c.domain /\ r.usable = c.usable
  BY <1>1, <1>2 DEF Cert, Older
<1>4. certs' = [certs EXCEPT ![n] = r]
  BY <1>1, <1>2 DEF Age
<1>5. /\ CertsRight' /\ CertsGrow
      /\ \A m \in DOMAIN certs : m # n => certs'[m] = certs[m]
      /\ DOMAIN certs' = DOMAIN certs
  BY <1>1, <1>3, <1>4, Changed
<1>6. \A id : Open(id) => id \in DOMAIN certs' /\ certs'[id].age = "none"
  BY <1>1, <1>2, <1>5 DEF Open
<1>7. UNCHANGED <<store, cache, cert_cache, tokens, pc, todo, conn>>
  BY DEF Age
<1>8. TokensOpen'
  BY <1>6, <1>7 DEF TlsInv, TokensOpen, Open
<1>9. TasksRight'
  <2>1. ASSUME NEW u \in Tasks PROVE (TaskRight(pc[u]))'
    <3>1. PICK q : q = pc[u]
      OBVIOUS
    <3>2. TaskRight(q) /\ pc'[u] = q
      BY <1>7, <3>1 DEF TlsInv, TasksRight
    <3>3. Open(q.id) => q.id \in DOMAIN certs' /\ certs'[q.id].age = "none"
                        /\ certs'[q.id].domain = certs[q.id].domain
      BY <1>5, <1>6 DEF Open, CertsGrow
    <3>4. TaskRight(q)'
      BY <1>5, <1>7, <3>2, <3>3, IssuedStays
         DEF TaskRight, Ordered, Open, Idle, Challenged, Carrying, Places
    <3> QED BY <3>2, <3>4 DEF TaskRight, Ordered, Open, Issued
  <2> QED BY <1>7, <2>1 DEF TlsInv, TasksRight
<1> QED BY <1>5, <1>7, <1>8, <1>9, OthersStay DEF TlsInv

-----------------------------------------------------------------------------
\* The handshakes.
LEMMA ConnGoes ==
    ASSUME TlsInv, UNCHANGED <<certs, tokens>>, NEW c \in Conns, NEW k,
           conn' = [conn EXCEPT ![c] = k], ConnRight(k)
    PROVE  ConnsRight'
<1>1. DOMAIN conn' = Conns
  BY DEF TlsInv, ConnsRight
<1>2. ASSUME NEW e \in Conns PROVE ConnRight(conn'[e])
  BY DEF TlsInv, ConnsRight
<1> QED BY <1>1, <1>2 DEF ConnsRight, ConnRight, Usable, Issued

\* Steps of a handshake leave the tasks alone.
LEMMA TasksStay ==
    ASSUME TlsInv, UNCHANGED <<certs, tokens, pc>> PROVE TasksRight'
BY DEF TlsInv, TasksRight, TaskRight, Ordered, Open, Issued

LEMMA HelloKeeps ==
    ASSUME TlsInv, NEW c \in Conns, NEW d \in Domains, Hello(c, d) PROVE TlsInv'
<1>1. ConnRight([at |-> "miss", domain |-> d])
  BY DEF ConnRight
<1>2. ConnsRight'
  BY <1>1, ConnGoes DEF Hello
<1> QED BY <1>2, TasksStay, QuietStep, OthersStay DEF Hello, TlsInv

LEMMA ResolveKeeps ==
    ASSUME TlsInv, NEW c \in Conns, Resolve(c) PROVE TlsInv'
<1>1. PICK d : d = conn[c].domain
  OBVIOUS
<1>2. d \in Domains
  BY <1>1 DEF Resolve, TlsInv, ConnsRight, ConnRight, Idle
<1>3. PICK id : /\ conn' = [conn EXCEPT ![c] = [at |-> "keep", domain |-> d, id |-> id]]
                /\ \/ id = Temp
                   \/ id = cache[d] /\ Valid(cache[d]) /\ to_rustls_cert(cache[d])
  BY <1>1 DEF Resolve
<1>4. id \in Int /\ (id = Temp \/ Usable(id, d))
  BY <1>2, <1>3 DEF TlsInv, StoresRight, Temp, Valid, to_rustls_cert, Usable, None
<1>5. ConnRight([at |-> "keep", domain |-> d, id |-> id])
  BY <1>2, <1>4 DEF ConnRight
<1>6. ConnsRight'
  BY <1>3, <1>5, ConnGoes DEF Resolve
<1> QED BY <1>6, TasksStay, QuietStep, OthersStay DEF Resolve, TlsInv

LEMMA KeepKeeps ==
    ASSUME TlsInv, NEW c \in Conns, Keep(c) PROVE TlsInv'
<1>1. PICK d, id : d = conn[c].domain /\ id = conn[c].id
  OBVIOUS
<1>2. d \in Domains /\ (id = Temp \/ Usable(id, d))
  BY <1>1 DEF Keep, TlsInv, ConnsRight, ConnRight, Idle
<1>3. StoresRight'
  BY <1>1, <1>2, StoreGets DEF Keep
<1>4. ConnRight(Idle)
  BY DEF ConnRight
<1>5. ConnsRight'
  BY <1>4, ConnGoes DEF Keep
<1> QED BY <1>3, <1>5, TasksStay, QuietStep DEF Keep, TlsInv

-----------------------------------------------------------------------------
LEMMA TlsStarts == Init => TlsInv
<1> SUFFICES ASSUME Init PROVE TlsInv
  OBVIOUS
<1>1. CertsRight
  BY TlsAssumption DEF Init, CertsRight
<1>2. StoresRight /\ TokensOpen /\ todo \subseteq Domains
  BY DEF Init, StoresRight, TokensOpen, None
<1>3. TasksRight
  BY DEF Init, TasksRight, TaskRight, Idle, Challenged
<1>4. ConnsRight
  BY DEF Init, ConnsRight, ConnRight
<1> QED BY <1>1, <1>2, <1>3, <1>4 DEF TlsInv

LEMMA TlsSteps == TlsInv /\ [Next]_vars => TlsInv'
<1> SUFFICES ASSUME TlsInv, [Next]_vars PROVE TlsInv'
  OBVIOUS
<1>1. ASSUME NEW t \in Callers, NEW d \in Domains,
             Provision(t, d) \/ Revoke(t, d) \/ \E usable \in BOOLEAN : Import(t, d, usable)
      PROVE  TlsInv'
  BY <1>1, ProvisionKeeps, RevokeKeeps, ImportKeeps DEF Tasks
<1>2. ASSUME NEW t \in Tasks, Acme(t) PROVE TlsInv'
  BY <1>2, FailuresKeep, OrderKeeps, ValidatedKeeps, IssueKeeps DEF Acme
<1>3. ASSUME NEW t \in Tasks, Local(t) PROVE TlsInv'
  BY <1>3, PutKeeps, InsertKeeps, DeleteKeeps, WarmReadKeeps, WarmFetchKeeps, WarmRefillKeeps,
     WarmKeyKeeps DEF Local
<1>4. CASE Renewal
  BY <1>4, RenewalKeeps
<1>5. ASSUME NEW c \in Conns, (\E d \in Domains : Hello(c, d)) \/ Resolve(c) \/ Keep(c)
      PROVE  TlsInv'
  BY <1>5, HelloKeeps, ResolveKeeps, KeepKeeps
<1>6. ASSUME NEW id \in DOMAIN certs, Age(id) PROVE TlsInv'
  BY <1>6, AgeKeeps
<1>7. CASE UNCHANGED vars
  <2>1. UNCHANGED <<certs, store, cache, cert_cache, tokens, pc, todo, conn>>
    BY <1>7 DEF vars
  <2> QED BY <2>1, TasksStay, QuietStep, OthersStay DEF TlsInv
<1> QED BY <1>1, <1>2, <1>3, <1>4, <1>5, <1>6, <1>7 DEF Next

(* What the stores and the caches have for a domain was ordered or         *)
(* imported for it, and what the resolver serves rustls can use.           *)
THEOREM StoresAreTyped == Spec => []TypeOK
<1>1. TlsInv => TypeOK
  <2> SUFFICES ASSUME TlsInv PROVE TypeOK
    OBVIOUS
  <2>1. certs \in Seq(Cert) /\ Len(certs) <= MaxCerts /\ DOMAIN certs = 1 .. Len(certs)
        /\ Len(certs) \in Nat /\ MaxCerts \in Nat
    BY TlsAssumption DEF TlsInv, CertsRight
  <2>2. \A d \in Domains : store[d] \in CertIds /\ cache[d] \in CertIds
    BY <2>1 DEF TlsInv, StoresRight, Issued, CertIds, None
  <2>3. \A d \in Domains : \/ cert_cache[d] \in {None, Temp}
                           \/ certs[cert_cache[d]].usable /\ certs[cert_cache[d]].domain = d
    BY DEF TlsInv, StoresRight, Usable, Issued
  <2> QED BY <2>1, <2>2, <2>3 DEF TypeOK, TlsInv, StoresRight, TokensOpen, Open
<1> QED BY <1>1, TlsStarts, TlsSteps, PTL DEF Spec

(* request_certificate: the CA finds the token of every challenge it has   *)
(* yet to validate, and no token is left of a certificate that was issued. *)
THEOREM TokensAreThere == Spec => []TokensRight
<1>1. TlsInv => TokensRight
  <2> SUFFICES ASSUME TlsInv PROVE TokensRight
    OBVIOUS
  <2>1. \A t \in Tasks : pc[t].at = "validate" => pc[t].id \in tokens
    BY InHand DEF Places, Challenged
  <2> QED BY <2>1 DEF TokensRight, TlsInv, TokensOpen, Open, serve_http, handle_acme_challenge,
                     get_challenge_token
<1> QED BY <1>1, TlsStarts, TlsSteps, PTL DEF Spec
=============================================================================
