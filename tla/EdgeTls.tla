------------------------------ MODULE EdgeTls ------------------------------
(***************************************************************************)
(* Certificates of the edge proxy (shellwego-edge, tls.rs and the          *)
(* certificate calls of lib.rs): the manager's store and cache, the ACME   *)
(* exchange, the daily renewal worker, and the resolver that picks a       *)
(* certificate in the TLS handshake from a cache of its own.               *)
(*                                                                         *)
(* A certificate is the number of its order or import; its age is all that *)
(* matters of its dates.  Store, cache and resolver cache are behind three *)
(* locks, so every access is a step.  The store is the memory store, the   *)
(* only one EdgeProxy configures.  What the CA does is external: it may    *)
(* refuse or stay silent at any point, and validates a challenge by        *)
(* fetching its token from this proxy.                                     *)
(***************************************************************************)
EXTENDS Integers, Sequences, FiniteSets

CONSTANTS Callers,    \* tasks that provision, import and revoke
          Worker,     \* the renewal worker
          Conns,      \* TLS handshakes going on at once
          Domains,
          MaxCerts,   \* bound on the orders and imports
          MaxUnusable \* bound on those whose key or chain rustls cannot use

ASSUME TlsAssumption == MaxCerts \in Nat /\ MaxUnusable \in Nat /\ Worker \notin Callers

Temp  == -1           \* a self-signed certificate made by the resolver
None  == 0
Tasks == Callers \cup {Worker}

VARIABLES certs,      \* the orders and imports: domain, kind, age, usable
          store,      \* certificate store
          cache,      \* cache of the manager
          cert_cache, \* cache of the resolver
          tokens,     \* challenge tokens, named by their order
          pc,         \* where each task is, for which domain, with which certificate
          todo,       \* domains the worker has still to look at
          conn        \* where each handshake is

vars == <<certs, store, cache, cert_cache, tokens, pc, todo, conn>>

Idle == [at |-> "idle"]

Step(t, at)        == pc' = [pc EXCEPT ![t].at = at]
With(t, at, d, id) == pc' = [pc EXCEPT ![t] = [at |-> at, domain |-> d, id |-> id]]

\* get_certificate and resolve take a certificate that has not expired, the
\* worker looks for those close to their end or past it.
needs_renewal(id) == id # None /\ certs[id].age \in {"expiring", "expired"}
Valid(id) == id # None /\ certs[id].age \in {"fresh", "expiring"}

MayBe(usable) ==
    usable \/ Cardinality({n \in DOMAIN certs : certs[n].age # "none" /\ ~certs[n].usable}) < MaxUnusable

\* Whether rustls can take the chain and the key.
to_rustls_cert(id) == certs[id].usable

Init ==
    /\ certs = <<>>
    /\ store = [d \in Domains |-> None]
    /\ cache = [d \in Domains |-> None]
    /\ cert_cache = [d \in Domains |-> None]
    /\ tokens = {}
    /\ pc = [t \in Tasks |-> Idle]
    /\ todo = {}
    /\ conn = [c \in Conns |-> Idle]

-----------------------------------------------------------------------------
\* request_certificate

\* Where a task goes when request_certificate returns: a caller warms the
\* resolver's cache after success, the worker goes on either way.
Return(t, ok) ==
    IF t = Worker THEN pc' = [pc EXCEPT ![t] = [at |-> "scan"]]
    ELSE IF ok THEN Step(t, "warm") ELSE pc' = [pc EXCEPT ![t] = Idle]

Provision(t, d) ==
    /\ pc[t] = Idle
    /\ With(t, "order", d, None)
    /\ UNCHANGED <<certs, store, cache, cert_cache, tokens, todo, conn>>

\* Directory, nonce, account or order fails, or offers no http-01 challenge.
OrderFails(t) ==
    /\ pc[t].at = "order"
    /\ Return(t, FALSE)
    /\ UNCHANGED <<certs, store, cache, cert_cache, tokens, todo, conn>>

\* Mutant: the tokens are kept by domain, one each.
OrderOverwritesToken(t) ==
    LET id == Len(certs) + 1
        d  == pc[t].domain
    IN  /\ pc[t].at = "order" /\ id <= MaxCerts
        /\ certs' = Append(certs, [domain |-> d, kind |-> "acme", age |-> "none", usable |-> FALSE])
        /\ tokens' = {n \in tokens : certs[n].domain # d} \cup {id}
        /\ With(t, "validate", d, id)
        /\ UNCHANGED <<store, cache, cert_cache, todo, conn>>

\* The order is made and its token published.
Order(t) ==
    LET id == Len(certs) + 1
        d  == pc[t].domain
    IN  /\ pc[t].at = "order" /\ id <= MaxCerts
        /\ certs' = Append(certs, [domain |-> d, kind |-> "acme", age |-> "none", usable |-> FALSE])
        /\ tokens' = tokens \cup {id}
        /\ With(t, "validate", d, id)
        /\ UNCHANGED <<store, cache, cert_cache, todo, conn>>

\* What the HTTP listener answers to a request below the challenge path: the
\* key authorization, or as to any other a redirection to HTTPS.
get_challenge_token(id)   == id \in tokens
handle_acme_challenge(id) == get_challenge_token(id)
serve_http(id) == IF handle_acme_challenge(id) THEN "key_authorization" ELSE "redirect"

\* answer_challenge and poll_authorization: the CA has fetched the token.
Validated(t) ==
    /\ pc[t].at = "validate" /\ serve_http(pc[t].id) = "key_authorization"
    /\ Step(t, "finalize")
    /\ UNCHANGED <<certs, store, cache, cert_cache, tokens, todo, conn>>

\* Mutant: the authorization is polled without a deadline.
AcmeFailsLate(t) ==
    /\ pc[t].at = "finalize"
    /\ Return(t, FALSE)
    /\ UNCHANGED <<certs, store, cache, cert_cache, tokens, todo, conn>>

\* The CA refuses, or a poll runs into its deadline; the token stays.
AcmeFails(t) ==
    /\ pc[t].at \in {"validate", "finalize"}
    /\ Return(t, FALSE)
    /\ UNCHANGED <<certs, store, cache, cert_cache, tokens, todo, conn>>

\* Mutant: the token is not cleaned up.
IssueKeepsToken(t) ==
    /\ pc[t].at = "finalize"
    /\ \E usable \in {u \in BOOLEAN : MayBe(u)} :
         certs' = [certs EXCEPT ![pc[t].id].age = "fresh", ![pc[t].id].usable = usable]
    /\ Step(t, "put")
    /\ UNCHANGED <<store, cache, cert_cache, tokens, todo, conn>>

\* poll_until_ready, finalize_certificate and the cleanup of the token.
\* private_key_pem writes the key with the URL-safe alphabet of Base64, which
\* only a key that has none of its two special characters survives.
Issue(t) ==
    /\ pc[t].at = "finalize"
    /\ \E usable \in {u \in BOOLEAN : MayBe(u)} :
         certs' = [certs EXCEPT ![pc[t].id].age = "fresh", ![pc[t].id].usable = usable]
    /\ tokens' = tokens \ {pc[t].id}
    /\ Step(t, "put")
    /\ UNCHANGED <<store, cache, cert_cache, todo, conn>>

Put(t) ==
    /\ pc[t].at = "put"
    /\ store' = [store EXCEPT ![pc[t].domain] = pc[t].id]
    /\ Step(t, "insert")
    /\ UNCHANGED <<certs, cache, cert_cache, tokens, todo, conn>>

Insert(t) ==
    /\ pc[t].at = "insert"
    /\ cache' = [cache EXCEPT ![pc[t].domain] = pc[t].id]
    /\ Return(t, TRUE)
    /\ UNCHANGED <<certs, store, cert_cache, tokens, todo, conn>>

\* import_certificate checks that the PEMs are not empty; whether rustls
\* can use them is found out later.  It then goes through put and insert.
Import(t, d, usable) ==
    /\ pc[t] = Idle /\ Len(certs) < MaxCerts /\ MayBe(usable)
    /\ certs' = Append(certs, [domain |-> d, kind |-> "import", age |-> "fresh", usable |-> usable])
    /\ With(t, "put", d, Len(certs) + 1)
    /\ UNCHANGED <<store, cache, cert_cache, tokens, todo, conn>>

Revoke(t, d) ==
    /\ pc[t] = Idle
    /\ cache' = [cache EXCEPT ![d] = None]
    /\ With(t, "delete", d, None)
    /\ UNCHANGED <<certs, store, cert_cache, tokens, todo, conn>>

Delete(t) ==
    /\ pc[t].at = "delete"
    /\ store' = [store EXCEPT ![pc[t].domain] = None]
    /\ pc' = [pc EXCEPT ![t] = Idle]
    /\ UNCHANGED <<certs, cache, cert_cache, tokens, todo, conn>>

-----------------------------------------------------------------------------
\* warm_cache: get_certificate looks in the cache, then in the store, and
\* puts what it finds there in the cache; the key goes to the resolver.
WarmRead(t) ==
    LET id == cache[pc[t].domain]
    IN  /\ pc[t].at = "warm"
        /\ IF Valid(id) THEN With(t, "key", pc[t].domain, id) ELSE Step(t, "fetch")
        /\ UNCHANGED <<certs, store, cache, cert_cache, tokens, todo, conn>>

WarmFetch(t) ==
    LET id == store[pc[t].domain]
    IN  /\ pc[t].at = "fetch"
        /\ IF Valid(id) THEN With(t, "refill", pc[t].domain, id)
                        ELSE pc' = [pc EXCEPT ![t] = Idle]
        /\ UNCHANGED <<certs, store, cache, cert_cache, tokens, todo, conn>>

WarmRefill(t) ==
    /\ pc[t].at = "refill"
    /\ cache' = [cache EXCEPT ![pc[t].domain] = pc[t].id]
    /\ Step(t, "key")
    /\ UNCHANGED <<certs, store, cert_cache, tokens, todo, conn>>

WarmKey(t) ==
    /\ pc[t].at = "key"
    /\ cert_cache' = [cert_cache EXCEPT ![pc[t].domain] =
                         IF to_rustls_cert(pc[t].id) THEN pc[t].id ELSE @]
    /\ pc' = [pc EXCEPT ![t] = Idle]
    /\ UNCHANGED <<certs, store, cache, tokens, todo, conn>>

-----------------------------------------------------------------------------
\* The daily pass of the renewal worker over the stored domains.
WorkerTick ==
    /\ pc[Worker] = Idle
    /\ todo' = {d \in Domains : store[d] # None}
    /\ pc' = [pc EXCEPT ![Worker] = [at |-> "scan"]]
    /\ UNCHANGED <<certs, store, cache, cert_cache, tokens, conn>>

\* Mutant: an expired certificate is not renewed any more.
WorkerScanSkipsExpired(d) ==
    /\ pc[Worker].at = "scan" /\ d \in todo
    /\ todo' = todo \ {d}
    /\ IF store[d] # None /\ certs[store[d]].age = "expiring"
       THEN With(Worker, "order", d, None) ELSE UNCHANGED pc
    /\ UNCHANGED <<certs, store, cache, cert_cache, tokens, conn>>

WorkerScan(d) ==
    /\ pc[Worker].at = "scan" /\ d \in todo
    /\ todo' = todo \ {d}
    /\ IF needs_renewal(store[d])
       THEN With(Worker, "order", d, None) ELSE UNCHANGED pc
    /\ UNCHANGED <<certs, store, cache, cert_cache, tokens, conn>>

WorkerDone ==
    /\ pc[Worker].at = "scan" /\ todo = {}
    /\ pc' = [pc EXCEPT ![Worker] = Idle]
    /\ UNCHANGED <<certs, store, cache, cert_cache, tokens, todo, conn>>

-----------------------------------------------------------------------------
\* resolve: a hit in the resolver's cache is served as it is.  On a miss the
\* manager's cache is tried without waiting for its lock, and what is found
\* or made is entered in the resolver's cache.
Hello(c, d) ==
    /\ conn[c] = Idle /\ cert_cache[d] = None
    /\ conn' = [conn EXCEPT ![c] = [at |-> "miss", domain |-> d]]
    /\ UNCHANGED <<certs, store, cache, cert_cache, tokens, pc, todo>>

Contended == \E t \in Tasks : pc[t].at \in {"insert", "refill"}

Resolve(c) ==
    LET d     == conn[c].domain
        found == Valid(cache[d]) /\ to_rustls_cert(cache[d])
    IN  /\ conn[c].at = "miss"
        /\ \E id \in (IF found THEN {cache[d]} ELSE {Temp})
                         \cup (IF Contended THEN {Temp} ELSE {}) :
              conn' = [conn EXCEPT ![c] = [at |-> "keep", domain |-> d, id |-> id]]
        /\ UNCHANGED <<certs, store, cache, cert_cache, tokens, pc, todo>>

Keep(c) ==
    /\ conn[c].at = "keep"
    /\ cert_cache' = [cert_cache EXCEPT ![conn[c].domain] = conn[c].id]
    /\ conn' = [conn EXCEPT ![c] = Idle]
    /\ UNCHANGED <<certs, store, cache, tokens, pc, todo>>

\* Time passes; of two certificates of one kind the older expires first.
Older == [fresh |-> "expiring", expiring |-> "expired"]

Age(id) ==
    /\ certs[id].age \in DOMAIN Older
    /\ \A n \in 1 .. id - 1 :
          certs[n].kind = certs[id].kind => certs[n].age \notin {"none", certs[id].age}
    /\ certs' = [certs EXCEPT ![id].age = Older[certs[id].age]]
    /\ UNCHANGED <<store, cache, cert_cache, tokens, pc, todo, conn>>

Acme(t)    == OrderFails(t) \/ Order(t) \/ Validated(t) \/ AcmeFails(t) \/ Issue(t)
Local(t)   == Put(t) \/ Insert(t) \/ Delete(t) \/ WarmRead(t) \/ WarmFetch(t)
                  \/ WarmRefill(t) \/ WarmKey(t)
Renewal    == WorkerTick \/ (\E d \in Domains : WorkerScan(d)) \/ WorkerDone

Next ==
    \/ \E t \in Callers, d \in Domains :
          Provision(t, d) \/ Revoke(t, d) \/ \E usable \in BOOLEAN : Import(t, d, usable)
    \/ \E t \in Tasks : Acme(t) \/ Local(t)
    \/ Renewal
    \/ \E c \in Conns : (\E d \in Domains : Hello(c, d)) \/ Resolve(c) \/ Keep(c)
    \/ \E id \in DOMAIN certs : Age(id)

Spec == Init /\ [][Next]_vars

\* The ticker and the tasks run; polls end by their deadlines, whether or
\* not the CA ever answers.
Fairness ==
    /\ WF_vars(Renewal)
    /\ \A t \in Tasks : WF_vars(OrderFails(t)) /\ WF_vars(AcmeFails(t)) /\ WF_vars(Local(t))
    /\ \A c \in Conns : WF_vars(Resolve(c) \/ Keep(c))

FairSpec == Spec /\ Fairness

-----------------------------------------------------------------------------
CertIds == 0 .. MaxCerts

\* Types; a key in the resolver's cache could be built, so it is Temp or a
\* usable certificate of the domain.
TypeOK ==
    /\ Len(certs) <= MaxCerts
    /\ store \in [Domains -> CertIds] /\ cache \in [Domains -> CertIds]
    /\ tokens \subseteq DOMAIN certs /\ todo \subseteq Domains
    /\ \A d \in Domains :
          \/ cert_cache[d] \in {None, Temp}
          \/ certs[cert_cache[d]].usable /\ certs[cert_cache[d]].domain = d

\* While the CA may come for a challenge its token is there, whatever
\* other requests, for the same domain or another, end or fail meanwhile;
\* and no token outlives the issue of its certificate, so that those left
\* over are of orders in progress and of failed ones.
TokensRight ==
    /\ \A t \in Tasks : pc[t].at = "validate" => serve_http(pc[t].id) = "key_authorization"
    /\ \A n \in tokens : certs[n].age = "none"

\* A provision, import or revocation ends even if the CA never answers.
CallersReturn == \A t \in Callers : pc[t] # Idle ~> pc[t] = Idle

\* For a stored certificate close to its end, or past it, a new one is
\* asked for, unless it is replaced or removed before; passes that failed do
\* not keep later ones from trying.
RenewalAttempted ==
    \A d \in Domains :
        store[d] # None /\ certs[store[d]].age # "fresh"
            ~> \/ store[d] = None \/ certs[store[d]].age = "fresh"
               \/ pc[Worker].at = "order" /\ pc[Worker].domain = d

\* When nothing is going on, the resolver serves what is stored: its cache
\* is "updated whenever a new certificate is stored".
ResolverCurrent ==
    \A d \in Domains :
        (\A t \in Tasks : pc[t] = Idle) /\ (\A c \in Conns : conn[c] = Idle)
            /\ store[d] # None /\ certs[store[d]].usable /\ cert_cache[d] # None
            => cert_cache[d] = store[d]
=============================================================================
