---------------------------- MODULE CertService -----------------------------
(* The certificate service of the control plane (services/certificate.rs). *)
(* Its certificates are behind a fair reader-writer lock: a reader waits   *)
(* behind a writer that waits.  Every method takes the lock for one access *)
(* at a time, except check_renewals, which keeps its read guard while it   *)
(* renews the certificates it finds due.                                   *)
(*                                                                         *)
(* Dates are abstracted to whether a certificate expires within            *)
(* renewal_days.                                                           *)
EXTENDS Naturals, Sequences

CONSTANTS Clients, CertIds

VARIABLES certs,        \* id -> certificate
          cert_task,    \* per client: the method being executed
          guard,        \* the clients holding the read guard of check_renewals
          writers,      \* the clients waiting for the write lock, in order
          ended,        \* ids whose revocation has been carried out
          raced         \* those that a renewal had read before

certVars == <<certs, cert_task, guard, writers, ended, raced>>

CertStatus == {"pending", "validating", "issued", "renewing", "revoked"}

CertsTypeOK ==
    /\ DOMAIN certs \subseteq CertIds
    /\ \A i \in DOMAIN certs : certs[i] \in [status : CertStatus, due : BOOLEAN, auto : BOOLEAN]
    /\ guard \subseteq Clients
    /\ raced \subseteq ended /\ ended \subseteq DOMAIN certs

\* A method is the certificate it holds a copy of and the statuses it has
\* still to store; a sweep also has the certificates it has still to see.
Resting == [op |-> "none"]

Init ==
    /\ certs = [i \in {} |-> i]
    /\ cert_task = [c \in Clients |-> Resting]
    /\ guard = {}
    /\ writers = <<>>
    /\ ended = {}
    /\ raced = {}

\* certificates.read(): no writer holds the lock between steps, but one that
\* waits goes first.
CanRead == writers = <<>>

Copies(id) == {c \in Clients : cert_task[c].op # "none" /\ cert_task[c].id = id
                               /\ cert_task[c].todo # <<>>}

\* request_certificate: records the request, creates the challenge, then
\* stores the certificate as validating and as issued.
Request(c) ==
    /\ cert_task[c] = Resting
    /\ \E i \in CertIds \ DOMAIN certs, auto \in BOOLEAN :
         /\ Copies(i) = {}
         /\ cert_task' = [cert_task EXCEPT ![c] =
              [op |-> "request", id |-> i, left |-> {},
               cert |-> [status |-> "pending", due |-> TRUE, auto |-> auto],
               todo |-> <<"pending", "validating", "issued">>]]
    /\ UNCHANGED <<certs, guard, writers, ended, raced>>

\* Mutant: any certificate is renewed.
renewable_any(cert) == TRUE

renewable(cert) == cert.status = "issued"

Renew(c) ==
    /\ cert_task[c] = Resting
    /\ CanRead
    /\ \E i \in DOMAIN certs :
         /\ renewable(certs[i])
         /\ cert_task' = [cert_task EXCEPT ![c] =
              [op |-> "renew", id |-> i, left |-> {}, cert |-> certs[i],
               todo |-> <<"renewing", "issued">>]]
    /\ UNCHANGED <<certs, guard, writers, ended, raced>>

Revoke(c) ==
    /\ cert_task[c] = Resting
    /\ CanRead
    /\ \E i \in DOMAIN certs :
         cert_task' = [cert_task EXCEPT ![c] =
              [op |-> "revoke", id |-> i, left |-> {}, cert |-> certs[i],
               todo |-> <<"revoked">>]]
    /\ UNCHANGED <<certs, guard, writers, ended, raced>>

Waits(c) == \E k \in DOMAIN writers : writers[k] = c

\* certificates.write(): the caller queues ...
Queue(c) ==
    /\ cert_task[c] # Resting
    /\ cert_task[c].todo # <<>>
    /\ ~Waits(c)
    /\ writers' = Append(writers, c)
    /\ UNCHANGED <<certs, cert_task, guard, ended, raced>>

\* ... and, when it is first and no read guard is held, update_certificate
\* stores its whole copy with the next status.  An issued certificate has a
\* new date.
update_certificate(c) ==
    /\ writers # <<>> /\ Head(writers) = c
    /\ guard = {}
    /\ LET t    == cert_task[c]
           s    == Head(t.todo)
           cert == [t.cert EXCEPT !.status = s, !.due = IF s = "issued" THEN FALSE ELSE @]
           done == Tail(t.todo) = <<>> /\ t.op # "sweep"
       IN /\ certs' = [i \in DOMAIN certs \cup {t.id} |-> IF i = t.id THEN cert ELSE certs[i]]
          /\ cert_task' = [cert_task EXCEPT ![c] =
                             IF done THEN Resting
                             ELSE [t EXCEPT !.cert = cert, !.todo = Tail(@)]]
          /\ ended' = IF s = "revoked" THEN ended \cup {t.id} ELSE ended
          /\ raced' = IF s = "revoked" /\ Copies(t.id) # {c}
                      THEN raced \cup {t.id} ELSE raced
    /\ writers' = Tail(writers)
    /\ UNCHANGED guard

\* check_renewals takes the read guard ...
Sweep(c) ==
    /\ cert_task[c] = Resting
    /\ CanRead
    /\ DOMAIN certs # {}
    /\ guard' = guard \cup {c}
    /\ \E i \in DOMAIN certs :
         cert_task' = [cert_task EXCEPT ![c] =
              [op |-> "sweep", id |-> i, left |-> DOMAIN certs, cert |-> certs[i],
               todo |-> <<>>]]
    /\ UNCHANGED <<certs, writers, ended, raced>>

Sweeping(c) == cert_task[c].op = "sweep" /\ cert_task[c].todo = <<>>

\* ... passes over a certificate that is not to be renewed, or whose renewal
\* is refused ...
SweepSkip(c) ==
    /\ Sweeping(c)
    /\ \E i \in cert_task[c].left :
         /\ ~(certs[i].auto /\ certs[i].due /\ renewable(certs[i]))
         /\ certs[i].auto /\ certs[i].due => CanRead
         /\ cert_task' = [cert_task EXCEPT ![c].left = @ \ {i}]
    /\ UNCHANGED <<certs, guard, writers, ended, raced>>

\* ... renews one that is due, still holding the guard: the renewal takes
\* the lock for reading, and then for writing ...
SweepRenew(c) ==
    /\ Sweeping(c)
    /\ CanRead
    /\ \E i \in cert_task[c].left :
         /\ certs[i].auto /\ certs[i].due /\ renewable(certs[i])
         /\ cert_task' = [cert_task EXCEPT ![c] =
              [op |-> "sweep", id |-> i, left |-> cert_task[c].left \ {i}, cert |-> certs[i],
               todo |-> <<"renewing", "issued">>]]
    /\ UNCHANGED <<certs, guard, writers, ended, raced>>

\* ... and returns.
SweepEnd(c) ==
    /\ Sweeping(c)
    /\ cert_task[c].left = {}
    /\ guard' = guard \ {c}
    /\ cert_task' = [cert_task EXCEPT ![c] = Resting]
    /\ UNCHANGED <<certs, writers, ended, raced>>

\* Time passes: an issued certificate comes within renewal_days.
ComesDue ==
    \E i \in DOMAIN certs :
        /\ certs[i].status = "issued" /\ ~certs[i].due
        /\ certs' = [certs EXCEPT ![i].due = TRUE]
        /\ UNCHANGED <<cert_task, guard, writers, ended, raced>>

Step(c) ==
    \/ Queue(c) \/ update_certificate(c)
    \/ SweepSkip(c) \/ SweepRenew(c) \/ SweepEnd(c)

Next ==
    \/ ComesDue
    \/ \E c \in Clients : Request(c) \/ Renew(c) \/ Revoke(c) \/ Sweep(c) \/ Step(c)

\* A method that can go on does: the runtime polls every task that is ready.
CertSpec == Init /\ [][Next]_certVars /\ \A c \in Clients : WF_certVars(Step(c))
-----------------------------------------------------------------------------
\* A revocation is final: a certificate is issued again only by a method
\* that had read it before the revocation was stored.
RevokedStays == \A i \in ended \ raced : certs[i].status = "revoked"

\* "Check and auto-renew certificates": a sweep comes to its end.
SweepReturns ==
    \A c \in Clients : cert_task[c].op = "sweep" ~> cert_task[c].op # "sweep"
\* A sweep that has begun a renewal waits for the guard it holds itself: it
\* never goes on, and no certificate is stored, renewed or revoked again.
SweepStuckForGood ==
    [][\A c \in Clients : cert_task[c].op = "sweep" /\ cert_task[c].todo # <<>> =>
          /\ cert_task'[c] = cert_task[c]
          /\ DOMAIN certs' = DOMAIN certs
          /\ \A i \in DOMAIN certs : certs'[i].status = certs[i].status]_certVars
-----------------------------------------------------------------------------
Certificate == [status : CertStatus, due : BOOLEAN, auto : BOOLEAN]

\* What a request, a renewal or a sweep has still to store.
Issuing == {<<>>, <<"issued">>, <<"validating", "issued">>, <<"renewing", "issued">>,
            <<"pending", "validating", "issued">>}

\* A method's copy and what it has still to store; a revocation one status.
TaskOK(t) ==
    \/ t = Resting
    \/ t \in [op : {"revoke"}, id : CertIds, left : SUBSET CertIds, cert : Certificate,
             todo : {<<"revoked">>}]
    \/ t \in [op : {"request", "renew", "sweep"}, id : CertIds, left : SUBSET CertIds,
             cert : Certificate, todo : Issuing]

\* A task waits once, and has something to store.
QueueOK ==
    /\ writers \in Seq(Clients)
    /\ \A k \in 1..Len(writers) :
          cert_task[writers[k]] # Resting /\ cert_task[writers[k]].todo # <<>>
    /\ \A k, l \in 1..Len(writers) : writers[k] = writers[l] => k = l

\* The certificate is revoked, and nobody is about to store anything else.
Final(i) ==
    /\ i \in DOMAIN certs /\ certs[i].status = "revoked"
    /\ \A c \in Copies(i) : cert_task[c].todo = <<"revoked">>

CertInv ==
    /\ cert_task = [c \in Clients |-> cert_task[c]]
    /\ \A c \in Clients :
          /\ TaskOK(cert_task[c])
          /\ cert_task[c].op = "sweep" => cert_task[c].left \subseteq DOMAIN certs
    /\ DOMAIN certs \subseteq CertIds
    /\ \A i \in DOMAIN certs : certs[i] \in Certificate
    /\ QueueOK
    /\ \A i \in ended \ raced : Final(i)

\* A sweep, and nobody else, holds the guard from its first step to its last.
SweepGuarded == \A c \in Clients : cert_task[c].op = "sweep" <=> c \in guard
=============================================================================
