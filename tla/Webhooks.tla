------------------------------ MODULE Webhooks ------------------------------
(* The webhook router (git/webhook.rs): registered repositories, the log   *)
(* of events, and deliveries that look a repository up and then submit a   *)
(* build to the queue.  The parsers are stubs: a delivery's repository and *)
(* branch depend on its provider only.  Repository names are abstracted to *)
(* their last two segments, the key the registrations are stored under.    *)
EXTENDS Naturals, FiniteSets

CONSTANTS Clients,      \* concurrent deliveries
          Apps,         \* the apps that repositories are registered for
          MaxEvents     \* bound on the deliveries

VARIABLES repositories, \* key -> registration
          events,       \* number of stored events
          delivery,     \* per client: the delivery being handled
          asked,        \* the builds submitted, as <<event, app>>
          in_force      \* per client: the deploying registrations in force
                        \* since its delivery arrived

hookVars == <<repositories, events, delivery, asked, in_force>>

RepoKeys == {"user/repo", "unknown"}

Registration == [key : RepoKeys, app : Apps, auto_deploy : BOOLEAN, on_main : BOOLEAN]

HooksTypeOK ==
    /\ DOMAIN repositories \subseteq RepoKeys
    /\ \A k \in DOMAIN repositories : repositories[k] \in Registration
    /\ asked \subseteq (1..MaxEvents) \X Apps

NoDelivery == [do |-> "none"]

Init ==
    /\ repositories = [k \in {} |-> k]
    /\ events = 0
    /\ delivery = [c \in Clients |-> NoDelivery]
    /\ asked = {}
    /\ in_force = [c \in Clients |-> {}]

Values(f) == {f[k] : k \in DOMAIN f}

\* The registrations of main that deploy.
Deploying(rs) == {r \in rs : r.auto_deploy /\ r.on_main}

\* What the parsers make of a delivery: its repository and its branch.
parse_github_webhook(push) ==
    IF push THEN [repository |-> "user/repo", branch |-> "main"]
            ELSE [repository |-> "", branch |-> ""]
parse_gitlab_webhook    == [repository |-> "user/repo", branch |-> "main"]
parse_bitbucket_webhook == [repository |-> "user/repo", branch |-> "main"]
parse_gitea_webhook     == [repository |-> "user/repo", branch |-> "main"]
parse_generic_webhook   == [repository |-> "unknown", branch |-> "main"]

Providers == {"github", "gitlab", "bitbucket", "gitea", "generic"}

parse(provider, push) ==
    CASE provider = "github"    -> parse_github_webhook(push)
      [] provider = "gitlab"    -> parse_gitlab_webhook
      [] provider = "bitbucket" -> parse_bitbucket_webhook
      [] provider = "gitea"     -> parse_gitea_webhook
      [] provider = "generic"   -> parse_generic_webhook

\* register_repository: a registration of the same key is replaced, whatever
\* host its URL names.
Register ==
    \E r \in Registration :
        /\ repositories' = [k \in DOMAIN repositories \cup {r.key} |->
                              IF k = r.key THEN r ELSE repositories[k]]
        /\ in_force' = [c \in Clients |->
              IF delivery[c] = NoDelivery THEN {} ELSE in_force[c] \cup Deploying({r})]
        /\ UNCHANGED <<events, delivery, asked>>

Unregister ==
    \E k \in DOMAIN repositories :
        /\ repositories' = [x \in DOMAIN repositories \ {k} |-> repositories[x]]
        /\ UNCHANGED <<events, delivery, asked, in_force>>

\* handle: a bad signature is refused; otherwise the event is parsed and
\* stored ...
Handle(c) ==
    /\ delivery[c] = NoDelivery
    /\ events < MaxEvents
    /\ \E p \in Providers, push \in BOOLEAN :
         /\ events' = events + 1
         /\ delivery' = [delivery EXCEPT ![c] =
              [do |-> "process", id |-> events + 1, push |-> push, event |-> parse(p, push)]]
         /\ in_force' = [in_force EXCEPT ![c] = Deploying(Values(repositories))]
    /\ UNCHANGED <<repositories, asked>>

repo_matches_event(r, event) == r.key = event.repository

\* Mutant: pushes to other branches are built too.
wanted_anywhere(r, event) == r.auto_deploy

\* The checks of process_webhook_event: automatic deployment and the branch.
wanted(r, event) == r.auto_deploy /\ r.on_main

Ends(c) ==
    /\ delivery' = [delivery EXCEPT ![c] = NoDelivery]
    /\ in_force' = [in_force EXCEPT ![c] = {}]

\* ... process_webhook_event ignores everything but pushes and looks for the
\* registration of the repository ...
Process(c) ==
    /\ delivery[c].do = "process"
    /\ LET event == delivery[c].event
           found == {r \in Values(repositories) :
                        repo_matches_event(r, event) /\ wanted(r, event)}
       IN IF delivery[c].push /\ found # {}
          THEN \E r \in found :
                 /\ delivery' = [delivery EXCEPT ![c] =
                      [do |-> "submit", id |-> delivery[c].id, reg |-> r]]
                 /\ UNCHANGED in_force
          ELSE Ends(c)
    /\ UNCHANGED <<repositories, events, asked>>

\* ... and submits the build of the copy it has found.
Submit(c) ==
    /\ delivery[c].do = "submit"
    /\ asked' = asked \cup {<<delivery[c].id, delivery[c].reg.app>>}
    /\ Ends(c)
    /\ UNCHANGED <<repositories, events>>

Next ==
    \/ Register \/ Unregister
    \/ \E c \in Clients : Handle(c) \/ Process(c) \/ Submit(c)

WebhooksSpec == Init /\ [][Next]_hookVars
-----------------------------------------------------------------------------
\* A delivery submits at most one build, and only for a registration that
\* was in force at some moment since the delivery arrived and that deploys
\* on this branch: registrations come and go while deliveries are handled.
BuildsRegistered ==
    /\ \A b, d \in asked : b[1] = d[1] => b = d
    /\ \A c \in Clients : delivery[c].do = "submit" => delivery[c].reg \in in_force[c]
-----------------------------------------------------------------------------
\* Deliveries in progress have event ids of their own that no build was
\* submitted for yet, and keep up with the registrations.
AskedOnce ==
    /\ \A b \in asked : b[1] \in 1..events
    /\ \A b, d \in asked : b[1] = d[1] => b = d

Distinct(c) ==
    delivery[c] # NoDelivery =>
        /\ delivery[c].do \in {"process", "submit"}
        /\ delivery[c].id \in 1..events
        /\ \A b \in asked : b[1] # delivery[c].id
        /\ \A d \in Clients \ {c} :
              delivery[d] # NoDelivery => delivery[d].id # delivery[c].id

Informed(c) ==
    /\ delivery[c].do = "process" => Deploying(Values(repositories)) \subseteq in_force[c]
    /\ delivery[c].do = "submit" => delivery[c].reg \in in_force[c]

HooksInv ==
    /\ events \in Nat
    /\ delivery = [c \in Clients |-> delivery[c]]
    /\ in_force = [c \in Clients |-> in_force[c]]
    /\ AskedOnce
    /\ \A c \in Clients : Distinct(c) /\ Informed(c)
=============================================================================
