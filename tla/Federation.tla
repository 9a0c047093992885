----------------------------- MODULE Federation -----------------------------
(* One region's view of its peers: the gossip handler's table of peers     *)
(* (federation/gossip.rs) and the coordinator's copies of their states     *)
(* (federation/mod.rs).  The transport is outside: a message of a peer may *)
(* be delivered never, twice or after a later one.                         *)
EXTENDS Naturals

CONSTANTS Peers,        \* the regions of config.peers
          Resources,    \* fresh ids of cross-region resources
          Timeout,      \* gossip_interval_secs * 3, in ticks of the clock
          MaxVersion,   \* bound on the versions of a region's state
          MaxFailures   \* bound on the counters of failed checks

VARIABLES local_version,
          published,    \* peer -> the version it has published last
          peers,        \* peer -> its entry in the gossip table
          peer_states,  \* peer -> version of the state received from it
          crossing,     \* cross-region resource -> status
          heard,        \* the peers heard of at all
          missed        \* peer -> checks it has missed since it was heard

federationVars == <<local_version, published, peers, peer_states, crossing, heard, missed>>

ReplicationStatus == {"pending", "syncing", "active", "failed", "deprecated"}

FederationTypeOK ==
    /\ local_version \in 0..MaxVersion
    /\ published \in [Peers -> 0..MaxVersion]
    /\ peers \in [Peers -> [age : 0..(Timeout + 1), alive : BOOLEAN, failures : 0..MaxFailures]]
    /\ DOMAIN peer_states \subseteq Peers
    /\ DOMAIN crossing \subseteq Resources
    /\ missed \in [Peers -> 0..MaxFailures]

Init ==
    /\ local_version = 0
    /\ published = [p \in Peers |-> 0]
    /\ peers = [p \in Peers |-> [age |-> 0, alive |-> FALSE, failures |-> 0]]
    /\ peer_states = [p \in {} |-> 0]
    /\ crossing = [r \in {} |-> "pending"]
    /\ heard = {}
    /\ missed = [p \in Peers |-> 0]

Cap(n) == IF n < MaxFailures THEN n + 1 ELSE n

\* Mutant: the count of failures is kept.
record_peer_ping_kept(p) == [peers[p] EXCEPT !.age = 0, !.alive = TRUE]

record_peer_ping(p) == [age |-> 0, alive |-> TRUE, failures |-> 0]

\* handle_message of a Ping, which is answered, or of a Pong.
HandlePing(p) ==
    /\ peers' = [peers EXCEPT ![p] = record_peer_ping(p)]
    /\ heard' = heard \cup {p}
    /\ missed' = [missed EXCEPT ![p] = 0]
    /\ UNCHANGED <<local_version, published, peer_states, crossing>>

\* A StateSync is handed to receive_peer_state, which keeps the state that
\* came last, older or not.
receive_peer_state(p) ==
    /\ \E v \in 0..published[p] :
         peer_states' = [q \in DOMAIN peer_states \cup {p} |->
                           IF q = p THEN v ELSE peer_states[q]]
    /\ UNCHANGED <<local_version, published, peers, crossing, heard, missed>>

\* A peer that has been silent for longer than the timeout fails a check,
\* and is dead at the third.
check_peer_health ==
    /\ peers' = [p \in Peers |->
         IF peers[p].age > Timeout
         THEN [peers[p] EXCEPT !.failures = Cap(@),
                               !.alive = IF Cap(peers[p].failures) >= 3 THEN FALSE ELSE @]
         ELSE peers[p]]
    /\ missed' = [p \in Peers |-> IF peers[p].age > Timeout THEN Cap(missed[p]) ELSE missed[p]]
    /\ UNCHANGED <<local_version, published, peer_states, crossing, heard>>

\* Time passes for every peer.
Tick ==
    /\ peers' = [p \in Peers |->
         [peers[p] EXCEPT !.age = IF @ > Timeout THEN @ ELSE @ + 1]]
    /\ UNCHANGED <<local_version, published, peer_states, crossing, heard, missed>>

\* A peer publishes a new version of its state.
Publish(p) ==
    /\ published[p] < MaxVersion
    /\ published' = [published EXCEPT ![p] = @ + 1]
    /\ UNCHANGED <<local_version, peers, peer_states, crossing, heard, missed>>

update_local_resources ==
    /\ local_version < MaxVersion
    /\ local_version' = local_version + 1
    /\ UNCHANGED <<published, peers, peer_states, crossing, heard, missed>>

\* Only with cross_region_deploy; the status is whatever the caller says.
create_cross_region_resource ==
    \E r \in Resources \ DOMAIN crossing :
        /\ crossing' = [x \in DOMAIN crossing \cup {r} |->
                          IF x = r THEN "pending" ELSE crossing[x]]
        /\ UNCHANGED <<local_version, published, peers, peer_states, heard, missed>>

update_resource_status ==
    \E r \in DOMAIN crossing, s \in ReplicationStatus :
        /\ crossing' = [crossing EXCEPT ![r] = s]
        /\ UNCHANGED <<local_version, published, peers, peer_states, heard, missed>>

Next ==
    \/ check_peer_health \/ Tick \/ update_local_resources
    \/ create_cross_region_resource \/ update_resource_status
    \/ \E p \in Peers : HandlePing(p) \/ receive_peer_state(p) \/ Publish(p)

FederationSpec == Init /\ [][Next]_federationVars
-----------------------------------------------------------------------------
\* A peer that was alive is declared dead only after three checks in a row,
\* with no message of it in between, found it silent beyond the timeout:
\* messages that come late or twice never bring the verdict forward.
DeadOnlyIfSilent ==
    \A p \in heard : ~peers[p].alive => missed[p] >= 3 /\ peers[p].age > Timeout

\* What that rests on: for a peer that was heard, the table's counter is the
\* number of checks missed since.
FederationInv ==
    /\ peers \in [Peers -> [age : Nat, alive : BOOLEAN, failures : Nat]]
    /\ missed \in [Peers -> Nat]
    /\ heard \subseteq Peers
    /\ \A p \in heard : missed[p] = peers[p].failures
    /\ DeadOnlyIfSilent
=============================================================================
