-------------------------- MODULE DataPlaneProofs --------------------------
(* Theorems about the services of a node, for every value of their         *)
(* constants.  The address manager is correct for every subnet of four     *)
(* addresses or more and every set of applications: its entries are usable *)
(* addresses, no two applications share one, and it implements the address *)
(* pool.  The other services are proved in the composition, each from the  *)
(* inductive invariant stated in its module.                               *)
EXTENDS MCDataPlane, Selection, SequenceTheorems, FiniteSetTheorems, TLAPS

(***************************************************************************)
(* The scan returns a free address when there is one: the set of free      *)
(* addresses is a non-empty set of naturals, so it has a least element.    *)
(***************************************************************************)
LEMMA FirstFreeIsFree ==
    ASSUME Free # {}
    PROVE  FirstFree \in Free
<1>1. Free \subseteq Nat
  BY SubnetAssumption DEF Free, Usable, Subnet
<1> QED BY <1>1, LeastIsThere DEF FirstFree

(***************************************************************************)
(* What the proofs carry from step to step.                                *)
(***************************************************************************)
IInv == TypeOK /\ UniqueAddresses

(***************************************************************************)
(* Giving an application a free address keeps the map typed and injective, *)
(* whether or not the application held another address before.             *)
(***************************************************************************)
LEMMA AssignKeeps ==
    ASSUME IInv, NEW app \in Apps, NEW ip \in Free, Assign(app, ip),
           reply' \in Replies
    PROVE  IInv'
<1> DEFINE D == DOMAIN allocated \cup {app}
<1>1. /\ DOMAIN allocated' = D
      /\ \A a \in D : allocated'[a] = IF a = app THEN ip ELSE allocated[a]
  BY DEF Assign
<1>2. \A a \in DOMAIN allocated : allocated[a] \in Usable /\ allocated[a] # ip
  BY DEF IInv, TypeOK, Free, InUse
<1>3. ip \in Usable
  BY DEF Free
<1>4. TypeOK'
  <2>1. allocated' \in [D -> Usable]
    BY <1>2, <1>3 DEF Assign
  <2>2. D \subseteq Apps
    BY DEF IInv, TypeOK
  <2>3. Usable' = Usable /\ Replies' = Replies
    BY DEF Usable, Subnet, Reserved, gateway, Replies
  <2> QED BY <1>1, <2>1, <2>2, <2>3 DEF TypeOK
<1>5. UniqueAddresses'
  BY <1>1, <1>2 DEF IInv, UniqueAddresses
<1> QED BY <1>4, <1>5 DEF IInv

LEMMA UnchangedKeeps ==
    ASSUME IInv, UNCHANGED allocated, reply' \in Replies
    PROVE  IInv'
BY DEF IInv, TypeOK, UniqueAddresses, Usable, Subnet, Reserved, gateway, Replies

LEMMA ReleaseKeeps ==
    ASSUME IInv, NEW app \in Apps, Release(app)
    PROVE  IInv'
<1>1. /\ DOMAIN allocated' = DOMAIN allocated \ {app}
      /\ \A a \in DOMAIN allocated \ {app} : allocated'[a] = allocated[a]
      /\ reply' = "ok"
  BY DEF Release
<1>2. allocated' \in [DOMAIN allocated \ {app} -> Usable]
  BY DEF Release, IInv, TypeOK
<1>3. Usable' = Usable /\ Replies' = Replies /\ reply' \in Replies
  BY <1>1 DEF Usable, Subnet, Reserved, gateway, Replies
<1>4. TypeOK'
  BY <1>1, <1>2, <1>3 DEF IInv, TypeOK
<1>5. UniqueAddresses'
  BY <1>1 DEF IInv, UniqueAddresses
<1> QED BY <1>4, <1>5 DEF IInv

(***************************************************************************)
(* One step of the manager keeps the invariant.                            *)
(***************************************************************************)
LEMMA StepKeeps ==
    ASSUME IInv, [Next]_vars
    PROVE  IInv'
<1>1. CASE UNCHANGED vars
  BY <1>1, UnchangedKeeps DEF vars, IInv, TypeOK
<1>2. CASE Next
  <2>1. PICK app \in Apps :
           \/ Allocate(app)
           \/ \E ip \in 0 .. SubnetSize : AllocateSpecific(app, ip)
           \/ Release(app)
    BY <1>2 DEF Next
  <2>2. CASE Allocate(app)
    <3>1. CASE UNCHANGED allocated /\ reply' \in Replies
      BY <3>1, UnchangedKeeps
    <3>2. CASE Free # {} /\ Assign(app, FirstFree) /\ reply' = "ok"
      <4>1. FirstFree \in Free
        BY <3>2, FirstFreeIsFree
      <4> QED BY <3>2, <4>1, AssignKeeps DEF Replies
    <3> QED BY <2>2, <3>1, <3>2 DEF Allocate, Replies
  <2>3. ASSUME NEW ip \in 0 .. SubnetSize, AllocateSpecific(app, ip)
        PROVE  IInv'
    <3>1. CASE UNCHANGED allocated /\ reply' \in Replies
      BY <3>1, UnchangedKeeps
    <3>2. CASE ip \in Usable /\ ip \notin InUse /\ Assign(app, ip) /\ reply' = "ok"
      BY <3>2, AssignKeeps DEF Free, Replies
    <3> QED BY <2>3, <3>1, <3>2 DEF AllocateSpecific, Replies
  <2>4. CASE Release(app)
    BY <2>4, ReleaseKeeps
  <2> QED BY <2>1, <2>2, <2>3, <2>4
<1> QED BY <1>1, <1>2

(***************************************************************************)
(* Every address in the map is a usable one of the subnet and belongs to   *)
(* one application only, for every subnet and every set of applications:   *)
(* what ipam.rs promises with "to prevent collisions".                     *)
(***************************************************************************)
THEOREM AddressesUnique == Spec => [](TypeOK /\ UniqueAddresses)
<1>1. Init => IInv
  BY DEF Init, IInv, TypeOK, UniqueAddresses, Replies
<1>2. IInv /\ [Next]_vars => IInv'
  BY StepKeeps
<1>3. IInv => TypeOK /\ UniqueAddresses
  BY DEF IInv
<1> QED BY <1>1, <1>2, <1>3, PTL DEF Spec

(***************************************************************************)
(* The manager's steps are steps of the abstract pool: an address is       *)
(* granted only when nobody leases it, and given back only by its holder.  *)
(***************************************************************************)
THEOREM RefinesPool == Spec => ImplementsPool
<1>1. Init => Pool!Init
  BY DEF Init, Pool!Init
<1>2. IInv /\ [Next]_vars => [Pool!Next]_allocated
  <2> SUFFICES ASSUME IInv, [Next]_vars, allocated' # allocated
               PROVE  Pool!Next
    OBVIOUS
  <2>0. \A app, ip : ip \in Free /\ Assign(app, ip) => ip \in Usable /\ Pool!Grant(app, ip)
    BY DEF Free, InUse, Assign, Pool!Grant
  <2>1. PICK app \in Apps :
           \/ Allocate(app)
           \/ \E ip \in 0 .. SubnetSize : AllocateSpecific(app, ip)
           \/ Release(app)
    BY DEF Next, vars
  <2>2. CASE Allocate(app)
    <3>1. Free # {} /\ Assign(app, FirstFree)
      BY <2>2 DEF Allocate
    <3> QED BY <2>0, <3>1, FirstFreeIsFree DEF Pool!Next
  <2>3. ASSUME NEW ip \in 0 .. SubnetSize, AllocateSpecific(app, ip)
        PROVE  Pool!Next
    <3>1. ip \in Free /\ Assign(app, ip)
      BY <2>3 DEF AllocateSpecific, Free
    <3> QED BY <2>0, <3>1 DEF Pool!Next
  <2>4. CASE Release(app)
    <3>1. app \in DOMAIN allocated
      <4>1. SUFFICES ASSUME app \notin DOMAIN allocated PROVE FALSE
        OBVIOUS
      <4>2. DOMAIN allocated \ {app} = DOMAIN allocated
        BY <4>1
      <4>3. allocated' = [a \in DOMAIN allocated |-> allocated[a]]
        BY <2>4, <4>2 DEF Release
      <4> QED BY <4>3 DEF IInv, TypeOK
    <3> QED BY <2>4, <3>1 DEF Release, Pool!Revoke, Pool!Next
  <2> QED BY <2>1, <2>2, <2>3, <2>4
<1>3. Spec => []IInv
  BY AddressesUnique, PTL DEF IInv
<1> QED BY <1>1, <1>2, <1>3, PTL DEF Spec, ImplementsPool, Pool!Spec

-----------------------------------------------------------------------------
LEMMA PartsStart ==
    DPInit => /\ Net!CniInit /\ Img!Init /\ Sto!Init /\ Vol!Init /\ Fw!Init /\ Fw!QosInit
              /\ Obs!Init /\ Obs!TelemetryInit /\ Wa!Init /\ Px!Init /\ Px!SessionInit
              /\ Obj!Init /\ Enc!KeyInit /\ Cf!Init /\ Enc!CsrInit
BY DEF DPInit

\* A step of the composition is a step of each part, or leaves it alone.
LEMMA ImgStep == [DPNext]_dpVars => [Img!Next]_Img!imageVars
BY DEF DPNext, Still, dpVars, imageVars, Img!imageVars

LEMMA StoStep == [DPNext]_dpVars => [Sto!Next]_Sto!storageVars
BY DEF DPNext, Still, dpVars, storageVars, Sto!storageVars

LEMMA VolStep == [DPNext]_dpVars => [Vol!Next]_Vol!volumeVars
BY DEF DPNext, Still, dpVars, volumeVars, Vol!volumeVars

LEMMA FwStep == [DPNext]_dpVars => [Fw!Next]_Fw!firewallVars
BY DEF DPNext, Still, dpVars, firewallVars, Fw!firewallVars

LEMMA LgStep == [DPNext]_dpVars => [Obs!Next]_Obs!logVars
BY DEF DPNext, Still, dpVars, logVars, Obs!logVars

LEMMA TelStep == [DPNext]_dpVars => [Obs!TelemetryNext]_Obs!telemetryVars
BY DEF DPNext, Still, dpVars, telemetryVars, Obs!telemetryVars

LEMMA WaStep == [DPNext]_dpVars => [Wa!Next]_Wa!wasmVars
BY DEF DPNext, Still, dpVars, wasmVars, Wa!wasmVars

LEMMA PxStep == [DPNext]_dpVars => [Px!Next]_Px!proxyVars
BY DEF DPNext, Still, dpVars, proxyVars, Px!proxyVars

LEMMA SessionStep == [DPNext]_dpVars => [Px!SessionNext]_Px!sessionVars
BY DEF DPNext, Still, dpVars, sessionVars, Px!sessionVars

LEMMA ObjStep == [DPNext]_dpVars => [Obj!Next]_Obj!objectVars
BY DEF DPNext, Still, dpVars, objectVars, Obj!objectVars

LEMMA CfStep == [DPNext]_dpVars => [Cf!Next]_Cf!certFileVars
BY DEF DPNext, Still, dpVars, certFileVars, Cf!certFileVars

-----------------------------------------------------------------------------
LEMMA ChainOrder ==
    /\ Fw!Chains # {"FORWARD"}
    /\ Fw!NextChain(Fw!Chains) = "INPUT" /\ Fw!chains_left(Fw!Chains) = {"FORWARD"}
    /\ Fw!NextChain({"FORWARD"}) = "FORWARD" /\ Fw!chains_left({"FORWARD"}) = {}
BY DEF Fw!Chains, Fw!NextChain, Fw!chains_left

\* A call on an address begins: with no other on its way the address is
\* orderly, or was before.
LEMMA ChangesKeeps ==
    ASSUME Fw!FirewallInv, NEW c \in Clients, NEW a \in Addresses, NEW add \in BOOLEAN,
           Fw!Changes(c, a, add)
    PROVE  Fw!FirewallInv'
<1> DEFINE task == [do |-> "block", ip |-> a, add |-> add, todo |-> Fw!Chains]
<1>1. /\ wall' = [wall EXCEPT ![c] = task] /\ wall[c].do = "none"
      /\ blocked_ips' = IF add THEN blocked_ips \cup {a} ELSE blocked_ips \ {a}
      /\ disturbed' = IF Fw!Overlapped(c, a) THEN disturbed \cup {a}
                      ELSE IF add THEN disturbed \ {a} ELSE disturbed
      /\ rules' = rules
  BY DEF Fw!Changes, Fw!Goes, Fw!At, Fw!RulesSame
<1>2. /\ DOMAIN wall' = Clients /\ wall'[c] = task
      /\ \A d \in Clients \ {c} : wall'[d] = wall[d]
  BY <1>1 DEF Fw!FirewallInv
<1>3. \A d \in Clients : wall'[d].do = "block" =>
         wall'[d] \in [do : {"block"}, ip : Addresses, add : BOOLEAN,
                       todo : {Fw!Chains, {"FORWARD"}}]
  BY <1>2 DEF Fw!FirewallInv, Fw!At
<1>4. ASSUME NEW b \in Addresses \ disturbed' PROVE Fw!Orderly(b)'
  <2>1. CASE b = a
    <3>1. Fw!Blocking(a)' = {c}
      BY <1>1, <1>2, <2>1 DEF Fw!Blocking, Fw!Overlapped, Fw!At
    <3> QED BY <1>1, <1>2, <2>1, <3>1 DEF Fw!Orderly
  <2>2. CASE b # a
    <3>1. Fw!Blocking(b)' = Fw!Blocking(b) /\ c \notin Fw!Blocking(b)
      BY <1>1, <1>2, <2>2 DEF Fw!Blocking, Fw!At
    <3>2. Fw!Orderly(b)
      BY <1>1, <2>2 DEF Fw!FirewallInv
    <3> QED BY <1>1, <1>2, <2>2, <3>1, <3>2 DEF Fw!Orderly, Fw!Blocking
  <2> QED BY <2>1, <2>2
<1> QED BY <1>1, <1>2, <1>3, <1>4 DEF Fw!FirewallInv, Fw!At

LEMMA CommandKeeps ==
    ASSUME Fw!FirewallInv, NEW c \in Clients, Fw!apply_iptables_block(c)
    PROVE  Fw!FirewallInv'
<1> DEFINE t == wall[c]
           k == Fw!NextChain(t.todo)
           left == Fw!chains_left(t.todo)
           rest == IF left = {} THEN Fw!Idle ELSE [t EXCEPT !.todo = left]
<1>1. /\ t \in [do : {"block"}, ip : Addresses, add : BOOLEAN,
                todo : {Fw!Chains, {"FORWARD"}}]
      /\ k \in Fw!Chains /\ left \in {{"FORWARD"}, {}} /\ left = t.todo \ {k}
  BY ChainOrder DEF Fw!FirewallInv, Fw!apply_iptables_block, Fw!At, Fw!Chains, Fw!chains_left
<1>2. /\ wall' = [wall EXCEPT ![c] = rest]
      /\ blocked_ips' = blocked_ips
      /\ \/ /\ rules' = [rules EXCEPT ![k][t.ip] =
                           IF t.add THEN @ + 1 ELSE IF @ = 0 THEN 0 ELSE @ - 1]
            /\ disturbed' = disturbed
         \/ disturbed' = disturbed \cup {t.ip} /\ rules' = rules
  BY DEF Fw!apply_iptables_block, Fw!Goes, Fw!ListsSame
<1>3. /\ DOMAIN wall' = Clients /\ wall'[c] = rest
      /\ \A d \in Clients \ {c} : wall'[d] = wall[d]
  BY <1>2 DEF Fw!FirewallInv
<1>4. \A d \in Clients : wall'[d].do = "block" =>
         wall'[d] \in [do : {"block"}, ip : Addresses, add : BOOLEAN,
                       todo : {Fw!Chains, {"FORWARD"}}]
  BY <1>1, <1>3 DEF Fw!FirewallInv, Fw!At, Fw!Idle
<1>5. rules' \in [Fw!Chains -> [Addresses -> Nat]]
  BY <1>1, <1>2 DEF Fw!FirewallInv
<1>6. \A b \in Addresses \ {t.ip} : \A l \in Fw!Chains : rules'[l][b] = rules[l][b]
  BY <1>1, <1>2 DEF Fw!FirewallInv
<1>7. ASSUME NEW b \in Addresses \ disturbed' PROVE Fw!Orderly(b)'
  <2>0. Fw!Orderly(b)
    BY <1>2 DEF Fw!FirewallInv
  <2>1. CASE b = t.ip
    <3>1. rules' = [rules EXCEPT ![k][t.ip] =
                       IF t.add THEN @ + 1 ELSE IF @ = 0 THEN 0 ELSE @ - 1]
      BY <1>2, <2>1
    <3>2. /\ t.add => /\ rules'[k][b] > 0
                      /\ \A l \in Fw!Chains \ {k} : rules'[l][b] = rules[l][b]
      BY <1>1, <2>1, <3>1 DEF Fw!FirewallInv
    <3>3. Fw!Blocking(b) = {c}
      BY <1>1, <2>0, <2>1 DEF Fw!Orderly, Fw!Blocking, Fw!At
    <3>4. /\ t.add => \A l \in Fw!Chains \ left : rules'[l][b] > 0
          /\ ~ t.add => b \notin blocked_ips
      BY <1>1, <2>0, <3>2, <3>3 DEF Fw!Orderly
    <3>5. Fw!Blocking(b)' = IF left = {} THEN {} ELSE {c}
      <4>1. \A d \in Clients \ {c} : d \in Fw!Blocking(b)' <=> d \in Fw!Blocking(b)
        BY <1>3 DEF Fw!Blocking, Fw!At
      <4>2. c \in Fw!Blocking(b)' <=> left # {}
        BY <1>1, <1>3, <2>1 DEF Fw!Blocking, Fw!At, Fw!Idle
      <4> QED BY <3>3, <4>1, <4>2 DEF Fw!Blocking
    <3>6. left # {} => wall'[c].todo = left /\ wall'[c].add = t.add
      BY <1>1, <1>3
    <3> QED BY <1>2, <3>4, <3>5, <3>6 DEF Fw!Orderly
  <2>2. CASE b # t.ip
    <3>1. Fw!Blocking(b)' = Fw!Blocking(b) /\ c \notin Fw!Blocking(b)
      BY <1>1, <1>3, <2>2 DEF Fw!Blocking, Fw!At, Fw!Idle
    <3> QED BY <1>2, <1>3, <1>6, <2>0, <2>2, <3>1 DEF Fw!Orderly, Fw!Blocking
  <2> QED BY <2>1, <2>2
<1> QED BY <1>2, <1>3, <1>4, <1>5, <1>7 DEF Fw!FirewallInv, Fw!At

\* A call that is about something else leaves every address as it is, though
\* the list may become shorter.
LEMMA AsideKeeps ==
    ASSUME Fw!FirewallInv, NEW c \in Clients, NEW t, ~ Fw!At(c, "block"), t.do # "block",
           wall' = wall \/ wall' = [wall EXCEPT ![c] = t],
           blocked_ips' \subseteq blocked_ips, rules' = rules, disturbed' = disturbed
    PROVE  Fw!FirewallInv'
<1>1. /\ DOMAIN wall' = Clients /\ wall'[c].do # "block"
      /\ \A d \in Clients \ {c} : wall'[d] = wall[d]
  BY DEF Fw!FirewallInv, Fw!At
<1>2. ASSUME NEW a \in Addresses \ disturbed' PROVE Fw!Orderly(a)'
  <2>1. Fw!Blocking(a)' = Fw!Blocking(a) /\ c \notin Fw!Blocking(a)
    BY <1>1 DEF Fw!Blocking, Fw!At
  <2> QED BY <1>1, <2>1 DEF Fw!FirewallInv, Fw!Orderly, Fw!Blocking
<1> QED BY <1>1, <1>2 DEF Fw!FirewallInv, Fw!At

LEMMA FirewallKeeps == Fw!FirewallInv /\ [Fw!Next]_Fw!firewallVars => Fw!FirewallInv'
<1> SUFFICES ASSUME Fw!FirewallInv, [Fw!Next]_Fw!firewallVars PROVE Fw!FirewallInv'
  OBVIOUS
<1>1. CASE UNCHANGED Fw!firewallVars
  BY <1>1 DEF Fw!firewallVars, Fw!FirewallInv, Fw!Orderly, Fw!Blocking, Fw!At
<1>2. ASSUME NEW c \in Clients, Fw!block_ip_with_reason(c) \/ Fw!unblock_ip(c)
      PROVE  Fw!FirewallInv'
  BY <1>2, ChangesKeeps DEF Fw!block_ip_with_reason, Fw!unblock_ip
<1>3. ASSUME NEW c \in Clients,
             \/ Fw!add_rate_limit(c) \/ Fw!apply_iptables_rate_limit(c)
             \/ Fw!remove_rate_limit(c) \/ Fw!expand_and_block_cidr(c)
             \/ Fw!clear_blocklist(c) \/ Fw!attach(c) \/ Fw!apply_iptables_chains(c)
             \/ Fw!detach(c) \/ Fw!cleanup_iptables_chains(c)
      PROVE  Fw!FirewallInv'
  <2>1. /\ ~ Fw!At(c, "block") /\ blocked_ips' \subseteq blocked_ips
        /\ rules' = rules /\ disturbed' = disturbed
    BY <1>3 DEF Fw!add_rate_limit, Fw!apply_iptables_rate_limit, Fw!remove_rate_limit,
         Fw!expand_and_block_cidr, Fw!clear_blocklist, Fw!attach, Fw!apply_iptables_chains,
         Fw!detach, Fw!cleanup_iptables_chains, Fw!At, Fw!ListsSame, Fw!RulesSame
  <2>2. \E t : t.do # "block" /\ (wall' = wall \/ wall' = [wall EXCEPT ![c] = t])
    <3>1. /\ Fw!Idle.do # "block"
          /\ [do |-> "attach"].do # "block" /\ [do |-> "detach"].do # "block"
          /\ \A a : [do |-> "limit", ip |-> a].do # "block"
      BY DEF Fw!Idle
    <3> QED
      BY <1>3, <3>1 DEF Fw!add_rate_limit, Fw!apply_iptables_rate_limit,
         Fw!remove_rate_limit, Fw!expand_and_block_cidr, Fw!clear_blocklist, Fw!attach,
         Fw!apply_iptables_chains, Fw!detach, Fw!cleanup_iptables_chains, Fw!Goes
  <2> QED BY <2>1, <2>2, AsideKeeps
<1> QED BY <1>1, <1>2, <1>3, CommandKeeps DEF Fw!Next

\* Whatever is blocked, unblocked and cleared, and by however many callers,
\* an address on the blocklist is dropped by both chains once its call has
\* returned, unless another call on the same address overlapped or a command
\* failed.
THEOREM BlockedDropped == DPSpec => []BlockedIsDropped
<1>1. Fw!Init => Fw!FirewallInv
  BY DEF Fw!Init, Fw!FirewallInv, Fw!Orderly, Fw!Blocking, Fw!At, Fw!Idle
<1>2. Fw!FirewallInv => BlockedIsDropped
  BY DEF Fw!FirewallInv, Fw!Orderly, Fw!Blocking, BlockedIsDropped, Fw!BlockedIsDropped
<1> QED BY PartsStart, FwStep, <1>1, <1>2, FirewallKeeps, PTL DEF DPSpec

-----------------------------------------------------------------------------
\* What the datasets, the snapshots and the clones are like.
StoreRight ==
    /\ DOMAIN base \subseteq Images
    /\ DOMAIN origin \subseteq zfs /\ \A d \in DOMAIN origin : origin[d] \in DOMAIN base
    /\ \A i \in DOMAIN base : Sto!Holds(i)

StoreMoves == StoreRight' /\ Sto!ImageStays

LEMMA MoreDatasets ==
    ASSUME StoreRight, zfs \subseteq zfs', UNCHANGED <<base, origin>>
    PROVE  StoreMoves
BY DEF StoreRight, StoreMoves, Sto!ImageStays, Sto!Holds

LEMMA SameDatasets ==
    ASSUME StoreRight, Sto!ZfsSame
    PROVE  StoreMoves
BY MoreDatasets DEF Sto!ZfsSame

\* An image gets its snapshot.
LEMMA SnapshotMoves ==
    ASSUME StoreRight, NEW i \in Images, i \notin DOMAIN base, zfs \subseteq zfs',
           <<"image", i>> \in zfs', UNCHANGED origin,
           base' = [j \in DOMAIN base \cup {i} |-> IF j = i THEN <<"image", i>> ELSE base[j]]
    PROVE  StoreMoves
<1>1. /\ DOMAIN base' = DOMAIN base \cup {i} /\ base'[i] = <<"image", i>>
      /\ \A j \in DOMAIN base : base'[j] = base[j]
  OBVIOUS
<1>2. \A j \in DOMAIN base : Sto!Holds(j)'
  BY <1>1 DEF StoreRight, Sto!Holds
<1>3. Sto!Holds(i)'
  BY <1>1 DEF Sto!Holds
<1> QED BY <1>1, <1>2, <1>3 DEF StoreRight, StoreMoves, Sto!ImageStays, Sto!Holds

\* What is destroyed is of an app; a holder of an image's snapshot is not.
LEMMA DestroyMoves ==
    ASSUME StoreRight, NEW a \in NetApps, NEW d \in {<<"app", a>>, <<"rootfs", a>>},
           Sto!destroy_dataset(d)
    PROVE  StoreMoves
<1> DEFINE gone == Sto!Below(d) \cap zfs
<1>1. \A x \in gone : x \in Sto!Tree(a)
  BY DEF Sto!Below, Sto!Tree
<1>2. \A x \in Sto!Tree(a), i \in Images : x # <<"image", i>>
  BY DEF Sto!Tree
<1>3. /\ \A x \in DOMAIN origin \ gone : base[origin[x]] \notin gone
      /\ zfs' = zfs \ gone
      /\ base' = Sto!Only(base, {i \in Images : i \in DOMAIN base => base[i] \notin gone})
      /\ origin' = Sto!Only(origin, zfs \ gone)
  BY DEF Sto!destroy_dataset
<1> HIDE DEF gone
<1>4. ASSUME NEW i \in DOMAIN base PROVE base[i] \notin gone /\ <<"image", i>> \notin gone
  <2>1. <<"image", i>> \notin gone /\ Sto!Holds(i)
    BY <1>1, <1>2 DEF StoreRight
  <2>2. CASE base[i] = <<"image", i>>
    BY <2>1, <2>2
  <2>3. CASE base[i] # <<"image", i>>
    <3>1. <<"image", i>> \in DOMAIN origin /\ origin[<<"image", i>>] = i
      BY <2>1, <2>3 DEF Sto!Holds
    <3> QED BY <1>3, <2>1, <3>1
  <2> QED BY <2>2, <2>3
<1>5. /\ DOMAIN base' = DOMAIN base /\ \A i \in DOMAIN base : base'[i] = base[i]
      /\ DOMAIN origin' = DOMAIN origin \cap zfs'
      /\ \A x \in DOMAIN origin' : origin'[x] = origin[x]
  BY <1>3, <1>4 DEF Sto!Only, StoreRight
<1>6. \A i \in DOMAIN base' : Sto!Holds(i)'
  BY <1>3, <1>4, <1>5 DEF StoreRight, Sto!Holds
<1> QED BY <1>3, <1>5, <1>6 DEF StoreRight, StoreMoves, Sto!ImageStays, Sto!Holds

LEMMA CloneMoves ==
    ASSUME StoreRight, NEW i, NEW a \in NetApps, NEW parent,
           Sto!clone_snapshot(i, <<"rootfs", a>>, parent)
    PROVE  StoreMoves
<1> DEFINE d == <<"rootfs", a>>
<1>1. /\ i \in DOMAIN base /\ d \notin zfs /\ zfs' = zfs \cup {d} /\ base' = base
      /\ origin' = [x \in DOMAIN origin \cup {d} |-> IF x = d THEN i ELSE origin[x]]
  BY DEF Sto!clone_snapshot
<1>2. /\ DOMAIN origin' = DOMAIN origin \cup {d} /\ origin'[d] = i
      /\ \A x \in DOMAIN origin : origin'[x] = origin[x]
  BY <1>1 DEF StoreRight
<1>3. \A j \in DOMAIN base : Sto!Holds(j)'
  BY <1>1, <1>2 DEF StoreRight, Sto!Holds
<1> QED BY <1>1, <1>2, <1>3 DEF StoreRight, StoreMoves, Sto!ImageStays, Sto!Holds

\* The snapshot goes over to the rootfs, and whoever held it depends on it.
LEMMA PromoteMoves ==
    ASSUME StoreRight, NEW a \in NetApps, Sto!promote(<<"rootfs", a>>)
    PROVE  StoreMoves
<1> DEFINE d == <<"rootfs", a>>
<1>1. PICK i, h : i = origin[d] /\ h = base[i]
  OBVIOUS
<1>2. /\ d \in DOMAIN origin /\ zfs' = zfs /\ base' = [base EXCEPT ![i] = d]
      /\ origin' = [x \in (DOMAIN origin \ {d}) \cup {h} |-> IF x = h THEN i ELSE origin[x]]
  BY <1>1 DEF Sto!promote
<1>3. i \in DOMAIN base /\ d \in zfs /\ Sto!Holds(i) /\ h \in zfs
  BY <1>1, <1>2 DEF StoreRight, Sto!Holds
<1>4. /\ DOMAIN base' = DOMAIN base /\ base'[i] = d
      /\ \A j \in DOMAIN base \ {i} : base'[j] = base[j]
      /\ DOMAIN origin' = (DOMAIN origin \ {d}) \cup {h} /\ origin'[h] = i
      /\ \A x \in DOMAIN origin' \ {h} : origin'[x] = origin[x]
  BY <1>2, <1>3
<1>5. \A j \in DOMAIN base : <<"image", j>> # d
  OBVIOUS
<1>6. Sto!Holds(i)'
  <2>1. CASE h = <<"image", i>>
    BY <1>2, <1>3, <1>4, <2>1 DEF Sto!Holds
  <2>2. CASE h # <<"image", i>>
    <3>1. <<"image", i>> \in DOMAIN origin /\ origin[<<"image", i>>] = i
      BY <1>1, <1>3, <2>2 DEF Sto!Holds
    <3> QED BY <1>2, <1>3, <1>4, <1>5, <2>2, <3>1 DEF Sto!Holds
  <2> QED BY <2>1, <2>2
<1>7. ASSUME NEW j \in DOMAIN base \ {i} PROVE Sto!Holds(j)'
  <2>1. h # <<"image", j>>
    BY <1>1, <1>3 DEF Sto!Holds
  <2>2. Sto!Holds(j)
    BY DEF StoreRight
  <2> QED BY <1>2, <1>4, <1>5, <2>1, <2>2 DEF Sto!Holds
<1>8. DOMAIN origin' \subseteq zfs' /\ \A x \in DOMAIN origin' : origin'[x] \in DOMAIN base'
  BY <1>2, <1>3, <1>4 DEF StoreRight
<1> QED BY <1>2, <1>4, <1>6, <1>7, <1>8 DEF StoreRight, StoreMoves, Sto!ImageStays, Sto!Holds

\* The steps of a method keep its arguments.
StorageSteps == {"cache", "image", "pull", "token", "manifest", "layers", "blob", "unpack", "base",
            "app", "rootfs", "data", "snaps", "readonly", "fresh", "clone", "writable", "promote"}

LEMMA MethodGoes ==
    ASSUME Sto!StorageInv, NEW c \in Clients, storing[c].do \in StorageSteps
    PROVE  /\ storing[c].app \in NetApps /\ storing[c].image \in Images
           /\ \A next \in StorageSteps : Sto!Goes(c, next) => storing' \in [Clients -> Sto!Methods]
           /\ Sto!Ends(c) => storing' \in [Clients -> Sto!Methods]
<1> DEFINE Long == [do : StorageSteps, app : NetApps, image : Images]
<1>1. storing[c] \in Long
  <2>1. storing[c] \in Sto!Methods
    BY DEF Sto!StorageInv
  <2>2. storing[c].do # "none" /\ storing[c].do # "destroy"
    BY DEF StorageSteps
  <2> QED BY <2>1, <2>2 DEF Sto!Methods, Sto!NoMethod, StorageSteps
<1>2. Long \subseteq Sto!Methods /\ Sto!NoMethod \in Sto!Methods
  BY DEF Sto!Methods, StorageSteps
<1>3. ASSUME NEW next \in StorageSteps PROVE [storing[c] EXCEPT !.do = next] \in Long
  BY <1>1
<1>4. storing \in [Clients -> Sto!Methods]
  BY DEF Sto!StorageInv
<1> HIDE DEF Long
<1>5. ASSUME NEW next \in StorageSteps, Sto!Goes(c, next) PROVE storing' \in [Clients -> Sto!Methods]
  BY <1>2, <1>3, <1>4, <1>5 DEF Sto!Goes
<1>6. ASSUME Sto!Ends(c) PROVE storing' \in [Clients -> Sto!Methods]
  BY <1>2, <1>4, <1>6 DEF Sto!Ends
<1> QED BY <1>1, <1>5, <1>6 DEF Long

\* A command that succeeds or fails.
LEMMA RunMoves ==
    ASSUME Sto!StorageInv, NEW c \in Clients, storing[c].do \in StorageSteps, NEW next \in StorageSteps,
           \/ StoreMoves /\ Sto!Goes(c, next)
           \/ Sto!Ends(c) /\ (Sto!ZfsSame \/ StoreMoves)
    PROVE  Sto!StorageInv' /\ Sto!ImageStays
<1>1. StoreRight
  BY DEF Sto!StorageInv, StoreRight
<1>2. StoreMoves
  BY <1>1, SameDatasets
<1>3. storing' \in [Clients -> Sto!Methods]
  BY MethodGoes
<1> QED BY <1>2, <1>3 DEF StoreMoves, StoreRight, Sto!StorageInv, Sto!Methods

\* The steps of prepare_rootfs.
LEMMA PrepareKeeps ==
    ASSUME Sto!StorageInv, NEW c \in Clients,
           \/ Sto!EnsureCache(c) \/ Sto!EnsureImage(c) \/ Sto!pull_image_to_dataset(c)
           \/ Sto!get_auth_token(c) \/ Sto!get_manifest(c) \/ Sto!pull_image(c) \/ Sto!get_blob(c)
           \/ Sto!extract_layer(c) \/ Sto!SnapshotBase(c) \/ Sto!init_app_storage(c)
           \/ Sto!Freshen(c) \/ Sto!CloneImage(c) \/ Sto!PromoteRootfs(c)
    PROVE  Sto!StorageInv' /\ Sto!ImageStays
<1>1. StoreRight
  BY DEF Sto!StorageInv, StoreRight
<1>2. Sto!ZfsSame => StoreMoves
  BY <1>1, SameDatasets
<1>3. \A d, p : Sto!create_dataset(d, p) => StoreMoves
  BY <1>1, MoreDatasets DEF Sto!create_dataset
<1>4. \A a, k : Sto!create_with_parents(a, k) => StoreMoves
  BY <1>1, MoreDatasets DEF Sto!create_with_parents
<1>5. \A d : Sto!set_property(d) => StoreMoves
  BY <1>2 DEF Sto!set_property
<1>6. PICK a, i : a = storing[c].app /\ i = storing[c].image
  OBVIOUS
<1>7. CASE Sto!EnsureCache(c)
  <2>1. storing[c].do \in StorageSteps /\ "image" \in StorageSteps
    BY <1>7 DEF Sto!EnsureCache, Sto!Doing, StorageSteps
  <2> QED BY <1>2, <1>3, <1>7, <2>1, RunMoves DEF Sto!EnsureCache, Sto!Run
<1>8. CASE \/ Sto!EnsureImage(c) \/ Sto!pull_image_to_dataset(c) \/ Sto!get_auth_token(c)
           \/ Sto!get_manifest(c) \/ Sto!pull_image(c) \/ Sto!get_blob(c) \/ Sto!extract_layer(c)
  <2>1. /\ storing[c].do \in StorageSteps
        /\ {"app", "pull", "token", "manifest", "layers", "blob", "base", "unpack"} \subseteq StorageSteps
    BY <1>8 DEF Sto!EnsureImage, Sto!pull_image_to_dataset, Sto!get_auth_token,
       Sto!get_manifest, Sto!pull_image, Sto!get_blob, Sto!extract_layer, Sto!Doing, StorageSteps
  <2>2. \/ Sto!Ends(c) /\ Sto!ZfsSame
        \/ \E n \in {"app", "pull", "token", "manifest", "layers", "blob", "base", "unpack"} :
             Sto!Goes(c, n) /\ Sto!ZfsSame
    BY <1>8 DEF Sto!EnsureImage, Sto!pull_image_to_dataset, Sto!get_auth_token,
       Sto!get_manifest, Sto!pull_image, Sto!get_blob, Sto!extract_layer, Sto!Run
  <2>3. CASE Sto!Ends(c) /\ Sto!ZfsSame
    BY <2>1, <2>3, RunMoves
  <2>4. ASSUME NEW n \in {"app", "pull", "token", "manifest", "layers", "blob", "base", "unpack"},
               Sto!Goes(c, n), Sto!ZfsSame
        PROVE  Sto!StorageInv' /\ Sto!ImageStays
    BY <1>2, <2>1, <2>4, RunMoves
  <2> QED BY <2>2, <2>3, <2>4
<1>9. CASE Sto!SnapshotBase(c)
  <2>1. storing[c].do \in StorageSteps /\ "app" \in StorageSteps
    BY <1>9 DEF Sto!SnapshotBase, Sto!Doing, StorageSteps
  <2>2. i \in Images
    BY <1>6, <2>1, MethodGoes
  <2>3. Sto!snapshot(<<"image", i>>, i) => StoreMoves
    BY <1>1, <2>2, SnapshotMoves DEF Sto!snapshot
  <2> QED BY <1>6, <1>9, <2>1, <2>3, RunMoves DEF Sto!SnapshotBase, Sto!Run
<1>10. CASE Sto!init_app_storage(c)
  <2>1. /\ storing[c].do \in StorageSteps
        /\ {"rootfs", "data", "snaps", "readonly", "fresh"} \subseteq StorageSteps
    BY <1>10 DEF Sto!init_app_storage, Sto!Doing, StorageSteps
  <2>2. \E n \in {"rootfs", "data", "snaps", "readonly", "fresh"} :
          \/ StoreMoves /\ Sto!Goes(c, n)
          \/ Sto!Ends(c) /\ Sto!ZfsSame
    BY <1>3, <1>4, <1>5, <1>10 DEF Sto!init_app_storage, Sto!Run
  <2> QED BY <2>1, <2>2, RunMoves
<1>11. CASE Sto!Freshen(c)
  <2>1. storing[c].do \in StorageSteps /\ "clone" \in StorageSteps
    BY <1>11 DEF Sto!Freshen, Sto!Doing, StorageSteps
  <2>2. a \in NetApps
    BY <1>6, <2>1, MethodGoes
  <2>3. Sto!destroy_dataset(<<"rootfs", a>>) => StoreMoves
    BY <1>1, <2>2, DestroyMoves
  <2> QED BY <1>2, <1>6, <1>11, <2>1, <2>3, RunMoves DEF Sto!Freshen, Sto!Run
<1>12. CASE Sto!CloneImage(c)
  <2>1. storing[c].do \in StorageSteps /\ "writable" \in StorageSteps
    BY <1>12 DEF Sto!CloneImage, Sto!Doing, StorageSteps
  <2>2. a \in NetApps
    BY <1>6, <2>1, MethodGoes
  <2>3. \A p : Sto!clone_snapshot(i, <<"rootfs", a>>, p) => StoreMoves
    BY <1>1, <2>2, CloneMoves
  <2> QED BY <1>6, <1>12, <2>1, <2>3, RunMoves DEF Sto!CloneImage, Sto!Run
<1>13. CASE Sto!PromoteRootfs(c)
  <2>1. storing[c].do \in StorageSteps /\ "promote" \in StorageSteps
    BY <1>13 DEF Sto!PromoteRootfs, Sto!Doing, StorageSteps
  <2>2. a \in NetApps
    BY <1>6, <2>1, MethodGoes
  <2>3. Sto!promote(<<"rootfs", a>>) => StoreMoves
    BY <1>1, <2>2, PromoteMoves
  <2> QED BY <1>2, <1>5, <1>6, <1>13, <2>1, <2>3, RunMoves DEF Sto!PromoteRootfs, Sto!Run
<1> QED BY <1>7, <1>8, <1>9, <1>10, <1>11, <1>12, <1>13

\* The administrator, the methods' beginnings, and the end of cleanup_app.
LEMMA OtherStorageKeeps ==
    ASSUME Sto!StorageInv,
           \/ Sto!Admin
           \/ \E c \in Clients : Sto!PrepareRootfs(c) \/ Sto!CleanupApp(c) \/ Sto!DestroyApp(c)
    PROVE  Sto!StorageInv' /\ Sto!ImageStays
<1>1. StoreRight /\ storing \in [Clients -> Sto!Methods]
  BY DEF Sto!StorageInv, StoreRight
<1>2. ASSUME StoreMoves, storing' \in [Clients -> Sto!Methods]
      PROVE  Sto!StorageInv' /\ Sto!ImageStays
  BY <1>2 DEF StoreMoves, StoreRight, Sto!StorageInv, Sto!Methods
<1>3. CASE Sto!Admin
  <2>1. storing' = storing /\ origin' = origin
    BY <1>3 DEF Sto!Admin
  <2>2. CASE \E k : zfs' = zfs \cup {<<"parent", k>>} /\ UNCHANGED base
    BY <1>1, <1>2, <2>1, <2>2, MoreDatasets
  <2>3. ASSUME NEW i \in Images, <<"image", i>> \notin zfs, zfs' = zfs \cup {<<"image", i>>},
               base' \in {base, [j \in DOMAIN base \cup {i} |->
                                   IF j = i THEN <<"image", i>> ELSE base[j]]}
        PROVE  StoreMoves
    <3>1. i \notin DOMAIN base
      BY <1>1, <2>3 DEF StoreRight, Sto!Holds
    <3>2. CASE base' = base
      BY <1>1, <2>1, <2>3, <3>2, MoreDatasets
    <3>3. CASE base' # base
      BY <1>1, <2>1, <2>3, <3>1, <3>3, SnapshotMoves
    <3> QED BY <3>2, <3>3
  <2> QED BY <1>1, <1>2, <1>3, <2>1, <2>2, <2>3 DEF Sto!Admin
<1>4. ASSUME NEW c \in Clients, Sto!PrepareRootfs(c) PROVE Sto!StorageInv' /\ Sto!ImageStays
  <2>1. PICK a \in NetApps, i \in Images :
          storing' = [storing EXCEPT ![c] = [do |-> "cache", app |-> a, image |-> i]]
    BY <1>4 DEF Sto!PrepareRootfs
  <2>2. [do |-> "cache", app |-> a, image |-> i] \in Sto!Methods
    BY DEF Sto!Methods
  <2> QED BY <1>1, <1>2, <1>4, <2>1, <2>2, SameDatasets DEF Sto!PrepareRootfs
<1>5. ASSUME NEW c \in Clients, Sto!CleanupApp(c) PROVE Sto!StorageInv' /\ Sto!ImageStays
  <2>1. PICK a \in NetApps : storing' = [storing EXCEPT ![c] = [do |-> "destroy", app |-> a]]
    BY <1>5 DEF Sto!CleanupApp
  <2>2. [do |-> "destroy", app |-> a] \in Sto!Methods
    BY DEF Sto!Methods
  <2> QED BY <1>1, <1>2, <1>5, <2>1, <2>2, SameDatasets DEF Sto!CleanupApp
<1>6. ASSUME NEW c \in Clients, Sto!DestroyApp(c) PROVE Sto!StorageInv' /\ Sto!ImageStays
  <2>1. PICK a : a = storing[c].app
    OBVIOUS
  <2>2. a \in NetApps
    <3>1. storing[c] \in Sto!Methods /\ storing[c].do = "destroy"
      BY <1>1, <1>6 DEF Sto!DestroyApp, Sto!Doing
    <3> QED BY <2>1, <3>1 DEF Sto!Methods, Sto!NoMethod
  <2>3. Sto!destroy_dataset(<<"app", a>>) \/ Sto!ZfsSame
    BY <1>6, <2>1 DEF Sto!DestroyApp, Sto!full_path
  <2>4. StoreMoves
    BY <1>1, <2>2, <2>3, DestroyMoves, SameDatasets
  <2>5. Sto!NoMethod \in Sto!Methods
    BY DEF Sto!Methods
  <2> QED BY <1>1, <1>2, <1>6, <2>4, <2>5 DEF Sto!DestroyApp, Sto!Ends
<1> QED BY <1>3, <1>4, <1>5, <1>6

LEMMA StorageKeeps ==
    ASSUME Sto!StorageInv, [Sto!Next]_Sto!storageVars
    PROVE  Sto!StorageInv' /\ Sto!ImageStays
<1>1. CASE UNCHANGED Sto!storageVars
  <2>1. StoreMoves
    BY <1>1, SameDatasets DEF Sto!storageVars, Sto!StorageInv, StoreRight, Sto!ZfsSame
  <2> QED BY <1>1, <2>1 DEF Sto!storageVars, StoreMoves, StoreRight, Sto!StorageInv, Sto!Methods
<1> QED BY <1>1, PrepareKeeps, OtherStorageKeeps DEF Sto!Next

\* Whatever is deployed, promoted and removed, and wherever a command fails,
\* no step loses a cached image or the snapshot that makes it one.
THEOREM ImagesAreSafe == DPSpec => ImagesSurvive
<1>1. Sto!Init => Sto!StorageInv
  BY DEF Sto!Init, Sto!StorageInv, Sto!Methods
<1>2. Sto!StorageInv /\ [Sto!Next]_Sto!storageVars => Sto!StorageInv'
  BY StorageKeeps
<1>3. Sto!StorageInv /\ [Sto!Next]_Sto!storageVars => [Sto!ImageStays]_storageVars
  BY StorageKeeps
<1> QED BY PartsStart, StoStep, <1>1, <1>2, <1>3, PTL DEF DPSpec, ImagesSurvive

-----------------------------------------------------------------------------
LEMMA SameRetainImg == \A s, T : Img!Retain(s, T) = Retain(s, T)
<1>1. \A S : Img!Cardinality(S) = Cardinality(S)
  BY DEF Img!Cardinality, Cardinality
<1>2. \A P, i : Img!Rank(P, i) = Rank(P, i)
  BY <1>1 DEF Img!Rank, Rank
<1>3. \A P, n : Img!Nth(P, n) = Nth(P, n)
  BY <1>2 DEF Img!Nth, Nth
<1>4. \A s, T : Img!Positions(s, T) = Positions(s, T)
  BY DEF Img!Positions, Positions
<1> QED BY <1>1, <1>3, <1>4 DEF Img!Retain, Retain

LEMMA DroppedLeaves ==
    ASSUME NEW S, NEW s \in Seq(S), NEW e
    PROVE  LET t == Img!Dropped(s, e)
           IN  /\ t \in Seq(S)
               /\ \A n \in 1 .. Len(t) : t[n] # e /\ \E i \in 1 .. Len(s) : t[n] = s[i]
<1>1. PICK T : T = Img!ToSet(s) \ {e}
  OBVIOUS
<1>2. Img!Dropped(s, e) = Retain(s, T)
  BY <1>1, SameRetainImg DEF Img!Dropped
<1>3. e \notin T
  BY <1>1
<1> QED BY <1>2, <1>3, RetainElements

LEMMA LatestLeaves ==
    ASSUME NEW S, NEW s \in Seq(S), NEW e \in S
    PROVE  LET t == Img!Latest(s, e)
           IN  /\ t \in Seq(S)
               /\ \A n \in 1 .. Len(t) : t[n] = e \/ \E i \in 1 .. Len(s) : t[n] = s[i]
<1>1. PICK t : t = Img!Dropped(s, e)
  OBVIOUS
<1>2. t \in Seq(S) /\ \A n \in 1 .. Len(t) : \E i \in 1 .. Len(s) : t[n] = s[i]
  BY <1>1, DroppedLeaves
<1>3. Append(t, e) \in Seq(S) /\ Len(Append(t, e)) = Len(t) + 1
      /\ \A n \in 1 .. Len(t) + 1 : Append(t, e)[n] = IF n <= Len(t) THEN t[n] ELSE e
  BY <1>2
<1>4. \A n \in 1 .. Len(t) + 1 : n \in 1 .. Len(t) \/ ~ (n <= Len(t))
  BY <1>2
<1> QED BY <1>1, <1>2, <1>3, <1>4 DEF Img!Latest

\* The images whose entries and imports need no excuse.
Backed == DOMAIN datasets \cup excused

\* A call that leaves the index alone and takes no dataset away.
LEMMA QuietCallMoves ==
    ASSUME Img!ImagesInv, NEW c \in Clients, NEW t \in Img!ImageCalls,
           pull' = [pull EXCEPT ![c] = t],
           manifest_index' = manifest_index, image_files' \in Seq(Images), lock' = lock,
           Backed \subseteq Backed',
           t.do \in Img!Importing => t.image \in Backed',
           t.do \notin {"gc", "remove"}
    PROVE  Img!ImagesInv'
<1>1. DOMAIN pull = Clients /\ pull' \in [Clients -> Img!ImageCalls]
  BY DEF Img!ImagesInv
<1>2. Img!IndexBacked'
  BY DEF Img!ImagesInv, Img!IndexBacked, Backed
<1>3. ASSUME NEW d \in Clients
      PROVE  /\ pull'[d].do \in Img!Importing => pull'[d].image \in Backed'
             /\ pull'[d].do \in {"gc", "remove"} => lock' = {d}
             /\ pull'[d].do = "remove"
                  => Img!Index(pull'[d].image, "ref") \notin Img!ToSet(manifest_index')
  <2>1. CASE d = c
    BY <1>1, <2>1
  <2>2. CASE d # c
    BY <1>1, <2>2 DEF Img!ImagesInv, Backed
  <2> QED BY <2>1, <2>2
<1> QED BY <1>1, <1>2, <1>3 DEF Img!ImagesInv, Backed

\* What the calls hold, for the cases of a step.
LEMMA CallsHeld ==
    ASSUME Img!ImagesInv, NEW c \in Clients
    PROVE  /\ DOMAIN pull = Clients /\ pull[c] \in Img!ImageCalls
           /\ Img!None \in Img!ImageCalls /\ Img!None.do = "none"
           /\ pull[c].do \in {"dataset"} \cup Img!Importing
                => /\ pull[c].image \in Images
                   /\ \A step \in {"dataset"} \cup Img!Importing :
                        LET t == [pull[c] EXCEPT !.do = step]
                        IN  t \in Img!ImageCalls /\ t.do = step /\ t.image = pull[c].image
           /\ pull[c].do \in {"fetch", "remove", "touch"} => pull[c].image \in Images
           /\ pull[c].do = "gc" => pull[c].left \in Seq(Img!Keys)
<1>1. DOMAIN pull = Clients /\ pull[c] \in Img!ImageCalls
  BY DEF Img!ImagesInv
<1>2. Img!None \in Img!ImageCalls /\ Img!None.do = "none"
  BY DEF Img!ImageCalls, Img!None
<1>3. ASSUME pull[c].do \in {"dataset"} \cup Img!Importing
      PROVE  pull[c] \in [do : {"dataset"} \cup Img!Importing, image : Images, layer : Img!LayerContents]
  BY <1>1, <1>3 DEF Img!ImageCalls, Img!None, Img!Importing
<1>4. ASSUME pull[c].do \in {"dataset"} \cup Img!Importing,
             NEW step \in {"dataset"} \cup Img!Importing
      PROVE  LET t == [pull[c] EXCEPT !.do = step]
             IN  t \in Img!ImageCalls /\ t.do = step /\ t.image = pull[c].image
  BY <1>3, <1>4 DEF Img!ImageCalls
<1>5. pull[c].do \in {"fetch", "remove", "touch"} => pull[c].image \in Images
  BY <1>1 DEF Img!ImageCalls, Img!None, Img!Importing
<1>6. pull[c].do = "gc" => pull[c].left \in Seq(Img!Keys)
  BY <1>1 DEF Img!ImageCalls, Img!None, Img!Importing
<1> QED BY <1>1, <1>2, <1>3, <1>4, <1>5, <1>6

LEMMA ImportKeeps ==
    ASSUME Img!ImagesInv, NEW c \in Clients,
           \/ Img!Pull(c) \/ Img!Ask(c) \/ Img!Fetch(c) \/ Img!ensure_dataset(c)
           \/ Img!WriteLayer(c) \/ Img!extract_layer(c) \/ Img!Snapshot(c)
           \/ Img!SaveMetadata(c) \/ Img!GetRootfs(c)
    PROVE  Img!ImagesInv'
<1>1. /\ DOMAIN pull = Clients /\ pull[c] \in Img!ImageCalls
      /\ Img!None \in Img!ImageCalls /\ Img!None.do = "none"
      /\ image_files \in Seq(Images) /\ Img!Importing = {"layer", "extract", "snapshot", "metadata", "index"}
  BY CallsHeld DEF Img!ImagesInv, Img!Importing
<1>2. \A step \in {"dataset"} \cup Img!Importing :
         pull[c].do \in {"dataset"} \cup Img!Importing =>
           LET t == [pull[c] EXCEPT !.do = step]
           IN  t \in Img!ImageCalls /\ t.do = step /\ t.image = pull[c].image
  BY CallsHeld
<1>3. pull[c].do \in Img!Importing => pull[c].image \in Images /\ pull[c].image \in Backed
  BY CallsHeld DEF Img!ImagesInv, Backed
<1>4. CASE Img!Pull(c)
  <2>1. PICK i \in Images : Img!Goes(c, [do |-> "fetch", image |-> i])
    BY <1>4 DEF Img!Pull
  <2>2. [do |-> "fetch", image |-> i] \in Img!ImageCalls
    BY DEF Img!ImageCalls
  <2> QED BY <1>1, <1>4, <2>1, <2>2, QuietCallMoves
          DEF Img!Pull, Img!Goes, Img!DiskSame, Backed
<1>5. CASE Img!Ask(c)
  BY <1>5 DEF Img!Ask, Img!DiskSame, Img!ImagesInv, Img!IndexBacked
<1>6. CASE Img!Fetch(c)
  <2>1. pull[c].image \in Images
    BY <1>6, CallsHeld DEF Img!Fetch, Img!Doing
  <2>2. ASSUME NEW layer \in Img!fetch_layer, layer # "failed",
               Img!Goes(c, [do |-> "dataset", image |-> pull[c].image, layer |-> layer])
        PROVE  Img!ImagesInv'
    <3>1. PICK t : t = [do |-> "dataset", image |-> pull[c].image, layer |-> layer]
      OBVIOUS
    <3>2. t \in Img!ImageCalls /\ t.do = "dataset"
      BY <2>1, <2>2, <3>1 DEF Img!ImageCalls, Img!fetch_layer, Img!LayerContents
    <3> QED BY <1>1, <1>6, <2>2, <3>1, <3>2, QuietCallMoves
            DEF Img!Fetch, Img!Goes, Img!DiskSame, Backed
  <2>3. ASSUME Img!Ends(c) PROVE Img!ImagesInv'
    BY <1>1, <1>6, <2>3, QuietCallMoves DEF Img!Fetch, Img!Ends, Img!Goes, Img!DiskSame, Backed
  <2> QED BY <1>6, <2>2, <2>3 DEF Img!Fetch
<1>7. CASE Img!ensure_dataset(c)
  <2>1. /\ manifest_index' = manifest_index /\ image_files' = image_files /\ lock' = lock
        /\ excused' = excused \ DOMAIN datasets'
        /\ pull[c].do = "dataset" /\ pull[c].image \in Images
    BY <1>7, CallsHeld DEF Img!ensure_dataset, Img!Doing
  <2>2. CASE Img!Ends(c) /\ datasets' = datasets
    BY <1>1, <2>1, <2>2, QuietCallMoves DEF Img!Ends, Img!Goes, Backed
  <2>3. CASE /\ Img!Proceeds(c, "layer")
             /\ datasets' = IF pull[c].image \in DOMAIN datasets THEN datasets
                            ELSE Img!Set(datasets, pull[c].image, "partial")
    <3>1. DOMAIN datasets' = DOMAIN datasets \cup {pull[c].image}
      BY <2>3 DEF Img!Set
    <3>2. PICK t : t = [pull[c] EXCEPT !.do = "layer"]
      OBVIOUS
    <3>3. t \in Img!ImageCalls /\ t.do = "layer" /\ t.image = pull[c].image
      BY <1>1, <1>2, <2>1, <3>2
    <3> QED BY <1>1, <2>1, <2>3, <3>1, <3>2, <3>3, QuietCallMoves
            DEF Img!Proceeds, Img!Goes, Backed
  <2> QED BY <1>7, <2>2, <2>3 DEF Img!ensure_dataset
<1>8. ASSUME NEW step \in Img!Importing, Img!Proceeds(c, step), pull[c].do \in Img!Importing,
             manifest_index' = manifest_index, image_files' \in Seq(Images), lock' = lock,
             DOMAIN datasets' = DOMAIN datasets, excused' = excused
      PROVE  Img!ImagesInv'
  <2>1. PICK t : t = [pull[c] EXCEPT !.do = step]
    OBVIOUS
  <2>2. t \in Img!ImageCalls /\ t.do = step /\ t.image = pull[c].image
    BY <1>2, <1>8, <2>1
  <2> QED BY <1>1, <1>3, <1>8, <2>1, <2>2, QuietCallMoves DEF Img!Proceeds, Img!Goes, Backed
<1>9. ASSUME Img!Ends(c), manifest_index' = manifest_index, image_files' = image_files,
             lock' = lock, datasets' = datasets, excused' = excused
      PROVE  Img!ImagesInv'
  BY <1>1, <1>9, QuietCallMoves DEF Img!Ends, Img!Goes, Backed
<1>10. CASE Img!WriteLayer(c)
  BY <1>1, <1>8, <1>9, <1>10 DEF Img!WriteLayer, Img!Doing
<1>11. CASE Img!extract_layer(c)
  <2>1. DOMAIN datasets' = DOMAIN datasets
    BY <1>11 DEF Img!extract_layer, Img!Set
  <2> QED BY <1>1, <1>8, <1>11, <2>1 DEF Img!extract_layer, Img!Doing
<1>12. CASE Img!Snapshot(c)
  BY <1>1, <1>8, <1>12 DEF Img!Snapshot, Img!Doing
<1>13. CASE Img!SaveMetadata(c)
  <2>1. pull[c].do = "metadata"
    BY <1>13 DEF Img!SaveMetadata, Img!Doing
  <2>2. Img!Latest(image_files, pull[c].image) \in Seq(Images)
    BY <1>1, <1>3, <2>1, LatestLeaves
  <2> QED BY <1>1, <1>8, <1>9, <1>13, <2>1, <2>2 DEF Img!SaveMetadata
<1>14. CASE Img!GetRootfs(c)
  <2>1. PICK i \in Images : Img!Goes(c, [do |-> "touch", image |-> i])
    BY <1>14 DEF Img!GetRootfs
  <2>2. [do |-> "touch", image |-> i] \in Img!ImageCalls
    BY DEF Img!ImageCalls
  <2> QED BY <1>1, <1>14, <2>1, <2>2, QuietCallMoves
          DEF Img!GetRootfs, Img!Goes, Img!DiskSame, Backed
<1> QED BY <1>4, <1>5, <1>6, <1>7, <1>10, <1>11, <1>12, <1>13, <1>14

\* The index is changed with no other call holding it.
LEMMA IndexCallMoves ==
    ASSUME Img!ImagesInv, NEW c \in Clients, NEW t \in Img!ImageCalls,
           pull' = [pull EXCEPT ![c] = t],
           manifest_index' \in Seq(Img!Keys),
           \A n \in 1 .. Len(manifest_index') : manifest_index'[n].image \in Backed,
           image_files' = image_files, lock = {},
           Backed' = Backed, t.do \notin Img!Importing,
           t.do \in {"gc", "remove"} => lock' = {c},
           t.do = "remove" => Img!Index(t.image, "ref") \notin Img!ToSet(manifest_index')
    PROVE  Img!ImagesInv'
<1>1. DOMAIN pull = Clients /\ pull' \in [Clients -> Img!ImageCalls]
  BY DEF Img!ImagesInv
<1>2. Img!IndexBacked'
  BY DEF Img!IndexBacked, Backed
<1>3. ASSUME NEW d \in Clients
      PROVE  /\ pull'[d].do \in Img!Importing => pull'[d].image \in Backed'
             /\ pull'[d].do \in {"gc", "remove"} => lock' = {d}
             /\ pull'[d].do = "remove"
                  => Img!Index(pull'[d].image, "ref") \notin Img!ToSet(manifest_index')
  <2>1. CASE d = c
    BY <1>1, <2>1
  <2>2. CASE d # c
    BY <1>1, <2>2 DEF Img!ImagesInv, Backed
  <2> QED BY <2>1, <2>2
<1> QED BY <1>1, <1>2, <1>3 DEF Img!ImagesInv, Backed

LEMMA IndexKeeps ==
    ASSUME Img!ImagesInv, NEW c \in Clients,
           Img!UpdateIndex(c) \/ Img!Touch(c) \/ Img!GcBegin(c) \/ Img!RemoveEntry(c)
    PROVE  Img!ImagesInv'
<1>1. /\ DOMAIN pull = Clients /\ pull[c] \in Img!ImageCalls
      /\ Img!None \in Img!ImageCalls /\ Img!None.do = "none"
      /\ manifest_index \in Seq(Img!Keys)
      /\ Img!Importing = {"layer", "extract", "snapshot", "metadata", "index"}
      /\ \A n \in 1 .. Len(manifest_index) : manifest_index[n].image \in Backed
  BY CallsHeld DEF Img!ImagesInv, Img!Importing, Img!IndexBacked, Backed
<1>2. \A i \in Images : Img!Index(i, "ref") \in Img!Keys /\ Img!Index(i, "ref").image = i
  BY DEF Img!Index, Img!Keys
<1>3. ASSUME NEW k \in Img!Keys, k.image \in Backed,
             manifest_index' = Img!Latest(manifest_index, k),
             Img!Ends(c), Img!DiskSame, lock' = lock, lock = {}
      PROVE  Img!ImagesInv'
  <2>0. PICK t : t = Img!Latest(manifest_index, k)
    OBVIOUS
  <2>1. /\ t \in Seq(Img!Keys)
        /\ \A n \in 1 .. Len(t) : t[n] = k \/ \E i \in 1 .. Len(manifest_index) : t[n] = manifest_index[i]
    <3>1. PICK m : m = manifest_index
      OBVIOUS
    <3>2. m \in Seq(Img!Keys)
      BY <1>1, <3>1
    <3>3. LET u == Img!Latest(m, k)
          IN  /\ u \in Seq(Img!Keys)
              /\ \A n \in 1 .. Len(u) : u[n] = k \/ \E i \in 1 .. Len(m) : u[n] = m[i]
      BY <1>3, <3>2, LatestLeaves
    <3> QED BY <2>0, <3>1, <3>3
  <2>2. manifest_index' = t /\ \A n \in 1 .. Len(t) : t[n].image \in Backed
    BY <1>1, <1>3, <2>0, <2>1
  <2> QED BY <2>2, <1>1, <1>3, <2>1, IndexCallMoves DEF Img!Ends, Img!Goes, Img!DiskSame, Backed
<1>4. CASE Img!UpdateIndex(c)
  <2>1. pull[c].image \in Images /\ pull[c].image \in Backed
    BY <1>4, CallsHeld DEF Img!UpdateIndex, Img!Doing, Img!ImagesInv, Img!Importing, Backed
  <2> QED BY <1>2, <1>3, <1>4, <2>1 DEF Img!UpdateIndex
<1>5. CASE Img!Touch(c)
  <2>1. PICK k : k = Img!Index(pull[c].image, "ref")
    OBVIOUS
  <2>2. pull[c].image \in Images
    BY <1>5, CallsHeld DEF Img!Touch, Img!Doing
  <2>3. CASE k \in Img!ToSet(manifest_index)
    <3>1. k \in Img!Keys /\ k.image \in Backed
      BY <1>1, <2>3 DEF Img!ToSet
    <3> QED BY <1>3, <1>5, <2>1, <2>3, <3>1 DEF Img!Touch
  <2>4. CASE k \notin Img!ToSet(manifest_index)
    BY <1>1, <1>5, <2>1, <2>4, IndexCallMoves DEF Img!Touch, Img!Ends, Img!Goes, Img!DiskSame, Backed
  <2> QED BY <2>3, <2>4
<1>6. CASE Img!GcBegin(c)
  <2>1. PICK keep \in Keeps : Len(manifest_index) > keep
          /\ Img!Goes(c, [do |-> "gc", left |-> SubSeq(manifest_index, 1, Len(manifest_index) - keep)])
    BY <1>6 DEF Img!GcBegin
  <2>2. PICK left : left = SubSeq(manifest_index, 1, Len(manifest_index) - keep)
    OBVIOUS
  <2>3. left \in Seq(Img!Keys)
    BY <1>1, <2>1, <2>2, DataPlaneAssumption
  <2>4. [do |-> "gc", left |-> left] \in Img!ImageCalls
    BY <2>3 DEF Img!ImageCalls
  <2> QED BY <1>1, <1>6, <2>1, <2>2, <2>4, IndexCallMoves
          DEF Img!GcBegin, Img!Goes, Img!DiskSame, Backed
<1>7. CASE Img!RemoveEntry(c)
  <2>1. PICK i \in Images :
          /\ manifest_index' = Img!Dropped(manifest_index, Img!Index(i, "ref"))
          /\ Img!Goes(c, [do |-> "remove", image |-> i])
    BY <1>7 DEF Img!RemoveEntry
  <2>2. PICK k : k = Img!Index(i, "ref")
    OBVIOUS
  <2>3. PICK s : s = Img!Dropped(manifest_index, k)
    OBVIOUS
  <2>4. /\ s \in Seq(Img!Keys)
        /\ \A n \in 1 .. Len(s) : s[n] # k
             /\ \E j \in 1 .. Len(manifest_index) : s[n] = manifest_index[j]
    BY <1>1, <2>3, DroppedLeaves
  <2>5. manifest_index' = s /\ k \notin Img!ToSet(s) /\ \A n \in 1 .. Len(s) : s[n].image \in Backed
    BY <1>1, <2>1, <2>2, <2>3, <2>4 DEF Img!ToSet
  <2>6. PICK t : t = [do |-> "remove", image |-> i]
    OBVIOUS
  <2>7. t \in Img!ImageCalls /\ t.do = "remove" /\ t.image = i
    BY <2>6 DEF Img!ImageCalls
  <2> QED BY <1>1, <1>7, <2>1, <2>2, <2>4, <2>5, <2>6, <2>7, IndexCallMoves
          DEF Img!RemoveEntry, Img!Goes, Img!DiskSame, Backed
<1> QED BY <1>4, <1>5, <1>6, <1>7

\* A dataset goes only with its entries and unneeded, or it is excused.
LEMMA DestroyedExcuses ==
    ASSUME Img!ImagesInv, NEW i, NEW key, Img!Destroyed(i, key)
    PROVE  /\ \A n \in 1 .. Len(manifest_index) :
                manifest_index[n] # key => manifest_index[n].image \in Backed'
           /\ \A d \in Clients :
                pull[d].do \in Img!Importing => pull[d].image \in Backed'
<1>1. DOMAIN datasets' = DOMAIN datasets \ {i}
      /\ excused' = IF Img!Excuses(i, key) THEN excused \cup {i} ELSE excused
  BY DEF Img!Destroyed, Img!Unset
<1>2. ASSUME NEW n \in 1 .. Len(manifest_index), manifest_index[n] # key
      PROVE  manifest_index[n].image \in Backed'
  <2>1. manifest_index[n].image \in Backed
    BY DEF Img!ImagesInv, Img!IndexBacked, Backed
  <2>2. manifest_index[n].image = i => Img!Excuses(i, key)
    BY <1>2 DEF Img!Excuses
  <2> QED BY <1>1, <2>1, <2>2 DEF Backed
<1>3. ASSUME NEW d \in Clients, pull[d].do \in Img!Importing
      PROVE  pull[d].image \in Backed'
  <2>1. pull[d].image \in Backed
    BY <1>3 DEF Img!ImagesInv, Backed
  <2>2. pull[d].image = i => Img!Excuses(i, key)
    BY <1>3 DEF Img!Excuses
  <2> QED BY <1>1, <2>1, <2>2 DEF Backed
<1> QED BY <1>2, <1>3

\* The holder of the index goes on: no other collects or removes.
LEMMA HolderMoves ==
    ASSUME Img!ImagesInv, NEW c \in Clients, NEW t \in Img!ImageCalls,
           pull[c].do \in {"gc", "remove"}, t.do \in {"gc", "none"},
           pull' = [pull EXCEPT ![c] = t],
           manifest_index' \in Seq(Img!Keys), image_files' \in Seq(Images),
           \A n \in 1 .. Len(manifest_index') : manifest_index'[n].image \in Backed',
           \A d \in Clients : pull[d].do \in Img!Importing => pull[d].image \in Backed',
           t.do = "gc" => lock' = lock
    PROVE  Img!ImagesInv'
<1>1. DOMAIN pull = Clients /\ pull' \in [Clients -> Img!ImageCalls]
  BY DEF Img!ImagesInv
<1>2. Img!IndexBacked'
  BY DEF Img!IndexBacked, Backed
<1>3. ASSUME NEW d \in Clients
      PROVE  /\ pull'[d].do \in Img!Importing => pull'[d].image \in Backed'
             /\ pull'[d].do \in {"gc", "remove"} => lock' = {d}
             /\ pull'[d].do = "remove"
                  => Img!Index(pull'[d].image, "ref") \notin Img!ToSet(manifest_index')
  <2>1. CASE d = c
    BY <1>1, <2>1 DEF Img!ImagesInv, Img!Importing
  <2>2. CASE d # c
    BY <1>1, <2>2 DEF Img!ImagesInv, Backed
  <2> QED BY <2>1, <2>2
<1> QED BY <1>1, <1>2, <1>3 DEF Img!ImagesInv, Backed

LEMMA RemovalKeeps ==
    ASSUME Img!ImagesInv, NEW c \in Clients,
           Img!GcDestroy(c) \/ Img!GcEnd(c) \/ Img!RemoveImage(c)
    PROVE  Img!ImagesInv'
<1>1. /\ Img!None \in Img!ImageCalls /\ Img!None.do = "none"
      /\ manifest_index \in Seq(Img!Keys) /\ image_files \in Seq(Images)
      /\ \A n \in 1 .. Len(manifest_index) : manifest_index[n].image \in Backed
      /\ \A d \in Clients : pull[d].do \in Img!Importing => pull[d].image \in Backed
  BY CallsHeld DEF Img!ImagesInv, Img!IndexBacked, Backed
<1>2. ASSUME NEW i PROVE Img!Dropped(image_files, i) \in Seq(Images)
  <2>1. PICK m : m = image_files
    OBVIOUS
  <2>2. m \in Seq(Images)
    BY <1>1, <2>1
  <2>3. LET u == Img!Dropped(m, i) IN u \in Seq(Images)
    BY <2>2, DroppedLeaves
  <2> QED BY <2>1, <2>3
<1>3. CASE Img!GcDestroy(c)
  <2>1. PICK t : t = [do |-> "gc", left |-> Tail(pull[c].left)]
    OBVIOUS
  <2>2. pull[c].do = "gc" /\ pull[c].left \in Seq(Img!Keys) /\ pull[c].left # <<>>
    BY <1>3, CallsHeld DEF Img!GcDestroy, Img!Doing
  <2>3. t \in Img!ImageCalls /\ t.do = "gc"
    <3>1. Tail(pull[c].left) \in Seq(Img!Keys)
      BY <2>2
    <3> QED BY <2>1, <3>1 DEF Img!ImageCalls
  <2>4. pull' = [pull EXCEPT ![c] = t] /\ lock' = lock
    BY <1>3, <2>1 DEF Img!GcDestroy, Img!Goes
  <2>5. PICK key : key = Head(pull[c].left)
    OBVIOUS
  <2>6. CASE Img!Destroyable(key.image)
    <3>1. /\ Img!Destroyed(key.image, key)
          /\ manifest_index' = Img!Dropped(manifest_index, key)
          /\ image_files' = Img!Dropped(image_files, key.image)
      BY <1>3, <2>5, <2>6 DEF Img!GcDestroy, Img!gc_remove_entry
    <3>2. PICK m : m = manifest_index
      OBVIOUS
    <3>3. m \in Seq(Img!Keys)
      BY <1>1, <3>2
    <3>4. LET u == Img!Dropped(m, key)
          IN  /\ u \in Seq(Img!Keys)
              /\ \A n \in 1 .. Len(u) : u[n] # key /\ \E j \in 1 .. Len(m) : u[n] = m[j]
      BY <3>3, DroppedLeaves
    <3>5. PICK u : u = manifest_index'
      OBVIOUS
    <3>6. /\ u \in Seq(Img!Keys)
          /\ \A n \in 1 .. Len(u) : u[n] # key /\ \E j \in 1 .. Len(m) : u[n] = m[j]
      BY <3>1, <3>2, <3>4, <3>5
    <3>7. \A n \in 1 .. Len(u) : u[n].image \in Backed'
      BY <3>1, <3>2, <3>6, DestroyedExcuses
    <3>8. \A d \in Clients : pull[d].do \in Img!Importing => pull[d].image \in Backed'
      BY <3>1, DestroyedExcuses
    <3>9. image_files' \in Seq(Images)
      BY <1>2, <3>1
    <3> QED BY <2>2, <2>3, <2>4, <3>5, <3>6, <3>7, <3>8, <3>9, HolderMoves
  <2>7. CASE ~ Img!Destroyable(key.image)
    <3>1. UNCHANGED <<datasets, excused, manifest_index, image_files>>
      BY <1>3, <2>5, <2>7 DEF Img!GcDestroy
    <3>2. Backed' = Backed
      BY <3>1 DEF Backed
    <3> QED BY <1>1, <2>2, <2>3, <2>4, <3>1, <3>2, HolderMoves
  <2> QED BY <2>6, <2>7
<1>4. CASE Img!GcEnd(c)
  <2>1. UNCHANGED <<datasets, excused, manifest_index, image_files>> /\ pull[c].do = "gc"
        /\ pull' = [pull EXCEPT ![c] = Img!None]
    BY <1>4 DEF Img!GcEnd, Img!DiskSame, Img!Ends, Img!Goes, Img!Doing
  <2>2. Backed' = Backed
    BY <2>1 DEF Backed
  <2> QED BY <1>1, <2>1, <2>2, HolderMoves
<1>5. CASE Img!RemoveImage(c)
  <2>1. PICK i : i = pull[c].image
    OBVIOUS
  <2>2. PICK key : key = Img!Index(i, "ref")
    OBVIOUS
  <2>3. pull[c].do = "remove" /\ manifest_index' = manifest_index
        /\ pull' = [pull EXCEPT ![c] = Img!None]
    BY <1>5 DEF Img!RemoveImage, Img!Ends, Img!Goes, Img!Doing
  <2>4. \A n \in 1 .. Len(manifest_index) : manifest_index[n] # key
    BY <2>1, <2>2, <2>3, <1>1 DEF Img!ImagesInv, Img!ToSet
  <2>5. CASE Img!Destroyable(i)
    <3>1. Img!Destroyed(i, key) /\ image_files' = Img!Dropped(image_files, i)
      BY <1>5, <2>1, <2>2, <2>5 DEF Img!RemoveImage
    <3>2. /\ \A n \in 1 .. Len(manifest_index) : manifest_index[n].image \in Backed'
          /\ \A d \in Clients : pull[d].do \in Img!Importing => pull[d].image \in Backed'
      BY <2>4, <3>1, DestroyedExcuses
    <3>3. image_files' \in Seq(Images)
      BY <1>2, <3>1
    <3> QED BY <1>1, <2>3, <3>2, <3>3, HolderMoves
  <2>6. CASE ~ Img!Destroyable(i)
    <3>1. UNCHANGED <<datasets, excused, image_files>>
      BY <1>5, <2>1, <2>6 DEF Img!RemoveImage
    <3>2. Backed' = Backed
      BY <3>1 DEF Backed
    <3> QED BY <1>1, <2>3, <3>1, <3>2, HolderMoves
  <2> QED BY <2>5, <2>6
<1> QED BY <1>3, <1>4, <1>5

\* A new process files the datasets it finds, under their names.
LEMMA CacheRestartKeeps ==
    ASSUME Img!ImagesInv, Img!CacheRestart
    PROVE  Img!ImagesInv'
<1>1. PICK kept : kept = Retain(image_files, DOMAIN datasets)
  OBVIOUS
<1>2. /\ kept \in Seq(Images) /\ Len(kept) \in Nat
      /\ \A n \in 1 .. Len(kept) : kept[n] \in DOMAIN datasets
  <2>1. PICK m : m = image_files
    OBVIOUS
  <2>2. m \in Seq(Images)
    BY <2>1 DEF Img!ImagesInv
  <2>3. PICK D : D = DOMAIN datasets
    OBVIOUS
  <2>4. LET u == Retain(m, D)
        IN  u \in Seq(Images) /\ Len(u) \in Nat /\ \A n \in 1 .. Len(u) : u[n] \in D
    BY <2>2, RetainElements
  <2> QED BY <1>1, <2>1, <2>3, <2>4
<1>3. /\ manifest_index' = [n \in 1 .. Len(kept) |-> Img!Index(kept[n], "name")]
      /\ pull' = [c \in Clients |-> Img!None]
      /\ UNCHANGED <<image_files, datasets>>
  BY <1>1, SameRetainImg DEF Img!CacheRestart, Img!load_existing_images
<1>4. \A n \in 1 .. Len(kept) :
        LET k == Img!Index(kept[n], "name")
        IN  k \in Img!Keys /\ k.image \in DOMAIN datasets
  BY <1>2 DEF Img!Index, Img!Keys
<1>5. manifest_index' \in Seq(Img!Keys) /\ Len(manifest_index') = Len(kept)
  BY <1>2, <1>3, <1>4
<1>6. Img!IndexBacked'
  BY <1>3, <1>4, <1>5 DEF Img!IndexBacked
<1>7. Img!None \in Img!ImageCalls /\ Img!None.do = "none"
  BY DEF Img!None, Img!ImageCalls
<1> QED BY <1>3, <1>5, <1>6, <1>7 DEF Img!ImagesInv, Img!Importing

LEMMA ImagesKeep == Img!ImagesInv /\ [Img!Next]_Img!imageVars => Img!ImagesInv'
<1>1. ASSUME Img!ImagesInv, UNCHANGED <<manifest_index, image_files, datasets, lock, pull, excused>>
      PROVE  Img!ImagesInv'
  BY <1>1 DEF Img!ImagesInv, Img!IndexBacked
<1>2. ASSUME Img!ImagesInv, NEW k \in Containers, Img!clone_for_container(k) \/ Img!remove_container_clone(k)
      PROVE  Img!ImagesInv'
  BY <1>1, <1>2 DEF Img!clone_for_container, Img!remove_container_clone
<1> QED BY <1>1, <1>2, ImportKeeps, IndexKeeps, RemovalKeeps, CacheRestartKeeps
        DEF Img!Next, Img!imageVars

\* Failed imports, collections, removals and restarts in any order: what the
\* index lists is there, unless its destruction met an import or a second key.
THEOREM IndexIsBacked == DPSpec => []IndexBacked
<1>1. Img!Init => Img!ImagesInv
  <2>1. Img!None \in Img!ImageCalls /\ Img!None.do = "none"
    BY DEF Img!None, Img!ImageCalls
  <2> QED BY <2>1 DEF Img!Init, Img!ImagesInv, Img!IndexBacked, Img!Importing
<1>2. Img!ImagesInv => IndexBacked
  BY DEF Img!ImagesInv, IndexBacked
<1> QED BY PartsStart, ImgStep, <1>1, <1>2, ImagesKeep, PTL DEF DPSpec

-----------------------------------------------------------------------------
LEMMA SpanStarts == Obs!TracesInv /\ Obs!start_span => Obs!TracesInv'
<1> SUFFICES ASSUME Obs!TracesInv, Obs!start_span PROVE Obs!TracesInv'
  OBVIOUS
<1>1. PICK s \in Spans \ DOMAIN spans, p \in {{}} \cup {{q} : q \in DOMAIN spans} :
        \E b \in Obs!sampled_of(p) :
           spans' = [t \in DOMAIN spans \cup {s} |->
                       IF t = s THEN [trace |-> Obs!trace_of(s, p), sampled |-> b,
                                      status |-> "Unset", ended |-> FALSE]
                       ELSE spans[t]]
  BY DEF Obs!start_span
<1>2. PICK b \in Obs!sampled_of(p) :
           spans' = [t \in DOMAIN spans \cup {s} |->
                       IF t = s THEN [trace |-> Obs!trace_of(s, p), sampled |-> b,
                                      status |-> "Unset", ended |-> FALSE]
                       ELSE spans[t]]
  BY <1>1
<1> DEFINE of == Obs!trace_of(s, p)
\* The trace is the span's own, or one the parent is of, with its sampling.
<1>3. \/ of = s /\ b \in BOOLEAN
      \/ \E q \in DOMAIN spans : of = spans[q].trace /\ b = spans[q].sampled
  BY <1>1, <1>2 DEF Obs!trace_of, Obs!sampled_of
<1>4. of \in DOMAIN spans \cup {s} /\ b \in BOOLEAN
  BY <1>3 DEF Obs!TracesInv
<1> HIDE DEF of
<1>5. /\ DOMAIN spans' = DOMAIN spans \cup {s}
      /\ spans'[s] = [trace |-> of, sampled |-> b, status |-> "Unset", ended |-> FALSE]
      /\ \A t \in DOMAIN spans : spans'[t] = spans[t]
  BY <1>1, <1>2 DEF of
<1>6. spans' \in [DOMAIN spans' -> [trace : DOMAIN spans', sampled : BOOLEAN,
                                    status : {"Unset", "Error", "Ok"}, ended : BOOLEAN]]
  BY <1>2, <1>4, <1>5 DEF of, Obs!TracesInv
<1>7. \A t \in DOMAIN spans : spans[t].trace = of => spans[t].sampled = b
  BY <1>1, <1>3 DEF Obs!TracesInv
<1>8. \A t, u \in DOMAIN spans' :
         spans'[t].trace = spans'[u].trace => spans'[t].sampled = spans'[u].sampled
  BY <1>5, <1>7 DEF Obs!TracesInv
<1>9. queue' = queue /\ exported' = exported
  BY DEF Obs!start_span
<1> QED BY <1>5, <1>6, <1>8, <1>9 DEF Obs!TracesInv

LEMMA TracesKeep == Obs!TracesInv /\ [Obs!TelemetryNext]_Obs!telemetryVars => Obs!TracesInv'
<1> SUFFICES ASSUME Obs!TracesInv, [Obs!TelemetryNext]_Obs!telemetryVars PROVE Obs!TracesInv'
  OBVIOUS
<1>1. CASE UNCHANGED <<spans, queue, exported>>
  BY <1>1 DEF Obs!TracesInv
<1>2. CASE Obs!set_status
  <2>1. PICK s \in DOMAIN spans, st \in {"Error", "Ok"} :
          spans' = [spans EXCEPT ![s].status = st]
    BY <1>2 DEF Obs!set_status
  <2> QED BY <1>2, <2>1 DEF Obs!set_status, Obs!TracesInv
<1>3. CASE Obs!end
  <2>1. PICK s \in DOMAIN spans :
          /\ spans' = [spans EXCEPT ![s].ended = TRUE]
          /\ queue' = queue \/ (spans[s].sampled /\ queue' = queue \cup {s})
    BY <1>3 DEF Obs!end
  <2>2. /\ DOMAIN spans' = DOMAIN spans /\ exported' = exported
        /\ \A t \in DOMAIN spans : spans'[t].trace = spans[t].trace
                                   /\ spans'[t].sampled = spans[t].sampled
    BY <1>3, <2>1 DEF Obs!end, Obs!TracesInv
  <2>3. spans' \in [DOMAIN spans' -> [trace : DOMAIN spans', sampled : BOOLEAN,
                                     status : {"Unset", "Error", "Ok"}, ended : BOOLEAN]]
    <3>1. \A x \in [trace : DOMAIN spans, sampled : BOOLEAN,
                   status : {"Unset", "Error", "Ok"}, ended : BOOLEAN] :
             [x EXCEPT !.ended = TRUE] \in [trace : DOMAIN spans, sampled : BOOLEAN,
                   status : {"Unset", "Error", "Ok"}, ended : BOOLEAN]
      OBVIOUS
    <3> QED BY <2>1, <3>1 DEF Obs!TracesInv
  <2>4. \A t \in queue' \cup exported' : t \in DOMAIN spans' /\ spans'[t].sampled
    BY <2>1, <2>2 DEF Obs!TracesInv
  <2>5. \A t, u \in DOMAIN spans' :
           spans'[t].trace = spans'[u].trace => spans'[t].sampled = spans'[u].sampled
    BY <2>2 DEF Obs!TracesInv
  <2> QED BY <2>3, <2>4, <2>5 DEF Obs!TracesInv
<1>4. CASE Obs!force_flush \/ Obs!shutdown
  BY <1>4 DEF Obs!force_flush, Obs!shutdown, Obs!TracesInv
<1>5. CASE UNCHANGED Obs!telemetryVars \/ \E c \in Clients :
             Obs!register(c) \/ Obs!InsertMetric(c) \/ Obs!get_or_create(c) \/ Obs!CreateMetric(c)
  BY <1>1, <1>5 DEF Obs!register, Obs!InsertMetric, Obs!get_or_create, Obs!CreateMetric,
     Obs!SpansSame, Obs!telemetryVars
<1> QED BY <1>2, <1>3, <1>4, <1>5, SpanStarts DEF Obs!TelemetryNext

LEMMA TracesAreWhole == DPSpec => []Obs!TracesWhole
<1>1. Obs!TelemetryInit => Obs!TracesInv
  BY DEF Obs!TelemetryInit, Obs!TracesInv
<1>2. Obs!TracesInv => Obs!TracesWhole
  BY DEF Obs!TracesInv, Obs!TracesWhole
<1> QED BY PartsStart, TelStep, <1>1, <1>2, TracesKeep, PTL DEF DPSpec

-----------------------------------------------------------------------------
\* What a load carries from one step to the next.
Carries(t) ==
    /\ t.do \in {"look", "compile", "artifact", "write", "insert"} =>
           t.key = t.since /\ t.since \in 1..wasm_version
    /\ t.do \in {"artifact", "write", "insert", "loaded"} => t.module \in t.since..wasm_version

LEMMA LoadGoes ==
    ASSUME Wa!ModulesInv, NEW c \in Clients, NEW t, Carries(t), Wa!Goes(c, t),
           UNCHANGED wasm_version,
           Wa!Compiled(module_cache, {})', Wa!Compiled(artifacts, {Wa!Torn})'
    PROVE  Wa!ModulesInv'
BY DEF Wa!ModulesInv, Wa!Goes, Carries, Wa!Torn

LEMMA PutCompiled ==
    ASSUME NEW f, NEW more, NEW k \in Nat, NEW v \in (k..wasm_version) \cup more,
           Wa!Compiled(f, more)
    PROVE  Wa!Compiled(Wa!Put(f, k, v), more)
BY DEF Wa!Compiled, Wa!Put

LEMMA ModulesKeep == Wa!ModulesInv /\ [Wa!Next]_Wa!wasmVars => Wa!ModulesInv'
<1> SUFFICES ASSUME Wa!ModulesInv, [Wa!Next]_Wa!wasmVars PROVE Wa!ModulesInv'
  OBVIOUS
<1>0. /\ wasm_version \in Nat /\ Wa!Compiled(module_cache, {}) /\ Wa!Compiled(artifacts, {Wa!Torn})
      /\ \A c \in Clients : Carries(load[c])
  BY DEF Wa!ModulesInv, Carries
\* The caches as they are, in the next state.
<1>1. /\ UNCHANGED <<wasm_version, module_cache>> => Wa!Compiled(module_cache, {})'
      /\ UNCHANGED <<wasm_version, artifacts>> => Wa!Compiled(artifacts, {Wa!Torn})'
  BY <1>0 DEF Wa!Compiled, Wa!Torn
<1>2. CASE UNCHANGED Wa!wasmVars
  BY <1>2 DEF Wa!wasmVars, Wa!ModulesInv, Wa!Compiled, Wa!Torn
<1>3. CASE Wa!Deploy
  <2>1. /\ wasm_version' = wasm_version + 1 /\ wasm_version' \in Nat \ {0}
        /\ UNCHANGED <<module_cache, artifacts, load>>
    BY <1>3 DEF Wa!Deploy, Wa!ModulesInv
  <2>2. Wa!Compiled(module_cache, {})' /\ Wa!Compiled(artifacts, {Wa!Torn})'
    BY <1>0, <2>1 DEF Wa!Compiled, Wa!Torn
  <2>3. \A c \in Clients : Carries(load[c])'
    BY <1>0, <2>1 DEF Carries
  <2> QED BY <2>1, <2>2, <2>3 DEF Wa!ModulesInv, Carries
<1>4. CASE Wa!clear_cache \/ Wa!Restart \/ Wa!OutOfFuel
  <2>1. Wa!Compiled(module_cache, {})'
    BY <1>1, <1>4 DEF Wa!clear_cache, Wa!Restart, Wa!OutOfFuel, Wa!Empty, Wa!Compiled
  <2>2. Wa!Compiled(artifacts, {Wa!Torn})' /\ UNCHANGED wasm_version
    BY <1>1, <1>4 DEF Wa!clear_cache, Wa!Restart, Wa!OutOfFuel
  <2>3. load' = load \/ load' = [c \in Clients |-> Wa!Idle]
    BY <1>4 DEF Wa!clear_cache, Wa!Restart, Wa!OutOfFuel
  <2> QED BY <2>1, <2>2, <2>3 DEF Wa!ModulesInv, Wa!Idle
<1>5. ASSUME NEW c \in Clients PROVE Wa!from_file(c) \/ Wa!LookUp(c) \/ Wa!compile(c) => Wa!ModulesInv'
  <2>1. CASE Wa!from_file(c)
    <3>1. Carries([do |-> "look", key |-> Wa!compute_cache_key(wasm_version),
                   since |-> wasm_version])
      BY DEF Carries, Wa!compute_cache_key, Wa!ModulesInv
    <3> QED BY <1>1, <2>1, <3>1, LoadGoes DEF Wa!from_file
  <2>2. CASE Wa!LookUp(c) /\ load[c].key \in DOMAIN module_cache
    <3>1. Carries([do |-> "loaded", since |-> load[c].since, module |-> module_cache[load[c].key]])
      BY <1>0, <2>2 DEF Wa!LookUp, Carries, Wa!Compiled
    <3> QED BY <1>1, <2>2, <3>1, LoadGoes DEF Wa!LookUp, Wa!Loaded
  <2>3. CASE Wa!LookUp(c) /\ load[c].key \notin DOMAIN module_cache
    <3>1. Carries([load[c] EXCEPT !.do = "compile"])
      BY <1>0, <2>3 DEF Wa!LookUp, Carries
    <3> QED BY <1>1, <2>3, <3>1, LoadGoes DEF Wa!LookUp
  <2>4. CASE Wa!compile(c)
    <3>1. Carries([do |-> "artifact", key |-> load[c].key, since |-> load[c].since,
                   module |-> wasm_version]) /\ Carries(Wa!Idle)
      BY <1>0, <2>4 DEF Wa!compile, Carries, Wa!Idle
    <3> QED BY <1>1, <2>4, <3>1, LoadGoes DEF Wa!compile
  <2> QED BY <2>1, <2>2, <2>3, <2>4
<1>6. ASSUME NEW c \in Clients PROVE Wa!load_precompiled(c) => Wa!ModulesInv'
  <2> SUFFICES ASSUME Wa!load_precompiled(c) PROVE Wa!ModulesInv'
    OBVIOUS
  <2> DEFINE k == load[c].key
  <2>1. load[c].do = "artifact" /\ UNCHANGED <<wasm_version, module_cache>> /\ k \in Nat
        /\ k = load[c].since /\ load[c].module \in k..wasm_version
    BY <1>0 DEF Wa!load_precompiled, Carries
  <2>2. CASE k \in DOMAIN artifacts /\ artifacts[k] # Wa!Torn
    <3>1. Carries([load[c] EXCEPT !.do = "insert", !.module = artifacts[k]])
      BY <1>0, <2>1, <2>2 DEF Carries, Wa!Compiled
    <3> QED BY <1>1, <2>1, <2>2, <3>1, LoadGoes DEF Wa!load_precompiled
  <2>3. CASE ~ (k \in DOMAIN artifacts /\ artifacts[k] # Wa!Torn)
    <3>1. Carries([load[c] EXCEPT !.do = "write"])
      BY <1>0, <2>1 DEF Carries
    <3>2. Wa!Compiled(artifacts, {Wa!Torn})'
      <4>1. Wa!Compiled(Wa!Put(artifacts, k, Wa!Torn), {Wa!Torn})
        BY <1>0, <2>1, PutCompiled
      <4> QED BY <2>1, <2>3, <4>1 DEF Wa!load_precompiled, Wa!Compiled, Wa!Torn
    <3> QED BY <1>1, <2>1, <2>3, <3>1, <3>2, LoadGoes DEF Wa!load_precompiled
  <2> QED BY <2>2, <2>3
<1>7. ASSUME NEW c \in Clients PROVE Wa!WriteArtifact(c) \/ Wa!InsertModule(c) => Wa!ModulesInv'
  <2>1. CASE Wa!WriteArtifact(c)
    <3>1. Carries([load[c] EXCEPT !.do = "insert"])
      BY <1>0, <2>1 DEF Wa!WriteArtifact, Carries
    <3>2. load[c].key \in Nat /\ load[c].module \in load[c].key..wasm_version
      BY <1>0, <2>1 DEF Wa!WriteArtifact, Carries
    <3>3. \A a \in {load[c].module, Wa!Torn} :
             Wa!Compiled(Wa!Put(artifacts, load[c].key, a), {Wa!Torn})
      BY <1>0, <3>2, PutCompiled
    <3>4. Wa!Compiled(artifacts, {Wa!Torn})'
      BY <2>1, <3>3 DEF Wa!WriteArtifact, Wa!Compiled, Wa!Torn
    <3> QED BY <1>1, <2>1, <3>1, <3>4, LoadGoes DEF Wa!WriteArtifact
  <2>2. CASE Wa!InsertModule(c)
    <3>1. Carries([do |-> "loaded", since |-> load[c].since, module |-> load[c].module])
      BY <1>0, <2>2 DEF Wa!InsertModule, Carries
    <3>2. load[c].key \in Nat /\ load[c].module \in load[c].key..wasm_version
      BY <1>0, <2>2 DEF Wa!InsertModule, Carries
    <3>3. Wa!Compiled(Wa!Put(module_cache, load[c].key, load[c].module), {})
      BY <1>0, <3>2, PutCompiled
    <3>4. Wa!Compiled(module_cache, {})'
      BY <2>2, <3>3 DEF Wa!InsertModule, Wa!Compiled
    <3> QED BY <1>1, <2>2, <3>1, <3>4, LoadGoes DEF Wa!InsertModule, Wa!Loaded
  <2> QED BY <2>1, <2>2
<1>8. ASSUME NEW c \in Clients
      PROVE  Wa!call(c) \/ Wa!wait(c) \/ Wa!Exit(c) \/ Wa!TimeOut(c) => Wa!ModulesInv'
  <2>1. Carries(Wa!Idle) /\ Carries([do |-> "wait"])
    BY DEF Carries, Wa!Idle
  <2> QED BY <1>1, <2>1, LoadGoes DEF Wa!call, Wa!wait, Wa!Exit, Wa!TimeOut
<1> QED BY <1>2, <1>3, <1>4, <1>5, <1>6, <1>7, <1>8 DEF Wa!Next

LEMMA ModulesAreNew == DPSpec => []Wa!LoadedCurrent
<1>1. Wa!Init => Wa!ModulesInv
  BY DEF Wa!Init, Wa!ModulesInv, Wa!Compiled, Wa!Idle, Wa!Empty
<1>2. Wa!ModulesInv => Wa!LoadedCurrent
  BY DEF Wa!ModulesInv, Wa!LoadedCurrent
<1> QED BY PartsStart, WaStep, <1>1, <1>2, ModulesKeep, PTL DEF DPSpec

-----------------------------------------------------------------------------
LEMMA KeysApart ==
    /\ \A v, w, n : Obj!object_key(v) # Obj!snapshot_key(w, n)
    /\ \A v, w, n, m : Obj!snapshot_key(v, n) = Obj!snapshot_key(w, m) => v = w /\ n = m
    /\ \A v, n : Obj!snapshot_key(v, n) = <<v, n>>
<1>1. \A v, w, n : <<v>> # <<w, n>>
  <2>1. \A v, w, n : DOMAIN <<v>> = 1..1 /\ DOMAIN <<w, n>> = 1..2
    OBVIOUS
  <2>2. 1..1 # 1..2
    OBVIOUS
  <2> QED BY ONLY <2>1, <2>2
<1> QED BY <1>1 DEF Obj!object_key, Obj!snapshot_key

\* Every request but destroy and snapshot leaves the snapshots alone.
LEMMA VolumeWritten ==
    ASSUME Obj!SnapshotsKept, NEW v, UNCHANGED taken,
           \A k \in DOMAIN objects : k # Obj!object_key(v) =>
               k \in DOMAIN objects' /\ objects'[k] = objects[k]
    PROVE  Obj!SnapshotsKept'
BY KeysApart DEF Obj!SnapshotsKept, Obj!info

LEMMA SnapshotsKeep == Obj!SnapshotsKept /\ [Obj!Next]_Obj!objectVars => Obj!SnapshotsKept'
<1> SUFFICES ASSUME Obj!SnapshotsKept, [Obj!Next]_Obj!objectVars PROVE Obj!SnapshotsKept'
  OBVIOUS
<1>1. CASE UNCHANGED <<objects, taken>>
  BY <1>1 DEF Obj!SnapshotsKept, Obj!info
<1>2. CASE Obj!Fill
  <2>1. PICK v \in Stored, x \in Contents : Obj!put_object(Obj!object_key(v), x)
    BY <1>2 DEF Obj!Fill, Obj!list, Obj!VolumeKeys
  <2> QED BY <1>2, <2>1, VolumeWritten DEF Obj!Fill, Obj!put_object, Obj!Set
<1>3. ASSUME NEW c \in Clients, Obj!create(c) \/ Obj!CloneCreate(c) PROVE Obj!SnapshotsKept'
  <2>1. \/ UNCHANGED <<objects, taken>>
        \/ \E v : Obj!put_object(Obj!object_key(v), "placeholder") /\ UNCHANGED taken
    BY <1>3 DEF Obj!create, Obj!CloneCreate
  <2> QED BY <1>1, <2>1, VolumeWritten DEF Obj!put_object, Obj!Set
<1>4. ASSUME NEW c \in Clients, Obj!clone(c) PROVE Obj!SnapshotsKept'
  <2>1. PICK k \in Obj!SnapshotKeys, v \in Stored :
           /\ objects' = Obj!Set(objects, Obj!object_key(v), objects[k])
           /\ UNCHANGED taken
    BY <1>4 DEF Obj!clone, Obj!copy_object
  <2> QED BY <2>1, VolumeWritten DEF Obj!Set
<1>5. ASSUME NEW c \in Clients, Obj!destroy(c) PROVE Obj!SnapshotsKept'
  <2>1. PICK k : objects' = Obj!Unset(objects, k) /\ taken' = Obj!Unset(taken, k)
    BY <1>5 DEF Obj!destroy
  <2> QED BY <2>1, KeysApart DEF Obj!Unset, Obj!SnapshotsKept, Obj!info
<1>6. ASSUME NEW c \in Clients, Obj!snapshot(c) PROVE Obj!SnapshotsKept'
  <2>1. PICK v \in Stored, n \in SnapNames :
           /\ objects' = Obj!Set(objects, <<v, n>>, objects[Obj!object_key(v)])
           /\ taken' = Obj!Set(taken, <<v, n>>, objects[Obj!object_key(v)])
    BY <1>6 DEF Obj!snapshot, Obj!snapshot_request, Obj!copy_object, Obj!snapshot_key
  <2> QED BY <2>1, KeysApart DEF Obj!Set, Obj!SnapshotsKept, Obj!info
<1>7. ASSUME NEW c \in Clients, Obj!set_property(c) PROVE Obj!SnapshotsKept'
  BY <1>1, <1>7 DEF Obj!set_property
<1> QED BY <1>1, <1>2, <1>3, <1>4, <1>5, <1>6, <1>7 DEF Obj!Next, Obj!objectVars

LEMMA SnapshotsAreKept == DPSpec => []Obj!SnapshotsKept
<1>1. Obj!Init => Obj!SnapshotsKept
  BY DEF Obj!Init, Obj!SnapshotsKept
<1> QED BY PartsStart, ObjStep, <1>1, SnapshotsKeep, PTL DEF DPSpec

-----------------------------------------------------------------------------
\* What the invariant says of one path.
Orderly(p) ==
    /\ \A c, d \in Cf!CallsOn(p) : c = d
    /\ Cf!CallsOn(p) = {} => Cf!AsWritten(p)
    /\ \A c \in Cf!CallsOn(p) : calls[c].at = "write" => Cf!Opened(p, calls[c])

\* A step of a call on one path leaves the others as they are.
LEMMA OtherPaths ==
    ASSUME Cf!FilesInv, NEW c \in Clients, NEW p, NEW q \in Cf!Paths \ mixed', q # p, q \notin mixed,
           NEW t, calls' = [calls EXCEPT ![c] = t],
           calls[c] = Cf!NoCall \/ calls[c].path = p, t = Cf!NoCall \/ t.path = p,
           q \in DOMAIN certificates' <=> q \in DOMAIN certificates,
           q \in DOMAIN written' <=> q \in DOMAIN written,
           q \in DOMAIN certificates => certificates'[q] = certificates[q],
           q \in DOMAIN written => written'[q] = written[q]
    PROVE  Orderly(q)'
<1>1. /\ DOMAIN calls' = Clients /\ calls'[c] = t
      /\ \A d \in Clients \ {c} : calls'[d] = calls[d]
  BY DEF Cf!FilesInv
<1>2. Cf!CallsOn(q)' = Cf!CallsOn(q) /\ c \notin Cf!CallsOn(q)
  BY <1>1 DEF Cf!CallsOn, Cf!NoCall
<1>3. Orderly(q)
  BY DEF Cf!FilesInv, Orderly
<1>4. \A d \in Cf!CallsOn(q) : calls'[d] = calls[d]
  BY <1>1, <1>2 DEF Cf!CallsOn
<1> QED BY <1>2, <1>3, <1>4 DEF Orderly, Cf!AsWritten, Cf!Opened, Cf!Empty

\* A call that begins on p is alone there, or p is mixed.
LEMMA BeginsAlone ==
    ASSUME NEW c \in Clients, NEW p, Cf!Begins(c, p), NEW t, t # Cf!NoCall, t.path = p,
           Cf!FilesInv, calls' = [calls EXCEPT ![c] = t], p \notin mixed'
    PROVE  /\ Cf!CallsOn(p)' = {c} /\ calls'[c] = t
           /\ \A q : q # p => (q \in mixed' <=> q \in mixed)
BY DEF Cf!Begins, Cf!CallsOn, Cf!FilesInv, Cf!NoCall

LEMMA BeginsElsewhere ==
    ASSUME NEW c, NEW p, Cf!Begins(c, p)
    PROVE  \A q : q # p => (q \in mixed' <=> q \in mixed)
BY DEF Cf!Begins

LEMMA FilesKeep == Cf!FilesInv /\ [Cf!Next]_Cf!certFileVars => Cf!FilesInv'
<1> SUFFICES ASSUME Cf!FilesInv, [Cf!Next]_Cf!certFileVars PROVE Cf!FilesInv'
  OBVIOUS
<1>0. DOMAIN calls = Clients /\ Cf!Paths' = Cf!Paths /\ Cf!NoCall' = Cf!NoCall
  BY DEF Cf!FilesInv, Cf!Paths, Cf!NoCall
<1>a. Cf!FilesInv' <=> DOMAIN calls' = Clients /\ \A p \in Cf!Paths \ mixed' : Orderly(p)'
  BY DEF Cf!FilesInv, Orderly, Cf!Paths
<1>1. CASE UNCHANGED Cf!certFileVars
  BY <1>1 DEF Cf!certFileVars, Cf!FilesInv, Cf!CallsOn, Cf!AsWritten, Cf!Opened, Cf!Empty,
     Cf!Paths, Cf!NoCall
<1>2. CASE Cf!Crash
  <2>1. /\ DOMAIN calls' = Clients /\ \A p : Cf!CallsOn(p)' = {}
        /\ UNCHANGED <<certificates, written>>
    BY <1>2 DEF Cf!Crash, Cf!CallsOn, Cf!NoCall
  <2>2. \A p \in Cf!Paths \ mixed' : p \notin mixed /\ Cf!CallsOn(p) = {}
    BY <1>2 DEF Cf!Crash, Cf!CallsOn
  <2> QED BY <1>a, <2>1, <2>2 DEF Cf!FilesInv, Orderly, Cf!AsWritten
<1>3. ASSUME NEW c \in Clients, Cf!put(c) PROVE Cf!FilesInv'
  <2>1. PICK d, l, p, t :
          /\ p = Cf!cert_path(d)
          /\ t = [at |-> "write", path |-> p, inode |-> certificates'[p].inode,
                  cert |-> [is |-> "cert", domain |-> d, n |-> puts + 1, length |-> l]]
          /\ certificates' = Cf!truncate(p, puts + 1)
          /\ calls' = [calls EXCEPT ![c] = t]
          /\ Cf!Begins(c, p)
    BY <1>3 DEF Cf!put
  <2>2. /\ t # Cf!NoCall /\ t.path = p /\ t.cert.is = "cert" /\ t.inode = certificates'[p].inode
    BY <2>1 DEF Cf!NoCall
  <2>3. /\ calls' = [calls EXCEPT ![c] = t] /\ Cf!Begins(c, p)
        /\ certificates' = Cf!truncate(p, puts + 1) /\ UNCHANGED written
        /\ calls[c] = Cf!NoCall
    BY <1>3, <2>1 DEF Cf!put
  <2>4. p \in DOMAIN certificates' /\ certificates'[p] = [inode |-> t.inode, data |-> Cf!Empty]
    BY <2>2, <2>3 DEF Cf!truncate, Cf!Set
  <2>5. \A q : q # p => /\ q \in DOMAIN certificates' <=> q \in DOMAIN certificates
                        /\ q \in DOMAIN certificates => certificates'[q] = certificates[q]
    BY <2>3 DEF Cf!truncate, Cf!Set
  <2>6. p \notin mixed' => Orderly(p)'
    <3> SUFFICES ASSUME p \notin mixed' PROVE Orderly(p)'
      OBVIOUS
    <3>1. Cf!CallsOn(p)' = {c} /\ calls'[c] = t
      BY <2>2, <2>3, BeginsAlone
    <3>2. Cf!Opened(p, t)'
      BY <2>2, <2>4 DEF Cf!Opened, Cf!Empty
    <3> QED BY <3>1, <3>2 DEF Orderly, Cf!Opened
  <2>7. ASSUME NEW q \in Cf!Paths \ mixed', q # p PROVE Orderly(q)'
    BY <2>2, <2>3, <2>5, <2>7, BeginsElsewhere, OtherPaths
  <2> QED BY <1>0, <1>a, <2>3, <2>6, <2>7
<1>4. ASSUME NEW c \in Clients, Cf!delete(c) PROVE Cf!FilesInv'
  <2>1. PICK p, t : /\ t = [at |-> "remove", path |-> p]
                    /\ calls' = [calls EXCEPT ![c] = t]
                    /\ Cf!Begins(c, p) /\ calls[c] = Cf!NoCall
                    /\ UNCHANGED <<certificates, written>>
    BY <1>4 DEF Cf!delete
  <2>2. t # Cf!NoCall /\ t.path = p /\ t.at # "write"
    BY <2>1 DEF Cf!NoCall
  <2>3. p \notin mixed' => Orderly(p)'
    <3> SUFFICES ASSUME p \notin mixed' PROVE Orderly(p)'
      OBVIOUS
    <3>1. Cf!CallsOn(p)' = {c} /\ calls'[c] = t
      BY <2>1, <2>2, BeginsAlone
    <3> QED BY <2>2, <3>1 DEF Orderly, Cf!Opened
  <2>4. ASSUME NEW q \in Cf!Paths \ mixed', q # p PROVE Orderly(q)'
    BY <2>1, <2>2, <2>4, BeginsElsewhere, OtherPaths
  <2> QED BY <1>0, <1>a, <2>1, <2>3, <2>4
<1>5. ASSUME NEW c \in Clients, Cf!Write(c) PROVE Cf!FilesInv'
  <2>0. PICK call, p : call = calls[c] /\ p = call.path
    OBVIOUS
  <2>1. PICK whole \in BOOLEAN :
         /\ certificates' = IF p \in DOMAIN certificates /\ certificates[p].inode = call.inode
                       THEN [certificates EXCEPT ![p].data =
                                IF whole THEN Cf!Over(@, call.cert) ELSE Cf!Torn]
                       ELSE certificates
         /\ written' = IF whole THEN Cf!Set(written, p, call.cert) ELSE written
         /\ mixed' = IF whole THEN mixed ELSE mixed \cup {p}
    BY <1>5, <2>0 DEF Cf!Write
  <2>2. call.at = "write" /\ calls' = [calls EXCEPT ![c] = Cf!NoCall]
    BY <1>5, <2>0 DEF Cf!Write, Cf!Ends
  <2>3. call # Cf!NoCall
    BY <2>0, <2>2 DEF Cf!NoCall
  <2>4. \A q : q # p =>
           /\ (q \in DOMAIN certificates' <=> q \in DOMAIN certificates)
           /\ (q \in DOMAIN written' <=> q \in DOMAIN written)
           /\ (q \in DOMAIN certificates => certificates'[q] = certificates[q])
           /\ (q \in DOMAIN written => written'[q] = written[q])
    BY <2>1 DEF Cf!Set
  <2>5. ASSUME p \in Cf!Paths \ mixed' PROVE Orderly(p)'
    <3>1. whole /\ p \in Cf!Paths \ mixed
      BY <2>1, <2>5
    <3>2. c \in Cf!CallsOn(p)
      BY <2>0, <2>3 DEF Cf!CallsOn
    <3>3. Cf!CallsOn(p) = {c} /\ Cf!Opened(p, call)
      BY <2>0, <2>2, <3>1, <3>2 DEF Cf!FilesInv
    <3>4. Cf!CallsOn(p)' = {}
      <4>1. \A x \in Clients : x # c => calls'[x] = calls[x] /\ x \notin Cf!CallsOn(p)
        BY <1>0, <2>2, <3>3
      <4> QED BY <1>0, <2>2, <4>1 DEF Cf!CallsOn
    <3>5. Cf!Over(Cf!Empty, call.cert) = call.cert
      BY DEF Cf!Over, Cf!Empty, Cf!Torn
    <3>6. /\ p \in DOMAIN certificates' /\ certificates'[p].data = call.cert
          /\ p \in DOMAIN written' /\ written'[p] = call.cert
      <4>1. certificates' = [certificates EXCEPT ![p].data = Cf!Over(@, call.cert)]
        BY <2>1, <3>1, <3>3 DEF Cf!Opened
      <4>2. certificates'[p] = [certificates[p] EXCEPT !.data = call.cert]
        BY <3>3, <3>5, <4>1 DEF Cf!Opened
      <4>3. written' = Cf!Set(written, p, call.cert) /\ p \in DOMAIN certificates
        BY <2>1, <3>1, <3>3 DEF Cf!Opened
      <4>4. certificates'[p].data = call.cert
        BY <3>3, <4>2 DEF Cf!Opened
      <4> QED BY <4>1, <4>3, <4>4 DEF Cf!Set
    <3> QED BY <3>3, <3>4, <3>6 DEF Orderly, Cf!AsWritten, Cf!Opened
  <2>6. ASSUME NEW q \in Cf!Paths \ mixed', q # p PROVE Orderly(q)'
    BY <2>0, <2>1, <2>2, <2>4, <2>6, OtherPaths
  <2> QED BY <1>0, <1>a, <2>2, <2>5, <2>6
<1>6. ASSUME NEW c \in Clients, Cf!Remove(c) PROVE Cf!FilesInv'
  <2>0. PICK call, p : call = calls[c] /\ p = call.path
    OBVIOUS
  <2>1. /\ call.at = "remove" /\ calls' = [calls EXCEPT ![c] = Cf!NoCall]
        /\ certificates' = Cf!Unset(certificates, p) /\ written' = Cf!Unset(written, p)
        /\ mixed' = mixed
    BY <1>6, <2>0 DEF Cf!Remove, Cf!Ends
  <2>2. call # Cf!NoCall
    BY <2>0, <2>1 DEF Cf!NoCall
  <2>3. ASSUME p \in Cf!Paths \ mixed' PROVE Orderly(p)'
    <3>1. Cf!CallsOn(p) = {c}
      BY <2>0, <2>1, <2>2, <2>3 DEF Cf!CallsOn, Cf!FilesInv
    <3>2. Cf!CallsOn(p)' = {}
      <4>1. \A x \in Clients : x # c => calls'[x] = calls[x] /\ x \notin Cf!CallsOn(p)
        BY <1>0, <2>1, <3>1
      <4> QED BY <1>0, <2>1, <4>1 DEF Cf!CallsOn
    <3> QED BY <2>1, <3>2 DEF Orderly, Cf!AsWritten, Cf!Unset
  <2>4. ASSUME NEW q \in Cf!Paths \ mixed', q # p PROVE Orderly(q)'
    BY <2>0, <2>1, <2>4, OtherPaths DEF Cf!Unset
  <2> QED BY <1>0, <1>a, <2>1, <2>3, <2>4
<1> QED BY <1>1, <1>2, <1>3, <1>4, <1>5, <1>6 DEF Cf!Next

LEMMA FilesAreWhole == DPSpec => []Cf!FilesWhole
<1>1. Cf!Init => Cf!FilesInv
  BY DEF Cf!Init, Cf!FilesInv, Cf!CallsOn, Cf!AsWritten
<1>2. Cf!FilesInv => Cf!FilesWhole
  <2> SUFFICES ASSUME Cf!FilesInv, NEW d \in Domains, Cf!cert_path(d) \notin mixed,
                      \A c \in Clients : calls[c] # Cf!NoCall => calls[c].path # Cf!cert_path(d)
               PROVE  IF Cf!cert_path(d) \in DOMAIN written
                      THEN Cf!get(d) = "cert"
                           /\ certificates[Cf!cert_path(d)].data = written[Cf!cert_path(d)]
                      ELSE Cf!get(d) = "none"
    BY DEF Cf!FilesWhole
  <2>1. Cf!cert_path(d) \in Cf!Paths /\ Cf!CallsOn(Cf!cert_path(d)) = {}
    BY DEF Cf!cert_path, Cf!Paths, Cf!CallsOn
  <2> QED BY <2>1 DEF Cf!FilesInv, Cf!AsWritten, Cf!get
<1> QED BY PartsStart, CfStep, <1>1, <1>2, FilesKeep, PTL DEF DPSpec

-----------------------------------------------------------------------------
\* A change supersedes the version there is now, and no earlier one again.
LEMMA ChangeCounts ==
    ASSUME Vol!Counted, NEW v \in VolumeIds, NEW d, Vol!Changes(v, d)
    PROVE  /\ Vol!Counted'
           /\ \A u \in VolumeIds : \A i, at : Vol!Held(u, i, at) => Vol!Held(u, i, at)'
           /\ \A t : Vol!Told(t) => Vol!Told(t)'
<1>1. /\ version' = [version EXCEPT ![v] = @ + 1] /\ ticks' = ticks
      /\ until' = [until EXCEPT ![v] = Append(@, ticks)]
      /\ volumes' = Vol!Put(volumes, v, d)
  BY DEF Vol!Changes
<1>2. /\ ticks \in Nat /\ version \in [VolumeIds -> Nat] /\ until \in [VolumeIds -> Seq(Nat)]
      /\ \A u \in VolumeIds : Len(until[u]) = version[u]
      /\ DOMAIN volumes \subseteq VolumeIds
  BY DEF Vol!Counted
<1>3. /\ version' \in [VolumeIds -> Nat] /\ until' \in [VolumeIds -> Seq(Nat)]
      /\ version'[v] = version[v] + 1 /\ Len(until'[v]) = version[v] + 1
      /\ until'[v][version[v] + 1] = ticks
      /\ \A i \in 1..version[v] : until'[v][i] = until[v][i]
      /\ \A u \in VolumeIds \ {v} : version'[u] = version[u] /\ until'[u] = until[u]
  BY <1>1, <1>2
<1>4. Vol!Counted'
  BY <1>1, <1>2, <1>3 DEF Vol!Counted, Vol!Put
<1>5. ASSUME NEW u \in VolumeIds, NEW i, NEW at, Vol!Held(u, i, at) PROVE Vol!Held(u, i, at)'
  <2>1. CASE u = v
    BY <1>1, <1>2, <1>3, <1>5, <2>1 DEF Vol!Held
  <2>2. CASE u # v
    BY <1>1, <1>3, <1>5, <2>2 DEF Vol!Held
  <2> QED BY <2>1, <2>2
<1>6. ASSUME NEW t, Vol!Told(t) PROVE Vol!Told(t)'
  <2>1. t.do = "insert" => Vol!Held(t.volume, t.info, t.at)'
    BY <1>5, <1>6 DEF Vol!Told
  <2>2. ASSUME t.do = "answer"
        PROVE  /\ ttl > 0 /\ t.info \in 0..version'[t.volume]
               /\ t.info = version'[t.volume] \/ until'[t.volume][t.info + 1] + ttl > ticks'
    <3>1. /\ t.volume \in VolumeIds /\ ttl > 0 /\ t.info \in 0..version[t.volume]
          /\ t.info = version[t.volume] \/ until[t.volume][t.info + 1] + ttl > ticks
      BY <1>6, <2>2 DEF Vol!Told
    <3>2. CASE t.volume = v
      BY <1>1, <1>2, <1>3, <3>1, <3>2, DataPlaneAssumption
    <3>3. CASE t.volume # v
      BY <1>1, <1>3, <3>1, <3>3
    <3> QED BY <3>2, <3>3
  <2> QED BY <1>1, <1>6, <2>1, <2>2 DEF Vol!Told
<1> QED BY <1>4, <1>5, <1>6

\* Methods that change a volume, or nothing: the entries stay and so does all
\* that was told.
LEMMA MethodKeeps ==
    ASSUME Vol!VolumesInv, NEW c \in Clients, NEW t, Vol!Told(t),
           volume_task' = volume_task \/ Vol!Goes(c, t),
           \/ UNCHANGED <<volumes, version, until, entries, ticks>>
           \/ \E v \in VolumeIds : \E d : Vol!Changes(v, d)
    PROVE  Vol!VolumesInv'
<1>1. /\ Vol!Counted' /\ entries' = entries
      /\ \A u \in VolumeIds : \A i, at : Vol!Held(u, i, at) => Vol!Held(u, i, at)'
      /\ \A x : Vol!Told(x) => Vol!Told(x)'
  <2>1. CASE UNCHANGED <<volumes, version, until, entries, ticks>>
    BY <2>1 DEF Vol!VolumesInv, Vol!Counted, Vol!Held, Vol!Told
  <2>2. CASE \E v \in VolumeIds : \E d : Vol!Changes(v, d)
    <3>1. PICK v, d : v \in VolumeIds /\ Vol!Changes(v, d)
      BY <2>2
    <3>2. Vol!Counted /\ entries' = entries
      BY <3>1 DEF Vol!VolumesInv, Vol!Changes
    <3> QED BY <3>1, <3>2, ChangeCounts
  <2> QED BY <2>1, <2>2
<1>2. /\ DOMAIN volume_task' = Clients
      /\ \A d \in Clients : volume_task'[d] = volume_task[d] \/ volume_task'[d] = t
  BY DEF Vol!VolumesInv, Vol!Goes
<1>3. \A d \in Clients : Vol!Told(volume_task[d]) /\ Vol!Told(volume_task'[d])
  BY <1>2 DEF Vol!VolumesInv
<1>4. \A d \in Clients : (Vol!Told(volume_task[d]))'
  <2>1. TAKE d \in Clients
  <2>2. PICK x : x = volume_task'[d]
    OBVIOUS
  <2>3. Vol!Told(x)'
    BY <1>1, <1>3, <2>2
  <2> QED BY <2>2, <2>3 DEF Vol!Told, Vol!Held
<1>5. \A v \in DOMAIN entries' : v \in VolumeIds /\ (Vol!Held(v, entries[v].info, entries[v].at))'
  <2>1. TAKE v \in DOMAIN entries'
  <2>2. PICK i, at : i = entries[v].info /\ at = entries[v].at
    OBVIOUS
  <2>3. v \in VolumeIds /\ Vol!Held(v, i, at)'
    BY <1>1, <2>2 DEF Vol!VolumesInv
  <2> QED BY <1>1, <2>2, <2>3 DEF Vol!Held
<1> QED BY <1>1, <1>2, <1>4, <1>5 DEF Vol!VolumesInv

LEMMA VolumesKeep == Vol!VolumesInv /\ [Vol!Next]_Vol!volumeVars => Vol!VolumesInv'
<1> SUFFICES ASSUME Vol!VolumesInv, [Vol!Next]_Vol!volumeVars PROVE Vol!VolumesInv'
  OBVIOUS
<1>0. Vol!Counted /\ \A c \in Clients : Vol!Told(volume_task[c])
  BY DEF Vol!VolumesInv
<1>a. Vol!Told(Vol!NoTask)
  BY DEF Vol!Told, Vol!NoTask
<1>1. CASE UNCHANGED Vol!volumeVars
  BY <1>1 DEF Vol!volumeVars, Vol!VolumesInv, Vol!Counted, Vol!Held, Vol!Told
<1>2. ASSUME NEW c \in Clients,
             \/ Vol!create_volume(c) \/ Vol!snapshot_volume(c) \/ Vol!rollback_volume(c)
      PROVE  Vol!VolumesInv'
  <2>1. \E v \in VolumeIds : \E n, d :
            /\ \/ volume_task' = volume_task
               \/ Vol!Goes(c, [do |-> "quota", volume |-> v])
               \/ Vol!Goes(c, [do |-> "rollback", volume |-> v, to |-> n])
            /\ Vol!Changes(v, d) \/ UNCHANGED <<volumes, version, until, entries, ticks>>
    BY <1>0, <1>2 DEF Vol!create_volume, Vol!snapshot_volume, Vol!rollback_volume, Vol!Counted
  <2>2. \A v \in VolumeIds : \A n : /\ Vol!Told([do |-> "quota", volume |-> v])
                                /\ Vol!Told([do |-> "rollback", volume |-> v, to |-> n])
    BY DEF Vol!Told
  <2> QED BY <1>a, <2>1, <2>2, MethodKeeps
<1>3. ASSUME NEW c \in Clients, Vol!SetQuota(c) \/ Vol!SetReservation(c) \/ Vol!Rollback(c)
      PROVE  Vol!VolumesInv'
  <2>1. PICK v : v = volume_task[c].volume
    OBVIOUS
  <2>2. v \in VolumeIds
    BY <1>0, <1>3, <2>1 DEF Vol!SetQuota, Vol!SetReservation, Vol!Rollback, Vol!Told
  <2>3. /\ Vol!Goes(c, [do |-> "reserve", volume |-> v]) \/ Vol!Goes(c, Vol!NoTask)
        /\ \/ \E d : Vol!Changes(v, d)
           \/ UNCHANGED <<volumes, version, until, entries, ticks>>
    BY <1>3, <2>1 DEF Vol!SetQuota, Vol!SetReservation, Vol!Rollback
  <2>4. Vol!Told([do |-> "reserve", volume |-> v])
    BY <2>2 DEF Vol!Told
  <2> QED BY <1>a, <2>2, <2>3, <2>4, MethodKeeps
<1>4. ASSUME NEW c \in Clients, Vol!get_info_cached(c) PROVE Vol!VolumesInv'
  <2>1. PICK v \in VolumeIds :
           IF Vol!Fresh(v)
           THEN Vol!Goes(c, [do |-> "answer", volume |-> v, info |-> entries[v].info])
           ELSE Vol!Goes(c, [do |-> "list", volume |-> v, at |-> ticks])
    BY <1>4 DEF Vol!get_info_cached
  <2>2. UNCHANGED <<volumes, version, until, entries, ticks>>
    BY <1>4 DEF Vol!get_info_cached
  <2>3. CASE Vol!Fresh(v)
    <3>1. PICK t : t = [do |-> "answer", volume |-> v, info |-> entries[v].info]
      OBVIOUS
    <3>2. Vol!Held(v, entries[v].info, entries[v].at) /\ ticks - entries[v].at < ttl
      BY <2>3 DEF Vol!VolumesInv, Vol!Fresh
    <3>3. ttl \in Nat /\ ticks \in Nat /\ version[v] \in Nat /\ until[v] \in Seq(Nat)
          /\ Len(until[v]) = version[v]
      BY <1>0, DataPlaneAssumption DEF Vol!Counted
    <3>a. PICK i, at : i = entries[v].info /\ at = entries[v].at
      OBVIOUS
    <3>b. i # version[v] => i + 1 \in 1..Len(until[v]) /\ until[v][i + 1] \in Nat
      <4>1. i \in 0..version[v]
        BY <3>2, <3>a DEF Vol!Held
      <4>2. i # version[v] => i + 1 \in 1..Len(until[v])
        BY ONLY <3>3, <4>1
      <4> QED BY <3>3, <4>2, ElementOfSeq
    <3>c. ttl > 0 /\ (i = version[v] \/ until[v][i + 1] + ttl > ticks)
      <4>1. /\ at \in 0..ticks /\ i \in 0..version[v] /\ ticks - at < ttl
            /\ i = version[v] \/ until[v][i + 1] >= at
        BY <3>2, <3>a DEF Vol!Held
      <4>2. i \in Nat /\ ttl > 0
        BY ONLY <3>3, <4>1
      <4>3. CASE i # version[v]
        <5>1. until[v][i + 1] \in Nat /\ until[v][i + 1] >= at
          BY <3>b, <4>1, <4>3
        <5>2. PICK u : u = until[v][i + 1]
          OBVIOUS
        <5>3. u \in Nat /\ u >= at
          BY <5>1, <5>2
        <5>4. u + ttl > ticks
          BY ONLY <3>3, <4>1, <5>3
        <5> QED BY <4>2, <5>2, <5>4
      <4> QED BY <4>2, <4>3
    <3>4. /\ t.do = "answer" /\ t.volume = v /\ t.info = entries[v].info /\ ttl > 0
          /\ t.info \in 0..version[v]
          /\ t.info = version[v] \/ until[v][t.info + 1] + ttl > ticks
      BY <3>1, <3>2, <3>a, <3>c DEF Vol!Held
    <3>5. Vol!Told(t)
      BY <3>4 DEF Vol!Told
    <3> QED BY <2>1, <2>2, <2>3, <3>1, <3>5, MethodKeeps
  <2>4. CASE ~ Vol!Fresh(v)
    <3>1. PICK t : t = [do |-> "list", volume |-> v, at |-> ticks]
      OBVIOUS
    <3>2. Vol!Told(t)
      BY <1>0, <3>1 DEF Vol!Told, Vol!Counted
    <3> QED BY <2>1, <2>2, <2>4, <3>1, <3>2, MethodKeeps
  <2> QED BY <2>3, <2>4
<1>5. ASSUME NEW c \in Clients, Vol!GetInfo(c) PROVE Vol!VolumesInv'
  <2>1. UNCHANGED <<volumes, version, until, entries, ticks>> /\ volume_task[c].do = "list"
    BY <1>5 DEF Vol!GetInfo
  <2>2. PICK v, at, t : /\ v = volume_task[c].volume /\ at = volume_task[c].at
                        /\ t = [do |-> "insert", volume |-> v, at |-> at, info |-> version[v]]
    OBVIOUS
  <2>3. Vol!Goes(c, t) \/ Vol!Goes(c, Vol!NoTask)
    BY <1>5, <2>2 DEF Vol!GetInfo
  <2>4. v \in VolumeIds /\ at \in 0..ticks
    BY <1>0, <2>1, <2>2 DEF Vol!Told
  <2>5. Vol!Held(v, version[v], at)
    BY <1>0, <2>4 DEF Vol!Held, Vol!Counted
  <2>6. Vol!Told(t)
    BY <2>2, <2>4, <2>5 DEF Vol!Told
  <2> QED BY <1>a, <2>1, <2>3, <2>6, MethodKeeps
<1>6. ASSUME NEW c \in Clients, Vol!Insert(c) PROVE Vol!VolumesInv'
  <2>1. PICK v, i, at : /\ v = volume_task[c].volume /\ i = volume_task[c].info
                        /\ at = volume_task[c].at
    OBVIOUS
  <2>2. /\ entries' = Vol!Put(entries, v, [info |-> i, at |-> at])
        /\ Vol!Goes(c, Vol!NoTask) /\ UNCHANGED <<volumes, version, until, ticks>>
        /\ volume_task[c].do = "insert"
    BY <1>6, <2>1 DEF Vol!Insert, Vol!entry_of
  <2>3. v \in VolumeIds /\ Vol!Held(v, i, at)
    BY <1>0, <2>1, <2>2 DEF Vol!Told
  <2>4. \A u \in DOMAIN entries' : u \in VolumeIds /\ (Vol!Held(u, entries[u].info, entries[u].at))'
    BY <2>2, <2>3 DEF Vol!Put, Vol!VolumesInv, Vol!Held
  <2>5. DOMAIN volume_task' = Clients /\ \A d \in Clients : (Vol!Told(volume_task[d]))'
    BY <2>2, <1>a DEF Vol!VolumesInv, Vol!Goes, Vol!Told, Vol!Held
  <2> QED BY <1>0, <2>2, <2>4, <2>5 DEF Vol!VolumesInv, Vol!Counted
<1>7. ASSUME NEW c \in Clients, Vol!Answered(c) PROVE Vol!VolumesInv'
  BY <1>7, <1>a, MethodKeeps DEF Vol!Answered
<1>8. CASE Vol!invalidate_cache \/ Vol!clear_cache
  <2>1. /\ DOMAIN entries' \subseteq DOMAIN entries
        /\ \A v \in DOMAIN entries' : entries'[v] = entries[v]
        /\ UNCHANGED <<volumes, version, until, volume_task, ticks>>
    BY <1>8 DEF Vol!invalidate_cache, Vol!clear_cache
  <2> QED BY <2>1 DEF Vol!VolumesInv, Vol!Counted, Vol!Told, Vol!Held
<1>9. CASE Vol!Tick
  <2>1. /\ ticks' = ticks + 1 /\ \A c \in Clients : volume_task[c].do # "answer"
        /\ UNCHANGED <<volumes, version, until, entries, volume_task>>
    BY <1>9 DEF Vol!Tick
  <2>2. \A v \in VolumeIds : \A i, at : Vol!Held(v, i, at) => Vol!Held(v, i, at)'
    BY <1>0, <2>1 DEF Vol!Held, Vol!Counted
  <2>3. \A c \in Clients : (Vol!Told(volume_task[c]))'
    <3>1. TAKE c \in Clients
    <3>2. PICK t : t = volume_task[c]
      OBVIOUS
    <3>3. Vol!Told(t) /\ t.do # "answer" /\ volume_task'[c] = t
      BY <1>0, <2>1, <3>2
    <3>4. Vol!Told(t)'
      BY <1>0, <2>1, <2>2, <3>3 DEF Vol!Told, Vol!Counted
    <3> QED BY <3>3, <3>4 DEF Vol!Told, Vol!Held
  <2>4. \A v \in DOMAIN entries' : v \in VolumeIds /\ (Vol!Held(v, entries[v].info, entries[v].at))'
    <3>1. TAKE v \in DOMAIN entries'
    <3>2. PICK i, at : i = entries[v].info /\ at = entries[v].at
      OBVIOUS
    <3>3. v \in VolumeIds /\ Vol!Held(v, i, at)'
      BY <2>1, <2>2, <3>2 DEF Vol!VolumesInv
    <3> QED BY <2>1, <3>2, <3>3 DEF Vol!Held
  <2> QED BY <1>0, <2>1, <2>3, <2>4 DEF Vol!VolumesInv, Vol!Counted
<1> QED BY <1>1, <1>2, <1>3, <1>4, <1>5, <1>6, <1>7, <1>8, <1>9 DEF Vol!Next

LEMMA AnswersAreFresh == DPSpec => []Vol!AnswersFresh
<1>1. Vol!Init => Vol!VolumesInv
  BY DEF Vol!Init, Vol!VolumesInv, Vol!Counted, Vol!Told, Vol!NoTask
<1>2. Vol!VolumesInv => Vol!AnswersFresh
  BY DEF Vol!VolumesInv, Vol!Told, Vol!AnswersFresh
<1> QED BY PartsStart, VolStep, <1>1, <1>2, VolumesKeep, PTL DEF DPSpec

\* Whoever calls, in whatever order and however often: an answer from the
\* volumes' cache, a snapshot in S3 and a certificate's file at rest are what
\* was stored.
THEOREM StoredAsRead == DPSpec => []StoredIsRead
BY AnswersAreFresh, SnapshotsAreKept, FilesAreWhole, PTL DEF StoredIsRead

-----------------------------------------------------------------------------
\* A direction of a WebSocket session, and what the invariant says of one.
Frames     == {"data", "close"}
Ways       == [sent : Seq(Frames), got : Seq(Frames), task : {"none", "run", "done"}]
InOrder(w) == \/ Px!Follows(w, Len(w.got))
              \/ /\ w.task = "done" /\ Len(w.got) > 0 /\ w.got[Len(w.got)] = "close"
                 /\ Px!Follows(w, Len(w.got) - 1)

LEMMA WayMoves ==
    ASSUME Px!SessionInv, NEW d \in Px!Directions, NEW w \in Ways, InOrder(w),
           frames' = [frames EXCEPT ![d] = w], session' = session,
           w.task = "none" \/ session # "prepared"
    PROVE  Px!SessionInv'
<1>1. frames \in [Px!Directions -> Ways] /\ \A e \in Px!Directions : InOrder(frames[e])
  BY DEF Px!SessionInv, Ways, Frames, InOrder
<1>2. frames' \in [Px!Directions -> Ways] /\ \A e \in Px!Directions : InOrder(frames'[e])
  BY <1>1
<1>3. session' = "prepared" => \A e \in Px!Directions : frames'[e].task = "none"
  BY <1>1 DEF Px!SessionInv
<1> QED BY <1>2, <1>3 DEF Px!SessionInv, Px!Directions, Px!Follows, Ways, Frames, InOrder

LEMMA FramesKeep == Px!SessionInv /\ [Px!SessionNext]_Px!sessionVars => Px!SessionInv'
<1> SUFFICES ASSUME Px!SessionInv, [Px!SessionNext]_Px!sessionVars PROVE Px!SessionInv'
  OBVIOUS
<1>0. frames \in [Px!Directions -> Ways] /\ \A e \in Px!Directions : InOrder(frames[e])
  BY DEF Px!SessionInv, Ways, Frames, InOrder
<1>1. CASE UNCHANGED frames /\ (session' = session \/ session' = "ended")
  BY <1>1 DEF Px!SessionInv, Px!Directions, Px!Follows
<1>2. ASSUME NEW ds, Px!spawn_websocket(ds) PROVE Px!SessionInv'
  <2>1. /\ frames' = [d \in Px!Directions |->
                        IF d \in ds THEN [frames[d] EXCEPT !.task = "run"] ELSE frames[d]]
        /\ session' = "open" /\ \A d \in Px!Directions : frames[d].task = "none"
    BY <1>2 DEF Px!spawn_websocket, Px!SessionInv
  <2>2. ASSUME NEW d \in Px!Directions
        PROVE  /\ [frames[d] EXCEPT !.task = "run"] \in Ways
               /\ InOrder([frames[d] EXCEPT !.task = "run"])
    <3>1. PICK w \in Ways : w = frames[d]
      BY <1>0
    <3>2. w.task = "none" /\ InOrder(w)
      BY <1>0, <2>1, <3>1
    <3>3. Px!Follows(w, Len(w.got))
      BY <3>2 DEF InOrder
    <3>4. PICK v : v = [w EXCEPT !.task = "run"]
      OBVIOUS
    <3>5. v \in Ways /\ v.sent = w.sent /\ v.got = w.got
      BY <3>4 DEF Ways
    <3>6. InOrder(v)
      BY <3>3, <3>5 DEF InOrder, Px!Follows
    <3> QED BY <3>1, <3>4, <3>5, <3>6
  <2>3. frames' \in [Px!Directions -> Ways] /\ \A d \in Px!Directions : InOrder(frames'[d])
    BY <1>0, <2>1, <2>2
  <2> QED BY <2>1, <2>3 DEF Px!SessionInv, Px!Directions, Px!Follows, Ways, Frames, InOrder
<1>3. ASSUME NEW d \in Px!Directions, Px!PeerSends(d) PROVE Px!SessionInv'
  <2>1. PICK f \in Frames : frames' = [frames EXCEPT ![d].sent = Append(frames[d].sent, f)]
    BY <1>3 DEF Px!PeerSends, Frames
  <2>2. PICK w \in Ways : w = frames[d]
    BY <1>0
  <2>3. PICK v : v = [w EXCEPT !.sent = Append(w.sent, f)]
    OBVIOUS
  <2>5. w.got \in Seq(Frames) /\ w.sent \in Seq(Frames) /\ Append(w.sent, f) \in Seq(Frames)
    BY DEF Ways
  <2>4. v \in Ways /\ v.sent = Append(w.sent, f) /\ v.got = w.got /\ v.task = w.task
    BY <2>3, <2>5 DEF Ways
  <2>6. ASSUME NEW n \in Int, n <= Len(w.got), Px!Follows(w, n) PROVE Px!Follows(v, n)
    <3>1. /\ Len(v.sent) = Len(w.sent) + 1 /\ Len(w.sent) \in Nat
          /\ \A i \in 1..Len(w.sent) : v.sent[i] = w.sent[i]
      BY <2>4, <2>5
    <3> QED BY <2>4, <2>6, <3>1 DEF Px!Follows
  <2>7. InOrder(v)
    <3>1. InOrder(w) /\ Len(w.got) \in Nat
      BY <1>0, <2>2, <2>5
    <3> QED BY <2>4, <2>6, <3>1 DEF InOrder
  <2>8. frames' = [frames EXCEPT ![d] = v]
    BY <1>0, <2>1, <2>2, <2>3
  <2>9. session' = session /\ session # "prepared"
    BY <1>3 DEF Px!PeerSends
  <2> QED BY <2>4, <2>7, <2>8, <2>9, WayMoves
<1>4. ASSUME NEW d \in Px!Directions, Px!forward_frame(d) PROVE Px!SessionInv'
  <2>1. PICK w \in Ways : w = frames[d]
    BY <1>0
  <2>2. PICK f, v : /\ f = w.sent[Len(w.got) + 1]
                    /\ v = [w EXCEPT !.got = Append(@, f),
                                     !.task = IF f = "close" THEN "done" ELSE "run"]
    OBVIOUS
  <2>3. /\ w.task = "run" /\ Len(w.got) < Len(w.sent)
        /\ frames' = [frames EXCEPT ![d] = v] /\ session' = session
    BY <1>4, <2>1, <2>2 DEF Px!forward_frame
  <2>4. w.got \in Seq(Frames) /\ w.sent \in Seq(Frames)
    BY DEF Ways
  <2>5. f \in Frames
    BY <2>2, <2>3, <2>4
  <2>6. v \in Ways /\ v.sent = w.sent /\ v.got = Append(w.got, f)
    <3>1. Append(w.got, f) \in Seq(Frames)
      BY <2>4, <2>5
    <3> QED BY <2>2, <3>1 DEF Ways
  <2>7. InOrder(v)
    <3>1. Px!Follows(w, Len(w.got))
      BY <1>0, <2>1, <2>3 DEF InOrder
    <3>2. /\ Len(v.got) = Len(w.got) + 1 /\ Len(w.got) \in Nat /\ Len(w.sent) \in Nat
          /\ v.got[Len(w.got) + 1] = f
          /\ \A i \in 1..Len(w.got) : v.got[i] = w.got[i]
      BY <2>4, <2>6
    <3>3. \A i \in 1..Len(v.got) : i \in 1..Len(w.got) \/ i = Len(w.got) + 1
      BY <3>2
    <3>4. Px!Follows(v, Len(v.got))
      BY <2>2, <2>3, <2>6, <3>1, <3>2, <3>3 DEF Px!Follows
    <3> QED BY <3>4 DEF InOrder
  <2>8. session # "prepared"
    BY <2>1, <2>3 DEF Px!SessionInv
  <2> QED BY <2>3, <2>6, <2>7, <2>8, WayMoves
<1>5. ASSUME NEW d \in Px!Directions, Px!BreakOff(d) PROVE Px!SessionInv'
  <2>1. PICK w \in Ways : w = frames[d]
    BY <1>0
  <2>2. PICK out \in {w.got, Append(w.got, "close")} :
          frames' = [frames EXCEPT ![d].task = "done", ![d].got = out]
    BY <1>5, <2>1 DEF Px!BreakOff
  <2>3. PICK v : v = [w EXCEPT !.task = "done", !.got = out]
    OBVIOUS
  <2>4. w.got \in Seq(Frames) /\ out \in Seq(Frames)
    BY DEF Ways, Frames
  <2>5. v \in Ways /\ v.sent = w.sent /\ v.got = out /\ v.task = "done"
    BY <2>3, <2>4 DEF Ways
  <2>6. w.task = "run" /\ session' = session
    BY <1>5, <2>1 DEF Px!BreakOff
  <2>7. InOrder(v)
    <3>1. Px!Follows(w, Len(w.got))
      BY <1>0, <2>1, <2>6 DEF InOrder
    <3>2. CASE out = w.got
      BY <2>5, <3>1, <3>2 DEF InOrder, Px!Follows
    <3>3. CASE out = Append(w.got, "close")
      <4>1. /\ Len(out) = Len(w.got) + 1 /\ Len(w.got) \in Nat /\ out[Len(w.got) + 1] = "close"
            /\ \A i \in 1..Len(w.got) : out[i] = w.got[i]
        BY <2>4, <3>3
      <4>2. Px!Follows(v, Len(w.got)) /\ Len(w.got) = Len(out) - 1
        BY <2>5, <3>1, <4>1 DEF Px!Follows
      <4> QED BY <2>5, <4>1, <4>2 DEF InOrder
    <3> QED BY <3>2, <3>3
  <2>8. session # "prepared"
    BY <2>1, <2>6 DEF Px!SessionInv
  <2>9. frames' = [frames EXCEPT ![d] = v]
    BY <1>0, <2>1, <2>2, <2>3
  <2> QED BY <2>5, <2>6, <2>7, <2>8, <2>9, WayMoves
<1> QED BY <1>1, <1>2, <1>3, <1>4, <1>5 DEF Px!SessionNext, Px!SessionEnds, Px!sessionVars

LEMMA FramesAreInOrder == DPSpec => []Px!FramesInOrder
<1>1. Px!SessionInit => Px!SessionInv
  BY DEF Px!SessionInit, Px!SessionInv, Px!Follows, Px!Directions
<1>2. Px!SessionInv => Px!FramesInOrder
  <2> SUFFICES ASSUME Px!SessionInv, NEW d \in Px!Directions
               PROVE  \/ Px!IsPrefix(frames[d].got, frames[d].sent)
                      \/ Px!IsPrefix(Px!Front(frames[d].got), frames[d].sent)
                         /\ Px!Last(frames[d].got) = "close"
    BY DEF Px!FramesInOrder
  <2>1. PICK w : w = frames[d]
    OBVIOUS
  <2>2. InOrder(w) /\ w.got \in Seq(Frames) /\ w.sent \in Seq(Frames)
    BY <2>1 DEF Px!SessionInv, InOrder, Frames
  <2>3. ASSUME NEW n \in 0..Len(w.got), Px!Follows(w, n)
        PROVE  Px!IsPrefix(SubSeq(w.got, 1, n), w.sent)
    <3>1. n <= Len(w.sent) /\ \A i \in 1..n : w.got[i] = w.sent[i]
      BY <2>3 DEF Px!Follows
    <3>2. Len(SubSeq(w.got, 1, n)) = n /\ Len(SubSeq(w.sent, 1, n)) = n
          /\ \A i \in 1..n : SubSeq(w.got, 1, n)[i] = w.got[i] /\ SubSeq(w.sent, 1, n)[i] = w.sent[i]
      BY <2>2, <3>1
    <3>3. SubSeq(w.got, 1, n) = SubSeq(w.sent, 1, n)
      <4>1. SubSeq(w.got, 1, n) \in Seq(Frames) /\ SubSeq(w.sent, 1, n) \in Seq(Frames)
        BY <2>2, <3>1
      <4> QED BY <3>1, <3>2, <4>1, SeqEqual
    <3>4. SubSeq(SubSeq(w.got, 1, n), 1, n) = SubSeq(w.got, 1, n)
      <4>1. SubSeq(w.got, 1, n) \in Seq(Frames)
        BY <2>2, <3>1
      <4> QED BY <3>2, <4>1
    <3> QED BY <3>1, <3>2, <3>3, <3>4 DEF Px!IsPrefix
  <2>4. Len(w.got) \in Nat /\ SubSeq(w.got, 1, Len(w.got)) = w.got
    BY <2>2
  <2>5. CASE Px!Follows(w, Len(w.got))
    <3>1. Len(w.got) \in 0..Len(w.got)
      BY <2>4
    <3>2. Px!IsPrefix(w.got, w.sent)
      BY <2>3, <2>4, <2>5, <3>1
    <3> QED BY <2>1, <3>2
  <2>6. CASE ~ Px!Follows(w, Len(w.got))
    <3>1. /\ Len(w.got) > 0 /\ w.got[Len(w.got)] = "close" /\ Px!Follows(w, Len(w.got) - 1)
      BY <2>2, <2>6 DEF InOrder
    <3>2. Len(w.got) - 1 \in 0..Len(w.got)
      BY <2>4, <3>1
    <3>3. Px!IsPrefix(SubSeq(w.got, 1, Len(w.got) - 1), w.sent)
      BY <2>3, <3>1, <3>2
    <3> QED BY <2>1, <3>1, <3>3 DEF Px!Front, Px!Last
  <2> QED BY <2>5, <2>6
<1> QED BY PartsStart, SessionStep, <1>1, <1>2, FramesKeep, PTL DEF DPSpec

-----------------------------------------------------------------------------
LEMMA SameRetainPx == \A s, T : Px!Retain(s, T) = Retain(s, T)
<1>1. \A S : Px!Cardinality(S) = Cardinality(S)
  BY DEF Px!Cardinality, Cardinality
<1>2. \A P, i : Px!Rank(P, i) = Rank(P, i)
  BY <1>1 DEF Px!Rank, Rank
<1>3. \A P, n : Px!Nth(P, n) = Nth(P, n)
  BY <1>2 DEF Px!Nth, Nth
<1>4. \A s, T : Px!Positions(s, T) = Positions(s, T)
  BY DEF Px!Positions, Positions
<1> QED BY <1>1, <1>3, <1>4 DEF Px!Retain, Retain

\* A pool of connections opened before the n-th: none of them is in it twice.
Opened(n)      == [conn : 1..n, age : Nat]
Pooled(s)      == {s[i].conn : i \in 1..Len(s)}
PoolOf(s, n)   == /\ s \in Seq(Opened(n))
                  /\ \A i, j \in 1..Len(s) : i # j => s[i].conn # s[j].conn
HeldBy(e)      == IF e.at \in {"send", "taken"} THEN {e.conn} ELSE {}

\* What a step makes of the pool and of one request: their connections are
\* from the pool, the request, or new, and the request has none that is in
\* the pool.
LEMMA ConnsMove ==
    ASSUME Px!PoolInv, NEW c \in Clients, NEW e \in Px!Exchanges',
           exchange' = [exchange EXCEPT ![c] = e],
           opened' \in Nat, opened' >= opened, PoolOf(idle', opened'),
           HeldBy(e) \cap Pooled(idle') = {},
           \A x \in HeldBy(e) \cup Pooled(idle') :
               x \in HeldBy(exchange[c]) \cup Pooled(idle) \/ x > opened
    PROVE  Px!PoolInv'
<1>1. /\ opened \in Nat /\ exchange \in [Clients -> Px!Exchanges] /\ PoolOf(idle, opened)
      /\ \A d \in Clients : Px!Held(d) = HeldBy(exchange[d])
      /\ \A d \in Clients : HeldBy(exchange[d]) \cap Pooled(idle) = {}
      /\ \A d, f \in Clients : d # f => HeldBy(exchange[d]) \cap HeldBy(exchange[f]) = {}
  <2>1. idle \in Seq(Opened(opened)) /\ DOMAIN idle = 1..Len(idle)
    BY DEF Px!PoolInv, Opened
  <2> QED BY <2>1 DEF Px!PoolInv, Px!SenderExclusive, PoolOf, Pooled, HeldBy, Px!Held
<1>2. \A x \in Px!Exchanges : x \in Px!Exchanges' /\ HeldBy(x) \subseteq 1..opened
  BY <1>1 DEF Px!Exchanges, Px!Resting, HeldBy
<1>3. exchange' \in [Clients -> Px!Exchanges'] /\ exchange'[c] = e
      /\ \A d \in Clients : d # c => exchange'[d] = exchange[d]
  BY <1>1, <1>2
<1>4. \A d \in Clients : d # c =>
         /\ HeldBy(exchange'[d]) \cap HeldBy(e) = {}
         /\ HeldBy(exchange'[d]) \cap Pooled(idle') = {}
  <2>1. TAKE d \in Clients
  <2>2. HAVE d # c
  <2>3. ASSUME NEW x \in HeldBy(exchange[d])
        PROVE  x \notin HeldBy(e) \cup Pooled(idle')
    <3>1. x \in 1..opened /\ x \notin HeldBy(exchange[c]) /\ x \notin Pooled(idle)
      BY <1>1, <1>2, <2>2, <2>3
    <3> QED BY <1>1, <3>1
  <2> QED BY <1>3, <2>2, <2>3
<1>5. \A d, f \in Clients : d # f => HeldBy(exchange'[d]) \cap HeldBy(exchange'[f]) = {}
  BY <1>1, <1>3, <1>4
<1>6. \A d \in Clients : HeldBy(exchange'[d]) \cap Pooled(idle') = {}
  BY <1>3, <1>4
<1>7. DOMAIN idle' = 1..Len(idle') /\ \A d \in Clients : Px!Held(d)' = HeldBy(exchange'[d])
  <2>1. idle' \in Seq(Opened(opened'))
    BY DEF PoolOf
  <2> QED BY <2>1 DEF Px!Held, HeldBy
<1>8. Px!SenderExclusive'
  BY <1>5, <1>6, <1>7 DEF Px!SenderExclusive, PoolOf, Pooled
<1>9. idle' \in Seq(Opened(opened'))
  BY DEF PoolOf
<1> QED BY <1>3, <1>8, <1>9 DEF Px!PoolInv, Opened

\* The pool alone changes, and gets nothing new.
LEMMA PoolMoves ==
    ASSUME Px!PoolInv, UNCHANGED <<exchange, opened>>, PoolOf(idle', opened),
           Pooled(idle') \subseteq Pooled(idle)
    PROVE  Px!PoolInv'
<1>1. DOMAIN idle = 1..Len(idle) /\ DOMAIN idle' = 1..Len(idle')
  BY DEF Px!PoolInv, PoolOf
<1>2. Px!SenderExclusive'
  BY <1>1 DEF Px!PoolInv, Px!SenderExclusive, PoolOf, Pooled, Px!Held
<1> QED BY <1>2 DEF Px!PoolInv, PoolOf, Opened, Px!Exchanges, Px!Resting

LEMMA StoredPools ==
    ASSUME NEW n \in Nat, PoolOf(idle, n), NEW x \in 1..n, x \notin Pooled(idle)
    PROVE  /\ PoolOf(Px!store_sender(x), n)
           /\ Pooled(Px!store_sender(x)) \subseteq Pooled(idle) \cup {x}
<1> DEFINE e == [conn |-> x, age |-> 0]
<1>1. e \in Opened(n) /\ e.conn = x
  BY DEF Opened
<1> HIDE DEF e
<1>2. idle \in Seq(Opened(n))
  BY DEF PoolOf
<1>3. /\ Append(idle, e) \in Seq(Opened(n))
      /\ Len(Append(idle, e)) = Len(idle) + 1 /\ Append(idle, e)[Len(idle) + 1] = e
      /\ \A i \in 1..Len(idle) : Append(idle, e)[i] = idle[i]
      /\ Len(idle) \in Nat
  BY <1>1, <1>2
<1>4. \A i \in 1..(Len(idle) + 1) : i \in 1..Len(idle) \/ i = Len(idle) + 1
  BY <1>3
<1>5. PoolOf(Append(idle, e), n) /\ Pooled(Append(idle, e)) \subseteq Pooled(idle) \cup {x}
  <2>1. Pooled(Append(idle, e)) \subseteq Pooled(idle) \cup {x}
    BY <1>1, <1>3, <1>4 DEF Pooled
  <2>2. ASSUME NEW i \in 1..(Len(idle) + 1), NEW j \in 1..(Len(idle) + 1), i # j
        PROVE  Append(idle, e)[i].conn # Append(idle, e)[j].conn
    BY <1>1, <1>3, <1>4, <2>2 DEF PoolOf, Pooled
  <2> QED BY <1>3, <2>1, <2>2 DEF PoolOf
<1> QED BY <1>5 DEF Px!store_sender, e

LEMMA PoolsKeep == Px!PoolInv /\ [Px!Next]_Px!proxyVars => Px!PoolInv'
<1> SUFFICES ASSUME Px!PoolInv, [Px!Next]_Px!proxyVars PROVE Px!PoolInv'
  OBVIOUS
<1>0. /\ opened \in Nat /\ exchange \in [Clients -> Px!Exchanges] /\ PoolOf(idle, opened)
      /\ \A d \in Clients : HeldBy(exchange[d]) \cap Pooled(idle) = {}
  <2>1. idle \in Seq(Opened(opened)) /\ DOMAIN idle = 1..Len(idle)
    BY DEF Px!PoolInv, Opened
  <2> QED BY <2>1 DEF Px!PoolInv, Px!SenderExclusive, PoolOf, Pooled, HeldBy, Px!Held
<1>a. Px!Resting \in Px!Exchanges' /\ HeldBy(Px!Resting) = {}
  BY DEF Px!Exchanges, Px!Resting, HeldBy
<1>1. CASE UNCHANGED <<idle, exchange, opened>>
  BY <1>0, <1>1, PoolMoves
\* The request ends, or goes on without a connection.
<1>2. ASSUME NEW c \in Clients, NEW e \in Px!Exchanges', HeldBy(e) = {},
             Px!Goes(c, e), UNCHANGED <<idle, opened>>
      PROVE  Px!PoolInv'
  <2>1. /\ PoolOf(idle', opened') /\ HeldBy(e) \cap Pooled(idle') = {}
        /\ opened' \in Nat /\ opened' >= opened
        /\ \A x \in HeldBy(e) \cup Pooled(idle') : x \in Pooled(idle)
    BY <1>0, <1>2
  <2> QED BY <1>2, <2>1, ConnsMove DEF Px!Goes
<1>3. ASSUME NEW c \in Clients,
             \/ Px!handle_request(c) \/ Px!apply_middleware(c)
             \/ Px!handle_websocket(c) \/ Px!TimeOut(c) \/ Px!Disconnect(c)
      PROVE  Px!PoolInv'
  <2>1. UNCHANGED <<idle, opened>>
    BY <1>3 DEF Px!handle_request, Px!apply_middleware, Px!handle_websocket, Px!TimeOut,
       Px!Disconnect, Px!poolVars
  <2>2. PICK e : /\ Px!Goes(c, e)
                 /\ \/ e = Px!Resting \/ \E ws \in BOOLEAN : e = [at |-> "middleware", ws |-> ws]
                    \/ exchange[c].at = "middleware" /\ e = [exchange[c] EXCEPT !.at = "connect"]
    BY <1>3 DEF Px!handle_request, Px!apply_middleware, Px!handle_websocket, Px!TimeOut,
       Px!Disconnect, Px!Answered
  <2>3. e \in Px!Exchanges' /\ HeldBy(e) = {}
    <3>1. CASE e = Px!Resting
      BY <1>a, <3>1
    <3>2. CASE \E ws \in BOOLEAN : e = [at |-> "middleware", ws |-> ws]
      BY <3>2 DEF Px!Exchanges, HeldBy
    <3>3. CASE exchange[c].at = "middleware" /\ e = [exchange[c] EXCEPT !.at = "connect"]
      <4>1. exchange[c] \in [at : {"middleware", "connect"}, ws : BOOLEAN]
        BY <1>0, <3>3 DEF Px!Exchanges, Px!Resting
      <4>2. e \in [at : {"middleware", "connect"}, ws : BOOLEAN]
        BY <3>3, <4>1
      <4> QED BY <4>2 DEF Px!Exchanges, HeldBy
    <3> QED BY <2>2, <3>1, <3>2, <3>3
  <2> QED BY <1>2, <2>1, <2>2, <2>3
<1>4. ASSUME NEW c \in Clients, Px!create_connection(c) PROVE Px!PoolInv'
  <2>1. CASE opened' = opened
    <3>1. Px!Goes(c, Px!Resting) /\ idle' = idle
      BY <1>0, <1>4, <2>1 DEF Px!create_connection, Px!Answered, Px!poolVars
    <3> QED BY <1>2, <1>a, <2>1, <3>1
  <2>2. CASE opened' # opened
    <3>1. PICK e : e = [at |-> "send", conn |-> opened + 1]
      OBVIOUS
    <3>2. opened' = opened + 1 /\ Px!Goes(c, e) /\ idle' = idle
      BY <1>4, <2>2, <3>1 DEF Px!create_connection, Px!poolVars
    <3>3. HeldBy(e) = {opened + 1} /\ e \in Px!Exchanges'
      BY <1>0, <3>1, <3>2 DEF HeldBy, Px!Exchanges
    <3>4. PoolOf(idle', opened') /\ opened + 1 \notin Pooled(idle)
      <4>1. Opened(opened) \subseteq Opened(opened + 1)
        BY <1>0 DEF Opened
      <4>2. idle \in Seq(Opened(opened))
        BY <1>0 DEF PoolOf
      <4>3. idle \in Seq(Opened(opened + 1))
        BY <4>1, <4>2
      <4>4. \A i \in 1..Len(idle) : idle[i].conn \in 1..opened
        <5>1. \A r \in Opened(opened) : r.conn \in 1..opened
          BY DEF Opened
        <5> QED BY <4>2, <5>1, ElementOfSeq
      <4> QED BY <1>0, <3>2, <4>3, <4>4 DEF PoolOf, Pooled
    <3>5. /\ HeldBy(e) \cap Pooled(idle') = {} /\ opened' \in Nat /\ opened' >= opened
          /\ \A x \in HeldBy(e) \cup Pooled(idle') : x \in Pooled(idle) \/ x > opened
      BY <1>0, <3>2, <3>3, <3>4
    <3> QED BY <3>2, <3>3, <3>4, <3>5, ConnsMove DEF Px!Goes
  <2> QED BY <2>1, <2>2
<1>5. ASSUME NEW c \in Clients, Px!send_request(c) \/ Px!return_sender(c) PROVE Px!PoolInv'
  <2>1. PICK x : x = exchange[c].conn
    OBVIOUS
  <2>2. /\ exchange[c].at \in {"send", "taken"} /\ Px!Goes(c, Px!Resting) /\ opened' = opened
        /\ idle' = idle \/ idle' = Px!store_sender(x)
    BY <1>5, <2>1 DEF Px!send_request, Px!return_sender, Px!Answered
  <2>3. exchange[c] \in [at : {"send", "taken"}, conn : 1..opened]
    BY <1>0, <2>2 DEF Px!Exchanges, Px!Resting
  <2>4. x \in 1..opened /\ HeldBy(exchange[c]) = {x} /\ x \notin Pooled(idle)
    BY <1>0, <2>1, <2>2, <2>3 DEF HeldBy
  <2>5. PoolOf(idle', opened) /\ Pooled(idle') \subseteq Pooled(idle) \cup {x}
    BY <1>0, <2>2, <2>4, StoredPools
  <2>6. /\ PoolOf(idle', opened') /\ HeldBy(Px!Resting) \cap Pooled(idle') = {}
        /\ opened' \in Nat /\ opened' >= opened
        /\ \A y \in HeldBy(Px!Resting) \cup Pooled(idle') : y \in HeldBy(exchange[c]) \cup Pooled(idle)
    BY <1>0, <1>a, <2>2, <2>4, <2>5
  <2> QED BY <1>a, <2>2, <2>6, ConnsMove DEF Px!Goes
<1>6. ASSUME NEW c \in Clients, Px!try_get_sender(c) PROVE Px!PoolInv'
  <2> DEFINE usable == {i \in DOMAIN idle : Px!Healthy(idle[i])}
             last   == CHOOSE i \in usable : \A j \in usable : j <= i
  <2>0. idle \in Seq(Opened(opened)) /\ DOMAIN idle = 1..Len(idle)
        /\ Len(idle) \in Nat
    BY <1>0 DEF PoolOf
  <2>1. CASE usable = {}
    <3>1. idle' = <<>> /\ UNCHANGED <<exchange, opened>>
      BY <1>6, <2>1 DEF Px!try_get_sender
    <3> QED BY <3>1, PoolMoves DEF PoolOf, Pooled
  <2>2. CASE usable # {}
    <3>1. last \in 1..Len(idle)
      BY <2>0, <2>2, GreatestIsThere
    <3>2. PICK m, e : m = last /\ e = [at |-> "taken", conn |-> idle[last].conn]
      OBVIOUS
    <3>3. idle' = SubSeq(idle, 1, m - 1) /\ Px!Goes(c, e) /\ opened' = opened
      BY <1>6, <2>2, <3>2 DEF Px!try_get_sender
    <3>4. /\ m \in 1..Len(idle) /\ m - 1 \in 0..Len(idle)
          /\ \A i \in 1..(m - 1) : i \in 1..Len(idle) /\ i # m
      <4>1. m \in 1..Len(idle) /\ Len(idle) \in Nat
        BY <2>0, <3>1, <3>2
      <4> QED BY ONLY <4>1
    <3>5. /\ SubSeq(idle, 1, m - 1) \in Seq(Opened(opened))
          /\ Len(SubSeq(idle, 1, m - 1)) = m - 1
          /\ \A i \in 1..(m - 1) : SubSeq(idle, 1, m - 1)[i] = idle[i]
      BY <2>0, <3>4
    <3>6. PICK s : s = idle'
      OBVIOUS
    <3>7. /\ PoolOf(s, opened) /\ Pooled(s) \subseteq Pooled(idle)
          /\ idle[m].conn \notin Pooled(s) /\ idle[m].conn \in Pooled(idle)
      <4>1. s \in Seq(Opened(opened)) /\ Len(s) = m - 1 /\ \A i \in 1..(m - 1) : s[i] = idle[i]
        BY <3>3, <3>5, <3>6
      <4>2. \A i, j \in 1..Len(idle) : i # j => idle[i].conn # idle[j].conn
        BY <1>0 DEF PoolOf
      <4> QED BY <3>4, <4>1, <4>2 DEF PoolOf, Pooled
    <3>8. HeldBy(e) = {idle[m].conn} /\ e \in Px!Exchanges'
      <4>1. idle[m] \in Opened(opened)
        BY <2>0, <3>4, ElementOfSeq
      <4>2. idle[m].conn \in 1..opened'
        BY <3>3, <4>1 DEF Opened
      <4> QED BY <3>2, <4>2 DEF HeldBy, Px!Exchanges
    <3>9. /\ HeldBy(e) \cap Pooled(idle') = {} /\ opened' \in Nat /\ opened' >= opened
          /\ PoolOf(idle', opened')
          /\ \A x \in HeldBy(e) \cup Pooled(idle') : x \in Pooled(idle)
      BY <1>0, <3>3, <3>6, <3>7, <3>8
    <3> QED BY <3>3, <3>8, <3>9, ConnsMove DEF Px!Goes
  <2> QED BY <2>1, <2>2
<1>7. CASE Px!prune_expired
  <2>0. idle \in Seq(Opened(opened))
    BY <1>0 DEF PoolOf
  <2>1. PICK T : idle' = Retain(idle, T)
    BY <1>7, SameRetainPx DEF Px!prune_expired
  <2>2. UNCHANGED <<exchange, opened>>
    BY <1>7 DEF Px!prune_expired
  <2>3. PICK P : P = Positions(idle, T)
    OBVIOUS
  <2>4. /\ idle' \in Seq(Opened(opened))
        /\ \A n \in 1..Len(idle') : Nth(P, n) \in 1..Len(idle) /\ idle'[n] = idle[Nth(P, n)]
        /\ \A m, n \in 1..Len(idle') : m < n => Nth(P, m) < Nth(P, n)
    BY <2>0, <2>1, <2>3, RetainChooses
  <2>5. \A m, n \in 1..Len(idle') : m # n => Nth(P, m) # Nth(P, n)
    <3>1. \A m, n \in 1..Len(idle') : m # n => m < n \/ n < m
      OBVIOUS
    <3>2. \A n \in 1..Len(idle') : Nth(P, n) \in Int
      BY <2>4
    <3> QED BY <2>4, <3>1, <3>2
  <2>6. PICK s : s = idle'
    OBVIOUS
  <2>7. PoolOf(s, opened) /\ Pooled(s) \subseteq Pooled(idle)
    <3>1. \A i, j \in 1..Len(idle) : i # j => idle[i].conn # idle[j].conn
      BY <1>0 DEF PoolOf
    <3>2. \A i, j \in 1..Len(s) : i # j => s[i].conn # s[j].conn
      BY <2>4, <2>5, <2>6, <3>1
    <3>3. Pooled(s) \subseteq Pooled(idle)
      BY <2>4, <2>6 DEF Pooled
    <3> QED BY <2>4, <2>6, <3>2, <3>3 DEF PoolOf
  <2> QED BY <2>2, <2>6, <2>7, PoolMoves
<1>8. CASE Px!Tick
  <2>0. idle \in Seq(Opened(opened)) /\ DOMAIN idle = 1..Len(idle)
        /\ Len(idle) \in Nat
    BY <1>0 DEF PoolOf
  <2>1. /\ idle' = [i \in 1..Len(idle) |->
                      [idle[i] EXCEPT !.age = IF @ < MaxAge THEN @ + 1 ELSE @]]
        /\ UNCHANGED <<exchange, opened>>
    BY <1>8, <2>0 DEF Px!Tick
  <2>2. ASSUME NEW i \in 1..Len(idle)
        PROVE  /\ [idle[i] EXCEPT !.age = IF @ < MaxAge THEN @ + 1 ELSE @]
                    \in Opened(opened)
               /\ [idle[i] EXCEPT !.age = IF @ < MaxAge THEN @ + 1 ELSE @].conn = idle[i].conn
    <3>1. idle[i] \in Opened(opened)
      BY <2>0, ElementOfSeq
    <3> QED BY <3>1 DEF Opened
  <2>3. idle' \in [1..Len(idle) -> Opened(opened)]
    BY <2>1, <2>2
  <2>4. idle' \in Seq(Opened(opened)) /\ Len(idle') = Len(idle)
    <3>1. DOMAIN idle' = 1..Len(idle)
      BY <2>1
    <3>2. idle' \in Seq(Opened(opened))
      BY <2>0, <2>3, SeqDef
    <3> QED BY <2>0, <3>1, <3>2
  <2>5. \A i \in 1..Len(idle) : idle'[i].conn = idle[i].conn
    BY <2>1, <2>2
  <2>6. PoolOf(idle', opened) /\ Pooled(idle') \subseteq Pooled(idle)
    BY <1>0, <2>4, <2>5 DEF PoolOf, Pooled
  <2> QED BY <2>1, <2>6, PoolMoves
<1> QED BY <1>1, <1>3, <1>4, <1>5, <1>6, <1>7, <1>8 DEF Px!Next, Px!proxyVars

LEMMA SendersAreExclusive == DPSpec => []Px!SenderExclusive
<1>1. Px!Init => Px!PoolInv
  BY DEF Px!Init, Px!PoolInv, Px!SenderExclusive, Px!Exchanges, Px!Resting, Px!Held
<1>2. Px!PoolInv => Px!SenderExclusive
  BY DEF Px!PoolInv
<1> QED BY PartsStart, PxStep, <1>1, <1>2, PoolsKeep, PTL DEF DPSpec

-----------------------------------------------------------------------------
\* What a call carries, and all the lines that are in its hands or in nobody's.
CarriedBy(t)     == IF t.do = "push" THEN {t.entry}
                    ELSE IF t.do = "send" THEN Obs!ToSet(t.entries) ELSE {}
Lines(t, b, d, l) == CarriedBy(t) \cup Obs!ToSet(b) \cup Obs!ToSet(d) \cup l

LEMMA LinesOf == ASSUME NEW S, NEW s \in Seq(S) PROVE Obs!ToSet(s) \subseteq S
<1>1. DOMAIN s = 1..Len(s)
  OBVIOUS
<1> QED BY <1>1, ElementOfSeq DEF Obs!ToSet

LEMMA BatchesGrow == 1..ingested \subseteq 1..ingested' => Obs!Batches \subseteq Obs!Batches'
<1> SUFFICES ASSUME 1..ingested \subseteq 1..ingested', NEW s \in Obs!Batches
             PROVE  s \in Obs!Batches'
  OBVIOUS
<1>1. s \in Seq(1..ingested) /\ Obs!IsInjective(s)
  BY DEF Obs!Batches
<1>2. s \in Seq(1..ingested')
  BY <1>1, SeqMonotonic
<1> QED BY <1>1, <1>2 DEF Obs!Batches, Obs!IsInjective

\* A call moves lines between its hands, the buffer, Loki and the lost ones,
\* or brings a new one.
LEMMA LinesMove ==
    ASSUME Obs!LogsInv, NEW c \in Clients, NEW t \in Obs!Calls',
           logging' = [logging EXCEPT ![c] = t],
           ingested' \in Nat, ingested' >= ingested,
           buffer' \in Obs!Batches', delivered' \in Obs!Batches', lost' \subseteq 1..ingested',
           CarriedBy(t) \cap (Obs!ToSet(buffer') \cup Obs!ToSet(delivered') \cup lost') = {},
           Obs!ToSet(buffer') \cap Obs!ToSet(delivered') = {},
           (Obs!ToSet(buffer') \cup Obs!ToSet(delivered')) \cap lost' = {},
           Lines(t, buffer', delivered', lost') =
               Lines(logging[c], buffer, delivered, lost) \cup ((ingested + 1)..ingested'),
           Len(buffer') >= batch_size =>
               \/ t.do = "flush"
               \/ Len(buffer) >= batch_size /\ logging[c].do # "flush"
    PROVE  Obs!LogsInv'
<1>1. /\ ingested \in Nat /\ logging \in [Clients -> Obs!Calls] /\ Obs!Apart /\ Obs!Kept
      /\ Len(buffer) >= batch_size => \E d \in Clients : logging[d].do = "flush"
      /\ \A d \in Clients : Obs!Carried(d) = CarriedBy(logging[d])
  BY DEF Obs!LogsInv, Obs!Carried, CarriedBy
<1>2. /\ logging'[c] = t /\ DOMAIN logging' = Clients
      /\ \A d \in Clients \ {c} : logging'[d] = logging[d]
      /\ \A d \in Clients : Obs!Carried(d)' = CarriedBy(logging'[d])
  BY <1>1 DEF Obs!Carried, CarriedBy, Obs!ToSet
<1>3. \A x \in Obs!Calls : x \in Obs!Calls' /\ CarriedBy(x) \subseteq 1..ingested
  <2>1. 1..ingested \subseteq 1..ingested'
    BY <1>1
  <2>2. Obs!Batches \subseteq Obs!Batches'
    BY <2>1, BatchesGrow
  <2>3. \A s \in Obs!Batches : Obs!ToSet(s) \subseteq 1..ingested
    BY LinesOf DEF Obs!Batches
  <2> QED BY <2>1, <2>2, <2>3 DEF Obs!Calls, Obs!Idle, CarriedBy
<1>4. logging' \in [Clients -> Obs!Calls']
  BY <1>1, <1>2, <1>3
<1>5. ASSUME NEW d \in Clients \ {c}
      PROVE  CarriedBy(logging[d]) \cap Lines(t, buffer', delivered', lost') = {}
  <2>1. CarriedBy(logging[d]) \cap Lines(logging[c], buffer, delivered, lost) = {}
    BY <1>1 DEF Obs!Apart, Lines
  <2>2. CarriedBy(logging[d]) \cap ((ingested + 1)..ingested') = {}
    BY <1>1, <1>3
  <2> QED BY <2>1, <2>2
<1>6. Obs!Apart'
  <2>1. \A d, f \in Clients : f # d => Obs!Carried(d)' \cap Obs!Carried(f)' = {}
    BY <1>1, <1>2, <1>5 DEF Lines, Obs!Apart
  <2>2. \A d \in Clients :
           Obs!Carried(d)' \cap (Obs!ToSet(buffer') \cup Obs!ToSet(delivered') \cup lost') = {}
    BY <1>2, <1>5 DEF Lines
  <2>3. Obs!Apart' <=> /\ Obs!ToSet(buffer') \cap Obs!ToSet(delivered') = {}
                      /\ (Obs!ToSet(buffer') \cup Obs!ToSet(delivered')) \cap lost' = {}
                      /\ \A d \in Clients :
                           /\ Obs!Carried(d)' \cap
                                (Obs!ToSet(buffer') \cup Obs!ToSet(delivered') \cup lost') = {}
                           /\ \A f \in Clients \ {d} : Obs!Carried(d)' \cap Obs!Carried(f)' = {}
    BY DEF Obs!Apart, Obs!ToSet
  <2> QED BY <2>1, <2>2, <2>3
<1>7. Obs!Kept'
  <2>1. ASSUME NEW e \in 1..ingested'
        PROVE  \/ e \in Lines(t, buffer', delivered', lost')
               \/ \E d \in Clients : e \in CarriedBy(logging'[d])
    <3>1. CASE e \in (ingested + 1)..ingested'
      BY <3>1
    <3>2. CASE e \in 1..ingested
      <4>1. \/ e \in Obs!ToSet(buffer) \cup Obs!ToSet(delivered) \cup lost
            \/ \E d \in Clients : e \in CarriedBy(logging[d])
        BY <1>1, <3>2 DEF Obs!Kept
      <4>2. \/ e \in Lines(logging[c], buffer, delivered, lost)
            \/ \E d \in Clients \ {c} : e \in CarriedBy(logging[d])
        BY <4>1 DEF Lines
      <4> QED BY <1>2, <4>2
    <3> QED BY <1>1, <3>1, <3>2
  <2>2. \A e \in 1..ingested' :
           \/ e \in Obs!ToSet(buffer') \cup Obs!ToSet(delivered') \cup lost'
           \/ \E d \in Clients : e \in Obs!Carried(d)'
    BY <1>2, <2>1 DEF Lines
  <2>3. Obs!Kept' <=> 1..ingested' \subseteq Obs!ToSet(buffer') \cup Obs!ToSet(delivered') \cup lost'
                              \cup UNION {Obs!Carried(d)' : d \in Clients}
    BY DEF Obs!Kept, Obs!ToSet
  <2> QED BY <2>2, <2>3
<1>8. Len(buffer') >= batch_size => \E d \in Clients : logging'[d].do = "flush"
  BY <1>1, <1>2
<1> QED BY <1>4, <1>6, <1>7, <1>8 DEF Obs!LogsInv

\* A line that is not in the buffer is put there.
LEMMA Pushed ==
    ASSUME NEW S, NEW b \in Seq(S), NEW e \in S, Obs!IsInjective(b), e \notin Obs!ToSet(b)
    PROVE  /\ Append(b, e) \in Seq(S) /\ Obs!IsInjective(Append(b, e))
           /\ Obs!ToSet(Append(b, e)) = Obs!ToSet(b) \cup {e}
           /\ Len(Append(b, e)) = Len(b) + 1 /\ Len(b) \in Nat
<1>1. /\ Append(b, e) \in Seq(S) /\ DOMAIN b = 1..Len(b) /\ Len(b) \in Nat
      /\ DOMAIN Append(b, e) = 1..(Len(b) + 1) /\ Len(Append(b, e)) = Len(b) + 1
      /\ Append(b, e)[Len(b) + 1] = e
      /\ \A i \in 1..Len(b) : Append(b, e)[i] = b[i]
      /\ \A i \in 1..(Len(b) + 1) : i \in 1..Len(b) \/ i = Len(b) + 1
      /\ Len(b) + 1 \in 1..(Len(b) + 1)
  OBVIOUS
<1>2. Obs!ToSet(Append(b, e)) = Obs!ToSet(b) \cup {e}
  BY <1>1 DEF Obs!ToSet
<1>3. Obs!IsInjective(Append(b, e))
  BY <1>1 DEF Obs!IsInjective, Obs!ToSet
<1> QED BY <1>1, <1>2, <1>3

\* A batch of lines Loki has not got is delivered.
LEMMA Delivered ==
    ASSUME NEW S, NEW a \in Seq(S), NEW b \in Seq(S), Obs!IsInjective(a), Obs!IsInjective(b),
           Obs!ToSet(a) \cap Obs!ToSet(b) = {}
    PROVE  /\ a \o b \in Seq(S) /\ Obs!IsInjective(a \o b)
           /\ Obs!ToSet(a \o b) = Obs!ToSet(a) \cup Obs!ToSet(b)
<1> DEFINE m == Len(a)  n == Len(b)  s == a \o b
<1>1. /\ m \in Nat /\ n \in Nat /\ DOMAIN a = 1..m /\ DOMAIN b = 1..n
      /\ s \in Seq(S) /\ DOMAIN s = 1..(m + n)
      /\ \A i \in 1..(m + n) : s[i] = IF i <= m THEN a[i] ELSE b[i - m]
  BY ConcatProperties
<1> HIDE DEF m, n, s
<1>2. \A i \in 1..(m + n) : \/ i \in 1..m /\ s[i] = a[i]
                            \/ i - m \in 1..n /\ s[i] = b[i - m]
  BY <1>1
<1>3. /\ \A i \in 1..m : i \in 1..(m + n) /\ s[i] = a[i]
      /\ \A i \in 1..n : i + m \in 1..(m + n) /\ s[i + m] = b[i]
  BY <1>1
<1>4. Obs!ToSet(s) = Obs!ToSet(a) \cup Obs!ToSet(b)
  <2>1. \A x \in Obs!ToSet(s) : x \in Obs!ToSet(a) \cup Obs!ToSet(b)
    BY <1>1, <1>2 DEF Obs!ToSet
  <2>2. \A x \in Obs!ToSet(a) : x \in Obs!ToSet(s)
    BY <1>1, <1>3 DEF Obs!ToSet
  <2>3. ASSUME NEW x \in Obs!ToSet(b) PROVE x \in Obs!ToSet(s)
    <3>1. PICK i \in 1..n : x = b[i]
      BY <1>1 DEF Obs!ToSet
    <3>2. i + m \in DOMAIN s /\ x = s[i + m]
      BY <1>1, <1>3, <3>1
    <3> QED BY <3>2 DEF Obs!ToSet
  <2> QED BY <2>1, <2>2, <2>3
<1>5. ASSUME NEW i \in 1..(m + n), NEW j \in 1..(m + n), s[i] = s[j] PROVE i = j
  <2>1. CASE i \in 1..m /\ s[i] = a[i] /\ j \in 1..m /\ s[j] = a[j]
    BY <1>1, <1>5, <2>1 DEF Obs!IsInjective
  <2>2. CASE i - m \in 1..n /\ s[i] = b[i - m] /\ j - m \in 1..n /\ s[j] = b[j - m]
    <3>1. i - m = j - m
      BY <1>1, <1>5, <2>2 DEF Obs!IsInjective
    <3> QED BY <1>1, <3>1
  <2>3. CASE i \in 1..m /\ s[i] = a[i] /\ j - m \in 1..n /\ s[j] = b[j - m]
    BY <1>1, <1>5, <2>3 DEF Obs!ToSet
  <2>4. CASE i - m \in 1..n /\ s[i] = b[i - m] /\ j \in 1..m /\ s[j] = a[j]
    BY <1>1, <1>5, <2>4 DEF Obs!ToSet
  <2> QED BY <1>2, <2>1, <2>2, <2>3, <2>4
<1> QED BY <1>1, <1>4, <1>5 DEF Obs!IsInjective, s

LEMMA LinesKeep == Obs!LogsInv /\ [Obs!Next]_Obs!logVars => Obs!LogsInv'
<1> SUFFICES ASSUME Obs!LogsInv, [Obs!Next]_Obs!logVars PROVE Obs!LogsInv'
  OBVIOUS
<1>0. /\ ingested \in Nat /\ logging \in [Clients -> Obs!Calls] /\ batch_size \in Nat \ {0}
      /\ buffer \in Seq(1..ingested) /\ Obs!IsInjective(buffer)
      /\ delivered \in Seq(1..ingested) /\ Obs!IsInjective(delivered)
      /\ lost \subseteq 1..ingested
      /\ Obs!ToSet(buffer) \subseteq 1..ingested /\ Obs!ToSet(delivered) \subseteq 1..ingested
  <2>1. /\ ingested \in Nat /\ logging \in [Clients -> Obs!Calls] /\ batch_size \in Nat \ {0}
        /\ buffer \in Seq(1..ingested) /\ Obs!IsInjective(buffer)
        /\ delivered \in Seq(1..ingested) /\ Obs!IsInjective(delivered)
        /\ lost \subseteq 1..ingested
    BY DataPlaneAssumption DEF Obs!LogsInv, Obs!Batches
  <2> QED BY <2>1 DEF Obs!ToSet
<1>a. /\ Obs!ToSet(buffer) \cap Obs!ToSet(delivered) = {}
      /\ (Obs!ToSet(buffer) \cup Obs!ToSet(delivered)) \cap lost = {}
      /\ \A c \in Clients : CarriedBy(logging[c]) \cap
                              (Obs!ToSet(buffer) \cup Obs!ToSet(delivered) \cup lost) = {}
  BY DEF Obs!LogsInv, Obs!Apart, Obs!Carried, CarriedBy
<1>b. /\ CarriedBy(Obs!Idle) = {} /\ CarriedBy([do |-> "flush"]) = {}
      /\ Obs!Idle \in Obs!Calls' /\ [do |-> "flush"] \in Obs!Calls'
      /\ Obs!Idle.do # "flush" /\ [do |-> "flush"].do = "flush"
  BY DEF CarriedBy, Obs!Idle, Obs!Calls
<1>c. ingested' = ingested => Obs!Batches' = Obs!Batches /\ (ingested + 1)..ingested' = {}
  BY <1>0 DEF Obs!Batches, Obs!IsInjective
<1>d. buffer \in Obs!Batches /\ delivered \in Obs!Batches
  BY DEF Obs!LogsInv
<1>1. CASE UNCHANGED <<buffer, ingested, logging, delivered, lost>>
  <2>1. Obs!Batches' = Obs!Batches /\ Obs!Calls' = Obs!Calls
    BY <1>1 DEF Obs!Calls, Obs!Batches, Obs!IsInjective, Obs!Idle
  <2>2. \A c : Obs!Carried(c)' = Obs!Carried(c)
    BY <1>1 DEF Obs!Carried, Obs!ToSet
  <2>3. Obs!Apart' <=> Obs!Apart
    BY <1>1, <2>2 DEF Obs!Apart, Obs!ToSet
  <2>4. Obs!Kept' <=> Obs!Kept
    BY <1>1, <2>2 DEF Obs!Kept, Obs!ToSet
  <2> QED BY <1>1, <2>1, <2>3, <2>4 DEF Obs!LogsInv
<1>2. ASSUME NEW c \in Clients, Obs!ingest(c) PROVE Obs!LogsInv'
  <2>1. PICK t : t = [do |-> "push", entry |-> ingested + 1]
    OBVIOUS
  <2>2. /\ logging[c] = Obs!Idle /\ logging' = [logging EXCEPT ![c] = t]
        /\ ingested' = ingested + 1 /\ UNCHANGED <<buffer, delivered, lost>>
    BY <1>2, <2>1 DEF Obs!ingest, Obs!Goes
  <2>3. CarriedBy(t) = {ingested + 1} /\ t \in Obs!Calls' /\ ingested + 1 \notin 1..ingested
        /\ (ingested + 1)..ingested' = {ingested + 1}
    BY <1>0, <2>1, <2>2 DEF CarriedBy, Obs!Calls
  <2>4. 1..ingested \subseteq 1..ingested'
    BY <1>0, <2>2
  <2>5. Obs!Batches \subseteq Obs!Batches'
    BY <2>4, BatchesGrow
  <2>6. /\ ingested' \in Nat /\ ingested' >= ingested /\ lost' \subseteq 1..ingested'
        /\ buffer' \in Obs!Batches' /\ delivered' \in Obs!Batches'
    BY <1>0, <1>d, <2>2, <2>4, <2>5
  <2>7. Lines(t, buffer', delivered', lost') =
           Lines(logging[c], buffer, delivered, lost) \cup ((ingested + 1)..ingested')
    BY <1>b, <2>2, <2>3 DEF Lines
  <2>8. /\ CarriedBy(t) \cap (Obs!ToSet(buffer') \cup Obs!ToSet(delivered') \cup lost') = {}
        /\ Obs!ToSet(buffer') \cap Obs!ToSet(delivered') = {}
        /\ (Obs!ToSet(buffer') \cup Obs!ToSet(delivered')) \cap lost' = {}
    BY <1>0, <1>a, <2>2, <2>3
  <2>9. Len(buffer') >= batch_size => Len(buffer) >= batch_size /\ logging[c].do # "flush"
    BY <1>b, <2>2
  <2> QED BY <2>2, <2>3, <2>6, <2>7, <2>8, <2>9, LinesMove
<1>3. ASSUME NEW c \in Clients, Obs!Push(c) PROVE Obs!LogsInv'
  <2>1. PICK e, t : /\ e = logging[c].entry
                    /\ t = IF Len(buffer) + 1 >= batch_size THEN [do |-> "flush"] ELSE Obs!Idle
    OBVIOUS
  <2>2. /\ logging[c].do = "push" /\ logging' = [logging EXCEPT ![c] = t]
        /\ buffer' = Append(buffer, e) /\ UNCHANGED <<ingested, delivered, lost>>
    BY <1>3, <2>1 DEF Obs!Push, Obs!Goes
  <2>3. e \in 1..ingested /\ CarriedBy(logging[c]) = {e}
    BY <1>0, <2>1, <2>2 DEF Obs!Calls, Obs!Idle, CarriedBy
  <2>4. /\ buffer' \in Seq(1..ingested) /\ Obs!IsInjective(buffer')
        /\ Obs!ToSet(buffer') = Obs!ToSet(buffer) \cup {e}
        /\ Len(buffer') = Len(buffer) + 1
    <3>1. e \notin Obs!ToSet(buffer)
      BY <1>a, <2>3
    <3> QED BY <1>0, <2>2, <2>3, <3>1, Pushed
  <2>5. buffer' \in Obs!Batches' /\ delivered' \in Obs!Batches'
    BY <1>c, <1>d, <2>2, <2>4 DEF Obs!Batches
  <2>6. CarriedBy(t) = {} /\ t \in Obs!Calls'
    BY <1>b, <2>1
  <2>7. Lines(t, buffer', delivered', lost') =
           Lines(logging[c], buffer, delivered, lost) \cup ((ingested + 1)..ingested')
    BY <1>c, <2>2, <2>3, <2>4, <2>6 DEF Lines
  <2>8. /\ CarriedBy(t) \cap (Obs!ToSet(buffer') \cup Obs!ToSet(delivered') \cup lost') = {}
        /\ Obs!ToSet(buffer') \cap Obs!ToSet(delivered') = {}
        /\ (Obs!ToSet(buffer') \cup Obs!ToSet(delivered')) \cap lost' = {}
    BY <1>a, <2>2, <2>3, <2>4, <2>6
  <2>9. Len(buffer') >= batch_size => t.do = "flush"
    BY <1>b, <2>1, <2>4
  <2>10. ingested' \in Nat /\ ingested' >= ingested /\ lost' \subseteq 1..ingested'
    BY <1>0, <2>2
  <2> QED BY <2>2, <2>5, <2>6, <2>7, <2>8, <2>9, <2>10, LinesMove
<1>4. ASSUME NEW c \in Clients, Obs!CallFlush(c) PROVE Obs!LogsInv'
  <2>1. PICK t : t = [do |-> "flush"]
    OBVIOUS
  <2>2. /\ logging[c] = Obs!Idle /\ logging' = [logging EXCEPT ![c] = t]
        /\ UNCHANGED <<buffer, ingested, delivered, lost>>
    BY <1>4, <2>1 DEF Obs!CallFlush, Obs!Goes
  <2>3. Lines(t, buffer', delivered', lost') =
           Lines(logging[c], buffer, delivered, lost) \cup ((ingested + 1)..ingested')
    BY <1>b, <1>c, <2>1, <2>2 DEF Lines
  <2>4. /\ t \in Obs!Calls' /\ CarriedBy(t) = {} /\ t.do = "flush"
        /\ buffer' \in Obs!Batches' /\ delivered' \in Obs!Batches'
        /\ ingested' \in Nat /\ ingested' >= ingested /\ lost' \subseteq 1..ingested'
    BY <1>0, <1>b, <1>c, <1>d, <2>1, <2>2
  <2>5. /\ CarriedBy(t) \cap (Obs!ToSet(buffer') \cup Obs!ToSet(delivered') \cup lost') = {}
        /\ Obs!ToSet(buffer') \cap Obs!ToSet(delivered') = {}
        /\ (Obs!ToSet(buffer') \cup Obs!ToSet(delivered')) \cap lost' = {}
    BY <1>a, <2>2, <2>4
  <2> QED BY <2>2, <2>3, <2>4, <2>5, LinesMove
<1>5. ASSUME NEW c \in Clients, Obs!flush(c) PROVE Obs!LogsInv'
  <2>1. PICK t : t = IF buffer = <<>> THEN Obs!Idle ELSE [do |-> "send", entries |-> buffer]
    OBVIOUS
  <2>2. /\ logging[c].do = "flush" /\ logging' = [logging EXCEPT ![c] = t]
        /\ buffer' = <<>> /\ UNCHANGED <<ingested, delivered, lost>>
    BY <1>5, <2>1 DEF Obs!flush, Obs!Goes, Obs!taken
  <2>3. CarriedBy(logging[c]) = {} /\ Obs!ToSet(<<>>) = {}
    BY <2>2 DEF CarriedBy, Obs!ToSet
  <2>4. CarriedBy(t) = Obs!ToSet(buffer) /\ t \in Obs!Calls'
    <3>1. CASE buffer = <<>>
      BY <1>b, <2>1, <2>3, <3>1
    <3>2. CASE buffer # <<>>
      BY <1>c, <1>d, <2>1, <2>2, <3>2 DEF CarriedBy, Obs!Calls
    <3> QED BY <3>1, <3>2
  <2>5. buffer' \in Obs!Batches' /\ delivered' \in Obs!Batches'
    BY <1>c, <1>d, <2>2 DEF Obs!Batches, Obs!IsInjective
  <2>6. Lines(t, buffer', delivered', lost') =
           Lines(logging[c], buffer, delivered, lost) \cup ((ingested + 1)..ingested')
    BY <1>c, <2>2, <2>3, <2>4 DEF Lines
  <2>7. /\ CarriedBy(t) \cap (Obs!ToSet(buffer') \cup Obs!ToSet(delivered') \cup lost') = {}
        /\ Obs!ToSet(buffer') \cap Obs!ToSet(delivered') = {}
        /\ (Obs!ToSet(buffer') \cup Obs!ToSet(delivered')) \cap lost' = {}
    BY <1>a, <2>2, <2>3, <2>4
  <2>8. ~ (Len(buffer') >= batch_size)
    <3>1. Len(<<>>) = 0
      OBVIOUS
    <3> QED BY <1>0, <2>2, <3>1
  <2>9. ingested' \in Nat /\ ingested' >= ingested /\ lost' \subseteq 1..ingested'
    BY <1>0, <2>2
  <2> QED BY <2>2, <2>4, <2>5, <2>6, <2>7, <2>8, <2>9, LinesMove
<1>6. ASSUME NEW c \in Clients, Obs!send_to_loki(c) PROVE Obs!LogsInv'
  <2>1. PICK b, t : b = logging[c].entries /\ t = Obs!Idle
    OBVIOUS
  <2>2. /\ logging[c].do = "send" /\ logging' = [logging EXCEPT ![c] = t]
        /\ UNCHANGED <<buffer, ingested>>
        /\ \/ delivered' = delivered \o b /\ lost' = lost
           \/ lost' = lost \cup Obs!ToSet(b) /\ delivered' = delivered
    BY <1>6, <2>1 DEF Obs!send_to_loki, Obs!Goes
  <2>3. b \in Obs!Batches /\ CarriedBy(logging[c]) = Obs!ToSet(b)
    <3>1. logging[c] \in [do : {"send"}, entries : Obs!Batches]
      BY <1>0, <2>2 DEF Obs!Calls, Obs!Idle
    <3> QED BY <2>1, <2>2, <3>1 DEF CarriedBy
  <2>4. b \in Seq(1..ingested) /\ Obs!IsInjective(b) /\ Obs!ToSet(b) \subseteq 1..ingested
    BY <2>3, LinesOf DEF Obs!Batches
  <2>5. Obs!ToSet(delivered) \cap Obs!ToSet(b) = {} /\ Obs!ToSet(b) \cap lost = {}
        /\ Obs!ToSet(b) \cap Obs!ToSet(buffer) = {}
    BY <1>a, <2>3
  <2>6. /\ delivered \o b \in Seq(1..ingested) /\ Obs!IsInjective(delivered \o b)
        /\ Obs!ToSet(delivered \o b) = Obs!ToSet(delivered) \cup Obs!ToSet(b)
    BY <1>0, <2>4, <2>5, Delivered
  <2>7. buffer' \in Obs!Batches' /\ delivered' \in Obs!Batches' /\ lost' \subseteq 1..ingested'
    <3>1. delivered \o b \in Obs!Batches
      BY <2>6 DEF Obs!Batches
    <3> QED BY <1>0, <1>c, <1>d, <2>2, <2>4, <3>1
  <2>8. /\ t \in Obs!Calls' /\ CarriedBy(t) = {} /\ t.do # "flush"
        /\ ingested' \in Nat /\ ingested' >= ingested
    BY <1>0, <1>b, <2>1, <2>2
  <2>9. Lines(t, buffer', delivered', lost') =
           Lines(logging[c], buffer, delivered, lost) \cup ((ingested + 1)..ingested')
    <3>1. CASE delivered' = delivered \o b /\ lost' = lost
      BY <1>c, <2>2, <2>3, <2>6, <2>8, <3>1 DEF Lines
    <3>2. CASE lost' = lost \cup Obs!ToSet(b) /\ delivered' = delivered
      BY <1>c, <2>2, <2>3, <2>8, <3>2 DEF Lines
    <3> QED BY <2>2, <3>1, <3>2
  <2>10. /\ CarriedBy(t) \cap (Obs!ToSet(buffer') \cup Obs!ToSet(delivered') \cup lost') = {}
         /\ Obs!ToSet(buffer') \cap Obs!ToSet(delivered') = {}
         /\ (Obs!ToSet(buffer') \cup Obs!ToSet(delivered')) \cap lost' = {}
    <3>1. CASE delivered' = delivered \o b /\ lost' = lost
      BY <1>a, <2>2, <2>5, <2>6, <2>8, <3>1
    <3>2. CASE lost' = lost \cup Obs!ToSet(b) /\ delivered' = delivered
      BY <1>a, <2>2, <2>5, <2>8, <3>2
    <3> QED BY <2>2, <3>1, <3>2
  <2>11. Len(buffer') >= batch_size => Len(buffer) >= batch_size /\ logging[c].do # "flush"
    BY <2>2
  <2> QED BY <2>2, <2>7, <2>8, <2>9, <2>10, <2>11, LinesMove
<1> QED BY <1>1, <1>2, <1>3, <1>4, <1>5, <1>6 DEF Obs!Next, Obs!stream, Obs!recv, Obs!logVars

\* A line that is in one place is in no other.
LEMMA InOnePlace ==
    ASSUME Obs!LogsInv, NEW e \in 1..ingested
    PROVE  \E p : {q \in Obs!Places : e \in Obs!At(q)} = {p}
<1>1. /\ e \in Obs!At("new") <=> \E c \in Clients : logging[c].do = "push" /\ logging[c].entry = e
      /\ e \in Obs!At("waiting") <=> e \in Obs!ToSet(buffer)
      /\ e \in Obs!At("sent") <=>
            \E c \in Clients : logging[c].do = "send" /\ e \in Obs!ToSet(logging[c].entries)
      /\ e \in Obs!At("delivered") <=> e \in Obs!ToSet(delivered)
      /\ e \in Obs!At("lost") <=> e \in lost
  BY DEF Obs!At
<1>2. /\ e \in Obs!At("new") <=> \E c \in Clients : logging[c].do = "push" /\ e \in Obs!Carried(c)
      /\ e \in Obs!At("sent") <=> \E c \in Clients : logging[c].do = "send" /\ e \in Obs!Carried(c)
      /\ \A c \in Clients : e \in Obs!Carried(c) => logging[c].do \in {"push", "send"}
  BY <1>1 DEF Obs!Carried
<1>3. /\ Obs!Apart
      /\ \/ e \in Obs!ToSet(buffer) \cup Obs!ToSet(delivered) \cup lost
         \/ \E c \in Clients : e \in Obs!Carried(c)
  BY DEF Obs!LogsInv, Obs!Kept
<1>4. \/ \E c \in Clients : e \in Obs!Carried(c)
      \/ e \in Obs!ToSet(buffer) \/ e \in Obs!ToSet(delivered) \/ e \in lost
  BY <1>3
<1>5. \A c \in Clients : e \in Obs!Carried(c) =>
         /\ e \notin Obs!ToSet(buffer) /\ e \notin Obs!ToSet(delivered) /\ e \notin lost
         /\ \A d \in Clients : e \in Obs!Carried(d) => d = c
  BY <1>3 DEF Obs!Apart
<1>6. /\ ~(e \in Obs!ToSet(buffer) /\ e \in Obs!ToSet(delivered))
      /\ ~(e \in Obs!ToSet(buffer) /\ e \in lost) /\ ~(e \in Obs!ToSet(delivered) /\ e \in lost)
  BY <1>3 DEF Obs!Apart
<1>7. \E p \in Obs!Places : \A q \in Obs!Places : e \in Obs!At(q) <=> q = p
  <2>1. CASE \E c \in Clients : e \in Obs!Carried(c)
    <3>1. PICK c \in Clients : e \in Obs!Carried(c)
      BY <2>1
    <3>2. CASE logging[c].do = "push"
      BY <1>1, <1>2, <1>5, <3>1, <3>2 DEF Obs!Places
    <3>3. CASE logging[c].do = "send"
      BY <1>1, <1>2, <1>5, <3>1, <3>3 DEF Obs!Places
    <3> QED BY <1>2, <3>1, <3>2, <3>3
  <2>2. CASE ~ \E c \in Clients : e \in Obs!Carried(c)
    BY <1>1, <1>2, <1>4, <1>6, <2>2 DEF Obs!Places
  <2> QED BY <2>1, <2>2
<1> QED BY <1>7

LEMMA LinesAreAccounted == DPSpec => []Obs!LinesAccounted
<1>1. Obs!Init => Obs!LogsInv
  <2> SUFFICES ASSUME Obs!Init PROVE Obs!LogsInv
    OBVIOUS
  <2>1. /\ buffer = <<>> /\ ingested = 0 /\ delivered = <<>> /\ lost = {}
        /\ logging = [c \in Clients |-> Obs!Idle] /\ batch_size \in Nat \ {0}
    BY DataPlaneAssumption DEF Obs!Init
  <2>2. <<>> \in Obs!Batches /\ Obs!ToSet(<<>>) = {} /\ Len(<<>>) = 0
    BY DEF Obs!Batches, Obs!IsInjective, Obs!ToSet
  <2>3. logging \in [Clients -> Obs!Calls] /\ \A c \in Clients : Obs!Carried(c) = {}
    BY <2>1 DEF Obs!Calls, Obs!Carried, Obs!Idle
  <2>4. Obs!Apart /\ Obs!Kept
    BY <2>1, <2>2, <2>3 DEF Obs!Apart, Obs!Kept
  <2> QED BY <2>1, <2>2, <2>3, <2>4 DEF Obs!LogsInv
<1>2. Obs!LogsInv => Obs!LinesAccounted
  <2> SUFFICES ASSUME Obs!LogsInv PROVE Obs!LinesAccounted
    OBVIOUS
  <2>1. Obs!IsInjective(delivered) /\ Obs!IsInjective(buffer)
    BY DEF Obs!LogsInv, Obs!Batches
  <2>2. ASSUME NEW e \in 1..ingested
        PROVE  Obs!Cardinality({p \in Obs!Places : e \in Obs!At(p)}) = 1
    <3>1. PICK p : {q \in Obs!Places : e \in Obs!At(q)} = {p}
      BY InOnePlace
    <3>2. \A S : Obs!Cardinality(S) = Cardinality(S)
      BY DEF Obs!Cardinality, Cardinality
    <3> QED BY <3>1, <3>2, FS_Singleton
  <2>3. (\A c \in Clients : logging[c] = Obs!Idle) => Len(buffer) < batch_size
    <3>1. Obs!Idle.do # "flush" /\ Len(buffer) \in Nat /\ batch_size \in Nat
      BY DataPlaneAssumption DEF Obs!Idle, Obs!LogsInv, Obs!Batches
    <3>2. Len(buffer) >= batch_size => \E c \in Clients : logging[c].do = "flush"
      BY DEF Obs!LogsInv
    <3> QED BY <3>1, <3>2
  <2> QED BY <2>1, <2>2, <2>3 DEF Obs!LinesAccounted
<1> QED BY PartsStart, LgStep, <1>1, <1>2, LinesKeep, PTL DEF DPSpec

\* Whatever the callers of the services do at once: no log line is lost or
\* sent twice, but with a push that failed; no part of a trace is missing at
\* the collector; no load gets an outdated module; no connection serves two
\* requests; and no frame is lost, doubled or overtaken.
THEOREM HandedOnAsMeant == DPSpec => []HandedOnRight
BY LinesAreAccounted, TracesAreWhole, ModulesAreNew, SendersAreExclusive, FramesAreInOrder, PTL
   DEF HandedOnRight

-----------------------------------------------------------------------------
(***************************************************************************)
(* The signing request of an ACME order, read as DER: the domain is where  *)
(* it was put, whatever its length.                                        *)
(***************************************************************************)
\* A tag and the bytes of a length.
LEMMA Headed ==
    ASSUME NEW tag \in Nat, NEW s \in Seq(Nat)
    PROVE  /\ <<tag>> \o s \in Seq(Nat) /\ Len(<<tag>> \o s) = 1 + Len(s)
           /\ \A i \in 1 .. Len(s) : (<<tag>> \o s)[1 + i] = s[i]
<1>1. PICK t \in Seq(Nat) : t = <<tag>> /\ Len(t) = 1
  <2>1. <<tag>> \in Seq(Nat) /\ Len(<<tag>>) = 1
    OBVIOUS
  <2> QED BY <2>1
<1>2. t \o s \in Seq(Nat) /\ Len(t \o s) = 1 + Len(s) /\ Len(s) \in Nat
      /\ \A i \in 1 .. 1 + Len(s) : (t \o s)[i] = IF i <= 1 THEN t[i] ELSE s[i - 1]
  BY <1>1, ConcatProperties, LenProperties
<1>3. \A i \in 1 .. Len(s) : (t \o s)[1 + i] = s[i]
  <2>1. TAKE i \in 1 .. Len(s)
  <2>2. 1 + i \in 1 .. 1 + Len(s) /\ ~(1 + i <= 1) /\ (1 + i) - 1 = i
    BY <1>2
  <2> QED BY <1>2, <2>2
<1> QED BY <1>1, <1>2, <1>3

\* What such a header says of the length.
Heads(h, n) ==
    /\ h \in Seq(Nat) /\ Len(h) \in 2 .. 4
    /\ \/ n < 128 /\ Len(h) = 2 /\ h[2] = n
       \/ Len(h) = 3 /\ h[2] = 129 /\ h[3] = n
       \/ Len(h) = 4 /\ h[2] = 130 /\ h[3] * 256 + h[4] = n

LEMMA LengthHeader ==
    ASSUME NEW tag \in Nat, NEW n \in Nat, n < 256 * 256
    PROVE  Heads(Enc!der_tag_length(tag, n), n)
<1> DEFINE h == Enc!der_tag_length(tag, n)
<1>1. CASE n < 128
  <2>1. h = <<tag>> \o <<n>>
    BY <1>1 DEF Enc!der_tag_length
  <2>2. PICK s \in Seq(Nat) : s = <<n>> /\ Len(s) = 1 /\ s[1] = n
    <3>1. <<n>> \in Seq(Nat) /\ Len(<<n>>) = 1 /\ <<n>>[1] = n
      OBVIOUS
    <3> QED BY <3>1, Zenon
  <2>3. h = <<tag>> \o s
    BY <2>1, <2>2
  <2> HIDE DEF h
  <2>4. h \in Seq(Nat) /\ Len(h) = 2 /\ h[2] = n
    BY <2>2, <2>3, Headed
  <2> QED BY <1>1, <2>4 DEF h, Heads
<1>2. CASE ~(n < 128) /\ n < 256
  <2>1. h = <<tag>> \o <<129, n>>
    BY <1>2 DEF Enc!der_tag_length
  <2>2. PICK s \in Seq(Nat) : s = <<129, n>> /\ Len(s) = 2 /\ s[1] = 129 /\ s[2] = n
    <3>1. <<129, n>> \in Seq(Nat) /\ Len(<<129, n>>) = 2
          /\ <<129, n>>[1] = 129 /\ <<129, n>>[2] = n
      OBVIOUS
    <3> QED BY <3>1, Zenon
  <2>3. h = <<tag>> \o s
    BY <2>1, <2>2
  <2> HIDE DEF h
  <2>4. h \in Seq(Nat) /\ Len(h) = 3 /\ h[2] = 129 /\ h[3] = n
    BY <2>2, <2>3, Headed
  <2> QED BY <2>4 DEF h, Heads
<1>3. CASE ~(n < 128) /\ ~(n < 256)
  <2>1. PICK a \in Nat, b \in Nat : a = (n \div 256) % 256 /\ b = n % 256 /\ a * 256 + b = n
    <3>1. (n \div 256) % 256 = n \div 256
      OBVIOUS
    <3>2. n \div 256 \in Nat /\ n % 256 \in Nat /\ ((n \div 256) * 256) + (n % 256) = n
      OBVIOUS
    <3> QED BY <3>1, <3>2
  <2>2. h = <<tag>> \o <<130, a, b>>
    BY <1>3, <2>1 DEF Enc!der_tag_length
  <2>3. PICK s \in Seq(Nat) :
           s = <<130, a, b>> /\ Len(s) = 3 /\ s[1] = 130 /\ s[2] = a /\ s[3] = b
    <3>1. <<130, a, b>> \in Seq(Nat) /\ Len(<<130, a, b>>) = 3
          /\ <<130, a, b>>[1] = 130 /\ <<130, a, b>>[2] = a /\ <<130, a, b>>[3] = b
      OBVIOUS
    <3> QED BY <3>1, Zenon
  <2>4. h = <<tag>> \o s
    BY <2>2, <2>3
  <2> HIDE DEF h
  <2>5. h \in Seq(Nat) /\ Len(h) = 4 /\ h[2] = 130 /\ h[3] = a /\ h[4] = b
    BY <2>3, <2>4, Headed
  <2> QED BY <2>1, <2>5 DEF h, Heads
<1> QED BY <1>1, <1>2, <1>3

\* An element of DER comes off whatever follows it, and its contents out of it.
LEMMA Opens ==
    ASSUME NEW tag \in Nat, NEW c \in Seq(Nat), NEW r \in Seq(Nat), Len(c) < 256 * 256
    PROVE  /\ Enc!der_wrap(tag, c) \in Seq(Nat)
           /\ Len(Enc!der_wrap(tag, c)) \in Nat /\ Len(Enc!der_wrap(tag, c)) <= Len(c) + 4
           /\ Enc!First(Enc!der_wrap(tag, c) \o r) = Enc!der_wrap(tag, c)
           /\ Enc!Rest(Enc!der_wrap(tag, c) \o r) = r
           /\ Enc!Within(Enc!der_wrap(tag, c)) = c
<1>1. PICK n \in Nat : n = Len(c) /\ n < 256 * 256
  BY LenProperties
<1>2. PICK h \in Seq(Nat) :
         /\ h = Enc!der_tag_length(tag, n) /\ Len(h) \in 2 .. 4
         /\ \/ n < 128 /\ Len(h) = 2 /\ h[2] = n
            \/ Len(h) = 3 /\ h[2] = 129 /\ h[3] = n
            \/ Len(h) = 4 /\ h[2] = 130 /\ h[3] * 256 + h[4] = n
  <2>1. Heads(Enc!der_tag_length(tag, n), n)
    BY <1>1, LengthHeader
  <2> QED BY <2>1, Zenon DEF Heads
<1>3. PICK e \in Seq(Nat) :
         e = h \o c /\ Len(e) = Len(h) + n /\ \A i \in 1 .. Len(h) : e[i] = h[i]
  <2>1. /\ h \o c \in Seq(Nat) /\ Len(h \o c) = Len(h) + n
        /\ \A i \in 1 .. Len(h) : (h \o c)[i] = h[i]
    BY <1>1, <1>2, ConcatProperties
  <2> QED BY <2>1, Zenon
<1>4. PICK w \in Seq(Nat) :
         w = e \o r /\ Len(w) = Len(e) + Len(r) /\ \A i \in 1 .. Len(e) : w[i] = e[i]
  <2>1. /\ e \o r \in Seq(Nat) /\ Len(e \o r) = Len(e) + Len(r)
        /\ \A i \in 1 .. Len(e) : (e \o r)[i] = e[i]
    BY LenProperties, ConcatProperties
  <2> QED BY <2>1, Zenon
<1>5. /\ Len(e) \in Nat /\ Len(w) \in Nat /\ Len(e) <= Len(w) /\ Len(h) <= Len(e)
  <2>1. Len(e) = Len(h) + n /\ Len(w) = Len(e) + Len(r)
    BY <1>3, <1>4, Zenon
  <2>2. Len(h) \in 2 .. 4 /\ Len(r) \in Nat
    BY <1>2, LenProperties, Zenon
  <2> QED BY ONLY <2>1, <2>2, n \in Nat
<1>6. /\ \/ n < 128 /\ Len(h) = 2 /\ e[2] = n /\ w[2] = n
         \/ Len(h) = 3 /\ e[2] = 129 /\ w[2] = 129 /\ w[3] = n
         \/ Len(h) = 4 /\ e[2] = 130 /\ w[2] = 130 /\ w[3] * 256 + w[4] = n
  <2>1. \A i \in 1 .. Len(h) : e[i] = h[i] /\ w[i] = h[i]
    <3>1. \A i \in 1 .. Len(h) : e[i] = h[i]
      BY <1>3, Zenon
    <3>2. \A i \in 1 .. Len(e) : w[i] = e[i]
      BY <1>4, Zenon
    <3>3. Len(h) \in Nat
      BY LenProperties
    <3>4. TAKE i \in 1 .. Len(h)
    <3>5. i \in 1 .. Len(e)
      BY <1>5, <3>3
    <3> QED BY <3>1, <3>2, <3>5, Zenon
  <2>2. CASE n < 128 /\ Len(h) = 2 /\ h[2] = n
    <3>1. 2 \in 1 .. Len(h)
      BY <2>2
    <3> QED BY <2>1, <2>2, <3>1, Zenon
  <2>3. CASE Len(h) = 3 /\ h[2] = 129 /\ h[3] = n
    <3>1. 2 \in 1 .. Len(h) /\ 3 \in 1 .. Len(h)
      BY <2>3
    <3> QED BY <2>1, <2>3, <3>1, Zenon
  <2>4. CASE Len(h) = 4 /\ h[2] = 130 /\ h[3] * 256 + h[4] = n
    <3>1. 2 \in 1 .. Len(h) /\ 3 \in 1 .. Len(h) /\ 4 \in 1 .. Len(h)
      BY <2>4
    <3>2. w[2] = h[2] /\ e[2] = h[2] /\ w[3] = h[3] /\ w[4] = h[4]
      BY <2>1, <3>1, Zenon
    <3> QED BY <2>4, <3>2
  <2> QED BY <1>2, <2>2, <2>3, <2>4, Zenon
<1>7. Enc!Header(e) = Len(h) /\ Enc!Header(w) = Len(h)
  <2>1. CASE n < 128 /\ Len(h) = 2 /\ e[2] = n /\ w[2] = n
    BY <2>1 DEF Enc!Header
  <2>2. CASE Len(h) = 3 /\ e[2] = 129 /\ w[2] = 129 /\ w[3] = n
    BY <2>2 DEF Enc!Header
  <2>3. CASE Len(h) = 4 /\ e[2] = 130 /\ w[2] = 130 /\ w[3] * 256 + w[4] = n
    BY <2>3 DEF Enc!Header
  <2> QED BY <1>6, <2>1, <2>2, <2>3, Zenon
<1>8. Enc!ContentLength(w) = n
  BY <1>1, <1>6 DEF Enc!ContentLength
<1>9. Enc!Header(w) + Enc!ContentLength(w) = Len(e)
  BY <1>3, <1>7, <1>8, Zenon
<1>10. Enc!First(w) = e
  <2>1. Enc!Min({Enc!Header(w) + Enc!ContentLength(w), Len(w)}) = Len(e)
    BY <1>5, <1>9 DEF Enc!Min
  <2>2. SubSeq(w, 1, Len(e)) = e
    BY <1>4, Pieces, Zenon
  <2>3. Enc!First(w) = SubSeq(w, 1, Len(e))
    BY <2>1, Zenon DEF Enc!First
  <2> QED BY <2>2, <2>3
<1>11. Enc!Rest(w) = r
  <2>1. Enc!Rest(w) = SubSeq(w, Len(e) + 1, Len(w))
    BY <1>9, Zenon DEF Enc!Rest
  <2> QED BY <1>4, <2>1, Pieces, Zenon
<1>12. Enc!Within(e) = c
  <2>1. Enc!Within(e) = SubSeq(e, Len(h) + 1, Len(e))
    BY <1>7, Zenon DEF Enc!Within
  <2> QED BY <1>3, <2>1, Pieces, Zenon
<1>13. Enc!der_wrap(tag, c) = e
  BY <1>1, <1>2, <1>3, Zenon DEF Enc!der_wrap
<1>14. Len(e) <= Len(c) + 4
  <2>1. Len(e) = Len(h) + n
    BY <1>3, Zenon
  <2>2. Len(h) \in Nat /\ Len(h) <= 4
    <3>1. Len(h) \in 2 .. 4
      BY <1>2, Zenon
    <3>2. \A k \in 2 .. 4 : k \in Nat /\ k <= 4
      OBVIOUS
    <3> QED BY <3>1, <3>2, Zenon
  <2>3. \A k, l, m \in Nat : l = k + m /\ k <= 4 => l <= m + 4
    OBVIOUS
  <2>4. n \in Nat
    BY <1>1
  <2> QED BY <1>1, <1>5, <2>1, <2>2, <2>3, <2>4, Zenon
<1> QED BY <1>4, <1>5, <1>10, <1>11, <1>12, <1>13, <1>14, Zenon

LEMMA OpensAlone ==
    ASSUME NEW tag \in Nat, NEW c \in Seq(Nat), Len(c) < 256 * 256
    PROVE  /\ Enc!First(Enc!der_wrap(tag, c)) = Enc!der_wrap(tag, c)
           /\ Enc!Rest(Enc!der_wrap(tag, c)) = <<>>
           /\ Enc!Within(Enc!der_wrap(tag, c)) = c
<1>1. PICK e : e = Enc!der_wrap(tag, c)
  BY Zenon
<1>2. PICK r \in Seq(Nat) : r = <<>>
  <2>1. <<>> \in Seq(Nat)
    OBVIOUS
  <2> QED BY <2>1, Zenon
<1>3. e \in Seq(Nat) /\ Enc!First(e \o r) = e /\ Enc!Rest(e \o r) = r /\ Enc!Within(e) = c
  BY <1>1, Opens, Zenon
<1>4. e \o <<>> = e
  BY <1>3, ConcatEmptySeq, Zenon
<1> QED BY <1>1, <1>2, <1>3, <1>4, Zenon

\* How long the parts of a request are.
AtMost(s, k) == s \in Seq(Nat) /\ Len(s) \in Nat /\ Len(s) <= k

LEMMA BytesAtMost == ASSUME NEW n \in Nat PROVE AtMost(Enc!Bytes(n), n)
BY DEF AtMost, Enc!Bytes

LEMMA WrapAtMost ==
    ASSUME NEW tag \in Nat, NEW k \in Nat, k < 256 * 256, NEW c, AtMost(c, k)
    PROVE  AtMost(Enc!der_wrap(tag, c), k + 4) /\ c \in Seq(Nat) /\ Len(c) < 256 * 256
<1>1. c \in Seq(Nat) /\ Len(c) \in Nat /\ Len(c) <= k
  BY DEF AtMost
<1>2. Len(c) < 256 * 256
  BY <1>1
<1>3. PICK e : e = Enc!der_wrap(tag, c)
  BY Zenon
<1>4. e \in Seq(Nat) /\ Len(e) \in Nat /\ Len(e) <= Len(c) + 4
  BY <1>1, <1>2, <1>3, Opens, Zenon
<1>5. Len(e) <= k + 4
  BY <1>1, <1>4
<1> QED BY <1>1, <1>2, <1>3, <1>4, <1>5, Zenon DEF AtMost

LEMMA TwoAtMost ==
    ASSUME NEW k \in Nat, NEW m \in Nat, NEW u, NEW v, AtMost(u, k), AtMost(v, m)
    PROVE  AtMost(Then(u, v), k + m)
<1>1. u \in Seq(Nat) /\ v \in Seq(Nat) /\ Len(u) \in Nat /\ Len(v) \in Nat
      /\ Len(u) <= k /\ Len(v) <= m
  BY DEF AtMost
<1>2. u \o v \in Seq(Nat) /\ Len(u \o v) = Len(u) + Len(v)
  BY <1>1, ConcatProperties
<1>3. Len(u) + Len(v) \in Nat /\ Len(u) + Len(v) <= k + m
  BY <1>1
<1> QED BY <1>2, <1>3, Zenon DEF AtMost, Then

\* The fields of a sequence come off one by one.
LEMMA Fields ==
    ASSUME NEW u \in Seq(Nat), NEW v \in Seq(Nat), NEW w \in Seq(Nat)
    PROVE  Then(u, v) \in Seq(Nat) /\ Then(Then(u, v), w) = Then(u, Then(v, w))
<1>1. u \o v \in Seq(Nat)
  BY ConcatProperties
<1>2. (u \o v) \o w = u \o (v \o w)
  BY ConcatAssociative
<1> QED BY <1>1, <1>2, Zenon DEF Then

LEMMA OpensThen ==
    ASSUME NEW tag \in Nat, NEW c \in Seq(Nat), NEW r \in Seq(Nat), Len(c) < 256 * 256
    PROVE  /\ Enc!First(Then(Enc!der_wrap(tag, c), r)) = Enc!der_wrap(tag, c)
           /\ Enc!Rest(Then(Enc!der_wrap(tag, c), r)) = r
BY Opens, Zenon DEF Then

LEMMA CsrIsRead ==
    ASSUME NEW d \in Nat, d <= 256 * 255
    PROVE  LET csr      == Enc!generate_ecdsa_csr(d)
               req_info == Enc!First(Enc!Within(csr))
               cn_set   == Enc!First(Enc!Rest(Enc!Within(req_info)))
               name     == Enc!Rest(Enc!Within(Enc!First(Enc!Within(cn_set))))
           IN  /\ Enc!Rest(csr) = <<>> /\ Enc!Rest(name) = <<>>
               /\ Enc!Within(name) = Enc!Bytes(d)
               /\ Enc!Rest(Enc!Rest(Enc!Rest(Enc!Rest(Enc!Within(req_info))))) = <<>>
               /\ Enc!Rest(Enc!Rest(Enc!Rest(Enc!Within(csr)))) = <<>>
<1> DEFINE W(tag, c) == Enc!der_wrap(tag, c)
           oid      == W(6, Enc!Bytes(3))
           name     == W(12, Enc!Bytes(d))
           pair     == W(48, Then(oid, name))
           cn_set   == W(49, pair)
           point    == W(3, Then(<<0>>, Enc!Bytes(65)))
           algs     == W(48, Then(W(6, Enc!Bytes(7)), W(6, Enc!Bytes(8))))
           spki     == W(48, Then(algs, point))
           int      == W(2, <<0>>)
           set      == W(49, <<>>)
           fields   == Then(Then(Then(int, cn_set), spki), set)
           req_info == W(48, fields)
           alg      == W(48, W(6, Enc!Bytes(8)))
           sign     == W(3, Then(<<0>>, Enc!Bytes(71)))
           body     == Then(Then(req_info, alg), sign)
<1>0. Enc!generate_ecdsa_csr(d) = W(48, body)
  BY Zenon DEF Enc!generate_ecdsa_csr, Enc!der_sequence, Enc!der_set, Enc!der_oid,
               Enc!der_integer, Enc!der_utf8_string, Enc!der_bit_string, Then
<1>1. /\ 3 \in Nat /\ 7 \in Nat /\ 8 \in Nat /\ 65 \in Nat /\ 71 \in Nat
      /\ 2 \in Nat /\ 6 \in Nat /\ 12 \in Nat /\ 48 \in Nat /\ 49 \in Nat /\ 1 \in Nat /\ 0 \in Nat
  OBVIOUS
<1>2. AtMost(<<0>>, 1) /\ AtMost(<<>>, 0)
  BY DEF AtMost
<1>3. /\ AtMost(oid, 7)
      /\ AtMost(name, d + 4) /\ Enc!Bytes(d) \in Seq(Nat) /\ Len(Enc!Bytes(d)) < 256 * 256
  <2>1. AtMost(Enc!Bytes(3), 3) /\ AtMost(Enc!Bytes(d), d)
    BY BytesAtMost
  <2>2. 3 < 256 * 256 /\ d < 256 * 256 /\ 3 + 4 = 7
    OBVIOUS
  <2>3. AtMost(oid, 3 + 4)
    BY <1>1, <2>1, <2>2, WrapAtMost
  <2>4. AtMost(name, d + 4) /\ Enc!Bytes(d) \in Seq(Nat) /\ Len(Enc!Bytes(d)) < 256 * 256
    BY <1>1, <2>1, <2>2, WrapAtMost
  <2> QED BY <2>2, <2>3, <2>4, Zenon
<1> HIDE DEF oid, name
<1>4. /\ AtMost(pair, (7 + (d + 4)) + 4)
      /\ AtMost(Then(oid, name), 7 + (d + 4)) /\ Len(Then(oid, name)) < 256 * 256
  <2>1. AtMost(Then(oid, name), 7 + (d + 4))
    BY <1>1, <1>3, TwoAtMost
  <2>2. 7 + (d + 4) \in Nat /\ 7 + (d + 4) < 256 * 256
    OBVIOUS
  <2> QED BY <1>1, <2>1, <2>2, WrapAtMost
<1> HIDE DEF pair
<1>5. AtMost(cn_set, ((7 + (d + 4)) + 4) + 4) /\ Len(pair) < 256 * 256
  <2>1. (7 + (d + 4)) + 4 \in Nat /\ (7 + (d + 4)) + 4 < 256 * 256
    OBVIOUS
  <2> QED BY <1>1, <1>4, <2>1, WrapAtMost
<1> HIDE DEF cn_set
<1>6. AtMost(spki, 101) /\ AtMost(Then(algs, point), 97) /\ Len(Then(algs, point)) < 256 * 256
  <2>1. AtMost(Then(<<0>>, Enc!Bytes(65)), 1 + 65)
    BY <1>1, <1>2, BytesAtMost, TwoAtMost
  <2>2. AtMost(point, 70)
    <3>1. 1 + 65 \in Nat /\ 1 + 65 < 256 * 256 /\ (1 + 65) + 4 = 70
      OBVIOUS
    <3>2. AtMost(point, (1 + 65) + 4)
      BY <1>1, <2>1, <3>1, WrapAtMost
    <3> QED BY <3>1, <3>2
  <2>3. AtMost(W(6, Enc!Bytes(7)), 11) /\ AtMost(W(6, Enc!Bytes(8)), 12)
    <3>1. AtMost(Enc!Bytes(7), 7) /\ AtMost(Enc!Bytes(8), 8)
      BY <1>1, BytesAtMost
    <3>2. 7 < 256 * 256 /\ 8 < 256 * 256 /\ 7 + 4 = 11 /\ 8 + 4 = 12
      OBVIOUS
    <3>3. AtMost(W(6, Enc!Bytes(7)), 7 + 4) /\ AtMost(W(6, Enc!Bytes(8)), 8 + 4)
      BY <1>1, <3>1, <3>2, WrapAtMost
    <3> QED BY <3>2, <3>3
  <2>4. AtMost(algs, 27)
    <3>1. /\ 11 \in Nat /\ 12 \in Nat
          /\ 11 + 12 \in Nat /\ 11 + 12 < 256 * 256 /\ (11 + 12) + 4 = 27
      OBVIOUS
    <3>2. AtMost(Then(W(6, Enc!Bytes(7)), W(6, Enc!Bytes(8))), 11 + 12)
      BY <2>3, <3>1, TwoAtMost
    <3>3. AtMost(algs, (11 + 12) + 4)
      BY <1>1, <3>1, <3>2, WrapAtMost
    <3> QED BY <3>1, <3>3
  <2> HIDE DEF algs, point
  <2>5. AtMost(Then(algs, point), 97)
    <3>1. 27 \in Nat /\ 70 \in Nat /\ 27 + 70 = 97
      OBVIOUS
    <3>2. AtMost(Then(algs, point), 27 + 70)
      BY <2>2, <2>4, <3>1, TwoAtMost
    <3> QED BY <3>1, <3>2
  <2>6. 97 \in Nat /\ 97 < 256 * 256 /\ 97 + 4 = 101
    OBVIOUS
  <2>7. AtMost(spki, 97 + 4) /\ Len(Then(algs, point)) < 256 * 256
    <3>1. PICK c : c = Then(algs, point)
      BY Zenon
    <3>2. AtMost(c, 97)
      BY <2>5, <3>1, Zenon
    <3>3. AtMost(W(48, c), 97 + 4) /\ Len(c) < 256 * 256
      BY <1>1, <2>6, <3>2, WrapAtMost
    <3> QED BY <3>1, <3>3, Zenon
  <2> QED BY <2>5, <2>6, <2>7
<1> HIDE DEF spki
<1>7. /\ AtMost(int, 5) /\ Len(<<0>>) < 256 * 256 /\ <<0>> \in Seq(Nat)
      /\ AtMost(set, 4) /\ Len(<<>>) < 256 * 256 /\ <<>> \in Seq(Nat)
  <2>1. 1 < 256 * 256 /\ 0 < 256 * 256 /\ 1 + 4 = 5 /\ 0 + 4 = 4
    OBVIOUS
  <2>2. AtMost(int, 1 + 4) /\ Len(<<0>>) < 256 * 256 /\ <<0>> \in Seq(Nat)
    BY <1>1, <1>2, <2>1, WrapAtMost
  <2>3. AtMost(set, 0 + 4) /\ Len(<<>>) < 256 * 256 /\ <<>> \in Seq(Nat)
    BY <1>1, <1>2, <2>1, WrapAtMost
  <2> QED BY <2>1, <2>2, <2>3
<1> HIDE DEF int, set
<1>8. /\ AtMost(Then(int, cn_set), 5 + (((7 + (d + 4)) + 4) + 4))
      /\ AtMost(Then(Then(int, cn_set), spki), (5 + (((7 + (d + 4)) + 4) + 4)) + 101)
      /\ AtMost(fields, ((5 + (((7 + (d + 4)) + 4) + 4)) + 101) + 4)
  <2>1. /\ 5 \in Nat /\ ((7 + (d + 4)) + 4) + 4 \in Nat /\ 101 \in Nat /\ 4 \in Nat
        /\ 5 + (((7 + (d + 4)) + 4) + 4) \in Nat
        /\ (5 + (((7 + (d + 4)) + 4) + 4)) + 101 \in Nat
    OBVIOUS
  <2>2. AtMost(Then(int, cn_set), 5 + (((7 + (d + 4)) + 4) + 4))
    BY <1>5, <1>7, <2>1, TwoAtMost, Zenon
  <2>3. AtMost(Then(Then(int, cn_set), spki), (5 + (((7 + (d + 4)) + 4) + 4)) + 101)
    BY <1>6, <2>1, <2>2, TwoAtMost, Zenon
  <2> QED BY <1>7, <2>1, <2>2, <2>3, TwoAtMost, Zenon
<1> HIDE DEF fields
<1>9. PICK k \in Nat : k = d + 129
  OBVIOUS
<1>10. AtMost(fields, k) /\ k < 256 * 256 /\ k + 109 < 256 * 256
  <2>1. ((5 + (((7 + (d + 4)) + 4) + 4)) + 101) + 4 = k
    BY <1>9
  <2>2. k < 256 * 256 /\ k + 109 < 256 * 256
    BY <1>9
  <2> QED BY <1>8, <2>1, <2>2, Zenon
<1>11. AtMost(req_info, k + 4) /\ Len(fields) < 256 * 256
  BY <1>1, <1>10, WrapAtMost
<1> HIDE DEF req_info
<1>12. AtMost(alg, 16) /\ AtMost(sign, 76)
  <2>1. /\ 12 \in Nat /\ 1 + 71 \in Nat /\ 8 < 256 * 256 /\ 12 < 256 * 256 /\ 1 + 71 < 256 * 256
        /\ 8 + 4 = 12 /\ 12 + 4 = 16 /\ (1 + 71) + 4 = 76
    OBVIOUS
  <2>2. AtMost(W(6, Enc!Bytes(8)), 8 + 4) /\ AtMost(Then(<<0>>, Enc!Bytes(71)), 1 + 71)
    BY <1>1, <1>2, <2>1, BytesAtMost, WrapAtMost, TwoAtMost
  <2>3. AtMost(alg, 12 + 4)
    <3>1. AtMost(W(6, Enc!Bytes(8)), 12)
      BY <2>1, <2>2
    <3> QED BY <1>1, <2>1, <3>1, WrapAtMost
  <2>4. AtMost(sign, (1 + 71) + 4)
    <3>1. PICK c : c = Then(<<0>>, Enc!Bytes(71))
      BY Zenon
    <3>2. AtMost(c, 1 + 71)
      BY <2>2, <3>1, Zenon
    <3>3. AtMost(W(3, c), (1 + 71) + 4)
      BY <1>1, <2>1, <3>2, WrapAtMost
    <3> QED BY <3>1, <3>3, Zenon
  <2> QED BY <2>1, <2>3, <2>4
<1>13. Len(Then(<<0>>, Enc!Bytes(71))) < 256 * 256 /\ Then(<<0>>, Enc!Bytes(71)) \in Seq(Nat)
  <2>1. AtMost(Then(<<0>>, Enc!Bytes(71)), 1 + 71)
    BY <1>1, <1>2, BytesAtMost, TwoAtMost
  <2>2. 1 + 71 < 256 * 256 /\ 1 + 71 \in Nat
    OBVIOUS
  <2> QED BY <1>1, <2>1, <2>2, WrapAtMost
<1>14. Enc!Rest(sign) = <<>>
  BY <1>1, <1>13, OpensAlone
<1> HIDE DEF alg, sign
<1>15. AtMost(body, ((k + 4) + 16) + 76) /\ Len(body) < 256 * 256
  <2>1. /\ k + 4 \in Nat /\ 16 \in Nat /\ 76 \in Nat /\ (k + 4) + 16 \in Nat
        /\ ((k + 4) + 16) + 76 \in Nat /\ ((k + 4) + 16) + 76 < 256 * 256
    BY <1>10
  <2>2. AtMost(Then(req_info, alg), (k + 4) + 16)
    BY <1>11, <1>12, <2>1, TwoAtMost, Zenon
  <2>3. AtMost(body, ((k + 4) + 16) + 76)
    BY <1>12, <2>1, <2>2, TwoAtMost, Zenon
  <2> HIDE DEF body
  <2> QED BY <1>1, <2>1, <2>3, WrapAtMost
<1>16. /\ oid \in Seq(Nat) /\ name \in Seq(Nat) /\ pair \in Seq(Nat) /\ cn_set \in Seq(Nat)
       /\ spki \in Seq(Nat) /\ int \in Seq(Nat) /\ set \in Seq(Nat) /\ req_info \in Seq(Nat)
       /\ alg \in Seq(Nat) /\ sign \in Seq(Nat) /\ Then(oid, name) \in Seq(Nat)
       /\ fields \in Seq(Nat) /\ body \in Seq(Nat)
  BY <1>3, <1>4, <1>5, <1>6, <1>7, <1>8, <1>11, <1>12, <1>15, Zenon DEF AtMost
<1>17. /\ body = Then(req_info, Then(alg, sign))
       /\ fields = Then(int, Then(cn_set, Then(spki, set)))
       /\ Then(alg, sign) \in Seq(Nat) /\ Then(spki, set) \in Seq(Nat)
       /\ Then(cn_set, Then(spki, set)) \in Seq(Nat)
  <2>1. Then(int, cn_set) \in Seq(Nat) /\ Then(alg, sign) \in Seq(Nat) /\ Then(spki, set) \in Seq(Nat)
        /\ Then(cn_set, Then(spki, set)) \in Seq(Nat) /\ Then(cn_set, spki) \in Seq(Nat)
    BY <1>16, Fields
  <2>2. body = Then(req_info, Then(alg, sign))
    BY <1>16, Fields DEF body
  <2>3. fields = Then(Then(int, cn_set), Then(spki, set))
    BY <1>16, <2>1, Fields DEF fields
  <2>4. Then(Then(int, cn_set), Then(spki, set)) = Then(int, Then(cn_set, Then(spki, set)))
    BY <1>16, <2>1, Fields
  <2> QED BY <2>1, <2>2, <2>3, <2>4, Zenon
<1> HIDE DEF W
<1>18. Enc!Rest(W(48, body)) = <<>> /\ Enc!Within(W(48, body)) = body
  BY <1>1, <1>15, <1>16, OpensAlone, Zenon DEF W
<1>19. /\ Enc!First(body) = req_info
       /\ Enc!Rest(body) = Then(alg, sign) /\ Enc!Within(req_info) = fields
  <2>1. PICK c \in Seq(Nat) : c = fields /\ req_info = Enc!der_wrap(48, c) /\ Len(c) < 256 * 256
    BY <1>11, <1>16, Zenon DEF W, req_info
  <2>2. PICK r \in Seq(Nat) : r = Then(alg, sign) /\ body = Then(req_info, r)
    BY <1>17, Zenon
  <2>3. /\ Enc!First(Then(Enc!der_wrap(48, c), r)) = Enc!der_wrap(48, c)
        /\ Enc!Rest(Then(Enc!der_wrap(48, c), r)) = r
    BY <1>1, <2>1, OpensThen
  <2>4. Enc!Within(Enc!der_wrap(48, c)) = c
    BY <1>1, <2>1, OpensAlone, Zenon
  <2> QED BY <2>1, <2>2, <2>3, <2>4, Zenon
<1>20. Enc!Rest(Then(alg, sign)) = sign
  <2>1. AtMost(W(6, Enc!Bytes(8)), 12) /\ 12 < 256 * 256
    <3>1. 8 < 256 * 256 /\ 12 < 256 * 256 /\ 8 + 4 = 12
      OBVIOUS
    <3>2. AtMost(W(6, Enc!Bytes(8)), 8 + 4)
      BY <1>1, <3>1, BytesAtMost, WrapAtMost DEF W
    <3> QED BY <3>1, <3>2
  <2>2. W(6, Enc!Bytes(8)) \in Seq(Nat) /\ Len(W(6, Enc!Bytes(8))) < 256 * 256
    BY <1>1, <2>1, WrapAtMost
  <2> QED BY <1>1, <1>16, <2>2, Opens, OpensThen DEF W, alg
<1>21. /\ Enc!Rest(fields) = Then(cn_set, Then(spki, set))
  <2>1. PICK c \in Seq(Nat) : int = Enc!der_wrap(2, c) /\ Len(c) < 256 * 256
    BY <1>7, Zenon DEF W, int
  <2>2. PICK r \in Seq(Nat) : r = Then(cn_set, Then(spki, set)) /\ fields = Then(int, r)
    BY <1>17, Zenon
  <2>3. Enc!Rest(Then(int, r)) = r
    BY <1>1, <2>1, OpensThen
  <2> QED BY <2>2, <2>3, Zenon
<1>22. /\ Enc!First(Then(cn_set, Then(spki, set))) = cn_set
       /\ Enc!Rest(Then(cn_set, Then(spki, set))) = Then(spki, set) /\ Enc!Within(cn_set) = pair
  BY <1>1, <1>5, <1>16, <1>17, Opens, OpensThen DEF W, cn_set
<1>23. Enc!Rest(Then(spki, set)) = set
  <2>1. Then(algs, point) \in Seq(Nat)
    BY <1>6, Zenon DEF AtMost
  <2>2. PICK c \in Seq(Nat) : spki = Enc!der_wrap(48, c) /\ Len(c) < 256 * 256
    BY <1>6, <2>1, Zenon DEF W, spki
  <2> QED BY <1>1, <1>16, <2>2, OpensThen
<1>24. Enc!Rest(set) = <<>>
  BY <1>1, <1>7, OpensAlone, Zenon DEF W, set
<1>25. Enc!First(pair) = pair /\ Enc!Within(pair) = Then(oid, name)
  BY <1>1, <1>4, <1>16, OpensAlone, Zenon DEF W, pair
<1>26. Enc!Rest(Then(oid, name)) = name
  <2>1. AtMost(Enc!Bytes(3), 3) /\ 3 < 256 * 256
    BY <1>1, BytesAtMost
  <2>2. Enc!Bytes(3) \in Seq(Nat) /\ Len(Enc!Bytes(3)) < 256 * 256
    BY <1>1, <2>1, WrapAtMost
  <2> QED BY <1>1, <1>16, <2>2, Opens, OpensThen DEF W, oid
<1>27. Enc!Rest(name) = <<>> /\ Enc!Within(name) = Enc!Bytes(d)
  BY <1>1, <1>3, OpensAlone, Zenon DEF W, name
<1>28. Enc!Rest(Enc!Rest(Enc!Rest(Enc!Rest(Enc!Within(req_info))))) = <<>>
  BY <1>19, <1>21, <1>22, <1>23, <1>24, Zenon
<1>29. Enc!Rest(Enc!Rest(Enc!Rest(Enc!Within(W(48, body))))) = <<>>
  BY <1>14, <1>18, <1>19, <1>20, Zenon
<1>30. Enc!First(Enc!Within(W(48, body))) = req_info
  BY <1>18, <1>19, Zenon
<1>31. Enc!First(Enc!Rest(Enc!Within(req_info))) = cn_set
  BY <1>19, <1>21, <1>22, Zenon
<1>32. Enc!Rest(Enc!Within(Enc!First(Enc!Within(cn_set)))) = name
  BY <1>22, <1>25, <1>26, Zenon
<1> HIDE DEF body
<1> QED BY <1>0, <1>18, <1>27, <1>28, <1>29, <1>30, <1>31, <1>32, Zenon

(***************************************************************************)
(* The text of a volume's key.  A length of LenBytes bytes is read back,   *)
(* and bytes that are read as a length are what that length is written as. *)
(***************************************************************************)
\* The numbers of the encodings are those of the lemmas about bytes.
LEMMA SameBytes ==
    /\ \A b : Enc!Number(b) = NumberOf(LenBytes, b)
    /\ \A s : Enc!LengthOf(s) = DigitsOf(LenBytes, Len(s))
BY DEF Enc!Number, NumberOf, Enc!LengthOf, DigitsOf

\* LenBytes bytes are the length of whatever is as long as they say.
LEMMA BytesBack ==
    ASSUME NEW b \in Digits(LenBytes), NEW s, Len(s) \in Nat, Len(s) = Enc!Number(b)
    PROVE  Enc!LengthOf(s) = b
<1>1. PICK n \in Nat : n = Len(s)
  OBVIOUS
<1>2. n = NumberOf(LenBytes, b)
  BY <1>1, SameBytes, Zenon
<1>3. DigitsOf(LenBytes, n) = b
  BY <1>2, EncodingAssumption, LengthBack
<1> QED BY <1>1, <1>3, SameBytes, Zenon

\* A short text's length is read back as that.
LEMMA ShortBack ==
    ASSUME NEW s, Len(s) \in 0 .. 1
    PROVE  Enc!LengthOf(s) \in Digits(LenBytes) /\ Enc!Number(Enc!LengthOf(s)) = Len(s)
<1>1. PICK n \in 0 .. 1 : n = Len(s)
  OBVIOUS
<1>2. DigitsOf(LenBytes, n) \in Digits(LenBytes)
      /\ NumberOf(LenBytes, DigitsOf(LenBytes, n)) = n
  BY EncodingAssumption, NumberBack
<1> QED BY <1>1, <1>2, SameBytes, Zenon

\* LenBytes bytes of a text are a length, and a length is a number.
LEMMA LengthThere ==
    ASSUME NEW t \in Seq(0 .. 255), NEW a \in Nat, a + LenBytes <= Len(t)
    PROVE  /\ Slice(t, a, a + LenBytes) \in Digits(LenBytes)
           /\ Enc!Number(Slice(t, a, a + LenBytes)) \in Nat
<1>1. LenBytes \in Nat
  BY EncodingAssumption
<1>2. PICK e \in Nat : e = a + LenBytes
  BY <1>1
<1>3. a <= e /\ e <= Len(t) /\ e - a = LenBytes
  BY <1>1, <1>2
<1>4. PICK s : s = Slice(t, a, e)
  BY Zenon
<1>5. IsSlice(s, t, a, e, 0 .. 255)
  BY <1>3, <1>4, SliceIs
<1>6. s \in Seq(0 .. 255) /\ Len(s) = LenBytes
  BY <1>3, <1>5, Zenon DEF IsSlice
<1>7. s \in Digits(LenBytes)
  BY <1>6, LenProperties, Zenon DEF Digits
<1>8. Enc!Number(s) \in Nat
  <2>1. NumberOf(LenBytes, s) \in Nat
    BY <1>7, EncodingAssumption, NumberIsNat
  <2> QED BY <2>1, SameBytes, Zenon
<1> QED BY <1>2, <1>4, <1>7, <1>8, Zenon

LEMMA Written ==
    ASSUME NEW k
    PROVE  Enc!to_base64(k) =
             Then(Then(Then(Then(Then(Enc!LengthOf(k.master_key_id), k.master_key_id),
                                 Enc!LengthOf(k.iv)), k.iv),
                       Enc!LengthOf(k.ciphertext)), k.ciphertext)
BY Zenon DEF Enc!to_base64, Then

\* A text cut at five places, with three lengths that say where.
Cuts(t, k, p1, p2, p3, p4, p5) ==
    /\ t \in Seq(0 .. 255)
    /\ p1 \in Nat /\ p2 \in Nat /\ p3 \in Nat /\ p4 \in Nat /\ p5 \in Nat
    /\ p1 = LenBytes /\ p1 <= p2 /\ p3 = p2 + LenBytes /\ p3 <= p4 /\ p5 = p4 + LenBytes
    /\ p5 <= Len(t)
    /\ Enc!Number(Slice(t, 0, p1)) = p2 - p1
    /\ Enc!Number(Slice(t, p2, p3)) = p4 - p3
    /\ Enc!Number(Slice(t, p4, p5)) = Len(t) - p5
    /\ k.master_key_id = Slice(t, p1, p2) /\ k.iv = Slice(t, p3, p4)
    /\ k.ciphertext = Slice(t, p5, Len(t))

LEMMA CutsAreWritten ==
    ASSUME NEW t, NEW k, NEW p1, NEW p2, NEW p3, NEW p4, NEW p5, Cuts(t, k, p1, p2, p3, p4, p5)
    PROVE  Enc!to_base64(k) = t
<1>a. /\ t \in Seq(0 .. 255)
      /\ p1 \in Nat /\ p2 \in Nat /\ p3 \in Nat /\ p4 \in Nat /\ p5 \in Nat
      /\ p1 = LenBytes /\ p1 <= p2 /\ p3 = p2 + LenBytes /\ p3 <= p4 /\ p5 = p4 + LenBytes
      /\ p5 <= Len(t)
  BY Zenon DEF Cuts
<1>b. /\ Enc!Number(Slice(t, 0, p1)) = p2 - p1
      /\ Enc!Number(Slice(t, p2, p3)) = p4 - p3
      /\ Enc!Number(Slice(t, p4, p5)) = Len(t) - p5
      /\ k.master_key_id = Slice(t, p1, p2) /\ k.iv = Slice(t, p3, p4)
      /\ k.ciphertext = Slice(t, p5, Len(t))
  BY Zenon DEF Cuts
<1>0. LenBytes \in Nat
  BY EncodingAssumption
<1>1. PICK n \in Nat : n = Len(t)
  BY <1>a, LenProperties
<1>2. /\ 0 \in Nat /\ 0 <= p1 /\ 0 <= p2 /\ 0 <= p3 /\ 0 <= p4 /\ 0 <= p5
      /\ p2 <= p3 /\ p4 <= p5 /\ p5 <= n /\ p1 <= n /\ p2 <= n /\ p3 <= n /\ p4 <= n /\ n <= n
  BY <1>0, <1>1, <1>a
<1>3. /\ Slice(t, 0, p1) \in Digits(LenBytes) /\ Slice(t, p2, p3) \in Digits(LenBytes)
      /\ Slice(t, p4, p5) \in Digits(LenBytes)
  <2>1. 0 + LenBytes <= Len(t) /\ 0 + LenBytes = p1
    BY <1>0, <1>1, <1>2, <1>a
  <2>2. Slice(t, 0, p1) \in Digits(LenBytes)
    BY <1>2, <1>a, <2>1, LengthThere
  <2>3. Slice(t, p2, p3) \in Digits(LenBytes)
    BY <1>1, <1>2, <1>a, LengthThere
  <2>4. Slice(t, p4, p5) \in Digits(LenBytes)
    BY <1>1, <1>2, <1>a, LengthThere
  <2> QED BY <2>2, <2>3, <2>4
<1>4. /\ Len(Slice(t, p1, p2)) = p2 - p1 /\ p2 - p1 \in Nat
      /\ Len(Slice(t, p3, p4)) = p4 - p3 /\ p4 - p3 \in Nat
      /\ Len(Slice(t, p5, n)) = n - p5 /\ n - p5 \in Nat
  <2>1. p2 - p1 \in Nat /\ p4 - p3 \in Nat /\ n - p5 \in Nat
    BY <1>1, <1>2, <1>a
  <2>2. IsSlice(Slice(t, p1, p2), t, p1, p2, 0 .. 255)
    BY <1>1, <1>2, <1>a, SliceIs
  <2>3. IsSlice(Slice(t, p3, p4), t, p3, p4, 0 .. 255)
    BY <1>1, <1>2, <1>a, SliceIs
  <2>4. IsSlice(Slice(t, p5, n), t, p5, n, 0 .. 255)
    BY <1>1, <1>2, <1>a, SliceIs
  <2> QED BY <2>1, <2>2, <2>3, <2>4, Zenon DEF IsSlice
<1>5. /\ Enc!LengthOf(Slice(t, p1, p2)) = Slice(t, 0, p1)
      /\ Enc!LengthOf(Slice(t, p3, p4)) = Slice(t, p2, p3)
      /\ Enc!LengthOf(Slice(t, p5, n)) = Slice(t, p4, p5)
  BY <1>1, <1>3, <1>4, <1>b, BytesBack
<1>6. Then(Slice(t, 0, p1), Slice(t, p1, p2)) = Slice(t, 0, p2)
  <2>1. 0 <= p1 /\ p2 <= Len(t) /\ 0 \in Nat
    BY <1>1, <1>2, <1>a
  <2> QED BY <1>a, <2>1, SlicesJoin
<1>7. Then(Slice(t, 0, p2), Slice(t, p2, p3)) = Slice(t, 0, p3)
  BY <1>1, <1>2, <1>a, SlicesJoin
<1>8. Then(Slice(t, 0, p3), Slice(t, p3, p4)) = Slice(t, 0, p4)
  BY <1>1, <1>2, <1>a, SlicesJoin
<1>9. Then(Slice(t, 0, p4), Slice(t, p4, p5)) = Slice(t, 0, p5)
  BY <1>1, <1>2, <1>a, SlicesJoin
<1>10. Then(Slice(t, 0, p5), Slice(t, p5, n)) = Slice(t, 0, n)
  BY <1>1, <1>2, <1>a, SlicesJoin
<1>11. Slice(t, 0, n) = t
  BY <1>1, <1>a, SliceAll
<1>12. k.ciphertext = Slice(t, p5, n)
  BY <1>1, <1>b
<1> QED BY <1>b, <1>5, <1>6, <1>7, <1>8, <1>9, <1>10, <1>11, <1>12, Written, Zenon

\* The same slices counted from the second length on.
LEMMA SliceOfRest ==
    ASSUME NEW t \in Seq(0 .. 255), NEW n \in Nat, n = Len(t), NEW a \in Nat,
           NEW rest, rest = Slice(t, a, n),
           NEW x \in Nat, NEW y \in Nat, NEW p \in Nat, NEW q \in Nat,
           p = a + x, q = a + y, x <= y, q <= n
    PROVE  Slice(rest, x, y) = Slice(t, p, q)
<1>1. Slice(Slice(t, a, Len(t)), x, y) = Slice(t, a + x, a + y)
  BY SliceOfSlice
<1> QED BY <1>1, Zenon

RestCuts(t, n, rest, r, v, p2, p3, p4, p5) ==
    /\ t \in Seq(0 .. 255) /\ n \in Nat /\ n = Len(t) /\ rest = Slice(t, p2, n)
    /\ v \in Nat /\ p2 \in Nat /\ p3 \in Nat /\ p4 \in Nat /\ p5 \in Nat /\ r \in Nat
    /\ r = n - p2 /\ p3 = p2 + LenBytes /\ p4 = p3 + v /\ p5 = p4 + LenBytes /\ p5 <= n

LEMMA RestIsCut ==
    ASSUME NEW t, NEW n, NEW rest, NEW r, NEW v, NEW p2, NEW p3, NEW p4, NEW p5,
           RestCuts(t, n, rest, r, v, p2, p3, p4, p5)
    PROVE  /\ Slice(rest, 0, LenBytes) = Slice(t, p2, p3)
           /\ Slice(rest, LenBytes, LenBytes + v) = Slice(t, p3, p4)
           /\ Slice(rest, LenBytes + v, 2 * LenBytes + v) = Slice(t, p4, p5)
           /\ Slice(rest, 2 * LenBytes + v, r) = Slice(t, p5, n)
<1>a. /\ t \in Seq(0 .. 255) /\ n \in Nat /\ n = Len(t) /\ rest = Slice(t, p2, n)
      /\ v \in Nat /\ p2 \in Nat /\ p3 \in Nat /\ p4 \in Nat /\ p5 \in Nat /\ r \in Nat
      /\ r = n - p2 /\ p3 = p2 + LenBytes /\ p4 = p3 + v /\ p5 = p4 + LenBytes /\ p5 <= n
  BY Zenon DEF RestCuts
<1>1. LenBytes \in Nat
  BY EncodingAssumption
<1>2. PICK x \in Nat, y \in Nat : x = LenBytes + v /\ y = 2 * LenBytes + v
  BY <1>1, <1>a
<1>3. /\ LenBytes <= x /\ x <= y /\ y <= r /\ 0 <= LenBytes /\ 0 \in Nat
      /\ p2 = p2 + 0 /\ p3 = p2 + LenBytes /\ p4 = p2 + x /\ p5 = p2 + y /\ n = p2 + r
      /\ p3 <= n /\ p4 <= n /\ n <= n
  BY <1>1, <1>2, <1>a
<1>4. Slice(rest, 0, LenBytes) = Slice(t, p2, p3)
  BY <1>1, <1>2, <1>3, <1>a, SliceOfRest
<1>5. Slice(rest, LenBytes, x) = Slice(t, p3, p4)
  BY <1>1, <1>2, <1>3, <1>a, SliceOfRest
<1>6. Slice(rest, x, y) = Slice(t, p4, p5)
  BY <1>1, <1>2, <1>3, <1>a, SliceOfRest
<1>7. Slice(rest, y, r) = Slice(t, p5, n)
  BY <1>1, <1>2, <1>3, <1>a, SliceOfRest
<1> QED BY <1>2, <1>4, <1>5, <1>6, <1>7, Zenon

\* What is read as a key is a key with that text.
LEMMA ReadIsKey ==
    ASSUME text \in Seq(0 .. 255)
    PROVE  /\ Enc!from_base64 # Enc!Panic
           /\ Enc!from_base64.is = "key" => Enc!to_base64(Enc!from_base64) = text
<1> DEFINE m    == Enc!Number(Slice(text, 0, LenBytes))
           rest == Slice(text, LenBytes + m, Len(text))
           v    == Enc!Number(Slice(rest, 0, LenBytes))
           c    == Enc!Number(Slice(rest, LenBytes + v, 2 * LenBytes + v))
           key  == [is |-> "key",
                    master_key_id |-> Slice(text, LenBytes, LenBytes + m),
                    iv            |-> Slice(rest, LenBytes, LenBytes + v),
                    ciphertext    |-> Slice(rest, 2 * LenBytes + v, Len(rest))]
<1>1. LenBytes \in Nat /\ LenBytes # 0 /\ Len(text) \in Nat
  BY EncodingAssumption
<1>2. CASE Len(text) < LenBytes
  <2>1. Enc!from_base64 = Enc!Refused
    BY <1>2, Zenon DEF Enc!from_base64, Enc!Slice, Slice
  <2> QED BY <2>1 DEF Enc!Refused, Enc!Panic
<1>3. CASE ~(Len(text) < LenBytes) /\ ~Enc!has_name(m)
  <2>1. Enc!from_base64 = Enc!Refused
    BY <1>3, Zenon DEF Enc!from_base64, Enc!Slice, Slice
  <2> QED BY <2>1 DEF Enc!Refused, Enc!Panic
<1>4. CASE ~(Len(text) < LenBytes) /\ Enc!has_name(m)
  <2>1. m \in Nat /\ Len(text) >= LenBytes + m + 2 * LenBytes
    <3>1. 0 + LenBytes <= Len(text) /\ 0 + LenBytes = LenBytes
      BY <1>1, <1>4
    <3>2. m \in Nat
      BY <3>1, LengthThere
    <3> QED BY <1>4, <3>2 DEF Enc!has_name
  <2> HIDE DEF m
  <2>2. rest \in Seq(0 .. 255) /\ Len(rest) = Len(text) - (LenBytes + m)
    <3>1. LenBytes + m \in Nat /\ LenBytes + m <= Len(text) /\ Len(text) <= Len(text)
      BY <1>1, <2>1
    <3>2. IsSlice(rest, text, LenBytes + m, Len(text), 0 .. 255)
      BY <1>1, <3>1, SliceIs
    <3> QED BY <3>2, Zenon DEF IsSlice
  <2>3. Len(rest) >= 2 * LenBytes /\ Len(rest) \in Nat /\ Enc!Inside(rest, LenBytes)
    <3>1. Len(rest) >= 2 * LenBytes /\ Len(rest) \in Nat
      BY <1>1, <2>1, <2>2
    <3> QED BY <1>1, <3>1 DEF Enc!Inside
  <2>4. v \in Nat
    <3>1. 0 + LenBytes <= Len(rest) /\ 0 + LenBytes = LenBytes
      BY <1>1, <2>3
    <3> HIDE DEF rest
    <3> QED BY <2>2, <3>1, LengthThere
  <2> HIDE DEF v
  <2>5. CASE Len(rest) < 2 * LenBytes + v
    <3>1. Enc!from_base64 = Enc!Refused
      BY <1>4, <2>3, <2>5, Zenon DEF Enc!from_base64, Enc!Slice, Slice, m, v
    <3> QED BY <3>1 DEF Enc!Refused, Enc!Panic
  <2>6. CASE ~(Len(rest) < 2 * LenBytes + v) /\ Len(rest) # 2 * LenBytes + v + c
    <3>1. Enc!from_base64 = Enc!Refused
      BY <1>4, <2>3, <2>6, Zenon DEF Enc!from_base64, Enc!Slice, Slice, m, v
    <3> QED BY <3>1 DEF Enc!Refused, Enc!Panic
  <2>7. CASE ~(Len(rest) < 2 * LenBytes + v) /\ Len(rest) = 2 * LenBytes + v + c
    <3>1. Enc!from_base64 = key
      BY <1>4, <2>3, <2>7, Zenon DEF Enc!from_base64, Enc!Slice, Slice, m, v
    <3>2. PICK p2 \in Nat, p3 \in Nat, p4 \in Nat, p5 \in Nat :
             /\ p2 = LenBytes + m /\ p3 = p2 + LenBytes /\ p4 = p3 + v /\ p5 = p4 + LenBytes
      BY <1>1, <2>1, <2>4
    <3>3. c \in Nat
      <4>1. LenBytes + v \in Nat /\ (LenBytes + v) + LenBytes <= Len(rest)
            /\ (LenBytes + v) + LenBytes = 2 * LenBytes + v
        BY <1>1, <2>3, <2>4, <2>7
      <4> HIDE DEF rest
      <4> QED BY <2>2, <4>1, LengthThere
    <3> HIDE DEF c
    <3>4. PICK n \in Nat, r \in Nat, t \in Seq(0 .. 255) :
             n = Len(text) /\ r = Len(rest) /\ t = text
      BY <1>1, <2>3, Zenon
    <3>a. n = p5 + c /\ r = n - p2 /\ p5 <= n
      <4>1. r = n - (LenBytes + m) /\ r = 2 * LenBytes + v + c
        BY <2>2, <2>7, <3>4, Zenon
      <4> QED BY <1>1, <2>1, <2>4, <3>2, <3>3, <4>1
    <3>5. /\ Slice(rest, 0, LenBytes) = Slice(t, p2, p3)
          /\ Slice(rest, LenBytes, LenBytes + v) = Slice(t, p3, p4)
          /\ Slice(rest, LenBytes + v, 2 * LenBytes + v) = Slice(t, p4, p5)
          /\ Slice(rest, 2 * LenBytes + v, r) = Slice(t, p5, n)
      <4>1. PICK w, s : w = v /\ w \in Nat /\ s = rest
        BY <2>4, Zenon
      <4>2. n = Len(t) /\ s = Slice(t, p2, n) /\ p4 = p3 + w
        BY <3>2, <3>4, <4>1, Zenon
      <4> HIDE DEF rest
      <4>3. /\ Slice(s, 0, LenBytes) = Slice(t, p2, p3)
            /\ Slice(s, LenBytes, LenBytes + w) = Slice(t, p3, p4)
            /\ Slice(s, LenBytes + w, 2 * LenBytes + w) = Slice(t, p4, p5)
            /\ Slice(s, 2 * LenBytes + w, r) = Slice(t, p5, n)
        <5>1. RestCuts(t, n, s, r, w, p2, p3, p4, p5)
          BY <3>2, <3>4, <3>a, <4>1, <4>2, Zenon DEF RestCuts
        <5> QED BY <5>1, RestIsCut
      <4> QED BY <4>1, <4>3, Zenon
    <3>6. /\ Enc!Number(Slice(t, 0, LenBytes)) = p2 - LenBytes
          /\ Enc!Number(Slice(t, p2, p3)) = p4 - p3
          /\ Enc!Number(Slice(t, p4, p5)) = n - p5
      <4>1. m = p2 - LenBytes /\ v = p4 - p3 /\ c = n - p5
        BY <1>1, <2>1, <2>4, <3>2, <3>3, <3>a
      <4> QED BY <3>4, <3>5, <4>1, Zenon DEF m, v, c
    <3>7. PICK k : k = key
      BY Zenon
    <3>8. /\ k.master_key_id = Slice(t, LenBytes, p2) /\ k.iv = Slice(t, p3, p4)
          /\ k.ciphertext = Slice(t, p5, n) /\ k.is = "key"
      <4>1. /\ key.master_key_id = Slice(text, LenBytes, LenBytes + m)
            /\ key.iv = Slice(rest, LenBytes, LenBytes + v)
            /\ key.ciphertext = Slice(rest, 2 * LenBytes + v, Len(rest)) /\ key.is = "key"
        BY Zenon
      <4> HIDE DEF key, rest
      <4> QED BY <3>2, <3>4, <3>5, <3>7, <4>1, Zenon
    <3>9. LenBytes <= p2 /\ p3 <= p4 /\ n = Len(t)
      BY <1>1, <2>1, <2>4, <3>2, <3>4
    <3>10. Enc!to_base64(k) = t
      <4> HIDE DEF key, rest
      <4>1. PICK p1 \in Nat : p1 = LenBytes
        BY <1>1
      <4>2. /\ p1 <= p2 /\ p3 = p2 + LenBytes /\ p3 <= p4 /\ p5 = p4 + LenBytes /\ p5 <= Len(t)
            /\ Enc!Number(Slice(t, 0, p1)) = p2 - p1
            /\ Enc!Number(Slice(t, p2, p3)) = p4 - p3
            /\ Enc!Number(Slice(t, p4, p5)) = Len(t) - p5
            /\ k.master_key_id = Slice(t, p1, p2) /\ k.iv = Slice(t, p3, p4)
            /\ k.ciphertext = Slice(t, p5, Len(t))
        BY <3>2, <3>a, <3>6, <3>8, <3>9, <4>1, Zenon
      <4>3. p2 \in Nat /\ p3 \in Nat /\ p4 \in Nat /\ p5 \in Nat /\ t \in Seq(0 .. 255)
        BY <3>2, <3>4, Zenon
      <4>4. Cuts(t, k, p1, p2, p3, p4, p5)
        BY <4>1, <4>2, <4>3, Zenon DEF Cuts
      <4> QED BY <4>4, CutsAreWritten
    <3> QED BY <3>1, <3>4, <3>7, <3>8, <3>10 DEF Enc!Panic
  <2> QED BY <2>5, <2>6, <2>7
<1> QED BY <1>2, <1>3, <1>4

\* A text of which these are the cuts is read as the key they cut out.
LEMMA CutsAreRead ==
    ASSUME NEW k, NEW p1, NEW p2, NEW p3, NEW p4, NEW p5, Cuts(text, k, p1, p2, p3, p4, p5)
    PROVE  Enc!from_base64 = [is |-> "key", master_key_id |-> k.master_key_id,
                              iv |-> k.iv, ciphertext |-> k.ciphertext]
<1> DEFINE m    == Enc!Number(Slice(text, 0, LenBytes))
           rest == Slice(text, LenBytes + m, Len(text))
           v    == Enc!Number(Slice(rest, 0, LenBytes))
           c    == Enc!Number(Slice(rest, LenBytes + v, 2 * LenBytes + v))
           key  == [is |-> "key",
                    master_key_id |-> Slice(text, LenBytes, LenBytes + m),
                    iv            |-> Slice(rest, LenBytes, LenBytes + v),
                    ciphertext    |-> Slice(rest, 2 * LenBytes + v, Len(rest))]
<1>0. LenBytes \in Nat
  BY EncodingAssumption
<1>a. /\ text \in Seq(0 .. 255)
      /\ p1 \in Nat /\ p2 \in Nat /\ p3 \in Nat /\ p4 \in Nat /\ p5 \in Nat
      /\ p1 = LenBytes /\ p1 <= p2 /\ p3 = p2 + LenBytes /\ p3 <= p4 /\ p5 = p4 + LenBytes
      /\ p5 <= Len(text)
  BY Zenon DEF Cuts
<1>b. /\ Enc!Number(Slice(text, 0, p1)) = p2 - p1
      /\ Enc!Number(Slice(text, p2, p3)) = p4 - p3
      /\ Enc!Number(Slice(text, p4, p5)) = Len(text) - p5
      /\ k.master_key_id = Slice(text, p1, p2) /\ k.iv = Slice(text, p3, p4)
      /\ k.ciphertext = Slice(text, p5, Len(text))
  BY Zenon DEF Cuts
<1>c. PICK n \in Nat, t \in Seq(0 .. 255) : n = Len(text) /\ t = text
  BY <1>a, LenProperties
<1>1. m = p2 - p1
  BY <1>a, <1>b, Zenon
<1> HIDE DEF m
<1>2. LenBytes + m = p2
  BY <1>0, <1>1, <1>a
<1>3. PICK s : s = rest
  BY Zenon
<1>4. s = Slice(t, p2, n)
  BY <1>2, <1>3, <1>c, Zenon
<1>5. PICK w \in Nat, r \in Nat : w = p4 - p3 /\ r = n - p2
  <2>1. p4 - p3 \in Nat /\ n - p2 \in Nat
    BY <1>0, <1>a, <1>c
  <2> QED BY <2>1, Zenon
<1>6. RestCuts(t, n, s, r, w, p2, p3, p4, p5)
  <2>1. p4 = p3 + w /\ p5 <= n
    BY <1>5, <1>a, <1>c
  <2> QED BY <1>4, <1>5, <1>a, <1>c, <2>1, Zenon DEF RestCuts
<1>7. /\ Slice(s, 0, LenBytes) = Slice(t, p2, p3)
      /\ Slice(s, LenBytes, LenBytes + w) = Slice(t, p3, p4)
      /\ Slice(s, LenBytes + w, 2 * LenBytes + w) = Slice(t, p4, p5)
      /\ Slice(s, 2 * LenBytes + w, r) = Slice(t, p5, n)
  BY <1>6, RestIsCut
<1>8. Len(s) = r
  <2>1. p2 <= n /\ n <= Len(t)
    BY <1>0, <1>a, <1>c
  <2>2. IsSlice(Slice(t, p2, n), t, p2, n, 0 .. 255)
    BY <1>a, <2>1, SliceIs
  <2> QED BY <1>4, <1>5, <2>2, Zenon DEF IsSlice
<1>9. v = w
  BY <1>3, <1>5, <1>7, <1>b, <1>c, Zenon
<1>10. c = n - p5
  BY <1>3, <1>7, <1>9, <1>b, <1>c, Zenon
<1>11. Len(rest) = r
  BY <1>3, <1>8, Zenon
<1>12. /\ Slice(text, LenBytes, LenBytes + m) = k.master_key_id
       /\ Slice(rest, LenBytes, LenBytes + v) = k.iv
       /\ Slice(rest, 2 * LenBytes + v, Len(rest)) = k.ciphertext
  <2>1. Slice(text, LenBytes, LenBytes + m) = k.master_key_id
    BY <1>2, <1>a, <1>b, Zenon
  <2>2. Slice(rest, LenBytes, LenBytes + v) = k.iv
    BY <1>3, <1>7, <1>9, <1>b, <1>c, Zenon
  <2>3. Slice(rest, 2 * LenBytes + v, Len(rest)) = k.ciphertext
    BY <1>3, <1>7, <1>9, <1>11, <1>b, <1>c, Zenon
  <2> QED BY <2>1, <2>2, <2>3
<1> HIDE DEF rest, v, c
<1>13. /\ ~(Len(text) < LenBytes) /\ ~(Len(rest) < 2 * LenBytes + v)
       /\ Len(rest) = 2 * LenBytes + v + c
  <2>1. /\ ~(n < LenBytes) /\ ~(r < 2 * LenBytes + w) /\ r = 2 * LenBytes + w + (n - p5)
    BY ONLY <1>0, <1>5, <1>a, <1>c, LenBytes \in Nat
  <2> QED BY <1>9, <1>10, <1>11, <1>c, <2>1, Zenon
<1>14. Enc!has_name(m)
  <2>1. n >= LenBytes + m + 2 * LenBytes
    BY <1>0, <1>1, <1>a, <1>c
  <2> QED BY <1>c, <2>1, Zenon DEF Enc!has_name
<1>15. Enc!Inside(rest, LenBytes)
  <2>1. LenBytes <= r
    BY <1>0, <1>5, <1>a, <1>c
  <2> QED BY <1>11, <2>1, Zenon DEF Enc!Inside
<1>16. Enc!from_base64 = key
  BY <1>13, <1>14, <1>15, Zenon DEF Enc!from_base64, Enc!Slice, Slice, m, rest, v, c
<1> QED BY <1>12, <1>16, Zenon

\* A text of at most one byte.
LEMMA ShortIsText ==
    ASSUME NEW s \in Enc!Short
    PROVE  s \in Seq(0 .. 255) /\ Len(s) \in 0 .. 1
<1>1. Byte \subseteq 0 .. 255
  BY EncodingAssumption
<1>2. CASE s = <<>>
  BY <1>2
<1>3. CASE \E b \in Byte : s = <<b>>
  <2>1. PICK b \in 0 .. 255 : s = <<b>>
    BY <1>1, <1>3
  <2>2. <<b>> \in Seq(0 .. 255) /\ Len(<<b>>) = 1
    OBVIOUS
  <2> QED BY <2>1, <2>2
<1> QED BY <1>2, <1>3 DEF Enc!Short

\* A key's own text is read as that key.
LEMMA KeyIsRead ==
    ASSUME text \in Seq(0 .. 255), NEW k \in Enc!Keys, Enc!to_base64(k) = text
    PROVE  Enc!from_base64 = k
<1>0. LenBytes \in Nat
  BY EncodingAssumption
<1>1. PICK a \in Enc!Short, v \in Enc!Short, c \in Enc!Short :
         k = [is |-> "key", master_key_id |-> a, iv |-> v, ciphertext |-> c]
  <2>1. /\ k.master_key_id \in Enc!Short /\ k.iv \in Enc!Short /\ k.ciphertext \in Enc!Short
        /\ k = [is |-> "key", master_key_id |-> k.master_key_id, iv |-> k.iv,
                ciphertext |-> k.ciphertext]
    BY DEF Enc!Keys
  <2> QED BY <2>1, Zenon
<1>2. k.master_key_id = a /\ k.iv = v /\ k.ciphertext = c
  BY <1>1
<1>3. /\ a \in Seq(0 .. 255) /\ Len(a) \in 0 .. 1 /\ v \in Seq(0 .. 255) /\ Len(v) \in 0 .. 1
      /\ c \in Seq(0 .. 255) /\ Len(c) \in 0 .. 1
  BY ShortIsText
<1>4. PICK la, lv, lc :
         /\ la = Enc!LengthOf(a) /\ lv = Enc!LengthOf(v) /\ lc = Enc!LengthOf(c)
         /\ la \in Digits(LenBytes) /\ lv \in Digits(LenBytes) /\ lc \in Digits(LenBytes)
         /\ Enc!Number(la) = Len(a) /\ Enc!Number(lv) = Len(v) /\ Enc!Number(lc) = Len(c)
  BY <1>3, ShortBack, Zenon
<1>5. /\ la \in Seq(0 .. 255) /\ Len(la) = LenBytes /\ lv \in Seq(0 .. 255) /\ Len(lv) = LenBytes
      /\ lc \in Seq(0 .. 255) /\ Len(lc) = LenBytes
  <2>1. \A l \in Digits(LenBytes) : l \in Seq(0 .. 255) /\ Len(l) = LenBytes
    <3>1. TAKE l \in Digits(LenBytes)
    <3>2. l \in [1 .. LenBytes -> 0 .. 255]
      BY Zenon DEF Digits
    <3> QED BY <1>0, <3>2
  <2> QED BY <1>4, <2>1, Zenon
<1>6. PICK p1 \in Nat, p2 \in Nat, p3 \in Nat, p4 \in Nat, p5 \in Nat, n \in Nat :
         /\ p1 = LenBytes /\ p2 = p1 + Len(a) /\ p3 = p2 + LenBytes /\ p4 = p3 + Len(v)
         /\ p5 = p4 + LenBytes /\ n = p5 + Len(c)
  <2>1. Len(a) \in Nat /\ Len(v) \in Nat /\ Len(c) \in Nat
    BY <1>3
  <2>2. \A i, j \in Nat : i + j \in Nat
    OBVIOUS
  <2> QED BY <1>0, <2>1, <2>2, Zenon
<1>7. PICK t : t = text
  BY Zenon
<1>8. SixParts(t, la, a, lv, v, lc, c, p1, p2, p3, p4, p5, n)
  <2>1. t = Then(Then(Then(Then(Then(la, a), lv), v), lc), c)
    BY <1>2, <1>4, <1>7, Written, Zenon
  <2> QED BY <1>3, <1>5, <1>6, <2>1, Zenon DEF SixParts
<1>9. /\ n = Len(t)
      /\ Slice(t, 0, p1) = la /\ Slice(t, p1, p2) = a
      /\ Slice(t, p2, p3) = lv /\ Slice(t, p3, p4) = v
      /\ Slice(t, p4, p5) = lc /\ Slice(t, p5, n) = c
  BY <1>8, PartsFound
<1>10. /\ p1 <= p2 /\ p3 <= p4 /\ p5 <= n
       /\ Len(a) = p2 - p1 /\ Len(v) = p4 - p3 /\ Len(c) = n - p5
  BY <1>0, <1>3, <1>6
<1>11. Cuts(t, k, p1, p2, p3, p4, p5)
  BY <1>2, <1>4, <1>6, <1>7, <1>9, <1>10, Zenon DEF Cuts
<1>12. Enc!from_base64 = [is |-> "key", master_key_id |-> k.master_key_id,
                          iv |-> k.iv, ciphertext |-> k.ciphertext]
  BY <1>7, <1>11, CutsAreRead, Zenon
<1> QED BY <1>1, <1>2, <1>12, Zenon

\* A step of the composition reads one byte more, makes the request, or
\* leaves both alone.
LEMMA KeyStep == [DPNext]_dpVars => [Enc!KeyNext]_Enc!dataKeyVars
BY DEF DPNext, Still, dpVars, keyVars, Enc!dataKeyVars

LEMMA CsrStep == [DPNext]_dpVars => [Enc!CsrNext]_Enc!csrVars
BY DEF DPNext, Still, dpVars, csrVars, Enc!csrVars

\* Any bytes at all, and a domain whose length takes at most two bytes.
EncInv == text \in Seq(Byte) /\ domain \in 0 .. MaxLength

LEMMA EncodedReadsBack == EncInv => EncodedIsRead
<1> SUFFICES ASSUME EncInv PROVE EncodedIsRead
  OBVIOUS
<1>1. text \in Seq(0 .. 255)
  <2>1. Byte \subseteq 0 .. 255 /\ text \in Seq(Byte)
    BY EncodingAssumption DEF EncInv
  <2>2. \A S, T : S \subseteq T => Seq(S) \subseteq Seq(T)
    BY SeqMonotonic
  <2>3. Seq(Byte) \subseteq Seq(0 .. 255)
    BY <2>1, <2>2, Zenon
  <2> QED BY <2>1, <2>3, Zenon
<1>2. Enc!KeysReadBack
  <2>1. /\ Enc!from_base64 # Enc!Panic
        /\ Enc!from_base64.is = "key" => Enc!to_base64(Enc!from_base64) = text
    BY <1>1, ReadIsKey
  <2>2. \A key \in Enc!Keys : Enc!to_base64(key) = text => Enc!from_base64 = key
    <3>1. TAKE key \in Enc!Keys
    <3>2. HAVE Enc!to_base64(key) = text
    <3> QED BY <1>1, <3>2, KeyIsRead
  <2> QED BY <2>1, <2>2 DEF Enc!KeysReadBack
<1>3. Enc!CsrReads
  <2>1. MaxLength \in 0 .. 256 * 255 /\ domain \in 0 .. MaxLength
    BY EncodingAssumption DEF EncInv
  <2>2. domain \in Nat /\ domain <= 256 * 255
    <3>1. ASSUME NEW b \in Nat, NEW m \in 0 .. b, NEW k \in 0 .. m PROVE k \in Nat /\ k <= b
      OBVIOUS
    <3>2. 256 * 255 \in Nat
      OBVIOUS
    <3> QED BY <2>1, <3>1, <3>2, Zenon
  <2>3. PICK d \in Nat : d = domain /\ d <= 256 * 255
    BY <2>2, Zenon
  <2> QED BY <2>3, CsrIsRead, Zenon DEF Enc!CsrReads
<1> QED BY <1>2, <1>3 DEF EncodedIsRead

\* Whatever bytes are read and however long the domain: what is read as a
\* key is a key with that text, a key's own text is read as that key, and a
\* CA finds the domain of a signing request where it looks for it.
THEOREM EncodedAsRead == DPSpec => []EncodedIsRead
<1>1. Enc!KeyInit /\ Enc!CsrInit => EncInv
  BY EncodingAssumption DEF Enc!KeyInit, Enc!CsrInit, EncInv
<1>2. EncInv /\ [Enc!KeyNext]_Enc!dataKeyVars /\ [Enc!CsrNext]_Enc!csrVars => EncInv'
  <2> SUFFICES ASSUME EncInv, [Enc!KeyNext]_Enc!dataKeyVars, [Enc!CsrNext]_Enc!csrVars
               PROVE  EncInv'
    OBVIOUS
  <2>1. text' \in Seq(Byte)
    BY DEF EncInv, Enc!KeyNext, Enc!dataKeyVars
  <2>2. domain' \in 0 .. MaxLength
    BY EncodingAssumption DEF EncInv, Enc!CsrNext, Enc!csrVars
  <2> QED BY <2>1, <2>2 DEF EncInv
<1> QED BY PartsStart, KeyStep, CsrStep, <1>1, <1>2, EncodedReadsBack, PTL DEF DPSpec
=============================================================================
