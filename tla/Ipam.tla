-------------------------------- MODULE Ipam --------------------------------
(***************************************************************************)
(* The in-memory address manager of a node (shellwego-network, ipam.rs).   *)
(*                                                                         *)
(* An address is its offset in the node's subnet: 0 is the network         *)
(* address, 1 the gateway, SubnetSize - 1 the broadcast address.  The      *)
(* HashMap<Uuid, Ipv4Addr> behind the mutex is the partial function        *)
(* `allocated`; every operation holds the mutex from its first read to its *)
(* last write, so each is one step.                                        *)
(***************************************************************************)
EXTENDS Integers

CONSTANTS Apps,         \* application ids that call the manager
          SubnetSize    \* 2^(32 - prefix)

\* validate_cidr admits prefixes up to /30, i.e. four addresses or more.
ASSUME SubnetAssumption == SubnetSize \in Nat /\ SubnetSize >= 4

VARIABLES allocated,    \* partial function: application -> address
          reply         \* what the latest call returned to its caller

vars == <<allocated, reply>>

Subnet   == 0 .. (SubnetSize - 1)
gateway  == 1
Reserved == {0, gateway, SubnetSize - 1}
Usable   == Subnet \ Reserved

InUse == {allocated[a] : a \in DOMAIN allocated}
Free  == Usable \ InUse

\* Mutant: the scan forgets to skip the addresses already in the map.
FirstFreeIgnoringMap == CHOOSE ip \in Usable : \A other \in Usable : ip <= other

\* The first address the scan of the subnet stops at.
FirstFree == CHOOSE ip \in Free : \A other \in Free : ip <= other

Assign(app, ip) ==
    allocated' = [a \in DOMAIN allocated \cup {app} |->
                     IF a = app THEN ip ELSE allocated[a]]

Replies == {"none", "ok", "exhausted", "not_in_subnet", "reserved", "in_use"}

-----------------------------------------------------------------------------
Init ==
    /\ allocated = [a \in {} |-> 0]
    /\ reply = "none"

\* allocate: an application that already has an address gets the same one.
Allocate(app) ==
    \/ /\ app \in DOMAIN allocated
       /\ reply' = "ok"
       /\ UNCHANGED allocated
    \/ /\ app \notin DOMAIN allocated
       /\ Free # {}
       /\ Assign(app, FirstFree)
       /\ reply' = "ok"
    \/ /\ app \notin DOMAIN allocated
       /\ Free = {}
       /\ reply' = "exhausted"
       /\ UNCHANGED allocated

\* Mutant: the check against the reserved addresses is missing.
AllocateSpecificReserved(app, ip) ==
    /\ ip \in Subnet
    /\ ip \notin InUse
    /\ Assign(app, ip)
    /\ reply' = "ok"

\* allocate_specific: the address the application held before, if any, is
\* overwritten in the map and so becomes free.
AllocateSpecific(app, ip) ==
    \/ /\ ip \notin Subnet
       /\ reply' = "not_in_subnet"
       /\ UNCHANGED allocated
    \/ /\ ip \in Subnet \cap Reserved
       /\ reply' = "reserved"
       /\ UNCHANGED allocated
    \/ /\ ip \in Usable
       /\ ip \in InUse
       /\ reply' = "in_use"
       /\ UNCHANGED allocated
    \/ /\ ip \in Usable
       /\ ip \notin InUse
       /\ Assign(app, ip)
       /\ reply' = "ok"

\* release: removing an application without an address is a no-op.
Release(app) ==
    /\ allocated' = [a \in DOMAIN allocated \ {app} |-> allocated[a]]
    /\ reply' = "ok"

Next ==
    \E app \in Apps :
        \/ Allocate(app)
        \/ \E ip \in 0 .. SubnetSize : AllocateSpecific(app, ip)
        \/ Release(app)

Spec == Init /\ [][Next]_vars

-----------------------------------------------------------------------------
\* Every entry of the map belongs to an application and is an address of the
\* subnet that is not the network, gateway or broadcast address.
TypeOK ==
    /\ DOMAIN allocated \subseteq Apps
    /\ allocated \in [DOMAIN allocated -> Usable]
    /\ reply \in Replies

\* No two applications ever hold the same address, whatever mix of scanned,
\* requested, moved and released addresses led here (ipam.rs, "Tracks
\* allocated IPs within a subnet to prevent collisions").
UniqueAddresses ==
    \A a, b \in DOMAIN allocated : a # b => allocated[a] # allocated[b]

\* The manager implements the abstract address pool.
Pool == INSTANCE AddressPool WITH Leasable <- Usable, lease <- allocated
ImplementsPool == Pool!Spec
=============================================================================
