---------------------------- MODULE AddressPool ----------------------------
(***************************************************************************)
(* What a node's address management promises its callers: an application   *)
(* leases at most one address, no two applications lease the same one, and *)
(* the addresses the bridge itself needs are never leased.  Which free     *)
(* address a lease gets is left open.                                      *)
(***************************************************************************)
CONSTANTS Apps,       \* applications of the node
          Leasable    \* the addresses that may be leased

VARIABLE lease        \* partial function: application -> address

Init == lease = [a \in {} |-> 0]

\* app obtains (or moves to) an address nobody leases.
Grant(app, ip) ==
    /\ \A a \in DOMAIN lease : lease[a] # ip
    /\ lease' = [a \in DOMAIN lease \cup {app} |->
                    IF a = app THEN ip ELSE lease[a]]

\* app gives its address back.
Revoke(app) ==
    /\ app \in DOMAIN lease
    /\ lease' = [a \in DOMAIN lease \ {app} |-> lease[a]]

Next ==
    \/ \E app \in Apps, ip \in Leasable : Grant(app, ip)
    \/ \E app \in Apps : Revoke(app)

Spec == Init /\ [][Next]_lease
=============================================================================
