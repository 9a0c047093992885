-------------------------------- MODULE Cni ---------------------------------
(* The network of a node's microVMs (network crate, cni/mod.rs, tap.rs,    *)
(* bridge.rs): the bridge, and per microVM an address from Ipam and a TAP  *)
(* device.  Calls of several tasks overlap between their awaits; Ipam's    *)
(* own operations are atomic.                                              *)
EXTENDS Ipam

CONSTANTS Clients,       \* concurrent calls
          Taps,          \* TAP device names
          Prefixes       \* prefix lengths the agent may be configured with

VARIABLES bridge,        \* bring-up: "none", "created", "addressed", "up", "ready", "refused"
          devices,       \* TAP devices the kernel has
          attached_taps,
          cni            \* per client: the call being executed

cniVars == <<bridge, devices, attached_taps, cni>>

Idle == [do |-> "none"]

CniTypeOK ==
    /\ bridge \in {"none", "created", "addressed", "up", "ready", "refused"}
    /\ devices \subseteq Taps /\ attached_taps \subseteq Taps
    /\ \A c \in Clients : cni[c].do \in {"none", "create", "configure", "track", "release", "forget", "drain"}

CniInit ==
    /\ Init
    /\ bridge = "none" /\ devices = {} /\ attached_taps = {}
    /\ cni = [c \in Clients |-> Idle]

Goes(c, t) == cni' = [cni EXCEPT ![c] = t]

-----------------------------------------------------------------------------
validate_cidr(prefix) == prefix \in 24..30

\* CniNetwork::new: the CIDR and the bridge's name are checked, the bridge
\* is created unless there is one ...
new(prefix) ==
    /\ bridge = "none"
    /\ bridge' = IF validate_cidr(prefix) THEN "created" ELSE "refused"
    /\ UNCHANGED <<vars, devices, attached_taps, cni>>

Brought(from, to) ==
    /\ bridge = from
    /\ bridge' \in {to, "refused"}   \* netlink and /proc may refuse
    /\ UNCHANGED <<vars, devices, attached_taps, cni>>

\* ... its addresses are replaced by the gateway's, it is set up, and the
\* kernel forwards.
set_ip  == Brought("created", "addressed")
set_up  == Brought("addressed", "up")
enable_ip_forwarding == Brought("up", "ready")

-----------------------------------------------------------------------------
\* 0.0.0.0, one of the addresses outside the subnet
Unspecified == SubnetSize + 1

\* setup: a valid configuration gets the address it asks for, or the next
\* free one.
setup(c, app, tap, ip) ==
    /\ bridge = "ready" /\ cni[c] = Idle
    /\ IF ip = Unspecified THEN Allocate(app) ELSE AllocateSpecific(app, ip)
    /\ Goes(c, IF reply' = "ok" THEN [do |-> "create", app |-> app, tap |-> tap] ELSE Idle)
    /\ UNCHANGED <<bridge, devices, attached_taps>>

\* TapDevice::create: the name is busy while another call has the device
\* open.  An error returns, here and below, with the address still held.
CreateTap(c) ==
    LET tap == cni[c].tap IN
    /\ cni[c].do = "create"
    /\ \/ /\ tap \notin devices
          /\ devices' = devices \cup {tap}
          /\ Goes(c, [cni[c] EXCEPT !.do = "configure"])
       \/ Goes(c, Idle) /\ UNCHANGED devices
    /\ UNCHANGED <<vars, bridge, attached_taps>>

\* set_owner, set_mtu, attach_to_bridge, set_up: the first error drops the
\* handle, and the device goes with it.
ConfigureTap(c) ==
    /\ cni[c].do = "configure"
    /\ \/ Goes(c, [cni[c] EXCEPT !.do = "track"]) /\ UNCHANGED devices
       \/ Goes(c, Idle) /\ devices' = devices \ {cni[c].tap}
    /\ UNCHANGED <<vars, bridge, attached_taps>>

\* The device is tracked, QoS and the firewall do nothing in fallback mode,
\* and the handle is dropped on return: closing it removes the device.
Track(c) ==
    /\ cni[c].do = "track"
    /\ attached_taps' = attached_taps \cup {cni[c].tap}
    /\ devices' = devices \ {cni[c].tap}
    /\ Goes(c, Idle)
    /\ UNCHANGED <<vars, bridge>>

-----------------------------------------------------------------------------
\* teardown: tc, iptables and XDP are cleaned up as far as there is
\* something (nothing in this build adds rules that name a device) ...
teardown(c, app, tap) ==
    /\ bridge = "ready" /\ cni[c] = Idle
    /\ Goes(c, [do |-> "release", app |-> app, tap |-> tap])
    /\ UNCHANGED <<vars, bridge, devices, attached_taps>>

\* ... the address is released; TapDevice::delete does nothing ...
ReleaseAddress(c) ==
    /\ cni[c].do = "release"
    /\ Release(cni[c].app)
    /\ Goes(c, [cni[c] EXCEPT !.do = "forget"])
    /\ UNCHANGED <<bridge, devices, attached_taps>>

\* ... and the device is no longer tracked.
Untrack(c) ==
    /\ cni[c].do = "forget"
    /\ attached_taps' = attached_taps \ {cni[c].tap}
    /\ Goes(c, Idle)
    /\ UNCHANGED <<vars, bridge, devices>>

\* teardown_all: the list is taken, and cleaned up device by device; the
\* addresses stay held.
teardown_all(c) ==
    /\ bridge = "ready" /\ cni[c] = Idle
    /\ attached_taps' = {}
    /\ Goes(c, [do |-> "drain", taps |-> attached_taps])
    /\ UNCHANGED <<vars, bridge, devices>>

Drain(c) ==
    /\ cni[c].do = "drain"
    /\ Goes(c, IF cni[c].taps = {} THEN Idle
               ELSE [cni[c] EXCEPT !.taps = @ \ {CHOOSE t \in @ : TRUE}])
    /\ UNCHANGED <<vars, bridge, devices, attached_taps>>

CniNext ==
    \/ \E prefix \in Prefixes : new(prefix)
    \/ set_ip \/ set_up \/ enable_ip_forwarding
    \/ \E c \in Clients :
          \/ \E app \in Apps, tap \in Taps, ip \in 0 .. Unspecified : setup(c, app, tap, ip)
          \/ CreateTap(c) \/ ConfigureTap(c) \/ Track(c)
          \/ \E app \in Apps, tap \in Taps : teardown(c, app, tap)
          \/ ReleaseAddress(c) \/ Untrack(c)
          \/ teardown_all(c) \/ Drain(c)

CniSpec == CniInit /\ [][CniNext]_<<vars, cniVars>>
=============================================================================
