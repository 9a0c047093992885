---------------------------- MODULE MCDataPlane ----------------------------
(* The services of a node and the edge's proxy.  They keep their state     *)
(* apart, except that the network manager calls the address manager, so    *)
(* one run explores each by itself: `focus` says which one moves.  Two     *)
(* calls at once everywhere, and for each service the few names that let   *)
(* two calls meet on one of them.                                          *)
(*                                                                         *)
(* Addresses: a /29 (five usable ones) shared by six applications, so that *)
(* the subnet can be exhausted and addresses must be reused; two of them   *)
(* when the network manager makes the calls.                               *)
EXTENDS Ipam, TLC

CONSTANTS Clients, NetApps, Taps, Prefixes,                     \* network
          Images, Containers, Keeps,                            \* image cache, storage
          VolumeIds, ttl, MaxSnaps, MaxChanges, MaxNow,         \* volumes
          Addresses, MaxRules, Rates, MaxHandles,               \* firewall, QoS
          batch_size, capacity, MaxEntries,                     \* logs
          Names, Spans, max_queue_size,                         \* metrics, traces
          MaxVersion, MaxStray,                                 \* WASM
          max_idle, MaxAge, Conns, MaxFrames,                   \* proxy
          Stored, SnapNames, Properties, Contents,              \* objects
          LenBytes, Byte, MaxText,                              \* keys
          Domains, Lasting, MaxPuts, MaxLength                  \* certificates

ASSUME DataPlaneAssumption ==
    /\ NetApps \subseteq Apps
    /\ Keeps \subseteq Nat /\ ttl \in Nat /\ batch_size \in Nat \ {0}

\* A domain name is no longer than two bytes can say.
ASSUME EncodingAssumption ==
    LenBytes \in Nat \ {0} /\ Byte \subseteq 0 .. 255 /\ MaxLength \in 0 .. 256 * 255

\* All the domains but those in Lasting have the same stem.
Stem == [d \in Domains |-> IF d \in Lasting THEN "own" ELSE "shared"]

VARIABLES focus,
          bridge, devices, attached_taps, cni,
          manifest_index, image_files, datasets, based, containers, temps,
          token_cache, lock, pull, excused,
          zfs, base, origin, storing,
          volumes, version, until, entries, volume_task, ticks,
          blocked_ips, rate_limits, rules, limits, ranges, attached, chains, wall, disturbed,
          shapers, next_handle,
          buffer, ingested, logging, delivered, lost, rx,
          registry, tables, metering, spans, queue, exported, provider,
          wasm_version, module_cache, artifacts, load, stray,
          idle, active_count, metrics, exchange, opened, session, frames,
          objects, tags, taken, request, text, certificates, calls, puts, written, mixed,
          domain

Net == INSTANCE Cni WITH Apps <- NetApps
Img == INSTANCE ImageCache WITH metadata <- image_files
Sto == INSTANCE Storage WITH Apps <- NetApps
Vol == INSTANCE VolumeStore WITH Volumes <- VolumeIds
Fw  == INSTANCE Firewall
Obs == INSTANCE Observability
Wa  == INSTANCE Wasm WITH version <- wasm_version
Px  == INSTANCE Proxy
Obj == INSTANCE ObjectStore WITH Volumes <- Stored
Enc == INSTANCE Encodings
Cf  == INSTANCE CertFiles WITH entries <- certificates

netVars       == <<bridge, devices, attached_taps, cni>>
imageVars     == <<manifest_index, image_files, datasets, based, containers, temps,
                   token_cache, lock, pull, excused>>
storageVars   == <<zfs, base, origin, storing>>
volumeVars    == <<volumes, version, until, entries, volume_task, ticks>>
firewallVars  == <<blocked_ips, rate_limits, rules, limits, ranges, attached, chains, wall,
                   disturbed>>
qosVars       == <<shapers, next_handle>>
logVars       == <<buffer, ingested, logging, delivered, lost, rx>>
telemetryVars == <<registry, tables, metering, spans, queue, exported, provider>>
wasmVars      == <<wasm_version, module_cache, artifacts, load, stray>>
proxyVars     == <<idle, active_count, metrics, exchange, opened>>
sessionVars   == <<session, frames>>
objectVars    == <<objects, tags, taken, request>>
keyVars       == <<text>>
certFileVars  == <<certificates, calls, puts, written, mixed>>
csrVars       == <<domain>>

Parts == {"ipam", "cni", "images", "storage", "volumes", "firewall", "qos",
          "logs", "telemetry", "wasm", "proxy", "websocket", "objects",
          "keys", "certfiles", "csr"}

DPInit ==
    /\ focus \in Parts
    /\ Net!CniInit /\ Img!Init /\ Sto!Init /\ Vol!Init /\ Fw!Init /\ Fw!QosInit
    /\ Obs!Init /\ Obs!TelemetryInit /\ Wa!Init /\ Px!Init /\ Px!SessionInit
    /\ Obj!Init /\ Enc!KeyInit /\ Cf!Init /\ Enc!CsrInit

\* The parts that are not in focus rest.
Still(parts, v) == focus \notin parts => UNCHANGED v

DPNext ==
    /\ UNCHANGED focus
    /\ \/ focus = "ipam" /\ Next
       \/ focus = "cni" /\ Net!CniNext
       \/ focus = "images" /\ Img!Next
       \/ focus = "storage" /\ Sto!Next
       \/ focus = "volumes" /\ Vol!Next
       \/ focus = "firewall" /\ Fw!Next
       \/ focus = "qos" /\ Fw!QosNext
       \/ focus = "logs" /\ Obs!Next
       \/ focus = "telemetry" /\ Obs!TelemetryNext
       \/ focus = "wasm" /\ Wa!Next
       \/ focus = "proxy" /\ Px!Next
       \/ focus = "websocket" /\ Px!SessionNext
       \/ focus = "objects" /\ Obj!Next
       \/ focus = "keys" /\ Enc!KeyNext
       \/ focus = "certfiles" /\ Cf!Next
       \/ focus = "csr" /\ Enc!CsrNext
    /\ Still({"ipam", "cni"}, vars) /\ Still({"cni"}, netVars)
    /\ Still({"images"}, imageVars) /\ Still({"storage"}, storageVars)
    /\ Still({"volumes"}, volumeVars)
    /\ Still({"firewall"}, firewallVars) /\ Still({"qos"}, qosVars)
    /\ Still({"logs"}, logVars) /\ Still({"telemetry"}, telemetryVars)
    /\ Still({"wasm"}, wasmVars) /\ Still({"proxy"}, proxyVars)
    /\ Still({"websocket"}, sessionVars) /\ Still({"objects"}, objectVars)
    /\ Still({"keys"}, keyVars) /\ Still({"certfiles"}, certFileVars) /\ Still({"csr"}, csrVars)

dpVars == <<focus, vars, netVars, imageVars, storageVars, volumeVars,
            firewallVars, qosVars, logVars, telemetryVars, wasmVars, proxyVars,
            sessionVars, objectVars, keyVars, certFileVars, csrVars>>

DPSpec == DPInit /\ [][DPNext]_dpVars

Symmetry == Permutations(Clients)

\* Types of all the parts.
DPTypeOK ==
    /\ TypeOK /\ Net!CniTypeOK /\ Img!ImagesTypeOK /\ Sto!StorageTypeOK /\ Vol!VolumesTypeOK
    /\ Fw!FirewallTypeOK /\ Fw!QosTypeOK /\ Obs!LogsTypeOK
    /\ Obs!TelemetryTypeOK /\ Wa!WasmTypeOK /\ Px!ProxyTypeOK /\ Px!SessionTypeOK
    /\ Obj!ObjectsTypeOK /\ Cf!CertFilesTypeOK

\* Image cache: an image that the index lists has its dataset, unless calls
\* on it overlapped.
IndexBacked == Img!IndexBacked

\* Storage: no deployment, promotion or cleanup of an app loses a cached
\* image.
ImagesSurvive == [][Sto!ImageStays]_storageVars

\* What was stored is what is read: a cached answer describes the volume as
\* it was less than ttl ago, a snapshot in S3 holds what its volume held when
\* it was taken, and at rest the file of a certificate is the one last put,
\* unless puts of it overlapped or the last write failed.
StoredIsRead == Vol!AnswersFresh /\ Obj!SnapshotsKept /\ Cf!FilesWhole

\* What was written byte by byte is read back: the text of a volume's key as
\* that key, the domain of a signing request where the CA looks for it.
EncodedIsRead == Enc!KeysReadBack /\ Enc!CsrReads

\* Firewall: an address on the blocklist is dropped in both chains.
BlockedIsDropped == Fw!BlockedIsDropped

\* What is handed on is right: every log line is waiting, being sent,
\* delivered once or lost with a push that failed, every trace is sampled as
\* a whole, the WASM runtime's modules are at least as new as the file was,
\* the proxy's pool gives a connection no other request has, and WebSocket
\* frames arrive in order and without gaps.
HandedOnRight ==
    /\ Obs!LinesAccounted /\ Obs!TracesWhole
    /\ Wa!LoadedCurrent /\ Px!SenderExclusive /\ Px!FramesInOrder
=============================================================================
