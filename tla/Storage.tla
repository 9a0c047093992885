------------------------------ MODULE Storage ------------------------------
(* The ZFS manager (zfs/mod.rs over zfs/cli.rs): the storage of an app is  *)
(* a tree of datasets whose rootfs is a promoted clone of an image's @base *)
(* snapshot.  Every command is a step, and the first one that fails ends   *)
(* its method.                                                             *)
(*                                                                         *)
(* Of ZFS itself the model has what the manager relies on: a dataset needs *)
(* its parent unless it is created with -p, a clone depends on the holder  *)
(* of its snapshot, promote turns that dependency around, and destroy -r   *)
(* is refused while a dataset that would stay depends on one that would    *)
(* go.                                                                     *)
CONSTANTS Clients, Apps, Images

VARIABLES zfs,          \* the datasets, as <<kind, name>>
          base,         \* image -> the dataset that holds its @base snapshot
          origin,       \* clone -> the image of its snapshot
          storing       \* per client: the method being executed

storageVars == <<zfs, base, origin, storing>>

full_path(a) == <<"app", a>>
Tree(a)      == {<<k, a>> : k \in {"app", "rootfs", "data", ".snapshots"}}
Below(d)     == IF d[1] = "app" THEN Tree(d[2]) ELSE {d}

NoMethod == [do |-> "none"]

StorageTypeOK ==
    /\ DOMAIN base \subseteq Images /\ \A i \in DOMAIN base : base[i] \in zfs
    /\ DOMAIN origin \subseteq zfs /\ \A d \in DOMAIN origin : origin[d] \in DOMAIN base

\* ZfsManager::new creates the base dataset only; the datasets between it
\* and the apps, the volumes and the images are the administrator's.
Init ==
    /\ zfs = {} /\ base = [i \in {} |-> i] /\ origin = [d \in {} |-> d]
    /\ storing = [c \in Clients |-> NoMethod]

Admin ==
    /\ \/ \E k \in {"apps", "volumes", "cache"} :
            zfs' = zfs \cup {<<"parent", k>>} /\ UNCHANGED base
       \/ \E i \in Images :
            /\ <<"image", i>> \notin zfs /\ <<"parent", "images">> \in zfs
            /\ zfs' = zfs \cup {<<"image", i>>}
            /\ base' \in {base, [j \in DOMAIN base \cup {i} |->
                                   IF j = i THEN <<"image", i>> ELSE base[j]]}
    /\ UNCHANGED <<origin, storing>>

Only(f, S) == [x \in DOMAIN f \cap S |-> f[x]]

Goes(c, step) == storing' = [storing EXCEPT ![c].do = step]
Ends(c)       == storing' = [storing EXCEPT ![c] = NoMethod]
Doing(c, s)   == storing[c].do = s
ZfsSame       == UNCHANGED <<zfs, base, origin>>

\* The commands of ZfsCli, each with the condition ZFS has for it.
dataset_exists(d) == d \in zfs

create_dataset(d, parent) ==
    /\ d \notin zfs /\ parent \in zfs
    /\ zfs' = zfs \cup {d} /\ UNCHANGED <<base, origin>>

create_with_parents(a, kind) ==
    /\ <<kind, a>> \notin zfs
    /\ <<"parent", "apps">> \in zfs
    /\ zfs' = zfs \cup {full_path(a), <<kind, a>>} /\ UNCHANGED <<base, origin>>

\* Mutant: destroy -R takes the clones with it.
destroy_with_clones(d) ==
    LET lost == Below(d) \cap zfs
        gone == lost \cup {x \in DOMAIN origin : base[origin[x]] \in lost}
    IN /\ zfs' = zfs \ gone
       /\ base' = Only(base, {i \in Images : i \in DOMAIN base => base[i] \notin gone})
       /\ origin' = Only(origin, zfs \ gone)

destroy_dataset(d) ==
    LET gone == Below(d) \cap zfs IN
    /\ \A x \in DOMAIN origin \ gone : base[origin[x]] \notin gone
    /\ zfs' = zfs \ gone
    /\ base' = Only(base, {i \in Images : i \in DOMAIN base => base[i] \notin gone})
    /\ origin' = Only(origin, zfs \ gone)

clone_snapshot(i, d, parent) ==
    /\ i \in DOMAIN base /\ base[i] = <<"image", i>>
    /\ d \notin zfs /\ parent \in zfs
    /\ zfs' = zfs \cup {d}
    /\ origin' = [x \in DOMAIN origin \cup {d} |-> IF x = d THEN i ELSE origin[x]]
    /\ UNCHANGED base

\* The snapshot goes over to the clone, and its former holder depends on it.
promote(d) ==
    /\ d \in DOMAIN origin
    /\ LET i == origin[d] IN
         /\ base' = [base EXCEPT ![i] = d]
         /\ origin' = [x \in (DOMAIN origin \ {d}) \cup {base[i]} |->
                         IF x = base[i] THEN i ELSE origin[x]]
    /\ UNCHANGED zfs

set_property(d) == d \in zfs /\ ZfsSame
snapshot(d, i) ==
    /\ d \in zfs /\ i \notin DOMAIN base
    /\ base' = [j \in DOMAIN base \cup {i} |-> IF j = i THEN d ELSE base[j]]
    /\ UNCHANGED <<zfs, origin>>

\* A command that succeeds leads to the next step; any command may fail.
Run(c, command, next) ==
    \/ command /\ Goes(c, next)
    \/ Ends(c) /\ ZfsSame

\* prepare_rootfs: the dataset of cached images ...
PrepareRootfs(c) ==
    /\ Doing(c, "none")
    /\ \E a \in Apps, i \in Images :
         storing' = [storing EXCEPT ![c] = [do |-> "cache", app |-> a, image |-> i]]
    /\ ZfsSame

EnsureCache(c) ==
    /\ Doing(c, "cache")
    /\ IF dataset_exists(<<"parent", "images">>) THEN Goes(c, "image") /\ ZfsSame
       ELSE Run(c, create_dataset(<<"parent", "images">>, <<"parent", "cache">>), "image")

\* ... the image itself: pull_image_to_dataset asks for the mountpoint of a
\* dataset that nobody has created, and fails unless somebody did just now ...
EnsureImage(c) ==
    LET i == storing[c].image IN
    /\ Doing(c, "image")
    /\ IF dataset_exists(<<"image", i>>) THEN Goes(c, "app") ELSE Goes(c, "pull")
    /\ ZfsSame

pull_image_to_dataset(c) ==
    /\ Doing(c, "pull")
    /\ Run(c, dataset_exists(<<"image", storing[c].image>>) /\ ZfsSame, "token")

\* ... then OciClient::pull_image over its mountpoint: a token, the manifest,
\* and for every layer the blob and its unpacking; a failure leaves the
\* dataset with what has been unpacked so far ...
get_auth_token(c) == Doing(c, "token") /\ Run(c, ZfsSame, "manifest")
get_manifest(c)   == Doing(c, "manifest") /\ Run(c, ZfsSame, "layers")
pull_image(c)     == Doing(c, "layers") /\ \E next \in {"blob", "base"} : Goes(c, next) /\ ZfsSame
get_blob(c)       == Doing(c, "blob") /\ Run(c, ZfsSame, "unpack")
extract_layer(c)  == Doing(c, "unpack") /\ Run(c, ZfsSame, "layers")

\* ... and only a complete image gets its @base snapshot ...
SnapshotBase(c) ==
    LET i == storing[c].image IN
    /\ Doing(c, "base")
    /\ Run(c, snapshot(<<"image", i>>, i), "app")

\* ... init_app_storage, which begins with a dataset that must be new ...
init_app_storage(c) ==
    LET a == storing[c].app IN
    /\ \/ Doing(c, "app") /\ Run(c, create_dataset(full_path(a), <<"parent", "apps">>), "rootfs")
       \/ Doing(c, "rootfs") /\ Run(c, create_with_parents(a, "rootfs"), "data")
       \/ Doing(c, "data") /\ Run(c, create_with_parents(a, "data"), "snaps")
       \/ Doing(c, "snaps") /\ Run(c, create_dataset(<<".snapshots", a>>, full_path(a)), "readonly")
       \/ Doing(c, "readonly") /\ Run(c, set_property(<<"rootfs", a>>), "fresh")

\* ... whose empty rootfs makes room for a clone of the image ...
Freshen(c) ==
    LET d == <<"rootfs", storing[c].app>> IN
    /\ Doing(c, "fresh")
    /\ IF dataset_exists(d) THEN Run(c, destroy_dataset(d), "clone")
       ELSE Goes(c, "clone") /\ ZfsSame

CloneImage(c) ==
    LET a == storing[c].app IN
    /\ Doing(c, "clone")
    /\ Run(c, clone_snapshot(storing[c].image, <<"rootfs", a>>, full_path(a)), "writable")

\* ... which is made writable and promoted.
PromoteRootfs(c) ==
    LET d == <<"rootfs", storing[c].app>> IN
    /\ \/ Doing(c, "writable") /\ Run(c, set_property(d), "promote")
       \/ Doing(c, "promote") /\ (promote(d) \/ ZfsSame) /\ Ends(c)

\* cleanup_app.
CleanupApp(c) ==
    /\ Doing(c, "none")
    /\ \E a \in Apps :
         /\ dataset_exists(full_path(a))
         /\ storing' = [storing EXCEPT ![c] = [do |-> "destroy", app |-> a]]
    /\ ZfsSame

DestroyApp(c) ==
    /\ Doing(c, "destroy")
    /\ destroy_dataset(full_path(storing[c].app)) \/ ZfsSame
    /\ Ends(c)

Next ==
    \/ Admin
    \/ \E c \in Clients :
         \/ PrepareRootfs(c) \/ EnsureCache(c) \/ EnsureImage(c) \/ pull_image_to_dataset(c)
         \/ get_auth_token(c) \/ get_manifest(c) \/ pull_image(c) \/ get_blob(c)
         \/ extract_layer(c) \/ SnapshotBase(c)
         \/ init_app_storage(c) \/ Freshen(c) \/ CloneImage(c) \/ PromoteRootfs(c)
         \/ CleanupApp(c) \/ DestroyApp(c)

StorageSpec == Init /\ [][Next]_storageVars
-----------------------------------------------------------------------------
\* Promotion hands an image's @base snapshot to an app, and the app may be
\* removed or deployed again at any time; yet no step loses a cached image:
\* its dataset stays, and the snapshot it shares has a holder.
ImageStays == \A i \in DOMAIN base : <<"image", i>> \in zfs' /\ i \in DOMAIN base'

\* What that rests on: the snapshot of an image is held by its dataset, or by
\* a rootfs that the dataset depends on, which cannot be destroyed.
Methods ==
    {NoMethod} \cup [do : {"destroy"}, app : Apps]
    \cup [do : {"cache", "image", "pull", "token", "manifest", "layers", "blob", "unpack", "base",
                "app", "rootfs", "data", "snaps", "readonly", "fresh", "clone", "writable",
                "promote"},
          app : Apps, image : Images]

Holds(i) ==
    /\ <<"image", i>> \in zfs /\ base[i] \in zfs
    /\ \/ base[i] = <<"image", i>>
       \/ /\ base[i] \in {<<"rootfs", a>> : a \in Apps}
          /\ <<"image", i>> \in DOMAIN origin /\ origin[<<"image", i>>] = i

StorageInv ==
    /\ storing \in [Clients -> Methods]
    /\ DOMAIN base \subseteq Images
    /\ DOMAIN origin \subseteq zfs /\ \A d \in DOMAIN origin : origin[d] \in DOMAIN base
    /\ \A i \in DOMAIN base : Holds(i)
=============================================================================
