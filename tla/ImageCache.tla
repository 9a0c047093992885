---------------------------- MODULE ImageCache ----------------------------
(* The puller and the layer cache of the image registry (pull.rs,          *)
(* cache.rs): images are downloaded, unpacked into a ZFS dataset each,     *)
(* snapshotted, described by a file and entered into the index in memory;  *)
(* containers get clones of the snapshot.  Only the index has a lock: an   *)
(* import does not hold it while it works on the dataset, gc and           *)
(* remove_image do.                                                        *)
(*                                                                         *)
(* The index is kept as the sequence of its keys by last access, the files *)
(* as the sequence of images by the time they were written.  An image has  *)
(* two keys: its reference, and the dataset's name under which a new       *)
(* process files it.                                                       *)
EXTENDS Naturals, Sequences, SequencesExt, Selection

CONSTANTS Clients,      \* concurrent calls
          Images,
          Containers,
          Keeps         \* the numbers of images gc may be asked to keep

VARIABLES manifest_index,
          metadata,     \* the metadata.json files
          datasets,     \* image -> what its dataset holds
          based,        \* the images whose dataset has the snapshot @base
          containers,   \* container -> the image it is a clone of
          temps,        \* the images with a layer in the cache directory
          token_cache,  \* the repository of the cached token, if any
          lock,         \* the client holding the index for writing
          pull,         \* per client: the call being executed
          excused       \* images destroyed under an import or a second key

imageVars == <<manifest_index, metadata, datasets, based, containers, temps,
               token_cache, lock, pull, excused>>

Index(i, kind) == [image |-> i, kind |-> kind]
LayerContents == {"partial", "intact", "altered"}
None == [do |-> "none"]

ImagesTypeOK ==
    /\ \A n \in 1..Len(manifest_index) :
         manifest_index[n] \in [image : Images, kind : {"ref", "name"}]
    /\ ToSet(metadata) \subseteq Images
    /\ DOMAIN datasets \subseteq Images /\ \A i \in DOMAIN datasets : datasets[i] \in LayerContents
    /\ based \subseteq DOMAIN datasets
    /\ lock \subseteq Clients

Init ==
    /\ manifest_index = <<>> /\ metadata = <<>>
    /\ datasets = [i \in {} |-> i]
    /\ based = {} /\ temps = {} /\ token_cache = {} /\ lock = {} /\ excused = {}
    /\ containers = [k \in {} |-> k]
    /\ pull = [c \in Clients |-> None]

\* Moves e to the end of s, or appends it.
Dropped(s, e) == Retain(s, ToSet(s) \ {e})
Latest(s, e) == Append(Dropped(s, e), e)

Set(f, k, v) == [x \in DOMAIN f \cup {k} |-> IF x = k THEN v ELSE f[x]]
Unset(f, k)  == [x \in DOMAIN f \ {k} |-> f[x]]

Goes(c, t) == pull' = [pull EXCEPT ![c] = t]
Ends(c)    == Goes(c, None)
Doing(c, what) == pull[c].do = what
DiskSame == UNCHANGED <<metadata, datasets, based, containers, temps, excused>>

\* The token is cached by registry, though it was asked for one repository:
\* while it is good it is used for every other one too.
get_auth_token(i) ==
    \/ token_cache # {} /\ UNCHANGED token_cache
    \/ token_cache' \in {{i}, {}}

\* pull: the reference is parsed and a token obtained ...
Pull(c) ==
    /\ Doing(c, "none")
    /\ \E i \in Images : get_auth_token(i) /\ Goes(c, [do |-> "fetch", image |-> i])
    /\ DiskSame /\ UNCHANGED <<manifest_index, lock>>

\* verify_signature, exists and get_image_size ask the registry with the
\* same token and keep nothing of the answer.
Ask(c) ==
    /\ Doing(c, "none")
    /\ \E i \in Images : get_auth_token(i)
    /\ DiskSame /\ UNCHANGED <<manifest_index, lock, pull>>

\* What the registry may answer; another repository's token is refused.  A
\* layer that does not have its digest is kept.
fetch_manifest(i) == IF token_cache \subseteq {i} THEN {TRUE, FALSE} ELSE {FALSE}
fetch_config == {TRUE, FALSE}
fetch_layer  == {"intact", "altered", "failed"}

\* ... the manifest, the configuration and the layers are downloaded, and
\* only then is the import begun.
Fetch(c) ==
    /\ Doing(c, "fetch")
    /\ \E found \in fetch_manifest(pull[c].image), config \in fetch_config, layer \in fetch_layer :
         IF found /\ config /\ layer # "failed"
         THEN Goes(c, [do |-> "dataset", image |-> pull[c].image, layer |-> layer])
         ELSE Ends(c)
    /\ DiskSame /\ UNCHANGED <<manifest_index, token_cache, lock>>

Proceeds(c, step) == Goes(c, [pull[c] EXCEPT !.do = step])

\* ensure_dataset: the dataset of an earlier import is used again.
ensure_dataset(c) ==
    /\ Doing(c, "dataset")
    /\ \/ Ends(c) /\ pull[c].image \notin DOMAIN datasets /\ UNCHANGED datasets
       \/ /\ Proceeds(c, "layer")
          /\ datasets' = IF pull[c].image \in DOMAIN datasets THEN datasets
                         ELSE Set(datasets, pull[c].image, "partial")
    /\ excused' = excused \ DOMAIN datasets'
    /\ UNCHANGED <<manifest_index, metadata, based, containers, temps, token_cache, lock>>

\* The layer is written into a file named by its digest, the same for every
\* import of it.
WriteLayer(c) ==
    /\ Doing(c, "layer")
    /\ \/ Ends(c) /\ UNCHANGED temps
       \/ Proceeds(c, "extract") /\ temps' = temps \cup {pull[c].image}
    /\ UNCHANGED <<manifest_index, metadata, datasets, based, containers, token_cache, lock, excused>>

\* extract_layer and the removal of the file: a failure of tar (no file, no
\* mountpoint, a full disk) is only logged.
extract_layer(c) ==
    LET i == pull[c].image IN
    /\ Doing(c, "extract")
    /\ datasets' \in {datasets} \cup
         (IF i \in temps /\ i \in DOMAIN datasets THEN {Set(datasets, i, pull[c].layer)} ELSE {})
    /\ temps' = temps \ {i}
    /\ Proceeds(c, "snapshot")
    /\ UNCHANGED <<manifest_index, metadata, based, containers, token_cache, lock, excused>>

\* The snapshot of an earlier import stays the one that is cloned.
Snapshot(c) ==
    /\ Doing(c, "snapshot")
    /\ based' \in {based, based \cup ({pull[c].image} \cap DOMAIN datasets)}
    /\ Proceeds(c, "metadata")
    /\ UNCHANGED <<manifest_index, metadata, datasets, containers, temps, token_cache, lock, excused>>

SaveMetadata(c) ==
    /\ Doing(c, "metadata")
    /\ \/ Ends(c) /\ UNCHANGED metadata
       \/ Proceeds(c, "index") /\ metadata' = Latest(metadata, pull[c].image)
    /\ UNCHANGED <<manifest_index, datasets, based, containers, temps, token_cache, lock, excused>>

UpdateIndex(c) ==
    /\ Doing(c, "index") /\ lock = {}
    /\ manifest_index' = Latest(manifest_index, Index(pull[c].image, "ref"))
    /\ Ends(c)
    /\ DiskSame /\ UNCHANGED <<token_cache, lock>>

is_cached(i) == Index(i, "ref") \in ToSet(manifest_index) \/ i \in DOMAIN datasets

\* get_rootfs: the image must be known and the dataset must have a
\* mountpoint; then the entry is touched, if there is one.
GetRootfs(c) ==
    /\ Doing(c, "none") /\ lock = {}
    /\ \E i \in Images :
         /\ is_cached(i) /\ i \in DOMAIN datasets
         /\ Goes(c, [do |-> "touch", image |-> i])
    /\ DiskSame /\ UNCHANGED <<manifest_index, token_cache, lock>>

Touch(c) ==
    LET k == Index(pull[c].image, "ref") IN
    /\ Doing(c, "touch") /\ lock = {}
    /\ manifest_index' = IF k \in ToSet(manifest_index) THEN Latest(manifest_index, k)
                         ELSE manifest_index
    /\ Ends(c)
    /\ DiskSame /\ UNCHANGED <<token_cache, lock>>

\* The stages in which a call imports into the dataset.
Importing == {"layer", "extract", "snapshot", "metadata", "index"}

\* Whether the destruction of i takes the dataset from under an import, or
\* from under a second entry of the index.
Excuses(i, key) ==
    \/ \E d \in Clients : pull[d].do \in Importing /\ pull[d].image = i
    \/ \E n \in 1..Len(manifest_index) : manifest_index[n].image = i /\ manifest_index[n] # key

\* zfs destroy -r: refused while the snapshot has clones.
Destroyable(i) == i \in DOMAIN datasets /\ \A k \in DOMAIN containers : containers[k] # i

Destroyed(i, key) ==
    /\ datasets' = Unset(datasets, i)
    /\ based' = based \ {i}
    /\ excused' = IF Excuses(i, key) THEN excused \cup {i} ELSE excused

\* gc: the least recently used entries beyond the number to keep, chosen and
\* removed under the lock ...
GcBegin(c) ==
    /\ Doing(c, "none") /\ lock = {}
    /\ \E keep \in Keeps :
         /\ Len(manifest_index) > keep
         /\ Goes(c, [do |-> "gc", left |-> SubSeq(manifest_index, 1, Len(manifest_index) - keep)])
    /\ lock' = {c}
    /\ DiskSame /\ UNCHANGED <<manifest_index, token_cache>>

\* Mutant: the entry of a destroyed image stays in the index.
gc_keep_entry(key) == UNCHANGED manifest_index

gc_remove_entry(key) == manifest_index' = Dropped(manifest_index, key)

\* ... one at a time; an image that cannot be destroyed keeps its entry.
GcDestroy(c) ==
    /\ Doing(c, "gc") /\ pull[c].left # <<>>
    /\ LET key == Head(pull[c].left) IN
         /\ IF Destroyable(key.image)
            THEN /\ Destroyed(key.image, key)
                 /\ gc_remove_entry(key)
                 /\ metadata' = Dropped(metadata, key.image)
            ELSE UNCHANGED <<datasets, based, excused, manifest_index, metadata>>
         /\ Goes(c, [do |-> "gc", left |-> Tail(pull[c].left)])
    /\ UNCHANGED <<containers, temps, token_cache, lock>>

GcEnd(c) ==
    /\ Doing(c, "gc") /\ pull[c].left = <<>>
    /\ lock' = {} /\ Ends(c)
    /\ DiskSame /\ UNCHANGED <<manifest_index, token_cache>>

\* remove_image: the entry goes first, whatever becomes of the dataset.
RemoveEntry(c) ==
    /\ Doing(c, "none") /\ lock = {}
    /\ \E i \in Images :
         /\ Index(i, "ref") \in ToSet(manifest_index)
         /\ manifest_index' = Dropped(manifest_index, Index(i, "ref"))
         /\ Goes(c, [do |-> "remove", image |-> i])
    /\ lock' = {c}
    /\ DiskSame /\ UNCHANGED token_cache

RemoveImage(c) ==
    LET i == pull[c].image IN
    /\ Doing(c, "remove")
    /\ IF Destroyable(i) THEN Destroyed(i, Index(i, "ref")) /\ metadata' = Dropped(metadata, i)
       ELSE UNCHANGED <<datasets, based, excused, metadata>>
    /\ lock' = {} /\ Ends(c)
    /\ UNCHANGED <<manifest_index, containers, temps, token_cache>>

clone_for_container(k) ==
    /\ k \notin DOMAIN containers
    /\ \E i \in based : containers' = Set(containers, k, i)
    /\ UNCHANGED <<manifest_index, metadata, datasets, based, temps, token_cache, lock, pull, excused>>

remove_container_clone(k) ==
    /\ k \in DOMAIN containers
    /\ containers' = Unset(containers, k)
    /\ UNCHANGED <<manifest_index, metadata, datasets, based, temps, token_cache, lock, pull, excused>>

\* load_existing_images: the datasets with a readable file, under the
\* dataset's name.
load_existing_images ==
    LET kept == Retain(metadata, DOMAIN datasets)
    IN [n \in 1..Len(kept) |-> Index(kept[n], "name")]

\* A new process: datasets and files are as the last one left them.
CacheRestart ==
    /\ manifest_index' = load_existing_images
    /\ pull' = [c \in Clients |-> None]
    /\ lock' = {} /\ token_cache' = {}
    /\ excused' = {}
    /\ UNCHANGED <<metadata, datasets, based, containers, temps>>

Next ==
    \/ CacheRestart
    \/ \E k \in Containers : clone_for_container(k) \/ remove_container_clone(k)
    \/ \E c \in Clients :
         \/ Pull(c) \/ Ask(c) \/ Fetch(c) \/ ensure_dataset(c) \/ WriteLayer(c)
         \/ extract_layer(c) \/ Snapshot(c) \/ SaveMetadata(c) \/ UpdateIndex(c)
         \/ GetRootfs(c) \/ Touch(c) \/ GcBegin(c) \/ GcDestroy(c) \/ GcEnd(c)
         \/ RemoveEntry(c) \/ RemoveImage(c)

ImageSpec == Init /\ [][Next]_imageVars
-----------------------------------------------------------------------------
\* An image in the index has its dataset, through failed imports, garbage
\* collection and restarts, unless the dataset was destroyed while another
\* call was importing into it or while the index had it under two keys.
IndexBacked ==
    \A n \in 1..Len(manifest_index) :
        manifest_index[n].image \in DOMAIN datasets \cup excused

\* What that rests on: an import that has the dataset keeps it, or it is
\* excused; and who removes an image holds the index, from which the entry
\* under its reference is gone by the time the dataset is.
Keys == [image : Images, kind : {"ref", "name"}]

ImageCalls ==
    {None} \cup [do : {"fetch", "remove", "touch"}, image : Images]
           \cup [do : {"dataset"} \cup Importing, image : Images, layer : LayerContents]
           \cup [do : {"gc"}, left : Seq(Keys)]

ImagesInv ==
    /\ IndexBacked
    /\ manifest_index \in Seq(Keys) /\ metadata \in Seq(Images)
    /\ pull \in [Clients -> ImageCalls]
    /\ \A c \in Clients :
         /\ pull[c].do \in Importing => pull[c].image \in DOMAIN datasets \cup excused
         /\ pull[c].do \in {"gc", "remove"} => lock = {c}
         /\ pull[c].do = "remove" => Index(pull[c].image, "ref") \notin ToSet(manifest_index)
=============================================================================
