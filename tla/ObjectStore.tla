----------------------------- MODULE ObjectStore -----------------------------
(* Volumes kept in S3 (shellwego-storage/src/s3.rs).  A volume is an object *)
(* under its name, a snapshot a copy of it under <name>@<snapshot>, and     *)
(* every method is one request but clone, which is two: the copy, and the   *)
(* placeholder that create puts over it.                                    *)
(*                                                                          *)
(* A request may be refused, or be carried out and its answer lost; the     *)
(* caller is told of a failure in both cases.  The bucket, regions and      *)
(* sizes are left out.                                                      *)
CONSTANTS Clients, Volumes, SnapNames, Properties, Contents

VARIABLES objects,      \* key -> content
          tags,         \* key -> the property its only tag is for, or "none"
          taken,        \* volume and snapshot -> what the volume held when it was taken
          request       \* per client: the clone between its two requests

objectVars == <<objects, tags, taken, request>>

\* Mutant: the key leaves the volume's name out.
snapshot_key_bare(v, n) == <<"snapshot", n>>

\* object_key, and the key snapshot builds from it.
object_key(v)      == <<v>>
snapshot_key(v, n) == <<v, n>>
VolumeKeys   == {object_key(v) : v \in Volumes}
SnapshotKeys == {snapshot_key(v, n) : v \in Volumes, n \in SnapNames}

NoRequest == [do |-> "none"]

ObjectsTypeOK ==
    /\ DOMAIN objects \subseteq VolumeKeys \cup SnapshotKeys
    /\ DOMAIN tags = DOMAIN objects

Init ==
    /\ objects = [k \in {} |-> "placeholder"] /\ tags = [k \in {} |-> "none"]
    /\ taken = [k \in {} |-> "placeholder"]
    /\ request = [c \in Clients |-> NoRequest]

Set(f, k, x)  == [y \in DOMAIN f \cup {k} |-> IF y = k THEN x ELSE f[y]]
Unset(f, k)   == [y \in DOMAIN f \ {k} |-> f[y]]
Idle(c)       == request[c] = NoRequest
StoreSame     == UNCHANGED <<objects, tags, taken>>

\* put_object replaces the object and its tags.
put_object(k, x) == objects' = Set(objects, k, x) /\ tags' = Set(tags, k, "none")

\* copy_object: content and tags of the source, which must be there.
copy_object(from, to) ==
    /\ from \in DOMAIN objects
    /\ objects' = Set(objects, to, objects[from]) /\ tags' = Set(tags, to, tags[from])

\* info answers for what is there, list with the volumes but no snapshot.
info(k) == k \in DOMAIN objects
list    == {k \in VolumeKeys : info(k)}

\* What a volume's users write into it from outside.
Fill ==
    /\ \E k \in list, x \in Contents : put_object(k, x)
    /\ UNCHANGED <<taken, request>>

create(c) ==
    /\ Idle(c)
    /\ \E v \in Volumes : put_object(object_key(v), "placeholder")
    /\ UNCHANGED <<taken, request>>

\* destroy: of a volume, or of a snapshot by its full name; what is not there
\* is deleted just as well.
destroy(c) ==
    /\ Idle(c)
    /\ \E k \in VolumeKeys \cup SnapshotKeys :
         objects' = Unset(objects, k) /\ tags' = Unset(tags, k) /\ taken' = Unset(taken, k)
    /\ UNCHANGED request

\* snapshot: a second one of the same name replaces the first.
snapshot_request(v, n) == copy_object(object_key(v), snapshot_key(v, n))

snapshot(c) ==
    /\ Idle(c)
    /\ \E v \in Volumes, n \in SnapNames :
         /\ snapshot_request(v, n)
         /\ taken' = Set(taken, <<v, n>>, objects[object_key(v)])
    /\ UNCHANGED request

\* clone: the copy, and then create with the name of the target.
clone(c) ==
    /\ Idle(c)
    /\ \E k \in SnapshotKeys, v \in Volumes :
         /\ copy_object(k, object_key(v))
         /\ request' = [request EXCEPT ![c] = [do |-> "create", volume |-> v]]
    /\ UNCHANGED taken

CloneCreate(c) ==
    /\ request[c].do = "create"
    /\ put_object(object_key(request[c].volume), "placeholder") \/ UNCHANGED <<objects, tags>>
    /\ request' = [request EXCEPT ![c] = NoRequest]
    /\ UNCHANGED taken

\* set_property puts a tag set of one tag, whatever the set was.
set_property(c) ==
    /\ Idle(c)
    /\ \E k \in DOMAIN objects, p \in Properties : tags' = [tags EXCEPT ![k] = p]
    /\ UNCHANGED <<objects, taken, request>>

Next ==
    \/ Fill
    \/ \E c \in Clients :
         \/ create(c) \/ destroy(c) \/ snapshot(c) \/ clone(c) \/ CloneCreate(c)
         \/ set_property(c)

ObjectsSpec == Init /\ [][Next]_objectVars
-----------------------------------------------------------------------------
\* A snapshot that was taken and not destroyed is there and holds what its
\* volume held when it was taken, through writes to the volume, its removal,
\* clones over it and snapshots of other volumes.
SnapshotsKept ==
    \A v \in Volumes, n \in SnapNames :
        <<v, n>> \in DOMAIN taken =>
            info(snapshot_key(v, n)) /\ objects[snapshot_key(v, n)] = taken[<<v, n>>]
=============================================================================
