---------------------------- MODULE VolumeStore ----------------------------
(* Volumes and the property cache of the ZFS manager (zfs/mod.rs).  A      *)
(* volume's dataset, quota and reservation are set by one command each.    *)
(* What `zfs list` says of a volume is stood for by a version that every   *)
(* change of the volume increases; the cache keeps it for `ttl`.           *)
EXTENDS Naturals, Sequences

CONSTANTS Clients, Volumes,
          ttl,          \* PropertyCache::ttl, in ticks
          MaxSnaps,     \* bound on the snapshots of a volume
          MaxChanges,   \* bound on the changes of a volume
          MaxNow        \* bound on the clock

VARIABLES volumes,      \* volume -> its dataset, or absent
          version,      \* volume -> number of its changes
          until,        \* volume -> when each earlier version was superseded
          entries,      \* volume -> cached version and time
          volume_task,  \* per client: the method being executed
          ticks         \* the clock

volumeVars == <<volumes, version, until, entries, volume_task, ticks>>

NoTask == [do |-> "none"]

VolumesTypeOK ==
    /\ DOMAIN volumes \subseteq Volumes
    /\ \A v \in DOMAIN volumes : volumes[v] \in
         [quota : BOOLEAN, reserved : BOOLEAN, mounted : BOOLEAN, snaps : Seq(Nat)]
    /\ version \in [Volumes -> 0..MaxChanges]
    /\ DOMAIN entries \subseteq Volumes

Init ==
    /\ volumes = [v \in {} |-> v]
    /\ version = [v \in Volumes |-> 0]
    /\ until = [v \in Volumes |-> <<>>]
    /\ entries = [v \in {} |-> v]
    /\ volume_task = [c \in Clients |-> NoTask]
    /\ ticks = 0

Put(f, k, x) == [y \in DOMAIN f \cup {k} |-> IF y = k THEN x ELSE f[y]]
Goes(c, t)   == volume_task' = [volume_task EXCEPT ![c] = t]
Idle(c)      == volume_task[c] = NoTask

\* The volume is changed to d.
Changes(v, d) ==
    /\ version[v] < MaxChanges
    /\ volumes' = Put(volumes, v, d)
    /\ version' = [version EXCEPT ![v] = @ + 1]
    /\ until' = [until EXCEPT ![v] = Append(@, ticks)]
    /\ UNCHANGED <<entries, ticks>>

\* create_volume: a command that fails ends the method and leaves the volume
\* as far as it got.
create_volume(c) ==
    /\ Idle(c)
    /\ \E v \in Volumes \ DOMAIN volumes :
         /\ Changes(v, [quota |-> FALSE, reserved |-> FALSE, mounted |-> TRUE, snaps |-> <<>>])
         /\ Goes(c, [do |-> "quota", volume |-> v])

SetQuota(c) ==
    LET v == volume_task[c].volume IN
    /\ volume_task[c].do = "quota"
    /\ \/ Changes(v, [volumes[v] EXCEPT !.quota = TRUE]) /\ Goes(c, [do |-> "reserve", volume |-> v])
       \/ Goes(c, NoTask) /\ UNCHANGED <<volumes, version, until, entries, ticks>>

SetReservation(c) ==
    LET v == volume_task[c].volume IN
    /\ volume_task[c].do = "reserve"
    /\ Changes(v, [volumes[v] EXCEPT !.reserved = TRUE]) \/ UNCHANGED <<volumes, version, until, entries, ticks>>
    /\ Goes(c, NoTask)

snapshot_volume(c) ==
    /\ Idle(c)
    /\ \E v \in DOMAIN volumes :
         /\ Len(volumes[v].snaps) < MaxSnaps
         /\ Changes(v, [volumes[v] EXCEPT !.snaps = Append(@, Len(@) + 1)])
    /\ UNCHANGED volume_task

\* rollback_volume: unmounted first (a busy volume is refused) ...
rollback_volume(c) ==
    /\ Idle(c)
    /\ \E v \in DOMAIN volumes : \E n \in 1..Len(volumes[v].snaps) :
         /\ IF volumes[v].mounted THEN Changes(v, [volumes[v] EXCEPT !.mounted = FALSE])
            ELSE UNCHANGED <<volumes, version, until, entries, ticks>>
         /\ Goes(c, [do |-> "rollback", volume |-> v, to |-> n])

\* ... and rolled back, which destroys the later snapshots; nothing mounts it
\* again.
Rollback(c) ==
    LET v == volume_task[c].volume IN
    /\ volume_task[c].do = "rollback"
    /\ IF Len(volumes[v].snaps) >= volume_task[c].to
       THEN \/ Changes(v, [volumes[v] EXCEPT !.snaps = SubSeq(@, 1, volume_task[c].to)])
            \/ UNCHANGED <<volumes, version, until, entries, ticks>>
       ELSE UNCHANGED <<volumes, version, until, entries, ticks>>
    /\ Goes(c, NoTask)

\* An entry is served while it is younger than the limit.
Fresh(v) == v \in DOMAIN entries /\ ticks - entries[v].at < ttl

\* get_info_cached: the time is taken first; a fresh entry is the answer ...
get_info_cached(c) ==
    /\ Idle(c)
    /\ \E v \in Volumes :
         IF Fresh(v) THEN Goes(c, [do |-> "answer", volume |-> v, info |-> entries[v].info])
         ELSE Goes(c, [do |-> "list", volume |-> v, at |-> ticks])
    /\ UNCHANGED <<volumes, version, until, entries, ticks>>

\* ... otherwise zfs list is asked ...
GetInfo(c) ==
    LET v == volume_task[c].volume IN
    /\ volume_task[c].do = "list"
    /\ IF v \in DOMAIN volumes
       THEN Goes(c, [do |-> "insert", volume |-> v, at |-> volume_task[c].at, info |-> version[v]])
       ELSE Goes(c, NoTask)
    /\ UNCHANGED <<volumes, version, until, entries, ticks>>

\* Mutant: the entry is dated when it is stored.
entry_of_now(t) == [info |-> t.info, at |-> ticks]

\* The entry has the time at which the call began.
entry_of(t) == [info |-> t.info, at |-> t.at]

\* ... and its answer stored, also over a later one.
Insert(c) ==
    LET t == volume_task[c] IN
    /\ t.do = "insert"
    /\ entries' = Put(entries, t.volume, entry_of(t))
    /\ Goes(c, NoTask)
    /\ UNCHANGED <<volumes, version, until, ticks>>

Answered(c) ==
    /\ volume_task[c].do = "answer"
    /\ Goes(c, NoTask)
    /\ UNCHANGED <<volumes, version, until, entries, ticks>>

invalidate_cache ==
    /\ \E v \in DOMAIN entries : entries' = [x \in DOMAIN entries \ {v} |-> entries[x]]
    /\ UNCHANGED <<volumes, version, until, volume_task, ticks>>

clear_cache ==
    /\ entries' = [v \in {} |-> v]
    /\ UNCHANGED <<volumes, version, until, volume_task, ticks>>

\* Time passes; an answer on its way is looked at when it is given.
Tick ==
    /\ ticks < MaxNow /\ \A c \in Clients : volume_task[c].do # "answer"
    /\ ticks' = ticks + 1
    /\ UNCHANGED <<volumes, version, until, entries, volume_task>>

Next ==
    \/ invalidate_cache \/ clear_cache \/ Tick
    \/ \E c \in Clients :
         \/ create_volume(c) \/ SetQuota(c) \/ SetReservation(c) \/ snapshot_volume(c)
         \/ rollback_volume(c) \/ Rollback(c)
         \/ get_info_cached(c) \/ GetInfo(c) \/ Insert(c) \/ Answered(c)

VolumesSpec == Init /\ [][Next]_volumeVars
-----------------------------------------------------------------------------
\* However calls overlap and overwrite each other's entries, an answer from
\* the cache describes the volume as it was less than the limit ago.
AnswersFresh ==
    \A c \in Clients : volume_task[c].do = "answer" =>
        LET v == volume_task[c].volume
            i == volume_task[c].info
        IN i = version[v] \/ until[v][i + 1] + ttl > ticks

\* Version i of v was not superseded before the time at.
Held(v, i, at) ==
    /\ at \in 0..ticks /\ i \in 0..version[v]
    /\ i = version[v] \/ until[v][i + 1] >= at
Counted ==
    /\ ticks \in Nat /\ version \in [Volumes -> Nat] /\ until \in [Volumes -> Seq(Nat)]
    /\ \A v \in Volumes : Len(until[v]) = version[v]
    /\ DOMAIN volumes \subseteq Volumes
\* What a method carries to its next step.
Told(t) ==
    /\ t.do \in {"quota", "reserve", "rollback", "list", "insert", "answer"} => t.volume \in Volumes
    /\ t.do = "list" => t.at \in 0..ticks
    /\ t.do = "insert" => Held(t.volume, t.info, t.at)
    /\ t.do = "answer" =>
          /\ ttl > 0 /\ t.info \in 0..version[t.volume]
          /\ t.info = version[t.volume] \/ until[t.volume][t.info + 1] + ttl > ticks
VolumesInv ==
    /\ Counted
    /\ \A v \in DOMAIN entries : v \in Volumes /\ Held(v, entries[v].info, entries[v].at)
    /\ DOMAIN volume_task = Clients /\ \A c \in Clients : Told(volume_task[c])
=============================================================================
