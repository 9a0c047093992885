----------------------------- MODULE Snapshots -----------------------------
(* The snapshot manager of an agent and the migration manager that uses it *)
(* (snapshot.rs, migration.rs).  The table of snapshots is behind a        *)
(* read-write lock and is written to a file, as a whole, after every       *)
(* change; snapshot files and ZFS snapshots live on disk beside it.  The   *)
(* virtual machines are those of module Vmm: pausing, capturing, resuming  *)
(* and loading one either works or fails.                                  *)
EXTENDS Naturals, Sequences

CONSTANTS Clients,      \* concurrent calls
          Ids,          \* bound: the identifiers that can be drawn
          KeepCounts    \* the keep_count gc may be asked for

VARIABLES metadata,     \* id -> its entry in the table
          stored,       \* the content of snapshots.json
          files,        \* the ids whose memory and state files exist
          disks,        \* the ids whose ZFS snapshot exists
          created,      \* ids by created_at, oldest first
          readers, writer,      \* holders of the table's lock
          sessions,     \* the ids with a migration session
          sessions_lock,        \* holders of the lock of the sessions
          running,      \* the agent runs
          unsaved,      \* the last write of the table failed
          snap          \* per client: the call being executed

snapshotVars == <<metadata, stored, files, disks, created, readers, writer,
                  sessions, sessions_lock, running, unsaved, snap>>

NoCall == [do |-> "none"]
Empty  == [i \in {} |-> i]
File(table) == [parses |-> TRUE, table |-> table]
Torn   == [parses |-> FALSE, table |-> Empty]

\* A SnapshotMetadata: what of it the manager acts upon, and whether the
\* second half of its creation (vm_config, or the tag of an incremental
\* snapshot) is in it.
Entry == [includes_memory : BOOLEAN, disk_snapshot : BOOLEAN, amended : BOOLEAN]

SnapshotsTypeOK ==
    /\ DOMAIN metadata \subseteq Ids /\ \A i \in DOMAIN metadata : metadata[i] \in Entry
    /\ files \subseteq Ids /\ disks \subseteq Ids
    /\ readers \subseteq Clients /\ writer \subseteq Clients
    /\ sessions \subseteq Ids

Init ==
    /\ metadata = Empty /\ stored = File(Empty) /\ sessions = {}
    /\ files = {} /\ disks = {} /\ created = <<>>
    /\ readers = {} /\ writer = {} /\ sessions_lock = {}
    /\ running = TRUE /\ unsaved = FALSE
    /\ snap = [c \in Clients |-> NoCall]

Put(f, k, v) == [x \in DOMAIN f \cup {k} |-> IF x = k THEN v ELSE f[x]]
Drop(f, k)   == [x \in DOMAIN f \ {k} |-> f[x]]
Goes(c, t)   == snap' = [snap EXCEPT ![c] = t]
At(c, step)  == running /\ snap[c].do = step
Proceeds(c, step) == Goes(c, [snap[c] EXCEPT !.do = step])
Ends(c)      == Goes(c, NoCall)

TableSame == UNCHANGED <<metadata, stored, readers, writer, unsaved>>
DiskSame  == UNCHANGED <<files, disks>>
MovesSame == UNCHANGED <<sessions, sessions_lock, running>>

\* An identifier that no call and no snapshot has.
Unused == {i \in Ids : /\ i \notin files \cup disks \cup DOMAIN metadata
                       /\ \A n \in 1..Len(created) : created[n] # i
                       /\ \A c \in Clients : snap[c].do # "none" => snap[c].id # i}

\* The kinds of snapshot a caller asks for, and a migration, which makes a
\* full one.
Kinds == {"Full", "DiskOnly", "MemoryOnly", "amended", "migrate"}
Begins(c, kind) ==
    /\ At(c, "none") /\ Unused # {}
    /\ \E pauses \in BOOLEAN :
         IF pauses \/ kind = "DiskOnly"
         THEN Goes(c, [do |-> IF kind = "DiskOnly" THEN "disk" ELSE "memory",
                       id |-> CHOOSE i \in Unused : TRUE, kind |-> kind, todo |-> {}])
         ELSE UNCHANGED snap
    /\ TableSame /\ DiskSame /\ MovesSame /\ UNCHANGED created

create_snapshot(c)             == Begins(c, "Full")
create_disk_only_snapshot(c)   == Begins(c, "DiskOnly")
create_memory_only_snapshot(c) == Begins(c, "MemoryOnly")
create_snapshot_with_config(c) == Begins(c, "amended")
\* The base must be in the table; nothing else of it is used.
create_incremental_snapshot(c) == DOMAIN metadata # {} /\ writer = {} /\ Begins(c, "amended")
migrate_out(c)                 == Begins(c, "migrate")

\* The time of creation is read, and the entry is to be stored.
Stamped(c, disk) ==
    /\ created' = Append(created, snap[c].id)
    /\ Goes(c, [do |-> "insert", id |-> snap[c].id, kind |-> snap[c].kind, todo |-> {}, disk |-> disk])

\* The state of the paused machine is written; a failure ends the call.  A memory-only snapshot does not mind whether the
\* machine resumes.
MemoryState(c) ==
    /\ At(c, "memory")
    /\ \/ Ends(c) /\ UNCHANGED <<files, created>>
       \/ /\ files' = files \cup {snap[c].id}
          /\ IF snap[c].kind = "MemoryOnly" THEN Stamped(c, FALSE)
             ELSE Proceeds(c, "disk") /\ UNCHANGED created
    /\ TableSame /\ MovesSame /\ UNCHANGED disks

\* create_disk_snapshot, and the resumption of the machine: without ZFS there
\* is no disk snapshot, which only a disk-only one minds; a machine that does
\* not resume ends the call.
create_disk_snapshot(c) ==
    /\ At(c, "disk")
    /\ \E made \in BOOLEAN, resumes \in BOOLEAN :
         /\ disks' = IF made THEN disks \cup {snap[c].id} ELSE disks
         /\ IF (IF snap[c].kind = "DiskOnly" THEN made ELSE resumes)
            THEN Stamped(c, made)
            ELSE Ends(c) /\ UNCHANGED created
    /\ TableSame /\ MovesSame /\ UNCHANGED files

EntryOf(t) ==
    [includes_memory |-> t.kind # "DiskOnly", disk_snapshot |-> t.disk, amended |-> FALSE]

\* The entry is stored under the write lock, which is given back at once.
InsertEntry(c) ==
    /\ At(c, "insert") /\ writer = {} /\ readers = {}
    /\ metadata' = Put(metadata, snap[c].id, EntryOf(snap[c]))
    /\ Goes(c, [do |-> "save", id |-> snap[c].id, todo |-> {},
                kind |-> IF snap[c].kind \in {"amended", "migrate"} THEN snap[c].kind ELSE "other"])
    /\ DiskSame /\ MovesSame /\ UNCHANGED <<stored, created, readers, writer, unsaved>>

\* Mutant: the table is copied and the lock given back before the file is written.
read_guard_copied(c) == UNCHANGED readers

\* The read guard lives until the file is written.
read_guard(c) == readers' = readers \cup {c}

\* save_metadata: the table is serialised under the read lock ...
save_metadata(c) ==
    /\ At(c, "save") /\ writer = {}
    /\ read_guard(c)
    /\ Goes(c, [do |-> "write", id |-> snap[c].id, kind |-> snap[c].kind, todo |-> snap[c].todo,
                content |-> File(metadata)])
    /\ DiskSame /\ MovesSame /\ UNCHANGED <<metadata, stored, created, writer, unsaved>>

\* What a call does after its save: the second half of the calls built upon
\* create_snapshot, for which a failed save is a warning; the next deletion of
\* a collection, which a failed save ends; the session of a migration.
AfterSave(c, saved) ==
    LET t == snap[c] IN
    CASE t.kind = "amended"                  -> Goes(c, [do |-> "amend", id |-> t.id, kind |-> t.kind, todo |-> {}])
      [] t.kind = "migrate"                   -> Goes(c, [do |-> "transfer", id |-> t.id, kind |-> t.kind, todo |-> {}])
      [] saved /\ t.todo # {}                 -> Goes(c, [t EXCEPT !.do = "delete", !.id = CHOOSE i \in t.todo : TRUE])
      [] OTHER                                -> Ends(c)

\* ... and the file is truncated and written; a failure may leave it torn.
WriteFile(c) ==
    /\ At(c, "write")
    /\ \E saved \in BOOLEAN :
         /\ IF saved THEN stored' = snap[c].content ELSE stored' \in {stored, Torn}
         /\ unsaved' = ~saved
         /\ AfterSave(c, saved)
    /\ readers' = readers \ {c}
    /\ sessions_lock' = sessions_lock \ {c}     \* held by a cancel only
    /\ DiskSame /\ UNCHANGED <<metadata, created, writer, sessions, running>>

\* create_snapshot_with_config and create_incremental_snapshot: the entry, if
\* it is still there, is amended, and the table saved again.
Amend(c) ==
    LET i == snap[c].id IN
    /\ At(c, "amend") /\ writer = {} /\ readers = {}
    /\ metadata' = IF i \notin DOMAIN metadata THEN metadata
                   ELSE [metadata EXCEPT ![i].amended = TRUE]
    /\ Goes(c, [do |-> "save", id |-> i, kind |-> "other", todo |-> {}])
    /\ DiskSame /\ MovesSame /\ UNCHANGED <<stored, created, readers, writer, unsaved>>

\* restore_snapshot: the entry is copied, its disk cloned, which may fail,
\* and its machine loaded if the files are there: the table does not change.
restore_snapshot(c) ==
    /\ At(c, "none") /\ writer = {}
    /\ \E i \in DOMAIN metadata : Goes(c, [do |-> "clone", id |-> i, kind |-> "other", todo |-> {}])
    /\ TableSame /\ DiskSame /\ MovesSame /\ UNCHANGED created

restore_disk_snapshot(c) ==
    /\ At(c, "clone")
    /\ Ends(c)
    /\ TableSame /\ DiskSame /\ MovesSame /\ UNCHANGED created

\* migrate_in: the transport of the agent refuses; without one the snapshot
\* is one of the table, and restored as above.
migrate_in(c) == restore_snapshot(c)

\* delete_snapshot: the entry goes first; the write lock is kept while the
\* files and the ZFS snapshot are removed; a ZFS snapshot with a
\* clone stays.
delete_snapshot(c) ==
    /\ At(c, "none")
    /\ \E i \in DOMAIN metadata : Goes(c, [do |-> "delete", id |-> i, kind |-> "other", todo |-> {}])
    /\ TableSame /\ DiskSame /\ MovesSame /\ UNCHANGED created

DeleteEntry(c) ==
    /\ At(c, "delete") /\ writer = {} /\ readers = {}
    /\ metadata' = Drop(metadata, snap[c].id)
    /\ IF snap[c].id \in DOMAIN metadata
       THEN writer' = {c} /\ Goes(c, [snap[c] EXCEPT !.do = "remove", !.todo = @ \ {snap[c].id}])
       ELSE UNCHANGED writer /\ Goes(c, [snap[c] EXCEPT !.do = "save", !.todo = @ \ {snap[c].id}])
    /\ DiskSame /\ MovesSame /\ UNCHANGED <<stored, created, readers, unsaved>>

delete_disk_snapshot(i) == {disks, disks \ {i}}

RemoveFiles(c) ==
    /\ At(c, "remove")
    /\ files' = files \ {snap[c].id}
    /\ disks' \in delete_disk_snapshot(snap[c].id)
    /\ writer' = {}
    /\ Proceeds(c, "save")
    /\ MovesSame /\ UNCHANGED <<metadata, stored, created, readers, unsaved>>

\* gc_old_snapshots: of the snapshots, newest first, those beyond the count
\* and older than the limit are deleted one after the other.
ToDelete(keep, cutoff) ==
    LET listed == SelectSeq(created, LAMBDA i : i \in DOMAIN metadata)
    IN {listed[n] : n \in {m \in 1..Len(listed) : Len(listed) - m >= keep /\ m <= cutoff}}
gc_old_snapshots(c) ==
    /\ At(c, "none") /\ writer = {}
    /\ \E keep \in KeepCounts, cutoff \in 0..Len(created) :
         LET todo == ToDelete(keep, cutoff) IN
         /\ todo # {}
         /\ Goes(c, [do |-> "delete", id |-> CHOOSE i \in todo : TRUE, kind |-> "other", todo |-> todo])
    /\ TableSame /\ DiskSame /\ MovesSame /\ UNCHANGED created

\* verify_snapshot holds the read lock while it looks at the files.
verify_snapshot(c) ==
    /\ At(c, "none") /\ writer = {}
    /\ \E i \in DOMAIN metadata : Goes(c, [do |-> "verify", id |-> i, kind |-> "other", todo |-> {}])
    /\ readers' = readers \cup {c}
    /\ DiskSame /\ MovesSame /\ UNCHANGED <<metadata, stored, writer, unsaved, created>>

Verified(c) ==
    /\ At(c, "verify")
    /\ readers' = readers \ {c}
    /\ Ends(c)
    /\ DiskSame /\ MovesSame /\ UNCHANGED <<metadata, stored, writer, unsaved, created>>

\* transfer_snapshot (or store_for_pickup) opens the memory file; whatever
\* comes of it, the session is entered.  Its byte count is left out.
transfer_snapshot(c) ==
    /\ At(c, "transfer") /\ sessions_lock = {}
    /\ sessions' = sessions \cup {snap[c].id}
    /\ Ends(c)
    /\ TableSame /\ DiskSame /\ UNCHANGED <<created, sessions_lock, running>>

\* cancel: the sessions stay locked while the snapshot is deleted.
cancel(c) ==
    /\ At(c, "none") /\ sessions_lock = {}
    /\ \E i \in sessions :
         /\ sessions' = sessions \ {i}
         /\ Goes(c, [do |-> "delete", id |-> i, kind |-> "other", todo |-> {}])
    /\ sessions_lock' = {c}
    /\ TableSame /\ DiskSame /\ UNCHANGED <<created, running>>

\* The agent dies: a file being written may be anything between.
Crash ==
    /\ running
    /\ stored' \in {stored} \cup UNION {{Torn, File(Empty), snap[c].content} : c \in {d \in Clients : snap[d].do = "write"}}
    /\ running' = FALSE
    /\ metadata' = Empty /\ sessions' = {} /\ readers' = {} /\ writer' = {} /\ sessions_lock' = {}
    /\ unsaved' = FALSE
    /\ snap' = [c \in Clients |-> NoCall]
    /\ DiskSame /\ UNCHANGED created

\* load_metadata: no file or an empty one is an empty table; a torn one stops
\* the agent from starting ...
load_metadata ==
    /\ ~running /\ stored.parses
    /\ metadata' = stored.table /\ running' = TRUE
    /\ DiskSame
    /\ UNCHANGED <<stored, created, readers, writer, sessions, sessions_lock, unsaved, snap>>

\* ... until somebody removes it.
Repair ==
    /\ ~running /\ ~stored.parses
    /\ stored' = File(Empty)
    /\ DiskSame
    /\ UNCHANGED <<metadata, created, readers, writer, sessions, sessions_lock, running, unsaved, snap>>

Next ==
    \/ Crash \/ load_metadata \/ Repair
    \/ \E c \in Clients :
         \/ create_snapshot(c) \/ create_disk_only_snapshot(c) \/ create_memory_only_snapshot(c)
         \/ create_snapshot_with_config(c) \/ create_incremental_snapshot(c) \/ migrate_out(c)
         \/ MemoryState(c) \/ create_disk_snapshot(c) \/ InsertEntry(c) \/ save_metadata(c) \/ WriteFile(c)
         \/ Amend(c) \/ restore_snapshot(c) \/ migrate_in(c) \/ restore_disk_snapshot(c)
         \/ delete_snapshot(c) \/ DeleteEntry(c) \/ RemoveFiles(c) \/ gc_old_snapshots(c)
         \/ verify_snapshot(c) \/ Verified(c) \/ transfer_snapshot(c) \/ cancel(c)

SnapshotsSpec == Init /\ [][Next]_snapshotVars
-----------------------------------------------------------------------------
\* However creations, amendments, deletions and collections overlap, once
\* they have returned, and unless the last write failed, the file holds the
\* table: a restart finds exactly the snapshots that were listed.
SavedAtRest ==
    running /\ ~unsaved /\ (\A c \in Clients : snap[c] = NoCall) => stored = File(metadata)

\* What that rests on: nobody changes the table while somebody writes it, so
\* that what is written is the table, and whoever changed it saves it again.
Saving(c) == snap[c].do \in {"remove", "save", "write"}
SnapshotsInv ==
    /\ DOMAIN snap = Clients /\ \A c \in Clients : "do" \in DOMAIN snap[c]
    /\ stored \in {Torn, File(stored.table)}
    /\ \A c \in Clients : snap[c].do = "write" => c \in readers /\ snap[c].content = File(metadata)
    /\ ~running => \A c \in Clients : snap[c].do = "none"
    /\ running /\ ~unsaved => stored = File(metadata) \/ \E c \in Clients : Saving(c)
=============================================================================
