------------------------------ MODULE Backups -------------------------------
(* The backup service (services/backup.rs): the records of backups and the *)
(* schedules, each behind a lock held for one access.  A backup that is    *)
(* being executed rewrites its whole record at every step of its progress. *)
(* Time is counted in days; the wall clock may be set back.                *)
EXTENDS Integers

CONSTANTS Clients, BackupIds, Resources,
          Retentions,   \* the retention periods of schedules, in days
          U32,          \* 2^32, the range of the age computed by run_gc
          MaxDay        \* bound on the clock

VARIABLES backups,      \* id -> record
          schedules,    \* <<resource, retention>> of the schedules created
          backup_task,  \* per client: the method being executed
          day,          \* the wall clock
          latest,       \* the latest day the clock has shown
          born,         \* id -> resource and day of every backup created
          early,        \* ids that the clock was set back behind
          collected     \* ids that a garbage collection chose to delete

backupVars == <<backups, schedules, backup_task, day, latest, born, early, collected>>

BackupsTypeOK ==
    /\ DOMAIN backups \subseteq DOMAIN born
    /\ \A b \in DOMAIN backups : backups[b] \in {"pending", "in_progress", "completed"}
    /\ schedules \subseteq Resources \X Retentions
    /\ day \in 0..MaxDay /\ latest \in 0..MaxDay
    /\ collected \subseteq DOMAIN born

With(f, k, v) == [x \in DOMAIN f \cup {k} |-> IF x = k THEN v ELSE f[x]]

NoTask == [do |-> "none"]

Init ==
    /\ backups = [b \in {} |-> b]
    /\ schedules = {}
    /\ backup_task = [c \in Clients |-> NoTask]
    /\ day = 0
    /\ latest = 0
    /\ born = [b \in {} |-> b]
    /\ early = {}
    /\ collected = {}

Idle(c) == backup_task[c].do = "none"

Task(c, t) == backup_task' = [backup_task EXCEPT ![c] = t]

\* Identifiers have no meaning: the next one drawn stands for any fresh one.
Fresh == IF BackupIds \subseteq DOMAIN born THEN {}
         ELSE {CHOOSE b \in BackupIds : b \notin DOMAIN born}

\* create_backup: the pending record ...
CreateBackup(c) ==
    /\ Idle(c)
    /\ \E b \in Fresh, r \in Resources :
         /\ backups' = With(backups, b, "pending")
         /\ born' = With(born, b, [resource |-> r, day |-> day])
         /\ Task(c, [do |-> "execute", id |-> b])
    /\ UNCHANGED <<schedules, day, latest, early, collected>>

\* ... execute_backup: update_backup inserts the record, whether or not it
\* is still there, with every percentage ...
Progress(c) ==
    /\ backup_task[c].do \in {"execute", "executing"}
    /\ backups' = With(backups, backup_task[c].id, "in_progress")
    /\ Task(c, [backup_task[c] EXCEPT !.do = "executing"])
    /\ UNCHANGED <<schedules, day, latest, born, early, collected>>

\* ... and completed.
Complete(c) ==
    /\ backup_task[c].do = "executing"
    /\ backups' = With(backups, backup_task[c].id, "completed")
    /\ Task(c, NoTask)
    /\ UNCHANGED <<schedules, day, latest, born, early, collected>>

Removed(ids) == backups' = [b \in DOMAIN backups \ ids |-> backups[b]]

DeleteBackup(c) ==
    /\ Idle(c)
    /\ \E b \in DOMAIN backups : Removed({b})
    /\ UNCHANGED <<schedules, backup_task, day, latest, born, early, collected>>

CreateSchedule(c) ==
    /\ Idle(c)
    /\ \A d \in Clients : backup_task[d].do # "collect"
    /\ \E r \in Resources, days \in Retentions : schedules' = schedules \cup {<<r, days>>}
    /\ UNCHANGED <<backups, backup_task, day, latest, born, early, collected>>

\* The age in days as an unsigned number: a creation in the future wraps.
age_days(b) == (day - born[b].day) % U32

\* Mutant: a backup goes on the last day of its retention.
expired_early(b, days) == age_days(b) >= days

expired(b, days) == age_days(b) > days

\* run_gc: for each backup, some schedule of the resource (whichever the map
\* yields first) decides ...
GcChoose(c) ==
    /\ Idle(c)
    /\ \E pick \in [DOMAIN backups -> Retentions] :
         LET doomed == {b \in DOMAIN backups : <<born[b].resource, pick[b]>> \in schedules
                                               /\ expired(b, pick[b])}
         IN /\ Task(c, [do |-> "collect", ids |-> doomed])
            /\ collected' = collected \cup doomed
    /\ UNCHANGED <<backups, schedules, day, latest, born, early>>

\* ... and the chosen ones are deleted one by one, holding the schedules.
GcDelete(c) ==
    /\ backup_task[c].do = "collect"
    /\ IF backup_task[c].ids = {}
       THEN Task(c, NoTask) /\ UNCHANGED backups
       ELSE \E b \in backup_task[c].ids :
              /\ Removed({b})
              /\ Task(c, [backup_task[c] EXCEPT !.ids = @ \ {b}])
    /\ UNCHANGED <<schedules, day, latest, born, early, collected>>

\* The wall clock: a day passes, or it is set back.
NextDay ==
    /\ day < MaxDay
    /\ day' = day + 1
    /\ latest' = IF day' > latest THEN day' ELSE latest
    /\ UNCHANGED <<backups, schedules, backup_task, born, early, collected>>

SetBack ==
    /\ day > 0
    /\ day' = day - 1
    /\ early' = early \cup {b \in DOMAIN born : born[b].day > day'}
    /\ UNCHANGED <<backups, schedules, backup_task, latest, born, collected>>

Next ==
    \/ NextDay \/ SetBack
    \/ \E c \in Clients :
         \/ CreateBackup(c) \/ Progress(c) \/ Complete(c) \/ DeleteBackup(c)
         \/ CreateSchedule(c) \/ GcChoose(c) \/ GcDelete(c)

BackupsSpec == Init /\ [][Next]_backupVars
-----------------------------------------------------------------------------
\* The garbage collector chooses only backups older than the retention of a
\* schedule of their resource, whatever else is created or deleted while it
\* runs, unless the clock was set back behind their creation.
GcSparesFresh ==
    \A b \in collected :
        \E days \in Retentions :
            /\ <<born[b].resource, days>> \in schedules
            /\ latest - born[b].day > days \/ b \in early

\* What that rests on: only a clock set back makes a creation lie ahead.
Tasks == {NoTask} \cup [do : {"execute", "executing"}, id : DOMAIN born]
                  \cup [do : {"collect"}, ids : SUBSET DOMAIN born]

BackupsInv ==
    /\ day \in Nat /\ latest \in Nat /\ day <= latest
    /\ \A b \in DOMAIN born : born[b].day \in Nat
    /\ \A b \in DOMAIN born : b \in early \/ born[b].day <= day
    /\ DOMAIN backups \subseteq DOMAIN born /\ collected \subseteq DOMAIN born
    /\ backup_task \in [Clients -> Tasks]
    /\ GcSparesFresh
=============================================================================
