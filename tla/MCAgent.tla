------------------------------ MODULE MCAgent ------------------------------
(* An agent that is asked to run three applications, and in which any step  *)
(* may fail, a VM may die and the agent may be restarted; the link such an  *)
(* agent has to the control plane, which may be lost once; and its          *)
(* snapshots, two calls on two of them.  The link's cache is the agent's,   *)
(* whose commands come in any order, and a snapshot finds its VM as Vmm     *)
(* leaves it, so one run explores each by itself: `part` says which moves.  *)
EXTENDS Agent

CONSTANTS a1, a2, a3, LinkApps, SnapshotCalls, SnapshotIds, KeepCounts

ThreeApps == {a1, a2, a3}
AllFaults == {"prepare", "network", "validate", "spawn", "configure", "boot",
              "boot_lost", "die", "restart"}

VARIABLES part, mutex, hb, cc, connected, inbox, listed, sent, losses,
          metadata, stored, files, disks, created, readers, table_writer, sessions,
          sessions_lock, running, unsaved, snap

Link == INSTANCE AgentLink WITH Apps <- LinkApps, MaxCommands <- 3, MaxLosses <- 1,
          cache <- listed
Snap == INSTANCE Snapshots WITH Clients <- SnapshotCalls, Ids <- SnapshotIds,
          writer <- table_writer

linkVars == <<mutex, hb, cc, connected, inbox, listed, sent, losses>>
snapshotVars == <<metadata, stored, files, disks, created, readers, table_writer, sessions,
                  sessions_lock, running, unsaved, snap>>
nodeVars == <<part, vars, linkVars, snapshotVars>>

\* The last target of a call, which nothing reads before the next one, is
\* varied only where the agent moves.
NodeInit ==
    /\ Init /\ Link!Init /\ Snap!Init
    /\ part \in {"agent", "link", "snapshots"}
    /\ part # "agent" => target[Rec] = a1

NodeNext ==
    /\ UNCHANGED part
    /\ \/ part = "agent" /\ Next /\ UNCHANGED <<linkVars, snapshotVars>>
       \/ part = "link" /\ Link!Next /\ UNCHANGED <<vars, snapshotVars>>
       \/ part = "snapshots" /\ Snap!Next /\ UNCHANGED <<vars, linkVars>>

\* The fairness of each part's own specification.
NodeSpec ==
    /\ NodeInit /\ [][NodeNext]_nodeVars
    /\ WF_nodeVars(part = "agent" /\ Reconcile /\ UNCHANGED <<part, linkVars, snapshotVars>>)
    /\ WF_nodeVars(part = "link" /\ Link!Heartbeat /\ UNCHANGED <<part, vars, snapshotVars>>)
    /\ WF_nodeVars(part = "link" /\ Link!Consumer /\ UNCHANGED <<part, vars, snapshotVars>>)

\* Link: every message that reaches a connected agent is handled, unless the
\* connection is lost first.
MessagesHandled == Link!MessagesHandled

\* Snapshots: at rest, and unless the last write failed, the file holds the
\* table, so that a restart finds what was listed.
SavedAtRest == Snap!SavedAtRest
=============================================================================
