----------------------------- MODULE AgentLink -----------------------------
(***************************************************************************)
(* The agent's link to the control plane (shellwego-agent, daemon.rs):     *)
(* the heartbeat loop and the command consumer share one QuinnClient       *)
(* behind a tokio mutex.                                                   *)
(*                                                                         *)
(* The mutex is a queue of waiting tasks whose head holds it.  A guard     *)
(* that is a temporary of a `match` or `if let` lives to the end of that   *)
(* statement (edition 2021): the consumer holds the mutex while it waits   *)
(* for a command and through the arm that handles it, the heartbeat loop   *)
(* through the body that reconnects.                                       *)
(***************************************************************************)
EXTENDS Integers, Selection

CONSTANTS Apps,           \* application ids of the commands
          MaxCommands,    \* bound on the commands the control plane sends
          MaxLosses       \* bound on the losses of the connection

VARIABLES mutex,      \* tasks holding (head) or waiting for the client's mutex
          hb,         \* where the heartbeat loop is
          cc,         \* where the command consumer is
          connected,  \* "up" or "down": the state of the client's connection
          inbox,      \* commands delivered and not yet received
          cache,      \* app ids of the desired-state cache
          sent,       \* commands the control plane has sent
          losses      \* losses of the connection so far

vars == <<mutex, hb, cc, connected, inbox, cache, sent, losses>>

\* A message of the control plane; "other" is one the agent ignores,
\* "garbled" one that does not deserialize.
Messages == [kind : {"schedule", "terminate", "other", "garbled"}, app : Apps]

Holds(ticket)   == mutex # <<>> /\ Head(mutex) = ticket
Enqueue(ticket) == mutex' = Append(mutex, ticket)

\* register has connected and sent the registration before the tasks start.
Init ==
    /\ mutex = <<>>
    /\ hb = "sleeping" /\ cc = "ready"
    /\ connected = "up"
    /\ inbox = <<>> /\ cache = {} /\ sent = 0 /\ losses = 0

-----------------------------------------------------------------------------
\* heartbeat_loop: the ticker fires and the mutex is requested for send.
HbTick ==
    /\ hb = "sleeping"
    /\ Enqueue("send")
    /\ hb' = "send"
    /\ UNCHANGED <<cc, connected, inbox, cache, sent, losses>>

\* send fails; the body asks again for the mutex, the first guard still alive.
HbSendFails ==
    /\ hb = "send" /\ Holds("send")
    /\ connected = "down"
    /\ Enqueue("reconnect")
    /\ hb' = "reconnect"
    /\ UNCHANGED <<cc, connected, inbox, cache, sent, losses>>

\* The loop gets the mutex it waits for and its call ends: send succeeds, or
\* connect returns and its result is ignored.  The statement's guards go.
HbCall ==
    /\ hb # "sleeping" /\ Holds(hb)
    /\ hb = "send" => connected = "up"
    /\ connected' \in IF hb = "reconnect" THEN {"up", "down"} ELSE {connected}
    /\ mutex' = Retain(mutex, {"cc"})
    /\ hb' = "sleeping"
    /\ UNCHANGED <<cc, inbox, cache, sent, losses>>

\* command_consumer: the mutex is requested at the top of the loop.
CcLock ==
    /\ cc = "ready"
    /\ Enqueue("cc")
    /\ cc' = "receive"
    /\ UNCHANGED <<hb, connected, inbox, cache, sent, losses>>

\* Mutant: the arms run on a copy of the message left in the stream.
CcReceiveAgain ==
    /\ cc = "receive" /\ Holds("cc")
    /\ inbox # <<>>
    /\ mutex' = Tail(mutex)
    /\ cc' = "ready"
    /\ UNCHANGED <<inbox, cache, hb, connected, sent, losses>>

\* receive returns a message; the arm for its kind updates the cache.
CcReceive ==
    /\ cc = "receive" /\ Holds("cc")
    /\ inbox # <<>> /\ Head(inbox).kind # "garbled"
    /\ LET msg == Head(inbox)
       IN  cache' = CASE msg.kind = "schedule"  -> cache \cup {msg.app}
                      [] msg.kind = "terminate" -> cache \ {msg.app}
                      [] OTHER                  -> cache
    /\ inbox' = Tail(inbox)
    /\ mutex' = Tail(mutex)
    /\ cc' = "ready"
    /\ UNCHANGED <<hb, connected, sent, losses>>

\* receive returns an error; the arm sleeps five seconds, mutex held.
CcError ==
    /\ cc = "receive" /\ Holds("cc")
    /\ \/ inbox = <<>> /\ connected = "down" /\ UNCHANGED inbox
       \/ inbox # <<>> /\ Head(inbox).kind = "garbled" /\ inbox' = Tail(inbox)
    /\ cc' = "backoff"
    /\ UNCHANGED <<mutex, hb, connected, cache, sent, losses>>

CcBackoffEnds ==
    /\ cc = "backoff"
    /\ mutex' = Tail(mutex)
    /\ cc' = "ready"
    /\ UNCHANGED <<hb, connected, inbox, cache, sent, losses>>

-----------------------------------------------------------------------------
\* External: the control plane sends a message over the connection.
Deliver(msg) ==
    /\ connected = "up" /\ sent < MaxCommands
    /\ inbox' = Append(inbox, msg)
    /\ sent' = sent + 1
    /\ UNCHANGED <<mutex, hb, cc, connected, cache, losses>>

\* External: the connection is lost with the messages not yet accepted.
LoseConnection ==
    /\ connected = "up" /\ losses < MaxLosses
    /\ connected' = "down"
    /\ inbox' = <<>>
    /\ losses' = losses + 1
    /\ UNCHANGED <<mutex, hb, cc, cache, sent>>

Heartbeat == HbTick \/ HbSendFails \/ HbCall
Consumer  == CcLock \/ CcReceive \/ CcError \/ CcBackoffEnds

Next ==
    \/ Heartbeat \/ Consumer
    \/ \E msg \in Messages : Deliver(msg)
    \/ LoseConnection

Spec == Init /\ [][Next]_vars

\* Both tasks are polled by the runtime whenever they can make progress.
FairSpec == Spec /\ WF_vars(Heartbeat) /\ WF_vars(Consumer)

-----------------------------------------------------------------------------
\* Types, and the mutex queue agrees with where the tasks are: a task has a
\* ticket exactly from its request to the end of its statement, and none has
\* two for the same request.
TypeOK ==
    /\ hb \in {"sleeping", "send", "reconnect"}
    /\ cc \in {"ready", "receive", "backoff"}
    /\ connected \in {"up", "down"}
    /\ cache \subseteq Apps /\ inbox \in Seq(Messages)
    /\ mutex \in Seq({"cc", "send", "reconnect"}) /\ Distinct(mutex)
    /\ In("cc", mutex) <=> cc # "ready"
    /\ In("send", mutex) <=> hb # "sleeping"
    /\ In("reconnect", mutex) <=> hb = "reconnect"

\* The consumer backs off, and the loop asks to reconnect, each with the mutex
\* in its hands.
LinkInv ==
    /\ TypeOK
    /\ cc = "backoff" => Holds("cc")
    /\ hb = "reconnect" => Holds("send") /\ connected = "down"

\* A heartbeat that could not be sent asks for the mutex that its own statement
\* holds: from then on it waits, the agent stays disconnected, and no command
\* changes what it is to run.
StuckForGood ==
    [][hb = "reconnect" => hb' = "reconnect" /\ connected' = "down" /\ cache' = cache]_vars

\* Every message that reaches a connected agent is handled, unless the
\* connection is lost first.
MessagesHandled == inbox # <<>> ~> inbox = <<>>

\* "Workers automatically re-register", "Heartbeat lost: {}. Reconnecting...":
\* after a loss the agent gets to call connect.
ReconnectAttempted == connected = "down" ~> hb = "reconnect" /\ Holds("reconnect")
=============================================================================
