-------------------------------- MODULE Proxy -------------------------------
(* The edge's HTTP proxy (proxy.rs) behind the routing: requests to one    *)
(* upstream with their timeouts, the counters and the pool of idle         *)
(* connections.  forward_request opens a new connection every time and     *)
(* stores it afterwards; taking one out of the pool is public and without  *)
(* a caller in the repository.  And a WebSocket session: a task per        *)
(* direction that forwards frames, and one that waits for the first of     *)
(* them to end.                                                            *)
EXTENDS Naturals, Sequences, SequencesExt, Selection

CONSTANTS Clients,       \* requests at once
          max_idle,
          MaxAge,        \* ticks after which a stored connection is not healthy
          Conns,         \* bound on the connections opened
          MaxFrames      \* bound on the frames each peer sends

VARIABLES idle,          \* the pool, newest last: [conn, age]
          active_count,
          metrics,       \* active_connections; whether failed_requests is above 0
          exchange,      \* per client: its request
          opened         \* connections opened so far

VARIABLES session,       \* "prepared", "open", "ended"
          frames         \* per direction: what was sent, what was forwarded, the task

proxyVars == <<idle, active_count, metrics, exchange, opened>>

Resting == [at |-> "none"]
poolVars == <<idle, active_count>>

ProxyTypeOK ==
    /\ Len(idle) <= max_idle /\ opened \in 0..Conns

\* HttpProxy::new and ConnectionPool::new
Init ==
    /\ idle = <<>> /\ active_count = 0 /\ opened = 0
    /\ metrics = [active |-> 0, failed |-> FALSE]
    /\ exchange = [c \in Clients |-> Resting]

Goes(c, e) == exchange' = [exchange EXCEPT ![c] = e]

-----------------------------------------------------------------------------
\* handle_request counts the request, applies the route's middleware and
\* selects the upstream.
handle_request(c) ==
    /\ exchange[c] = Resting
    /\ metrics' = [metrics EXCEPT !.active = @ + 1]
    /\ \E ws \in BOOLEAN : Goes(c, [at |-> "middleware", ws |-> ws])
    /\ UNCHANGED <<poolVars, opened>>

\* The counting out of a request that came back.
Answered(c, ok) ==
    /\ metrics' = [active |-> metrics.active - 1,
                   failed |-> metrics.failed \/ ~ok]
    /\ Goes(c, Resting)

\* A path that cannot be rebuilt, or no healthy upstream, ends the request.
apply_middleware(c) ==
    /\ exchange[c].at = "middleware"
    /\ \/ Goes(c, [exchange[c] EXCEPT !.at = "connect"]) /\ UNCHANGED metrics
       \/ Answered(c, FALSE)
    /\ UNCHANGED <<poolVars, opened>>

\* create_connection_and_send: connect, within its timeout, and handshake.
create_connection(c) ==
    /\ exchange[c].at = "connect" /\ ~exchange[c].ws
    /\ \/ /\ opened < Conns
          /\ opened' = opened + 1
          /\ Goes(c, [at |-> "send", conn |-> opened + 1])
          /\ UNCHANGED metrics
       \/ Answered(c, FALSE) /\ UNCHANGED opened
    /\ UNCHANGED <<poolVars>>

\* What the pool holds with one more; above max_idle the connection drops.
store_sender(conn) ==
    IF Len(idle) < max_idle THEN Append(idle, [conn |-> conn, age |-> 0]) ELSE idle

\* The upstream answers, the connection is stored and the response gets its
\* headers; or it fails and the connection drops.
send_request(c) ==
    /\ exchange[c].at = "send"
    /\ \/ idle' = store_sender(exchange[c].conn) /\ Answered(c, TRUE)
       \/ Answered(c, FALSE) /\ UNCHANGED idle
    /\ UNCHANGED <<active_count, opened>>

\* handle_websocket, handle_websocket_upgrade: connect and handshake with the
\* backend; the 101 response carries the backend's stream in its extensions.
handle_websocket(c) ==
    /\ exchange[c].at = "connect" /\ exchange[c].ws
    /\ \E ok \in BOOLEAN : Answered(c, ok)
    /\ UNCHANGED <<poolVars, opened>>

\* The request timeout drops the exchange wherever it waits; the response
\* is an error.
TimeOut(c) ==
    /\ exchange[c].at \in {"connect", "send"} /\ (exchange[c].at = "connect" => ~exchange[c].ws)
    /\ Answered(c, FALSE)
    /\ UNCHANGED <<poolVars, opened>>

\* The client's connection ends: the whole handler is dropped, and nothing
\* counts the request out.
Disconnect(c) ==
    /\ exchange[c].at \in {"connect", "send"} /\ metrics.active <= Conns
    /\ Goes(c, Resting)
    /\ UNCHANGED <<poolVars, metrics, opened>>

-----------------------------------------------------------------------------
\* The pool's other operations.

Healthy(e) == e.age < MaxAge

\* try_get_sender: the newest healthy connection is taken; newer ones that
\* are not healthy are dropped on the way.
try_get_sender(c) ==
    LET usable == {i \in DOMAIN idle : Healthy(idle[i])}
        last   == CHOOSE i \in usable : \A j \in usable : j <= i IN
    /\ exchange[c] = Resting /\ idle # <<>>
    /\ IF usable = {}
       THEN idle' = <<>> /\ UNCHANGED <<active_count, exchange>>
       ELSE /\ idle' = SubSeq(idle, 1, last - 1)
            /\ active_count' = active_count + 1
            /\ Goes(c, [at |-> "taken", conn |-> idle[last].conn])
    /\ UNCHANGED <<metrics, opened>>

return_sender(c) ==
    /\ exchange[c].at = "taken"
    /\ active_count' = IF active_count = 0 THEN 0 ELSE active_count - 1
    /\ idle' = store_sender(exchange[c].conn)
    /\ Goes(c, Resting)
    /\ UNCHANGED <<metrics, opened>>

\* prune_expired; the idle timeout is as long as a connection is healthy.
prune_expired ==
    /\ idle' = Retain(idle, {e \in ToSet(idle) : Healthy(e)})
    /\ UNCHANGED <<active_count, metrics, exchange, opened>>

Tick ==
    /\ \E i \in DOMAIN idle : idle[i].age < MaxAge
    /\ idle' = [i \in DOMAIN idle |-> [idle[i] EXCEPT !.age = IF @ < MaxAge THEN @ + 1 ELSE @]]
    /\ UNCHANGED <<active_count, metrics, exchange, opened>>

Next ==
    \/ prune_expired \/ Tick
    \/ \E c \in Clients :
          \/ handle_request(c) \/ apply_middleware(c) \/ create_connection(c)
          \/ send_request(c) \/ TimeOut(c) \/ Disconnect(c)
          \/ try_get_sender(c) \/ return_sender(c) \/ handle_websocket(c)

ProxySpec == Init /\ [][Next]_proxyVars

-----------------------------------------------------------------------------
\* The session.
Directions == {"c2b", "b2c"}

sessionVars == <<session, frames>>

SessionTypeOK == session \in {"prepared", "open", "ended"}

\* The backend's stream waits in the 101 response.
SessionInit ==
    /\ session = "prepared"
    /\ frames = [d \in Directions |-> [sent |-> <<>>, got |-> <<>>, task |-> "none"]]

\* spawn_websocket_proxy forwards both ways, spawn_websocket_forwarding only
\* from the client to the backend.
spawn_websocket(directions) ==
    /\ session = "prepared"
    /\ session' = "open"
    /\ frames' = [d \in Directions |->
                    IF d \in directions THEN [frames[d] EXCEPT !.task = "run"] ELSE frames[d]]

\* A peer sends; a close frame is its last.
PeerSends(d) ==
    LET sent == frames[d].sent IN
    /\ session \in {"open", "ended"} /\ Len(sent) < MaxFrames
    /\ sent # <<>> => Last(sent) # "close"
    /\ \E f \in {"data", "close"} : frames' = [frames EXCEPT ![d].sent = Append(sent, f)]
    /\ UNCHANGED session

\* forward_frames, client_to_backend: one frame; a close frame is passed on
\* and ends the loop.
forward_frame(d) ==
    LET w == frames[d]  f == w.sent[Len(w.got) + 1] IN
    /\ w.task = "run" /\ Len(w.got) < Len(w.sent)
    /\ frames' = [frames EXCEPT ![d] = [w EXCEPT !.got = Append(@, f),
                                                 !.task = IF f = "close" THEN "done" ELSE "run"]]
    /\ UNCHANGED session

\* A stream that ends, or a frame that cannot be written, ends the loop; a
\* last close frame is tried.
BreakOff(d) ==
    /\ frames[d].task = "run"
    /\ \E out \in {frames[d].got, Append(frames[d].got, "close")} :
          frames' = [frames EXCEPT ![d].task = "done", ![d].got = out]
    /\ UNCHANGED session

\* The first direction to end ends the session; the other task is detached
\* and goes on.
SessionEnds ==
    /\ session = "open" /\ \E d \in Directions : frames[d].task = "done"
    /\ session' = "ended"
    /\ UNCHANGED frames

SessionNext ==
    \/ SessionEnds
    \/ \E ds \in {{"c2b"}, Directions} : spawn_websocket(ds)
    \/ \E d \in Directions : PeerSends(d) \/ forward_frame(d) \/ BreakOff(d)
-----------------------------------------------------------------------------
Held(c) == IF exchange[c].at \in {"send", "taken"} THEN {exchange[c].conn} ELSE {}

\* A connection serves one request at a time: it is in the pool once, and
\* not while a request has it, whichever of answers, timeouts and
\* disconnects ended the earlier ones.
SenderExclusive ==
    /\ \A i, j \in DOMAIN idle : i # j => idle[i].conn # idle[j].conn
    /\ \A c \in Clients : Held(c) \cap {idle[i].conn : i \in DOMAIN idle} = {}
    /\ \A c, d \in Clients : c # d => Held(c) \cap Held(d) = {}

\* Whichever task ends first, and however: each peer receives the other's
\* frames in their order and without gaps, and after a close frame nothing.
FramesInOrder ==
    \A d \in Directions :
        LET got == frames[d].got IN
        \/ IsPrefix(got, frames[d].sent)
        \/ IsPrefix(Front(got), frames[d].sent) /\ Last(got) = "close"

\* The connections are numbered as they are opened; a number is in one place.
Exchanges ==
    {Resting} \cup [at : {"middleware", "connect"}, ws : BOOLEAN]
              \cup [at : {"send", "taken"}, conn : 1..opened]
PoolInv ==
    /\ opened \in Nat /\ idle \in Seq([conn : 1..opened, age : Nat])
    /\ exchange \in [Clients -> Exchanges]
    /\ SenderExclusive

\* The first n frames that were forwarded are the first n that were sent.
Follows(w, n) == n <= Len(w.sent) /\ \A i \in 1..n : w.got[i] = w.sent[i]
SessionInv ==
    /\ frames \in [Directions -> [sent : Seq({"data", "close"}), got : Seq({"data", "close"}),
                                  task : {"none", "run", "done"}]]
    /\ session = "prepared" => \A d \in Directions : frames[d].task = "none"
    /\ \A d \in Directions :
         LET w == frames[d] IN
         \/ Follows(w, Len(w.got))
         \/ /\ w.task = "done" /\ Len(w.got) > 0 /\ w.got[Len(w.got)] = "close"
            /\ Follows(w, Len(w.got) - 1)
=============================================================================
