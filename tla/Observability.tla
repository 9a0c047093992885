--------------------------- MODULE Observability ---------------------------
(* The log aggregator (observability, logs.rs): lines are broadcast to the *)
(* subscribers and pushed to a buffer; the call that fills the buffer      *)
(* takes all of it and sends it to Loki.  The periodic task signals a      *)
(* channel whose receiver was dropped in the constructor, so it sends      *)
(* nothing.                                                                *)
(*                                                                         *)
(* Metrics and traces (metrics.rs, tracing.rs).  A metric is registered    *)
(* with Prometheus and then entered into a table of its kind; a span takes *)
(* over the trace and the sampling decision of its parent, and is queued   *)
(* for the collector when it ends.                                         *)
EXTENDS Naturals, Sequences, FiniteSets, SequencesExt

CONSTANTS Clients,      \* concurrent calls
          batch_size,   \* LogConfig::batch_size
          capacity,     \* of the broadcast channel
          MaxEntries,   \* bound on the lines ingested
          Names,        \* of metrics
          Spans,        \* bound: the spans that can be started
          max_queue_size        \* BatchExportConfig::max_queue_size

VARIABLES buffer,
          ingested,     \* number of lines so far: line n is entry n
          logging,      \* per client: the call being executed
          delivered,    \* the pushes Loki accepted, in order
          lost,         \* lines of pushes that failed
          rx,           \* the subscriber's queue
          registry,     \* the names Prometheus knows
          tables,       \* kind -> names
          metering,     \* per client: the registration being executed
          spans,        \* span -> its context and status
          queue,        \* ended spans not exported yet
          exported,
          provider      \* the tracer provider is up

logVars == <<buffer, ingested, logging, delivered, lost, rx>>

Idle == [do |-> "none"]

LogsTypeOK ==
    /\ ingested \in 0..MaxEntries
    /\ ToSet(buffer) \subseteq 1..ingested /\ lost \subseteq 1..ingested
    /\ Len(rx.queue) <= capacity

\* LogAggregator::new and start_flush_task
Init ==
    /\ buffer = <<>> /\ ingested = 0 /\ delivered = <<>> /\ lost = {}
    /\ logging = [c \in Clients |-> Idle]
    /\ rx = [open |-> FALSE, queue |-> <<>>, lagged |-> FALSE]

Goes(c, t) == logging' = [logging EXCEPT ![c] = t]

\* A full channel drops its oldest line for a subscriber that lags behind.
Broadcast(e) ==
    IF ~rx.open THEN rx
    ELSE IF Len(rx.queue) < capacity THEN [rx EXCEPT !.queue = Append(@, e)]
    ELSE [rx EXCEPT !.queue = Append(Tail(@), e), !.lagged = TRUE]

\* ingest and ingest_structured: broadcast ...
ingest(c) ==
    /\ logging[c] = Idle /\ ingested < MaxEntries
    /\ ingested' = ingested + 1
    /\ rx' = Broadcast(ingested + 1)
    /\ Goes(c, [do |-> "push", entry |-> ingested + 1])
    /\ UNCHANGED <<buffer, delivered, lost>>

\* ... and buffered; a full buffer is to be flushed, after the lock was
\* given back.
Push(c) ==
    LET full == Len(buffer) + 1 >= batch_size IN
    /\ logging[c].do = "push"
    /\ buffer' = Append(buffer, logging[c].entry)
    /\ Goes(c, IF full THEN [do |-> "flush"] ELSE Idle)
    /\ UNCHANGED <<ingested, delivered, lost, rx>>

\* flush of a caller, and the first step of the handle's shutdown
CallFlush(c) ==
    /\ logging[c] = Idle
    /\ Goes(c, [do |-> "flush"])
    /\ UNCHANGED <<buffer, ingested, delivered, lost, rx>>

\* Mutant: the lines are copied, and removed only when they were sent.
taken_copied(b) == b

\* What is left of the buffer: its lines are moved out.
taken(b) == <<>>

\* flush: the whole buffer is taken under its lock ...
flush(c) ==
    /\ logging[c].do = "flush"
    /\ Goes(c, IF buffer = <<>> THEN Idle ELSE [do |-> "send", entries |-> buffer])
    /\ buffer' = taken(buffer)
    /\ UNCHANGED <<ingested, delivered, lost, rx>>

\* ... and sent; without a Loki, or when it refuses, the lines are gone,
\* whatever buffer_on_failure says.
send_to_loki(c) ==
    /\ logging[c].do = "send"
    /\ \/ delivered' = delivered \o logging[c].entries /\ UNCHANGED lost
       \/ lost' = lost \cup ToSet(logging[c].entries) /\ UNCHANGED delivered
    /\ Goes(c, Idle)
    /\ UNCHANGED <<buffer, ingested, rx>>

\* stream: a subscriber sees the lines broadcast from now on.
stream ==
    /\ ~rx.open
    /\ rx' = [open |-> TRUE, queue |-> <<>>, lagged |-> FALSE]
    /\ UNCHANGED <<buffer, ingested, logging, delivered, lost>>

\* recv, try_recv: a subscriber that lagged is told so once.
recv ==
    /\ rx.open /\ (rx.lagged \/ rx.queue # <<>>)
    /\ rx' = IF rx.lagged THEN [rx EXCEPT !.lagged = FALSE] ELSE [rx EXCEPT !.queue = Tail(@)]
    /\ UNCHANGED <<buffer, ingested, logging, delivered, lost>>

Next ==
    \/ stream \/ recv
    \/ \E c \in Clients : ingest(c) \/ Push(c) \/ CallFlush(c) \/ flush(c) \/ send_to_loki(c)

LogsSpec == Init /\ [][Next]_logVars
-----------------------------------------------------------------------------
\* Where a line can be.
Places == {"new", "waiting", "sent", "delivered", "lost"}
At(p) ==
    CASE p = "new"       -> {logging[c].entry : c \in {d \in Clients : logging[d].do = "push"}}
      [] p = "waiting"   -> ToSet(buffer)
      [] p = "sent"      -> UNION {ToSet(logging[c].entries) :
                                      c \in {d \in Clients : logging[d].do = "send"}}
      [] p = "delivered" -> ToSet(delivered)
      [] p = "lost"      -> lost

\* However ingests and flushes overlap, every line is in one place: waiting,
\* being sent, delivered once, or lost with a push that failed; and once the
\* calls have returned less than a batch is waiting.
LinesAccounted ==
    /\ IsInjective(delivered) /\ IsInjective(buffer)
    /\ \A e \in 1..ingested : Cardinality({p \in Places : e \in At(p)}) = 1
    /\ (\A c \in Clients : logging[c] = Idle) => Len(buffer) < batch_size

\* Two calls do not carry the same line either, no batch has one twice, and
\* a full buffer has a call that is about to take it.
Carried(c) ==
    IF logging[c].do = "push" THEN {logging[c].entry}
    ELSE IF logging[c].do = "send" THEN ToSet(logging[c].entries) ELSE {}
Batches == {s \in Seq(1..ingested) : IsInjective(s)}
Calls ==
    {Idle, [do |-> "flush"]} \cup [do : {"push"}, entry : 1..ingested]
                             \cup [do : {"send"}, entries : Batches]
Apart ==
    /\ ToSet(buffer) \cap ToSet(delivered) = {}
    /\ (ToSet(buffer) \cup ToSet(delivered)) \cap lost = {}
    /\ \A c \in Clients :
          /\ Carried(c) \cap (ToSet(buffer) \cup ToSet(delivered) \cup lost) = {}
          /\ \A d \in Clients \ {c} : Carried(c) \cap Carried(d) = {}
Kept ==
    1..ingested \subseteq ToSet(buffer) \cup ToSet(delivered) \cup lost
                              \cup UNION {Carried(c) : c \in Clients}
LogsInv ==
    /\ ingested \in Nat /\ buffer \in Batches /\ delivered \in Batches /\ lost \subseteq 1..ingested
    /\ logging \in [Clients -> Calls]
    /\ Apart /\ Kept
    /\ Len(buffer) >= batch_size => \E c \in Clients : logging[c].do = "flush"

-----------------------------------------------------------------------------
\* Metrics and traces.
telemetryVars == <<registry, tables, metering, spans, queue, exported, provider>>

Kinds == {"counter", "gauge", "histogram"}

TelemetryTypeOK ==
    /\ registry \subseteq Names
    /\ tables \in [Kinds -> SUBSET Names]
    /\ DOMAIN spans \subseteq Spans
    /\ queue \subseteq DOMAIN spans /\ Cardinality(queue) <= max_queue_size

\* MetricsRegistry::new; TracingPipeline::init
TelemetryInit ==
    /\ registry = {} /\ tables = [k \in Kinds |-> {}]
    /\ metering = [c \in Clients |-> Idle]
    /\ spans = [s \in {} |-> s] /\ queue = {} /\ exported = {}
    /\ provider = TRUE

SpansSame   == UNCHANGED <<spans, queue, exported, provider>>
MetricsSame == UNCHANGED <<registry, tables, metering>>
Enters(c, t) == metering' = [metering EXCEPT ![c] = t]

\* register_counter, register_gauge, register_histogram: a name that is
\* known is refused, whatever its kind ...
Register(c, k, n) ==
    IF n \in registry THEN Enters(c, Idle) /\ UNCHANGED registry
    ELSE Enters(c, [do |-> "insert", kind |-> k, name |-> n]) /\ registry' = registry \cup {n}

register(c) ==
    /\ metering[c] = Idle
    /\ \E k \in Kinds, n \in Names : Register(c, k, n)
    /\ SpansSame /\ UNCHANGED tables

\* ... and entered afterwards.
InsertMetric(c) ==
    /\ metering[c].do = "insert"
    /\ tables' = [tables EXCEPT ![metering[c].kind] = @ \cup {metering[c].name}]
    /\ Enters(c, Idle)
    /\ SpansSame /\ UNCHANGED registry

\* get_or_create_*: the table is looked up under its own lock; of two callers
\* that find nothing one gets an error.
get_or_create(c) ==
    /\ metering[c] = Idle
    /\ \E k \in Kinds : \E n \in Names \ tables[k] : Enters(c, [do |-> "register", kind |-> k, name |-> n])
    /\ SpansSame /\ UNCHANGED <<registry, tables>>
CreateMetric(c) ==
    /\ metering[c].do = "register"
    /\ Register(c, metering[c].kind, metering[c].name)
    /\ SpansSame /\ UNCHANGED tables

\* Mutant: the flag of the parent is not passed on.
sampled_of_any(p) == BOOLEAN

\* The default sampler follows the parent; a root is sampled as its strategy
\* says.
sampled_of(p) == IF p = {} THEN BOOLEAN ELSE {spans[q].sampled : q \in p}
trace_of(s, p) == IF p = {} THEN s ELSE spans[CHOOSE q \in p : TRUE].trace

\* start_span, start_child_span: with the context of a parent (also one that
\* came in the headers of a request), or none.
start_span ==
    /\ provider
    /\ \E s \in Spans \ DOMAIN spans :
         /\ s = CHOOSE t \in Spans \ DOMAIN spans : TRUE
         /\ \E p \in {{}} \cup {{q} : q \in DOMAIN spans} : \E b \in sampled_of(p) :
              spans' = [t \in DOMAIN spans \cup {s} |->
                          IF t = s THEN [trace |-> trace_of(s, p), sampled |-> b, status |-> "Unset", ended |-> FALSE]
                          ELSE spans[t]]
    /\ MetricsSame /\ UNCHANGED <<queue, exported, provider>>

\* set_status, ok, record_error: ended or unsampled spans do not record, and
\* a status gives way to a stronger one only.
Rank(status) == CASE status = "Unset" -> 0 [] status = "Error" -> 1 [] status = "Ok" -> 2
set_status ==
    /\ \E s \in DOMAIN spans, status \in {"Error", "Ok"} :
         /\ ~spans[s].ended /\ spans[s].sampled /\ Rank(status) > Rank(spans[s].status)
         /\ spans' = [spans EXCEPT ![s].status = status]
    /\ MetricsSame /\ UNCHANGED <<queue, exported, provider>>

\* end: a sampled span is queued, or dropped when the queue is full.
end ==
    /\ \E s \in DOMAIN spans :
         /\ ~spans[s].ended
         /\ spans' = [spans EXCEPT ![s].ended = TRUE]
         /\ queue' = IF spans[s].sampled /\ provider /\ Cardinality(queue) < max_queue_size
                     THEN queue \cup {s} ELSE queue
    /\ MetricsSame /\ UNCHANGED <<exported, provider>>

\* The batch is exported in time, or by force_flush; a failure loses it.
force_flush ==
    /\ queue # {}
    /\ exported' \in {exported, exported \cup queue}
    /\ queue' = {}
    /\ MetricsSame /\ UNCHANGED <<spans, provider>>

\* shutdown: a failing flush leaves the provider up.
shutdown ==
    /\ provider
    /\ \/ provider' = FALSE /\ exported' = exported \cup queue
       \/ UNCHANGED <<provider, exported>>
    /\ queue' = {}
    /\ MetricsSame /\ UNCHANGED spans

TelemetryNext ==
    \/ start_span \/ set_status \/ end \/ force_flush \/ shutdown
    \/ \E c \in Clients : register(c) \/ InsertMetric(c) \/ get_or_create(c) \/ CreateMetric(c)

TelemetrySpec == TelemetryInit /\ [][TelemetryNext]_telemetryVars
-----------------------------------------------------------------------------
\* What reaches the collector of a trace is of one piece: either none of its
\* spans is exported or all of them were meant to be.
TracesWhole ==
    \A s \in exported : \A t \in DOMAIN spans : spans[t].trace = spans[s].trace => spans[t].sampled

\* A span is of a trace that a span began, the spans of a trace are sampled
\* alike, and only sampled ones are queued and exported.
TracesInv ==
    /\ spans \in [DOMAIN spans -> [trace : DOMAIN spans, sampled : BOOLEAN,
                                   status : {"Unset", "Error", "Ok"}, ended : BOOLEAN]]
    /\ \A s, t \in DOMAIN spans :
          spans[s].trace = spans[t].trace => spans[s].sampled = spans[t].sampled
    /\ \A s \in queue \cup exported : s \in DOMAIN spans /\ spans[s].sampled
=============================================================================
