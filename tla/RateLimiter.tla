---------------------------- MODULE RateLimiter ----------------------------
(***************************************************************************)
(* The token-bucket rate limiter of the control plane                      *)
(* (services/rate_limiter.rs) and the Retry-After header of the middleware *)
(* that uses it (api/middleware.rs).                                       *)
(*                                                                         *)
(* Rules and buckets are behind two locks: a check copies the matching     *)
(* rule, lets the first lock go and charges the bucket under the second,   *)
(* so the rule it charges by may be gone by then.                          *)
(*                                                                         *)
(* Time is counted in ticks, Second of them to a second (the code's        *)
(* milliseconds), and tokens in parts, Second of them to a token: a tick   *)
(* at rate r adds r parts.  The code's f64 seconds are exact here; the     *)
(* truncation of a wait to whole ticks and of the header to whole seconds  *)
(* is kept.                                                                *)
(***************************************************************************)
EXTENDS Integers, FiniteSets, FiniteSetsExt

CONSTANTS Clients,       \* requests in flight at once
          Keys,          \* rate limit keys
          Rules,         \* the rules that may be added
          Default,       \* the rule used when none matches
          Costs,         \* tokens a request may ask for
          Second,        \* ticks in a second
          StaleAfter,    \* ticks after which cleanup drops a bucket
          MaxTime        \* bound on the clock

\* A rule, its pattern given as the keys it matches.  `delay` is the bound
\* of the Throttle action, in ticks.
RuleType == [id : STRING, keys : SUBSET Keys, rate : Nat, burst : Nat,
             action : {"Reject", "Delay", "Throttle"}, delay : Nat, enabled : BOOLEAN]

AllRules == Rules \cup {Default}

\* Rates and bursts are u32s: among those of the rules one is the largest.
ASSUME LimiterAssumption ==
    /\ Rules \subseteq RuleType /\ Default \in RuleType
    /\ \E r \in AllRules : \A s \in AllRules : s.rate <= r.rate
    /\ \E r \in AllRules : \A s \in AllRules : s.burst <= r.burst
    /\ Default.action = "Reject"
    /\ Second \in Nat \ {0} /\ StaleAfter \in Nat /\ MaxTime \in Nat
    /\ Costs \subseteq Nat

VARIABLES rules,      \* the rules in force
          buckets,    \* partial function: key -> bucket
          call,       \* what each client has looked up and will charge
          now,        \* the clock
          history,    \* per key: undelayed tokens granted since it was reset
          promise     \* per key: the Retry-After answer still to be honoured

vars == <<rules, buckets, call, now, history, promise>>

NoCall    == [op |-> "none"]
NoPromise == [due |-> -1]

-----------------------------------------------------------------------------
NewBucket(rule) ==
    [tokens |-> rule.burst * Second, last |-> now, rate |-> rule.rate, burst |-> rule.burst]

BucketOf(key, rule) == IF key \in DOMAIN buckets THEN buckets[key] ELSE NewBucket(rule)

Refill(b) ==
    [b EXCEPT !.tokens = Min({b.tokens + (now - b.last) * b.rate, b.burst * Second}),
              !.last = now]

\* The ticks until a refilled bucket has `cost` tokens, truncated.
Wait(b, cost) == (cost * Second - b.tokens) \div b.rate

Store(key, b) == [k \in DOMAIN buckets \cup {key} |-> IF k = key THEN b ELSE buckets[k]]

\* Mutant: the header is the truncated wait in seconds.
RetryAfterTruncated(wait) == wait \div Second

\* The middleware's header, in seconds.
RetryAfter(wait) == wait \div Second + 1

Init ==
    /\ rules = {}
    /\ buckets = [k \in {} |-> NoCall]
    /\ call = [c \in Clients |-> NoCall]
    /\ now = 0
    /\ history = [k \in Keys |-> [since |-> 0, granted |-> 0]]
    /\ promise = [k \in Keys |-> NoPromise]

\* add_rule replaces a rule with the same id.
AddRule(rule) ==
    /\ rules' = {r \in rules : r.id # rule.id} \cup {rule}
    /\ UNCHANGED <<buckets, call, now, history, promise>>

RemoveRule(rule) ==
    /\ rule \in rules
    /\ rules' = rules \ {rule}
    /\ UNCHANGED <<buckets, call, now, history, promise>>

\* find_matching_rule: with several matches the hash map's order decides.
Matching(key) == {r \in rules : r.enabled /\ key \in r.keys}

Lookup(c, op, key, cost) ==
    /\ call[c] = NoCall
    /\ \E rule \in IF Matching(key) = {} THEN {Default} ELSE Matching(key) :
          call' = [call EXCEPT ![c] = [op |-> op, key |-> key, cost |-> cost, rule |-> rule]]
    /\ UNCHANGED <<rules, buckets, now, history, promise>>

\* check_with_cost, second half, when the bucket has the tokens.
Grant(key, b, cost) ==
    /\ b.tokens >= cost * Second
    /\ buckets' = Store(key, [b EXCEPT !.tokens = @ - cost * Second])
    /\ history' = [history EXCEPT ![key].granted = @ + cost]
    /\ promise' = [promise EXCEPT ![key] = NoPromise]

\* The answer to a refused request.
Answer(b, cost) ==
    [due |-> now + RetryAfter(Wait(b, cost)) * Second, cost |-> cost,
     rate |-> b.rate, burst |-> b.burst]

\* A bucket without the tokens refuses the request, or admits it with a
\* delay.
Refused(b, cost, rule) ==
    \/ rule.action = "Reject"
    \/ rule.action = "Throttle" /\ Wait(b, cost) > rule.delay

\* The key has been given an answer, under the bucket's parameters.
Standing(key, b) ==
    /\ promise[key] # NoPromise
    /\ promise[key].rate = b.rate /\ promise[key].burst = b.burst

\* ... and when it has not.  Delay and Throttle ask for the tokens again at
\* once, and so take none.  A rate of zero makes the wait infinite and its
\* conversion panic, after the refill.  What is to be honoured is the first
\* answer a key got under the parameters in force; a request for more than
\* the bucket can hold has none.
Refuse(key, b, cost, rule) ==
    /\ b.tokens < cost * Second
    /\ buckets' = Store(key, b)
    /\ promise' = [promise EXCEPT ![key] =
          IF Standing(key, b) THEN @
          ELSE IF b.rate > 0 /\ cost <= b.burst /\ Refused(b, cost, rule)
          THEN Answer(b, cost)
          ELSE NoPromise]
    /\ UNCHANGED history

\* The bucket takes the parameters of the rule that was looked up.
Charge(c) ==
    LET key  == call[c].key
        rule == call[c].rule
        b    == Refill([BucketOf(key, rule) EXCEPT !.rate = rule.rate, !.burst = rule.burst])
    IN  /\ call[c] # NoCall /\ call[c].op = "check"
        /\ Grant(key, b, call[c].cost) \/ Refuse(key, b, call[c].cost, rule)
        /\ call' = [call EXCEPT ![c] = NoCall]
        /\ UNCHANGED <<rules, now>>

\* reserve: a refill with the bucket's own parameters; nothing is taken.  A
\* bucket it creates may have other parameters than those of the answer the
\* key was given, which ends that answer.
Reserve(c) ==
    LET key == call[c].key
        b   == BucketOf(key, call[c].rule)
    IN  /\ call[c] # NoCall /\ call[c].op = "reserve"
        /\ buckets' = Store(key, Refill(b))
        /\ promise' = [promise EXCEPT ![key] = IF Standing(key, b) THEN @ ELSE NoPromise]
        /\ call' = [call EXCEPT ![c] = NoCall]
        /\ UNCHANGED <<rules, now, history>>

GetState(key) ==
    /\ key \in DOMAIN buckets
    /\ buckets' = Store(key, Refill(buckets[key]))
    /\ UNCHANGED <<rules, call, now, history, promise>>

Reset(key) ==
    /\ buckets' = [k \in DOMAIN buckets \ {key} |-> buckets[k]]
    /\ history' = [history EXCEPT ![key] = [since |-> now, granted |-> 0]]
    /\ promise' = [promise EXCEPT ![key] = NoPromise]
    /\ UNCHANGED <<rules, call, now>>

\* Mutant: a bucket is dropped one tick after its last use.
CleanupEarly ==
    /\ buckets' = [k \in {j \in DOMAIN buckets : now - buckets[j].last < 1} |-> buckets[k]]
    /\ UNCHANGED <<rules, call, now, history, promise>>

Cleanup ==
    /\ buckets' = [k \in {j \in DOMAIN buckets : now - buckets[j].last < StaleAfter} |->
                      buckets[k]]
    /\ UNCHANGED <<rules, call, now, history, promise>>

Tick ==
    /\ now < MaxTime
    /\ now' = now + 1
    /\ UNCHANGED <<rules, buckets, call, history, promise>>

Next ==
    \/ \E rule \in Rules : AddRule(rule) \/ RemoveRule(rule)
    \/ \E c \in Clients :
          \/ \E op \in {"check", "reserve"}, key \in Keys, cost \in Costs :
                Lookup(c, op, key, cost)
          \/ Charge(c) \/ Reserve(c)
    \/ \E key \in Keys : GetState(key) \/ Reset(key)
    \/ Cleanup
    \/ Tick

Spec == Init /\ [][Next]_vars

-----------------------------------------------------------------------------
MaxRate  == Max({r.rate : r \in AllRules})
MaxBurst == Max({r.burst : r \in AllRules})

\* Types; a bucket never holds more than some rule's burst, nor less than
\* nothing.
TypeOK ==
    /\ rules \subseteq Rules
    /\ DOMAIN buckets \subseteq Keys
    /\ \A k \in DOMAIN buckets :
          /\ buckets[k].tokens \in 0 .. MaxBurst * Second
          /\ buckets[k].last \in 0 .. now
    /\ \A c \in Clients : call[c] = NoCall \/ call[c].rule \in AllRules

\* Whatever rules come and go between a lookup and its charge, and whatever
\* cleanup forgets, a key is granted no more undelayed tokens than one burst
\* and the refill of the time since it was reset.  For cleanup that needs
\* that a bucket is full again when it is dropped.
GrantsBounded ==
    MaxRate * StaleAfter >= MaxBurst * Second =>
        \A k \in Keys :
            history[k].granted * Second
                <= MaxBurst * Second + MaxRate * (now - history[k].since)

\* What a request for the key would find in its bucket now.
Available(k) ==
    IF k \in DOMAIN buckets
    THEN Min({buckets[k].tokens + (now - buckets[k].last) * buckets[k].rate,
              buckets[k].burst * Second})
    ELSE promise[k].burst * Second

\* The Retry-After of a refused request is long enough in spite of its two
\* truncations, and stays so: neither other refused requests, nor reserve,
\* nor a look at the state, nor cleanup push the time back.
RetryAfterHonoured ==
    \A k \in Keys : promise[k] # NoPromise /\ now >= promise[k].due =>
        Available(k) >= promise[k].cost * Second

\* What they rest on.  What a key was granted and what its bucket holds are
\* covered by one burst and the refill up to the bucket's last use; without a
\* bucket, by the refill alone.
Covered(k) ==
    IF k \in DOMAIN buckets
    THEN history[k].granted * Second + buckets[k].tokens
            <= MaxBurst * Second + MaxRate * (buckets[k].last - history[k].since)
    ELSE history[k].granted * Second <= MaxRate * (now - history[k].since)

\* A bucket that a promise stands for has its parameters, and will hold the
\* tokens from the promised tick on.
Honoured(k) ==
    promise[k] # NoPromise =>
        /\ promise[k].cost <= promise[k].burst
        /\ k \in DOMAIN buckets =>
             /\ buckets[k].rate = promise[k].rate /\ buckets[k].burst = promise[k].burst
             /\ \A t \in now .. MaxTime : t >= promise[k].due =>
                  buckets[k].tokens + (t - buckets[k].last) * promise[k].rate
                      >= promise[k].cost * Second

Bucket  == [tokens : 0 .. MaxBurst * Second, last : 0 .. MaxTime,
            rate : 0 .. MaxRate, burst : 0 .. MaxBurst]
Call    == [op : {"check", "reserve"}, key : Keys, cost : Costs, rule : AllRules]
Promise == [due : Nat, cost : Nat, rate : Nat, burst : Nat]

LimiterInv ==
    /\ rules \subseteq Rules /\ now \in 0 .. MaxTime
    /\ DOMAIN buckets \subseteq Keys /\ buckets \in [DOMAIN buckets -> Bucket]
    /\ \A k \in DOMAIN buckets : buckets[k].last <= now
    /\ call \in [Clients -> {NoCall} \cup Call]
    /\ history \in [Keys -> [since : 0 .. MaxTime, granted : Nat]]
    /\ promise \in [Keys -> {NoPromise} \cup Promise]
    /\ \A k \in Keys : Honoured(k)
    /\ MaxRate * StaleAfter >= MaxBurst * Second => \A k \in Keys : Covered(k)
=============================================================================
