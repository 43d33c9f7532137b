--------------------------- MODULE Classification ---------------------------
(***************************************************************************)
(* What is read off a provider's exception (classify.py): its HTTP status, *)
(* whether it is worth another try, and how long the server asks to wait.  *)
(* Times are in milliseconds.                                              *)
(*                                                                         *)
(* An exception carries the statuses found on it (own attributes, code,    *)
(* response), which names its classes have, and what the server says about *)
(* waiting.  The value of a header is [form, pieces]: "number" and "units" *)
(* ("6m0s") have pieces <<amount, unit>>, "date" the time left until then, *)
(* "none" and "bad" nothing.                                               *)
(***************************************************************************)
EXTENDS Messages

CONSTANT DefaultRetryStatuses   \* DEFAULT_RETRY_STATUSES of config.py

Value(form, pieces) == [form |-> form, pieces |-> pieces]
NoValue == Value("none", <<>>)

\* statuses in the order get_status looks them up.
Error(control, statuses, timeout, connection, ms, after, resets, delay) ==
    [control |-> control, statuses |-> statuses, timeout |-> timeout,
     connection |-> connection, ms |-> ms, after |-> after, resets |-> resets,
     delay |-> delay]

HeaderValues == [form : {"none", "bad", "number", "units", "date"},
           pieces : Seq(Int \X {"ms", "s", "m", "h"})]

\* A rate limit is shown in the form that goes with its header, if in one at all.
FitsHeader(reset) ==
    \/ reset.value.form \in {"none", "bad"}
    \/ /\ reset.header = "x-ratelimit"
       /\ reset.value.form \in {"number", "units"}
    \/ /\ reset.header # "x-ratelimit"
       /\ reset.value.form = "date"

\* What an exception can say of waiting.
IsError(e) ==
    /\ {e.ms, e.after, e.delay} \subseteq HeaderValues
    /\ IsFiniteSet(e.resets)
    /\ \A reset \in e.resets : reset.value \in HeaderValues /\ FitsHeader(reset)

IsStatus(n) == n # None /\ 100 <= n /\ n < 600

\* get_status: the first attribute that holds a status.
StatusOf(e) ==
    LET valid == SelectSeq(e.statuses, IsStatus) IN
    IF valid = <<>> THEN None ELSE Head(valid)

Millis(unit) == CASE unit = "ms" -> 1 [] unit = "s" -> 1000 [] unit = "m" -> 60000
                  [] unit = "h" -> 3600000

Total(pieces) ==
    LET sum[n \in 0 .. Len(pieces)] ==
            IF n = 0 THEN 0 ELSE sum[n - 1] + pieces[n][1] * Millis(pieces[n][2])
    IN sum[Len(pieces)]

NotNegative(n) == IF n < 0 THEN 0 ELSE n

\* parse_duration
ParseDuration(value) ==
    IF value.form \in {"number", "units"} THEN Total(value.pieces) ELSE None

\* _parse_http_date and _parse_rfc3339: a moment that has passed is no wait.
ParseDate(value) == IF value.form = "date" THEN NotNegative(Total(value.pieces)) ELSE None

\* OpenAI's resets are durations, Anthropic's are dates.
ParseReset(reset) ==
    IF reset.header = "x-ratelimit" THEN ParseDuration(reset.value)
    ELSE ParseDate(reset.value)

Longest(times) == CHOOSE t \in times : \A u \in times : u <= t
Soonest(times) == CHOOSE t \in times : \A u \in times : t <= u

SoonestReset(e) ==  \* mutant
    LET every == {ParseReset(r) : r \in e.resets} \ {None} IN
    IF every # {} THEN Soonest(every) ELSE None

\* _rate_limit_reset: the limits whose remaining counter is zero explain the error.
RateLimitReset(e) ==
    LET every     == {ParseReset(r) : r \in e.resets} \ {None}
        exhausted == {ParseReset(r) : r \in {s \in e.resets : s.remaining = 0}} \ {None}
    IN IF exhausted # {} THEN Longest(exhausted)
       ELSE IF every # {} THEN Soonest(every)
       ELSE None

\* get_retry_after: retry-after-ms, retry-after, the rate limits of a 429, and the
\* RetryInfo of a Google error, in that order.
RetryAfter(e) ==
    LET duration == ParseDuration(e.after)
        after    == IF duration # None THEN duration ELSE ParseDate(e.after)
        reset    == IF StatusOf(e) = 429 THEN RateLimitReset(e) ELSE None
    IN IF e.ms.form = "number" THEN NotNegative(Total(e.ms.pieces))
       ELSE IF after # None THEN NotNegative(after)
       ELSE IF reset # None THEN reset
       ELSE ParseDuration(e.delay)

\* classify: a status wins over the names of connection errors.
IsConnection(e) == e.connection /\ StatusOf(e) = None

\* ErrorInfo.is_transient
IsTransient(e) ==
    e.timeout \/ IsConnection(e) \/ StatusOf(e) \in DefaultRetryStatuses

\* should_retry.  retry is the RetryConfig.
ShouldRetry(e, retry) ==
    /\ ~e.control
    /\ IF StatusOf(e) # None THEN StatusOf(e) \in retry.statuses
       ELSE IF e.timeout THEN retry.timeouts
       ELSE IsConnection(e) /\ retry.connections

\* RetryConfig.backoff: anything up to the ceiling with jitter, the ceiling without.
Backoffs(attempt, retry) ==
    LET doubled == retry.base * 2^attempt
        ceiling == IF doubled < retry.max THEN doubled ELSE retry.max
    IN IF retry.jitter THEN {0, ceiling} ELSE {ceiling}

\* RetryConfig.delay_for: the waits possible, none if the server asks for too long.
Delays(attempt, e, retry) ==
    LET after == RetryAfter(e) IN
    IF after = None \/ ~retry.respect THEN Backoffs(attempt, retry)
    ELSE IF after > retry.longest THEN {}
    ELSE {after}

=============================================================================
