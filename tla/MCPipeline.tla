----------------------------- MODULE MCPipeline -----------------------------
(* Instances of Pipeline for TLC. *)
EXTENDS Pipeline

CONSTANTS p, f1, f2

\* A rate limit, an overload that asks for a long wait, a bad key, a timeout, an
\* SDK that is not installed, and a cancellation.
RateLimited ==
    [Exception("provider", "rate_limited") EXCEPT !.status = 429, !.wait = 5]
Overloaded ==
    [Exception("provider", "overloaded") EXCEPT !.status = 503, !.wait = 90]
Denied   == [Exception("provider", "denied") EXCEPT !.status = 401]
TimedOut == [Exception("provider", "timed_out") EXCEPT !.timeout = TRUE]
NoSdk    == Exception("control", "no_sdk")

AllErrors == {RateLimited, Overloaded, Denied, TimedOut, NoSdk, Cancelled}

Plain ==
    [fallback |-> <<>>, fallback_on |-> None, blocked |-> {}, stream |-> FALSE,
     output_schema |-> FALSE, validation_retries |-> 0,
     max_retries |-> 1, retry_on_status |-> TransientStatuses,
     retry_on_timeout |-> TRUE, retry_on_connection_error |-> TRUE,
     respect_retry_after |-> TRUE, max_retry_after |-> 60]

Chains == {<<>>, <<f1>>, <<f1, p, f2>>, <<f1, f1>>}

\* Every chain with each option on and off, one by one and together.
MixedConfigs ==
    {[Plain EXCEPT !.fallback = chain, !.blocked = blocked, !.output_schema = schema,
                   !.validation_retries = IF schema THEN 1 ELSE 0,
                   !.max_retries = retries] :
        chain \in Chains, blocked \in {{}, {f1}}, schema \in BOOLEAN, retries \in 0..1}
    \union
    {[Plain EXCEPT !.fallback = <<f1>>, !.stream = TRUE, !.output_schema = TRUE],
     [Plain EXCEPT !.fallback = <<f1>>, !.fallback_on = {Denied},
                   !.respect_retry_after = FALSE, !.retry_on_status = {503}],
     [Plain EXCEPT !.max_retries = 2, !.retry_on_timeout = FALSE]}

\* All three loops together, and with a last target that is not available.
FullConfig ==
    {[Plain EXCEPT !.fallback = <<f1, f2>>, !.output_schema = TRUE,
                   !.validation_retries = 1, !.blocked = blocked] :
        blocked \in {{}, {f2}}}
=============================================================================
