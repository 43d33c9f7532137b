------------------------------ MODULE Pipeline ------------------------------
(***************************************************************************)
(* One call going through the middleware chain                             *)
(*                                                                         *)
(*    Telemetry -> Validator -> Fallback -> CostGuard -> Retry -> Transport *)
(*                                                                         *)
(* (middleware/*.py, pipeline.py).  Each layer is a generator; here pc says *)
(* which layer has control, and whether a request is on its way down or a  *)
(* response or an exception on its way up.  The driver hands the results of *)
(* the two effects back: sending a request, and sleeping before a retry.   *)
(* What the provider does is open: it answers, fails in any way, or the    *)
(* task is cancelled while it waits.                                       *)
(*                                                                         *)
(* Budgets are reduced to what this call holds and has been charged        *)
(* (module CostGuard has the budgets themselves); whether they admit a     *)
(* request is open too.                                                    *)
(***************************************************************************)
EXTENDS Integers, Sequences

CONSTANTS
    Models,           \* what a call may be sent to
    Primary,          \* the target the caller asked for
    Configs,          \* the call configurations considered
    Errors,           \* what sending a request may raise
    Costs,            \* what an answer may cost (None: not known)
    Estimate,         \* what the cost guard reserves for a request
    None

\* DEFAULT_RETRY_STATUSES of config.py.
TransientStatuses == {408, 409, 425, 429, 500, 502, 503, 504, 529}

\* An exception, as far as the layers tell exceptions apart: "provider" is an
\* Exception from the provider or its SDK, "control" one that is_control_error
\* accepts, "base" a BaseException such as a cancellation.
Exception(kind, name) ==
    [kind |-> kind, name |-> name, status |-> None, timeout |-> FALSE,
     connection |-> FALSE, wait |-> None]

BudgetExceeded == Exception("control", "budget_exceeded")
OutputInvalid  == Exception("control", "output_invalid")
NotAvailable   == Exception("provider", "provider_not_available")
AllFailed      == Exception("provider", "all_providers_failed")
Cancelled      == Exception("base", "cancelled")

\* Only FallbackMiddleware raises AllFailed, and only ValidatorMiddleware OutputInvalid.
ASSUME PipelineAssumption ==
    /\ None \notin Int /\ None \notin Models
    /\ Primary \in Models
    /\ Costs \subseteq Nat \union {None}
    /\ Estimate \in Nat
    /\ \A e \in Errors : e.kind \in {"provider", "control", "base"}
    /\ {AllFailed, OutputInvalid} \intersect (Errors \union {None}) = {}
    /\ \A c \in Configs :
          /\ c.fallback \in Seq(Models)
          /\ {c.max_retries, c.validation_retries} \subseteq Nat

VARIABLES
    config,      \* the CallConfig of the call
    pc,          \* which layer has control
    request,     \* validation feedback turns appended to state.request
    target,      \* state.target
    record,      \* the CallRecord
    attempt,     \* Validator: attempt of the for loop
    total,       \* Validator: _Spend.cost
    index,       \* Fallback: position in targets
    failures,    \* Fallback: <<target, exception>> so far
    reserved,    \* CostGuard: what its reservation holds back
    tries,       \* Retry: retries of this target
    exc,         \* the exception on its way up
    response,    \* the response on its way up
    spent,       \* what the budgets were charged
    (* History, read by the properties only. *)
    requests,    \* requests sent
    answers,     \* answers received
    bill,        \* what they cost together, as telemetry adds it up
    charges,     \* what they cost together, as budgets do
    seen         \* exceptions raised by the provider or a budget

layers  == <<attempt, total, index, failures, reserved, tries>>
history == <<requests, answers, bill, charges, seen>>
vars    == <<config, pc, request, target, record, layers, exc, response, spent,
             history>>

-----------------------------------------------------------------------------
(* Helpers. *)

\* The fallback list keeps its own duplicates and loses the primary.
ChainOf(fallback) ==
    LET chain[n \in 0..Len(fallback)] ==
          IF n = 0 THEN <<Primary>>
          ELSE IF fallback[n] = Primary THEN chain[n - 1]
          ELSE Append(chain[n - 1], fallback[n])
    IN  chain[Len(fallback)]

Targets == ChainOf(config.fallback)

\* Neither the chain of targets nor validation applies to a stream.
HasChain == Len(Targets) > 1 /\ ~config.stream
Validates == config.output_schema /\ ~config.stream

\* ErrorInfo.is_transient
IsTransient(e) == e.timeout \/ e.connection \/ e.status \in TransientStatuses

\* classify.should_retry
ShouldRetry(e) ==
    /\ e.kind = "provider"
    /\ IF e.status # None THEN e.status \in config.retry_on_status
       ELSE IF e.timeout THEN config.retry_on_timeout
       ELSE e.connection /\ config.retry_on_connection_error

TriesLeftOneTooMany == tries <= config.max_retries  \* mutant
TriesLeft == tries < config.max_retries

\* RetryConfig.delay_for returns no delay: the server asks for too long a wait.
AsksTooLong(e) ==
    /\ config.respect_retry_after
    /\ e.wait # None
    /\ e.wait > config.max_retry_after

\* config.fallback_on, as the set of exceptions it accepts, or the default.
ShouldFallback(e) ==
    IF config.fallback_on = None THEN IsTransient(e) ELSE e \in config.fallback_on

FailsOverOnPolicy(e) == HasChain /\ e.kind # "base"  \* mutant

\* The chain goes on after e: only the errors of the first target are submitted to
\* fallback_on, and policy errors end the chain wherever they occur.
FailsOver(e) ==
    /\ HasChain
    /\ e.kind = "provider"
    /\ index = 1 => ShouldFallback(e)

AnsweredByFallback == HasChain /\ index > 1

\* The sum of known costs; one unknown makes the sum unknown.
PlusCost(sum, cost) == IF sum = None \/ cost = None THEN None ELSE sum + cost

\* What the budgets are charged: the estimate, if the cost is not known.
ChargeOf(cost) == IF cost = None THEN Estimate ELSE cost

CostOfLastAttempt == response.cost  \* mutant

\* The validator reports the summed cost of all attempts, once there were several.
ReportedCost ==
    IF Validates /\ attempt > 0 THEN PlusCost(total, response.cost) ELSE response.cost

ReservedLessCost(cost) == IF cost = None THEN 0 ELSE reserved - cost  \* mutant

\* What a committed reservation leaves reserved.
ReservedAfter(cost) == 0

NoRecord ==
    [status |-> "ok", retries |-> 0, validation_retries |-> 0,
     fallback_from |-> None, cost |-> None, target |-> Primary]

Init ==
    /\ config \in Configs
    /\ pc = "validator"
    /\ request = 0
    /\ target = None
    /\ record = NoRecord
    /\ attempt = 0 /\ total = 0
    /\ index = 1 /\ failures = <<>>
    /\ reserved = 0
    /\ tries = 0
    /\ exc = None
    /\ response = None
    /\ spent = 0
    /\ requests = 0 /\ answers = 0 /\ bill = 0 /\ charges = 0 /\ seen = {}

\* An exception leaves the current layer for the except clause of layer.
Raise(e, layer) == exc' = e /\ pc' = layer

-----------------------------------------------------------------------------
(* Fallback: on the way down. *)

\* ValidatorMiddleware calls the next layer: the chain of targets starts over.
EnterFallback ==
    /\ pc = "validator"
    /\ index' = 1
    /\ failures' = <<>>
    /\ IF HasChain
       THEN pc' = "pick" /\ UNCHANGED target
       ELSE pc' = "guard" /\ target' = Primary
    /\ UNCHANGED <<config, request, record, attempt, total, reserved, tries, exc,
                   response, spent, history>>

\* Mutant: a skipped target is not reported.
NextTargetUnreported(e) ==
    /\ failures' = IF e = NotAvailable THEN failures
                   ELSE Append(failures, <<Targets[index], e>>)
    /\ index' = index + 1
    /\ IF index < Len(Targets)
       THEN pc' = "pick" /\ exc' = None
       ELSE Raise(AllFailed, "validator_except")

\* Mutant: the loop waits for a target that is not available.
NextTargetWaits(e) ==
    IF e = NotAvailable THEN UNCHANGED <<failures, index, pc, exc>>
    ELSE /\ failures' = Append(failures, <<Targets[index], e>>)
         /\ index' = index + 1
         /\ IF index < Len(Targets)
            THEN pc' = "pick" /\ exc' = None
            ELSE Raise(AllFailed, "validator_except")

\* The current target has failed with e: on to the next, or give up.
NextTarget(e) ==
    /\ failures' = Append(failures, <<Targets[index], e>>)
    /\ index' = index + 1
    /\ IF index < Len(Targets)
       THEN pc' = "pick" /\ exc' = None
       ELSE Raise(AllFailed, "validator_except")

\* The head of the loop over targets.  A fallback whose provider is unknown, or
\* to which the request cannot be translated, is skipped.
Pick ==
    /\ pc = "pick"
    /\ IF index > 1 /\ Targets[index] \in config.blocked
       THEN /\ NextTarget(NotAvailable)
            /\ UNCHANGED target
       ELSE /\ target' = Targets[index]
            /\ pc' = "guard"
            /\ UNCHANGED <<index, failures, exc>>
    /\ UNCHANGED <<config, request, record, attempt, total, reserved, tries,
                   response, spent, history>>

-----------------------------------------------------------------------------
(* CostGuard, Retry and Transport. *)

\* The budgets admit the request, which starts a fresh retry loop.
Admit ==
    /\ pc = "guard"
    /\ reserved' = Estimate
    /\ tries' = 0
    /\ pc' = "send"
    /\ UNCHANGED <<config, request, target, record, attempt, total, index, failures,
                   exc, response, spent, history>>

\* A budget or max_cost refuses it.
Refuse ==
    /\ pc = "guard"
    /\ Raise(BudgetExceeded, "fallback_except")
    /\ seen' = seen \union {BudgetExceeded}
    /\ UNCHANGED <<config, request, target, record, layers, response, spent,
                   requests, answers, bill, charges>>

\* The provider answers; the cost of a stream is never known.
Answer(cost, valid) ==
    /\ pc = "send"
    /\ config.stream => cost = None
    /\ response' = [target |-> target, cost |-> cost, valid |-> valid]
    /\ pc' = "guard_return"
    /\ requests' = requests + 1
    /\ answers' = answers + 1
    /\ bill' = PlusCost(bill, cost)
    /\ charges' = charges + ChargeOf(cost)
    /\ UNCHANGED <<config, request, target, record, layers, exc, spent, seen>>

\* The request fails, or the task is cancelled while it is in flight.
SendFails(e) ==
    /\ pc = "send"
    /\ Raise(e, "retry_except")
    /\ requests' = requests + 1
    /\ seen' = seen \union {e}
    /\ UNCHANGED <<config, request, target, record, layers, response, spent, answers,
                   bill, charges>>

\* The except clause of RetryMiddleware.
Retry ==
    /\ pc = "retry_except"
    /\ IF ShouldRetry(exc) /\ TriesLeft /\ ~AsksTooLong(exc)
       THEN /\ tries' = tries + 1
            /\ record' = [record EXCEPT !.retries = @ + 1]
            /\ pc' = "sleep"
       ELSE /\ pc' = "guard_except"
            /\ UNCHANGED <<tries, record>>
    /\ UNCHANGED <<config, request, target, attempt, total, index, failures, reserved,
                   exc, response, spent, history>>

\* The backoff is over and the same request is sent again.
Wake ==
    /\ pc = "sleep"
    /\ exc' = None
    /\ pc' = "send"
    /\ UNCHANGED <<config, request, target, record, layers, response, spent, history>>

\* The task is cancelled during the backoff.
CancelSleep ==
    /\ pc = "sleep"
    /\ Raise(Cancelled, "guard_except")
    /\ seen' = seen \union {Cancelled}
    /\ UNCHANGED <<config, request, target, record, layers, response, spent, requests,
                   answers, bill, charges>>

\* Mutant: except Exception, which a cancellation passes by.
GuardReleasesErrors ==
    /\ pc = "guard_except"
    /\ reserved' = IF exc.kind = "base" THEN reserved ELSE 0
    /\ pc' = "fallback_except"
    /\ UNCHANGED <<config, request, target, record, attempt, total, index, failures,
                   tries, exc, response, spent, history>>

\* CostGuardMiddleware: except BaseException.
GuardReleases ==
    /\ pc = "guard_except"
    /\ reserved' = 0
    /\ pc' = "fallback_except"
    /\ UNCHANGED <<config, request, target, record, attempt, total, index, failures,
                   tries, exc, response, spent, history>>

\* CostGuardMiddleware: the answer is charged, at the estimate if its cost is
\* not known.
GuardCommits ==
    /\ pc = "guard_return"
    /\ reserved' = ReservedAfter(response.cost)
    /\ spent' = spent + ChargeOf(response.cost)
    /\ pc' = "fallback_return"
    /\ UNCHANGED <<config, request, target, record, attempt, total, index, failures,
                   tries, exc, response, history>>

-----------------------------------------------------------------------------
(* Fallback and Validator: on the way up. *)

\* The except clause of FallbackMiddleware.
FallbackCatches ==
    /\ pc = "fallback_except"
    /\ IF FailsOver(exc)
       THEN NextTarget(exc)
       ELSE /\ pc' = "validator_except"
            /\ UNCHANGED <<index, failures, exc>>
    /\ UNCHANGED <<config, request, target, record, attempt, total, reserved, tries,
                   response, spent, history>>

FallbackReturns ==
    /\ pc = "fallback_return"
    /\ record' = IF AnsweredByFallback
                 THEN [record EXCEPT !.fallback_from = Primary] ELSE record
    /\ pc' = "validator_return"
    /\ UNCHANGED <<config, request, target, layers, exc, response, spent, history>>

\* A response the validator lets through: without a schema as it is, else at
\* the summed cost of all attempts.
Accept ==
    /\ pc = "validator_return"
    /\ ~Validates \/ response.valid
    /\ total' = IF Validates THEN PlusCost(total, response.cost) ELSE total
    /\ response' = [response EXCEPT !.cost = ReportedCost]
    /\ request' = 0
    /\ pc' = "telemetry_return"
    /\ UNCHANGED <<config, target, record, attempt, index, failures, reserved, tries,
                   exc, spent, history>>

\* An invalid response with attempts left: ask again with the errors appended.
Reask ==
    /\ pc = "validator_return"
    /\ Validates /\ ~response.valid /\ attempt < config.validation_retries
    /\ total' = PlusCost(total, response.cost)
    /\ attempt' = attempt + 1
    /\ record' = [record EXCEPT !.validation_retries = attempt + 1]
    /\ request' = request + 1
    /\ pc' = "validator"
    /\ UNCHANGED <<config, target, index, failures, reserved, tries, exc, response,
                   spent, history>>

\* The last attempt is invalid too: what was paid goes to the record.
GiveUp ==
    /\ pc = "validator_return"
    /\ Validates /\ ~response.valid /\ attempt >= config.validation_retries
    /\ total' = PlusCost(total, response.cost)
    /\ record' = [record EXCEPT !.cost = total']
    /\ request' = 0
    /\ Raise(OutputInvalid, "telemetry_except")
    /\ UNCHANGED <<config, target, attempt, index, failures, reserved, tries, response,
                   spent, history>>

\* An exception of the chain passes through: only the finally clause runs.
ValidatorUnwinds ==
    /\ pc = "validator_except"
    /\ request' = 0
    /\ pc' = "telemetry_except"
    /\ UNCHANGED <<config, target, record, layers, exc, response, spent, history>>

-----------------------------------------------------------------------------
(* Telemetry. *)

RecordAnswer ==
    /\ pc = "telemetry_return"
    /\ record' = [record EXCEPT !.target = response.target, !.cost = response.cost]
    /\ pc' = "done"
    /\ UNCHANGED <<config, request, target, layers, exc, response, spent, history>>

RecordError ==
    /\ pc = "telemetry_except"
    /\ record' = [record EXCEPT
                    !.status = IF exc.kind = "base" THEN "cancelled" ELSE "error",
                    !.target = IF target # None THEN target ELSE @]
    /\ pc' = "done"
    /\ UNCHANGED <<config, request, target, layers, exc, response, spent, history>>

Done == pc = "done" /\ UNCHANGED vars

Next ==
    \/ EnterFallback \/ Pick
    \/ Admit \/ Refuse
    \/ \E cost \in Costs, valid \in BOOLEAN : Answer(cost, valid)
    \/ \E e \in Errors : SendFails(e)
    \/ Retry \/ Wake \/ CancelSleep
    \/ GuardReleases \/ GuardCommits
    \/ FallbackCatches \/ FallbackReturns
    \/ Accept \/ Reask \/ GiveUp \/ ValidatorUnwinds
    \/ RecordAnswer \/ RecordError
    \/ Done

\* The driver runs the generators on; a request ends, at the latest with the
\* timeout of the HTTP client, and a sleep is over after its delay.
Spec == Init /\ [][Next]_vars /\ WF_vars(Next)

-----------------------------------------------------------------------------
(* Properties. *)

TypeOK ==
    /\ config \in Configs
    /\ pc \in {"validator", "pick", "guard", "send", "sleep",
              "retry_except", "guard_except", "fallback_except",
              "validator_except", "telemetry_except",
              "guard_return", "fallback_return", "validator_return",
              "telemetry_return", "done"}
    /\ request \in Nat /\ attempt \in Nat /\ tries \in Nat
    /\ reserved \in Nat /\ spent \in Nat
    /\ requests \in Nat /\ answers \in Nat /\ charges \in Nat
    /\ index \in 1..(Len(Targets) + 1)
    /\ target \in {Targets[i] : i \in 1..Len(Targets)} \union {None}
    /\ total \in Nat \union {None} /\ bill \in Nat \union {None}

\* The three nested loops multiply, and no more than that: validation attempts
\* times targets times tries bounds the requests of one call.
RequestsBounded ==
    requests <= (config.validation_retries + 1) * Len(Targets)
                    * (config.max_retries + 1)

\* After a policy error or a cancellation, wherever it came up, nothing is sent
\* any more: not as a retry, a fallback or another validation attempt.
PolicyErrorsAreFinal ==
    [][(\E e \in seen : e.kind # "provider") => requests' = requests]_vars

\* Whichever way the call ends, its reservation is settled, the budgets have been
\* charged once for every answer, those the validator threw away included, and the
\* request of the caller is without the feedback that was added to it.
SettledAtTheEnd == pc = "done" => reserved = 0 /\ spent = charges /\ request = 0

\* AllProvidersFailedError reports every target, in the order of the chain.
AllTargetsReported ==
    exc = AllFailed => [i \in DOMAIN failures |-> failures[i][1]] = Targets

\* The record of a call says that a fallback answered when, and unless an invalid
\* answer was asked again only when, one did (the field that one validation attempt
\* sets stays when the primary answers the next one); and when the call returns, or
\* fails because no attempt was valid, it carries the cost of all answers.
RecordTells ==
    pc = "done" =>
        /\ record.status = "ok" =>
             /\ record.target # Primary => record.fallback_from = Primary
             /\ record.fallback_from # None =>
                   record.target # Primary \/ record.validation_retries > 0
        /\ record.status = "ok" \/ exc = OutputInvalid => record.cost = bill

\* Every call ends.
Terminates == <>(pc = "done")

\* validator.py: what the attempts cost is reported on the response or, when the
\* call fails, on the record.
EveryCostRecorded == pc = "done" /\ answers # 0 => record.cost = bill

\* docs/guides/fallback.md: any error of a fallback target, a missing SDK included,
\* moves on to the next target.
FallbackErrorsMoveOn ==
    [][pc = "fallback_except" /\ index \in 2..(Len(Targets) - 1)
          /\ exc.name = "no_sdk" => pc' = "pick"]_vars
=============================================================================
