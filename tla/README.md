# callm in TLA+

callm wraps calls to language models (the official SDKs, or its own `complete()`)
with retries, fallbacks, budgets, a cache, output validation and telemetry. Its
hard parts are concurrent: many threads and tasks of many processes share
budgets, a cache, a database file and the patched SDKs; requests fail and are
retried; a task may be cancelled wherever it waits. This directory holds the
TLA+ specifications of those parts, the TLC configurations that check them on
small instances, and the proofs of the theorems TLAPS checks for all instances.
Paths below are relative to the repository; the package is `src/callm/`.

## 1. The system

A decorated function, a `with shield(...)` block or `callm.complete()` opens an
*execution context*. While one is active, calls of the patched SDK methods are
turned into an `LLMRequest` and sent through a chain of middleware generators:

    Telemetry > Security > Cache > Validator > Fallback > CostGuard > Retry > Transport

A generator yields *effects* (`Invoke`, `Sleep`); a driver (`run_sync` or
`run_async` in `pipeline.py`) performs them and sends the result, or throws the
exception, back in. Everything between two effects runs without giving up
control; everything shared is protected by a lock of its own, or is not.

| Component (source) | State it keeps | Operations | What makes it correct | Hard behaviour |
|---|---|---|---|---|
| Budgets (`budgets.py`) | limit, spent, reserved per budget, under its lock; a registry by key; active budgets per context | reserve, commit, release, add, reset, set limit, budget_for, enter, exit | the limit holds, no reservation leaks | calls race for the last cent; reset with requests in flight |
| Cost guard (`middleware/cost.py`) | the reservations of one pass | reserve all, send, commit or release all | all budgets of a pass are charged or none | partial failure in the loop, opposite orders |
| Retry (`middleware/retry.py`) | retries of this target | try, decide, sleep | bounded, only transient errors | cancellation during the backoff |
| Fallback (`middleware/fallback.py`) | position in the chain, failures | next target, give up | every target tried once, policy errors end it | errors of fallbacks, skipped targets |
| Validator (`middleware/validator.py`) | attempt, summed cost, the rewritten request | accept, re-ask, give up | every attempt paid is reported, request restored | an attempt raises after others were paid |
| Telemetry (`middleware/telemetry.py`) | the record; last call per context | record answer or error, emit | the record tells what happened | cancellation, callbacks that raise |
| Drivers, transport (`pipeline.py`, `middleware/__init__.py`) | the generator, the effect | send, throw, close | an exception enters where the effect was | BaseExceptions |
| Classification (`classify.py`, `errors.py`) | none | classify, should_retry | a status decides before a timeout | headers in several formats |
| Response cache (`middleware/cache.py`, `storage/memory.py`) | LRU of entries under a lock; per call key, vector, entry | get, set, candidates, record_hit, delete, clear | answers the question asked, bounded, alive | concurrent misses, expiry during embedding |
| SQLite store (`storage/sqlite.py`) | one file; lock, connection, write counter per process | as above, evict, close; the calls table | whole operations, own connection | fork, kill, several processes |
| Redis store (`storage/redis.py`) | hash of entries, a sorted set per group | as above, several commands each | index and entries agree | commands of other clients in between |
| Decorator and runner (`decorator.py`) | calls counted per run, retries, spend | run, re-run, validate again, record | a function that made calls is not re-run | what counts as a call |
| Scopes (`api.py`, `config.py`) | the active context per task | enter, exit, inherit, complete | protection ends with its scope, and only then | exits out of order |
| Interception (`interception.py`) | patched methods, the import hook, a lock | install, patch, call, uninstall | each method patched once | import of an SDK on another thread |
| Security (`middleware/security.py`, `security/`) | placeholders of one call | mask, restore, detect | what is masked is restored | overlapping matches |
| Pricing, embeddings (`pricing.py`, `embeddings.py`) | price tables | price, estimate, cost | the most specific price wins | names with dates and prefixes |
| Providers (`providers/`) | a registry and a client cache | translate requests and responses | nothing lost in translation | five formats |
| Validation (`validation.py`) | none | extract JSON, validate | the validated object is the output | text around JSON |
| Data types, reports, CLI | records | format | -- | -- |

`PROJECT.json` lists them with what is modelled of each, and the hazards, each at
the line where it bites, with the properties that would catch it.

## 2. The modules

| Module | Models | Checked by | Proved in |
|---|---|---|---|
| `CostGuard` | budgets and the cost guard over concurrent calls | `MCCostGuard` | `CostGuardProofs` |
| `SpendingLimit` | what budgets promise, abstractly | refined by `CostGuard` | `CostGuardProofs` |
| `Pipeline` | one call through Telemetry, Validator, Fallback, CostGuard, Retry, Transport | `MCPipeline` | `PipelineProofs` |
| `ResponseCache` | the cache layer over the memory store, concurrent calls | `MCResponseCache` | `CacheProofs` |
| `RedisCache` | the same layer over Redis, command by command | `MCResponseCache` | `CacheProofs` |
| `SqliteStore` | the cache table in SQLite: threads, processes, fork, kill | `MCSqliteStore` | `SqliteStoreProofs` |
| `Scopes` | execution contexts: shields, budgets and decorated functions, nested, over tasks | `MCScopes` | `ScopesProofs` |
| `Instrument` | wrapping the methods of SDKs, before and after their import | `MCInstrument` | `InstrumentProofs` |
| `Messages` | messages, requests, usage and responses (`types.py`) | `MCExchange` | `ExchangeProofs`, `TellingProofs` |
| `Adapters` | requests of the four SDK formats to the canonical one and back | `MCExchange` | `ExchangeProofs`, `TellingProofs` |
| `Masking` | personal data and placeholders, the injection score | `MCExchange` | `ExchangeProofs`, `TellingProofs` |
| `Replies` | replies of the four formats to the canonical one and back | `MCExchange` | `ExchangeProofs` |
| `Classification` | status, retry and wait of an exception | `MCExchange` | `ExchangeProofs` |
| `Prices` | the price of a model, the cost of an answer | `MCExchange` | `ExchangeProofs` |
| `Exchange` | one call's data on its way through all of these | `MCExchange` | `ExchangeProofs`, `TellingProofs` |

An `MC` module only instantiates: it gives values to the constants. The refinement
mapping of `SpendingLimit` is in `CostGuard`, so that runs and proofs use the same. In the component modules a definition whose comment says *mutant* is
a bug the code could have; nothing uses it, and putting it in the place of the
definition next to it must make TLC report the property it is meant for.

### CostGuard

`limit`, `spent`, `reserved` are the fields of a `Budget`. A `Budget` method
holds the lock of the budget throughout, so it is one action. `handle` of the
cost guard is several: `Begin` (estimate, `max_cost`), one `Reserve` or `Refuse`
per turn of the reservation loop, `Answer` or `Fail` for what the rest of the
pipeline does, and one `Commit` or `Release` per turn of the settling loop, in
any interleaving with other calls. `add`, `reset` and the limit setter may be
called at any time by the rest of the program, `reset` also while reservations
are open. Amounts are integers: the slack of 1e-12 in `reserve` is there for
floats and is dropped with them. `torn`, `unforeseen` and `charged` are history:
which budgets a reset has torn, how much spend no reservation covered, and what
a pass has charged. `SpendingLimit` is the promise of a budget without any of
the loops; a budget that a reset tore is free of it, as it is in the code, which
then counts neither the requests in flight nor those they overlap.

### Pipeline

One call, with `pc` naming the layer that has control and the direction. The
layers are those between telemetry and transport, except the cache and the
security layers. What the environment decides is open: whether the budgets
admit a request, what the provider answers, whether the answer matches the
schema, which exception is raised where the code waits. An exception is a record of
what the layers tell exceptions apart by. Delays have no length; whether the
server asks for too long a wait does matter and is in the exception.

### ResponseCache

A call looks the prompt up, may embed it and search the prompts of its group,
asks the model and writes the answer. Each store operation holds the store's
lock and is one action. `_safe` turns an exception of the store into a miss
(`ReadFails`, `MatchFails`, `RecordHitFails`, `WriteFails`); so does a failing
embedder, but not a missing one. Digests are taken not to collide: a prompt is
what `cache_keys` digests, split in its group and its text. `lookedAt` and
`recent` are history.

### RedisCache

The layer of `ResponseCache` with a `RedisCacheStore` in the place of the memory
store; `store` says which of them the calls use, and a run starts with either. The
server executes a command or a pipeline's transaction at a time, so these are the
actions: `Get`, `CountHit` for `get()`; `DropExpired`, `RemoveExpired` for the delete
it does of an expired entry; `ListNewest`, `Fetch`, `Prune` for `candidates()`; `Put`
for `set()`. Other clients' commands come in between, `GetFails` and
`CandidatesFail` are errors of the server at any of them. `cache` holds the keys of
entries, `index` the sorted set of each group. Redis drops a key some time after its
hour (`Vanish`), so a client may still read one that has expired. The hash of hits
decides nothing; the commands on it are steps without an effect. `clear()` deletes
what it found in one `DEL`, as it does up to 500 names.

### SqliteStore

An agent is a thread of a process. It takes the lock of its process (`Enter`,
which also opens a connection), and executes the statements of its operation,
each in autocommit mode and therefore a transaction and an action of its own.
Statements of other processes come in between; a statement may fail, a process
may be killed, and `Fork` copies lock, connection and write counter, but only
the thread that forks. `_writes` is kept modulo the eviction interval, 500 in
the code.

### Scopes

A task is an asyncio task or a thread. `frames` is what its program is in: the
`with` statements and decorated functions it has entered. The code never sees
that stack. It has `ACTIVE`, one per task and copied when a task is started, and
`ExecutionContext`s that point to their parents and are shared by the tasks that
were started inside (`ctxs`, where an index stands for a reference). The module
keeps both, and the properties compare them: the protections a call would get
(`Protection`) with those the frames ask for (`Asked`). The function's retry
loop is in `Return`, `Raise` and `Wake`; between `Raise` and `Wake` it sleeps, and
other tasks go on. The number of calls of a context is only ever compared with
zero and is kept as that. Budgets, a flag and a limit stand for the options that
`merge_scopes` accumulates; the others are the innermost scope's.

### Instrument

`stack` is what a thread is executing: `ensure_installed`, the loop of
`_try_patch_loaded`, imports with the lock of their module, the hook after the
body of a module, and so on inside one another. `_lock` is taken for the whole of
`ensure_installed`, and for a patch otherwise. Python's side (module locks, a
thread that would wait in a circle goes on, a body that fails) is external and
modelled as far as the code depends on it. All methods of a module are wrapped
under one lock, so a module stands for them.

### Exchange and the data it moves

`Pipeline` has the control of one call, `Exchange` its data; the layers and their
order are the same, and what `Pipeline` decides by a flag (`valid`, blocked targets,
`wait`) is computed here from what is there: a request, an exception, a reply. The
modules under it are pure:

- `Messages`: a text is a sequence of words, a content a string or a list of parts, a
  message a role, a content and where it comes from (`mark`, `item`: the `native`
  dictionary of the code). Words and parts have the kinds the layers tell apart:
  plain, personal data, attacks (by the names of `Patterns`), placeholders; text, tool
  structures, media, thoughts. `Only` is the selection of a list comprehension, with a set
  of elements for the condition, which the proofs can speak of (not so `SelectSeq`).
- `Adapters`: `parse_native_request`, `to_kwargs` to the same provider (native
  arguments are kept) and to another one (translated), `portability_issue`. Arguments
  of all SDKs have one form here: the system prompt outside of the list, the list,
  whether it was one string instead, and the settings. A provider registered as
  OpenAI-compatible is the `openai` adapter. `IsArgs` says what each SDK accepts.
- `Masking`: `PIIRedactor.find` and `redact` with the registry of placeholders, the
  role filter, the score of the injection detector.
- `Replies`: `parse_response`, `build_native`, `native_for`; counters of tokens differ
  between the formats in what they include, finish reasons in their names.
- `Classification`: headers are values that are a number, a duration, a date, absent
  or broken; `get_status`, `get_retry_after`, `should_retry`, `delay_for`.
- `Prices`: the name of a model is the sequence of its parts between dashes; the
  longest known prefix wins, overrides come before the table. `PriceInForce` says the
  same without the look-ups, and the properties use it.

`Exchange` gives them to one call: `Receive` (the wrapper, or `complete()` with
`build_request`), `Block` and `Screen`, `SkipTarget`, `Send`, `Answer`, `Fail` (with the
wait of a retry), `Reask`, `Accept`, `Recall` (the same answer out of the cache) and
`HandBack`. What providers do is external: their answer in their own format
(`NativeReply`) and what they count for it (`BilledUsage`). The properties
compare both ends: `Said` is what a model reads in arguments of any format, so what
was asked and what was sent can be compared although they are of different SDKs, and
`InTranslation` and `Moved` are what a translation takes away of it;
`OutcomeOf` is how a caller of an SDK reads a finish reason. `sent`, `registry`,
`asks`, `answer`, `billed`, `waits` are history.

## 3. The runs

Each run is a question. All state spaces are finite by the bounds named in the
constants (`Max...`); the actions test the bounds in their guards.

| Run | Shows | Bounds, and why they are enough |
|---|---|---|
| `cost_guard` | no leak, the limit holds, requests are covered, passes charge all budgets or none, calls of the same order do not all refuse one another, every reservation is settled, budgets keep the promise of `SpendingLimit` | two calls over two budgets, estimates of 1, 2 and unknown, with resets, additions and new limits: every pair of loop positions meets; the proofs are for any number of calls and budgets |
| `pipeline` | requests are bounded, policy errors final, reservations settled, every target reported, the record right, and every call ends | every option of the layers on and off; chains with a repeated target and with the primary in it; one retry, two validation attempts, three targets: each loop is left from each of its turns |
| `cache` | for the memory store and Redis: bounded, serves answers to the question asked, alive, that the model gave; the memory store evicts what was used longest ago | two calls on four prompts in two groups with two embedders of one dimension, from an empty store or a full one: a writer and a reader, or two that interfere, with expiry and one delete or clear in between; groups of two in Redis, so that a third is trimmed; one tick of the clock, before or after which an entry is read |
| `sqlite` | own connection, bounded, hits kept, lookups and evictions of one process drop only what they should | two processes of two threads, a maximum of one row, evictions at every second write, one failure (a statement that raises, or a process that is killed); up to six writes, or three and another operation, or two others; six keys, taken up to their names (`UpToKeys`). The bound of `Bounded` is 3 rows for one process, and 5 for two or for one and a failure, so it can be exceeded; two live processes and a failed statement may hold 7 rows, more than there are keys: of that case only the theorem speaks |
| `scopes` | every call has the budgets of all its scopes, the least limit and the innermost configuration of masking; functions that made calls are not re-run | a shield that masks and one that masks less, a function with a budget, a re-run and a re-validation, another budget; two tasks; two nested things in one and one in the other: a context is shared by siblings, by a parent and a child, and outlived by a task |
| `instrument` | methods are wrapped once; what was imported before, and what the hook saw, is instrumented | two threads, three modules of two packages, one importing another, one uninstall |
| `exchange` | what is sent says what was asked, masked where it must be; what is handed back says what was answered; the cost is what was billed; retries wait until the limits are reset | calls in four groups, each of which varies one side: every form of request an SDK accepts (system prompt or not, one string, a list, bare parts, mid-conversation system messages, tool turns, media) with every kind of setting, and the same through `complete()`; personal data and attacks in system prompts, messages of all roles, arguments and results of tools (in the Responses API `function_call`, and `function_call_output` that is a string or a list), with all detectors, some, or blocking; answers that are cut off, refused for any of the reasons a format has, empty or without counters; overrides that hide shorter and longer names of the table; errors of every kind with every form of header. All go along a chain of all four formats and another model of the first, with failures and one re-ask at each point: every pair of formats meets in every kind of request |
| `missing_sdk`, `cost_lost`, `forked_lock`, `recorded_again`, `both_locks` | **violated**, see section 6 | |

`CHECK_DEADLOCK FALSE` is set only where the system really stops: in the SQLite runs
a child that inherits a held lock hangs (`forked_lock`), and in the runs of
`Instrument` two threads block one another (`both_locks`). Elsewhere a stop is an
action (`Finished`, `Done`) that is enabled only when every call has ended, or the
program may always go on, so TLC's deadlock check shows that nothing else stops
the system.

Some properties hold with an exception that is part of their statement, where
the code does less than one may expect:

- `NoOvershoot`, `InFlightCovered` and `SpendingLimit` except a budget that was
  reset with reservations open, until the calls of that time have settled.
- `RecordTells` says of `fallback_from` less for calls with validation re-asks: the
  field set by one attempt is not cleared by the next, which starts at the primary again.
- `EveryScopeApplies`: the `PIIConfig` and the `InjectionConfig` of a call are those of the
  innermost scope that has one (`config.py:209-212`), and may mask less than those of
  the scopes around it; see section 6.
- `OwnConnection` is about statements. `close()` executes none, and has no check of the
  process; see section 6.
- `SentSaysTheSame` compares what another provider is sent with what a translation leaves
  of the request (`InTranslation`): at most four stop sequences for OpenAI and none for the
  Responses API, no temperature for Anthropic, which also gets the limit (4096) and the
  first user turn it requires. It leaves out a temperature that is only in `extra_body`
  (`Moved`), and outputs of functions that are lists (`Counted`). It does not claim that
  nothing is lost in a fallback; see section 6.
- `MaskedFaithfully` is about the caller's data in the texts that detectors are shown
  (`Covered`: the parts with text, and what tools are called with, of the roles selected).
  A `function_call` of the Responses API has no role; its arguments are not masked, and
  not part of the property (section 6).
  A re-asked answer of the model goes back to it as it was, and a caller's text that already
  has the form of a placeholder cannot be told from one. What is masked is what is found in
  its place; the same value is not looked for in other texts. Words have card numbers of two groups
  of digits, and joined texts have no line break between them (the code puts one there,
  `types.py:48`): with card numbers masked but not phone numbers, halves that are found nowhere
  could meet in the model. `SecurityAssumption` leaves that choice of entities out; the
  default has both (`config.py:103`).
- `ReplyReadsTheSame`: the refusals of `LosesRefusal` read as done, and no others: all those
  built for the Responses API, and Gemini's reasons other than `SAFETY` built for OpenAI's
  and Anthropic's code (section 6). Gemini's counters have no place for cache writes, so only
  the totals are compared. An answer in its own format after a re-ask has the counters of the
  last attempt, so the tokens of all attempts are asked of answers that were built.
- `EveryTokenPricedOnce` is about the price in force, `PriceInForce`. `get_price` looks for a
  prefix among the overrides before it looks for the model itself in the table: an
  override for `gpt-4o` is the price of `gpt-4o-mini` as well (`pricing.py:171-181`), and the
  property says so.
- `RetriedOnceReset` asks a wait of the headers that can be read. A `retry-after` decides
  alone; of the rate limits of a 429, those that are used up decide; the delay in a Google
  error comes last. Without any of them the wait is the backoff.
- `SomeoneWins` is about first passes that would each fit alone, before any intervention,
  of calls that list their budgets in one order. In opposite orders all can be refused.
- `SameQuestion` says that the similarity of what is served reaches the threshold, for
  vectors of whichever embedders. A group does not name its embedder (`cache.py:215`), so
  vectors of two embedders of one dimension are compared, and nothing says that a high
  score between them means that the questions are alike.
- `LookupDropsExpired` and `EvictsOnlyExcess` hold while one process uses the file:
  select and delete are two transactions, and two processes that evict at the same
  time both drop the excess they counted.

### Fairness

- `CostGuard`, `ResponseCache`!`Spec`: weak fairness for the steps of each call that has
  begun. Its thread or task is scheduled, and a request ends, at the latest with
  the timeout of the HTTP client. Nothing makes a call begin, or the application
  call `reset`, `clear` or `delete`.
- `Pipeline`: weak fairness of the next step; the call is alone and its driver
  runs it on.
- `Exchange`, `RedisCache`: none; their properties are about single states and steps.
- `Scopes`, `Instrument`: fairness only says that what was entered is left again
  and that threads run; the safety properties do not use it. `both_locks` does, so
  that its counterexample is the two locks and not a thread that is never scheduled.
- `SqliteStore`: weak fairness for a statement (it ends at the latest with the
  busy timeout) and strong fairness for taking the lock: a Python lock promises no
  order, but a thread that waits for one that is free again and again gets it.

## 4. What is proved

Every safety and action property of the passing runs is a theorem. A run shows it on an
instance; the theorem says it for every value of the constants that the module's
assumptions admit: any number of calls, tasks, threads, processes, budgets, targets,
keys and modules, and any of the bounds that make the instances finite. In each proof
module `Invariance` is the inductive invariant `Inv` the others follow from
(`TellingProofs` goes on from that of `ExchangeProofs`); its parts are named and
explained there.

| Module | Theorem | Property |
|---|---|---|
| `CostGuardProofs` | `TypeCorrect` | `TypeOK`: in particular the counters never go negative |
| | `NothingLeaks` | `NoLeak` |
| | `LimitHolds` | `NoOvershoot` |
| | `RequestsCovered` | `InFlightCovered` |
| | `ChargedAllOrNothing` | `AllOrNothing` |
| | `PromiseKept` | `KeepsThePromise`: the guard implements `SpendingLimit` |
| | `RaceHasAWinner` | `SomeoneWins`, if there is a call and all reserve in one order |
| `PipelineProofs` | `TypeCorrect` | `TypeOK` |
| | `RequestsStayBounded` | `RequestsBounded` |
| | `PolicyErrorsEndTheCall` | `PolicyErrorsAreFinal` (a step) |
| | `SettledInTheEnd` | `SettledAtTheEnd` |
| | `EveryTargetReported` | `AllTargetsReported` |
| | `RecordIsRight` | `RecordTells` |
| `CacheProofs` | `TypeCorrect` | `TypeOK` |
| | `SizesAreBounded` | `StoresBounded` |
| | `ServesTheSameQuestion` | `SameQuestion` |
| | `ServesWhatIsAlive` | `ServedAlive` |
| | `KeepsAnswersOnly` | `HoldsAnswers` |
| | `EvictsTheOldest` | `EvictsLeastRecent` (a step) |
| `SqliteStoreProofs` | `TypeCorrect` | `TypeOK` |
| | `ConnectionsAreOwn` | `OwnConnection` |
| | `OneThreadInside` | mutual exclusion in a process (no run checks it) |
| | `TableStaysBounded` | `Bounded` |
| | `HitsAreKept` | `RewriteKeepsHits` (a step) |
| | `LookupsDropExpired` | `LookupDropsExpired` (a step) |
| | `EvictionsDropExcess` | `EvictsOnlyExcess` (a step) |
| `ScopesProofs` | `TypeCorrect` | `TypeOK` |
| | `ScopesApply` | `EveryScopeApplies` |
| | `CalledFunctionsRunOnce` | `CallersRunOnce` (a step); from `CallsInvariance` |
| `InstrumentProofs` | `TypeCorrect` | `TypeOK` |
| | `NoSecondWrapper` | `WrappedOnce` |
| | `InstalledIsCovered` | `EnsureCovers` |
| | `HookedIsCovered` | `LaterImportsCovered` |
| `ExchangeProofs` | `TypeCorrect` | `TypeOK` |
| | `WaitsForTheReset` | `RetriedOnceReset` |
| | `CostIsBilled` | `EveryTokenPricedOnce` |
| | `MaskingIsFaithful` | `MaskedFaithfully` |
| | `RepliesReadTheSame` | `ReplyReadsTheSame` |
| `TellingProofs` | `WhatIsAskedIsSaid` | `SentSaysTheSame` |

### The cost guard

Assumed: limits and estimates are natural numbers, no budget occurs twice in the list
of a call (`cost.py` removes duplicates by identity), `None` is no number.

That `reserved[b]` is zero when nobody holds anything needs that it is the *sum* of
what the calls hold, so the invariant is

    Inv == TypeOK /\ PendingMatchesLoop /\ Accounts /\ ChargesMatchOutcome

`PendingMatchesLoop` says that what a call holds is the slice of its list that
its loop index says. `Accounts` says that for each budget there is a function of
running totals over the calls, `f[i] = f[i-1] + held by call i`, whose last value
is `reserved[b]` (or at least it, once a reset tore the counter), and that the
limit holds. A running total is a witness for a sum, and a step of call `c` only has
to shift the witness from `c` on (lemmas `TakeRaises` and `GiveLowers`).
`ChargesMatchOutcome` says of a loop that is under way what `AllOrNothing` says of a
pass that is over: of an answered pass, the budgets charged and those still pending
are together all of its budgets; of any other, none is charged.

`PromiseKept` goes action by action. `Begin`, all reservations but the last, `Refuse`
and the roll-back of a refused pass stutter: `SpendingLimit` sees a request only once it is
let through. The last `Reserve` is its `Grant`, in all budgets at once; there, that the
counters of the code stay within the limit has to give that the pledges do, and
the pledges are no more than what `reserved` counts, as the running totals show.
`RaceHasAWinner` finds the winner: once a first pass is refused, some other call is
past its reservations, or holds one at least as far up the common order as everything
the refused calls still hold (`SomeoneLeads`). A call is refused a budget that fits it
alone because another holds it, and that is further up than all the refused call holds:
so either the call that led before, or the one that holds this budget, leads now.

### One call

Assumed in `Pipeline`: `None`, `AllFailed` and `OutputInvalid` are not among the
exceptions and models of the instance, retries are natural numbers.

The invariant has a part for each thing the layers pass on: `ChainPosition` (one
failure per target behind), `LoopsBounded`, `RequestsCounted` (the three nested loops as
one count: what this attempt, and this target, may still add), `CostsFollow` (an
answer on its way up is paid for, but not yet charged before the guard, nor summed
before the validator), `FallbackNoted`, and `PolicyErrorGoesUp`, on which
`PolicyErrorsAreFinal` rests. `ChainOf`, which removes the primary from the fallbacks, is
a fold: `PrimaryComesFirst` is proved by induction over the list.

### The caches

Assumed: a prompt has a group if and only if it has a text, and what an earlier process
left in the store fits its bounds. Of similarities nothing is assumed, within an embedder
or between two.

What a call is served is read many steps before it is served. `CallOK` says, step by
step, what the call has established by then: that the entry has its key, or that it is
similar enough, by whichever embedder its vector is, and was alive when looked at. The store may have
dropped the entry since, so nothing about the store enters. `AllSound` says where every
entry in a store comes from. `UsedInOrder` says that the keys of the LRU store are in the
order of their last use: `recent` has an increasing sequence of places for them
(`Ordered`), which deletions thin out (`Picks`) and uses extend. `IndexOK` bounds the
sorted sets, and says they list a key once and only under its group. That entries and
index name different keys at times is true of the code, and not excluded.

### The SQLite store

Assumed: finitely many keys and processes. Nothing bounds their number, nor how often a
process is killed or forks.

`HoldsLock` and `DoesItsOperation` say whose statement is whose; `ReadStillTrue` that what
the only process has read still holds when it deletes. `Bounded` is the hard one: a
process counts the excess, others write and evict, and then it deletes as many rows as it
had counted. The invariant `TableFits` therefore takes every choice of
evictions that have counted and pretends they were finished now: the table holds at
most `max_cache_entries`, what each process answers for (its writes since the last eviction,
or a whole period while it evicts), the excess those evictions would still drop, and a
period for each eviction that was lost. Sums over processes are sizes of finite sets of
numbered pairs, so that the theorems on cardinalities apply.

### Scopes

Assumed: options are well formed, `None` is no task and no number.

The code keeps no stack; the invariant finds it. For every task there is (`Levels`) for
each frame the context and the number of entered budgets at its entry, each frame leads
from its level to the next by what it protects (`Leads`), and the lowest level is what the
task was started in. `EveryScopeApplies` follows by induction over the frames: budgets
and flags add up, the limit is the strictest. When a scope is
left, the contexts after the last one referred to are dropped; `CollectedFor` and its lemmas
show that no level is among them. For `CallersRunOnce` three more parts: no two scopes share a context (`Fresh`), the
contexts of the functions a task is in or was started in are among those its calls mark
(`Behind`), and a function in whose run a call was intercepted has a marked context
(`Marks`). A function that was left may still have calls made in it, by tasks that
outlive it.

### Instrumentation

Assumed: a module requires at most one other, at the beginning of its body; modules may
require one another in a circle.

`Within` says what may be on a stack above what, `Owned` that a module executes on the
stack of the thread that has its lock, once, `Locked` that `_lock` is with the thread whose
stack begins with `ensure_installed`. `Covered` is what the two coverage properties need: a
loop over the targets that was started to see to some modules (`Due`) has each of them
patched, still before it, or at hand (`Pending`), whatever other threads patch or uninstall.

### The data of a call

Assumed: a call has a target, and its attempts and retries are natural numbers
(`CallsAssumption`); counters of tokens are natural numbers; price lists hold prices
(`PricesAssumption`), whatever they say of which models. A request has the form its SDK
accepts (`AskedAssumption`), and its first target is one of its own provider; `None` is no
content (`ContentsAssumption`).
What `complete()` is given are messages of the system, the user or the assistant with a text each,
not only the system's, and no `extra_body`: a message of another role, as `developer`, would be
sent as the user's, and the arguments of a call are not read back. The Responses API has no stop
sequences. Of the security options (`SecurityAssumption`):
a threshold is an integer, the roles are those of messages, who has card numbers masked has
phone numbers masked; and of the
model: what it says before a re-ask has no personal data of the caller in it, whose
placeholders it was sent, and no attack where the answers of the model are filtered.

The invariant says how sums move: `CostsAddUp` and `TokensAddUp`, that what earlier attempts
cost and what the response costs is together what was billed, at each step between the
answer and the caller. `AnswerRead` says that the response, the raw reply and its dump say what
the last answer said. Below them are the lemmas on the operators: `FindsTheLongest` (the longest listed
prefix is found), `PriceFound` (`get_price` finds the price in force, whichever list hides which), `DateIgnored`, `CountersRead` (each provider's
counters, read as it means them), `OutcomeKept` (finish reasons there and back, for each pair
of formats), `GreatestValue` and `LastExhaustedReset` (the wait is that of the last limit that is
used up), `DelaysAsWanted`.

`MaskedFaithfully` needs an invariant of its own, `Screening`: until the call is screened, the
request was made from its arguments (`OfCall`); afterwards its messages are `Guarded`:
what detectors are shown of them has no value that was found in the arguments, and no attack
that would be refused. Neither follows from the property, which speaks of arguments that were sent
and says nothing of the steps before. The argument has four parts, each a section of lemmas:

- *Making a request* (`MessagesMade`): every text of the arguments that is covered is in a message
  of the same role, for each of the four parsers; the groups of bare parts of Gemini are followed
  with an invariant of the fold that makes them.
- *Masking* (`RedactedText`, `RequestRedacted`): the findings of a text are ordered and do not
  overlap, so what is left is between them, and a detector finds nothing in it
  that was found before; `RegistryOneToOne`: a value is given the next free number of its
  entity or has one, so placeholders and values are one to one whatever texts there are.
- *Scoring* (`ScoreCounts`, `NotFlaggedIsTame`): the chance that is left only falls with each
  piece of evidence, in whatever order `FoldSet` takes them, so one attack over the threshold is
  enough to flag a text.
- *Sending* (`SentKeeps`): with native arguments or translated, to each of the four formats, with
  turns merged, a first turn put before them or the system prompt joined, the sent arguments have no word
  that the messages have not, except `continued`; and no two words that were apart become a
  finding (`TranslationKeeps`).

`ScreeningStep` puts them together: `Screen` and `Receive` establish it, `Reask` adds an answer
of which `SecurityAssumption` speaks, and no other action writes the messages.

### What is asked is said

`TellingProofs` proves `SentSaysTheSame`, for all conversations, chains of targets and answers that
the assumptions allow, and each of the sixteen pairs of formats. The property speaks of what is
sent only; its inductive invariant `Telling` says at every step what the request says:

- before the call is screened, that it is what was parsed of the arguments, with no placeholder
  and nothing asked again;
- afterwards `TellsTurns`: the messages, their placeholders resolved, say the system prompt and
  the turns of the arguments with those of re-asking, in the same order (for `complete()` with the first turn
  that Anthropic requires), and the marks of the messages stand where a parser puts them
  (`WellMarked`), which sending them back in native form relies on;
- `TellsSettings`: the parameters are those parsed of the caller's settings, which are kept.

A proof about sets of words would not do, since turns of one role in a row are one turn, and every
format splits and merges them in its own way. The turns are the value of a fold over the readings,
and the lemmas say when two lists of readings have the same: `SaidAppended` (one reading more),
`ReadingGoesOn` and `InTwoPieces` (a turn may come in pieces), `OpenedMore` (a turn before them).
With these, each section follows one fold of the code and describes its result with an
invariant of its own:

- *Resolving placeholders* (`ResolvedDistributes`, `MaskedSays`): resolving distributes over texts
  put together, so what is masked piece by piece, with a registry that grows, resolves to what
  was there.
- *Reading* (`ParsedSays`): the messages parsed of the arguments say what the arguments say,
  for each provider; Gemini's groups of bare parts are followed item by item (`InStep`).
- *Sending to the own provider* (`NativeSays`): the items a request came with are given back,
  contents as they are, the system prompt in its place (`MarkedFirst`).
- *Translating* (`TranslationSays`): text alone, which is what `Portable` lets pass; for Anthropic
  and Google turns are merged (`MergedSays`), and a first turn is put before them (`OpenedSays`).
- *Settings*: `LimitFor`, `TempFor`, `StopFor` say what a translation changes, which is what
  `InTranslation` and `Moved` say.

`ReceivedTells`, `ScreenedTells`, `ReaskedTells` and `SentTells` are the steps of `Telling`.

### Induction

No theorem of the library that takes an operator can be cited, so the modules that need induction
begin with it in terms of sets and functions: a set that contains 0, and with a number the
next, contains all (`SetInduction`, from the library's `WFMin`), and a recursive function defined
step by step exists and has its steps (`StepsDefineAFunction`). What a fold computes becomes
the statement that every step keeps to a set.

### Only model-checked

Liveness is out of the prover's reach: `EverySettled` and `Terminates` are checked on the
instances of their runs. So are the properties of the violated runs, which are false. Every
other property of a run is a theorem.

## 5. Not modelled

- Text: the patterns of the detectors, JSON extraction and schemas, token estimates,
  digests of requests, reports, the command line. They are computations on strings
  without state; where their result decides something it is an input.
- Streams, and asynchronous calls of SDKs, as far as they differ from others in data.
- The clients of the SDKs that adapters make and keep, and the registry of providers: a
  dictionary under a lock, filled at import.
- The lifecycle of the process-wide stores and settings (`config.py`): reading
  `cache_store` twice without the lock (`config.py:493`), `reset_settings`, which keeps
  prices that were loaded, and the files `callm pricing update` writes. A model of
  them would be of the size of their code, and say what it says.
- The calls table of SQLite and the record store in memory: single inserts, deletes and
  sums under a lock, on which nothing else depends.
- Floats: amounts are integers, similarity is a table of percentages.
- Asynchronous interrupts between two bytecodes (`KeyboardInterrupt` inside the
  reservation loop); exceptions enter where the code waits.
- The reuse of process ids, and databases in memory, across `fork`.
- Shields and budgets that are left in another order than they were entered in, and
  plain functions that return a coroutine (`_resume`).
- `importlib.reload` of an SDK, and methods that an SDK version does not have.

## 6. Where the code and what is said of it differ

Each of these is a run that TLC ends with a counterexample; `PROJECT.json` quotes
the text.

| Run | The code | What is said |
|---|---|---|
| `cost_lost` | an exception in a later validation attempt skips the line that records the cost of the earlier ones | cost is reported on the response or the record |
| `missing_sdk` | a fallback whose SDK is missing ends the chain | any error of a fallback, including a missing SDK, moves on |
| `forked_lock` | a lock held at the time of a fork stays locked in the child | the storage is fork-safe |
| `recorded_again` | a response that another task intercepted, in a scope that is not nested in the function's, is recorded and charged again when the function returns it | the record is for responses produced outside interception |
| `both_locks` | `ensure_installed` imports with `_lock` held, and the import hook takes `_lock` with Python's lock of a module held | installing is idempotent and cheap, and covers SDKs imported later |

Other differences have no run of their own: the properties leave them out or say what the
code does, as section 3 tells.

| Definition | The code | What is said |
|---|---|---|
| `Merge` of `Scopes` | a scope that has a `PIIConfig` or `InjectionConfig` replaces that of the scope around it, with fewer entities or roles or a weaker action too (`config.py:209-212`) | protections from enclosing scopes always apply (`docs/how-it-works.md:19-21`) |
| `OwnConnection` of `SqliteStore` | `close()` in a child closes the connection of the parent (`sqlite.py:168-174`) | an inherited connection is kept open, so that it is not closed underneath the parent (`sqlite.py:161-162`) |
| `InTranslation` of `Exchange` | of stop sequences OpenAI is sent four (`openai.py:127`), the Responses API none (`openai_responses.py:160`) | stop sequences are translated (`docs/how-it-works.md:71`, `docs/guides/fallback.md:76`) |
| `Moved` of `Exchange` | a temperature in the `extra_body` of an OpenAI-like request is portable (`base.py:196-197`) and is lost: only Anthropic's parser reads it | it is translated via the parameters (`base.py:153`) |
| `Counted` of `Exchange` | the output of a function that is a list is read as `""` (`openai_responses.py:49`) and, the request being sent again in its own form, replaced by it (lines 57-58) | it is kept verbatim (`openai_responses.py:48`) |
| `SpeakerOf` of `Exchange` | the arguments of a `function_call` of the Responses API are not masked (`openai_responses.py:48-49`) | arguments of tool calls are masked (`docs/guides/security.md:46-49`) |
| `LosesRefusal` of `Exchange` | a refusal handed to code of the Responses API is `completed` (`openai_responses.py:235-243`), and Gemini's reasons other than `SAFETY` are a stop for OpenAI's and Anthropic's (`openai.py:14-27`) | the API has `content_filter` for it, which `parse_response` reads (`openai_responses.py:23`); `cache.py:48-59` knows those reasons as refusals |

## 7. Plan

What would add most, in this order:

1. `Scopes` with exits out of order and resumed coroutines.
2. `Pipeline` and `Exchange` as one: the control of `Pipeline` refined by the data of
   `Exchange`.
3. The cost estimate (`pricing.py:231-317`): that it is no less than what is billed
   for one alternative, given tokens are counted right.
