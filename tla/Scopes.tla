------------------------------- MODULE Scopes -------------------------------
(***************************************************************************)
(* Execution contexts: which protections a request gets that is made inside *)
(* decorated functions, shields and budgets, nested in one another and      *)
(* carried into other tasks (decorator.py, api.py, the ExecutionContext of  *)
(* interception.py, merge_scopes of config.py, the scoping of budgets.py).  *)
(*                                                                         *)
(* A task (an asyncio task or a thread) is in a stack of frames, one for    *)
(* each with statement and each decorated function it has entered.  The     *)
(* code does not see that stack: it has a context variable per task, and    *)
(* contexts that point to their parents and are shared between tasks.       *)
(***************************************************************************)
EXTENDS Integers, SequencesExt, FiniteSetsExt

CONSTANTS
    Tasks, First,       \* the tasks, and the one the program starts in
    Shields, Functions, \* shield objects, decorated functions
    Budgets,            \* budgets that may be entered with a with statement
    PIIConfigs,         \* PIIConfigs, of different strictness
    Options,            \* shield or function -> what it was created with
    MaxScopes,          \* bound: contexts created
    MaxDepth,           \* bound: task -> frames
    Uses,               \* bound: task -> what its code may enter
    None

AllBudgets ==
    Budgets \union UNION {Options[x].protects.budgets : x \in Shields \union Functions}

\* pii stands for injection, too: merge_scopes treats the two alike.
Protections ==
    [budgets : SUBSET AllBudgets, pii : PIIConfigs \union {None},
     max_cost : Nat \union {None}]

ASSUME ScopesAssumption ==
    /\ First \in Tasks
    /\ MaxScopes \in Nat
    /\ MaxDepth \in [Tasks -> Nat]
    /\ \A x \in Shields \union Functions :
         /\ Options[x].protects \in Protections
         /\ Options[x].max_retries \in Nat /\ Options[x].validation_retries \in Nat
    /\ None \notin Tasks \union Nat \union PIIConfigs

VARIABLES
    ctxs,       \* the ExecutionContexts, in the order they were created
    active,     \* task -> its ACTIVE: an index of ctxs, or 0
    entered,    \* task -> its budgets._ACTIVE
    frames,     \* task -> what it is in, innermost last
    spawner,    \* task -> the task that started it, or None
    got,        \* task -> the latest response it has for the task that started it
    (* History, read by the properties only. *)
    around,     \* task -> what it was started in: protections, in scope, runs
    called,     \* the runs of functions in which a call was intercepted
    recorded    \* what _record_uninstrumented has recorded in this step, or None

program == <<frames, spawner, got>>
history == <<around, called>>
vars    == <<ctxs, active, entered, program, history, recorded>>

-----------------------------------------------------------------------------
(* Protections: the part of a CallConfig that nested scopes add up. *)

Unprotected == [budgets |-> {}, pii |-> None, max_cost |-> None]

Strictest(a, b) ==
    CASE a = None -> b [] b = None -> a [] OTHER -> IF a < b THEN a ELSE b

Innermost(outer, inner) == IF inner = None THEN outer ELSE inner

MergeInnermost(outer, inner) ==  \* mutant
    [budgets  |-> inner.budgets \union outer.budgets,
     pii      |-> inner.pii,
     max_cost |-> Strictest(outer.max_cost, inner.max_cost)]

\* merge_scopes: a scope without a PIIConfig has that of the scope it is nested in, and
\* one with a PIIConfig has its own, however strict the other one is.
Merge(outer, inner) ==
    [budgets  |-> inner.budgets \union outer.budgets,
     pii      |-> Innermost(outer.pii, inner.pii),
     max_cost |-> Strictest(outer.max_cost, inner.max_cost)]

-----------------------------------------------------------------------------
(* Contexts. *)

\* enter_scope, for something entered in task t.
Context(t, x, owner) ==
    [config |-> IF active[t] = 0 THEN Options[x].protects
                ELSE Merge(ctxs[active[t]].config, Options[x].protects),
     parent |-> active[t], owner |-> owner, calls |-> FALSE]

ChainOwn(i) == {i} \ {0}  \* mutant

\* The context i and those it is nested in.
Chain(i) ==
    LET up[j \in 0..Len(ctxs)] ==
            IF j = 0 THEN {} ELSE {j} \union up[ctxs[j].parent]
    IN  up[i]

\* mark_call, of which all that is asked is whether the number is 0.
Marked(i) ==
    [j \in DOMAIN ctxs |->
        IF j \in Chain(i) THEN [ctxs[j] EXCEPT !.calls = TRUE] ELSE ctxs[j]]

\* What shield.__exit__ makes active: the parent of the innermost context that the
\* shield owns.
Outside(i, s) ==
    LET own == {j \in Chain(i) : ctxs[j].owner = s}
    IN  IF own = {} THEN i ELSE ctxs[Max(own)].parent

\* What a call in t is protected by: its context, and the budgets entered.
Protection(t) ==
    LET config == IF active[t] = 0 THEN Unprotected ELSE ctxs[active[t]].config
    IN  [config EXCEPT !.budgets = @ \union ToSet(entered[t])]

-----------------------------------------------------------------------------
(* Frames. *)

Frame(kind, x, protects, ctx, token, run) ==
    [kind |-> kind, of |-> x, protects |-> protects, ctx |-> ctx, token |-> token,
     run |-> run, retries |-> 0, validations |-> 0, holds |-> None, sleeping |-> FALSE]

Started(t) == t = First \/ spawner[t] # None
Top(t) == Last(frames[t])
AtTop(t, kind) == frames[t] # <<>> /\ Top(t).kind = kind /\ ~Top(t).sleeping
Runs(t) == Started(t) /\ \A i \in DOMAIN frames[t] : ~frames[t][i].sleeping

Push(t, frame) == frames' = [frames EXCEPT ![t] = Append(@, frame)]
Pop(t) == frames' = [frames EXCEPT ![t] = Front(@)]

\* A response is one of a call that callm intercepted or of callm.complete(), or of a
\* client of the function's "own".
Kinds == {"intercepted", "complete", "own"}

\* The stack of t after its innermost function, or the code outside of all, has
\* got response r.
FunctionsOf(stack) == {i \in DOMAIN stack : stack[i].kind = "function"}
Give(t, stack, r) ==
    IF r = None \/ FunctionsOf(stack) = {}
    THEN /\ frames' = [frames EXCEPT ![t] = stack]
         /\ got' = [got EXCEPT ![t] = IF r = None \/ spawner[t] = None THEN @ ELSE r]
    ELSE /\ frames' = [frames EXCEPT ![t] =
                          [stack EXCEPT ![Max(FunctionsOf(stack))].holds = r]]
         /\ UNCHANGED got

\* What the frames of t, and those it was started in, ask for: all their budgets, the
\* PIIConfig of the innermost that has one, and the least max_cost.
Asked(t) ==
    LET all == {around[t].protects} \union {frames[t][i].protects : i \in DOMAIN frames[t]}
        limits  == {a.max_cost : a \in all} \ {None}
        masking == {i \in DOMAIN frames[t] : frames[t][i].protects.pii # None}
    IN  [budgets  |-> UNION {a.budgets : a \in all},
         pii      |-> IF masking = {} THEN around[t].protects.pii
                      ELSE frames[t][Max(masking)].protects.pii,
         max_cost |-> IF limits = {} THEN None ELSE Min(limits)]
InScope(t) ==
    around[t].scoped \/ \E i \in DOMAIN frames[t] : frames[t][i].kind # "budget"
RunsOf(t) == around[t].runs \union {frames[t][i].run : i \in FunctionsOf(frames[t])}
NewRun ==
    LET used == UNION {RunsOf(t) : t \in Tasks}
    IN  Min(1..(Cardinality(used) + 1) \ used)

Init ==
    /\ ctxs = <<>>
    /\ active = [t \in Tasks |-> 0]
    /\ entered = [t \in Tasks |-> <<>>]
    /\ frames = [t \in Tasks |-> <<>>]
    /\ spawner = [t \in Tasks |-> None]
    /\ got = [t \in Tasks |-> None]
    /\ around = [t \in Tasks |-> [protects |-> Unprotected, scoped |-> FALSE, runs |-> {}]]
    /\ called = {}
    /\ recorded = None

\* What nothing refers to any more, at the end of ctxs, is collected.
Collected ==
    LET used == {active'[t] : t \in Tasks}
                \union UNION {{frames'[t][i].ctx : i \in DOMAIN frames'[t]} : t \in Tasks}
    IN  SubSeq(ctxs, 1, Max(used))

-----------------------------------------------------------------------------
(* Shields and budgets. *)

Enter(t, x, owner, kind, run) ==
    /\ Runs(t) /\ Len(frames[t]) < MaxDepth[t] /\ Len(ctxs) < MaxScopes
    /\ ctxs' = Append(ctxs, Context(t, x, owner))
    /\ active' = [active EXCEPT ![t] = Len(ctxs) + 1]
    /\ Push(t, Frame(kind, x, Options[x].protects, Len(ctxs) + 1, active[t], run))
    /\ UNCHANGED <<entered, spawner, got, around>>

EnterShield(t, s) == Enter(t, s, s, "shield", 0) /\ UNCHANGED called

LeaveShield(t) ==
    /\ AtTop(t, "shield")
    /\ active' = [active EXCEPT ![t] = Outside(@, Top(t).of)]
    /\ Pop(t)
    /\ ctxs' = Collected
    /\ UNCHANGED <<entered, spawner, got, around, called>>

EnterBudget(t, b) ==
    /\ Runs(t) /\ Len(frames[t]) < MaxDepth[t]
    /\ entered' = [entered EXCEPT ![t] = Append(@, b)]
    /\ Push(t, Frame("budget", b, [Unprotected EXCEPT !.budgets = {b}], 0, 0, 0))
    /\ UNCHANGED <<ctxs, active, spawner, got, around, called>>

\* The last occurrence of the budget is removed.
LeaveBudget(t) ==
    /\ AtTop(t, "budget")
    /\ LET at == Max({i \in DOMAIN entered[t] : entered[t][i] = Top(t).of})
       IN  entered' = [entered EXCEPT ![t] = RemoveAt(@, at)]
    /\ Pop(t)
    /\ UNCHANGED <<ctxs, active, spawner, got, around, called>>

-----------------------------------------------------------------------------
(* Requests. *)

\* A response of a request made in t.
Receive(t, kind) ==
    /\ Runs(t)
    /\ Give(t, frames[t], kind)
    /\ UNCHANGED <<active, entered, spawner, around>>

\* A method of an SDK is called in a scope, which intercepts it.
Call(t) ==
    /\ active[t] # 0
    /\ Receive(t, "intercepted")
    /\ ctxs' = Marked(active[t])
    /\ called' = called \union RunsOf(t)

\* callm.complete(): it takes over the protections, but no call is marked.
Complete(t) ==
    /\ Receive(t, "complete")
    /\ UNCHANGED <<ctxs, called>>

\* A client that callm does not know, or an SDK that is called in no scope.
OwnRequest(t) ==
    /\ Receive(t, "own")
    /\ UNCHANGED <<ctxs, called>>

-----------------------------------------------------------------------------
(* Decorated functions. *)

CallFunction(t, f) ==
    /\ Enter(t, f, None, "function", NewRun)
    /\ called' = called \ {NewRun}

\* The finally clause: ACTIVE.reset(token).
Finish(t, r) ==
    /\ active' = [active EXCEPT ![t] = Top(t).token]
    /\ Give(t, Front(frames[t]), r)
    /\ ctxs' = Collected
    /\ UNCHANGED called

\* The top of the while loop, with the function's frame as given.
Again(t, frame) ==
    /\ frames' = [frames EXCEPT ![t] =
                     Append(Front(@), [frame EXCEPT !.run = NewRun, !.holds = None,
                                                    !.sleeping = FALSE])]
    /\ called' = called \ {NewRun}
    /\ ctxs' = [ctxs EXCEPT ![frame.ctx].calls = FALSE]
    /\ UNCHANGED <<active, got>>

Silent(frame) == ~ctxs[frame.ctx].calls

\* _record_uninstrumented puts a response into telemetry, and charges it.
Records(frame, r) == r # None /\ Silent(frame)

RetriesAlways(frame, retryable) == Silent(frame) /\ retryable  \* mutant

\* _retry_delay, without the delay.
Retries(frame, retryable) ==
    Silent(frame) /\ retryable /\ frame.retries < Options[frame.of].max_retries

Revalidates(frame) ==
    Silent(frame) /\ frame.validations < Options[frame.of].validation_retries

\* The function returns a response of kind r, or something that is none.
Return(t, r, valid) ==
    LET frame == Top(t) IN
    /\ AtTop(t, "function")
    /\ r \in {frame.holds, None}
    /\ recorded' = IF Records(frame, r) THEN r ELSE None
    /\ IF ~valid /\ Revalidates(frame)
       THEN Again(t, [frame EXCEPT !.validations = @ + 1])
       ELSE Finish(t, IF valid THEN r ELSE None)
    /\ UNCHANGED <<entered, spawner, around>>

Raise(t, retryable) ==
    LET frame == Top(t) IN
    /\ AtTop(t, "function")
    /\ IF Retries(frame, retryable)
       THEN /\ frames' = [frames EXCEPT ![t][Len(frames[t])].sleeping = TRUE]
            /\ UNCHANGED <<ctxs, active, got, called>>
       ELSE Finish(t, None)
    /\ UNCHANGED <<entered, spawner, around>>

\* The backoff is over, and the function runs again.
Wake(t) ==
    /\ frames[t] # <<>> /\ Top(t).sleeping
    /\ Again(t, [Top(t) EXCEPT !.retries = @ + 1])
    /\ UNCHANGED <<entered, spawner, around>>

\* The function is cancelled in its backoff.
Cancel(t) ==
    /\ frames[t] # <<>> /\ Top(t).sleeping
    /\ Finish(t, None)
    /\ UNCHANGED <<entered, spawner, around>>

-----------------------------------------------------------------------------
(* Tasks. *)

\* Task t starts task u: an asyncio task, or a thread that copies the context, has
\* the context variables of t; a thread that does not starts with none.
Start(t, u, copies) ==
    /\ Runs(t) /\ ~Started(u)
    /\ spawner' = [spawner EXCEPT ![u] = t]
    /\ active' = [active EXCEPT ![u] = IF copies THEN active[t] ELSE 0]
    /\ entered' = [entered EXCEPT ![u] = IF copies THEN entered[t] ELSE <<>>]
    /\ around' = [around EXCEPT ![u] =
                     IF copies
                     THEN [protects |-> Asked(t), scoped |-> InScope(t), runs |-> RunsOf(t)]
                     ELSE @]
    /\ UNCHANGED <<ctxs, frames, got, called>>

\* Task t waits for task u, which has finished, and gets its result.
Await(t, u) ==
    /\ Runs(t) /\ spawner[u] = t /\ frames[u] = <<>>
    /\ got[u] # None
    /\ got' = [got EXCEPT ![u] = None]
    /\ FunctionsOf(frames[t]) # {}
    /\ frames' = [frames EXCEPT ![t][Max(FunctionsOf(frames[t]))].holds = got[u]]
    /\ UNCHANGED <<ctxs, active, entered, spawner, around, called>>

\* What leads out of what t is in.
Leave(t) ==
    \/ /\ LeaveShield(t) \/ LeaveBudget(t) \/ Wake(t) \/ Cancel(t)
       /\ recorded' = None
    \/ \E retryable \in BOOLEAN : Raise(t, retryable) /\ recorded' = None
    \/ \E r \in Kinds \union {None}, valid \in BOOLEAN : Return(t, r, valid)

Proceed(t) ==
    \/ Call(t) \/ Complete(t) \/ OwnRequest(t)
    \/ \E s \in Shields \intersect Uses[t] : EnterShield(t, s)
    \/ \E b \in Budgets \intersect Uses[t] : EnterBudget(t, b)
    \/ \E f \in Functions \intersect Uses[t] : CallFunction(t, f)
    \/ \E u \in Tasks, copies \in BOOLEAN : Start(t, u, copies)
    \/ \E u \in Tasks : Await(t, u)

Next == \E t \in Tasks : Leave(t) \/ (Proceed(t) /\ recorded' = None)

\* What a task has entered it leaves again.
Spec == Init /\ [][Next]_vars /\ \A t \in Tasks : WF_vars(Leave(t))

-----------------------------------------------------------------------------
(* Properties. *)

TypeOK ==
    /\ \A i \in DOMAIN ctxs : ctxs[i].parent \in 0..(i - 1)
    /\ active \in [Tasks -> 0..Len(ctxs)]
    /\ \A t \in Tasks : \A i \in FunctionsOf(frames[t]) :
         LET frame == frames[t][i] IN
         /\ frame.retries \in 0..Options[frame.of].max_retries
         /\ frame.validations \in 0..Options[frame.of].validation_retries
         /\ frame.holds \in Kinds \union {None}

\* Whatever was entered and left before, in this task or in others, normally or by an
\* exception or for another run, a call that is made now is left alone outside of all
\* scopes.  Inside, it is charged to the budgets of every scope it is in, those that its
\* task was started in included, has the least max_cost of them all, and is masked (and
\* searched for injections) when any of them asks for it: by the PIIConfig of the
\* innermost scope that has one.  That one may mask less than the others: the
\* protections of the enclosing scopes that docs/how-it-works.md says "always apply" do
\* so but for their entities, roles and action.
EveryScopeApplies ==
    \A t \in Tasks :
        /\ active[t] = 0 <=> ~InScope(t)
        /\ Protection(t) = Asked(t)

\* docs/guides/retries.md: a function that made an intercepted call, itself or in
\* functions and tasks it started, is not run again, nor is what it returns recorded
\* as the answer of an unknown client.
CallersRunOnce ==
    [][\A t \in Tasks : AtTop(t, "function") /\ Top(t).run \in called =>
          /\ \A retryable \in BOOLEAN : Raise(t, retryable) => Len(frames'[t]) < Len(frames[t])
          /\ \A r \in Kinds, valid \in BOOLEAN : Return(t, r, valid) =>
                recorded' = None /\ Len(frames'[t]) < Len(frames[t])]_vars

\* decorator.py: _record_uninstrumented is for responses "produced outside
\* interception": what was intercepted has been recorded and charged already.
RecordsOnlyUninstrumented == recorded # "intercepted"
=============================================================================
