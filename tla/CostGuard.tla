------------------------------ MODULE CostGuard ------------------------------
(***************************************************************************)
(* Shared spending limits (budgets.py) and the cost guard that charges     *)
(* them (middleware/cost.py), for calls running concurrently in threads or *)
(* tasks.                                                                  *)
(*                                                                         *)
(* Every operation of a Budget runs under that budget's own lock and is    *)
(* one atomic action.  The cost guard takes one reservation per budget, in *)
(* the order of its list, sends the request, and then settles them one by  *)
(* one: everything may happen between two of those steps.                  *)
(*                                                                         *)
(* Amounts are integers (micro-dollars); the 1e-12 rounding slack of       *)
(* Budget.reserve is dropped with the floats it exists for.                *)
(***************************************************************************)
EXTENDS Integers, Sequences

CONSTANTS
    NCalls,           \* number of calls that run concurrently
    Budgets,          \* the Budget objects
    BudgetsOf,        \* call -> its budgets in the order they are reserved
    MaxCost,          \* call -> its max_cost, or None
    InitLimit,        \* budget -> its limit when created
    Estimates,        \* what estimate_cost may return (None: unpriced model)
    Costs,            \* what response.cost may be (None: unpriced model)
    Additions,        \* what Budget.add may be called with
    Limits,           \* what Budget.limit may be set to
    RacingResets,     \* TRUE: reset() may be called with reservations open
    MaxPasses,        \* bound: passes of one call through the cost guard
    MaxInterventions, \* bound: calls of add, reset and the limit setter
    None

Calls == 1..NCalls

ASSUME CallsAssumption == NCalls \in Nat
ASSUME BudgetsAssumption ==
    /\ BudgetsOf \in [Calls -> Seq(Budgets)]
    /\ \A c \in Calls : \A i, j \in DOMAIN BudgetsOf[c] :
          BudgetsOf[c][i] = BudgetsOf[c][j] => i = j
    /\ InitLimit \in [Budgets -> Nat]
ASSUME AmountsAssumption ==
    /\ None \notin Int
    /\ MaxCost \in [Calls -> Nat \union {None}]
    /\ Estimates \subseteq Nat \union {None}
    /\ Costs \subseteq Nat \union {None}
    /\ Additions \subseteq Int
    /\ Limits \subseteq Nat
ASSUME BoundsAssumption ==
    /\ RacingResets \in BOOLEAN
    /\ MaxPasses \in Nat
    /\ MaxInterventions \in Nat

VARIABLES
    limit, spent, reserved,   \* budget -> amount
    phase,                    \* call -> where it stands in the cost guard
    estimate,                 \* call -> estimate of the current pass
    at,                       \* call -> index of the next budget of the loop
    pending,                  \* call -> budgets whose Reservation is not done
    actual,                   \* call -> the cost being committed
    outcome,                  \* call -> how its last pass ended, or is ending
    passes,                   \* call -> passes begun
    interventions,            \* add, reset and limit changes made so far
    (* History, read by the properties only. *)
    torn,                     \* budget -> last reset met an open reservation
    unforeseen,               \* budget -> spend no reservation covered
    charged                   \* call -> budgets this pass has charged

amounts == <<limit, spent, reserved>>
guard   == <<phase, estimate, at, pending, actual, outcome, passes>>
history == <<torn, unforeseen, charged>>
vars    == <<amounts, guard, interventions, history>>

-----------------------------------------------------------------------------
(* Helpers. *)

Pos(x)    == IF x > 0 THEN x ELSE 0
OrZero(x) == IF x = None THEN 0 ELSE x

\* What a reservation of this pass of c stands for in each budget.
Amount(c) == OrZero(estimate[c])

\* What c holds in b now.
Held(c, b) == IF b \in pending[c] THEN Amount(c) ELSE 0

\* No call holds a reservation in b.
Quiet(b) == \A c \in Calls : b \notin pending[c]

FitsIgnoringReserved(b, amount) == spent[b] + amount <= limit[b]  \* mutant
FitsStrictly(b, amount) == spent[b] + reserved[b] + amount < limit[b]  \* mutant

\* The test of Budget.reserve.
Fits(b, amount) == spent[b] + reserved[b] + amount <= limit[b]

LeftUnclamped(b, r) == reserved[b] - r  \* mutant
LeftNothing(b, r) == 0  \* mutant

\* What stays reserved in b when a reservation of r is settled.
Left(b, r) == Pos(reserved[b] - r)

UnwoundAtOnce(c, p) == IF pending[c] = {} \/ p = "releasing" THEN "idle" ELSE p  \* mutant

\* The settling loop p of c, or the end of it when there is nothing to settle.
Unwound(c, p) == IF pending[c] = {} THEN "idle" ELSE p

SettlesOne(c, b) == TRUE  \* mutant

\* b is the last reservation of the settling loop.
SettlesLast(c, b) == pending[c] = {b}

Phases   == {"idle", "reserving", "calling", "committing", "releasing"}
Outcomes == {"none", "answered", "failed", "refused"}

TypeOK ==
    /\ limit \in [Budgets -> Nat]
    /\ spent \in [Budgets -> Nat]
    /\ reserved \in [Budgets -> Nat]
    /\ phase \in [Calls -> Phases]
    /\ estimate \in [Calls -> Nat \union {None}]
    /\ at \in [Calls -> Nat]
    /\ pending \in [Calls -> SUBSET Budgets]
    /\ actual \in [Calls -> Nat]
    /\ outcome \in [Calls -> Outcomes]
    /\ passes \in [Calls -> Nat]
    /\ interventions \in Nat
    /\ torn \in [Budgets -> BOOLEAN]
    /\ unforeseen \in [Budgets -> Nat]
    /\ charged \in [Calls -> SUBSET Budgets]

Init ==
    /\ limit = InitLimit
    /\ spent = [b \in Budgets |-> 0]
    /\ reserved = [b \in Budgets |-> 0]
    /\ phase = [c \in Calls |-> "idle"]
    /\ estimate = [c \in Calls |-> None]
    /\ at = [c \in Calls |-> 1]
    /\ pending = [c \in Calls |-> {}]
    /\ actual = [c \in Calls |-> 0]
    /\ outcome = [c \in Calls |-> "none"]
    /\ passes = [c \in Calls |-> 0]
    /\ interventions = 0
    /\ torn = [b \in Budgets |-> FALSE]
    /\ unforeseen = [b \in Budgets |-> 0]
    /\ charged = [c \in Calls |-> {}]

-----------------------------------------------------------------------------
(* The cost guard of one call. *)

\* A pass starts: a first request, a fallback target or a validation attempt.
\* The estimate is new each time, because the target or the messages changed.
\* An estimate above max_cost refuses the pass before any budget is touched.
Begin(c, e) ==
    /\ phase[c] = "idle"
    /\ passes[c] < MaxPasses
    /\ passes' = [passes EXCEPT ![c] = @ + 1]
    /\ estimate' = [estimate EXCEPT ![c] = e]
    /\ charged' = [charged EXCEPT ![c] = {}]
    /\ IF MaxCost[c] # None /\ e # None /\ e > MaxCost[c]
       THEN /\ outcome' = [outcome EXCEPT ![c] = "refused"]
            /\ UNCHANGED <<phase, at>>
       ELSE /\ outcome' = [outcome EXCEPT ![c] = "none"]
            /\ phase' = [phase EXCEPT ![c] =
                            IF BudgetsOf[c] = <<>> THEN "calling" ELSE "reserving"]
            /\ at' = [at EXCEPT ![c] = 1]
    /\ UNCHANGED <<amounts, pending, actual, interventions, torn, unforeseen>>

\* One turn of the reservation loop; after the last the request is sent.
Reserve(c) ==
    /\ phase[c] = "reserving"
    /\ LET b == BudgetsOf[c][at[c]] IN
         /\ Fits(b, Amount(c))
         /\ reserved' = [reserved EXCEPT ![b] = @ + Amount(c)]
         /\ pending' = [pending EXCEPT ![c] = @ \union {b}]
    /\ IF at[c] = Len(BudgetsOf[c])
       THEN /\ phase' = [phase EXCEPT ![c] = "calling"]
            /\ UNCHANGED at
       ELSE /\ at' = [at EXCEPT ![c] = @ + 1]
            /\ UNCHANGED phase
    /\ UNCHANGED <<limit, spent, estimate, actual, outcome, passes, interventions,
                   history>>

\* The settling loop of c starts, over the reservations it has taken.
Unwind(c, p, out) ==
    /\ phase' = [phase EXCEPT ![c] = Unwound(c, p)]
    /\ outcome' = [outcome EXCEPT ![c] = out]
    /\ at' = [at EXCEPT ![c] = 1]
    /\ UNCHANGED <<amounts, estimate, pending, passes, interventions, history>>

\* A budget refuses: BudgetExceeded, and what was taken so far is given back.
Refuse(c) ==
    /\ phase[c] = "reserving"
    /\ ~Fits(BudgetsOf[c][at[c]], Amount(c))
    /\ Unwind(c, "releasing", "refused")
    /\ UNCHANGED actual

\* The rest of the pipeline returned a response; an unpriced one is charged the
\* estimate.
Answer(c, cost) ==
    /\ phase[c] = "calling"
    /\ actual' = [actual EXCEPT ![c] = IF cost # None THEN cost ELSE Amount(c)]
    /\ Unwind(c, "committing", "answered")

\* The rest of the pipeline raised: a provider error, a timeout, a cancellation.
Fail(c) ==
    /\ phase[c] = "calling"
    /\ Unwind(c, "releasing", "failed")
    /\ UNCHANGED actual

\* Budget._settle, under the budget's lock.
Settle(b, r, a) ==
    /\ reserved' = [reserved EXCEPT ![b] = Left(b, r)]
    /\ spent' = [spent EXCEPT ![b] = @ + Pos(a)]
    /\ unforeseen' = [unforeseen EXCEPT ![b] = @ + Pos(a - r)]
    /\ UNCHANGED <<limit, torn>>

\* One turn of the settling loop: this Reservation is done, on to the next.
SettleNext(c, a) ==
    LET b == BudgetsOf[c][at[c]] IN
    /\ Settle(b, Amount(c), a)
    /\ pending' = [pending EXCEPT ![c] = @ \ {b}]
    /\ IF SettlesLast(c, b)
       THEN /\ phase' = [phase EXCEPT ![c] = "idle"]
            /\ UNCHANGED at
       ELSE /\ at' = [at EXCEPT ![c] = @ + 1]
            /\ UNCHANGED phase
    /\ UNCHANGED <<estimate, actual, outcome, passes, interventions>>

Commit(c) ==
    /\ phase[c] = "committing"
    /\ SettleNext(c, actual[c])
    /\ charged' = [charged EXCEPT ![c] = @ \union {BudgetsOf[c][at[c]]}]

Release(c) ==
    /\ phase[c] = "releasing"
    /\ SettleNext(c, 0)
    /\ UNCHANGED charged

-----------------------------------------------------------------------------
(* The rest of the program calls the methods of a shared budget. *)

Intervene ==
    /\ interventions < MaxInterventions
    /\ interventions' = interventions + 1
    /\ UNCHANGED <<guard, charged>>

\* Budget.add: spend recorded outside the cost guard.
Add(b, cost) ==
    /\ Intervene
    /\ spent' = [spent EXCEPT ![b] = @ + Pos(cost)]
    /\ unforeseen' = [unforeseen EXCEPT ![b] = @ + Pos(cost)]
    /\ UNCHANGED <<limit, reserved, torn>>

\* Budget.reset: also forgets the reservations that are still open.
Reset(b) ==
    /\ RacingResets \/ Quiet(b)
    /\ Intervene
    /\ spent' = [spent EXCEPT ![b] = 0]
    /\ reserved' = [reserved EXCEPT ![b] = 0]
    /\ torn' = [torn EXCEPT ![b] = ~Quiet(b)]
    /\ unforeseen' = [unforeseen EXCEPT ![b] = 0]
    /\ UNCHANGED limit

\* The limit setter, also reached through budget_for(key, limit).
SetLimit(b, l) ==
    /\ Intervene
    /\ limit' = [limit EXCEPT ![b] = l]
    /\ unforeseen' = [unforeseen EXCEPT ![b] = @ + Pos(limit[b] - l)]
    /\ UNCHANGED <<spent, reserved, torn>>

-----------------------------------------------------------------------------
(* Every call has made its passes: the only way for the system to stop. *)
Finished ==
    /\ \A c \in Calls : phase[c] = "idle" /\ passes[c] = MaxPasses
    /\ UNCHANGED vars

GuardStep(c) ==
    \/ Reserve(c)
    \/ Refuse(c)
    \/ \E cost \in Costs : Answer(c, cost)
    \/ Fail(c)
    \/ Commit(c)
    \/ Release(c)

Next ==
    \/ \E c \in Calls : (\E e \in Estimates : Begin(c, e)) \/ GuardStep(c)
    \/ \E b \in Budgets : \/ \E cost \in Additions : Add(b, cost)
                          \/ Reset(b)
                          \/ \E l \in Limits : SetLimit(b, l)
    \/ Finished

\* A call that has begun runs on: its thread is scheduled and the provider
\* answers, fails, or runs into the HTTP timeout.
Fairness == \A c \in Calls : WF_vars(GuardStep(c))

Spec == Init /\ [][Next]_vars /\ Fairness

-----------------------------------------------------------------------------
(* Properties. *)

\* No reservation leaks: a budget with no call in flight has nothing reserved,
\* whatever mix of answers, errors, refusals and resets came before.
NoLeak == \A b \in Budgets : Quiet(b) => reserved[b] = 0

\* Concurrent calls do not overshoot the limit by racing each other: apart from
\* spend that no reservation could foresee (an estimate that was too low, add(),
\* a lowered limit), spent and reserved stay within the limit.  A reset() that
\* overtakes an open reservation voids the promise until the next quiet reset.
NoOvershoot ==
    \A b \in Budgets :
        ~torn[b] => spent[b] + reserved[b] <= limit[b] + unforeseen[b]

\* While a request is at the provider, every budget of its call still holds
\* back at least that request's estimate.
InFlightCovered ==
    \A c \in Calls : phase[c] = "calling" =>
        \A i \in DOMAIN BudgetsOf[c] :
            LET b == BudgetsOf[c][i] IN ~torn[b] => reserved[b] >= Amount(c)

\* A pass charges all of its budgets or none of them, and only an answered one.
AllOrNothing ==
    \A c \in Calls : phase[c] = "idle" =>
        charged[c] = IF outcome[c] = "answered"
                     THEN {BudgetsOf[c][i] : i \in DOMAIN BudgetsOf[c]}
                     ELSE {}

\* The request of c alone would fit each of its limits.
FitsAlone(c) ==
    /\ MaxCost[c] = None \/ Amount(c) <= MaxCost[c]
    /\ \A i \in DOMAIN BudgetsOf[c] : Amount(c) <= limit[BudgetsOf[c][i]]

\* When every call would fit alone and all reserve in the same order, racing
\* partial reservations never make the first passes of all of them refused.
SomeoneWins ==
    (/\ interventions = 0
     /\ \A b \in Budgets : spent[b] = 0
     /\ \A c \in Calls : passes[c] = 1 /\ FitsAlone(c))
    => \E c \in Calls : phase[c] # "idle" \/ outcome[c] # "refused"

\* Every reservation is settled in the end.
EverySettled ==
    \A c \in Calls, b \in Budgets : b \in pending[c] ~> b \notin pending[c]

-----------------------------------------------------------------------------
(* What the budgets promise. *)

BudgetSet(c) == {BudgetsOf[c][i] : i \in DOMAIN BudgetsOf[c]}

\* A request has been let through and is not settled everywhere yet.
Sent(c) ==
    \/ phase[c] \in {"calling", "committing"}
    \/ phase[c] = "releasing" /\ outcome[c] = "failed"

\* The amounts that are pledged, charged or set.
Occurring ==
    {0} \union {OrZero(x) : x \in Estimates \union Costs} \union {Pos(x) : x \in Additions}
        \union Limits

BudgetSets == [c \in Calls |-> BudgetSet(c)]

\* The budgets in which the request of a call is still to be settled, and what it may
\* cost there.
Unsettled == [c \in Calls |-> IF Sent(c) THEN pending[c] ELSE {}]
Pledges   == [c \in Calls |-> IF Unsettled[c] # {} THEN Amount(c) ELSE 0]

Promise == INSTANCE SpendingLimit WITH
    Uses <- BudgetSets, Amounts <- Occurring, open <- Unsettled, pledge <- Pledges

\* The cost guard's loop of reservations, with its refusals and roll-backs, looks
\* to its callers like one atomic grant over all budgets of the call.
KeepsThePromise == Promise!Spec

-----------------------------------------------------------------------------
(* The inductive invariants behind NoLeak, NoOvershoot, InFlightCovered,       *)
(* AllOrNothing and SomeoneWins.                                               *)

Slice(c, i, j) == {BudgetsOf[c][k] : k \in i..j}

\* A call holds exactly the reservations its loop index says it holds.
LoopOK(c) ==
    /\ phase[c] = "idle" => pending[c] = {}
    /\ phase[c] = "reserving" =>
          /\ at[c] \in 1..Len(BudgetsOf[c])
          /\ pending[c] = Slice(c, 1, at[c] - 1)
    /\ phase[c] = "calling" => pending[c] = Slice(c, 1, Len(BudgetsOf[c]))
    /\ phase[c] \in {"committing", "releasing"} =>
          /\ at[c] \in 1..Len(BudgetsOf[c])
          /\ \E m \in at[c]..Len(BudgetsOf[c]) : pending[c] = Slice(c, at[c], m)

PendingMatchesLoop == \A c \in Calls : LoopOK(c)

\* A call whose pass was not answered has charged nothing; of one that was, the budgets
\* not charged yet are those whose reservations are still to be settled.
ChargesMatchOutcome ==
    \A c \in Calls :
        IF outcome[c] = "answered"
        THEN phase[c] \in {"idle", "committing"} /\ charged[c] \union pending[c] = BudgetSet(c)
        ELSE phase[c] # "committing" /\ charged[c] = {}

\* Every call reserves its budgets in ascending rank.
InOrder(rank) ==
    /\ rank \in [Budgets -> Int]
    /\ \A c \in Calls : \A i, j \in DOMAIN BudgetsOf[c] :
          i < j => rank[BudgetsOf[c][i]] < rank[BudgetsOf[c][j]]

\* d has reserved at least as far as every budget that a refused call still holds.
Ahead(d, rank) ==
    \A e \in Calls : outcome[e] = "refused" =>
        \A b \in pending[e] : \E x \in pending[d] : rank[b] <= rank[x]

\* The first pass of d is not refused, and is past its reservations or ahead.
Leads(d, rank) ==
    /\ passes[d] = 1 /\ outcome[d] # "refused"
    /\ phase[d] = "reserving" => Ahead(d, rank)

\* The race that SomeoneWins is about, run to any point.
Race ==
    /\ interventions = 0
    /\ \A b \in Budgets : spent[b] = 0
    /\ \A c \in Calls : passes[c] <= 1 /\ (passes[c] = 1 => FitsAlone(c))

\* A call that is somewhere in the guard has begun a pass, which has no outcome until
\* its request has one or is refused.
Begun ==
    \A c \in Calls :
        /\ phase[c] # "idle" => passes[c] > 0
        /\ phase[c] \in {"reserving", "calling"} => outcome[c] = "none"

\* Once a call of a race is refused, another one leads.
SomeoneLeads(rank) ==
    Race /\ (\E e \in Calls : outcome[e] = "refused") =>
        \E d \in Calls : Leads(d, rank)

HeldIn(b) == [c \in Calls |-> Held(c, b)]

\* f[i] is the sum of held[1], ..., held[i]; it grows, and only where held is
\* not zero.
RunningTotal(f, held) ==
    /\ f \in [0..NCalls -> Nat]
    /\ f[0] = 0
    /\ \A i \in Calls : f[i] = f[i - 1] + held[i]
    /\ \A i, j \in 0..NCalls : i <= j => f[i] <= f[j]
    /\ \A i, j \in 0..NCalls :
          (i <= j /\ \A k \in (i + 1)..j : held[k] = 0) => f[i] = f[j]

\* The counter of b is what the calls hold, or less once a reset tore it.
Balanced(f, b) ==
    /\ RunningTotal(f, HeldIn(b))
    /\ reserved[b] <= f[NCalls]
    /\ ~torn[b] => reserved[b] = f[NCalls]
    /\ ~torn[b] => spent[b] + reserved[b] <= limit[b] + unforeseen[b]

Accounts == \A b \in Budgets : \E f \in [0..NCalls -> Nat] : Balanced(f, b)
=============================================================================
