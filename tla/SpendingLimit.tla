---------------------------- MODULE SpendingLimit ----------------------------
(***************************************************************************)
(* What shared budgets promise to the calls that use them: a request is    *)
(* let through only if all of its budgets can afford it at that moment,    *)
(* and from then until each budget is settled its price counts as spent.   *)
(* Granting is one step here, however many budgets a call has.  A restart   *)
(* that meets an open request voids the promise until a quiet restart.     *)
(***************************************************************************)
EXTENDS Integers

CONSTANTS
    NCalls, Budgets,
    Uses,        \* call -> the set of its budgets
    InitLimit,   \* budget -> its first limit
    Amounts      \* the amounts that occur

VARIABLES
    limit, spent,   \* budget -> amount
    open,           \* call -> budgets its granted request is not settled in
    pledge,         \* call -> what its granted request may cost
    unforeseen,     \* budget -> spend that was never pledged
    torn            \* budget -> its last restart met a request

vars == <<limit, spent, open, pledge, unforeseen, torn>>

Calls == 1..NCalls

Over(x, y) == IF x > y THEN x - y ELSE 0

\* The sum of what f has for all calls.
Total(f) ==
    LET upTo[n \in 0..NCalls] == IF n = 0 THEN 0 ELSE upTo[n - 1] + f[n]
    IN  upTo[NCalls]

\* What the granted requests that are not settled in b may cost.
Pledged(b) == Total([c \in Calls |-> IF b \in open[c] THEN pledge[c] ELSE 0])

Init ==
    /\ limit = InitLimit
    /\ spent = [b \in Budgets |-> 0]
    /\ open = [c \in Calls |-> {}]
    /\ pledge = [c \in Calls |-> 0]
    /\ unforeseen = [b \in Budgets |-> 0]
    /\ torn = [b \in Budgets |-> FALSE]

Grant(c, amount) ==
    /\ open[c] = {} /\ Uses[c] # {}
    /\ \A b \in Uses[c] : ~torn[b] =>
          spent[b] + Pledged(b) + amount <= limit[b] + unforeseen[b]
    /\ open' = [open EXCEPT ![c] = Uses[c]]
    /\ pledge' = [pledge EXCEPT ![c] = amount]
    /\ UNCHANGED <<limit, spent, unforeseen, torn>>

\* The request is settled in b at its cost, or at 0 when it failed.
Close(c, b, cost) ==
    /\ b \in open[c]
    /\ open' = [open EXCEPT ![c] = @ \ {b}]
    /\ pledge' = [pledge EXCEPT ![c] = IF open[c] = {b} THEN 0 ELSE @]
    /\ spent' = [spent EXCEPT ![b] = @ + cost]
    /\ unforeseen' = [unforeseen EXCEPT ![b] = @ + Over(cost, pledge[c])]
    /\ UNCHANGED <<limit, torn>>

Record(b, cost) ==
    /\ spent' = [spent EXCEPT ![b] = @ + cost]
    /\ unforeseen' = [unforeseen EXCEPT ![b] = @ + cost]
    /\ UNCHANGED <<limit, open, pledge, torn>>

\* A request that is being let through may count as open already.
Restart(b) ==
    /\ \E met \in BOOLEAN :
         /\ (\E c \in Calls : b \in open[c]) => met
         /\ torn' = [torn EXCEPT ![b] = met]
    /\ spent' = [spent EXCEPT ![b] = 0]
    /\ unforeseen' = [unforeseen EXCEPT ![b] = 0]
    /\ UNCHANGED <<limit, open, pledge>>

SetLimit(b, l) ==
    /\ limit' = [limit EXCEPT ![b] = l]
    /\ unforeseen' = [unforeseen EXCEPT ![b] = @ + Over(limit[b], l)]
    /\ UNCHANGED <<spent, open, pledge, torn>>

Next ==
    \/ \E c \in Calls, amount \in Amounts : Grant(c, amount)
    \/ \E c \in Calls, b \in Budgets, cost \in Amounts : Close(c, b, cost)
    \/ \E b \in Budgets, cost \in Amounts : Record(b, cost)
    \/ \E b \in Budgets : Restart(b)
    \/ \E b \in Budgets, l \in Amounts : SetLimit(b, l)

Spec == Init /\ [][Next]_vars
=============================================================================
