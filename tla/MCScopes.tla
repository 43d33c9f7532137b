------------------------------ MODULE MCScopes ------------------------------
(* Instances of Scopes for TLC. *)
EXTENDS Scopes, TLC

CONSTANTS main, child, s, w, f, b1, b2, strict, weak

Protects(budgets, pii, max_cost) ==
    [budgets |-> budgets, pii |-> pii, max_cost |-> max_cost]

\* A shield that masks, one that masks less, and a function that has a budget, a limit
\* and re-runs.
ThreeScopes ==
    s :> [protects |-> Protects({}, strict, 2), max_retries |-> 0, validation_retries |-> 0]
    @@ w :> [protects |-> Protects({}, weak, None), max_retries |-> 0,
             validation_retries |-> 0]
    @@ f :> [protects |-> Protects({b1}, None, 3), max_retries |-> 1,
             validation_retries |-> 1]

\* The task that is started enters one thing at a time, and no budget.
Depth == main :> 2 @@ child :> 1
Enters == main :> {s, w, f, b2} @@ child :> {s, w, f}
=============================================================================
