--------------------------- MODULE CostGuardProofs ---------------------------
(***************************************************************************)
(* Proofs about CostGuard for any number of calls, budgets, amounts and    *)
(* bounds.  The counter of a budget is related to the reservations the     *)
(* calls hold by a witness for their sum: a function of running totals     *)
(* that each reservation raises, and each settlement lowers, from one call *)
(* on.                                                                     *)
(***************************************************************************)
EXTENDS CostGuard, WellFoundedInduction, TLAPS

-----------------------------------------------------------------------------
(* Induction over the natural numbers, in terms of sets and functions. *)

\* A set that has 0, and with every number the next, has all natural numbers.
LEMMA SetInduction ==
    ASSUME NEW S, 0 \in S, \A n \in Nat : n \in S => n + 1 \in S
    PROVE  Nat \subseteq S
<1> DEFINE T == Nat \ S
<1> SUFFICES ASSUME T # {} PROVE FALSE
    OBVIOUS
<1>1. PICK x \in T : \A y \in T : ~(<<y, x>> \in OpToRel(<, Nat))
    BY WFMin, NatLessThanWellFounded
<1>2. x # 0 /\ x - 1 \in Nat
    OBVIOUS
<1>3. x - 1 \in T
    OBVIOUS
<1>4. <<x - 1, x>> \in OpToRel(<, Nat)
    BY <1>2 DEF OpToRel
<1> QED BY <1>1, <1>3, <1>4

\* step[n] leads from a value of T to the next one.
StepsWithin(N, T, step) == \A n \in 1..N : \A x \in T : step[n][x] \in T

\* f is given on 0..N by its value at 0 and by the step from one value to the next.
FollowsSteps(f, N, base, step) ==
    f[0] = base /\ \A n \in 1..N : f[n] = step[n][f[n - 1]]

\* Some function follows the steps.
LEMMA StepsDefineAFunction ==
    ASSUME NEW N \in Nat, NEW T, NEW base \in T, NEW step,
           StepsWithin(N, T, step)
    PROVE  \E f \in [0..N -> T] : FollowsSteps(f, N, base, step)
<1> USE DEF StepsWithin, FollowsSteps
<1> DEFINE Goes(n, f) == FollowsSteps(f, n, base, step)
           S == {n \in Nat : n <= N => \E f \in [0..n -> T] : Goes(n, f)}
<1>1. 0 \in S
  <2> DEFINE g == [i \in 0..0 |-> base]
  <2>1. g \in [0..0 -> T] /\ Goes(0, g)
    OBVIOUS
  <2> QED BY <2>1
<1>2. ASSUME NEW n \in Nat, n \in S
      PROVE  n + 1 \in S
  <2>1. SUFFICES ASSUME n + 1 <= N
                 PROVE  \E f \in [0..(n + 1) -> T] : Goes(n + 1, f)
    BY DEF S
  <2>2. PICK f \in [0..n -> T] : Goes(n, f)
    BY <1>2, <2>1 DEF S
  <2> HIDE DEF S
  <2>3. n + 1 \in 1..N
    BY <2>1
  <2>4. f[n] \in T
    OBVIOUS
  <2>5. step[n + 1][f[n]] \in T
    BY <2>3, <2>4
  <2> DEFINE last == step[n + 1][f[n]]
             g == [i \in 0..(n + 1) |-> IF i = n + 1 THEN last ELSE f[i]]
  <2> HIDE DEF last
  <2>6. g \in [0..(n + 1) -> T]
    BY <2>5 DEF last
  <2>7. g[n + 1] = last /\ \A i \in 0..n : g[i] = f[i]
    OBVIOUS
  <2> HIDE DEF g
  <2>8. g[0] = base
    BY <2>2, <2>7
  <2>9. ASSUME NEW i \in 1..(n + 1)
        PROVE  g[i] = step[i][g[i - 1]]
    <3>1. CASE i = n + 1
      <4>1. g[i - 1] = f[n] /\ g[i] = last
        BY <3>1, <2>7
      <4> QED BY <4>1, <3>1 DEF last
    <3>2. CASE i # n + 1
      <4>1. i \in 1..n /\ i \in 0..n /\ i - 1 \in 0..n
        BY <3>2
      <4>2. g[i - 1] = f[i - 1] /\ g[i] = f[i]
        BY <4>1, <2>7
      <4> QED BY <4>1, <4>2, <2>2
    <3> QED BY <3>1, <3>2
  <2> QED BY <2>6, <2>8, <2>9
<1>3. N \in S
  <2> HIDE DEF S
  <2> QED BY <1>1, <1>2, SetInduction
<1> QED BY <1>3

-----------------------------------------------------------------------------
(* Lemmas on running totals. *)

\* Nothing held sums up to nothing.
LEMMA NothingHeld ==
    ASSUME NEW held \in [Calls -> Nat], NEW f, RunningTotal(f, held),
           \A c \in Calls : held[c] = 0
    PROVE  f[NCalls] = 0
  BY CallsAssumption DEF RunningTotal, Calls

\* What one call holds is part of the total.
LEMMA HeldIsCounted ==
    ASSUME NEW held \in [Calls -> Nat], NEW f, RunningTotal(f, held),
           NEW c \in Calls
    PROVE  f[NCalls] \in Nat /\ held[c] <= f[NCalls]
  <1>1. c \in 0..NCalls /\ c - 1 \in 0..NCalls /\ NCalls \in 0..NCalls
    BY CallsAssumption DEF Calls
  <1>2. f[c] = f[c - 1] + held[c] /\ f[c] <= f[NCalls]
    BY <1>1, CallsAssumption DEF RunningTotal, Calls
  <1>3. f[c - 1] \in Nat /\ f[c] \in Nat /\ f[NCalls] \in Nat
    BY <1>1 DEF RunningTotal
  <1> QED BY <1>2, <1>3

\* A call that holds nothing takes d: the total grows by d.
LEMMA TakeRaises ==
    ASSUME NEW held \in [Calls -> Nat], NEW f, RunningTotal(f, held),
           NEW c \in Calls, held[c] = 0, NEW d \in Nat
    PROVE  \E g \in [0..NCalls -> Nat] :
              /\ RunningTotal(g, [held EXCEPT ![c] = d])
              /\ g[NCalls] = f[NCalls] + d
  <1> DEFINE g == [k \in 0..NCalls |-> IF k >= c THEN f[k] + d ELSE f[k]]
             h == [held EXCEPT ![c] = d]
  <1>1. f \in [0..NCalls -> Nat] /\ c \in 1..NCalls /\ NCalls \in Nat
    BY CallsAssumption DEF RunningTotal, Calls
  <1>2. g \in [0..NCalls -> Nat]
    BY <1>1
  <1>3. g[0] = 0
    BY <1>1 DEF RunningTotal
  <1>4. ASSUME NEW i \in Calls PROVE g[i] = g[i - 1] + h[i]
    <2>1. i \in 0..NCalls /\ i - 1 \in 0..NCalls
      BY <1>1 DEF Calls
    <2>2. f[i] = f[i - 1] + held[i] /\ f[i] \in Nat /\ f[i - 1] \in Nat
      BY <2>1, <1>1 DEF RunningTotal
    <2>3. CASE i = c BY <2>1, <2>2, <2>3, <1>1 DEF Calls
    <2>4. CASE i # c BY <2>1, <2>2, <2>4, <1>1 DEF Calls
    <2> QED BY <2>3, <2>4
  <1>5. ASSUME NEW i \in 0..NCalls, NEW j \in 0..NCalls, i <= j
        PROVE  g[i] <= g[j]
    <2>1. f[i] <= f[j] /\ f[i] \in Nat /\ f[j] \in Nat
      BY <1>1, <1>5 DEF RunningTotal
    <2> QED BY <2>1, <1>1, <1>5
  <1>6. ASSUME NEW i \in 0..NCalls, NEW j \in 0..NCalls, i <= j,
               \A k \in (i + 1)..j : h[k] = 0
        PROVE  g[i] = g[j]
    <2>1. \A k \in (i + 1)..j : k \in Calls /\ held[k] = 0
      BY <1>1, <1>6 DEF Calls
    <2>2. f[i] = f[j] /\ f[i] \in Nat /\ f[j] \in Nat
      BY <2>1, <1>1, <1>6 DEF RunningTotal
    <2>3. c \in (i + 1)..j => d = 0
      BY <1>1, <1>6 DEF Calls
    <2>4. CASE c \in (i + 1)..j
      BY <2>2, <2>3, <2>4, <1>1, <1>6
    <2>5. CASE c > j
      BY <2>2, <2>5, <1>1, <1>6
    <2>6. CASE c <= i
      BY <2>2, <2>6, <1>1, <1>6
    <2> QED BY <2>4, <2>5, <2>6, <1>1, <1>6
  <1>7. g[NCalls] = f[NCalls] + d
    BY <1>1
  <1>8. RunningTotal(g, h)
    BY <1>2, <1>3, <1>4, <1>5, <1>6, ZenonT(30) DEF RunningTotal
  <1> QED BY <1>2, <1>7, <1>8

\* A call gives back all it holds: the total shrinks by that.
LEMMA GiveLowers ==
    ASSUME NEW held \in [Calls -> Nat], NEW f, RunningTotal(f, held),
           NEW c \in Calls
    PROVE  \E g \in [0..NCalls -> Nat] :
              /\ RunningTotal(g, [held EXCEPT ![c] = 0])
              /\ g[NCalls] = f[NCalls] - held[c]
  <1> DEFINE d == held[c]
             g == [k \in 0..NCalls |-> IF k >= c THEN f[k] - d ELSE f[k]]
             h == [held EXCEPT ![c] = 0]
  <1>1. /\ f \in [0..NCalls -> Nat] /\ c \in 1..NCalls /\ NCalls \in Nat
        /\ d \in Nat /\ c - 1 \in 0..NCalls /\ c \in 0..NCalls
    BY CallsAssumption DEF RunningTotal, Calls
  <1>a. f[c] = f[c - 1] + d /\ f[c] \in Nat /\ f[c - 1] \in Nat
    BY <1>1 DEF RunningTotal
  <1>2. g \in [0..NCalls -> Nat]
    <2>1. ASSUME NEW k \in 0..NCalls PROVE g[k] \in Nat
      <3>1. k >= c => f[c] <= f[k]
        BY <1>1 DEF RunningTotal
      <3> QED BY <3>1, <1>1, <1>a
    <2> QED BY <2>1
  <1>3. g[0] = 0
    BY <1>1 DEF RunningTotal
  <1>4. ASSUME NEW i \in Calls PROVE g[i] = g[i - 1] + h[i]
    <2>1. i \in 0..NCalls /\ i - 1 \in 0..NCalls
      BY <1>1 DEF Calls
    <2>2. f[i] = f[i - 1] + held[i] /\ f[i] \in Nat /\ f[i - 1] \in Nat
      BY <2>1, <1>1 DEF RunningTotal
    <2>3. CASE i = c BY <2>1, <2>2, <2>3, <1>1 DEF Calls
    <2>4. CASE i # c BY <2>1, <2>2, <2>4, <1>1 DEF Calls
    <2> QED BY <2>3, <2>4
  <1>5. ASSUME NEW i \in 0..NCalls, NEW j \in 0..NCalls, i <= j
        PROVE  g[i] <= g[j]
    <2>1. f[i] <= f[j] /\ f[i] \in Nat /\ f[j] \in Nat
      BY <1>1, <1>5 DEF RunningTotal
    <2>2. (i < c /\ c <= j) => f[i] <= f[c - 1] /\ f[c] <= f[j]
      BY <1>1 DEF RunningTotal
    <2> QED BY <2>1, <2>2, <1>1, <1>a, <1>5
  <1>6. ASSUME NEW i \in 0..NCalls, NEW j \in 0..NCalls, i <= j,
               \A k \in (i + 1)..j : h[k] = 0
        PROVE  g[i] = g[j]
    <2>0. f[i] \in Nat /\ f[j] \in Nat
      BY <1>1
    <2>1. \A k \in (i + 1)..j : k \in Calls /\ (k # c => held[k] = 0)
      BY <1>1, <1>6 DEF Calls
    <2>2. CASE c \in (i + 1)..j
      <3>1. f[i] = f[c - 1]
        BY <2>1, <2>2, <1>1, <1>6 DEF RunningTotal
      <3>2. f[c] = f[j]
        BY <2>1, <2>2, <1>1, <1>6 DEF RunningTotal
      <3>3. g[i] = f[i] /\ g[j] = f[j] - d
        BY <2>2, <1>1
      <3> QED BY <3>1, <3>2, <3>3, <2>0, <1>a, <1>1
    <2>3. CASE c \notin (i + 1)..j
      <3>1. f[i] = f[j]
        BY <2>1, <2>3, <1>1, <1>6 DEF RunningTotal
      <3> QED BY <3>1, <2>0, <2>3, <1>1, <1>6
    <2> QED BY <2>2, <2>3
  <1>7. g[NCalls] = f[NCalls] - d
    BY <1>1
  <1>8. RunningTotal(g, h)
    BY <1>2, <1>3, <1>4, <1>5, <1>6 DEF RunningTotal
  <1> QED BY <1>2, <1>7, <1>8

-----------------------------------------------------------------------------
(* Lemmas on the budgets of a call. *)

\* The index of a loop that is running names a budget.
LEMMA NextBudget ==
    ASSUME NEW c \in Calls, NEW i \in 1..Len(BudgetsOf[c])
    PROVE  /\ BudgetsOf[c][i] \in Budgets
           /\ Len(BudgetsOf[c]) \in Nat
           /\ i \in DOMAIN BudgetsOf[c]
  BY BudgetsAssumption

\* Reserving one more budget extends the slice of those reserved.
LEMMA SliceGrows ==
    ASSUME NEW c \in Calls, NEW i \in 1..Len(BudgetsOf[c])
    PROVE  Slice(c, 1, i) = Slice(c, 1, i - 1) \union {BudgetsOf[c][i]}
  <1>1. Len(BudgetsOf[c]) \in Nat
    BY NextBudget
  <1>2. 1..i = (1..(i - 1)) \union {i}
    BY <1>1
  <1> QED BY <1>2 DEF Slice

\* No budget occurs twice in the loop of a call.
LEMMA SliceIsFresh ==
    ASSUME NEW c \in Calls, NEW i \in 1..Len(BudgetsOf[c])
    PROVE  BudgetsOf[c][i] \notin Slice(c, 1, i - 1)
  <1>1. \A j \in 1..(i - 1) : j \in DOMAIN BudgetsOf[c] /\ j # i
    BY BudgetsAssumption
  <1>2. i \in DOMAIN BudgetsOf[c]
    BY NextBudget
  <1> QED BY <1>1, <1>2, BudgetsAssumption DEF Slice

\* Settling the first budget of a slice leaves the rest of it.
LEMMA SliceShrinks ==
    ASSUME NEW c \in Calls, NEW i \in 1..Len(BudgetsOf[c]),
           NEW m \in i..Len(BudgetsOf[c])
    PROVE  /\ BudgetsOf[c][i] \in Slice(c, i, m)
           /\ Slice(c, i, m) \ {BudgetsOf[c][i]} = Slice(c, i + 1, m)
           /\ Slice(c, i, m) # {BudgetsOf[c][i]} => m \in (i + 1)..Len(BudgetsOf[c])
  <1>1. Len(BudgetsOf[c]) \in Nat /\ i \in i..m
    BY NextBudget
  <1>2. \A j \in i..m : j \in DOMAIN BudgetsOf[c]
    BY BudgetsAssumption
  <1>3. \A j \in i..m : BudgetsOf[c][j] = BudgetsOf[c][i] => j = i
    BY <1>1, <1>2, BudgetsAssumption
  <1>4. i..m = {i} \union ((i + 1)..m) /\ i \notin (i + 1)..m
    BY <1>1
  <1>5. Slice(c, i, m) \ {BudgetsOf[c][i]} = Slice(c, i + 1, m)
    BY <1>3, <1>4 DEF Slice
  <1>6. m = i => Slice(c, i, m) = {BudgetsOf[c][i]}
    BY <1>1 DEF Slice
  <1>7. BudgetsOf[c][i] \in Slice(c, i, m)
    BY <1>1 DEF Slice
  <1>8. m # i => m \in (i + 1)..Len(BudgetsOf[c])
    BY <1>1
  <1> QED BY <1>5, <1>6, <1>7, <1>8

-----------------------------------------------------------------------------
(* Type correctness and the reservation loops. *)

\* The initial state is well typed and no loop is running.
LEMMA InitStructure == Init => TypeOK /\ PendingMatchesLoop
  BY BudgetsAssumption DEF Init, TypeOK, PendingMatchesLoop, LoopOK, Phases, Outcomes

\* Estimates are amounts, and so is what a call holds.
LEMMA AmountTyped ==
    ASSUME TypeOK
    PROVE  /\ \A c \in Calls : Amount(c) \in Nat
           /\ \A b \in Budgets : HeldIn(b) \in [Calls -> Nat]
  BY DEF TypeOK, Amount, OrZero, HeldIn, Held

\* Every step keeps the types.
LEMMA TypeStep ==
    ASSUME TypeOK, PendingMatchesLoop, [Next]_vars
    PROVE  TypeOK'
  <1> USE DEF TypeOK, amounts, guard, history, Phases, Outcomes
  <1>0. /\ \A c \in Calls : Amount(c) \in Nat
        /\ \A x \in Int : Pos(x) \in Nat
    BY AmountTyped DEF Pos
  <1>1. ASSUME NEW c \in Calls, NEW e \in Estimates, Begin(c, e)
        PROVE  TypeOK'
    <2> DEFINE p == IF BudgetsOf[c] = <<>> THEN "calling" ELSE "reserving"
    <2>a. \/ phase' = phase /\ at' = at
          \/ phase' = [phase EXCEPT ![c] = p] /\ at' = [at EXCEPT ![c] = 1]
      BY <1>1 DEF Begin
    <2>b. \/ outcome' = [outcome EXCEPT ![c] = "refused"]
          \/ outcome' = [outcome EXCEPT ![c] = "none"]
      BY <1>1 DEF Begin
    <2>1. /\ phase' \in [Calls -> Phases]
          /\ outcome' \in [Calls -> Outcomes]
          /\ at' \in [Calls -> Nat]
      <3>1. p \in Phases
        BY Zenon
      <3> HIDE DEF p
      <3>2. phase' \in [Calls -> Phases] /\ at' \in [Calls -> Nat]
        BY <3>1, <2>a, SMTT(30)
      <3> QED BY <3>2, <2>b
    <2>2. estimate' \in [Calls -> Nat \union {None}]
      BY <1>1, AmountsAssumption DEF Begin
    <2>3. passes' \in [Calls -> Nat] /\ charged' \in [Calls -> SUBSET Budgets]
      BY <1>1 DEF Begin
    <2> QED BY <2>1, <2>2, <2>3, <1>1 DEF Begin
  <1>2. ASSUME NEW c \in Calls, Reserve(c)
        PROVE  TypeOK'
    <2>1. BudgetsOf[c][at[c]] \in Budgets
      BY <1>2, NextBudget DEF Reserve, PendingMatchesLoop, LoopOK
    <2> DEFINE b == BudgetsOf[c][at[c]]
    <2>a. /\ reserved' = [reserved EXCEPT ![b] = reserved[b] + Amount(c)]
          /\ pending' = [pending EXCEPT ![c] = pending[c] \union {b}]
      BY <1>2 DEF Reserve
    <2>b. \/ phase' = phase /\ at' = [at EXCEPT ![c] = at[c] + 1]
          \/ phase' = [phase EXCEPT ![c] = "calling"] /\ at' = at
      BY <1>2 DEF Reserve
    <2>2. reserved' \in [Budgets -> Nat] /\ pending' \in [Calls -> SUBSET Budgets]
      BY <2>1, <2>a, <1>0
    <2>3. /\ phase' \in [Calls -> Phases]
          /\ at' \in [Calls -> Nat]
      BY <2>b
    <2> QED BY <2>2, <2>3, <1>2 DEF Reserve
  <1>3. ASSUME NEW c \in Calls, Refuse(c)
        PROVE  TypeOK'
    BY <1>3 DEF Refuse, Unwind, Unwound
  <1>4. ASSUME NEW c \in Calls, NEW cost \in Costs, Answer(c, cost)
        PROVE  TypeOK'
    <2>1. (IF cost # None THEN cost ELSE Amount(c)) \in Nat
      BY <1>0, <1>4, AmountsAssumption
    <2>2. actual' \in [Calls -> Nat]
      BY <2>1, <1>4 DEF Answer
    <2> QED BY <2>2, <1>4 DEF Answer, Unwind, Unwound
  <1>5. ASSUME NEW c \in Calls, Fail(c)
        PROVE  TypeOK'
    BY <1>5 DEF Fail, Unwind, Unwound
  <1>6. ASSUME NEW c \in Calls, NEW a \in Nat, SettleNext(c, a),
               charged' \in [Calls -> SUBSET Budgets]
        PROVE  TypeOK'
    <2> DEFINE b == BudgetsOf[c][at[c]]
    <2>1. \A x \in Budgets : /\ Pos(reserved[x] - Amount(c)) \in Nat
                            /\ spent[x] + Pos(a) \in Nat
                            /\ unforeseen[x] + Pos(a - Amount(c)) \in Nat
      BY <1>0, <1>6
    <2>2. /\ reserved' \in [Budgets -> Nat]
          /\ spent' \in [Budgets -> Nat]
          /\ unforeseen' \in [Budgets -> Nat]
          /\ limit' = limit /\ torn' = torn
      BY <2>1, <1>6 DEF SettleNext, Settle, Left
    <2>3. /\ phase' \in [Calls -> Phases]
          /\ at' \in [Calls -> Nat]
      BY <1>6 DEF SettleNext
    <2>4. pending' \in [Calls -> SUBSET Budgets]
      BY <1>6 DEF SettleNext
    <2> QED BY <2>2, <2>3, <2>4, <1>6 DEF SettleNext
  <1>7. ASSUME NEW c \in Calls, Commit(c)
        PROVE  TypeOK'
    <2>1. BudgetsOf[c][at[c]] \in Budgets
      BY <1>7, NextBudget DEF Commit, PendingMatchesLoop, LoopOK
    <2>2. charged' \in [Calls -> SUBSET Budgets]
      BY <2>1, <1>7 DEF Commit
    <2> QED BY <2>2, <1>6, <1>7 DEF Commit
  <1>8. ASSUME NEW c \in Calls, Release(c)
        PROVE  TypeOK'
    BY <1>6, <1>8 DEF Release
  <1>9. ASSUME NEW b \in Budgets, NEW cost \in Additions, Add(b, cost)
        PROVE  TypeOK'
    BY <1>9, <1>0, AmountsAssumption DEF Add, Intervene
  <1>10. ASSUME NEW b \in Budgets, Reset(b)
         PROVE  TypeOK'
    BY <1>10 DEF Reset, Intervene, Quiet
  <1>11. ASSUME NEW b \in Budgets, NEW l \in Limits, SetLimit(b, l)
         PROVE  TypeOK'
    <2>1. l \in Nat /\ Pos(limit[b] - l) \in Nat
      BY <1>0, <1>11, AmountsAssumption
    <2> QED BY <2>1, <1>11 DEF SetLimit, Intervene
  <1>12. CASE UNCHANGED vars
    BY <1>12 DEF vars
  <1> QED
    BY <1>1, <1>2, <1>3, <1>4, <1>5, <1>7, <1>8, <1>9, <1>10, <1>11, <1>12
    DEF Next, GuardStep, Finished

\* A call whose loop does not move stays in order.
LEMMA LoopKeeps ==
    ASSUME PendingMatchesLoop, NEW d \in Calls,
           phase'[d] = phase[d], at'[d] = at[d], pending'[d] = pending[d]
    PROVE  LoopOK(d)'
  BY DEF PendingMatchesLoop, LoopOK, Slice

\* One turn of the settling loop, or its end.
LEMMA SettleKeepsLoop ==
    ASSUME TypeOK, PendingMatchesLoop, NEW c \in Calls, NEW a,
           phase[c] \in {"committing", "releasing"}, SettleNext(c, a)
    PROVE  PendingMatchesLoop'
  <1> DEFINE b == BudgetsOf[c][at[c]]
             n == Len(BudgetsOf[c])
  <1>1. at[c] \in 1..n /\ n \in Nat
    BY NextBudget DEF PendingMatchesLoop, LoopOK
  <1>2. PICK m \in at[c]..n : pending[c] = Slice(c, at[c], m)
    BY DEF PendingMatchesLoop, LoopOK
  <1>3. pending'[c] = pending[c] \ {b} /\ phase'[c] \in {phase[c], "idle"}
    BY DEF SettleNext, SettlesLast, TypeOK
  <1>4. CASE pending[c] = {b}
    <2>1. phase'[c] = "idle" /\ pending'[c] = {}
      BY <1>3, <1>4 DEF SettleNext, SettlesLast, TypeOK
    <2>2. LoopOK(c)'
      BY <2>1 DEF LoopOK
    <2>3. ASSUME NEW d \in Calls, d # c PROVE LoopOK(d)'
      BY <2>3, LoopKeeps, <1>4 DEF SettleNext, SettlesLast, TypeOK
    <2> QED BY <2>2, <2>3 DEF PendingMatchesLoop
  <1>5. CASE pending[c] # {b}
    <2>1. phase'[c] = phase[c] /\ at'[c] = at[c] + 1
      BY <1>5 DEF SettleNext, SettlesLast, TypeOK
    <2>2. /\ pending'[c] = Slice(c, at[c] + 1, m)
          /\ m \in (at[c] + 1)..n
      BY <1>1, <1>2, <1>3, <1>5, SliceShrinks
    <2>3. at'[c] \in 1..n /\ m \in at'[c]..n /\ pending'[c] = Slice(c, at[c] + 1, m)
      BY <2>1, <2>2, <1>1
    <2>4. LoopOK(c)'
      BY <2>1, <2>3 DEF LoopOK, Slice
    <2>5. ASSUME NEW d \in Calls, d # c PROVE LoopOK(d)'
      BY <2>5, LoopKeeps, <1>5 DEF SettleNext, SettlesLast, TypeOK
    <2> QED BY <2>4, <2>5 DEF PendingMatchesLoop
  <1> QED BY <1>4, <1>5

\* The settling loop starts over the first reservations of the call.
LEMMA UnwindKeepsLoop ==
    ASSUME TypeOK, PendingMatchesLoop, NEW c \in Calls,
           NEW p \in {"committing", "releasing"}, NEW out, Unwind(c, p, out),
           NEW m \in 0..Len(BudgetsOf[c]), pending[c] = Slice(c, 1, m)
    PROVE  PendingMatchesLoop'
  <1>1. /\ pending' = pending /\ at'[c] = 1
        /\ phase'[c] = IF pending[c] = {} THEN "idle" ELSE p
    BY DEF Unwind, Unwound, TypeOK
  <1>2. Len(BudgetsOf[c]) \in Nat
    BY BudgetsAssumption
  <1>3. m = 0 => pending[c] = {}
    BY DEF Slice
  <1>4. LoopOK(c)'
    <2>1. CASE pending[c] = {}
      BY <2>1, <1>1 DEF LoopOK
    <2>2. CASE pending[c] # {}
      <3>1. m \in 1..Len(BudgetsOf[c]) /\ 1 \in 1..Len(BudgetsOf[c])
        BY <2>2, <1>2, <1>3
      <3>2. phase'[c] = p /\ at'[c] \in 1..Len(BudgetsOf[c])
            /\ m \in at'[c]..Len(BudgetsOf[c]) /\ pending'[c] = Slice(c, 1, m)
        BY <2>2, <3>1, <1>1
      <3> QED BY <3>2, <1>1 DEF LoopOK, Slice
    <2> QED BY <2>1, <2>2
  <1>5. ASSUME NEW d \in Calls, d # c PROVE LoopOK(d)'
    BY <1>5, LoopKeeps DEF Unwind, TypeOK
  <1> QED BY <1>4, <1>5 DEF PendingMatchesLoop

\* One turn of the reservation loop.
LEMMA ReserveKeepsLoop ==
    ASSUME TypeOK, PendingMatchesLoop, NEW c \in Calls, Reserve(c)
    PROVE  PendingMatchesLoop'
  <1> DEFINE b == BudgetsOf[c][at[c]]
             n == Len(BudgetsOf[c])
  <1>1. at[c] \in 1..n /\ n \in Nat /\ pending[c] = Slice(c, 1, at[c] - 1)
    BY NextBudget DEF Reserve, PendingMatchesLoop, LoopOK
  <1>2. pending'[c] = Slice(c, 1, at[c])
    <2>1. pending'[c] = pending[c] \union {b}
      BY DEF Reserve, TypeOK
    <2> QED BY <2>1, <1>1, SliceGrows
  <1>3. LoopOK(c)'
    <2>1. CASE at[c] = n
      <3>1. phase'[c] = "calling"
        BY <2>1 DEF Reserve, TypeOK
      <3> QED BY <3>1, <2>1, <1>2 DEF LoopOK, Slice
    <2>2. CASE at[c] # n
      <3>1. phase'[c] = "reserving" /\ at'[c] = at[c] + 1
        BY <2>2 DEF Reserve, TypeOK
      <3>2. at'[c] \in 1..n /\ at'[c] - 1 = at[c]
        BY <3>1, <2>2, <1>1
      <3> QED BY <3>1, <3>2, <1>2 DEF LoopOK, Slice
    <2> QED BY <2>1, <2>2
  <1>4. ASSUME NEW d \in Calls, d # c PROVE LoopOK(d)'
    <2>1. phase'[d] = phase[d] /\ at'[d] = at[d] /\ pending'[d] = pending[d]
      BY <1>4 DEF Reserve, TypeOK
    <2> QED BY <2>1, LoopKeeps
  <1> QED BY <1>3, <1>4 DEF PendingMatchesLoop

\* Every step keeps the loops in order.
LEMMA LoopStep ==
    ASSUME TypeOK, PendingMatchesLoop, [Next]_vars
    PROVE  PendingMatchesLoop'
  <1> USE DEF amounts, guard, history
  <1>1. ASSUME NEW c \in Calls, NEW e \in Estimates, Begin(c, e)
        PROVE  PendingMatchesLoop'
    <2>1. pending[c] = {} /\ pending' = pending /\ Len(BudgetsOf[c]) \in Nat
      BY <1>1, BudgetsAssumption DEF Begin, PendingMatchesLoop, LoopOK
    <2>2. \/ phase'[c] = "idle"
          \/ phase'[c] = "calling" /\ BudgetsOf[c] = <<>>
          \/ phase'[c] = "reserving" /\ BudgetsOf[c] # <<>> /\ at'[c] = 1
      BY <1>1 DEF Begin, TypeOK
    <2>3. Slice(c, 1, 0) = {} /\ (BudgetsOf[c] = <<>> <=> Len(BudgetsOf[c]) = 0)
      BY BudgetsAssumption DEF Slice
    <2>4. LoopOK(c)'
      <3>1. CASE phase'[c] = "idle"
        BY <3>1, <2>1 DEF LoopOK
      <3>2. CASE phase'[c] = "calling" /\ BudgetsOf[c] = <<>>
        BY <3>2, <2>1, <2>3 DEF LoopOK, Slice
      <3>3. CASE phase'[c] = "reserving" /\ BudgetsOf[c] # <<>> /\ at'[c] = 1
        <4>1. at'[c] \in 1..Len(BudgetsOf[c]) /\ at'[c] - 1 = 0
          BY <3>3, <2>1, <2>3
        <4> QED BY <3>3, <4>1, <2>1, <2>3 DEF LoopOK, Slice
      <3> QED BY <3>1, <3>2, <3>3, <2>2
    <2>5. ASSUME NEW d \in Calls, d # c PROVE LoopOK(d)'
      <3>1. phase'[d] = phase[d] /\ at'[d] = at[d]
        BY <1>1, <2>5 DEF Begin, TypeOK
      <3> QED BY <3>1, <2>1, LoopKeeps
    <2> QED BY <2>4, <2>5 DEF PendingMatchesLoop
  <1>2. ASSUME NEW c \in Calls, Reserve(c)
        PROVE  PendingMatchesLoop'
    BY <1>2, ReserveKeepsLoop
  <1>3. ASSUME NEW c \in Calls, Refuse(c)
        PROVE  PendingMatchesLoop'
    <2>1. /\ at[c] \in 1..Len(BudgetsOf[c]) /\ Len(BudgetsOf[c]) \in Nat
          /\ pending[c] = Slice(c, 1, at[c] - 1)
      BY <1>3, NextBudget DEF Refuse, PendingMatchesLoop, LoopOK
    <2>2. at[c] - 1 \in 0..Len(BudgetsOf[c])
      BY <2>1
    <2> QED BY <2>1, <2>2, <1>3, UnwindKeepsLoop DEF Refuse
  <1>4. ASSUME NEW c \in Calls, NEW p \in {"committing", "releasing"}, NEW out,
               phase[c] = "calling", Unwind(c, p, out)
        PROVE  PendingMatchesLoop'
    <2>1. /\ pending[c] = Slice(c, 1, Len(BudgetsOf[c]))
          /\ Len(BudgetsOf[c]) \in 0..Len(BudgetsOf[c])
      BY <1>4, BudgetsAssumption DEF PendingMatchesLoop, LoopOK
    <2> QED BY <2>1, <1>4, UnwindKeepsLoop
  <1>5. ASSUME NEW c \in Calls, NEW cost \in Costs, Answer(c, cost)
        PROVE  PendingMatchesLoop'
    BY <1>4, <1>5 DEF Answer
  <1>6. ASSUME NEW c \in Calls, Fail(c)
        PROVE  PendingMatchesLoop'
    BY <1>4, <1>6 DEF Fail
  <1>7. ASSUME NEW c \in Calls, Commit(c)
        PROVE  PendingMatchesLoop'
    BY <1>7, SettleKeepsLoop DEF Commit
  <1>8. ASSUME NEW c \in Calls, Release(c)
        PROVE  PendingMatchesLoop'
    BY <1>8, SettleKeepsLoop DEF Release
  <1>9. ASSUME phase' = phase, at' = at, pending' = pending
        PROVE  PendingMatchesLoop'
    BY <1>9, LoopKeeps DEF PendingMatchesLoop
  <1>10. ASSUME Intervene PROVE PendingMatchesLoop'
    BY <1>9, <1>10 DEF Intervene
  <1>11. CASE UNCHANGED vars
    BY <1>9, <1>11 DEF vars
  <1> QED
    BY <1>1, <1>2, <1>3, <1>5, <1>6, <1>7, <1>8, <1>10, <1>11
    DEF Next, GuardStep, Finished, Add, Reset, SetLimit

-----------------------------------------------------------------------------
(* The counters and the reservations. *)

\* At first no call holds anything.
LEMMA InitAccounts == Init => Accounts
  <1> SUFFICES ASSUME Init, NEW b \in Budgets
               PROVE  \E f \in [0..NCalls -> Nat] : Balanced(f, b)
    BY DEF Accounts
  <1> DEFINE f == [i \in 0..NCalls |-> 0]
  <1>1. TypeOK
    BY InitStructure
  <1>2. /\ HeldIn(b) = [c \in Calls |-> 0]
        /\ reserved[b] = 0 /\ spent[b] = 0 /\ limit[b] \in Nat
        /\ unforeseen[b] = 0
    BY <1>1 DEF Init, HeldIn, Held, TypeOK
  <1>3. f \in [0..NCalls -> Nat] /\ NCalls \in 0..NCalls
    BY CallsAssumption
  <1>4. RunningTotal(f, HeldIn(b))
    BY <1>2, <1>3, CallsAssumption DEF RunningTotal, Calls
  <1> QED BY <1>2, <1>3, <1>4 DEF Balanced

\* A budget whose amounts and reservations a step leaves alone stays balanced.
LEMMA BalanceKeeps ==
    ASSUME NEW b \in Budgets, \E f \in [0..NCalls -> Nat] : Balanced(f, b),
           HeldIn(b)' = HeldIn(b), reserved'[b] = reserved[b],
           spent'[b] = spent[b], limit'[b] = limit[b], torn'[b] = torn[b],
           unforeseen'[b] = unforeseen[b]
    PROVE  (\E f \in [0..NCalls -> Nat] : Balanced(f, b))'
  BY DEF Balanced

\* A call that moves without touching what is pending holds what it held.
LEMMA HeldKeeps ==
    ASSUME NEW b \in Budgets, pending' = pending,
           \A c \in Calls : pending[c] = {} \/ estimate'[c] = estimate[c]
    PROVE  HeldIn(b)' = HeldIn(b)
  BY DEF HeldIn, Held, Amount

\* A call takes a reservation that fits.
LEMMA ReserveBalances ==
    ASSUME TypeOK, PendingMatchesLoop, Accounts, NEW c \in Calls, Reserve(c)
    PROVE  Accounts'
  <1> DEFINE x == BudgetsOf[c][at[c]]
  <1>1. at[c] \in 1..Len(BudgetsOf[c]) /\ pending[c] = Slice(c, 1, at[c] - 1)
    BY DEF Reserve, PendingMatchesLoop, LoopOK
  <1>2. x \in Budgets /\ x \notin pending[c]
    BY <1>1, NextBudget, SliceIsFresh
  <1>3. /\ Amount(c) \in Nat /\ spent[x] + reserved[x] + Amount(c) <= limit[x]
        /\ reserved' = [reserved EXCEPT ![x] = reserved[x] + Amount(c)]
        /\ pending' = [pending EXCEPT ![c] = pending[c] \union {x}]
        /\ spent' = spent /\ limit' = limit /\ torn' = torn
        /\ unforeseen' = unforeseen /\ estimate' = estimate
    BY AmountTyped DEF Reserve, Fits, history
  <1> SUFFICES ASSUME NEW b \in Budgets
               PROVE  (\E f \in [0..NCalls -> Nat] : Balanced(f, b))'
    BY DEF Accounts
  <1>4. PICK f \in [0..NCalls -> Nat] : Balanced(f, b)
    BY DEF Accounts
  <1>5. CASE b = x
    <2>1. HeldIn(b) \in [Calls -> Nat] /\ HeldIn(b)[c] = 0
      BY <1>2, <1>5, AmountTyped DEF HeldIn, Held
    <2>2. HeldIn(b)' = [HeldIn(b) EXCEPT ![c] = Amount(c)]
      BY <1>2, <1>3, <1>5 DEF HeldIn, Held, Amount, TypeOK
    <2>3. PICK g \in [0..NCalls -> Nat] :
              /\ RunningTotal(g, [HeldIn(b) EXCEPT ![c] = Amount(c)])
              /\ g[NCalls] = f[NCalls] + Amount(c)
      BY <2>1, <1>3, <1>4, TakeRaises DEF Balanced
    <2>4. reserved'[b] = reserved[b] + Amount(c)
      BY <1>3, <1>5 DEF TypeOK
    <2>5. f[NCalls] \in Nat /\ reserved[b] \in Nat /\ spent[b] \in Nat
          /\ limit[b] \in Nat /\ unforeseen[b] \in Nat
      BY CallsAssumption DEF TypeOK
    <2>6. /\ reserved'[b] <= g[NCalls]
          /\ ~torn[b] => reserved'[b] = g[NCalls]
          /\ spent[b] + reserved'[b] <= limit[b] + unforeseen[b]
      <3>1. /\ reserved[b] <= f[NCalls]
            /\ ~torn[b] => reserved[b] = f[NCalls]
        BY <1>4 DEF Balanced
      <3>2. Amount(c) \in Nat /\ spent[b] + reserved[b] + Amount(c) <= limit[b]
        BY <1>3, <1>5
      <3> QED BY <3>1, <3>2, <2>3, <2>4, <2>5, SMTT(30)
    <2>7. Balanced(g, b)'
      BY <2>2, <2>3, <2>6, <1>3 DEF Balanced
    <2> QED BY <2>7
  <1>6. CASE b # x
    <2>1. HeldIn(b)' = HeldIn(b)
      BY <1>3, <1>6 DEF HeldIn, Held, Amount, TypeOK
    <2>2. reserved'[b] = reserved[b]
      BY <1>3, <1>6 DEF TypeOK
    <2> QED BY <2>1, <2>2, <1>3, <1>4, BalanceKeeps
  <1> QED BY <1>5, <1>6

\* A call settles a reservation, at any cost.
LEMMA SettleBalances ==
    ASSUME TypeOK, PendingMatchesLoop, Accounts, NEW c \in Calls, NEW a \in Nat,
           phase[c] \in {"committing", "releasing"}, SettleNext(c, a)
    PROVE  Accounts'
  <1> DEFINE x == BudgetsOf[c][at[c]]
  <1>1. at[c] \in 1..Len(BudgetsOf[c])
        /\ \E m \in at[c]..Len(BudgetsOf[c]) : pending[c] = Slice(c, at[c], m)
    BY DEF PendingMatchesLoop, LoopOK
  <1>2. x \in Budgets /\ x \in pending[c]
    BY <1>1, NextBudget, SliceShrinks
  <1>3. /\ Amount(c) \in Nat
        /\ reserved' = [reserved EXCEPT ![x] = Pos(reserved[x] - Amount(c))]
        /\ spent' = [spent EXCEPT ![x] = spent[x] + Pos(a)]
        /\ unforeseen' = [unforeseen EXCEPT ![x] =
                             unforeseen[x] + Pos(a - Amount(c))]
        /\ pending' = [pending EXCEPT ![c] = pending[c] \ {x}]
        /\ limit' = limit /\ torn' = torn /\ estimate' = estimate
    BY AmountTyped DEF SettleNext, Settle, Left
  <1> SUFFICES ASSUME NEW b \in Budgets
               PROVE  (\E f \in [0..NCalls -> Nat] : Balanced(f, b))'
    BY DEF Accounts
  <1>4. PICK f \in [0..NCalls -> Nat] : Balanced(f, b)
    BY DEF Accounts
  <1>5. CASE b = x
    <2>1. HeldIn(b) \in [Calls -> Nat] /\ HeldIn(b)[c] = Amount(c)
      BY <1>2, <1>5, AmountTyped DEF HeldIn, Held
    <2>2. HeldIn(b)' = [HeldIn(b) EXCEPT ![c] = 0]
      BY <1>2, <1>3, <1>5 DEF HeldIn, Held, Amount, TypeOK
    <2>3. PICK g \in [0..NCalls -> Nat] :
              /\ RunningTotal(g, [HeldIn(b) EXCEPT ![c] = 0])
              /\ g[NCalls] = f[NCalls] - Amount(c)
      BY <2>1, <1>4, GiveLowers DEF Balanced
    <2>4. Amount(c) <= f[NCalls]
      BY <2>1, <1>4, HeldIsCounted DEF Balanced
    <2>5. /\ reserved'[b] = Pos(reserved[b] - Amount(c))
          /\ spent'[b] = spent[b] + Pos(a)
          /\ unforeseen'[b] = unforeseen[b] + Pos(a - Amount(c))
      BY <1>3, <1>5 DEF TypeOK
    <2>6. f[NCalls] \in Nat /\ reserved[b] \in Nat /\ spent[b] \in Nat
          /\ limit[b] \in Nat /\ unforeseen[b] \in Nat
      BY CallsAssumption DEF TypeOK
    <2>7. /\ reserved[b] <= f[NCalls]
          /\ ~torn[b] => /\ reserved[b] = f[NCalls]
                        /\ spent[b] + reserved[b] <= limit[b] + unforeseen[b]
      BY <1>4 DEF Balanced
    <2>8. /\ reserved'[b] <= g[NCalls]
          /\ ~torn[b] => /\ reserved'[b] = g[NCalls]
                        /\ spent'[b] + reserved'[b] <= limit[b] + unforeseen'[b]
      <3> DEFINE A == Amount(c)
                 F == f[NCalls]
      <3>1. /\ reserved[b] <= F /\ A <= F /\ A \in Nat /\ F \in Nat
            /\ reserved[b] \in Nat /\ spent[b] \in Nat
            /\ limit[b] \in Nat /\ unforeseen[b] \in Nat
        BY <2>4, <2>6, <2>7, <1>3
      <3>2. g[NCalls] = F - A /\ reserved'[b] = Pos(reserved[b] - A)
        BY <2>3, <2>5
      <3>3. spent'[b] = spent[b] + a /\ unforeseen'[b] >= unforeseen[b] + a - A
            /\ unforeseen'[b] >= unforeseen[b] /\ unforeseen'[b] \in Nat
        BY <2>5, <3>1 DEF Pos
      <3>4. Pos(reserved[b] - A) <= F - A
        BY <3>1 DEF Pos
      <3>5. reserved[b] = F => Pos(reserved[b] - A) = F - A
        BY <3>1 DEF Pos
      <3>6. ASSUME ~torn[b]
            PROVE  spent'[b] + reserved'[b] <= limit[b] + unforeseen'[b]
        <4>1. spent[b] + F <= limit[b] + unforeseen[b] /\ reserved'[b] = F - A
          BY <2>7, <3>2, <3>5, <3>6
        <4> HIDE DEF A, F
        <4> QED BY <4>1, <3>1, <3>3, SMTT(30)
      <3> QED BY <2>7, <3>2, <3>4, <3>5, <3>6
    <2>9. Balanced(g, b)'
      BY <2>2, <2>3, <2>8, <1>3 DEF Balanced
    <2> QED BY <2>9
  <1>6. CASE b # x
    <2>1. HeldIn(b)' = HeldIn(b)
      BY <1>3, <1>6 DEF HeldIn, Held, Amount, TypeOK
    <2>2. /\ reserved'[b] = reserved[b] /\ spent'[b] = spent[b]
          /\ unforeseen'[b] = unforeseen[b]
      BY <1>3, <1>6 DEF TypeOK
    <2> QED BY <2>1, <2>2, <1>3, <1>4, BalanceKeeps
  <1> QED BY <1>5, <1>6

\* add, reset and the limit setter: nobody's reservation changes.
LEMMA InterveneBalances ==
    ASSUME TypeOK, Accounts, NEW x \in Budgets,
           \/ \E cost \in Additions : Add(x, cost)
           \/ Reset(x)
           \/ \E l \in Limits : SetLimit(x, l)
    PROVE  Accounts'
  <1>1. pending' = pending /\ estimate' = estimate
    BY DEF Add, Reset, SetLimit, Intervene, guard
  <1> SUFFICES ASSUME NEW b \in Budgets
               PROVE  (\E f \in [0..NCalls -> Nat] : Balanced(f, b))'
    BY DEF Accounts
  <1>2. HeldIn(b)' = HeldIn(b) /\ HeldIn(b) \in [Calls -> Nat]
    BY <1>1, HeldKeeps, AmountTyped
  <1>3. PICK f \in [0..NCalls -> Nat] : Balanced(f, b)
    BY DEF Accounts
  <1>4. f[NCalls] \in Nat /\ reserved[b] \in Nat /\ spent[b] \in Nat
        /\ limit[b] \in Nat /\ unforeseen[b] \in Nat
    BY CallsAssumption DEF TypeOK
  <1>5. /\ reserved[b] <= f[NCalls]
        /\ ~torn[b] => /\ reserved[b] = f[NCalls]
                      /\ spent[b] + reserved[b] <= limit[b] + unforeseen[b]
    BY <1>3 DEF Balanced
  <1>6. CASE b # x
    <2>1. /\ reserved'[b] = reserved[b] /\ spent'[b] = spent[b]
          /\ limit'[b] = limit[b] /\ torn'[b] = torn[b]
          /\ unforeseen'[b] = unforeseen[b]
      BY <1>6 DEF Add, Reset, SetLimit, TypeOK
    <2> QED BY <2>1, <1>2, <1>3, BalanceKeeps
  <1>7. ASSUME b = x, NEW cost \in Additions, Add(x, cost)
        PROVE  Balanced(f, b)'
    <2>1. /\ spent'[b] = spent[b] + Pos(cost)
          /\ unforeseen'[b] = unforeseen[b] + Pos(cost)
          /\ reserved' = reserved /\ limit' = limit /\ torn' = torn
      BY <1>7 DEF Add, TypeOK
    <2>2. Pos(cost) \in Nat
      BY AmountsAssumption DEF Pos
    <2>3. ~torn[b] => spent'[b] + reserved'[b] <= limit'[b] + unforeseen'[b]
      BY <2>1, <2>2, <1>4, <1>5, SMTT(30)
    <2> QED BY <2>1, <2>3, <1>2, <1>3 DEF Balanced
  <1>8. ASSUME b = x, NEW l \in Limits, SetLimit(x, l)
        PROVE  Balanced(f, b)'
    <2>1. /\ limit'[b] = l /\ unforeseen'[b] = unforeseen[b] + Pos(limit[b] - l)
          /\ spent' = spent /\ reserved' = reserved /\ torn' = torn
      BY <1>8 DEF SetLimit, TypeOK
    <2>2. l \in Nat /\ Pos(limit[b] - l) \in Nat /\ Pos(limit[b] - l) >= limit[b] - l
      BY <1>4, AmountsAssumption DEF Pos
    <2>3. ~torn[b] => spent'[b] + reserved'[b] <= limit'[b] + unforeseen'[b]
      BY <2>1, <2>2, <1>4, <1>5
    <2> QED BY <2>1, <2>3, <1>2, <1>3 DEF Balanced
  <1>9. ASSUME b = x, Reset(x)
        PROVE  Balanced(f, b)'
    <2>1. /\ spent'[b] = 0 /\ reserved'[b] = 0 /\ unforeseen'[b] = 0
          /\ torn'[b] = ~Quiet(b) /\ limit' = limit
      BY <1>9 DEF Reset, TypeOK
    <2>2. Quiet(b) => \A c \in Calls : HeldIn(b)[c] = 0
      BY DEF Quiet, HeldIn, Held
    <2>3. Quiet(b) => f[NCalls] = 0
      BY <2>2, <1>2, <1>3, NothingHeld DEF Balanced
    <2>4. RunningTotal(f, HeldIn(b)')
      BY <1>2, <1>3 DEF Balanced
    <2>5. 0 <= f[NCalls] /\ 0 + 0 <= limit[b] + 0
      BY <1>4
    <2>6. ~torn'[b] => reserved'[b] = f[NCalls]
      BY <2>1, <2>3
    <2>7. /\ reserved'[b] <= f[NCalls]
          /\ spent'[b] + reserved'[b] <= limit'[b] + unforeseen'[b]
      BY <2>1, <2>5
    <2> QED BY <2>4, <2>6, <2>7 DEF Balanced
  <1> QED BY <1>6, <1>7, <1>8, <1>9

\* Every step keeps the accounts.
LEMMA AccountsStep ==
    ASSUME TypeOK, PendingMatchesLoop, Accounts, [Next]_vars
    PROVE  Accounts'
  <1> USE DEF amounts, history
  <1>1. ASSUME pending' = pending, UNCHANGED <<amounts, torn, unforeseen>>,
               \A c \in Calls : pending[c] = {} \/ estimate'[c] = estimate[c]
        PROVE  Accounts'
    <2> SUFFICES ASSUME NEW b \in Budgets
                 PROVE  (\E f \in [0..NCalls -> Nat] : Balanced(f, b))'
      BY DEF Accounts
    <2>1. HeldIn(b)' = HeldIn(b)
      BY <1>1, HeldKeeps
    <2>2. \E f \in [0..NCalls -> Nat] : Balanced(f, b)
      BY DEF Accounts
    <2> QED BY <2>1, <2>2, <1>1, BalanceKeeps
  <1>2. ASSUME NEW c \in Calls, NEW e \in Estimates, Begin(c, e)
        PROVE  Accounts'
    <2>1. pending[c] = {} /\ pending' = pending
      BY <1>2 DEF Begin, PendingMatchesLoop, LoopOK
    <2>2. \A d \in Calls : pending[d] = {} \/ estimate'[d] = estimate[d]
      BY <2>1, <1>2 DEF Begin, TypeOK
    <2> QED BY <2>1, <2>2, <1>1, <1>2 DEF Begin
  <1>3. ASSUME NEW c \in Calls, NEW p, NEW out, Unwind(c, p, out)
        PROVE  Accounts'
    BY <1>1, <1>3 DEF Unwind
  <1>4. ASSUME NEW c \in Calls, Commit(c)
        PROVE  Accounts'
    <2>1. actual[c] \in Nat
      BY DEF TypeOK
    <2> QED BY <2>1, <1>4, SettleBalances DEF Commit
  <1>5. ASSUME NEW c \in Calls, Release(c)
        PROVE  Accounts'
    BY <1>5, SettleBalances DEF Release
  <1>6. CASE UNCHANGED vars
    BY <1>1, <1>6 DEF vars, guard
  <1> QED
    BY <1>2, <1>3, <1>4, <1>5, <1>6, ReserveBalances, InterveneBalances
    DEF Next, GuardStep, Refuse, Answer, Fail, Finished

-----------------------------------------------------------------------------
(* What a pass charges. *)

\* Every step keeps the charges and the outcomes in step.
LEMMA ChargesStep ==
    ASSUME TypeOK, PendingMatchesLoop, ChargesMatchOutcome, [Next]_vars
    PROVE  ChargesMatchOutcome'
  <1> USE DEF history
  <1> DEFINE OK(c) == IF outcome[c] = "answered"
                      THEN /\ phase[c] \in {"idle", "committing"}
                           /\ charged[c] \union pending[c] = BudgetSet(c)
                      ELSE phase[c] # "committing" /\ charged[c] = {}
  <1> SUFFICES ASSUME NEW d \in Calls PROVE OK(d)'
    BY DEF ChargesMatchOutcome, BudgetSet
  <1>0. OK(d)
    BY DEF ChargesMatchOutcome
  <1>1. ASSUME NEW c \in Calls, NEW e \in Estimates, Begin(c, e) PROVE OK(d)'
    <2>1. CASE c = d
      <3>1. outcome'[d] \in {"none", "refused"} /\ charged'[d] = {}
        BY <1>1, <2>1 DEF Begin, TypeOK
      <3>2. phase'[d] # "committing"
        BY <1>1, <2>1 DEF Begin, TypeOK
      <3> QED BY <3>1, <3>2
    <2>2. CASE c # d
      BY <1>0, <1>1, <2>2 DEF Begin, TypeOK
    <2> QED BY <2>1, <2>2
  <1>2. ASSUME NEW c \in Calls, Reserve(c) PROVE OK(d)'
    <2>1. CASE c = d
      <3>1. outcome[d] # "answered" /\ outcome' = outcome /\ charged' = charged
        BY <1>0, <1>2, <2>1 DEF Reserve
      <3>2. phase'[d] # "committing"
        BY <1>2, <2>1 DEF Reserve, TypeOK
      <3> QED BY <1>0, <3>1, <3>2
    <2>2. CASE c # d
      BY <1>0, <1>2, <2>2 DEF Reserve, TypeOK
    <2> QED BY <2>1, <2>2
  <1>3. ASSUME NEW c \in Calls, phase[c] \in {"reserving", "calling"},
               NEW out \in {"refused", "failed"}, Unwind(c, "releasing", out)
        PROVE  OK(d)'
    <2>1. CASE c = d
      <3>1. outcome[d] # "answered" /\ charged' = charged /\ outcome'[d] = out
        BY <1>0, <1>3, <2>1 DEF Unwind, TypeOK
      <3>2. phase'[d] \in {"idle", "releasing"}
        BY <1>3, <2>1 DEF Unwind, Unwound, TypeOK
      <3> QED BY <1>0, <3>1, <3>2
    <2>2. CASE c # d
      BY <1>0, <1>3, <2>2 DEF Unwind, TypeOK
    <2> QED BY <2>1, <2>2
  <1>4. ASSUME NEW c \in Calls, NEW cost \in Costs, Answer(c, cost) PROVE OK(d)'
    <2>1. CASE c = d
      <3>1. charged[d] = {} /\ charged' = charged /\ pending' = pending
        BY <1>0, <1>4, <2>1 DEF Answer, Unwind
      <3>2. outcome'[d] = "answered" /\ phase'[d] \in {"idle", "committing"}
        BY <1>4, <2>1 DEF Answer, Unwind, Unwound, TypeOK
      <3>3. pending[d] = Slice(d, 1, Len(BudgetsOf[d]))
        BY <1>4, <2>1 DEF Answer, PendingMatchesLoop, LoopOK
      <3>4. DOMAIN BudgetsOf[d] = 1..Len(BudgetsOf[d])
        BY BudgetsAssumption
      <3>5. pending[d] = BudgetSet(d)
        BY <3>3, <3>4 DEF Slice, BudgetSet
      <3> QED BY <3>1, <3>2, <3>5
    <2>2. CASE c # d
      BY <1>0, <1>4, <2>2 DEF Answer, Unwind, TypeOK
    <2> QED BY <2>1, <2>2
  <1>5. ASSUME NEW c \in Calls, Commit(c) PROVE OK(d)'
    <2> DEFINE b == BudgetsOf[c][at[c]]
    <2>1. /\ pending' = [pending EXCEPT ![c] = @ \ {b}]
          /\ charged' = [charged EXCEPT ![c] = @ \union {b}]
          /\ outcome' = outcome
          /\ phase' = phase \/ phase' = [phase EXCEPT ![c] = "idle"]
      BY <1>5 DEF Commit, SettleNext
    <2>2. CASE c = d
      <3>1. at[d] \in 1..Len(BudgetsOf[d])
        BY <1>5, <2>2 DEF Commit, PendingMatchesLoop, LoopOK
      <3>2. b \in pending[d]
        BY <3>1, <1>5, <2>2, SliceShrinks DEF Commit, PendingMatchesLoop, LoopOK
      <3>3. outcome[d] = "answered"
        BY <1>0, <1>5, <2>2 DEF Commit
      <3>4. phase'[d] \in {"idle", "committing"}
        BY <1>5, <2>1, <2>2 DEF Commit, TypeOK
      <3>5. charged'[d] \union pending'[d] = charged[d] \union pending[d]
        BY <2>1, <2>2, <3>2 DEF TypeOK
      <3> QED BY <1>0, <2>1, <3>3, <3>4, <3>5
    <2>3. CASE c # d
      BY <1>0, <2>1, <2>3 DEF TypeOK
    <2> QED BY <2>2, <2>3
  <1>6. ASSUME NEW c \in Calls, Release(c) PROVE OK(d)'
    <2>1. /\ charged' = charged /\ outcome' = outcome
          /\ \A x \in Calls \ {c} : pending'[x] = pending[x]
          /\ phase' = phase \/ phase' = [phase EXCEPT ![c] = "idle"]
      BY <1>6 DEF Release, SettleNext, TypeOK
    <2>2. CASE c = d
      <3>1. outcome[d] # "answered" /\ phase'[d] # "committing"
        BY <1>0, <1>6, <2>1, <2>2 DEF Release, TypeOK
      <3> QED BY <1>0, <2>1, <3>1
    <2>3. CASE c # d
      BY <1>0, <2>1, <2>3 DEF TypeOK
    <2> QED BY <2>2, <2>3
  <1>7. ASSUME UNCHANGED <<guard, charged>> PROVE OK(d)'
    BY <1>0, <1>7 DEF guard
  <1>8. CASE UNCHANGED vars
    BY <1>7, <1>8 DEF vars
  <1> QED
    BY <1>1, <1>2, <1>3, <1>4, <1>5, <1>6, <1>7, <1>8
    DEF Next, GuardStep, Refuse, Fail, Finished, Add, Reset, SetLimit, Intervene

-----------------------------------------------------------------------------
(* The theorems. *)

Inv == TypeOK /\ PendingMatchesLoop /\ Accounts /\ ChargesMatchOutcome

\* The inductive invariant holds in every behaviour.
THEOREM Invariance == Spec => []Inv
  <1>1. Init => Inv
    <2>1. Init => ChargesMatchOutcome
      BY DEF Init, ChargesMatchOutcome
    <2> QED BY <2>1, InitStructure, InitAccounts DEF Inv
  <1>2. Inv /\ [Next]_vars => Inv'
    BY TypeStep, LoopStep, AccountsStep, ChargesStep DEF Inv
  <1> QED BY <1>1, <1>2, PTL DEF Spec

\* Type correctness: the counters never go negative, the loops stay in range.
THEOREM TypeCorrect == Spec => []TypeOK
  <1>1. Inv => TypeOK
    BY DEF Inv
  <1> QED BY <1>1, Invariance, PTL

\* However many calls share a budget and however they end, nothing stays
\* reserved in it once no call is in flight.
THEOREM NothingLeaks == Spec => []NoLeak
  <1>1. Inv => NoLeak
    <2> SUFFICES ASSUME Inv, NEW b \in Budgets, Quiet(b)
                 PROVE  reserved[b] = 0
      BY DEF NoLeak
    <2>1. PICK f \in [0..NCalls -> Nat] : Balanced(f, b)
      BY DEF Inv, Accounts
    <2>2. HeldIn(b) \in [Calls -> Nat] /\ \A c \in Calls : HeldIn(b)[c] = 0
      BY AmountTyped DEF Inv, Quiet, HeldIn, Held
    <2>3. f[NCalls] = 0
      BY <2>1, <2>2, NothingHeld DEF Balanced
    <2> QED BY <2>1, <2>3 DEF Balanced, Inv, TypeOK
  <1> QED BY <1>1, Invariance, PTL

\* Concurrent calls never overshoot a limit by racing each other.
THEOREM LimitHolds == Spec => []NoOvershoot
  <1>1. Inv => NoOvershoot
    BY DEF Inv, Accounts, Balanced, NoOvershoot
  <1> QED BY <1>1, Invariance, PTL

\* A request at the provider is covered in every budget of its call.
THEOREM RequestsCovered == Spec => []InFlightCovered
  <1>1. Inv => InFlightCovered
    <2> SUFFICES ASSUME Inv, NEW c \in Calls, phase[c] = "calling",
                        NEW i \in DOMAIN BudgetsOf[c], ~torn[BudgetsOf[c][i]]
                 PROVE  reserved[BudgetsOf[c][i]] >= Amount(c)
      BY DEF InFlightCovered
    <2> DEFINE b == BudgetsOf[c][i]
    <2>1. i \in 1..Len(BudgetsOf[c]) /\ b \in Budgets
      BY BudgetsAssumption
    <2>2. b \in pending[c]
      BY <2>1 DEF Inv, PendingMatchesLoop, LoopOK, Slice
    <2>3. PICK f \in [0..NCalls -> Nat] : Balanced(f, b)
      BY <2>1 DEF Inv, Accounts
    <2>4. HeldIn(b) \in [Calls -> Nat] /\ HeldIn(b)[c] = Amount(c)
      BY <2>1, <2>2, AmountTyped DEF Inv, HeldIn, Held
    <2>5. Amount(c) <= f[NCalls] /\ f[NCalls] \in Nat
      BY <2>3, <2>4, HeldIsCounted DEF Balanced
    <2>6. reserved[b] = f[NCalls] /\ Amount(c) \in Nat
      BY <2>3, AmountTyped DEF Balanced, Inv
    <2> QED BY <2>5, <2>6
  <1> QED BY <1>1, Invariance, PTL

\* A pass that is over has charged each of its budgets if it was answered, and none of
\* them if it failed or was refused, wherever its settling loop was interleaved.
THEOREM ChargedAllOrNothing == Spec => []AllOrNothing
  <1>1. Inv => AllOrNothing
    <2> SUFFICES ASSUME Inv, NEW c \in Calls, phase[c] = "idle"
                 PROVE  charged[c] = IF outcome[c] = "answered" THEN BudgetSet(c) ELSE {}
      BY DEF AllOrNothing, BudgetSet
    <2>1. pending[c] = {}
      BY DEF Inv, PendingMatchesLoop, LoopOK
    <2> QED BY <2>1 DEF Inv, ChargesMatchOutcome
  <1> QED BY <1>1, Invariance, PTL

-----------------------------------------------------------------------------
(* The sums of the promise. *)

\* g sums up what f has for the calls.
SumsUp(g, f) == g[0] = 0 /\ \A n \in 1..NCalls : g[n] = g[n - 1] + f[n]

\* The sum of the promise is the last of the running sums.
LEMMA TotalSumsUp ==
    ASSUME NEW f \in [Calls -> Nat]
    PROVE  \E g \in [0..NCalls -> Nat] : SumsUp(g, f) /\ Promise!Total(f) = g[NCalls]
  <1>1. NCalls \in Nat /\ Calls = 1..NCalls
    BY CallsAssumption DEF Calls
  <1>2. PICK step : step = [n \in 1..NCalls |-> [x \in Nat |-> x + f[n]]]
    OBVIOUS
  <1>3. \A n \in 1..NCalls : \A x \in Nat : step[n][x] = x + f[n]
    BY <1>2
  <1>4. StepsWithin(NCalls, Nat, step)
    BY <1>1, <1>3 DEF StepsWithin
  <1>5. PICK g \in [0..NCalls -> Nat] : FollowsSteps(g, NCalls, 0, step)
    BY <1>1, <1>4, StepsDefineAFunction
  <1>6. SumsUp(g, f)
    <2>1. g[0] = 0 /\ \A n \in 1..NCalls : g[n] = step[n][g[n - 1]]
      BY <1>5 DEF FollowsSteps
    <2>2. \A n \in 1..NCalls : g[n - 1] \in Nat
      BY <1>1
    <2> QED BY <2>1, <2>2, <1>3 DEF SumsUp
  <1> DEFINE R(h) == h = [n \in 0..NCalls |-> IF n = 0 THEN 0 ELSE h[n - 1] + f[n]]
  <1>7. R(g)
    <2>1. g[0] = 0 /\ \A n \in 1..NCalls : g[n] = g[n - 1] + f[n]
      BY <1>6 DEF SumsUp
    <2>2. \A n \in 0..NCalls : n # 0 => n \in 1..NCalls
      BY <1>1
    <2>3. \A n \in 0..NCalls : g[n] = IF n = 0 THEN 0 ELSE g[n - 1] + f[n]
      BY <2>1, <2>2
    <2> QED BY <2>3
  <1>8. PICK h : h = CHOOSE k : R(k)
    OBVIOUS
  <1>9. R(h)
    BY <1>7, <1>8
  <1>10. Promise!Total(f) = h[NCalls]
    BY <1>8 DEF Promise!Total
  <1>11. \A n \in Nat : n <= NCalls => h[n] = g[n]
    <2> DEFINE I == {n \in Nat : n <= NCalls => h[n] = g[n]}
    <2>1. h[0] = 0 /\ \A n \in 1..NCalls : h[n] = h[n - 1] + f[n]
      <3>0. 0 \in 0..NCalls /\ \A n \in 1..NCalls : n \in 0..NCalls /\ n # 0
        BY <1>1
      <3> QED BY <1>9, <3>0
    <2>2. 0 \in I
      BY <2>1, <1>6 DEF SumsUp
    <2>3. ASSUME NEW n \in Nat, n \in I
          PROVE  n + 1 \in I
      <3>1. SUFFICES ASSUME n + 1 <= NCalls PROVE h[n + 1] = g[n + 1]
        OBVIOUS
      <3>2. h[n] = g[n] /\ n + 1 \in 1..NCalls
        BY <2>3, <3>1, <1>1
      <3>3. h[n + 1] = h[n] + f[n + 1] /\ g[n + 1] = g[n] + f[n + 1]
        <4>1. (n + 1) - 1 = n
          OBVIOUS
        <4>2. h[n + 1] = h[(n + 1) - 1] + f[n + 1]
          BY <3>2, <2>1
        <4>3. g[n + 1] = g[(n + 1) - 1] + f[n + 1]
          BY <3>2, <1>6 DEF SumsUp
        <4> QED BY <4>1, <4>2, <4>3
      <3> QED BY <3>2, <3>3
    <2>4. Nat \subseteq I
      <3> HIDE DEF I
      <3> QED BY <2>2, <2>3, SetInduction
    <2> QED BY <2>4
  <1> QED BY <1>1, <1>6, <1>10, <1>11
\* What is pledged in a budget, and what a call without a pledge holds there, is part
\* of what all calls hold.
LEMMA PledgesAreHeld ==
    ASSUME NEW p \in [Calls -> Nat], NEW held \in [Calls -> Nat],
           NEW f \in [0..NCalls -> Nat], RunningTotal(f, held),
           NEW c \in Calls, p[c] = 0, \A d \in Calls : d # c => p[d] <= held[d]
    PROVE  Promise!Total(p) \in Nat /\ Promise!Total(p) + held[c] <= f[NCalls]
  <1>1. NCalls \in Nat /\ Calls = 1..NCalls /\ c \in 1..NCalls
    BY CallsAssumption DEF Calls
  <1>2. PICK g \in [0..NCalls -> Nat] : SumsUp(g, p) /\ Promise!Total(p) = g[NCalls]
    BY TotalSumsUp
  <1>3. f[0] = 0 /\ \A n \in 1..NCalls : f[n] = f[n - 1] + held[n]
    BY <1>1 DEF RunningTotal
  <1>4. g[0] = 0 /\ \A n \in 1..NCalls : g[n] = g[n - 1] + p[n]
    BY <1>2 DEF SumsUp
  <1>a. PICK k : k = held[c]
    OBVIOUS
  <1>b. k \in Nat
    BY <1>a
  <1> DEFINE Within(n) == IF n >= c THEN g[n] + k <= f[n] ELSE g[n] <= f[n]
             I == {n \in Nat : n <= NCalls => Within(n)}
  <1>5. 0 \in I
    <2>1. ~(0 >= c)
      BY <1>1
    <2> QED BY <1>3, <1>4, <2>1
  <1>6. ASSUME NEW n \in Nat, n \in I
        PROVE  n + 1 \in I
    <2>1. SUFFICES ASSUME n + 1 <= NCalls PROVE Within(n + 1)
      OBVIOUS
    <2>2. n + 1 \in 1..NCalls /\ n \in 0..NCalls /\ n + 1 \in 0..NCalls /\ (n + 1) - 1 = n
      BY <1>1, <2>1
    <2>3. f[n + 1] = f[n] + held[n + 1] /\ g[n + 1] = g[n] + p[n + 1]
      BY <1>3, <1>4, <2>2
    <2>4. /\ f[n] \in Nat /\ f[n + 1] \in Nat /\ g[n] \in Nat /\ g[n + 1] \in Nat
          /\ held[n + 1] \in Nat /\ p[n + 1] \in Nat
      BY <1>1, <2>2
    <2>5. Within(n)
      <3>1. n <= NCalls
        BY <1>1, <2>1
      <3> QED BY <1>6, <3>1
    <2>6. CASE n + 1 = c
      <3>1. ~(n >= c) /\ n + 1 >= c /\ held[n + 1] = k /\ p[n + 1] = 0
        BY <1>1, <1>a, <2>6
      <3>2. g[n] <= f[n]
        BY <2>5, <3>1
      <3>3. g[n + 1] + k <= f[n + 1]
        BY <1>b, <2>3, <2>4, <3>1, <3>2
      <3> QED BY <3>1, <3>3
    <2>7. CASE n + 1 # c
      <3>1. p[n + 1] <= held[n + 1]
        BY <1>1, <2>2, <2>7
      <3>2. (n >= c) = (n + 1 >= c)
        BY <1>1, <2>7
      <3>3. CASE n >= c
        <4>1. g[n] + k <= f[n]
          BY <2>5, <3>3
        <4>2. g[n + 1] + k <= f[n + 1]
          BY <1>b, <2>3, <2>4, <3>1, <4>1
        <4> QED BY <3>2, <3>3, <4>2
      <3>4. CASE ~(n >= c)
        <4>1. g[n] <= f[n]
          BY <2>5, <3>4
        <4>2. g[n + 1] <= f[n + 1]
          BY <2>3, <2>4, <3>1, <4>1
        <4> QED BY <3>2, <3>4, <4>2
      <3> QED BY <3>3, <3>4
    <2> QED BY <2>6, <2>7
  <1>7. NCalls \in I
    <2> HIDE DEF I
    <2> QED BY <1>1, <1>5, <1>6, SetInduction
  <1>8. g[NCalls] + k <= f[NCalls]
    <2>1. NCalls >= c /\ NCalls <= NCalls
      BY <1>1
    <2> QED BY <1>7, <2>1
  <1> QED BY <1>1, <1>2, <1>a, <1>8

-----------------------------------------------------------------------------
(* What the budgets promise is kept: every step of the guard is one of SpendingLimit,  *)
(* or none.                                                                     *)

\* The amounts of a call are amounts that occur.
AmountsOccur ==
    \A c \in Calls : estimate[c] \in Estimates \union {None} /\ actual[c] \in Occurring

\* What a call holds, and what it is charged, are amounts that occur.
LEMMA AmountOccurs ==
    ASSUME AmountsOccur, NEW c \in Calls
    PROVE  Amount(c) \in Occurring /\ actual[c] \in Occurring
  BY DEF AmountsOccur, Occurring, Amount, OrZero

\* No amounts at first but none and 0.
LEMMA InitOccurs == Init => AmountsOccur
  BY DEF Init, AmountsOccur, Occurring

\* Every step keeps to the amounts that occur.
LEMMA OccursStep ==
    ASSUME TypeOK, AmountsOccur, [Next]_vars
    PROVE  AmountsOccur'
  <1> USE DEF guard, history
  <1>1. ASSUME actual' = actual, estimate' = estimate
        PROVE  AmountsOccur'
    BY <1>1 DEF AmountsOccur, Occurring
  <1>2. ASSUME NEW c \in Calls, NEW e \in Estimates, Begin(c, e)
        PROVE  AmountsOccur'
    <2>1. actual' = actual /\ estimate' = [estimate EXCEPT ![c] = e]
      BY <1>2 DEF Begin
    <2> QED BY <2>1 DEF AmountsOccur, Occurring, TypeOK
  <1>3. ASSUME NEW c \in Calls, NEW cost \in Costs, Answer(c, cost)
        PROVE  AmountsOccur'
    <2>1. PICK a : a = IF cost # None THEN cost ELSE Amount(c)
      OBVIOUS
    <2>2. actual' = [actual EXCEPT ![c] = a] /\ estimate' = estimate
      BY <1>3, <2>1 DEF Answer, Unwind
    <2>3. a \in Occurring
      <3>1. cost # None => cost \in Occurring
        BY DEF Occurring, OrZero
      <3> QED BY <2>1, <3>1, AmountOccurs
    <2>4. \A d \in Calls : actual'[d] \in Occurring
      BY <2>2, <2>3 DEF AmountsOccur, TypeOK
    <2>5. Occurring' = Occurring
      BY DEF Occurring
    <2> QED BY <2>2, <2>4, <2>5 DEF AmountsOccur
  <1>4. ASSUME NEW c \in Calls, Reserve(c) \/ Refuse(c) \/ Fail(c) \/ Commit(c) \/ Release(c)
        PROVE  AmountsOccur'
    BY <1>1, <1>4 DEF Reserve, Refuse, Fail, Unwind, Commit, Release, SettleNext
  <1>5. ASSUME UNCHANGED guard PROVE AmountsOccur'
    BY <1>1, <1>5
  <1>6. CASE UNCHANGED vars
    BY <1>1, <1>6 DEF vars
  <1> QED
    BY <1>2, <1>3, <1>4, <1>5, <1>6
    DEF Next, GuardStep, Finished, Add, Reset, SetLimit, Intervene

\* Unsettled and Pledges, one call at a time.
LEMMA PledgeOf ==
    ASSUME NEW c \in Calls
    PROVE  /\ Unsettled[c] = IF Sent(c) THEN pending[c] ELSE {}
           /\ Pledges[c] = IF Unsettled[c] # {} THEN Amount(c) ELSE 0
  BY DEF Unsettled, Pledges

\* The same after a step.
LEMMA PledgeOfNext ==
    ASSUME NEW c \in Calls
    PROVE  /\ Unsettled'[c] = IF Sent(c)' THEN pending'[c] ELSE {}
           /\ Pledges'[c] = IF Unsettled'[c] # {} THEN Amount(c)' ELSE 0
  BY DEF Unsettled, Pledges

\* A step in which every call stays as it is in the promise, apart from one perhaps.
LEMMA OthersStand ==
    ASSUME TypeOK, NEW S \in SUBSET Calls,
           \A d \in Calls \ S : /\ phase'[d] = phase[d] /\ outcome'[d] = outcome[d]
                               /\ pending'[d] = pending[d] /\ estimate'[d] = estimate[d]
    PROVE  \A d \in Calls \ S : Unsettled'[d] = Unsettled[d] /\ Pledges'[d] = Pledges[d]
  <1> SUFFICES ASSUME NEW d \in Calls \ S
               PROVE  Unsettled'[d] = Unsettled[d] /\ Pledges'[d] = Pledges[d]
    OBVIOUS
  <1>1. Sent(d)' = Sent(d) /\ Amount(d)' = Amount(d)
    BY DEF Sent, Amount
  <1>2. Unsettled'[d] = Unsettled[d]
    BY <1>1, PledgeOf, PledgeOfNext
  <1> QED BY <1>1, <1>2, PledgeOf, PledgeOfNext

\* A step in which no call moves in the promise and no amount changes is a stutter.
LEMMA PromiseStands ==
    ASSUME \A d \in Calls : Unsettled'[d] = Unsettled[d] /\ Pledges'[d] = Pledges[d],
           UNCHANGED <<limit, spent, unforeseen, torn>>
    PROVE  UNCHANGED Promise!vars
  <1>1. Unsettled' = Unsettled
    BY DEF Unsettled
  <1>2. Pledges' = Pledges
    BY DEF Pledges
  <1> QED BY <1>1, <1>2 DEF Promise!vars

\* A step of one call that is not let through, before or after it.
LEMMA UnsentStands ==
    ASSUME TypeOK, NEW c \in Calls, Unsettled[c] = {}, Unsettled'[c] = {},
           \A d \in Calls \ {c} : /\ phase'[d] = phase[d] /\ outcome'[d] = outcome[d]
                                 /\ pending'[d] = pending[d] /\ estimate'[d] = estimate[d],
           UNCHANGED <<limit, spent, unforeseen, torn>>
    PROVE  UNCHANGED Promise!vars
  <1>1. \A d \in Calls \ {c} : Unsettled'[d] = Unsettled[d] /\ Pledges'[d] = Pledges[d]
    BY OthersStand
  <1>2. Pledges'[c] = 0 /\ Pledges[c] = 0
    BY PledgeOf, PledgeOfNext
  <1> QED BY <1>1, <1>2, PromiseStands

\* A pass begins.
LEMMA BeginStands ==
    ASSUME TypeOK, PendingMatchesLoop, NEW c \in Calls, NEW e, Begin(c, e)
    PROVE  UNCHANGED Promise!vars
  <1>1. pending[c] = {} /\ pending' = pending
    BY DEF Begin, PendingMatchesLoop, LoopOK
  <1>2. Unsettled[c] = {} /\ Unsettled'[c] = {}
    BY <1>1, PledgeOf, PledgeOfNext
  <1>3. \A d \in Calls \ {c} : /\ phase'[d] = phase[d] /\ outcome'[d] = outcome[d]
                              /\ pending'[d] = pending[d] /\ estimate'[d] = estimate[d]
    BY DEF Begin, TypeOK
  <1>4. UNCHANGED <<limit, spent, unforeseen, torn>>
    BY DEF Begin, amounts
  <1> QED BY <1>2, <1>3, <1>4, UnsentStands

\* A budget refuses the call.
LEMMA RefuseStands ==
    ASSUME TypeOK, NEW c \in Calls, Refuse(c)
    PROVE  UNCHANGED Promise!vars
  <1>1. phase[c] = "reserving" /\ phase'[c] \in {"idle", "releasing"} /\ outcome'[c] = "refused"
    BY DEF Refuse, Unwind, Unwound, TypeOK
  <1>2. ~Sent(c) /\ ~Sent(c)'
    BY <1>1 DEF Sent
  <1>3. Unsettled[c] = {} /\ Unsettled'[c] = {}
    BY <1>2, PledgeOf, PledgeOfNext
  <1>4. \A d \in Calls \ {c} : /\ phase'[d] = phase[d] /\ outcome'[d] = outcome[d]
                              /\ pending'[d] = pending[d] /\ estimate'[d] = estimate[d]
    BY DEF Refuse, Unwind, TypeOK
  <1>5. UNCHANGED <<limit, spent, unforeseen, torn>>
    BY DEF Refuse, Unwind, amounts, history
  <1> QED BY <1>3, <1>4, <1>5, UnsentStands

\* The provider has answered, or the request has failed: the budgets do not see it yet.
LEMMA EndStands ==
    ASSUME TypeOK, NEW c \in Calls, phase[c] = "calling",
           NEW p, NEW out,
           <<p, out>> \in {<<"committing", "answered">>, <<"releasing", "failed">>},
           Unwind(c, p, out)
    PROVE  UNCHANGED Promise!vars
  <1>1. pending' = pending /\ estimate' = estimate
    BY DEF Unwind
  <1>2. \A d \in Calls \ {c} : /\ phase'[d] = phase[d] /\ outcome'[d] = outcome[d]
                              /\ pending'[d] = pending[d] /\ estimate'[d] = estimate[d]
    BY DEF Unwind, TypeOK
  <1>3. \A d \in Calls \ {c} : Unsettled'[d] = Unsettled[d] /\ Pledges'[d] = Pledges[d]
    BY <1>2, OthersStand
  <1>4. Sent(c) /\ (pending[c] # {} => Sent(c)')
    <2>1. pending[c] # {} => phase'[c] = p /\ outcome'[c] = out
      BY DEF Unwind, Unwound, TypeOK
    <2> QED BY <2>1 DEF Sent
  <1>5. Unsettled'[c] = Unsettled[c]
    BY <1>1, <1>4, PledgeOf, PledgeOfNext
  <1>6. Amount(c)' = Amount(c)
    BY <1>1 DEF Amount
  <1>7. Pledges'[c] = Pledges[c]
    BY <1>5, <1>6, PledgeOf, PledgeOfNext
  <1>8. UNCHANGED <<limit, spent, unforeseen, torn>>
    BY DEF Unwind, amounts, history
  <1> QED BY <1>3, <1>5, <1>7, <1>8, PromiseStands

\* The rest of the program changes no call.
LEMMA InterventionStands ==
    ASSUME Intervene
    PROVE  Unsettled' = Unsettled /\ Pledges' = Pledges
  <1>1. pending' = pending /\ estimate' = estimate /\ phase' = phase /\ outcome' = outcome
    BY DEF Intervene, guard
  <1>2. \A d \in Calls : Sent(d)' = Sent(d) /\ Amount(d)' = Amount(d)
    BY <1>1 DEF Sent, Amount
  <1>3. Unsettled' = Unsettled
    BY <1>1, <1>2 DEF Unsettled
  <1> QED BY <1>2, <1>3 DEF Pledges

\* Spend that is added is recorded.
LEMMA AddRecords ==
    ASSUME TypeOK, NEW b \in Budgets, NEW cost \in Additions, Add(b, cost)
    PROVE  Promise!Next
  <1>1. Pos(cost) \in Occurring
    BY DEF Occurring
  <1>2. Unsettled' = Unsettled /\ Pledges' = Pledges
    BY InterventionStands DEF Add
  <1>3. Promise!Record(b, Pos(cost))
    BY <1>2 DEF Promise!Record, Add
  <1> QED BY <1>1, <1>3 DEF Promise!Next

\* A reset is a restart, which meets a request or does not.
LEMMA ResetRestarts ==
    ASSUME TypeOK, NEW b \in Budgets, Reset(b)
    PROVE  Promise!Next
  <1>1. Unsettled' = Unsettled /\ Pledges' = Pledges
    BY InterventionStands DEF Reset
  <1>2. PICK met : met = ~Quiet(b)
    OBVIOUS
  <1>3. met \in BOOLEAN
    BY <1>2 DEF Quiet
  <1>4. (\E c \in Calls : b \in Unsettled[c]) => met
    BY <1>2, PledgeOf DEF Quiet
  <1>5. torn' = [torn EXCEPT ![b] = met]
    BY <1>2 DEF Reset
  <1>6. Promise!Restart(b)
    <2>1. Promise!Calls = Calls
      BY DEF Calls, Promise!Calls
    <2>2. \E m \in BOOLEAN : /\ (\E c \in Promise!Calls : b \in Unsettled[c]) => m
                            /\ torn' = [torn EXCEPT ![b] = m]
      BY <1>3, <1>4, <1>5, <2>1
    <2> QED BY <1>1, <2>2 DEF Promise!Restart, Reset
  <1> QED BY <1>6 DEF Promise!Next

\* A new limit is a new limit.
LEMMA LimitIsSet ==
    ASSUME TypeOK, NEW b \in Budgets, NEW l \in Limits, SetLimit(b, l)
    PROVE  Promise!Next
  <1>1. l \in Occurring /\ l \in Nat /\ limit[b] \in Nat
    BY AmountsAssumption DEF Occurring, TypeOK
  <1>2. Unsettled' = Unsettled /\ Pledges' = Pledges
    BY InterventionStands DEF SetLimit
  <1>3. Pos(limit[b] - l) = Promise!Over(limit[b], l)
    BY <1>1 DEF Pos, Promise!Over
  <1>4. Promise!SetLimit(b, l)
    BY <1>2, <1>3 DEF Promise!SetLimit, SetLimit
  <1> QED BY <1>1, <1>4 DEF Promise!Next

\* What is pledged in a budget, written with the calls of the guard.
LEMMA PledgedIn ==
    ASSUME NEW b \in Budgets, NEW p,
           p = [c \in Calls |-> IF b \in Unsettled[c] THEN Pledges[c] ELSE 0]
    PROVE  Promise!Pledged(b) = Promise!Total(p)
  <1>1. Promise!Calls = Calls
    BY DEF Calls, Promise!Calls
  <1> QED BY <1>1 DEF Promise!Pledged

\* A turn of the reservation loop that is not the last.
LEMMA ReserveStands ==
    ASSUME TypeOK, NEW c \in Calls, Reserve(c), at[c] # Len(BudgetsOf[c])
    PROVE  UNCHANGED Promise!vars
  <1>1. phase[c] = "reserving" /\ phase' = phase
    BY DEF Reserve
  <1>2. ~Sent(c) /\ ~Sent(c)'
    BY <1>1 DEF Sent
  <1>3. Unsettled[c] = {} /\ Unsettled'[c] = {}
    BY <1>2, PledgeOf, PledgeOfNext
  <1>4. \A d \in Calls \ {c} : /\ phase'[d] = phase[d] /\ outcome'[d] = outcome[d]
                              /\ pending'[d] = pending[d] /\ estimate'[d] = estimate[d]
    BY <1>1 DEF Reserve, TypeOK
  <1>5. UNCHANGED <<limit, spent, unforeseen, torn>>
    BY DEF Reserve, history
  <1> QED BY <1>3, <1>4, <1>5, UnsentStands

\* When the last budget accepts the call, all of its budgets can afford the request.
LEMMA LastAffords ==
    ASSUME TypeOK, TypeOK', PendingMatchesLoop', Accounts', NEW c \in Calls, Reserve(c),
           at[c] = Len(BudgetsOf[c]), NEW b \in Budgets, b \in pending'[c], ~torn[b]
    PROVE  spent[b] + Promise!Pledged(b) + Amount(c) <= limit[b] + unforeseen[b]
  <1>1. PICK f \in [0..NCalls -> Nat] : Balanced(f, b)'
    BY DEF Accounts
  <1>2. /\ spent' = spent /\ limit' = limit /\ torn' = torn
        /\ unforeseen' = unforeseen /\ estimate' = estimate
    BY DEF Reserve, history
  <1>3. PICK held : held = HeldIn(b)'
    OBVIOUS
  <1>4. \A d \in Calls : held[d] = IF b \in pending'[d] THEN Amount(d) ELSE 0
    BY <1>2, <1>3 DEF HeldIn, Held, Amount
  <1>5. \A d \in Calls : Amount(d) \in Nat
    BY AmountTyped
  <1>6. held \in [Calls -> Nat]
    <2>1. held = [d \in Calls |-> Held(d, b)']
      BY <1>3 DEF HeldIn
    <2>2. \A d \in Calls : Held(d, b)' \in Nat
      BY <1>4, <1>5, <2>1
    <2> QED BY <2>1, <2>2
  <1>7. RunningTotal(f, held)
    BY <1>1, <1>3 DEF Balanced, RunningTotal
  <1>8. spent[b] + f[NCalls] <= limit[b] + unforeseen[b]
    BY <1>1, <1>2 DEF Balanced
  <1>9. PICK p : p = [d \in Calls |-> IF b \in Unsettled[d] THEN Pledges[d] ELSE 0]
    OBVIOUS
  <1>10. \A d \in Calls : Pledges[d] \in Nat
    BY <1>5, PledgeOf
  <1>11. p \in [Calls -> Nat]
    BY <1>9, <1>10
  <1>12. p[c] = 0
    <2>1. Unsettled[c] = {}
      BY PledgeOf DEF Reserve, Sent
    <2> QED BY <1>9, <2>1
  <1>13. ASSUME NEW d \in Calls, d # c PROVE p[d] <= held[d]
    <2>1. CASE b \in Unsettled[d]
      <3>1. p[d] = Amount(d)
        BY <1>9, <2>1, PledgeOf
      <3>2. pending'[d] = pending[d] /\ b \in pending[d]
        BY <1>13, <2>1, PledgeOf DEF Reserve, TypeOK
      <3> QED BY <1>4, <1>5, <3>1, <3>2
    <2>2. CASE b \notin Unsettled[d]
      <3>1. p[d] = 0 /\ held[d] \in Nat
        BY <1>6, <1>9, <2>2
      <3> QED BY <3>1
    <2> QED BY <2>1, <2>2
  <1>14. Promise!Total(p) \in Nat /\ Promise!Total(p) + held[c] <= f[NCalls]
    BY <1>6, <1>7, <1>11, <1>12, <1>13, PledgesAreHeld
  <1>15. held[c] = Amount(c) /\ Promise!Pledged(b) = Promise!Total(p)
    BY <1>4, <1>9, PledgedIn
  <1>16. /\ f[NCalls] \in Nat /\ spent[b] \in Nat /\ limit[b] \in Nat
         /\ unforeseen[b] \in Nat /\ Amount(c) \in Nat
    BY <1>5, CallsAssumption DEF TypeOK
  <1> QED BY <1>8, <1>14, <1>15, <1>16

\* The last turn of the reservation loop is the grant.
LEMMA ReserveGrants ==
    ASSUME TypeOK, PendingMatchesLoop, TypeOK', PendingMatchesLoop', Accounts', AmountsOccur,
           NEW c \in Calls, Reserve(c), at[c] = Len(BudgetsOf[c])
    PROVE  Promise!Next
  <1>1. phase[c] = "reserving" /\ phase' = [phase EXCEPT ![c] = "calling"] /\ outcome' = outcome
    BY DEF Reserve
  <1>2. ~Sent(c) /\ Sent(c)'
    BY <1>1 DEF Sent, TypeOK
  <1>3. Unsettled[c] = {} /\ Pledges[c] = 0
    BY <1>2, PledgeOf
  <1>4. pending'[c] = BudgetSet(c) /\ BudgetSet(c) # {} /\ BudgetSet(c) \subseteq Budgets
    <2>1. phase'[c] = "calling"
      BY <1>1 DEF TypeOK
    <2>2. pending'[c] = Slice(c, 1, Len(BudgetsOf[c]))
      BY <2>1 DEF PendingMatchesLoop, LoopOK, Slice
    <2>3. DOMAIN BudgetsOf[c] = 1..Len(BudgetsOf[c])
      BY BudgetsAssumption
    <2>4. at[c] \in DOMAIN BudgetsOf[c]
      BY <1>1, <2>3 DEF PendingMatchesLoop, LoopOK
    <2>5. \A i \in DOMAIN BudgetsOf[c] : BudgetsOf[c][i] \in Budgets
      BY BudgetsAssumption
    <2> QED BY <2>2, <2>3, <2>4, <2>5 DEF Slice, BudgetSet
  <1>5. BudgetSets[c] = BudgetSet(c)
    BY DEF BudgetSets
  <1>6. estimate' = estimate /\ Amount(c)' = Amount(c)
    BY DEF Reserve, Amount
  <1>7. Unsettled'[c] = BudgetSets[c] /\ Pledges'[c] = Amount(c)
    BY <1>2, <1>4, <1>5, <1>6, PledgeOfNext
  <1>8. \A d \in Calls \ {c} : Unsettled'[d] = Unsettled[d] /\ Pledges'[d] = Pledges[d]
    <2>1. \A d \in Calls \ {c} : /\ phase'[d] = phase[d] /\ outcome'[d] = outcome[d]
                                /\ pending'[d] = pending[d] /\ estimate'[d] = estimate[d]
      BY <1>1, <1>6 DEF Reserve, TypeOK
    <2> QED BY <2>1, OthersStand
  <1>9. Unsettled' = [Unsettled EXCEPT ![c] = BudgetSets[c]]
    BY <1>7, <1>8 DEF Unsettled
  <1>10. Pledges' = [Pledges EXCEPT ![c] = Amount(c)]
    BY <1>7, <1>8 DEF Pledges
  <1>11. \A b \in BudgetSets[c] : ~torn[b] =>
            spent[b] + Promise!Pledged(b) + Amount(c) <= limit[b] + unforeseen[b]
    BY <1>4, <1>5, LastAffords
  <1>12. UNCHANGED <<limit, spent, unforeseen, torn>>
    BY DEF Reserve, history
  <1>13. Promise!Grant(c, Amount(c))
    BY <1>3, <1>4, <1>5, <1>9, <1>10, <1>11, <1>12 DEF Promise!Grant
  <1>14. Amount(c) \in Occurring /\ c \in Promise!Calls
    BY AmountOccurs DEF Calls, Promise!Calls
  <1> QED BY <1>13, <1>14 DEF Promise!Next

\* A turn of the settling loop after a request closes the pledge in one budget.
LEMMA SettleCloses ==
    ASSUME TypeOK, PendingMatchesLoop, NEW c \in Calls, NEW a \in Nat, a \in Occurring,
           SettleNext(c, a), Sent(c), phase[c] \in {"committing", "releasing"}
    PROVE  Promise!Next
  <1>1. PICK b : b = BudgetsOf[c][at[c]]
    OBVIOUS
  <1>2. b \in Budgets /\ b \in pending[c]
    <2>1. /\ at[c] \in 1..Len(BudgetsOf[c])
          /\ \E m \in at[c]..Len(BudgetsOf[c]) : pending[c] = Slice(c, at[c], m)
      BY DEF PendingMatchesLoop, LoopOK
    <2> QED BY <1>1, <2>1, NextBudget, SliceShrinks
  <1>3. /\ pending' = [pending EXCEPT ![c] = pending[c] \ {b}]
        /\ estimate' = estimate /\ outcome' = outcome
        /\ phase' = IF pending[c] = {b} THEN [phase EXCEPT ![c] = "idle"] ELSE phase
    BY <1>1 DEF SettleNext, SettlesLast
  <1>4. /\ limit' = limit /\ torn' = torn
        /\ spent' = [spent EXCEPT ![b] = spent[b] + Pos(a)]
        /\ unforeseen' = [unforeseen EXCEPT ![b] = unforeseen[b] + Pos(a - Amount(c))]
    BY <1>1 DEF SettleNext, Settle
  <1>5. Unsettled[c] = pending[c] /\ Pledges[c] = Amount(c) /\ Amount(c) \in Nat
    BY <1>2, PledgeOf, AmountTyped
  <1>6. pending'[c] = pending[c] \ {b}
    BY <1>3 DEF TypeOK
  <1>7. Unsettled'[c] = Unsettled[c] \ {b}
    <2>1. CASE pending[c] = {b}
      BY <1>5, <1>6, <2>1, PledgeOfNext
    <2>2. CASE pending[c] # {b}
      <3>1. phase' = phase
        BY <1>3, <2>2
      <3>2. Sent(c)'
        BY <1>3, <3>1 DEF Sent
      <3> QED BY <1>5, <1>6, <3>2, PledgeOfNext
    <2> QED BY <2>1, <2>2
  <1>8. Amount(c)' = Amount(c)
    BY <1>3 DEF Amount
  <1>9. Pledges'[c] = IF Unsettled[c] = {b} THEN 0 ELSE Pledges[c]
    <2>1. (Unsettled'[c] = {}) = (Unsettled[c] = {b})
      BY <1>2, <1>5, <1>7
    <2> QED BY <1>5, <1>8, <2>1, PledgeOfNext
  <1>10. \A d \in Calls \ {c} : Unsettled'[d] = Unsettled[d] /\ Pledges'[d] = Pledges[d]
    <2>1. \A d \in Calls \ {c} : /\ phase'[d] = phase[d] /\ outcome'[d] = outcome[d]
                                /\ pending'[d] = pending[d] /\ estimate'[d] = estimate[d]
      BY <1>3 DEF TypeOK
    <2> QED BY <2>1, OthersStand
  <1>11. Unsettled' = [Unsettled EXCEPT ![c] = @ \ {b}]
    BY <1>7, <1>10 DEF Unsettled
  <1>12. Pledges' = [Pledges EXCEPT ![c] = IF Unsettled[c] = {b} THEN 0 ELSE @]
    BY <1>9, <1>10 DEF Pledges
  <1>13. Pos(a) = a /\ Pos(a - Amount(c)) = Promise!Over(a, Pledges[c])
    BY <1>5 DEF Pos, Promise!Over
  <1>14. Promise!Close(c, b, a)
    BY <1>2, <1>4, <1>5, <1>11, <1>12, <1>13 DEF Promise!Close
  <1>15. c \in Promise!Calls
    BY DEF Calls, Promise!Calls
  <1> QED BY <1>2, <1>14, <1>15 DEF Promise!Next

\* Giving back the reservations of a refused call is nothing to the promise.
LEMMA RollbackStands ==
    ASSUME TypeOK, PendingMatchesLoop, NEW c \in Calls, phase[c] = "releasing",
           SettleNext(c, 0), ~Sent(c)
    PROVE  UNCHANGED Promise!vars
  <1>1. PICK b : b = BudgetsOf[c][at[c]]
    OBVIOUS
  <1>2. /\ \A d \in Calls \ {c} : phase'[d] = phase[d] /\ pending'[d] = pending[d]
        /\ phase'[c] \in {"releasing", "idle"} /\ outcome' = outcome /\ estimate' = estimate
    BY DEF SettleNext, TypeOK
  <1>3. ~Sent(c)'
    BY <1>2 DEF Sent
  <1>4. Unsettled[c] = {} /\ Unsettled'[c] = {}
    BY <1>3, PledgeOf, PledgeOfNext
  <1>5. b \in Budgets
    BY <1>1, NextBudget DEF PendingMatchesLoop, LoopOK
  <1>6. Pos(0) = 0 /\ Pos(0 - Amount(c)) = 0
    BY AmountTyped DEF Pos
  <1>7. /\ limit' = limit /\ torn' = torn
        /\ spent' = [spent EXCEPT ![b] = spent[b] + 0]
        /\ unforeseen' = [unforeseen EXCEPT ![b] = unforeseen[b] + 0]
    BY <1>1, <1>6 DEF SettleNext, Settle
  <1>8. spent[b] + 0 = spent[b] /\ unforeseen[b] + 0 = unforeseen[b]
    BY <1>5 DEF TypeOK
  <1>9. spent' = spent /\ unforeseen' = unforeseen
    BY <1>5, <1>7, <1>8 DEF TypeOK
  <1> QED BY <1>2, <1>4, <1>7, <1>9, UnsentStands

\* A call that goes back to idle, or on, after a failed or refused request.
LEMMA ReleaseInPromise ==
    ASSUME TypeOK, PendingMatchesLoop, NEW c \in Calls, Release(c)
    PROVE  [Promise!Next]_(Promise!vars)
  <1>1. phase[c] = "releasing" /\ SettleNext(c, 0) /\ 0 \in Nat /\ 0 \in Occurring
    BY DEF Release, Occurring
  <1>2. CASE Sent(c)
    BY <1>1, <1>2, SettleCloses
  <1>3. CASE ~Sent(c)
    BY <1>1, <1>3, RollbackStands
  <1> QED BY <1>2, <1>3

\* A turn of the settling loop after an answer closes the pledge at its cost.
LEMMA CommitInPromise ==
    ASSUME TypeOK, PendingMatchesLoop, AmountsOccur, NEW c \in Calls, Commit(c)
    PROVE  Promise!Next
  <1>1. phase[c] = "committing" /\ SettleNext(c, actual[c])
    BY DEF Commit
  <1>2. actual[c] \in Nat /\ actual[c] \in Occurring /\ Sent(c)
    BY <1>1, AmountOccurs DEF TypeOK, Sent
  <1> QED BY <1>1, <1>2, SettleCloses

\* Every step of the guard is a step of the promise, or none.
LEMMA StepInPromise ==
    ASSUME Inv, Inv', AmountsOccur, [Next]_vars
    PROVE  [Promise!Next]_(Promise!vars)
  <1> USE DEF Inv
  <1>1. ASSUME NEW c \in Calls, NEW e \in Estimates, Begin(c, e)
        PROVE  UNCHANGED Promise!vars
    BY <1>1, BeginStands
  <1>2. ASSUME NEW c \in Calls, Reserve(c)
        PROVE  [Promise!Next]_(Promise!vars)
    <2>1. CASE at[c] = Len(BudgetsOf[c])
      BY <1>2, <2>1, ReserveGrants
    <2>2. CASE at[c] # Len(BudgetsOf[c])
      BY <1>2, <2>2, ReserveStands
    <2> QED BY <2>1, <2>2
  <1>3. ASSUME NEW c \in Calls, Refuse(c)
        PROVE  UNCHANGED Promise!vars
    BY <1>3, RefuseStands
  <1>4. ASSUME NEW c \in Calls, NEW cost \in Costs, Answer(c, cost)
        PROVE  UNCHANGED Promise!vars
    <2>1. phase[c] = "calling" /\ Unwind(c, "committing", "answered")
      BY <1>4 DEF Answer
    <2> QED BY <2>1, EndStands
  <1>5. ASSUME NEW c \in Calls, Fail(c)
        PROVE  UNCHANGED Promise!vars
    <2>1. phase[c] = "calling" /\ Unwind(c, "releasing", "failed")
      BY <1>5 DEF Fail
    <2> QED BY <2>1, EndStands
  <1>6. ASSUME NEW c \in Calls, Commit(c)
        PROVE  Promise!Next
    BY <1>6, CommitInPromise
  <1>7. ASSUME NEW c \in Calls, Release(c)
        PROVE  [Promise!Next]_(Promise!vars)
    BY <1>7, ReleaseInPromise
  <1>8. ASSUME NEW b \in Budgets,
               \/ \E cost \in Additions : Add(b, cost)
               \/ Reset(b)
               \/ \E l \in Limits : SetLimit(b, l)
        PROVE  Promise!Next
    BY <1>8, AddRecords, ResetRestarts, LimitIsSet
  <1>9. ASSUME UNCHANGED vars
        PROVE  UNCHANGED Promise!vars
    <2>1. phase' = phase /\ outcome' = outcome /\ pending' = pending /\ estimate' = estimate
      BY <1>9 DEF vars, guard
    <2>2. UNCHANGED <<limit, spent, unforeseen, torn>>
      BY <1>9 DEF vars, amounts, history
    <2>3. \A d \in Calls : Unsettled'[d] = Unsettled[d] /\ Pledges'[d] = Pledges[d]
      BY <2>1, OthersStand, {} \in SUBSET Calls
    <2> QED BY <2>2, <2>3, PromiseStands
  <1> QED
    BY <1>1, <1>2, <1>3, <1>4, <1>5, <1>6, <1>7, <1>8, <1>9 DEF Next, GuardStep, Finished

\* The initial state is one of the promise.
LEMMA PromiseBegins == Init => Promise!Init
  <1> SUFFICES ASSUME Init PROVE Promise!Init
    OBVIOUS
  <1>1. \A c \in Calls : ~Sent(c)
    BY DEF Init, Sent
  <1>2. Unsettled = [c \in Calls |-> {}]
    BY <1>1 DEF Unsettled
  <1>3. Pledges = [c \in Calls |-> 0]
    BY <1>2 DEF Pledges
  <1>4. Promise!Calls = Calls
    BY DEF Calls, Promise!Calls
  <1> QED BY <1>2, <1>3, <1>4 DEF Init, Promise!Init

\* The guard implements the promise.
THEOREM PromiseKept == Spec => KeepsThePromise
  <1>1. Init => AmountsOccur
    BY InitOccurs
  <1>2. Inv /\ AmountsOccur /\ [Next]_vars => AmountsOccur'
    BY OccursStep DEF Inv
  <1>3. Spec => []AmountsOccur
    BY <1>1, <1>2, Invariance, PTL DEF Spec
  <1>4. Inv /\ Inv' /\ AmountsOccur /\ [Next]_vars => [Promise!Next]_(Promise!vars)
    BY StepInPromise
  <1>5. Init => Promise!Init
    BY PromiseBegins
  <1>6. Spec => Promise!Spec
    BY <1>3, <1>4, <1>5, Invariance, PTL DEF Spec, Promise!Spec
  <1> QED BY <1>6 DEF KeepsThePromise

-----------------------------------------------------------------------------
(* Racing first passes. *)

\* Every step keeps passes and outcomes in step with the phases.
LEMMA BegunStep ==
    ASSUME TypeOK, Begun, [Next]_vars
    PROVE  Begun'
  <1> USE DEF guard, history
  <1>1. ASSUME NEW c \in Calls, NEW e \in Estimates, Begin(c, e)
        PROVE  Begun'
    <2>1. passes' = [passes EXCEPT ![c] = passes[c] + 1] /\ passes[c] \in Nat
      BY <1>1 DEF Begin, TypeOK
    <2>2. \A d \in Calls \ {c} : phase'[d] = phase[d] /\ outcome'[d] = outcome[d]
      BY <1>1 DEF Begin, TypeOK
    <2>3. passes'[c] > 0 /\ \A d \in Calls \ {c} : passes'[d] = passes[d]
      BY <2>1 DEF TypeOK
    <2>4. phase'[c] = "idle" \/ outcome'[c] = "none"
      BY <1>1 DEF Begin, TypeOK
    <2> QED BY <2>2, <2>3, <2>4 DEF Begun
  <1>2. ASSUME NEW c \in Calls, phase[c] # "idle", passes' = passes,
               \A d \in Calls \ {c} : phase'[d] = phase[d] /\ outcome'[d] = outcome[d],
               phase'[c] \in {"reserving", "calling"} => outcome'[c] = "none"
        PROVE  Begun'
    BY <1>2 DEF Begun
  <1>3. ASSUME NEW c \in Calls,
               Reserve(c) \/ Refuse(c) \/ (\E cost \in Costs : Answer(c, cost)) \/ Fail(c)
                 \/ Commit(c) \/ Release(c)
        PROVE  Begun'
    <2>1. phase[c] # "idle" /\ passes' = passes
      BY <1>3 DEF Reserve, Refuse, Answer, Fail, Unwind, Commit, Release, SettleNext
    <2>2. \A d \in Calls \ {c} : phase'[d] = phase[d] /\ outcome'[d] = outcome[d]
      BY <1>3 DEF Reserve, Refuse, Answer, Fail, Unwind, Commit, Release, SettleNext, TypeOK
    <2>3. CASE Reserve(c)
      <3>1. outcome'[c] = "none"
        BY <2>3 DEF Reserve, Begun
      <3> QED BY <1>2, <2>1, <2>2, <3>1
    <2>4. CASE Refuse(c) \/ (\E cost \in Costs : Answer(c, cost)) \/ Fail(c)
      <3>1. phase'[c] \in {"idle", "committing", "releasing"}
        BY <2>4 DEF Refuse, Answer, Fail, Unwind, Unwound, TypeOK
      <3> QED BY <1>2, <2>1, <2>2, <3>1
    <2>5. CASE Commit(c) \/ Release(c)
      <3>1. phase'[c] \in {"idle", "committing", "releasing"}
        BY <2>5 DEF Commit, Release, SettleNext, TypeOK
      <3> QED BY <1>2, <2>1, <2>2, <3>1
    <2> QED BY <1>3, <2>3, <2>4, <2>5
  <1>4. ASSUME UNCHANGED guard PROVE Begun'
    BY <1>4 DEF Begun
  <1>5. CASE UNCHANGED vars
    BY <1>4, <1>5 DEF vars
  <1> QED
    BY <1>1, <1>3, <1>4, <1>5 DEF Next, GuardStep, Finished, Add, Reset, SetLimit, Intervene

\* The race was on before the step that leaves it on, and the step intervened in nothing.
LEMMA RaceWasOn ==
    ASSUME TypeOK, PendingMatchesLoop, [Next]_vars, Race'
    PROVE  /\ interventions = 0 /\ limit' = limit
           /\ \A b \in Budgets : spent[b] = 0
           /\ \A c \in Calls : passes[c] <= passes'[c] /\ passes'[c] <= 1
           /\ \A c \in Calls : passes'[c] = 1 => FitsAlone(c)'
           /\ \A c \in Calls : passes[c] = 1 => estimate'[c] = estimate[c]
  <1> USE DEF guard, history, amounts
  <1> DEFINE WasOn == /\ interventions = 0 /\ limit' = limit
                      /\ \A b \in Budgets : spent[b] = 0
                      /\ \A c \in Calls : /\ passes[c] <= passes'[c]
                                          /\ passes[c] = 1 => estimate'[c] = estimate[c]
  <1>0. /\ interventions' = 0 /\ interventions \in Nat
        /\ \A b \in Budgets : spent'[b] = 0 /\ spent[b] \in Nat
        /\ \A c \in Calls : passes[c] \in Nat /\ passes'[c] <= 1
        /\ \A c \in Calls : passes'[c] = 1 => FitsAlone(c)'
    BY DEF Race, TypeOK
  <1>1. ASSUME NEW x \in Budgets, Intervene
        PROVE  FALSE
    BY <1>0, <1>1 DEF Intervene
  <1>2. ASSUME UNCHANGED <<interventions, limit, spent, passes, estimate>>
        PROVE  WasOn
    BY <1>0, <1>2
  <1>3. ASSUME NEW c \in Calls, NEW e \in Estimates, Begin(c, e)
        PROVE  WasOn
    <2>1. UNCHANGED <<interventions, limit, spent>>
      BY <1>3 DEF Begin
    <2>2. /\ passes' = [passes EXCEPT ![c] = passes[c] + 1]
          /\ estimate' = [estimate EXCEPT ![c] = e]
      BY <1>3 DEF Begin
    <2>3. passes'[c] = passes[c] + 1 /\ passes[c] # 1
      BY <1>0, <2>2 DEF TypeOK
    <2>4. \A d \in Calls \ {c} : passes'[d] = passes[d] /\ estimate'[d] = estimate[d]
      BY <2>2 DEF TypeOK
    <2> QED BY <1>0, <2>1, <2>3, <2>4
  <1>4. ASSUME NEW c \in Calls, NEW a \in Nat, SettleNext(c, a),
               phase[c] \in {"committing", "releasing"}
        PROVE  WasOn
    <2>1. PICK b : b = BudgetsOf[c][at[c]]
      OBVIOUS
    <2>2. UNCHANGED <<interventions, limit, passes, estimate>>
      BY <1>4 DEF SettleNext, Settle
    <2>3. Pos(a) = a
      BY DEF Pos
    <2>4. spent' = [spent EXCEPT ![b] = spent[b] + a]
      BY <1>4, <2>1, <2>3 DEF SettleNext, Settle
    <2>5. ASSUME NEW y \in Budgets PROVE spent[y] = 0
      <3>1. /\ spent'[y] = 0 /\ spent[y] \in Nat
            /\ spent'[y] \in {spent[y] + a, spent[y]}
        BY <1>0, <2>4 DEF TypeOK
      <3> QED BY <3>1
    <2> QED BY <1>0, <2>2, <2>5
  <1>a. ASSUME NEW c \in Calls,
               Reserve(c) \/ Refuse(c) \/ (\E cost \in Costs : Answer(c, cost)) \/ Fail(c)
        PROVE  UNCHANGED <<interventions, limit, spent, passes, estimate>>
    BY <1>a DEF Reserve, Refuse, Answer, Fail, Unwind
  <1>b. ASSUME NEW c \in Calls, Commit(c) \/ Release(c)
        PROVE  phase[c] \in {"committing", "releasing"} /\ \E a \in Nat : SettleNext(c, a)
    BY <1>b DEF Commit, Release, TypeOK
  <1>6. WasOn
    <2>1. CASE \E c \in Calls, e \in Estimates : Begin(c, e)
      BY <1>3, <2>1
    <2>2. ASSUME NEW c \in Calls, GuardStep(c)
          PROVE  WasOn
      <3>1. CASE Commit(c) \/ Release(c)
        BY <1>4, <1>b, <3>1
      <3>2. CASE ~(Commit(c) \/ Release(c))
        <4>1. UNCHANGED <<interventions, limit, spent, passes, estimate>>
          BY <1>a, <2>2, <3>2 DEF GuardStep
        <4> QED BY <1>2, <4>1
      <3> QED BY <3>1, <3>2
    <2>3. CASE UNCHANGED vars
      BY <1>2, <2>3 DEF vars
    <2>4. ASSUME NEW b \in Budgets,
                 \/ \E cost \in Additions : Add(b, cost)
                 \/ Reset(b)
                 \/ \E l \in Limits : SetLimit(b, l)
          PROVE  FALSE
      BY <1>1, <2>4 DEF Add, Reset, SetLimit
    <2> QED BY <2>1, <2>2, <2>3, <2>4 DEF Next, Finished
  <1>7. /\ interventions = 0 /\ limit' = limit
        /\ \A b \in Budgets : spent[b] = 0
    BY <1>6
  <1>8. \A c \in Calls : passes[c] <= passes'[c] /\ passes'[c] <= 1
    BY <1>0, <1>6
  <1>9. \A c \in Calls : passes'[c] = 1 => FitsAlone(c)'
    BY <1>0
  <1>10. \A c \in Calls : passes[c] = 1 => estimate'[c] = estimate[c]
    BY <1>6
  <1> QED BY <1>7, <1>8, <1>9, <1>10
\* What is reserved in a quiet budget is nothing: someone holds what is reserved.
LEMMA SomeoneHolds ==
    ASSUME Inv, NEW b \in Budgets, reserved[b] > 0
    PROVE  \E h \in Calls : b \in pending[h]
  <1> SUFFICES ASSUME Quiet(b) PROVE FALSE
    BY DEF Quiet
  <1>1. PICK f \in [0..NCalls -> Nat] : Balanced(f, b)
    BY DEF Inv, Accounts
  <1>2. HeldIn(b) \in [Calls -> Nat] /\ \A c \in Calls : HeldIn(b)[c] = 0
    BY AmountTyped DEF Inv, Quiet, HeldIn, Held
  <1>3. f[NCalls] = 0
    BY <1>1, <1>2, NothingHeld DEF Balanced
  <1> QED BY <1>1, <1>3 DEF Balanced, Inv, TypeOK

\* Where a call stands before the budget that its loop is at.
LEMMA BehindTheNext ==
    ASSUME NEW rank, InOrder(rank), PendingMatchesLoop, NEW e \in Calls, phase[e] = "reserving",
           NEW b, b = BudgetsOf[e][at[e]]
    PROVE  /\ b \in Budgets /\ b \notin pending[e]
           /\ \A x \in pending[e] : x \in Budgets /\ rank[x] < rank[b]
  <1>1. at[e] \in 1..Len(BudgetsOf[e]) /\ pending[e] = Slice(e, 1, at[e] - 1)
    BY DEF PendingMatchesLoop, LoopOK
  <1>2. at[e] \in DOMAIN BudgetsOf[e] /\ Len(BudgetsOf[e]) \in Nat
    BY <1>1, NextBudget
  <1>3. \A k \in 1..(at[e] - 1) : k \in DOMAIN BudgetsOf[e] /\ k < at[e]
    BY <1>1, <1>2, BudgetsAssumption
  <1>4. \A k \in 1..(at[e] - 1) : rank[BudgetsOf[e][k]] < rank[b] /\ BudgetsOf[e][k] \in Budgets
    BY <1>2, <1>3, BudgetsAssumption DEF InOrder
  <1>5. \A x \in pending[e] : x \in Budgets /\ rank[x] < rank[b]
    BY <1>1, <1>4 DEF Slice
  <1>6. b \in Budgets /\ b \notin pending[e]
    BY <1>1, NextBudget, SliceIsFresh
  <1> QED BY <1>5, <1>6

\* Whoever keeps a leader's standing leads on.
LEMMA LeaderStays ==
    ASSUME NEW rank, NEW d \in Calls, Leads(d, rank), passes'[d] = 1, outcome'[d] # "refused",
           \/ phase'[d] # "reserving"
           \/ /\ phase[d] = "reserving" /\ pending[d] \subseteq pending'[d]
              /\ \A e \in Calls : outcome'[e] = "refused" =>
                     outcome[e] = "refused" /\ pending'[e] \subseteq pending[e]
    PROVE  Leads(d, rank)'
  <1>1. CASE phase'[d] # "reserving"
    BY <1>1 DEF Leads
  <1>2. CASE /\ phase[d] = "reserving" /\ pending[d] \subseteq pending'[d]
             /\ \A e \in Calls : outcome'[e] = "refused" =>
                    outcome[e] = "refused" /\ pending'[e] \subseteq pending[e]
    <2>1. \A e \in Calls : outcome[e] = "refused" =>
              \A b \in pending[e] : \E x \in pending[d] : rank[b] <= rank[x]
      BY <1>2 DEF Leads, Ahead
    <2>2. \A e \in Calls : outcome'[e] = "refused" =>
              \A b \in pending'[e] : \E x \in pending'[d] : rank[b] <= rank[x]
      BY <1>2, <2>1
    <2> QED BY <2>2 DEF Leads, Ahead
  <1> QED BY <1>1, <1>2

\* When a call is refused in a race, another one leads.
LEMMA RefusedBehind ==
    ASSUME Inv, Begun, NEW rank, InOrder(rank), NEW e \in Calls, Refuse(e),
           Race, (\E c \in Calls : outcome[c] = "refused") => \E d \in Calls : Leads(d, rank)
    PROVE  \E d \in Calls : Leads(d, rank)'
  <1>1. PICK b : b = BudgetsOf[e][at[e]]
    OBVIOUS
  <1>2. phase[e] = "reserving" /\ TypeOK /\ PendingMatchesLoop
    BY DEF Refuse, Inv
  <1>3. /\ b \in Budgets /\ b \notin pending[e]
        /\ \A x \in pending[e] : x \in Budgets /\ rank[x] < rank[b]
    BY <1>1, <1>2, BehindTheNext
  <1>4. \A x \in Budgets : rank[x] \in Int
    BY DEF InOrder
  <1>5. passes' = passes /\ pending' = pending
    BY DEF Refuse, Unwind
  <1>6. /\ outcome' = [outcome EXCEPT ![e] = "refused"]
        /\ \A c \in Calls \ {e} : phase'[c] = phase[c] /\ outcome'[c] = outcome[c]
        /\ outcome'[e] = "refused"
    BY <1>2 DEF Refuse, Unwind, TypeOK
  <1>7. reserved[b] > 0
    <2>1. passes[e] = 1
      BY <1>2 DEF Begun, Race, TypeOK
    <2>2. Amount(e) <= limit[b]
      <3>1. FitsAlone(e)
        BY <2>1 DEF Race
      <3>2. at[e] \in DOMAIN BudgetsOf[e]
        BY <1>2, NextBudget DEF PendingMatchesLoop, LoopOK
      <3> QED BY <1>1, <3>1, <3>2 DEF FitsAlone
    <2>3. ~(spent[b] + reserved[b] + Amount(e) <= limit[b])
      BY <1>1 DEF Refuse, Fits
    <2>4. spent[b] = 0 /\ reserved[b] \in Nat /\ limit[b] \in Nat /\ Amount(e) \in Nat
      BY <1>2, <1>3, AmountTyped DEF Race, TypeOK
    <2> QED BY <2>2, <2>3, <2>4
  <1>8. PICK h \in Calls : b \in pending[h]
    BY <1>3, <1>7, SomeoneHolds
  <1>9. h # e
    BY <1>3, <1>8
  <1>10. \A c \in Calls : pending[c] \subseteq Budgets
    BY <1>2 DEF TypeOK
  <1>11. ASSUME NEW d \in Calls, d # e, Leads(d, rank), phase[d] # "reserving"
         PROVE  Leads(d, rank)'
    BY <1>5, <1>6, <1>11 DEF Leads
  <1>12. ASSUME NEW d \in Calls, d # e, passes[d] = 1, outcome[d] # "refused", Ahead(d, rank),
                NEW x \in pending[d], rank[b] <= rank[x]
         PROVE  Leads(d, rank)'
    <2>1. \A c \in Calls : outcome[c] = "refused" =>
              \A y \in pending[c] : \E z \in pending[d] : rank[y] <= rank[z]
      BY <1>12 DEF Ahead
    <2>2. ASSUME NEW c \in Calls, outcome'[c] = "refused", NEW y \in pending'[c]
          PROVE  \E z \in pending'[d] : rank[y] <= rank[z]
      <3>1. CASE c = e
        <4>1. rank[y] < rank[b] /\ rank[y] \in Int /\ rank[b] \in Int /\ rank[x] \in Int
          BY <1>3, <1>4, <1>5, <1>10, <2>2, <3>1, <1>12
        <4>2. rank[y] <= rank[x]
          BY <4>1, <1>12
        <4> QED BY <4>2, <1>5, <1>12
      <3>2. CASE c # e
        BY <1>5, <1>6, <2>1, <2>2, <3>2
      <3> QED BY <3>1, <3>2
    <2>3. passes'[d] = 1 /\ outcome'[d] # "refused"
      BY <1>5, <1>6, <1>12
    <2> QED BY <2>2, <2>3 DEF Leads, Ahead
  <1>13. passes[h] = 1
    <2>1. phase[h] # "idle"
      BY <1>2, <1>8 DEF PendingMatchesLoop, LoopOK
    <2> QED BY <1>2, <2>1 DEF Begun, Race, TypeOK
  <1>14. CASE outcome[h] = "refused"
    <2>1. PICK d \in Calls : Leads(d, rank)
      BY <1>14
    <2>2. CASE phase[d] # "reserving"
      BY <1>2, <1>11, <2>1, <2>2
    <2>3. CASE phase[d] = "reserving"
      <3>1. Ahead(d, rank) /\ passes[d] = 1 /\ outcome[d] # "refused"
        BY <2>1, <2>3 DEF Leads
      <3>2. PICK x \in pending[d] : rank[b] <= rank[x]
        BY <1>8, <1>14, <3>1 DEF Ahead
      <3>3. d # e
        <4>1. rank[b] \in Int /\ rank[x] \in Int
          BY <1>3, <1>4, <1>10
        <4> QED BY <1>3, <3>2, <4>1
      <3> QED BY <1>12, <3>1, <3>2, <3>3
    <2> QED BY <2>2, <2>3
  <1>15. CASE outcome[h] # "refused" /\ phase[h] # "reserving"
    <2>1. Leads(h, rank)
      BY <1>13, <1>15 DEF Leads
    <2> QED BY <1>9, <1>11, <1>15, <2>1
  <1>16. CASE outcome[h] # "refused" /\ phase[h] = "reserving"
    <2>1. rank[b] <= rank[b]
      BY <1>3, <1>4
    <2>2. CASE Ahead(h, rank)
      BY <1>8, <1>9, <1>12, <1>13, <1>16, <2>1, <2>2
    <2>3. CASE ~Ahead(h, rank)
      <3>0. PICK c \in Calls : outcome[c] = "refused" /\
                \E y \in pending[c] : \A x \in pending[h] : ~(rank[y] <= rank[x])
        BY <2>3 DEF Ahead
      <3>1. PICK y \in pending[c] : outcome[c] = "refused" /\
                \A x \in pending[h] : ~(rank[y] <= rank[x])
        BY <3>0
      <3>2. PICK d \in Calls : Leads(d, rank)
        BY <3>1
      <3>3. CASE phase[d] # "reserving"
        BY <1>2, <1>11, <3>2, <3>3
      <3>4. CASE phase[d] = "reserving"
        <4>1. Ahead(d, rank) /\ passes[d] = 1 /\ outcome[d] # "refused"
          BY <3>2, <3>4 DEF Leads
        <4>2. PICK x \in pending[d] : rank[y] <= rank[x]
          BY <3>1, <4>1 DEF Ahead
        <4>3. ~(rank[y] <= rank[b]) /\ rank[y] \in Int /\ rank[b] \in Int /\ rank[x] \in Int
          BY <1>3, <1>4, <1>8, <1>10, <3>1
        <4>4. rank[b] < rank[x]
          BY <4>2, <4>3
        <4>5. d # e
          BY <1>3, <4>3, <4>4
        <4>6. rank[b] <= rank[x]
          BY <4>3, <4>4
        <4> QED BY <1>12, <4>1, <4>5, <4>6
      <3> QED BY <3>3, <3>4
    <2> QED BY <2>2, <2>3
  <1> QED BY <1>14, <1>15, <1>16

\* A step of a race in which no budget refuses leaves the leader in the lead.
LEMMA LeadStep ==
    ASSUME Inv, Begun, NEW rank, InOrder(rank), SomeoneLeads(rank), [Next]_vars
    PROVE  SomeoneLeads(rank)'
  <1> USE DEF guard, history
  <1> SUFFICES ASSUME Race', \E e \in Calls : outcome'[e] = "refused"
               PROVE  \E d \in Calls : Leads(d, rank)'
    BY DEF SomeoneLeads
  <1>1. TypeOK /\ PendingMatchesLoop
    BY DEF Inv
  <1>2. /\ interventions = 0 /\ limit' = limit
        /\ \A b \in Budgets : spent[b] = 0
        /\ \A c \in Calls : passes[c] <= passes'[c] /\ passes'[c] <= 1
        /\ \A c \in Calls : passes'[c] = 1 => FitsAlone(c)'
        /\ \A c \in Calls : passes[c] = 1 => estimate'[c] = estimate[c]
    BY <1>1, RaceWasOn
  <1>3. \A c \in Calls : passes[c] \in Nat /\ passes'[c] \in Int
    <2>1. passes' \in [Calls -> Nat]
      BY TypeStep DEF Inv, TypeOK
    <2> QED BY <1>1, <2>1 DEF TypeOK
  <1>4. Race
    <2>1. ASSUME NEW c \in Calls PROVE passes[c] <= 1 /\ (passes[c] = 1 => FitsAlone(c))
      <3>1. passes[c] <= 1
        BY <1>2, <1>3
      <3>2. ASSUME passes[c] = 1 PROVE FitsAlone(c)
        <4>1. passes'[c] = 1 /\ estimate'[c] = estimate[c]
          BY <1>2, <1>3, <3>2
        <4>2. FitsAlone(c)' /\ Amount(c)' = Amount(c)
          BY <1>2, <4>1 DEF Amount
        <4> QED BY <1>2, <4>2 DEF FitsAlone
      <3> QED BY <3>1, <3>2
    <2> QED BY <1>2, <2>1 DEF Race
  <1>5. ASSUME NEW d \in Calls, Leads(d, rank)
        PROVE  passes'[d] = 1
    <2>1. passes[d] = 1
      BY <1>5 DEF Leads
    <2> QED BY <1>2, <1>3, <2>1
  <1>6. (\E c \in Calls : outcome[c] = "refused") => \E d \in Calls : Leads(d, rank)
    BY <1>4 DEF SomeoneLeads
  <1>7. ASSUME NEW c \in Calls, NEW e \in Estimates, Begin(c, e)
        PROVE  \E d \in Calls : Leads(d, rank)'
    <2>1. passes' = [passes EXCEPT ![c] = passes[c] + 1] /\ estimate'[c] = e /\ pending' = pending
      BY <1>1, <1>7 DEF Begin, TypeOK
    <2>2. passes'[c] = 1
      BY <1>1, <1>2, <1>3, <2>1 DEF TypeOK
    <2>3. FitsAlone(c)' /\ Amount(c)' = OrZero(e)
      BY <1>2, <2>1, <2>2 DEF Amount
    <2>4. ~(MaxCost[c] # None /\ e # None /\ e > MaxCost[c])
      <3>1. MaxCost[c] # None /\ e # None => e <= MaxCost[c] /\ e \in Nat /\ MaxCost[c] \in Nat
        BY <2>3, AmountsAssumption DEF FitsAlone, OrZero
      <3> QED BY <3>1
    <2>5. outcome' = [outcome EXCEPT ![c] = "none"]
      BY <1>7, <2>4 DEF Begin
    <2>6. \A d \in Calls : outcome'[d] = "refused" => d # c /\ outcome[d] = "refused"
      BY <1>1, <2>5 DEF TypeOK
    <2>7. PICK d \in Calls : Leads(d, rank)
      BY <1>6, <2>6
    <2>8. d # c
      <3>1. passes[d] = 1 /\ passes'[d] = 1
        BY <1>5, <2>7 DEF Leads
      <3> QED BY <2>1, <3>1, <1>1 DEF TypeOK
    <2>9. phase'[d] = phase[d] /\ outcome'[d] = outcome[d]
      BY <1>1, <1>7, <2>8 DEF Begin, TypeOK
    <2>10. outcome'[d] # "refused" /\ passes'[d] = 1
      BY <1>5, <2>7, <2>9 DEF Leads
    <2> QED BY <2>1, <2>6, <2>7, <2>9, <2>10, LeaderStays
  <1>8. ASSUME NEW c \in Calls, Reserve(c)
        PROVE  \E d \in Calls : Leads(d, rank)'
    <2>1. /\ outcome' = outcome /\ phase[c] = "reserving"
          /\ \A d \in Calls \ {c} : phase'[d] = phase[d]
          /\ \A d \in Calls \ {c} : pending'[d] = pending[d]
          /\ pending[c] \subseteq pending'[c]
      BY <1>1, <1>8 DEF Reserve, TypeOK
    <2>2. PICK d \in Calls : Leads(d, rank)
      BY <1>6, <2>1
    <2>3. passes'[d] = 1 /\ outcome'[d] # "refused"
      BY <1>5, <2>1, <2>2 DEF Leads
    <2>4. outcome[c] # "refused"
      BY <2>1 DEF Begun
    <2>5. \A e \in Calls : outcome'[e] = "refused" =>
             outcome[e] = "refused" /\ pending'[e] \subseteq pending[e]
      BY <2>1, <2>4
    <2>6. pending[d] \subseteq pending'[d] /\ (phase'[d] = "reserving" => phase[d] = "reserving")
      BY <2>1
    <2> QED BY <2>2, <2>3, <2>5, <2>6, LeaderStays
  <1>9. ASSUME NEW c \in Calls, Refuse(c)
        PROVE  \E d \in Calls : Leads(d, rank)'
    BY <1>4, <1>6, <1>9, RefusedBehind
  <1>10. ASSUME NEW c \in Calls, (\E cost \in Costs : Answer(c, cost)) \/ Fail(c)
         PROVE  \E d \in Calls : Leads(d, rank)'
    <2>1. /\ pending' = pending /\ outcome'[c] \in {"answered", "failed"}
          /\ phase'[c] \in {"idle", "committing", "releasing"}
          /\ \A d \in Calls \ {c} : phase'[d] = phase[d] /\ outcome'[d] = outcome[d]
      BY <1>1, <1>10 DEF Answer, Fail, Unwind, Unwound, TypeOK
    <2>2. PICK d \in Calls : Leads(d, rank)
      BY <1>6, <2>1
    <2>3. passes'[d] = 1 /\ outcome'[d] # "refused"
      BY <1>5, <2>1, <2>2 DEF Leads
    <2>4. \A e \in Calls : outcome'[e] = "refused" =>
             outcome[e] = "refused" /\ pending'[e] \subseteq pending[e]
      BY <2>1
    <2>5. pending[d] \subseteq pending'[d] /\ (phase'[d] = "reserving" => phase[d] = "reserving")
      BY <2>1
    <2> QED BY <2>2, <2>3, <2>4, <2>5, LeaderStays
  <1>11. ASSUME NEW c \in Calls, Commit(c) \/ Release(c)
         PROVE  \E d \in Calls : Leads(d, rank)'
    <2>1. /\ outcome' = outcome /\ phase[c] \in {"committing", "releasing"}
          /\ phase'[c] \in {"idle", "committing", "releasing"}
          /\ \A d \in Calls \ {c} : phase'[d] = phase[d] /\ pending'[d] = pending[d]
          /\ pending'[c] \subseteq pending[c]
      BY <1>1, <1>11 DEF Commit, Release, SettleNext, TypeOK
    <2>2. PICK d \in Calls : Leads(d, rank)
      BY <1>6, <2>1
    <2>3. passes'[d] = 1 /\ outcome'[d] # "refused"
      BY <1>5, <2>1, <2>2 DEF Leads
    <2>4. \A e \in Calls : outcome'[e] = "refused" =>
             outcome[e] = "refused" /\ pending'[e] \subseteq pending[e]
      BY <2>1
    <2>5. phase'[d] # "reserving" \/ (phase[d] = "reserving" /\ pending[d] \subseteq pending'[d])
      BY <2>1
    <2> QED BY <2>2, <2>3, <2>4, <2>5, LeaderStays
  <1>12. ASSUME UNCHANGED guard
         PROVE  \E d \in Calls : Leads(d, rank)'
    <2>1. outcome' = outcome /\ pending' = pending /\ phase' = phase
      BY <1>12
    <2>2. PICK d \in Calls : Leads(d, rank)
      BY <1>6, <2>1
    <2>3. passes'[d] = 1 /\ outcome'[d] # "refused"
      BY <1>5, <2>1, <2>2 DEF Leads
    <2> QED BY <2>1, <2>2, <2>3, LeaderStays
  <1>13. CASE UNCHANGED vars
    BY <1>12, <1>13 DEF vars
  <1> QED
    BY <1>7, <1>8, <1>9, <1>10, <1>11, <1>12, <1>13
    DEF Next, GuardStep, Finished, Add, Reset, SetLimit, Intervene

\* Racing first passes that would each fit alone are not all refused, when all calls
\* reserve their shared budgets in one order.
THEOREM RaceHasAWinner ==
    ASSUME NCalls > 0, NEW rank, InOrder(rank)
    PROVE  Spec => []SomeoneWins
  <1>1. Init => Begun /\ SomeoneLeads(rank)
    BY DEF Init, Begun, SomeoneLeads
  <1>2. Inv /\ Begun /\ SomeoneLeads(rank) /\ [Next]_vars => Begun' /\ SomeoneLeads(rank)'
    BY BegunStep, LeadStep DEF Inv
  <1>3. Inv /\ SomeoneLeads(rank) => SomeoneWins
    <2> SUFFICES ASSUME Inv, SomeoneLeads(rank), interventions = 0,
                        \A b \in Budgets : spent[b] = 0,
                        \A c \in Calls : passes[c] = 1 /\ FitsAlone(c)
                 PROVE  \E c \in Calls : phase[c] # "idle" \/ outcome[c] # "refused"
      BY DEF SomeoneWins
    <2>1. Race
      BY DEF Race
    <2>2. 1 \in Calls
      BY CallsAssumption DEF Calls
    <2>3. CASE outcome[1] = "refused"
      <3>1. PICK d \in Calls : Leads(d, rank)
        BY <2>1, <2>2, <2>3 DEF SomeoneLeads
      <3> QED BY <3>1 DEF Leads
    <2> QED BY <2>2, <2>3
  <1> QED BY <1>1, <1>2, <1>3, Invariance, PTL DEF Spec
=============================================================================
