--------------------------- MODULE PipelineProofs ---------------------------
(***************************************************************************)
(* Proofs about Pipeline, for any configurations, exceptions and costs.    *)
(***************************************************************************)
EXTENDS Pipeline, WellFoundedInduction, TLAPS

-----------------------------------------------------------------------------
(* Induction over the natural numbers, in terms of sets and functions. *)

\* A set that has 0, and with every number the next, has all natural numbers.
LEMMA SetInduction ==
    ASSUME NEW S, 0 \in S, \A n \in Nat : n \in S => n + 1 \in S
    PROVE  Nat \subseteq S
<1> DEFINE T == Nat \ S
<1> SUFFICES ASSUME T # {} PROVE FALSE
    OBVIOUS
<1>1. PICK x \in T : \A y \in T : ~(<<y, x>> \in OpToRel(<, Nat))
    BY WFMin, NatLessThanWellFounded
<1>2. x # 0 /\ x - 1 \in Nat
    OBVIOUS
<1>3. x - 1 \in T
    OBVIOUS
<1>4. <<x - 1, x>> \in OpToRel(<, Nat)
    BY <1>2 DEF OpToRel
<1> QED BY <1>1, <1>3, <1>4

\* step[n] leads from a value of T to the next one.
StepsWithin(N, T, step) == \A n \in 1..N : \A x \in T : step[n][x] \in T

\* f is given on 0..N by its value at 0 and by the step from one value to the next.
FollowsSteps(f, N, base, step) ==
    f[0] = base /\ \A n \in 1..N : f[n] = step[n][f[n - 1]]

\* Some function follows the steps.
LEMMA StepsDefineAFunction ==
    ASSUME NEW N \in Nat, NEW T, NEW base \in T, NEW step,
           StepsWithin(N, T, step)
    PROVE  \E f \in [0..N -> T] : FollowsSteps(f, N, base, step)
<1> USE DEF StepsWithin, FollowsSteps
<1> DEFINE Goes(n, f) == FollowsSteps(f, n, base, step)
           S == {n \in Nat : n <= N => \E f \in [0..n -> T] : Goes(n, f)}
<1>1. 0 \in S
  <2> DEFINE g == [i \in 0..0 |-> base]
  <2>1. g \in [0..0 -> T] /\ Goes(0, g)
    OBVIOUS
  <2> QED BY <2>1
<1>2. ASSUME NEW n \in Nat, n \in S
      PROVE  n + 1 \in S
  <2>1. SUFFICES ASSUME n + 1 <= N
                 PROVE  \E f \in [0..(n + 1) -> T] : Goes(n + 1, f)
    BY DEF S
  <2>2. PICK f \in [0..n -> T] : Goes(n, f)
    BY <1>2, <2>1 DEF S
  <2> HIDE DEF S
  <2>3. n + 1 \in 1..N
    BY <2>1
  <2>4. f[n] \in T
    OBVIOUS
  <2>5. step[n + 1][f[n]] \in T
    BY <2>3, <2>4
  <2> DEFINE last == step[n + 1][f[n]]
             g == [i \in 0..(n + 1) |-> IF i = n + 1 THEN last ELSE f[i]]
  <2> HIDE DEF last
  <2>6. g \in [0..(n + 1) -> T]
    BY <2>5 DEF last
  <2>7. g[n + 1] = last /\ \A i \in 0..n : g[i] = f[i]
    OBVIOUS
  <2> HIDE DEF g
  <2>8. g[0] = base
    BY <2>2, <2>7
  <2>9. ASSUME NEW i \in 1..(n + 1)
        PROVE  g[i] = step[i][g[i - 1]]
    <3>1. CASE i = n + 1
      <4>1. g[i - 1] = f[n] /\ g[i] = last
        BY <3>1, <2>7
      <4> QED BY <4>1, <3>1 DEF last
    <3>2. CASE i # n + 1
      <4>1. i \in 1..n /\ i \in 0..n /\ i - 1 \in 0..n
        BY <3>2
      <4>2. g[i - 1] = f[i - 1] /\ g[i] = f[i]
        BY <4>1, <2>7
      <4> QED BY <4>1, <4>2, <2>2
    <3> QED BY <3>1, <3>2
  <2> QED BY <2>6, <2>8, <2>9
<1>3. N \in S
  <2> HIDE DEF S
  <2> QED BY <1>1, <1>2, SetInduction
<1> QED BY <1>3

\* The chain of targets starts with the primary, which comes up nowhere else in it,
\* whatever the fallback list holds.
LEMMA PrimaryComesFirst ==
    ASSUME NEW fallback \in Seq(Models)
    PROVE  /\ ChainOf(fallback) \in Seq(Models)
           /\ Len(ChainOf(fallback)) \in Nat \ {0}
           /\ ChainOf(fallback)[1] = Primary
           /\ \A i \in 2..Len(ChainOf(fallback)) : ChainOf(fallback)[i] # Primary
<1> DEFINE N == Len(fallback)
           T == {s \in Seq(Models) :
                   /\ Len(s) # 0
                   /\ s[1] = Primary
                   /\ \A i \in 2..Len(s) : s[i] # Primary}
           With(n, s) == IF fallback[n] = Primary THEN s ELSE Append(s, fallback[n])
           base == <<Primary>>
           step == [n \in 1..N |-> [s \in T |-> With(n, s)]]
           Body(f) == [n \in 0..N |-> IF n = 0 THEN base ELSE With(n, f[n - 1])]
           chain == CHOOSE f : f = Body(f)
<1>1. N \in Nat
  OBVIOUS
<1>2. base \in T
  BY PipelineAssumption
<1>3. ASSUME NEW n \in 1..N, NEW s \in T
      PROVE  With(n, s) \in T
  <2>1. CASE fallback[n] # Primary
    <3>1. fallback[n] \in Models
      OBVIOUS
    <3>2. Append(s, fallback[n]) \in Seq(Models)
      BY <3>1
    <3>3. Append(s, fallback[n])[1] = s[1] /\ Len(Append(s, fallback[n])) = Len(s) + 1
      BY <3>1
    <3>4. \A i \in 2..(Len(s) + 1) : Append(s, fallback[n])[i] # Primary
      BY <3>1, <2>1
    <3>5. Len(s) + 1 # 0 /\ s[1] = Primary
      OBVIOUS
    <3>6. Append(s, fallback[n]) \in T
      BY <3>2, <3>3, <3>4, <3>5
    <3> QED BY <2>1, <3>6
  <2> QED BY <2>1
<1>4. StepsWithin(N, T, step)
  BY <1>3 DEF StepsWithin
<1> HIDE DEF T, base
<1>5. PICK f \in [0..N -> T] : FollowsSteps(f, N, base, step)
  <2> HIDE DEF step, N
  <2> QED BY <1>1, <1>2, <1>4, StepsDefineAFunction
<1>6. f = Body(f)
  <2>1. ASSUME NEW n \in 1..N
        PROVE  step[n][f[n - 1]] = With(n, f[n - 1])
    <3>1. f[n - 1] \in T
      OBVIOUS
    <3> QED BY <3>1
  <2> HIDE DEF N, With, step
  <2>2. f[0] = base /\ \A n \in 1..N : f[n] = With(n, f[n - 1])
    BY <1>5, <2>1 DEF FollowsSteps
  <2>3. \A n \in 0..N : f[n] = IF n = 0 THEN base ELSE With(n, f[n - 1])
    BY <1>1, <2>2
  <2> QED BY <2>3
<1>7. chain = Body(chain)
  BY <1>6
<1> HIDE DEF chain
<1>. /\ chain[0] = base
     /\ \A n \in 1..N : chain[n] = With(n, chain[n - 1])
  <2> DEFINE value(n) == IF n = 0 THEN base ELSE With(n, chain[n - 1])
  <2> HIDE DEF N
  <2>1. \A n \in 0..N : chain[n] = value(n)
    BY <1>7
  <2> QED BY <1>1, <2>1
<1>8. chain \in [0..N -> T]
  <2>1. \A n \in Nat : n \in 0..N => chain[n] \in T
    <3> DEFINE S == {n \in Nat : n \in 0..N => chain[n] \in T}
    <3>1. 0 \in S
      BY <1>2, <1>7
    <3>2. ASSUME NEW n \in Nat, n \in S
          PROVE  n + 1 \in S
      <4>1. SUFFICES ASSUME n + 1 \in 0..N
                     PROVE  chain[n + 1] \in T
        OBVIOUS
      <4>2. chain[n] \in T /\ n + 1 \in 1..N
        BY <3>2, <4>1
      <4>3. chain[n + 1] = With(n + 1, chain[n])
        BY <4>2
      <4> QED BY <1>3, <4>2, <4>3
    <3> HIDE DEF S
    <3>3. Nat \subseteq S
      BY <3>1, <3>2, SetInduction
    <3> QED BY <3>3 DEF S
  <2> QED BY <1>7, <2>1
<1>9. ChainOf(fallback) = chain[N]
  BY DEF ChainOf, chain, base
<1>10. chain[N] \in T
  BY <1>1, <1>8
<1> QED BY <1>9, <1>10 DEF T
-----------------------------------------------------------------------------
(* The inductive invariant. *)

\* The exceptions that travel through the layers.
Exceptions ==
    Errors \union {BudgetExceeded, OutputInvalid, NotAvailable, AllFailed, Cancelled}

Records ==
    [status : {"ok", "cancelled", "error"}, retries : Nat, validation_retries : Nat,
     fallback_from : {None, Primary}, cost : Nat \union {None}, target : Models]

Responses == [target : Models, cost : Nat \union {None}, valid : BOOLEAN]

Failures == Models \X Exceptions

GoingUp     == {"guard_return", "fallback_return", "validator_return"}
Raising     == {"retry_except", "guard_except", "fallback_except", "validator_except",
                "telemetry_except"}
AtTelemetry == {"telemetry_return", "telemetry_except", "done"}
InTarget    == {"guard", "send", "sleep", "retry_except", "guard_except",
                "fallback_except"} \union GoingUp

\* What record, exc, response and failures hold: exc while an exception is on its
\* way up, response while an answer is.
Shapes ==
    /\ record \in Records
    /\ failures \in Seq(Failures)
    /\ pc \in Raising => exc \in Exceptions
    /\ pc \in GoingUp \union {"telemetry_return"} => response \in Responses
    /\ pc \notin AtTelemetry => record.status = "ok"

\* Where the chain stands: one failure for each target that is behind it.
ChainPosition ==
    /\ ~HasChain => index = 1
    /\ pc = "pick" => HasChain /\ index <= Len(Targets)
    /\ pc \in InTarget => index <= Len(Targets) /\ target = Targets[index]
    /\ pc \in GoingUp \union {"telemetry_return"} => response.target = target
    /\ Len(failures) = index - 1
    /\ \A i \in 1..Len(failures) : failures[i][1] = Targets[i]
    /\ exc = AllFailed =>
          /\ index = Len(Targets) + 1
          /\ pc \in {"validator_except", "telemetry_except", "done"}
    /\ exc = OutputInvalid => pc \in {"telemetry_except", "done"}

\* Validation attempts and retries stay in their loops.
LoopsBounded ==
    /\ attempt <= config.validation_retries
    /\ tries <= config.max_retries
    /\ ~Validates => attempt = 0
    /\ record.validation_retries = attempt

\* What budgets and telemetry have seen of what the answers cost: an answer on its
\* way up is not charged before the guard, nor summed before the validator.
CostsFollow ==
    /\ charges = spent + (IF pc = "guard_return" THEN ChargeOf(response.cost) ELSE 0)
    /\ pc \in {"validator", "pick", "guard", "fallback_except", "validator_except"}
          \union GoingUp \union AtTelemetry => pc = "guard_return" \/ reserved = 0
    /\ pc \in AtTelemetry => request = 0
    /\ pc \in GoingUp => bill = PlusCost(total, response.cost)
    /\ pc = "telemetry_return" => response.cost = bill
    /\ pc \notin GoingUp \union AtTelemetry => total = bill
    /\ pc \notin AtTelemetry /\ attempt = 0 => total = 0
    /\ pc \in AtTelemetry /\ exc = OutputInvalid => record.cost = bill

\* fallback_from is left over from an earlier validation attempt until the chain has
\* answered again.
FallbackNoted ==
    /\ pc \in {"validator_return", "telemetry_return"} =>
          /\ target # Primary => record.fallback_from = Primary
          /\ record.fallback_from # None => target # Primary \/ attempt > 0
    /\ pc \notin {"validator_return"} \union AtTelemetry =>
          (record.fallback_from # None => attempt > 0)

\* An exception that is no provider's keeps going up.
PolicyErrorGoesUp ==
    (\E e \in seen : e.kind # "provider") =>
        pc = "done" \/ (pc \in Raising /\ exc.kind # "provider")

\* What one target may be sent; what the call may have been sent before this validation
\* attempt, before this target, and after this attempt.
Tries   == config.max_retries + 1
Earlier == (attempt * Len(Targets)) * Tries
Behind  == (attempt * Len(Targets) + (index - 1)) * Tries
Through == ((attempt + 1) * Len(Targets)) * Tries

\* The three loops as one count.
RequestsCounted ==
    /\ pc = "validator" => requests <= Earlier
    /\ pc \in {"pick", "guard"} => requests <= Behind
    /\ pc \in {"send", "sleep"} => requests <= Behind + tries
    /\ pc = "retry_except" => requests <= Behind + tries + 1
    /\ pc \in {"guard_except", "fallback_except"} \union GoingUp =>
          requests <= Behind + Tries
    /\ pc \in {"validator_except"} \union AtTelemetry => requests <= Through

Inv ==
    /\ TypeOK /\ Shapes /\ ChainPosition /\ LoopsBounded /\ CostsFollow
    /\ FallbackNoted /\ PolicyErrorGoesUp /\ RequestsCounted /\ RecordTells
-----------------------------------------------------------------------------
(* What every step leaves as it is, and what is known of the chain. *)

\* No layer changes the configuration, hence none the chain of targets.
LEMMA ConfigStays ==
    ASSUME [Next]_vars
    PROVE  /\ config' = config
           /\ Targets' = Targets
           /\ HasChain' = HasChain
           /\ Validates' = Validates
           /\ Tries' = Tries
<1>1. config' = config
  BY DEF Next, vars, EnterFallback, Pick, Admit, Refuse, Answer, SendFails, Retry, Wake,
         CancelSleep, GuardReleases, GuardCommits, FallbackCatches, FallbackReturns,
         Accept, Reask, GiveUp, ValidatorUnwinds, RecordAnswer, RecordError, Done
<1>2. Targets' = Targets
  BY <1>1 DEF Targets
<1> QED BY <1>1, <1>2 DEF HasChain, Validates, Tries

\* The chain of a configuration the program accepts.
LEMMA TargetsFacts ==
    ASSUME config \in Configs
    PROVE  /\ Targets \in Seq(Models)
           /\ Len(Targets) \in Nat \ {0}
           /\ Targets[1] = Primary
           /\ \A i \in 1..Len(Targets) : Targets[i] \in Models
           /\ \A i \in 2..Len(Targets) : Targets[i] # Primary
           /\ config.max_retries \in Nat
           /\ config.validation_retries \in Nat
           /\ HasChain => Len(Targets) > 1
<1>1. config.fallback \in Seq(Models) /\ {config.max_retries, config.validation_retries} \subseteq Nat
  BY PipelineAssumption
<1> QED BY <1>1, PrimaryComesFirst DEF Targets, HasChain

-----------------------------------------------------------------------------
(* Each part of the invariant is preserved. *)

\* The types are preserved.
LEMMA TypesStay ==
    ASSUME TypeOK, Shapes, ChainPosition, [Next]_vars
    PROVE  TypeOK'
<1>0. config' = config /\ Targets' = Targets /\ Len(Targets) \in Nat \ {0} /\ Targets[1] = Primary
  BY ConfigStays, TargetsFacts DEF TypeOK
<1> USE <1>0
<1>1. CASE EnterFallback
  BY <1>1, PipelineAssumption DEF EnterFallback, TypeOK, layers, history
<1>2. CASE Pick
  BY <1>2 DEF Pick, NextTarget, Raise, ChainPosition, TypeOK, layers, history
<1>3. CASE Admit
  BY <1>3, PipelineAssumption DEF Admit, TypeOK, layers, history
<1>4. CASE Refuse
  BY <1>4 DEF Refuse, Raise, TypeOK, layers, history
<1>5. ASSUME NEW cost \in Costs, NEW valid \in BOOLEAN, Answer(cost, valid)
      PROVE  TypeOK'
  BY <1>5, PipelineAssumption DEF Answer, ChargeOf, PlusCost, TypeOK, layers, history
<1>6. ASSUME NEW e \in Errors, SendFails(e)
      PROVE  TypeOK'
  BY <1>6 DEF SendFails, Raise, TypeOK, layers, history
<1>7. CASE Retry
  BY <1>7 DEF Retry, TypeOK, layers, history
<1>8. CASE Wake
  BY <1>8 DEF Wake, TypeOK, layers, history
<1>9. CASE CancelSleep
  BY <1>9 DEF CancelSleep, Raise, TypeOK, layers, history
<1>10. CASE GuardReleases
  BY <1>10 DEF GuardReleases, TypeOK, layers, history
<1>11. CASE GuardCommits
  BY <1>11, PipelineAssumption DEF GuardCommits, ReservedAfter, ChargeOf, Shapes,
         Responses, GoingUp, TypeOK, layers, history
<1>12. CASE FallbackCatches
  BY <1>12 DEF FallbackCatches, NextTarget, Raise, ChainPosition, InTarget, TypeOK,
         layers, history
<1>13. CASE FallbackReturns
  BY <1>13 DEF FallbackReturns, TypeOK, layers, history
<1>14. CASE Accept
  BY <1>14 DEF Accept, PlusCost, Shapes, Responses, GoingUp, TypeOK, layers, history
<1>15. CASE Reask
  BY <1>15, SMTT(60) DEF Reask, PlusCost, Shapes, Responses, GoingUp, TypeOK, layers,
         history
<1>16. CASE GiveUp
  BY <1>16 DEF GiveUp, PlusCost, Raise, Shapes, Responses, GoingUp, TypeOK, layers,
         history
<1>17. CASE ValidatorUnwinds
  BY <1>17 DEF ValidatorUnwinds, TypeOK, layers, history
<1>18. CASE RecordAnswer
  BY <1>18 DEF RecordAnswer, TypeOK, layers, history
<1>19. CASE RecordError
  BY <1>19 DEF RecordError, TypeOK, layers, history
<1>20. CASE UNCHANGED vars
  BY <1>20 DEF vars, TypeOK, layers, history
<1> QED BY <1>1, <1>2, <1>3, <1>4, <1>5, <1>6, <1>7, <1>8, <1>9, <1>10, <1>11, <1>12,
        <1>13, <1>14, <1>15, <1>16, <1>17, <1>18, <1>19, <1>20 DEF Next, Done

\* So are the shapes of what travels.
LEMMA ShapesStay ==
    ASSUME TypeOK, Shapes, ChainPosition, [Next]_vars
    PROVE  Shapes'
<1>0. /\ config' = config /\ Targets' = Targets /\ Len(Targets) \in Nat \ {0}
      /\ \A i \in 1..Len(Targets) : Targets[i] \in Models
  BY ConfigStays, TargetsFacts DEF TypeOK
<1> USE <1>0
<1>1. CASE EnterFallback
  BY <1>1 DEF EnterFallback, TypeOK, Shapes, layers, history, Raising, GoingUp,
         AtTelemetry
<1>2. CASE Pick
  <2>1. <<Targets[index], NotAvailable>> \in Failures
    BY <1>2 DEF Failures, ChainPosition, Exceptions, TypeOK, Pick
  <2>2. Append(failures, <<Targets[index], NotAvailable>>) \in Seq(Failures)
    BY <2>1 DEF Shapes
  <2>3. failures' \in Seq(Failures)
    BY <1>2, <2>2 DEF Pick, NextTarget, Shapes
  <2> QED
    BY <1>2, <2>3 DEF Pick, NextTarget, Raise, Exceptions, Shapes, Raising, GoingUp,
       AtTelemetry
<1>3. CASE Admit
  BY <1>3, PipelineAssumption DEF Admit, TypeOK, Shapes, layers, history, Raising,
         GoingUp, AtTelemetry
<1>4. CASE Refuse
  BY <1>4 DEF Refuse, Raise, Exceptions, TypeOK, Shapes, layers, history, Raising,
         GoingUp, AtTelemetry
<1>5. ASSUME NEW cost \in Costs, NEW valid \in BOOLEAN, Answer(cost, valid)
      PROVE  Shapes'
  BY <1>5, PipelineAssumption DEF Answer, ChainPosition, InTarget, Responses, TypeOK,
         Shapes, layers, history, Raising, GoingUp, AtTelemetry
<1>6. ASSUME NEW e \in Errors, SendFails(e)
      PROVE  Shapes'
  BY <1>6 DEF SendFails, Raise, Exceptions, TypeOK, Shapes, layers, history, Raising,
         GoingUp, AtTelemetry
<1>7. CASE Retry
  <2>1. record' \in Records /\ record'.status = record.status
    BY <1>7 DEF Retry, Shapes, Records
  <2> QED
    BY <1>7, <2>1 DEF Retry, Shapes, Raising, GoingUp, AtTelemetry, layers
<1>8. CASE Wake
  BY <1>8 DEF Wake, TypeOK, Shapes, layers, history, Raising, GoingUp, AtTelemetry
<1>9. CASE CancelSleep
  BY <1>9 DEF CancelSleep, Raise, Exceptions, TypeOK, Shapes, layers, history,
         Raising, GoingUp, AtTelemetry
<1>10. CASE GuardReleases
  BY <1>10 DEF GuardReleases, TypeOK, Shapes, layers, history, Raising, GoingUp,
         AtTelemetry
<1>11. CASE GuardCommits
  BY <1>11 DEF GuardCommits, TypeOK, Shapes, layers, history, Raising, GoingUp,
         AtTelemetry
<1>12. CASE FallbackCatches
  <2>1. <<Targets[index], exc>> \in Failures
    BY <1>12 DEF Failures, ChainPosition, InTarget, Shapes, Raising, TypeOK, FallbackCatches
  <2>2. Append(failures, <<Targets[index], exc>>) \in Seq(Failures)
    BY <2>1 DEF Shapes
  <2>3. failures' \in Seq(Failures)
    BY <1>12, <2>2 DEF FallbackCatches, NextTarget, Shapes
  <2> QED
    BY <1>12, <2>3 DEF FallbackCatches, NextTarget, Raise, Exceptions, Shapes, Raising,
       GoingUp, AtTelemetry
<1>13. CASE FallbackReturns
  <2>1. record' \in Records /\ record'.status = record.status
    BY <1>13 DEF FallbackReturns, Shapes, Records
  <2> QED
    BY <1>13, <2>1 DEF FallbackReturns, Shapes, Raising, GoingUp, AtTelemetry, layers
<1>14. CASE Accept
  <2>1. PlusCost(total, response.cost) \in Nat \union {None}
    BY <1>14 DEF Accept, PlusCost, Shapes, Responses, GoingUp, TypeOK
  <2>2. response' \in Responses
    BY <1>14, <2>1 DEF Accept, ReportedCost, Shapes, Responses, GoingUp
  <2> QED
    BY <1>14, <2>2 DEF Accept, Shapes, Raising, GoingUp, AtTelemetry
<1>15. CASE Reask
  <2>0. attempt + 1 \in Nat
    BY DEF TypeOK
  <2>1. record' \in Records /\ record'.status = record.status
    BY <1>15, <2>0 DEF Reask, Shapes, Records
  <2> QED
    BY <1>15, <2>1 DEF Reask, Shapes, Raising, GoingUp, AtTelemetry
<1>16. CASE GiveUp
  <2>1. PlusCost(total, response.cost) \in Nat \union {None}
    BY <1>16 DEF GiveUp, PlusCost, Shapes, Responses, GoingUp, TypeOK
  <2>2. record' \in Records
    BY <1>16, <2>1 DEF GiveUp, Shapes, Records
  <2> QED
    BY <1>16, <2>2 DEF GiveUp, Raise, Exceptions, Shapes, Raising, GoingUp, AtTelemetry
<1>17. CASE ValidatorUnwinds
  BY <1>17 DEF ValidatorUnwinds, TypeOK, Shapes, layers, history, Raising, GoingUp,
         AtTelemetry
<1>18. CASE RecordAnswer
  <2>1. record' \in Records
    BY <1>18 DEF RecordAnswer, Shapes, Records, Responses
  <2> QED
    BY <1>18, <2>1 DEF RecordAnswer, Shapes, Raising, GoingUp, AtTelemetry, layers
<1>19. CASE RecordError
  <2>1. target \in Models \union {None}
    BY DEF TypeOK
  <2>2. record' \in Records
    BY <1>19, <2>1 DEF RecordError, Shapes, Records
  <2> QED
    BY <1>19, <2>2 DEF RecordError, Shapes, Raising, GoingUp, AtTelemetry, layers
<1>20. CASE UNCHANGED vars
  BY <1>20 DEF vars, TypeOK, Shapes, layers, history, Raising, GoingUp, AtTelemetry
<1> QED BY <1>1, <1>2, <1>3, <1>4, <1>5, <1>6, <1>7, <1>8, <1>9, <1>10, <1>11, <1>12,
        <1>13, <1>14, <1>15, <1>16, <1>17, <1>18, <1>19, <1>20 DEF Next, Done

\* A target that is given up is the next one reported.
LEMMA FailureIsNoted ==
    ASSUME TypeOK, Shapes, ChainPosition, NEW e \in Exceptions, NextTarget(e),
           index <= Len(Targets), Len(Targets) \in Nat,
           \A i \in 1..Len(Targets) : Targets[i] \in Models
    PROVE  /\ Len(failures') = index' - 1
           /\ \A i \in 1..Len(failures') : failures'[i][1] = Targets[i]
<1> DEFINE failure == <<Targets[index], e>>
<1>1. failure \in Failures /\ failure[1] = Targets[index] /\ index \in 1..Len(Targets)
  BY DEF Failures, TypeOK
<1>2. failures' = Append(failures, failure) /\ index' = index + 1
  BY DEF NextTarget
<1>3. failures \in Seq(Failures) /\ Len(failures) = index - 1
  BY DEF Shapes, ChainPosition
<1> HIDE DEF failure
<1>4. /\ Len(Append(failures, failure)) = index
      /\ Append(failures, failure)[index] = failure
      /\ \A i \in 1..(index - 1) : Append(failures, failure)[i] = failures[i]
  BY <1>1, <1>3
<1>5. \A i \in 1..(index - 1) : failures[i][1] = Targets[i]
  BY <1>3 DEF ChainPosition
<1>6. ASSUME NEW i \in 1..index
      PROVE  failures'[i][1] = Targets[i]
  <2>1. CASE i = index
    BY <1>1, <1>2, <1>4, <2>1
  <2>2. CASE i # index
    <3>1. i \in 1..(index - 1)
      BY <1>1, <2>2
    <3> QED BY <1>2, <1>4, <1>5, <3>1
  <2> QED BY <2>1, <2>2
<1> QED BY <1>1, <1>2, <1>4, <1>6

\* The place in the chain is kept, and every target that is left behind is noted.
LEMMA ChainPositionStays ==
    ASSUME TypeOK, Shapes, ChainPosition, [Next]_vars
    PROVE  ChainPosition'
<1>0. /\ config' = config /\ Targets' = Targets /\ HasChain' = HasChain
      /\ Len(Targets) \in Nat \ {0} /\ Targets[1] = Primary /\ (HasChain => Len(Targets) > 1)
      /\ \A i \in 1..Len(Targets) : Targets[i] \in Models
  BY ConfigStays, TargetsFacts DEF TypeOK
<1> USE <1>0
<1>1. CASE EnterFallback
  BY <1>1 DEF EnterFallback, Shapes, TypeOK, ChainPosition, layers, history, GoingUp,
         InTarget
<1>2. CASE Pick
  <2>1. CASE index > 1 /\ Targets[index] \in config.blocked
    <3>1. NextTarget(NotAvailable) /\ NotAvailable \in Exceptions
      BY <1>2, <2>1 DEF Pick, Exceptions
    <3>2. /\ Len(failures') = index' - 1
          /\ \A i \in 1..Len(failures') : failures'[i][1] = Targets[i]
      BY <1>2, <3>1, FailureIsNoted DEF Pick, ChainPosition
    <3> QED
      BY <1>2, <2>1, <3>1, <3>2, PipelineAssumption
      DEF Pick, NextTarget, Raise, AllFailed, OutputInvalid, Exception, TypeOK,
          ChainPosition, GoingUp, InTarget
  <2>2. CASE ~(index > 1 /\ Targets[index] \in config.blocked)
    BY <1>2, <2>2 DEF Pick, TypeOK, ChainPosition, GoingUp, InTarget
  <2> QED BY <2>1, <2>2
<1>3. CASE Admit
  BY <1>3 DEF Admit, TypeOK, ChainPosition, layers, history, GoingUp, InTarget
<1>4. CASE Refuse
  BY <1>4 DEF Refuse, Raise, BudgetExceeded, AllFailed, OutputInvalid, Exception,
         TypeOK, ChainPosition, layers, history, GoingUp, InTarget
<1>5. ASSUME NEW cost \in Costs, NEW valid \in BOOLEAN, Answer(cost, valid)
      PROVE  ChainPosition'
  BY <1>5 DEF Answer, TypeOK, ChainPosition, layers, history, GoingUp, InTarget
<1>6. ASSUME NEW e \in Errors, SendFails(e)
      PROVE  ChainPosition'
  BY <1>6, PipelineAssumption DEF SendFails, Raise, TypeOK, ChainPosition, layers,
         history, GoingUp, InTarget
<1>7. CASE Retry
  BY <1>7 DEF Retry, TypeOK, ChainPosition, layers, history, GoingUp, InTarget
<1>8. CASE Wake
  BY <1>8, PipelineAssumption DEF Wake, TypeOK, ChainPosition, layers, history,
         GoingUp, InTarget
<1>9. CASE CancelSleep
  BY <1>9 DEF CancelSleep, Raise, Cancelled, AllFailed, OutputInvalid, Exception,
         TypeOK, ChainPosition, layers, history, GoingUp, InTarget
<1>10. CASE GuardReleases
  BY <1>10 DEF GuardReleases, TypeOK, ChainPosition, layers, history, GoingUp,
         InTarget
<1>11. CASE GuardCommits
  BY <1>11 DEF GuardCommits, TypeOK, ChainPosition, layers, history, GoingUp, InTarget
<1>12. CASE FallbackCatches
  <2>1. CASE FailsOver(exc)
    <3>1. NextTarget(exc) /\ exc \in Exceptions /\ HasChain
      BY <1>12, <2>1 DEF FallbackCatches, FailsOver, Shapes, Raising
    <3>2. /\ Len(failures') = index' - 1
          /\ \A i \in 1..Len(failures') : failures'[i][1] = Targets[i]
      BY <1>12, <3>1, FailureIsNoted DEF FallbackCatches, ChainPosition, InTarget
    <3> QED
      BY <1>12, <2>1, <3>1, <3>2, PipelineAssumption
      DEF FallbackCatches, NextTarget, Raise, AllFailed, OutputInvalid, Exception, TypeOK,
          ChainPosition, GoingUp, InTarget
  <2>2. CASE ~FailsOver(exc)
    BY <1>12, <2>2 DEF FallbackCatches, TypeOK, ChainPosition, GoingUp, InTarget
  <2> QED BY <2>1, <2>2
<1>13. CASE FallbackReturns
  BY <1>13 DEF FallbackReturns, TypeOK, ChainPosition, layers, history, GoingUp,
         InTarget
<1>14. CASE Accept
  BY <1>14 DEF Accept, TypeOK, ChainPosition, layers, history, GoingUp, InTarget
<1>15. CASE Reask
  BY <1>15 DEF Reask, TypeOK, ChainPosition, layers, history, GoingUp, InTarget
<1>16. CASE GiveUp
  BY <1>16 DEF GiveUp, Raise, OutputInvalid, AllFailed, Exception, TypeOK,
         ChainPosition, layers, history, GoingUp, InTarget
<1>17. CASE ValidatorUnwinds
  BY <1>17 DEF ValidatorUnwinds, TypeOK, ChainPosition, layers, history, GoingUp,
         InTarget
<1>18. CASE RecordAnswer
  BY <1>18 DEF RecordAnswer, TypeOK, ChainPosition, layers, history, GoingUp, InTarget
<1>19. CASE RecordError
  BY <1>19 DEF RecordError, TypeOK, ChainPosition, layers, history, GoingUp, InTarget
<1>20. CASE UNCHANGED vars
  BY <1>20 DEF vars, TypeOK, ChainPosition, layers, history, GoingUp, InTarget
<1> QED BY <1>1, <1>2, <1>3, <1>4, <1>5, <1>6, <1>7, <1>8, <1>9, <1>10, <1>11, <1>12,
        <1>13, <1>14, <1>15, <1>16, <1>17, <1>18, <1>19, <1>20 DEF Next, Done

\* Attempts and retries keep to their numbers.
LEMMA LoopsBoundedStay ==
    ASSUME TypeOK, Shapes, LoopsBounded, [Next]_vars
    PROVE  LoopsBounded'
<1>0. /\ config' = config /\ Validates' = Validates
      /\ config.max_retries \in Nat /\ config.validation_retries \in Nat
  BY ConfigStays, TargetsFacts DEF TypeOK
<1> USE <1>0
<1>1. CASE EnterFallback
  BY <1>1 DEF EnterFallback, TypeOK, LoopsBounded, layers, history
<1>2. CASE Pick
  BY <1>2 DEF Pick, NextTarget, TypeOK, LoopsBounded, layers, history
<1>3. CASE Admit
  BY <1>3 DEF Admit, TypeOK, LoopsBounded, layers, history
<1>4. CASE Refuse
  BY <1>4 DEF Refuse, TypeOK, LoopsBounded, layers, history
<1>5. ASSUME NEW cost \in Costs, NEW valid \in BOOLEAN, Answer(cost, valid)
      PROVE  LoopsBounded'
  BY <1>5 DEF Answer, TypeOK, LoopsBounded, layers, history
<1>6. ASSUME NEW e \in Errors, SendFails(e)
      PROVE  LoopsBounded'
  BY <1>6 DEF SendFails, TypeOK, LoopsBounded, layers, history
<1>7. CASE Retry
  <2>1. attempt' = attempt
    BY <1>7 DEF Retry, history
  <2>2. \/ pc' = "sleep" /\ tries < config.max_retries /\ tries' = tries + 1
        \/ pc' = "guard_except" /\ tries' = tries
    BY <1>7 DEF Retry, TriesLeft
  <2>3. record'.validation_retries = record.validation_retries
    BY <1>7 DEF Retry, Shapes, Records
  <2> QED BY <2>1, <2>2, <2>3 DEF TypeOK, LoopsBounded
<1>8. CASE Wake
  BY <1>8 DEF Wake, TypeOK, LoopsBounded, layers, history
<1>9. CASE CancelSleep
  BY <1>9 DEF CancelSleep, TypeOK, LoopsBounded, layers, history
<1>10. CASE GuardReleases
  BY <1>10 DEF GuardReleases, TypeOK, LoopsBounded, layers, history
<1>11. CASE GuardCommits
  BY <1>11 DEF GuardCommits, TypeOK, LoopsBounded, layers, history
<1>12. CASE FallbackCatches
  BY <1>12 DEF FallbackCatches, NextTarget, TypeOK, LoopsBounded, layers, history
<1>13. CASE FallbackReturns
  BY <1>13 DEF FallbackReturns, Shapes, Records, TypeOK, LoopsBounded, layers, history
<1>14. CASE Accept
  BY <1>14 DEF Accept, TypeOK, LoopsBounded, layers, history
<1>15. CASE Reask
  BY <1>15 DEF Reask, Shapes, Records, TypeOK, LoopsBounded, layers, history
<1>16. CASE GiveUp
  BY <1>16 DEF GiveUp, Shapes, Records, TypeOK, LoopsBounded, layers, history
<1>17. CASE ValidatorUnwinds
  BY <1>17 DEF ValidatorUnwinds, TypeOK, LoopsBounded, layers, history
<1>18. CASE RecordAnswer
  BY <1>18 DEF RecordAnswer, Shapes, Records, TypeOK, LoopsBounded, layers, history
<1>19. CASE RecordError
  BY <1>19 DEF RecordError, Shapes, Records, TypeOK, LoopsBounded, layers, history
<1>20. CASE UNCHANGED vars
  BY <1>20 DEF vars, TypeOK, LoopsBounded, layers, history
<1> QED BY <1>1, <1>2, <1>3, <1>4, <1>5, <1>6, <1>7, <1>8, <1>9, <1>10, <1>11, <1>12,
        <1>13, <1>14, <1>15, <1>16, <1>17, <1>18, <1>19, <1>20 DEF Next, Done

\* Budgets, validator and telemetry stay together about what was paid.
LEMMA CostsFollowStay ==
    ASSUME TypeOK, Shapes, ChainPosition, LoopsBounded, CostsFollow, [Next]_vars
    PROVE  CostsFollow'
<1>0. /\ config' = config /\ Validates' = Validates /\ Estimate \in Nat /\ None \notin Int
  BY ConfigStays, PipelineAssumption
<1> USE <1>0
<1>1. CASE EnterFallback
  BY <1>1 DEF EnterFallback, ChainPosition, TypeOK, CostsFollow, layers, history,
         GoingUp, AtTelemetry
<1>2. CASE Pick
  BY <1>2 DEF Pick, NextTarget, Raise, ChainPosition, TypeOK, CostsFollow, layers,
         history, GoingUp, AtTelemetry
<1>3. CASE Admit
  BY <1>3 DEF Admit, TypeOK, CostsFollow, layers, history, GoingUp, AtTelemetry
<1>4. CASE Refuse
  BY <1>4 DEF Refuse, Raise, BudgetExceeded, OutputInvalid, Exception, TypeOK,
         CostsFollow, layers, history, GoingUp, AtTelemetry
<1>5. ASSUME NEW cost \in Costs, NEW valid \in BOOLEAN, Answer(cost, valid)
      PROVE  CostsFollow'
  BY <1>5, PipelineAssumption DEF Answer, ChargeOf, PlusCost, ChainPosition, TypeOK,
         CostsFollow, layers, history, GoingUp, AtTelemetry
<1>6. ASSUME NEW e \in Errors, SendFails(e)
      PROVE  CostsFollow'
  BY <1>6 DEF SendFails, Raise, TypeOK, CostsFollow, layers, history, GoingUp,
         AtTelemetry
<1>7. CASE Retry
  BY <1>7 DEF Retry, TypeOK, CostsFollow, layers, history, GoingUp, AtTelemetry
<1>8. CASE Wake
  BY <1>8 DEF Wake, TypeOK, CostsFollow, layers, history, GoingUp, AtTelemetry
<1>9. CASE CancelSleep
  BY <1>9 DEF CancelSleep, Raise, TypeOK, CostsFollow, layers, history, GoingUp,
         AtTelemetry
<1>10. CASE GuardReleases
  BY <1>10 DEF GuardReleases, TypeOK, CostsFollow, layers, history, GoingUp,
         AtTelemetry
<1>11. CASE GuardCommits
  BY <1>11 DEF GuardCommits, ReservedAfter, ChargeOf, PlusCost, Shapes, Responses,
         ChainPosition, TypeOK, CostsFollow, layers, history, GoingUp, AtTelemetry
<1>12. CASE FallbackCatches
  BY <1>12 DEF FallbackCatches, NextTarget, Raise, ChainPosition, TypeOK, CostsFollow,
         layers, history, GoingUp, AtTelemetry
<1>13. CASE FallbackReturns
  BY <1>13 DEF FallbackReturns, ChainPosition, TypeOK, CostsFollow, layers, history,
         GoingUp, AtTelemetry
<1>14. CASE Accept
  BY <1>14 DEF Accept, PlusCost, ReportedCost, LoopsBounded, Shapes, Responses,
         ChainPosition, TypeOK, CostsFollow, layers, history, GoingUp, AtTelemetry
<1>15. CASE Reask
  BY <1>15 DEF Reask, PlusCost, Shapes, Responses, ChainPosition, TypeOK, CostsFollow,
         layers, history, GoingUp, AtTelemetry
<1>16. CASE GiveUp
  BY <1>16 DEF GiveUp, PlusCost, Raise, Shapes, Responses, Records, ChainPosition,
         TypeOK, CostsFollow, layers, history, GoingUp, AtTelemetry
<1>17. CASE ValidatorUnwinds
  BY <1>17 DEF ValidatorUnwinds, ChainPosition, TypeOK, CostsFollow, layers, history,
         GoingUp, AtTelemetry
<1>18. CASE RecordAnswer
  BY <1>18 DEF RecordAnswer, ChainPosition, TypeOK, CostsFollow, layers, history,
         GoingUp, AtTelemetry
<1>19. CASE RecordError
  BY <1>19 DEF RecordError, Shapes, Records, TypeOK, CostsFollow, layers, history,
         GoingUp, AtTelemetry
<1>20. CASE UNCHANGED vars
  BY <1>20 DEF vars, TypeOK, CostsFollow, layers, history, GoingUp, AtTelemetry
<1> QED BY <1>1, <1>2, <1>3, <1>4, <1>5, <1>6, <1>7, <1>8, <1>9, <1>10, <1>11, <1>12,
        <1>13, <1>14, <1>15, <1>16, <1>17, <1>18, <1>19, <1>20 DEF Next, Done

\* fallback_from is right when the call is about to return.
LEMMA FallbackNotedStays ==
    ASSUME TypeOK, Shapes, ChainPosition, LoopsBounded, FallbackNoted, [Next]_vars
    PROVE  FallbackNoted'
<1>0. /\ config' = config /\ Targets' = Targets /\ HasChain' = HasChain
      /\ Targets[1] = Primary /\ Len(Targets) \in Nat \ {0}
      /\ \A i \in 2..Len(Targets) : Targets[i] # Primary
  BY ConfigStays, TargetsFacts DEF TypeOK
<1> USE <1>0
<1>1. CASE EnterFallback
  BY <1>1 DEF EnterFallback, TypeOK, FallbackNoted, layers, history, AtTelemetry
<1>2. CASE Pick
  BY <1>2 DEF Pick, NextTarget, Raise, TypeOK, FallbackNoted, layers, history,
         AtTelemetry
<1>3. CASE Admit
  BY <1>3 DEF Admit, TypeOK, FallbackNoted, layers, history, AtTelemetry
<1>4. CASE Refuse
  BY <1>4 DEF Refuse, Raise, TypeOK, FallbackNoted, layers, history, AtTelemetry
<1>5. ASSUME NEW cost \in Costs, NEW valid \in BOOLEAN, Answer(cost, valid)
      PROVE  FallbackNoted'
  BY <1>5 DEF Answer, TypeOK, FallbackNoted, layers, history, AtTelemetry
<1>6. ASSUME NEW e \in Errors, SendFails(e)
      PROVE  FallbackNoted'
  BY <1>6 DEF SendFails, Raise, TypeOK, FallbackNoted, layers, history, AtTelemetry
<1>7. CASE Retry
  BY <1>7 DEF Retry, Shapes, Records, TypeOK, FallbackNoted, layers, history,
         AtTelemetry
<1>8. CASE Wake
  BY <1>8 DEF Wake, TypeOK, FallbackNoted, layers, history, AtTelemetry
<1>9. CASE CancelSleep
  BY <1>9 DEF CancelSleep, Raise, TypeOK, FallbackNoted, layers, history, AtTelemetry
<1>10. CASE GuardReleases
  BY <1>10 DEF GuardReleases, TypeOK, FallbackNoted, layers, history, AtTelemetry
<1>11. CASE GuardCommits
  BY <1>11 DEF GuardCommits, TypeOK, FallbackNoted, layers, history, AtTelemetry
<1>12. CASE FallbackCatches
  BY <1>12 DEF FallbackCatches, NextTarget, Raise, TypeOK, FallbackNoted, layers,
         history, AtTelemetry
<1>13. CASE FallbackReturns
  <2>1. /\ index \in 1..Len(Targets) /\ target = Targets[index]
        /\ (AnsweredByFallback <=> target # Primary)
    BY <1>13 DEF FallbackReturns, AnsweredByFallback, ChainPosition, InTarget, GoingUp,
       TypeOK
  <2>2. record'.fallback_from = IF AnsweredByFallback THEN Primary
                                ELSE record.fallback_from
    BY <1>13 DEF FallbackReturns, Shapes, Records
  <2> QED
    BY <1>13, <2>1, <2>2 DEF FallbackReturns, FallbackNoted, AtTelemetry, layers
<1>14. CASE Accept
  BY <1>14 DEF Accept, TypeOK, FallbackNoted, layers, history, AtTelemetry
<1>15. CASE Reask
  BY <1>15 DEF Reask, Shapes, Records, TypeOK, FallbackNoted, layers, history,
         AtTelemetry
<1>16. CASE GiveUp
  BY <1>16 DEF GiveUp, Raise, TypeOK, FallbackNoted, layers, history, AtTelemetry
<1>17. CASE ValidatorUnwinds
  BY <1>17 DEF ValidatorUnwinds, TypeOK, FallbackNoted, layers, history, AtTelemetry
<1>18. CASE RecordAnswer
  BY <1>18 DEF RecordAnswer, TypeOK, FallbackNoted, layers, history, AtTelemetry
<1>19. CASE RecordError
  BY <1>19 DEF RecordError, TypeOK, FallbackNoted, layers, history, AtTelemetry
<1>20. CASE UNCHANGED vars
  BY <1>20 DEF vars, TypeOK, FallbackNoted, layers, history, AtTelemetry
<1> QED BY <1>1, <1>2, <1>3, <1>4, <1>5, <1>6, <1>7, <1>8, <1>9, <1>10, <1>11, <1>12,
        <1>13, <1>14, <1>15, <1>16, <1>17, <1>18, <1>19, <1>20 DEF Next, Done

\* No layer catches an exception that is no provider's.
LEMMA PolicyErrorGoesUpStays ==
    ASSUME Shapes, PolicyErrorGoesUp, [Next]_vars
    PROVE  PolicyErrorGoesUp'
<1>1. CASE EnterFallback
  BY <1>1 DEF EnterFallback, PolicyErrorGoesUp, layers, history, Raising
<1>2. CASE Pick
  BY <1>2 DEF Pick, NextTarget, Raise, PolicyErrorGoesUp, layers, history, Raising
<1>3. CASE Admit
  BY <1>3 DEF Admit, PolicyErrorGoesUp, layers, history, Raising
<1>4. CASE Refuse
  BY <1>4 DEF Refuse, Raise, BudgetExceeded, Exception, PolicyErrorGoesUp, layers,
         history, Raising
<1>5. ASSUME NEW cost \in Costs, NEW valid \in BOOLEAN, Answer(cost, valid)
      PROVE  PolicyErrorGoesUp'
  BY <1>5 DEF Answer, PolicyErrorGoesUp, layers, history, Raising
<1>6. ASSUME NEW e \in Errors, SendFails(e)
      PROVE  PolicyErrorGoesUp'
  BY <1>6 DEF SendFails, Raise, PolicyErrorGoesUp, layers, history, Raising
<1>7. CASE Retry
  BY <1>7 DEF Retry, ShouldRetry, PolicyErrorGoesUp, layers, history, Raising
<1>8. CASE Wake
  BY <1>8 DEF Wake, PolicyErrorGoesUp, layers, history, Raising
<1>9. CASE CancelSleep
  BY <1>9 DEF CancelSleep, Raise, Cancelled, Exception, PolicyErrorGoesUp, layers,
         history, Raising
<1>10. CASE GuardReleases
  BY <1>10 DEF GuardReleases, PolicyErrorGoesUp, layers, history, Raising
<1>11. CASE GuardCommits
  BY <1>11 DEF GuardCommits, PolicyErrorGoesUp, layers, history, Raising
<1>12. CASE FallbackCatches
  BY <1>12 DEF FallbackCatches, NextTarget, Raise, FailsOver, PolicyErrorGoesUp,
         layers, history, Raising
<1>13. CASE FallbackReturns
  BY <1>13 DEF FallbackReturns, PolicyErrorGoesUp, layers, history, Raising
<1>14. CASE Accept
  BY <1>14 DEF Accept, PolicyErrorGoesUp, layers, history, Raising
<1>15. CASE Reask
  BY <1>15 DEF Reask, PolicyErrorGoesUp, layers, history, Raising
<1>16. CASE GiveUp
  BY <1>16 DEF GiveUp, Raise, PolicyErrorGoesUp, layers, history, Raising
<1>17. CASE ValidatorUnwinds
  BY <1>17 DEF ValidatorUnwinds, PolicyErrorGoesUp, layers, history, Raising
<1>18. CASE RecordAnswer
  BY <1>18 DEF RecordAnswer, PolicyErrorGoesUp, layers, history, Raising
<1>19. CASE RecordError
  BY <1>19 DEF RecordError, PolicyErrorGoesUp, layers, history, Raising
<1>20. CASE UNCHANGED vars
  BY <1>20 DEF vars, PolicyErrorGoesUp, layers, history, Raising
<1> QED BY <1>1, <1>2, <1>3, <1>4, <1>5, <1>6, <1>7, <1>8, <1>9, <1>10, <1>11, <1>12,
        <1>13, <1>14, <1>15, <1>16, <1>17, <1>18, <1>19, <1>20 DEF Next, Done

\* Products of natural numbers grow with their factors.
LEMMA ProductGrows ==
    ASSUME NEW a \in Nat, NEW b \in Nat, NEW m \in Nat, a <= b
    PROVE  a * m \in Nat /\ b * m \in Nat /\ a * m <= b * m
  OBVIOUS

\* One more of the same adds one factor.
LEMMA ProductStep ==
    ASSUME NEW a \in Nat, NEW m \in Nat
    PROVE  a * m \in Nat /\ (a + 1) * m = a * m + m
  OBVIOUS

\* The place of the current target among all that the loops may come to.
LEMMA LoopsCount ==
    ASSUME TypeOK
    PROVE  /\ Earlier \in Nat /\ Behind \in Nat /\ Through \in Nat
           /\ index = 1 => Behind = Earlier
           /\ index <= Len(Targets) => Behind + Tries <= Through
           /\ index = Len(Targets) + 1 => Behind = Through
<1>1. /\ attempt \in Nat /\ index \in Nat \ {0} /\ Len(Targets) \in Nat
      /\ Tries \in Nat \ {0}
  BY TargetsFacts DEF TypeOK, Tries
<1> DEFINE done  == attempt * Len(Targets)
           all   == (attempt + 1) * Len(Targets)
           turns == done + (index - 1)
<1>2. done \in Nat /\ all = done + Len(Targets)
  BY <1>1, ProductStep
<1>3. /\ turns \in Nat /\ all \in Nat
      /\ index = 1 => turns = done
      /\ index <= Len(Targets) => turns + 1 <= all
      /\ index = Len(Targets) + 1 => turns = all
  BY <1>1, <1>2
<1>4. Earlier = done * Tries /\ Behind = turns * Tries /\ Through = all * Tries
  BY DEF Earlier, Behind, Through
<1> HIDE DEF done, all, turns
<1>5. turns * Tries \in Nat /\ (turns + 1) * Tries = turns * Tries + Tries
  BY <1>1, <1>3, ProductStep
<1>6. ASSUME index <= Len(Targets)
      PROVE  (turns + 1) * Tries <= all * Tries
  <2>1. turns + 1 \in Nat /\ turns + 1 <= all
    BY <1>3, <1>6
  <2> QED BY <2>1, <1>1, <1>3, ProductGrows
<1>7. done * Tries \in Nat /\ all * Tries \in Nat
  BY <1>1, <1>2, <1>3, ProductStep
<1> QED BY <1>3, <1>4, <1>5, <1>6, <1>7

\* What a step of each loop does to that place.
LEMMA LoopsAdvance ==
    ASSUME TypeOK, [Next]_vars
    PROVE  /\ attempt' = attempt =>
                 /\ Earlier' = Earlier /\ Through' = Through
                 /\ index' = index => Behind' = Behind
                 /\ index' = index + 1 => Behind' = Behind + Tries
                 /\ index' = 1 => Behind' = Earlier
           /\ attempt' = attempt + 1 => Earlier' = Through
<1>1. /\ attempt \in Nat /\ index \in Nat \ {0} /\ Len(Targets) \in Nat
      /\ Tries \in Nat \ {0} /\ Targets' = Targets /\ Tries' = Tries
  BY ConfigStays, TargetsFacts DEF TypeOK, Tries
<1> DEFINE done  == attempt * Len(Targets)
           turns == done + (index - 1)
<1>2. done \in Nat
  BY <1>1, ProductStep
<1>3. CASE attempt' = attempt
  <2>1. Earlier' = Earlier /\ Through' = Through
    BY <1>1, <1>3 DEF Earlier, Through
  <2>2. Behind' = (done + (index' - 1)) * Tries
    BY <1>1, <1>3 DEF Behind
  <2>3. Behind = turns * Tries /\ Earlier = done * Tries
    BY DEF Behind, Earlier
  <2> HIDE DEF done
  <2>4. ASSUME index' = index + 1
        PROVE  Behind' = Behind + Tries
    <3>1. turns \in Nat /\ done + (index' - 1) = turns + 1
      BY <1>1, <1>2, <2>4
    <3> HIDE DEF turns
    <3> QED BY <1>1, <2>2, <2>3, <3>1, ProductStep
  <2>5. ASSUME index' = 1
        PROVE  Behind' = Earlier
    <3>1. done + (index' - 1) = done
      BY <1>2, <2>5
    <3> QED BY <2>2, <2>3, <3>1
  <2> QED BY <1>3, <1>1, <2>1, <2>2, <2>3, <2>4, <2>5
<1>4. CASE attempt' = attempt + 1
  BY <1>1, <1>4 DEF Earlier, Through
<1> QED BY <1>1, <1>3, <1>4

\* No loop sends more than its share.
LEMMA RequestsCountedStay ==
    ASSUME TypeOK, ChainPosition, LoopsBounded, RequestsCounted, [Next]_vars
    PROVE  RequestsCounted'
<1>0. /\ config' = config /\ Targets' = Targets /\ HasChain' = HasChain /\ Tries' = Tries
      /\ Len(Targets) \in Nat \ {0} /\ Tries \in Nat
      /\ requests \in Nat /\ tries \in Nat /\ attempt \in Nat /\ index \in Nat
      /\ tries + 1 <= Tries
  BY ConfigStays, TargetsFacts DEF TypeOK, LoopsBounded, Tries
<1> USE <1>0, LoopsCount, LoopsAdvance
<1>1. CASE EnterFallback
  BY <1>1 DEF EnterFallback, RequestsCounted, layers, history, GoingUp, AtTelemetry
<1>2. CASE Pick
  BY <1>2 DEF Pick, NextTarget, Raise, ChainPosition, RequestsCounted, layers,
         history, GoingUp, AtTelemetry
<1>3. CASE Admit
  BY <1>3 DEF Admit, RequestsCounted, layers, history, GoingUp, AtTelemetry
<1>4. CASE Refuse
  BY <1>4 DEF Refuse, Raise, RequestsCounted, layers, history, GoingUp, AtTelemetry
<1>5. ASSUME NEW cost \in Costs, NEW valid \in BOOLEAN, Answer(cost, valid)
      PROVE  RequestsCounted'
  BY <1>5 DEF Answer, RequestsCounted, layers, history, GoingUp, AtTelemetry
<1>6. ASSUME NEW e \in Errors, SendFails(e)
      PROVE  RequestsCounted'
  BY <1>6 DEF SendFails, Raise, RequestsCounted, layers, history, GoingUp, AtTelemetry
<1>7. CASE Retry
  <2>1. attempt' = attempt /\ index' = index /\ requests' = requests
    BY <1>7 DEF Retry, history
  <2>2. \/ pc' = "sleep" /\ tries' = tries + 1
       \/ pc' = "guard_except"
    BY <1>7 DEF Retry
  <2>3. requests <= Behind + tries + 1 /\ Behind' = Behind
    BY <1>7, <2>1 DEF Retry, RequestsCounted
  <2>4. CASE pc' = "sleep" /\ tries' = tries + 1
    BY <2>1, <2>3, <2>4 DEF TypeOK, RequestsCounted, GoingUp, AtTelemetry
  <2>5. CASE pc' = "guard_except"
    <3>1. requests' <= Behind' + Tries'
      BY <2>1, <2>3
    <3> QED BY <2>5, <3>1 DEF RequestsCounted, GoingUp, AtTelemetry
  <2> QED BY <2>2, <2>4, <2>5
<1>8. CASE Wake
  BY <1>8 DEF Wake, RequestsCounted, layers, history, GoingUp, AtTelemetry
<1>9. CASE CancelSleep
  BY <1>9 DEF CancelSleep, Raise, RequestsCounted, layers, history, GoingUp,
         AtTelemetry
<1>10. CASE GuardReleases
  BY <1>10 DEF GuardReleases, RequestsCounted, layers, history, GoingUp, AtTelemetry
<1>11. CASE GuardCommits
  BY <1>11 DEF GuardCommits, RequestsCounted, layers, history, GoingUp, AtTelemetry
<1>12. CASE FallbackCatches
  <2>1. requests <= Behind + Tries /\ index <= Len(Targets)
    BY <1>12 DEF FallbackCatches, RequestsCounted, ChainPosition, InTarget
  <2>2. attempt' = attempt /\ requests' = requests
    BY <1>12 DEF FallbackCatches, history
  <2>3. \/ pc' = "validator_except"
        \/ pc' = "pick" /\ index' = index + 1
    BY <1>12 DEF FallbackCatches, NextTarget, Raise
  <2> QED
    BY <2>1, <2>2, <2>3 DEF RequestsCounted, GoingUp, AtTelemetry
<1>13. CASE FallbackReturns
  BY <1>13 DEF FallbackReturns, RequestsCounted, layers, history, GoingUp, AtTelemetry
<1>14. CASE Accept
  BY <1>14 DEF Accept, ChainPosition, InTarget, RequestsCounted, layers, history,
         GoingUp, AtTelemetry
<1>15. CASE Reask
  BY <1>15 DEF Reask, ChainPosition, InTarget, RequestsCounted, layers, history,
         GoingUp, AtTelemetry
<1>16. CASE GiveUp
  BY <1>16 DEF GiveUp, Raise, ChainPosition, InTarget, RequestsCounted, layers,
         history, GoingUp, AtTelemetry
<1>17. CASE ValidatorUnwinds
  BY <1>17 DEF ValidatorUnwinds, RequestsCounted, layers, history, GoingUp,
         AtTelemetry
<1>18. CASE RecordAnswer
  BY <1>18 DEF RecordAnswer, RequestsCounted, layers, history, GoingUp, AtTelemetry
<1>19. CASE RecordError
  BY <1>19 DEF RecordError, RequestsCounted, layers, history, GoingUp, AtTelemetry
<1>20. CASE UNCHANGED vars
  BY <1>20 DEF vars, RequestsCounted, layers, history, GoingUp, AtTelemetry
<1> QED BY <1>1, <1>2, <1>3, <1>4, <1>5, <1>6, <1>7, <1>8, <1>9, <1>10, <1>11, <1>12,
        <1>13, <1>14, <1>15, <1>16, <1>17, <1>18, <1>19, <1>20 DEF Next, Done

\* The record is right when the call is over.
LEMMA RecordTellsStays ==
    ASSUME TypeOK, Shapes, ChainPosition, LoopsBounded, CostsFollow, FallbackNoted, RecordTells, [Next]_vars
    PROVE  RecordTells'
<1>1. CASE EnterFallback
  BY <1>1 DEF EnterFallback, RecordTells, layers, history
<1>2. CASE Pick
  BY <1>2 DEF Pick, NextTarget, Raise, RecordTells, layers, history
<1>3. CASE Admit
  BY <1>3 DEF Admit, RecordTells, layers, history
<1>4. CASE Refuse
  BY <1>4 DEF Refuse, Raise, RecordTells, layers, history
<1>5. ASSUME NEW cost \in Costs, NEW valid \in BOOLEAN, Answer(cost, valid)
      PROVE  RecordTells'
  BY <1>5 DEF Answer, RecordTells, layers, history
<1>6. ASSUME NEW e \in Errors, SendFails(e)
      PROVE  RecordTells'
  BY <1>6 DEF SendFails, Raise, RecordTells, layers, history
<1>7. CASE Retry
  BY <1>7 DEF Retry, RecordTells, layers, history
<1>8. CASE Wake
  BY <1>8 DEF Wake, RecordTells, layers, history
<1>9. CASE CancelSleep
  BY <1>9 DEF CancelSleep, Raise, RecordTells, layers, history
<1>10. CASE GuardReleases
  BY <1>10 DEF GuardReleases, RecordTells, layers, history
<1>11. CASE GuardCommits
  BY <1>11 DEF GuardCommits, RecordTells, layers, history
<1>12. CASE FallbackCatches
  BY <1>12 DEF FallbackCatches, NextTarget, Raise, RecordTells, layers, history
<1>13. CASE FallbackReturns
  BY <1>13 DEF FallbackReturns, RecordTells, layers, history
<1>14. CASE Accept
  BY <1>14 DEF Accept, RecordTells, layers, history
<1>15. CASE Reask
  BY <1>15 DEF Reask, RecordTells, layers, history
<1>16. CASE GiveUp
  BY <1>16 DEF GiveUp, Raise, RecordTells, layers, history
<1>17. CASE ValidatorUnwinds
  BY <1>17 DEF ValidatorUnwinds, RecordTells, layers, history
<1>18. CASE RecordAnswer
  BY <1>18 DEF RecordAnswer, Shapes, Records, ChainPosition, LoopsBounded,
         CostsFollow, FallbackNoted, AtTelemetry, GoingUp, RecordTells, layers,
         history
<1>19. CASE RecordError
  BY <1>19 DEF RecordError, Shapes, Records, CostsFollow, AtTelemetry, RecordTells,
         layers, history
<1>20. CASE UNCHANGED vars
  BY <1>20 DEF vars, RecordTells, layers, history
<1> QED BY <1>1, <1>2, <1>3, <1>4, <1>5, <1>6, <1>7, <1>8, <1>9, <1>10, <1>11, <1>12,
        <1>13, <1>14, <1>15, <1>16, <1>17, <1>18, <1>19, <1>20 DEF Next, Done

-----------------------------------------------------------------------------
(* The theorems. *)

\* The invariant holds when the call starts.
LEMMA InvInit ==
    ASSUME Init
    PROVE  Inv
<1>1. /\ Targets \in Seq(Models) /\ Len(Targets) \in Nat \ {0} /\ Targets[1] = Primary
      /\ config.max_retries \in Nat /\ config.validation_retries \in Nat
  BY TargetsFacts DEF Init
<1>2. TypeOK
  BY <1>1 DEF Init, TypeOK
<1>3. NoRecord \in Records /\ NoRecord.status = "ok" /\ NoRecord.fallback_from = None
      /\ NoRecord.validation_retries = 0
  BY PipelineAssumption DEF NoRecord, Records
<1>4. Shapes
  BY <1>3 DEF Init, Shapes, Raising, GoingUp, AtTelemetry
<1>5. ChainPosition
  <2>1. None # AllFailed /\ None # OutputInvalid
    BY PipelineAssumption
  <2> QED BY <1>1, <2>1 DEF Init, ChainPosition, InTarget, GoingUp
<1>6. LoopsBounded
  BY <1>1, <1>3 DEF Init, LoopsBounded
<1>7. CostsFollow
  BY DEF Init, CostsFollow, GoingUp, AtTelemetry
<1>8. FallbackNoted
  BY <1>3 DEF Init, FallbackNoted, AtTelemetry
<1>9. PolicyErrorGoesUp
  BY DEF Init, PolicyErrorGoesUp
<1>10. RequestsCounted
  BY <1>2, LoopsCount DEF Init, RequestsCounted, GoingUp, AtTelemetry
<1>11. RecordTells
  BY DEF Init, RecordTells
<1> QED BY <1>2, <1>4, <1>5, <1>6, <1>7, <1>8, <1>9, <1>10, <1>11 DEF Inv

\* The inductive invariant: where the chain stands, what its loops have sent, what is
\* owed to the budgets and what goes into the record, at every point of the call.
THEOREM Invariance == Spec => []Inv
<1>1. Init => Inv
  BY InvInit
<1>2. Inv /\ [Next]_vars => Inv'
  BY TypesStay, ShapesStay, ChainPositionStays, LoopsBoundedStay, CostsFollowStay,
     FallbackNotedStays, PolicyErrorGoesUpStays, RequestsCountedStay, RecordTellsStays
  DEF Inv
<1> QED BY <1>1, <1>2, PTL DEF Spec

\* The variables of a call keep their types, for any chains, exceptions and costs.
THEOREM TypeCorrect == Spec => []TypeOK
<1>1. Inv => TypeOK
  BY DEF Inv
<1> QED BY <1>1, Invariance, PTL

\* Whatever the provider answers or raises, no call sends more requests than
\* validation attempts times targets times tries.
THEOREM RequestsStayBounded == Spec => []RequestsBounded
<1>1. Inv => RequestsBounded
  <2> SUFFICES ASSUME Inv
               PROVE  RequestsBounded
    OBVIOUS
  <2> DEFINE L   == Len(Targets)
             all == (config.validation_retries + 1) * L
  <2>1. /\ L \in Nat /\ Tries \in Nat /\ attempt \in Nat /\ index \in 1..(L + 1)
        /\ config.validation_retries \in Nat /\ attempt <= config.validation_retries
        /\ requests \in Nat /\ tries \in Nat /\ tries + 1 <= Tries
    BY TargetsFacts DEF Inv, TypeOK, LoopsBounded, Tries
  <2>2. (attempt + 1) * L \in Nat /\ all \in Nat /\ (attempt + 1) * L <= all
    BY <2>1, ProductGrows
  <2> HIDE DEF all, L
  <2>3. Through <= all * Tries /\ Through \in Nat /\ all * Tries \in Nat
    BY <2>1, <2>2, ProductGrows DEF Through, L
  <2>4. Earlier \in Nat /\ Behind \in Nat /\ Earlier <= Through
    <3>1. attempt * L \in Nat /\ attempt * L <= (attempt + 1) * L
      BY <2>1, ProductGrows
    <3>2. (attempt * L) * Tries <= ((attempt + 1) * L) * Tries
      BY <2>1, <2>2, <3>1, ProductGrows
    <3> QED BY <3>2, LoopsCount DEF Inv, Earlier, Through, L
  <2>5. requests <= Through
    <3>1. /\ index <= L => Behind + Tries <= Through
          /\ index = L + 1 => Behind = Through
      BY LoopsCount DEF Inv, L
    <3>2. pc \in InTarget \union {"pick"} => index <= L
      BY DEF Inv, ChainPosition, L
    <3>3. pc \in InTarget \union {"pick", "validator", "validator_except"} \union AtTelemetry
      BY DEF Inv, TypeOK, InTarget, GoingUp, AtTelemetry
    <3> QED BY <2>1, <2>3, <2>4, <3>1, <3>2, <3>3
            DEF Inv, RequestsCounted, InTarget, GoingUp, AtTelemetry
  <2>6. requests <= all * Tries
    BY <2>1, <2>3, <2>5
  <2> QED BY <2>6 DEF RequestsBounded, all, L, Tries
<1> QED BY <1>1, Invariance, PTL

\* Whichever way the call ends: nothing is left reserved, every answer is charged once,
\* and the caller's request is the original again.
THEOREM SettledInTheEnd == Spec => []SettledAtTheEnd
<1>1. Inv => SettledAtTheEnd
  BY DEF Inv, TypeOK, CostsFollow, GoingUp, AtTelemetry, SettledAtTheEnd
<1> QED BY <1>1, Invariance, PTL

\* The error that reports a failed chain has one failure per target, in order.
THEOREM EveryTargetReported == Spec => []AllTargetsReported
<1>1. Inv => AllTargetsReported
  <2> SUFFICES ASSUME Inv, exc = AllFailed
               PROVE  [i \in DOMAIN failures |-> failures[i][1]] = Targets
    BY DEF AllTargetsReported
  <2>1. Targets \in Seq(Models) /\ Len(Targets) \in Nat
    BY TargetsFacts DEF Inv, TypeOK
  <2>2. failures \in Seq(Failures) /\ Len(failures) = Len(Targets)
    BY <2>1 DEF Inv, Shapes, ChainPosition
  <2>3. DOMAIN failures = 1..Len(Targets) /\ DOMAIN Targets = 1..Len(Targets)
    BY <2>1, <2>2
  <2>4. \A i \in 1..Len(Targets) : failures[i][1] = Targets[i]
    BY <2>2 DEF Inv, ChainPosition
  <2>5. Targets = [i \in 1..Len(Targets) |-> Targets[i]]
    BY <2>1
  <2> QED BY <2>3, <2>4, <2>5
<1> QED BY <1>1, Invariance, PTL

\* The record tells what happened: who answered, and what all answers cost.
THEOREM RecordIsRight == Spec => []RecordTells
<1>1. Inv => RecordTells
  BY DEF Inv
<1> QED BY <1>1, Invariance, PTL

\* After a policy error or a cancellation no step sends a request.
THEOREM PolicyErrorsEndTheCall == Spec => PolicyErrorsAreFinal
<1>1. Inv /\ [Next]_vars =>
        [(\E e \in seen : e.kind # "provider") => requests' = requests]_vars
  <2> SUFFICES ASSUME Inv, Next, \E e \in seen : e.kind # "provider"
               PROVE  requests' = requests
    BY DEF vars
  <2>1. pc = "done" \/ pc \in Raising
    BY DEF Inv, PolicyErrorGoesUp
  <2>2. pc # "send"
    BY <2>1 DEF Raising
  <2> QED
    BY <2>2 DEF Next, history, vars, EnterFallback, Pick, Admit, Refuse, Answer, SendFails,
       Retry, Wake, CancelSleep, GuardReleases, GuardCommits, FallbackCatches,
       FallbackReturns, Accept, Reask, GiveUp, ValidatorUnwinds, RecordAnswer,
       RecordError, Done
<1> QED BY <1>1, Invariance, PTL DEF Spec, PolicyErrorsAreFinal
=============================================================================
