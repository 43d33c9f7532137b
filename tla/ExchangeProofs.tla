--------------------------- MODULE ExchangeProofs ---------------------------
(***************************************************************************)
(* What holds of every call of Exchange, whatever it asks and whatever its *)
(* targets answer: types, the waits before retries, the cost, what is      *)
(* handed back, and that what is masked or blocked is not sent.            *)
(***************************************************************************)
EXTENDS Exchange, WellFoundedInduction, FiniteSetTheorems, SequenceTheorems, TLAPS

(***************************************************************************)
(* Induction over the natural numbers, in terms of sets and functions      *)
(***************************************************************************)

\* A set that has 0, and with every number the next, has all natural numbers.
LEMMA SetInduction ==
    ASSUME NEW S, 0 \in S, \A n \in Nat : n \in S => n + 1 \in S
    PROVE  Nat \subseteq S
<1> DEFINE T == Nat \ S
<1> SUFFICES ASSUME T # {} PROVE FALSE
    OBVIOUS
<1>1. PICK x \in T : \A y \in T : ~(<<y, x>> \in OpToRel(<, Nat))
    BY WFMin, NatLessThanWellFounded
<1>2. x # 0 /\ x - 1 \in Nat
    OBVIOUS
<1>3. x - 1 \in T
    OBVIOUS
<1>4. <<x - 1, x>> \in OpToRel(<, Nat)
    BY <1>2 DEF OpToRel
<1> QED BY <1>1, <1>3, <1>4

\* A set of natural numbers has a least one.
LEMMA LeastNatural ==
    ASSUME NEW S \in SUBSET Nat, S # {}
    PROVE  \E m \in S : \A n \in S : m <= n
<1>1. PICK m \in S : \A n \in S : ~(<<n, m>> \in OpToRel(<, Nat))
    BY WFMin, NatLessThanWellFounded
<1>2. \A n \in S : ~(n < m)
    BY <1>1 DEF OpToRel
<1> QED BY <1>2

\* step[n] leads from a value of T to the next one.
StepsWithin(N, T, step) == \A n \in 1..N : \A x \in T : step[n][x] \in T

\* f is given on 0..N by its value at 0 and by the step from one value to the next.
FollowsSteps(f, N, base, step) ==
    f[0] = base /\ \A n \in 1..N : f[n] = step[n][f[n - 1]]

\* Some function follows the steps.
LEMMA StepsDefineAFunction ==
    ASSUME NEW N \in Nat, NEW T, NEW base \in T, NEW step,
           StepsWithin(N, T, step)
    PROVE  \E f \in [0..N -> T] : FollowsSteps(f, N, base, step)
<1> USE DEF StepsWithin, FollowsSteps
<1> DEFINE Goes(n, f) == FollowsSteps(f, n, base, step)
           S == {n \in Nat : n <= N => \E f \in [0..n -> T] : Goes(n, f)}
<1>1. 0 \in S
  <2> DEFINE g == [i \in 0..0 |-> base]
  <2>1. g \in [0..0 -> T] /\ Goes(0, g)
    OBVIOUS
  <2> QED BY <2>1
<1>2. ASSUME NEW n \in Nat, n \in S
      PROVE  n + 1 \in S
  <2>1. SUFFICES ASSUME n + 1 <= N
                 PROVE  \E f \in [0..(n + 1) -> T] : Goes(n + 1, f)
    BY DEF S
  <2>2. PICK f \in [0..n -> T] : Goes(n, f)
    BY <1>2, <2>1 DEF S
  <2> HIDE DEF S
  <2>3. n + 1 \in 1..N
    BY <2>1
  <2>4. f[n] \in T
    OBVIOUS
  <2>5. step[n + 1][f[n]] \in T
    BY <2>3, <2>4
  <2> DEFINE last == step[n + 1][f[n]]
             g == [i \in 0..(n + 1) |-> IF i = n + 1 THEN last ELSE f[i]]
  <2> HIDE DEF last
  <2>6. g \in [0..(n + 1) -> T]
    BY <2>5 DEF last
  <2>7. g[n + 1] = last /\ \A i \in 0..n : g[i] = f[i]
    OBVIOUS
  <2> HIDE DEF g
  <2>8. g[0] = base
    BY <2>2, <2>7
  <2>9. ASSUME NEW i \in 1..(n + 1)
        PROVE  g[i] = step[i][g[i - 1]]
    <3>1. CASE i = n + 1
      <4>1. g[i - 1] = f[n] /\ g[i] = last
        BY <3>1, <2>7
      <4> QED BY <4>1, <3>1 DEF last
    <3>2. CASE i # n + 1
      <4>1. i \in 1..n /\ i \in 0..n /\ i - 1 \in 0..n
        BY <3>2
      <4>2. g[i - 1] = f[i - 1] /\ g[i] = f[i]
        BY <4>1, <2>7
      <4> QED BY <4>1, <4>2, <2>2
    <3> QED BY <3>1, <3>2
  <2> QED BY <2>6, <2>8, <2>9
<1>3. N \in S
  <2> HIDE DEF S
  <2> QED BY <1>1, <1>2, SetInduction
<1> QED BY <1>3

(***************************************************************************)
(* The waits an exception asks for                                         *)
(***************************************************************************)

\* Among the values of a function on a finite set there is a greatest one.
LEMMA GreatestValue ==
    ASSUME NEW S, IsFiniteSet(S), S # {}, NEW f \in [S -> Int]
    PROVE  \E x \in S : \A y \in S : f[y] <= f[x]
<1> DEFINE Tops(U) == \E x \in U : \A y \in U : f[y] <= f[x]
           I == {n \in Nat : \A U \in SUBSET S : Cardinality(U) = n /\ U # {} => Tops(U)}
<1>1. \A U \in SUBSET S : IsFiniteSet(U) /\ Cardinality(U) \in Nat
    BY FS_Subset, FS_CardinalityType
<1>2. 0 \in I
    BY <1>1, FS_EmptySet
<1>3. ASSUME NEW n \in Nat, n \in I
      PROVE  n + 1 \in I
  <2> SUFFICES ASSUME NEW U \in SUBSET S, Cardinality(U) = n + 1, U # {}
               PROVE  Tops(U)
    OBVIOUS
  <2>1. PICK z \in U : TRUE
    OBVIOUS
  <2>2. PICK V : V = U \ {z}
    OBVIOUS
  <2>3. V \in SUBSET S /\ Cardinality(V) = n
    <3>1. IsFiniteSet(U)
      BY <1>1
    <3>2. Cardinality(V) = Cardinality(U) - 1
      BY <3>1, <2>1, <2>2, FS_RemoveElement
    <3> QED BY <2>2, <3>2
  <2>4. CASE V = {}
    <3>1. \A y \in U : y = z
      BY <2>2, <2>4
    <3> QED BY <2>1, <3>1
  <2>5. CASE V # {}
    <3>1. PICK x \in V : \A y \in V : f[y] <= f[x]
      BY <1>3, <2>3, <2>5
    <3>2. f[x] \in Int /\ f[z] \in Int /\ \A y \in V : f[y] \in Int
      BY <2>1, <2>3
    <3>3. CASE f[z] <= f[x]
      <4>1. \A y \in U : f[y] <= f[x]
        BY <3>1, <3>3, <2>2
      <4> QED BY <4>1, <2>2
    <3>4. CASE ~(f[z] <= f[x])
      <4>1. f[z] <= f[z] /\ \A y \in V : f[y] <= f[z]
        BY <3>1, <3>2, <3>4
      <4>2. \A y \in U : f[y] <= f[z]
        BY <4>1, <2>2
      <4> QED BY <4>2, <2>1
    <3> QED BY <3>3, <3>4
  <2> QED BY <2>4, <2>5
<1>4. Nat \subseteq I
  <2> HIDE DEF I
  <2> QED BY <1>2, <1>3, SetInduction
<1> QED BY <1>1, <1>4

\* The pieces of a value sum up to a number.
LEMMA TotalIsInt ==
    ASSUME NEW value \in HeaderValues
    PROVE  Total(value.pieces) \in Int
<1>1. PICK pieces : pieces = value.pieces
    OBVIOUS
<1>2. PICK N : N = Len(pieces)
    OBVIOUS
<1>3. pieces \in Seq(Int \X {"ms", "s", "m", "h"}) /\ N \in Nat
    BY <1>1, <1>2 DEF HeaderValues
<1>4. PICK amount : amount = [n \in 1..N |-> pieces[n][1] * Millis(pieces[n][2])]
    OBVIOUS
<1>5. \A n \in 1..N : amount[n] \in Int
  <2> SUFFICES ASSUME NEW n \in 1..N PROVE amount[n] \in Int
    OBVIOUS
  <2>1. PICK p \in Int \X {"ms", "s", "m", "h"} : p = pieces[n]
    BY <1>2, <1>3
  <2>2. p[1] \in Int /\ Millis(p[2]) \in Int
    BY DEF Millis
  <2>3. \A a, b \in Int : a * b \in Int
    OBVIOUS
  <2> QED BY <1>4, <2>1, <2>2, <2>3
<1>6. PICK step : step = [n \in 1..N |-> [x \in Int |-> x + amount[n]]]
    OBVIOUS
<1>7. \A n \in 1..N : \A x \in Int : step[n][x] = x + amount[n]
    BY <1>6
<1>8. StepsWithin(N, Int, step)
    BY <1>5, <1>7 DEF StepsWithin
<1>9. PICK g \in [0..N -> Int] : FollowsSteps(g, N, 0, step)
  <2>1. N \in Nat /\ 0 \in Int
    BY <1>3
  <2> QED BY <2>1, <1>8, StepsDefineAFunction, Zenon
<1>10. g[0] = 0 /\ \A n \in 1..N : g[n] = g[n - 1] + amount[n]
  <2>1. g[0] = 0 /\ \A n \in 1..N : g[n] = step[n][g[n - 1]]
    BY <1>9 DEF FollowsSteps
  <2>2. \A n \in 1..N : g[n - 1] \in Int
    BY <1>3
  <2> QED BY <2>1, <2>2, <1>7
<1> DEFINE R(h) == h = [n \in 0..N |-> IF n = 0 THEN 0
                                        ELSE h[n - 1] + pieces[n][1] * Millis(pieces[n][2])]
<1>11. R(g)
  <2>1. \A n \in 0..N : n # 0 => n \in 1..N
    BY <1>3
  <2>2. \A n \in 0..N : g[n] = IF n = 0 THEN 0
                               ELSE g[n - 1] + pieces[n][1] * Millis(pieces[n][2])
    BY <1>4, <1>10, <2>1
  <2> QED BY <2>2
<1>12. PICK h : h = CHOOSE k : R(k)
    OBVIOUS
<1>13. R(h)
    BY <1>11, <1>12
<1>14. Total(value.pieces) = h[N]
    BY <1>1, <1>2, <1>12 DEF Total
<1>15. \A n \in Nat : n <= N => h[n] \in Int
  <2> DEFINE I == {n \in Nat : n <= N => h[n] \in Int}
  <2>1. h[0] = 0 /\ \A n \in 1..N : h[n] = h[n - 1] + amount[n]
    <3>1. 0 \in 0..N /\ \A n \in 1..N : n \in 0..N /\ n # 0
      BY <1>3
    <3> QED BY <1>4, <1>13, <3>1
  <2>2. 0 \in I
    BY <2>1
  <2>3. ASSUME NEW n \in Nat, n \in I
        PROVE  n + 1 \in I
    <3>1. SUFFICES ASSUME n + 1 <= N PROVE h[n + 1] \in Int
      OBVIOUS
    <3>2. h[n] \in Int /\ n + 1 \in 1..N /\ (n + 1) - 1 = n
      BY <2>3, <3>1, <1>3
    <3>3. h[n + 1] = h[(n + 1) - 1] + amount[n + 1]
      BY <2>1, <3>2
    <3> QED BY <3>2, <3>3, <1>5
  <2>4. Nat \subseteq I
    <3> HIDE DEF I
    <3> QED BY <2>2, <2>3, SetInduction
  <2> QED BY <2>4
<1> QED BY <1>3, <1>14, <1>15

\* A value that was read is a number no less than the sum of its pieces; of the two
\* ways to read one, a duration and a date, at most one applies.
LEMMA ReadValues ==
    ASSUME NEW value \in HeaderValues
    PROVE  /\ Total(value.pieces) \in Int
           /\ value.form \in {"number", "units"} =>
                ParseDuration(value) = Total(value.pieces)
           /\ value.form \notin {"number", "units"} => ParseDuration(value) = None
           /\ value.form = "date" =>
                ParseDate(value) \in Int /\ Total(value.pieces) <= ParseDate(value)
           /\ value.form # "date" => ParseDate(value) = None
<1>1. Total(value.pieces) \in Int
    BY TotalIsInt
<1>2. PICK t : t = Total(value.pieces)
    OBVIOUS
<1>3. NotNegative(t) \in Int /\ t <= NotNegative(t)
    BY <1>1, <1>2 DEF NotNegative
<1> QED BY <1>1, <1>2, <1>3 DEF ParseDuration, ParseDate

\* A reset is read if its value has the form that goes with its header.
LEMMA ReadResets ==
    ASSUME NEW reset, reset.value \in HeaderValues, FitsHeader(reset)
    PROVE  /\ Readable(reset.value) =>
                ParseReset(reset) \in Int /\ Total(reset.value.pieces) <= ParseReset(reset)
           /\ ~Readable(reset.value) => ParseReset(reset) = None
<1>1. PICK value \in HeaderValues : value = reset.value
    OBVIOUS
<1>2. reset.value.form \in {"none", "bad", "number", "units", "date"}
    BY DEF HeaderValues
<1>3. \A t \in Int : t <= t
    OBVIOUS
<1>4. CASE reset.header = "x-ratelimit"
  <2>1. ParseReset(reset) = ParseDuration(value)
    BY <1>1, <1>4 DEF ParseReset
  <2>2. Readable(reset.value) => value.form \in {"number", "units"}
    BY <1>1, <1>4 DEF FitsHeader, Readable
  <2>3. ~Readable(reset.value) => value.form \notin {"number", "units"}
    BY <1>1 DEF Readable
  <2> QED BY <1>1, <1>3, <2>1, <2>2, <2>3, ReadValues
<1>5. CASE reset.header # "x-ratelimit"
  <2>1. ParseReset(reset) = ParseDate(value)
    BY <1>1, <1>5 DEF ParseReset
  <2>2. Readable(reset.value) => value.form = "date"
    BY <1>1, <1>5 DEF FitsHeader, Readable
  <2>3. ~Readable(reset.value) => value.form # "date"
    BY <1>1 DEF Readable
  <2> QED BY <1>1, <2>1, <2>2, <2>3, ReadValues
<1> QED BY <1>4, <1>5

\* The reset waited for is a number as soon as one can be read, and none of the limits
\* used up is reset later.
LEMMA LastExhaustedReset ==
    ASSUME NEW e, IsError(e)
    PROVE  /\ Limits(e) = {} => RateLimitReset(e) = None
           /\ Limits(e) # {} =>
                /\ RateLimitReset(e) \in Int
                /\ \A r \in Limits(e) :
                      r.remaining = 0 => Total(r.value.pieces) <= RateLimitReset(e)
<1>1. \A r \in e.resets : r.value \in HeaderValues /\ FitsHeader(r)
    BY DEF IsError
<1>2. PICK read : read = [r \in Limits(e) |-> ParseReset(r)]
    OBVIOUS
<1>3. \A r \in e.resets : ~Readable(r.value) => ParseReset(r) = None
    BY <1>1, ReadResets
<1>4. \A r \in Limits(e) : /\ read[r] = ParseReset(r) /\ read[r] \in Int /\ read[r] # None
                          /\ Total(r.value.pieces) <= read[r]
    BY <1>1, <1>2, ReadResets, NoneAssumption DEF Limits
<1>5. IsFiniteSet(Limits(e)) /\ Limits(e) \subseteq e.resets
  <2>1. Limits(e) \in SUBSET e.resets /\ IsFiniteSet(e.resets)
    BY DEF Limits, IsError
  <2> QED BY <2>1, FS_Subset
<1>6. PICK every : every = {ParseReset(r) : r \in e.resets} \ {None}
    OBVIOUS
<1>7. every = {read[r] : r \in Limits(e)}
    BY <1>3, <1>4, <1>5, <1>6 DEF Limits
<1>8. PICK used : used = {r \in Limits(e) : r.remaining = 0}
    OBVIOUS
<1>9. PICK exhausted : exhausted = {ParseReset(r) : r \in {s \in e.resets : s.remaining = 0}}
                                     \ {None}
    OBVIOUS
<1>10. exhausted = {read[r] : r \in used}
    BY <1>3, <1>4, <1>5, <1>8, <1>9 DEF Limits
<1>11. RateLimitReset(e) = IF exhausted # {} THEN Longest(exhausted)
                           ELSE IF every # {} THEN Soonest(every) ELSE None
    BY <1>6, <1>9 DEF RateLimitReset
<1>12. used # {} => /\ Longest(exhausted) \in exhausted
                    /\ \A u \in exhausted : u <= Longest(exhausted)
  <2> SUFFICES ASSUME used # {}
               PROVE  /\ Longest(exhausted) \in exhausted
                      /\ \A u \in exhausted : u <= Longest(exhausted)
    OBVIOUS
  <2>1. PICK f : f = [r \in used |-> read[r]]
    OBVIOUS
  <2>2. f \in [used -> Int] /\ \A r \in used : f[r] = read[r]
    BY <1>4, <1>8, <2>1
  <2>3. used \in SUBSET Limits(e)
    BY <1>8
  <2>4. IsFiniteSet(used)
    BY <1>5, <2>3, FS_Subset
  <2>5. \E x \in used : \A y \in used : f[y] <= f[x]
    BY <2>2, <2>4, GreatestValue
  <2>6. \E t \in exhausted : \A u \in exhausted : u <= t
    BY <1>10, <2>2, <2>5
  <2> QED BY <2>6 DEF Longest
<1>13. Limits(e) # {} => Soonest(every) \in every
  <2> SUFFICES ASSUME Limits(e) # {} PROVE Soonest(every) \in every
    OBVIOUS
  <2>1. PICK f : f = [r \in Limits(e) |-> - read[r]]
    OBVIOUS
  <2>2. f \in [Limits(e) -> Int] /\ \A r \in Limits(e) : f[r] = - read[r]
    BY <1>4, <2>1
  <2>3. PICK x \in Limits(e) : \A y \in Limits(e) : f[y] <= f[x]
    BY <1>5, <2>2, GreatestValue
  <2>4. \A y \in Limits(e) : read[x] <= read[y]
    <3> SUFFICES ASSUME NEW y \in Limits(e) PROVE read[x] <= read[y]
      OBVIOUS
    <3>1. read[x] \in Int /\ read[y] \in Int
      BY <1>4
    <3>2. - read[y] <= - read[x]
      BY <2>2, <2>3
    <3> QED BY <3>1, <3>2
  <2>5. \E t \in every : \A u \in every : t <= u
    BY <1>7, <2>4
  <2> QED BY <2>5 DEF Soonest
<1>14. Limits(e) = {} => RateLimitReset(e) = None
    BY <1>7, <1>8, <1>10, <1>11
<1>15. used # {} => /\ RateLimitReset(e) = Longest(exhausted)
                    /\ RateLimitReset(e) \in Int
    BY <1>4, <1>8, <1>10, <1>11, <1>12
<1>16. Limits(e) # {} /\ used = {} => RateLimitReset(e) \in Int
    BY <1>4, <1>7, <1>10, <1>11, <1>13
<1>17. ASSUME NEW r \in Limits(e), r.remaining = 0
       PROVE  Total(r.value.pieces) <= RateLimitReset(e)
  <2>1. r \in used
    BY <1>8, <1>17
  <2>2. read[r] <= RateLimitReset(e) /\ RateLimitReset(e) \in Int
    BY <1>10, <1>12, <1>15, <2>1
  <2>3. Total(r.value.pieces) <= read[r] /\ read[r] \in Int
    BY <1>4
  <2>4. Total(r.value.pieces) \in Int
    BY <1>1, <1>5, TotalIsInt
  <2> QED BY <2>2, <2>3, <2>4
<1> QED BY <1>14, <1>15, <1>16, <1>17

\* Any wait chosen for an error is at least what the server wants, and the configured
\* maximum at most, if it wants anything and is respected.
LEMMA DelaysAsWanted ==
    ASSUME NEW e, IsError(e), NEW retry, retry.respect, retry.longest \in Int,
           NEW n, NEW delay \in Delays(n, e, retry)
    PROVE  /\ \A t \in Wanted(e) : t <= delay
           /\ delay <= retry.longest \/ Wanted(e) = {}
<1>1. e.ms \in HeaderValues /\ e.after \in HeaderValues /\ e.delay \in HeaderValues
    BY DEF IsError
<1>2. None \notin Int
    BY NoneAssumption
<1>3. PICK after : after = RetryAfter(e)
    OBVIOUS
<1>4. SUFFICES /\ Wanted(e) # {} => after \in Int
               /\ \A t \in Wanted(e) : t <= after
  <2> SUFFICES ASSUME Wanted(e) # {}, after \in Int, \A t \in Wanted(e) : t <= after
               PROVE  delay = after /\ delay <= retry.longest
    OBVIOUS
  <2>1. after # None
    BY <1>2
  <2>2. delay \in IF after > retry.longest THEN {} ELSE {after}
    BY <1>3, <2>1 DEF Delays
  <2> QED BY <2>2
<1>5. CASE e.ms.form = "number"
  <2>1. PICK total : total = Total(e.ms.pieces)
    OBVIOUS
  <2>2. after = NotNegative(total) /\ Wanted(e) = {total}
    BY <1>3, <1>5, <2>1 DEF RetryAfter, Wanted
  <2>3. total \in Int
    BY <1>1, <2>1, TotalIsInt
  <2>4. NotNegative(total) \in Int /\ total <= NotNegative(total)
    BY <2>3 DEF NotNegative
  <2> QED BY <2>2, <2>4
<1> DEFINE Given == IF ParseDuration(e.after) # None THEN ParseDuration(e.after)
                    ELSE ParseDate(e.after)
           Reset == IF StatusOf(e) = 429 THEN RateLimitReset(e) ELSE None
<1>6. ASSUME e.ms.form # "number"
      PROVE  after = IF Given # None THEN NotNegative(Given)
                     ELSE IF Reset # None THEN Reset ELSE ParseDuration(e.delay)
    BY <1>3, <1>6 DEF RetryAfter
<1>7. CASE e.ms.form # "number" /\ Readable(e.after)
  <2>1. PICK total : total = Total(e.after.pieces)
    OBVIOUS
  <2>2. PICK given : given = Given
    OBVIOUS
  <2>3. total \in Int /\ given \in Int /\ total <= given
    <3>1. CASE e.after.form \in {"number", "units"}
      <4>1. ParseDuration(e.after) = total /\ total \in Int
        BY <1>1, <3>1, <2>1, ReadValues
      <4>2. given = total
        BY <4>1, <2>2, <1>2
      <4> QED BY <4>1, <4>2
    <3>2. CASE e.after.form = "date"
      <4>1. /\ ParseDuration(e.after) = None
            /\ ParseDate(e.after) \in Int /\ total <= ParseDate(e.after) /\ total \in Int
        BY <1>1, <3>2, <2>1, ReadValues
      <4>2. given = ParseDate(e.after)
        BY <4>1, <2>2
      <4> QED BY <4>1, <4>2
    <3> QED BY <1>7, <3>1, <3>2 DEF Readable
  <2>4. after = NotNegative(given)
    BY <1>2, <1>6, <1>7, <2>2, <2>3
  <2>5. Wanted(e) = {total}
    BY <1>7, <2>1 DEF Wanted
  <2>6. NotNegative(given) \in Int /\ total <= NotNegative(given)
    BY <2>3 DEF NotNegative
  <2> QED BY <2>4, <2>5, <2>6
<1>8. CASE e.ms.form # "number" /\ ~Readable(e.after)
  <2>1. Given = None
    BY <1>1, <1>8, ReadValues DEF Readable
  <2>2. after = IF Reset # None THEN Reset ELSE ParseDuration(e.delay)
    BY <1>6, <1>8, <2>1
  <2> HIDE DEF Given
  <2>3. CASE StatusOf(e) = 429 /\ Limits(e) # {}
    <3>1. Wanted(e) = {Total(r.value.pieces) : r \in {s \in Limits(e) : s.remaining = 0}}
      BY <1>8, <2>3 DEF Wanted
    <3>2. /\ RateLimitReset(e) \in Int
          /\ \A r \in Limits(e) :
                r.remaining = 0 => Total(r.value.pieces) <= RateLimitReset(e)
      BY <2>3, LastExhaustedReset
    <3>3. after = RateLimitReset(e)
      BY <1>2, <2>2, <2>3, <3>2
    <3> QED BY <3>1, <3>2, <3>3
  <2>4. CASE ~(StatusOf(e) = 429 /\ Limits(e) # {})
    <3>1. Reset = None
      BY <2>4, LastExhaustedReset
    <3>2. after = ParseDuration(e.delay)
      BY <2>2, <3>1
    <3>3. Wanted(e) = IF e.delay.form \in {"number", "units"} THEN {Total(e.delay.pieces)} ELSE {}
      BY <1>8, <2>4 DEF Wanted
    <3>4. e.delay.form \in {"number", "units"} =>
            /\ ParseDuration(e.delay) = Total(e.delay.pieces)
            /\ Total(e.delay.pieces) \in Int
      BY <1>1, ReadValues
    <3>5. \A t \in Int : t <= t
      OBVIOUS
    <3>6. CASE e.delay.form \in {"number", "units"}
      BY <3>2, <3>3, <3>4, <3>5, <3>6
    <3>7. CASE e.delay.form \notin {"number", "units"}
      BY <3>3, <3>7
    <3> QED BY <3>6, <3>7
  <2> QED BY <2>3, <2>4
<1> QED BY <1>5, <1>7, <1>8

(***************************************************************************)
(* Prices and counters                                                     *)
(***************************************************************************)

\* The look-up finds the price that the list says of the model, the only one it says, if
\* it says one.
LEMMA LookupIsListed ==
    ASSUME NEW table, IsPriceList(table), NEW model \in ModelNames
    PROVE  /\ Silent(table, model) => Lookup(table, model) = None
           /\ ~Silent(table, model) => /\ Lists(table, model, Lookup(table, model))
                                       /\ Lookup(table, model) \in Rate \intersect Range(table)
           /\ \A price : Lists(table, model, price) =>
                price = Lookup(table, model) /\ ~Silent(table, model)
<1>1. PICK known : known = {k \in DOMAIN table : IsPrefixOrEqual(k, model)}
    OBVIOUS
<1>2. Lookup(table, model) =
        IF known = {} THEN None
        ELSE table[CHOOSE k \in known : \A other \in known : Len(other) <= Len(k)]
    BY <1>1 DEF Lookup
<1>3. Silent(table, model) <=> known = {}
    BY <1>1 DEF Silent
<1>4. \A k \in known : /\ k \in DOMAIN table /\ table[k] \in Rate
                       /\ Len(k) \in Nat /\ SubSeq(model, 1, Len(k)) = k
                       /\ Len(k) <= Len(model)
    BY <1>1 DEF IsPriceList, IsPrefixOrEqual, ModelNames
<1>5. PICK chosen : chosen = CHOOSE k \in known : \A other \in known : Len(other) <= Len(k)
    OBVIOUS
<1>6. ASSUME known # {}
      PROVE  chosen \in known /\ \A other \in known : Len(other) <= Len(chosen)
  <2>1. PICK n \in Nat : n = Len(model)
    BY DEF ModelNames
  <2>2. PICK rest : rest = {n - Len(k) : k \in known}
    OBVIOUS
  <2>3. rest \in SUBSET Nat /\ rest # {}
    BY <1>4, <1>6, <2>1, <2>2
  <2>4. PICK m \in rest : \A x \in rest : m <= x
    BY <2>3, LeastNatural
  <2>5. PICK k \in known : m = n - Len(k)
    BY <2>2
  <2>6. \A other \in known : n - Len(other) \in rest
    BY <2>2
  <2>7. ASSUME NEW other \in known
        PROVE  Len(other) <= Len(k)
    <3>1. n - Len(k) <= n - Len(other)
      BY <2>4, <2>5, <2>6
    <3> QED BY <1>4, <2>1, <3>1
  <2> QED BY <1>5, <2>7
<1>7. ASSUME known # {}
      PROVE  /\ Lists(table, model, Lookup(table, model))
             /\ Lookup(table, model) \in Rate \intersect Range(table)
  <2>1. Lookup(table, model) = table[chosen]
    BY <1>2, <1>5, <1>7
  <2> QED BY <1>1, <1>4, <1>6, <1>7, <2>1 DEF Lists, Range
<1>8. ASSUME NEW price, Lists(table, model, price)
      PROVE  price = Lookup(table, model) /\ known # {}
  <2>1. PICK name \in known : /\ table[name] = price
                              /\ \A other \in known : Len(other) <= Len(name)
    BY <1>1, <1>8 DEF Lists
  <2>2. chosen \in known /\ Len(name) <= Len(chosen) /\ Len(chosen) <= Len(name)
    BY <1>6, <2>1
  <2>3. Len(chosen) = Len(name)
    BY <1>4, <2>1, <2>2
  <2>4. chosen = name
    BY <1>4, <2>1, <2>2, <2>3
  <2> QED BY <1>2, <1>5, <2>1, <2>4
<1> QED BY <1>2, <1>3, <1>7, <1>8

\* A name with a date is a name, one part longer.
LEMMA NamesWithDate ==
    ASSUME NEW model \in ModelNames, NEW date \in NameParts
    PROVE  /\ Append(model, date) \in ModelNames
           /\ Len(Append(model, date)) = Len(model) + 1 /\ Len(model) \in Nat
           /\ \A i \in 1..Len(model) : Append(model, date)[i] = model[i]
<1>1. PICK words : words = NameParts
    OBVIOUS
<1>2. model \in Seq(words)
    BY <1>1 DEF ModelNames
<1>3. date \in words
    BY <1>1
<1>4. /\ Append(model, date) \in Seq(words)
      /\ Len(Append(model, date)) = Len(model) + 1 /\ Len(model) \in Nat
      /\ \A i \in 1..Len(model) : Append(model, date)[i] = model[i]
    BY <1>2, <1>3, AppendProperties
<1> QED BY <1>1, <1>4 DEF ModelNames

\* A list that is silent of a name with its date is silent of the name.
LEMMA DateAddsNames ==
    ASSUME NEW table, IsPriceList(table), NEW model \in ModelNames, NEW date \in NameParts,
           Silent(table, Append(model, date))
    PROVE  Silent(table, model)
<1>1. PICK dated : dated = Append(model, date)
    OBVIOUS
<1>2. /\ dated \in ModelNames /\ Len(dated) = Len(model) + 1 /\ Len(model) \in Nat
      /\ \A i \in 1..Len(model) : dated[i] = model[i]
    BY <1>1, NamesWithDate
<1>3. ASSUME NEW k \in DOMAIN table, IsPrefixOrEqual(k, model)
      PROVE  IsPrefixOrEqual(k, dated)
  <2>1. k \in ModelNames /\ Len(k) \in Nat /\ Len(k) <= Len(model)
    BY <1>3 DEF IsPriceList, IsPrefixOrEqual, ModelNames
  <2>2. SubSeq(dated, 1, Len(k)) = SubSeq(model, 1, Len(k))
    BY <1>2, <2>1
  <2> QED BY <1>2, <1>3, <2>1, <2>2 DEF IsPrefixOrEqual
<1> QED BY <1>1, <1>3 DEF Silent

\* The tables of a provider, in the order in which they are asked.
LEMMA ListsOfProvider ==
    ASSUME NEW provider
    PROVE  /\ IsPriceList(TableOf(Overrides, ProviderKey(provider)))
           /\ IsPriceList(TableOf(Overrides, "*"))
           /\ IsPriceList(TableOf(PriceTable, ProviderKey(provider)))
           /\ Range(TableOf(Overrides, ProviderKey(provider))) \subseteq ListedPrices
           /\ Range(TableOf(Overrides, "*")) \subseteq ListedPrices
           /\ Range(TableOf(PriceTable, ProviderKey(provider))) \subseteq ListedPrices
<1>1. IsPriceList(<<>>) /\ Range(<<>>) = {}
    BY DEF IsPriceList, Range
<1>2. ASSUME NEW key
      PROVE  /\ IsPriceList(TableOf(Overrides, key))
             /\ Range(TableOf(Overrides, key)) \subseteq ListedPrices
  <2>1. CASE key \in DOMAIN Overrides
    <3>1. TableOf(Overrides, key) = Overrides[key]
      BY <2>1 DEF TableOf
    <3>3. IsPriceList(Overrides[key])
      BY <2>1, PricesAssumption
    <3>2. PICK all : all = UNION {Range(Overrides[name]) : name \in DOMAIN Overrides}
      OBVIOUS
    <3>5. Range(Overrides[key]) \subseteq all
      BY <2>1, <3>2
    <3>6. all \subseteq ListedPrices
      BY <3>2 DEF ListedPrices
    <3>4. Range(TableOf(Overrides, key)) \subseteq ListedPrices
      BY <3>1, <3>5, <3>6
    <3> QED BY <3>1, <3>3, <3>4
  <2>2. CASE key \notin DOMAIN Overrides
    BY <1>1, <2>2 DEF TableOf
  <2> QED BY <2>1, <2>2
<1>3. ASSUME NEW key
      PROVE  /\ IsPriceList(TableOf(PriceTable, key))
             /\ Range(TableOf(PriceTable, key)) \subseteq ListedPrices
  <2>1. CASE key \in DOMAIN PriceTable
    <3>1. TableOf(PriceTable, key) = PriceTable[key]
      BY <2>1 DEF TableOf
    <3>3. IsPriceList(PriceTable[key])
      BY <2>1, PricesAssumption
    <3>2. PICK all : all = UNION {Range(PriceTable[name]) : name \in DOMAIN PriceTable}
      OBVIOUS
    <3>5. Range(PriceTable[key]) \subseteq all
      BY <2>1, <3>2
    <3>6. all \subseteq ListedPrices
      BY <3>2 DEF ListedPrices
    <3>4. Range(TableOf(PriceTable, key)) \subseteq ListedPrices
      BY <3>1, <3>5, <3>6
    <3> QED BY <3>1, <3>3, <3>4
  <2>2. CASE key \notin DOMAIN PriceTable
    BY <1>1, <2>2 DEF TableOf
  <2> QED BY <2>1, <2>2
<1> QED BY <1>2, <1>3

\* get_price finds the price in force, whatever the overrides and the table say.
LEMMA PriceFound ==
    ASSUME NEW provider, NEW model \in ModelNames
    PROVE  /\ GetPrice(provider, model) = PriceInForce(provider, model)
           /\ GetPrice(provider, model) \in Rate \union {None}
<1>1. PICK own : own = TableOf(Overrides, ProviderKey(provider))
    OBVIOUS
<1>2. PICK any : any = TableOf(Overrides, "*")
    OBVIOUS
<1>3. PICK listed : listed = TableOf(PriceTable, ProviderKey(provider))
    OBVIOUS
<1>4. \A table \in {own, any, listed} : IsPriceList(table) /\ Range(table) \subseteq ListedPrices
    BY <1>1, <1>2, <1>3, ListsOfProvider
<1>5. \A table \in {own, any, listed} :
        /\ Silent(table, model) => Lookup(table, model) = None
        /\ ~Silent(table, model) => /\ Lists(table, model, Lookup(table, model))
                                    /\ Lookup(table, model) \in Rate \intersect Range(table)
        /\ \A price : Lists(table, model, price) =>
             price = Lookup(table, model) /\ ~Silent(table, model)
    BY <1>4, LookupIsListed
<1>6. PICK found : found = GetPrice(provider, model)
    OBVIOUS
<1>7. found = IF Lookup(own, model) # None THEN Lookup(own, model)
              ELSE IF Lookup(any, model) # None THEN Lookup(any, model)
              ELSE Lookup(listed, model)
    BY <1>1, <1>2, <1>3, <1>6 DEF GetPrice
<1>8. None \notin Rate
    BY PricesAssumption
<1>9. /\ ~Silent(own, model) => found = Lookup(own, model)
      /\ Silent(own, model) /\ ~Silent(any, model) => found = Lookup(any, model)
      /\ Silent(own, model) /\ Silent(any, model) => found = Lookup(listed, model)
    BY <1>5, <1>7, <1>8
<1>10. \A price : IsPriced(provider, model, price) <=>
          \/ Lists(own, model, price)
          \/ Silent(own, model) /\ Lists(any, model, price)
          \/ Silent(own, model) /\ Silent(any, model) /\ Lists(listed, model, price)
          \/ /\ Silent(own, model) /\ Silent(any, model) /\ Silent(listed, model)
             /\ price = None
    BY <1>1, <1>2, <1>3 DEF IsPriced
<1>11. \A price : IsPriced(provider, model, price) <=> price = found
  <2>1. IsPriced(provider, model, found)
    BY <1>5, <1>9, <1>10
  <2>2. ASSUME NEW price, IsPriced(provider, model, price)
        PROVE  price = found
    BY <1>5, <1>9, <1>10, <2>2
  <2> QED BY <2>1, <2>2
<1>12. found \in Rate \union {None} /\ found \in ListedPrices \union {None}
    BY <1>4, <1>5, <1>9
<1>13. PICK chosen : chosen = PriceInForce(provider, model)
    OBVIOUS
<1>14. IsPriced(provider, model, chosen)
    BY <1>11, <1>12, <1>13 DEF PriceInForce
<1> QED BY <1>6, <1>11, <1>12, <1>13, <1>14

\* A model without a price with its date has none without.
LEMMA DateAddsPrices ==
    ASSUME NEW provider, NEW model \in ModelNames, NEW date \in NameParts,
           GetPrice(provider, Append(model, date)) = None
    PROVE  GetPrice(provider, model) = None
<1>1. PICK own : own = TableOf(Overrides, ProviderKey(provider))
    OBVIOUS
<1>2. PICK any : any = TableOf(Overrides, "*")
    OBVIOUS
<1>3. PICK listed : listed = TableOf(PriceTable, ProviderKey(provider))
    OBVIOUS
<1>4. \A table \in {own, any, listed} : IsPriceList(table)
    BY <1>1, <1>2, <1>3, ListsOfProvider
<1>5. \A name : GetPrice(provider, name) =
        IF Lookup(own, name) # None THEN Lookup(own, name)
        ELSE IF Lookup(any, name) # None THEN Lookup(any, name) ELSE Lookup(listed, name)
    BY <1>1, <1>2, <1>3 DEF GetPrice
<1>6. PICK dated \in ModelNames : dated = Append(model, date)
    BY NamesWithDate
<1>7. None \notin Rate
    BY PricesAssumption
<1>8. \A table \in {own, any, listed} : Lookup(table, dated) = None
    BY <1>5, <1>6
<1>9. ASSUME NEW table \in {own, any, listed}
      PROVE  Lookup(table, model) = None
  <2>1. IsPriceList(table) /\ Lookup(table, dated) = None
    BY <1>4, <1>8
  <2>2. Silent(table, dated)
    BY <1>7, <2>1, LookupIsListed
  <2>3. Silent(table, model)
    BY <1>6, <2>1, <2>2, DateAddsNames
  <2> QED BY <2>1, <2>3, LookupIsListed
<1> QED BY <1>5, <1>9

\* The targets of calls.
CallTargets == UNION {{c.targets[i] : i \in DOMAIN c.targets} : c \in Calls}

\* Whatever a provider's counters include, the usage read from them is what it bills.
LEMMA CountersRead ==
    ASSUME NEW q \in Providers, NEW bill \in Bills
    PROVE  /\ UsageOf(q, NativeCounters(q, bill)) = BilledUsage(q, bill)
           /\ BilledUsage(q, bill) \in Bills
           /\ BilledUsage(q, bill).reported = bill.reported
<1>1. PICK i \in Nat, o \in Nat, r \in Nat, w \in Nat, told \in BOOLEAN :
        bill = Usage(i, o, r, w, told)
    BY DEF Bills, Usage
<1>2. /\ bill.input = i /\ bill.output = o /\ bill.read = r /\ bill.write = w
      /\ bill.reported = told
    BY <1>1 DEF Usage
<1>3. CASE ~told
  <2>1. NativeCounters(q, bill) = None /\ BilledUsage(q, bill) = Usage(0, 0, 0, 0, FALSE)
    BY <1>2, <1>3 DEF NativeCounters, BilledUsage
  <2>2. Usage(0, 0, 0, 0, FALSE) \in Bills /\ Usage(0, 0, 0, 0, FALSE).reported = FALSE
    BY DEF Usage, Bills
  <2>3. UsageOf(q, None) = Usage(0, 0, 0, 0, FALSE)
    BY DEF UsageOf
  <2>4. bill.reported = FALSE
    BY <1>2, <1>3
  <2> QED BY <2>1, <2>2, <2>3, <2>4
<1>4. \A p, c, d, e, t, l \in Int : Counters(p, c, d, e, t, l) # None
    BY CountersAssumption DEF Counters
<1>5. \A a, b, c, d \in Nat : /\ Usage(a, b, c, d, TRUE) \in Bills
                             /\ Usage(a, b, c, d, TRUE).reported = TRUE
    BY DEF Usage, Bills
<1>6. CASE told /\ q = "openai"
  <2>1. BilledUsage(q, bill) = Usage(i + w, o, r, 0, TRUE)
    BY <1>2, <1>6 DEF BilledUsage
  <2>2. PICK u : u = Usage(i + w, o, r, 0, TRUE)
    OBVIOUS
  <2>3. u.input = i + w /\ u.output = o /\ u.read = r /\ u.write = 0
    BY <1>2, <2>2 DEF Usage
  <2>4. PICK l \in Int : l = TotalTokens(u)
    BY <2>3 DEF TotalTokens
  <2>5. PICK p \in Int : p = i + w + r + 0
    OBVIOUS
  <2>6. PICK k : k = Counters(p, o, r, 0, 0, l)
    OBVIOUS
  <2>7. NativeCounters(q, bill) = k
    BY <1>2, <1>6, <2>1, <2>2, <2>3, <2>4, <2>5, <2>6 DEF NativeCounters
  <2>8. /\ k # None /\ k.prompt = p /\ k.completion = o /\ k.cached = r
        /\ k.written = 0 /\ k.thoughts = 0
    BY <1>4, <2>6 DEF Counters
  <2>9. UsageOf(q, k) = Usage(AtLeastZero(p - r), o, r, 0, TRUE)
    BY <1>6, <2>8 DEF UsageOf
  <2>10. AtLeastZero(p - r) = i + w
    BY <2>5 DEF AtLeastZero
  <2>11. UsageOf(q, k) = Usage(i + w, o, r, 0, TRUE)
    BY <2>9, <2>10
  <2>12. BilledUsage(q, bill) = Usage(i + w, o, r, 0, TRUE)
    BY <1>1, <1>6, <2>1
  <2>s. PICK sum \in Nat : sum = i + w
    OBVIOUS
  <2>13. PICK v : v = Usage(i + w, o, r, 0, TRUE)
    OBVIOUS
  <2>14. v \in Bills /\ v.reported = TRUE
    <3>1. v = Usage(sum, o, r, 0, TRUE)
      BY <2>s, <2>13
    <3> QED BY <1>5, <3>1
  <2>15. bill.reported = TRUE
    BY <1>2, <1>6
  <2> QED BY <2>7, <2>11, <2>12, <2>13, <2>14, <2>15
<1>7. CASE told /\ q = "google"
  <2>1. BilledUsage(q, bill) = Usage(i + w, o, r, 0, TRUE)
    BY <1>2, <1>7 DEF BilledUsage
  <2>2. PICK u : u = Usage(i + w, o, r, 0, TRUE)
    OBVIOUS
  <2>3. u.input = i + w /\ u.output = o /\ u.read = r /\ u.write = 0
    BY <1>2, <2>2 DEF Usage
  <2>4. PICK l \in Int : l = TotalTokens(u)
    BY <2>3 DEF TotalTokens
  <2>5. PICK p \in Int : p = i + w + r + 0
    OBVIOUS
  <2>6. PICK k : k = Counters(p, o - 1, r, 0, 1, l)
    OBVIOUS
  <2>7. NativeCounters(q, bill) = k
    BY <1>2, <1>7, <2>1, <2>2, <2>3, <2>4, <2>5, <2>6 DEF NativeCounters
  <2>8. /\ k # None /\ k.prompt = p /\ k.completion = o - 1 /\ k.cached = r
        /\ k.written = 0 /\ k.thoughts = 1
    BY <1>4, <2>6 DEF Counters
  <2>9. UsageOf(q, k) = Usage(AtLeastZero(p - r), o - 1 + 1, r, 0, TRUE)
    BY <1>7, <2>8 DEF UsageOf
  <2>10. AtLeastZero(p - r) = i + w /\ o - 1 + 1 = o
    BY <2>5 DEF AtLeastZero
  <2>11. UsageOf(q, k) = Usage(i + w, o, r, 0, TRUE)
    BY <2>9, <2>10
  <2>12. BilledUsage(q, bill) = Usage(i + w, o, r, 0, TRUE)
    BY <1>1, <1>7, <2>1
  <2>s. PICK sum \in Nat : sum = i + w
    OBVIOUS
  <2>13. PICK v : v = Usage(i + w, o, r, 0, TRUE)
    OBVIOUS
  <2>14. v \in Bills /\ v.reported = TRUE
    <3>1. v = Usage(sum, o, r, 0, TRUE)
      BY <2>s, <2>13
    <3> QED BY <1>5, <3>1
  <2>15. bill.reported = TRUE
    BY <1>2, <1>7
  <2> QED BY <2>7, <2>11, <2>12, <2>13, <2>14, <2>15
<1>8. CASE told /\ q = "anthropic"
  <2>1. BilledUsage(q, bill) = bill
    BY <1>2, <1>8 DEF BilledUsage
  <2>2. PICK u : u = bill
    OBVIOUS
  <2>3. u.input = i /\ u.output = o /\ u.read = r /\ u.write = w
    BY <1>2, <2>2 DEF Usage
  <2>4. PICK l \in Int : l = TotalTokens(u)
    BY <2>3 DEF TotalTokens
  <2>5. PICK p \in Int : p = i
    OBVIOUS
  <2>6. PICK k : k = Counters(p, o, r, w, 0, l)
    OBVIOUS
  <2>7. NativeCounters(q, bill) = k
    BY <1>2, <1>8, <2>1, <2>2, <2>3, <2>4, <2>5, <2>6 DEF NativeCounters
  <2>8. /\ k # None /\ k.prompt = p /\ k.completion = o /\ k.cached = r
        /\ k.written = w /\ k.thoughts = 0
    BY <1>4, <2>6 DEF Counters
  <2>9. UsageOf(q, k) = Usage(i, o, r, w, TRUE)
    BY <1>8, <2>5, <2>8 DEF UsageOf
  <2>11. UsageOf(q, k) = Usage(i, o, r, w, TRUE)
    BY <2>9
  <2>12. BilledUsage(q, bill) = Usage(i, o, r, w, TRUE)
    BY <1>1, <1>8, <2>1
  <2>13. PICK v : v = Usage(i, o, r, w, TRUE)
    OBVIOUS
  <2>14. v \in Bills /\ v.reported = TRUE
    BY <1>5, <2>13
  <2>15. bill.reported = TRUE
    BY <1>2, <1>8
  <2> QED BY <2>7, <2>11, <2>12, <2>13, <2>14, <2>15
<1>9. CASE told /\ q = "openai-responses"
  <2>1. BilledUsage(q, bill) = bill
    BY <1>2, <1>9 DEF BilledUsage
  <2>2. PICK u : u = bill
    OBVIOUS
  <2>3. u.input = i /\ u.output = o /\ u.read = r /\ u.write = w
    BY <1>2, <2>2 DEF Usage
  <2>4. PICK l \in Int : l = TotalTokens(u)
    BY <2>3 DEF TotalTokens
  <2>5. PICK p \in Int : p = i + r + w
    OBVIOUS
  <2>6. PICK k : k = Counters(p, o, r, w, 0, l)
    OBVIOUS
  <2>7. NativeCounters(q, bill) = k
    BY <1>2, <1>9, <2>1, <2>2, <2>3, <2>4, <2>5, <2>6 DEF NativeCounters
  <2>8. /\ k # None /\ k.prompt = p /\ k.completion = o /\ k.cached = r
        /\ k.written = w /\ k.thoughts = 0
    BY <1>4, <2>6 DEF Counters
  <2>9. UsageOf(q, k) = Usage(AtLeastZero(p - r - w), o, r, w, TRUE)
    BY <1>9, <2>8 DEF UsageOf
  <2>10. AtLeastZero(p - r - w) = i
    BY <2>5 DEF AtLeastZero
  <2>11. UsageOf(q, k) = Usage(i, o, r, w, TRUE)
    BY <2>9, <2>10
  <2>12. BilledUsage(q, bill) = Usage(i, o, r, w, TRUE)
    BY <1>1, <1>9, <2>1
  <2>13. PICK v : v = Usage(i, o, r, w, TRUE)
    OBVIOUS
  <2>14. v \in Bills /\ v.reported = TRUE
    BY <1>5, <2>13
  <2>15. bill.reported = TRUE
    BY <1>2, <1>9
  <2> QED BY <2>7, <2>11, <2>12, <2>13, <2>14, <2>15
<1> QED BY <1>3, <1>6, <1>7, <1>8, <1>9 DEF Providers

\* A cost is a number.
LEMMA CostIsInt ==
    ASSUME NEW price \in Rate, NEW usage \in Bills
    PROVE  CostAt(price, usage) \in Int
<1>1. PICK i \in Nat, o \in Nat, r \in Nat, w \in Nat :
        usage.input = i /\ usage.output = o /\ usage.read = r /\ usage.write = w
    BY DEF Bills
<1>2. PICK a \in Nat, b \in Nat, c \in Nat, d \in Nat :
        /\ price.input = a /\ price.output = b
        /\ OrInput(price.read, price) = c /\ OrInput(price.write, price) = d
    BY DEF Rate, OrInput
<1>3. i * a \in Int /\ o * b \in Int /\ r * c \in Int /\ w * d \in Int
    OBVIOUS
<1> QED BY <1>1, <1>2, <1>3 DEF CostAt

\* The answer of a target, parsed and priced.
Parsed(target, a, finish) ==
    ParseResponse(target.provider, NativeReply(target, a, finish), target.model, a.dumps)

\* What the answer comes to.
Bill(target, a) ==
    IF ~a.bill.reported \/ PriceInForce(target.provider, Answering(target, a)) = None THEN None
    ELSE CostAt(PriceInForce(target.provider, Answering(target, a)),
                BilledUsage(target.provider, a.bill))

\* The cost of an answer is its tokens at the price in force.
LEMMA CostIsBill ==
    ASSUME NEW target \in CallTargets, target.provider \in Providers,
           target.model \in ModelNames, NEW a, a.bill \in Bills, NEW finish
    PROVE  /\ CostOfResponse(target, Parsed(target, a, finish)) = Bill(target, a)
           /\ Bill(target, a) \in Int \union {None}
<1>1. PICK q \in Providers : q = target.provider
    OBVIOUS
<1>2. PICK bill \in Bills : bill = a.bill
    OBVIOUS
<1>3. PICK usage \in Bills : usage = BilledUsage(q, bill) /\ usage.reported = bill.reported
    BY CountersRead
<1>4. PICK model \in ModelNames : model = Answering(target, a)
  <2>1. "dated" \in NameParts
    BY DEF NameParts
  <2>2. Answering(target, a) \in ModelNames
    BY <2>1, NamesWithDate DEF Answering
  <2> QED BY <2>2
<1>5. PICK parsed : parsed = Parsed(target, a, finish)
    OBVIOUS
<1>6. parsed.usage = usage /\ parsed.model = model
  <2>1. PICK reply : reply = NativeReply(target, a, finish)
    OBVIOUS
  <2>2. /\ reply.model = IF a.dated THEN Answering(target, a) ELSE None
        /\ reply.counters = NativeCounters(q, bill)
    BY <1>1, <1>2, <2>1 DEF NativeReply, Reply
  <2>3. UsageOf(q, reply.counters) = usage
    BY <1>3, <2>2, CountersRead
  <2>4. parsed = ParseResponse(q, reply, target.model, a.dumps)
    BY <1>1, <1>5, <2>1 DEF Parsed
  <2>5. parsed.usage = usage /\ parsed.model = IF reply.model = None THEN target.model ELSE reply.model
    BY <2>3, <2>4 DEF ParseResponse, Response
  <2>6. CASE a.dated
    <3>1. model # None
      BY PricesAssumption
    <3> QED BY <1>4, <2>2, <2>5, <2>6, <3>1
  <2>7. CASE ~a.dated
    <3>1. model = target.model
      BY <1>4, <2>7 DEF Answering
    <3> QED BY <2>2, <2>5, <2>7, <3>1
  <2> QED BY <2>6, <2>7
<1>7. PICK rate : rate = PriceInForce(q, model)
    OBVIOUS
<1>8. rate \in Rate \union {None} /\ GetPrice(q, model) = rate
    BY <1>7, PriceFound
<1>9. rate = None => GetPrice(q, target.model) = None
  <2>1. CASE a.dated
    <3>1. model = Append(target.model, "dated") /\ "dated" \in NameParts
      BY <1>4, <2>1 DEF Answering, NameParts
    <3> QED BY <1>8, <3>1, DateAddsPrices
  <2>2. CASE ~a.dated
    BY <1>4, <1>8, <2>2 DEF Answering
  <2> QED BY <2>1, <2>2
<1>10. PICK cost : cost = IF rate = None THEN None ELSE CostAt(rate, usage)
    OBVIOUS
<1>11. CostFor(q, model, usage) = cost /\ (rate = None => CostFor(q, target.model, usage) = None)
    BY <1>8, <1>9, <1>10 DEF CostFor
<1>12. cost \in Int \union {None} /\ (cost = None => rate = None)
  <2>1. rate # None => CostAt(rate, usage) \in Int
    BY <1>8, CostIsInt
  <2> QED BY <1>10, <2>1, NoneAssumption
<1>13. CostOfResponse(target, parsed) = IF ~usage.reported THEN None ELSE cost
    BY <1>1, <1>6, <1>11, <1>12 DEF CostOfResponse
<1>14. Bill(target, a) = IF ~usage.reported THEN None ELSE cost
    BY <1>1, <1>2, <1>3, <1>4, <1>7, <1>10 DEF Bill
<1> QED BY <1>5, <1>12, <1>13, <1>14

(***************************************************************************)
(* Texts and finish reasons                                                *)
(***************************************************************************)

\* Joining texts gives a text; joining one gives that one.
LEMMA JoinedIsText ==
    ASSUME NEW W, NEW texts, NEW N \in Nat, N = Len(texts),
           \A n \in 1..N : texts[n] \in Seq(W)
    PROVE  /\ Joined(texts) \in Seq(W)
           /\ N = 1 => Joined(texts) = texts[1]
<1>1. PICK step : step = [n \in 1..N |-> [x \in Seq(W) |-> x \o texts[n]]]
    OBVIOUS
<1>2. \A n \in 1..N : \A x \in Seq(W) : step[n][x] = x \o texts[n] /\ step[n][x] \in Seq(W)
    BY <1>1
<1>3. <<>> \in Seq(W)
    OBVIOUS
<1>4. PICK g \in [0..N -> Seq(W)] : FollowsSteps(g, N, <<>>, step)
  <2>1. StepsWithin(N, Seq(W), step)
    BY <1>2 DEF StepsWithin
  <2> QED BY <1>3, <2>1, StepsDefineAFunction, Zenon
<1>5. g[0] = <<>> /\ \A n \in 1..N : g[n] = g[n - 1] \o texts[n]
  <2>1. g[0] = <<>> /\ \A n \in 1..N : g[n] = step[n][g[n - 1]]
    BY <1>4 DEF FollowsSteps
  <2>2. \A n \in 1..N : g[n - 1] \in Seq(W)
    OBVIOUS
  <2> QED BY <2>1, <2>2, <1>2
<1> DEFINE R(h) == h = [n \in 0..N |-> IF n = 0 THEN <<>> ELSE h[n - 1] \o texts[n]]
<1>6. R(g)
  <2>1. \A n \in 0..N : n # 0 => n \in 1..N
    OBVIOUS
  <2>2. \A n \in 0..N : g[n] = IF n = 0 THEN <<>> ELSE g[n - 1] \o texts[n]
    BY <1>5, <2>1
  <2> QED BY <2>2
<1>7. PICK h : h = CHOOSE k : R(k)
    OBVIOUS
<1>8. R(h)
    BY <1>6, <1>7
<1>9. Joined(texts) = h[N]
    BY <1>7 DEF Joined
<1>10. h[0] = <<>> /\ \A n \in 1..N : h[n] = h[n - 1] \o texts[n]
  <2>1. 0 \in 0..N /\ \A n \in 1..N : n \in 0..N /\ n # 0
    OBVIOUS
  <2> QED BY <1>8, <2>1
<1>11. \A n \in Nat : n <= N => h[n] \in Seq(W)
  <2> DEFINE I == {n \in Nat : n <= N => h[n] \in Seq(W)}
  <2>1. 0 \in I
    BY <1>3, <1>10
  <2>2. ASSUME NEW n \in Nat, n \in I
        PROVE  n + 1 \in I
    <3>1. SUFFICES ASSUME n + 1 <= N PROVE h[n + 1] \in Seq(W)
      OBVIOUS
    <3>2. h[n] \in Seq(W) /\ n + 1 \in 1..N /\ (n + 1) - 1 = n
      BY <2>2, <3>1
    <3>3. h[n + 1] = h[(n + 1) - 1] \o texts[n + 1]
      BY <1>10, <3>2
    <3> QED BY <3>2, <3>3
  <2>3. Nat \subseteq I
    <3> HIDE DEF I
    <3> QED BY <2>1, <2>2, SetInduction
  <2> QED BY <2>3
<1>12. N = 1 => Joined(texts) = texts[1]
  <2> SUFFICES ASSUME N = 1 PROVE Joined(texts) = texts[1]
    OBVIOUS
  <2>0. 1 \in 1..N /\ 1 - 1 = 0
    OBVIOUS
  <2>a. h[1] = h[1 - 1] \o texts[1]
    BY <1>10, <2>0
  <2>1. h[1] = h[0] \o texts[1] /\ texts[1] \in Seq(W)
    BY <2>0, <2>a
  <2>2. h[1] = <<>> \o texts[1]
    BY <1>10, <2>1
  <2>3. <<>> \o texts[1] = texts[1]
    BY <2>1
  <2> QED BY <1>9, <2>2, <2>3
<1> QED BY <1>9, <1>11, <1>12

\* The text of an answer is a text.
LEMMA AnswerHasText ==
    ASSUME NEW parts \in Seq(ContentParts)
    PROVE  TextOfParts(parts) \in Text
<1>1. PICK W : W = Words
    OBVIOUS
<1>2. Text = Seq(W)
    BY <1>1 DEF Text
<1>3. PICK N \in Nat : N = Len(parts) /\ DOMAIN parts = 1..N
    OBVIOUS
<1>4. PICK texts : texts = [i \in 1..N |-> IF IsTextPart(parts[i]) THEN parts[i].text ELSE <<>>]
    OBVIOUS
<1>5. TextOfParts(parts) = Joined(texts)
    BY <1>3, <1>4 DEF TextOfParts
<1>6. Len(texts) = N
    BY <1>4
<1>7. \A n \in 1..N : texts[n] \in Seq(W)
  <2>1. \A n \in 1..N : parts[n] \in ContentParts
    BY <1>3
  <2>2. \A n \in 1..N : parts[n].text \in Seq(W)
    BY <1>2, <2>1 DEF ContentParts
  <2> QED BY <1>4, <2>2
<1> QED BY <1>2, <1>5, <1>6, <1>7, JoinedIsText

\* The text of a reply with one text is that text.
LEMMA OneText ==
    ASSUME NEW text \in Text
    PROVE  TextOfParts(<<Part("text", text)>>) = text
<1>1. PICK W : W = Words
    OBVIOUS
<1>2. text \in Seq(W)
    BY <1>1 DEF Text
<1>3. PICK part : part = Part("text", text)
    OBVIOUS
<1>4. part.text = text /\ IsTextPart(part)
    BY <1>3 DEF Part, IsTextPart
<1>5. PICK parts : parts = <<part>>
    OBVIOUS
<1>6. DOMAIN parts = 1..1 /\ parts[1] = part
    BY <1>5
<1>7. PICK texts : texts = [i \in 1..1 |-> IF IsTextPart(parts[i]) THEN parts[i].text ELSE <<>>]
    OBVIOUS
<1>8. TextOfParts(parts) = Joined(texts)
    BY <1>6, <1>7 DEF TextOfParts
<1>9. Len(texts) = 1 /\ texts[1] = text
    BY <1>4, <1>6, <1>7
<1>10. \A n \in 1..1 : texts[n] \in Seq(W)
    BY <1>2, <1>9
<1>11. Joined(texts) = texts[1]
    BY <1>9, <1>10, JoinedIsText
<1> QED BY <1>3, <1>5, <1>8, <1>9, <1>11

Outcomes == {"done", "truncated", "refused"}

\* Each SDK's finish reasons tell the outcomes apart.
LEMMA OutcomesDiffer ==
    ASSUME NEW q \in Providers, NEW outcome \in Outcomes, NEW finish \in FinishesOf(q)[outcome]
    PROVE  OutcomeOf(q, finish) = outcome
<1>1. PICK finishes : finishes = FinishesOf(q)
    OBVIOUS
<1>2. /\ DOMAIN finishes = Outcomes
      /\ \A a, b \in Outcomes : \A f \in finishes[a] : f \in finishes[b] => a = b
    BY <1>1 DEF FinishesOf, NativeFinish, Providers, Outcomes
<1>3. PICK chosen : chosen = CHOOSE o \in Outcomes : finish \in finishes[o]
    OBVIOUS
<1>4. chosen \in Outcomes /\ finish \in finishes[chosen]
    BY <1>1, <1>3
<1> QED BY <1>1, <1>2, <1>3, <1>4 DEF OutcomeOf

\* The canonical finish reason of an answer.
ReadFinish(q, finish) ==
    IF q # "openai-responses" THEN finish
    ELSE CASE finish = "completed"         -> "stop"
           [] finish = "max_output_tokens" -> "length"
           [] finish = "content_filter"    -> "content_filter"

\* The finish reason of the reply built for a caller of q.
BuiltFinish(q, finish) ==
    CASE q = "openai"           -> FinishToOpenAI(finish)
      [] q = "openai-responses" -> FinishToResponses(finish)
      [] q = "anthropic"        -> FinishToAnthropic(finish)
      [] q = "google"           -> FinishToGoogle(finish)

\* Whichever provider answered and whichever SDK was called, the reason built says the
\* outcome, but for the refusals that the SDK's form loses.
LEMMA OutcomeKept ==
    ASSUME NEW p \in Providers, NEW q \in Providers, NEW outcome \in Outcomes,
           NEW finish \in FinishesOf(p)[outcome], NEW read, read = ReadFinish(p, finish)
    PROVE  BuiltFinish(q, read) \in
             FinishesOf(q)[IF outcome = "refused" /\ LosesRefusal(q, read) THEN "done" ELSE outcome]
<1>1. CASE q = "openai"
    BY <1>1 DEF BuiltFinish, ReadFinish, FinishesOf, NativeFinish, Providers, Outcomes,
       FinishToOpenAI, LosesRefusal
<1>2. CASE q = "openai-responses"
    BY <1>2 DEF BuiltFinish, ReadFinish, FinishesOf, NativeFinish, Providers, Outcomes,
       FinishToResponses, LosesRefusal
<1>3. CASE q = "anthropic"
    BY <1>3 DEF BuiltFinish, ReadFinish, FinishesOf, NativeFinish, Providers, Outcomes,
       FinishToAnthropic, LosesRefusal
<1>4. CASE q = "google"
    BY <1>4 DEF BuiltFinish, ReadFinish, FinishesOf, NativeFinish, Providers, Outcomes,
       FinishToGoogle, GoogleReasons, LosesRefusal
<1> QED BY <1>1, <1>2, <1>3, <1>4 DEF Providers

(***************************************************************************)
(* The inductive invariant                                                 *)
(***************************************************************************)

IsResponse(r) ==
    DOMAIN r = {"text", "provider", "model", "usage", "finish", "cost", "raw", "dump"}

\* Request and response are records of which steps change single fields.
Typed ==
    /\ TypeOK
    /\ call \in Calls
    /\ pc # "called" => "origin" \in DOMAIN request
    /\ pc \in {"answered", "accepted", "recalled"} => IsResponse(response)

\* What earlier attempts cost is what was billed for them; the cost of an answer is
\* added to it when the answer is accepted or asked again.
CostsAddUp ==
    /\ spent.cost \in Int \union {None}
    /\ attempt = 0 /\ pc # "raised" => spent.cost = 0
    /\ pc \in {"called", "screen", "pick", "sent", "retry"} => billed.cost = spent.cost
    /\ pc = "answered" => /\ response.cost \in Int \union {None}
                          /\ billed.cost = PlusCost(spent.cost, response.cost)
    /\ pc = "accepted" => response.cost = billed.cost

\* A reply of the provider that gave the last answer.
IsOfAnswer(reply) ==
    /\ reply.q = response.provider
    /\ reply.parts = answer.parts
    /\ reply.finish \in FinishesOf(response.provider)[answer.outcome]

\* The response says what the last answer said, and so do its forms of the provider's own.
AnswerRead ==
    pc \in {"answered", "accepted", "recalled"} =>
        /\ answer \in call.answers
        /\ response.text = TextOfParts(answer.parts)
        /\ \E finish \in FinishesOf(response.provider)[answer.outcome] :
             response.finish = ReadFinish(response.provider, finish)
        /\ \A reply \in {response.raw, response.dump} : reply # None => IsOfAnswer(reply)

\* The same of tokens as of costs, up to the end.
TokensAddUp ==
    /\ spent.usage \in Bills
    /\ attempt = 0 /\ pc # "raised" => TotalTokens(spent.usage) = 0
    /\ pc \in {"called", "screen", "pick", "sent", "retry"} =>
         billed.tokens = TotalTokens(spent.usage)
    /\ pc \in {"answered", "accepted", "recalled"} => response.usage \in Bills
    /\ pc = "answered" =>
         billed.tokens = TotalTokens(spent.usage) + TotalTokens(response.usage)
    /\ pc \in {"accepted", "recalled"} => billed.tokens = TotalTokens(response.usage)

Inv == /\ Typed /\ RetriedOnceReset /\ CostsAddUp
       /\ AnswerRead /\ TokensAddUp /\ ReplyReadsTheSame

\* The target whose turn it is, is one of the call's.
LEMMA TargetTyped ==
    ASSUME Typed
    PROVE  /\ Target \in CallTargets
           /\ Target.provider \in Providers /\ Target.model \in ModelNames
<1>1. PICK T : T = [provider : Providers, model : ModelNames]
    OBVIOUS
<1>2. call \in Calls /\ index \in DOMAIN call.targets
    BY DEF Typed, TypeOK
<1>3. call.targets \in Seq(T)
    BY <1>1, <1>2, CallsAssumption
<1>4. Target \in T
    BY <1>2, <1>3 DEF Target
<1> QED BY <1>1, <1>2, <1>4 DEF CallTargets, Target

\* A call begins with nothing asked, answered or spent.
LEMMA InitInv == Init => Inv
<1> SUFFICES ASSUME Init PROVE Inv
    OBVIOUS
<1>1. /\ call \in Calls /\ pc = "called" /\ index = 1 /\ tries = 0 /\ attempt = 0
      /\ spent = NoSpending /\ billed = [tokens |-> 0, cost |-> 0] /\ waits = {}
    BY DEF Init
<1>2. /\ call.targets \in Seq([provider : Providers, model : ModelNames])
      /\ call.targets # <<>>
      /\ call.attempts \in Nat \ {0} /\ call.retry.retries \in Nat
    BY <1>1, CallsAssumption
<1>3. 1 \in DOMAIN call.targets
  <2>1. Len(call.targets) \in Nat /\ Len(call.targets) # 0
    BY <1>2
  <2> QED BY <1>2, <2>1
<1>4. Typed
    BY <1>1, <1>2, <1>3 DEF Typed, TypeOK
<1>5. spent.cost = 0 /\ billed.cost = 0
    BY <1>1 DEF NoSpending
<1>6. CostsAddUp
    BY <1>1, <1>5 DEF CostsAddUp
<1>7. RetriedOnceReset
    BY <1>1 DEF RetriedOnceReset
<1>8. spent.usage \in Bills /\ TotalTokens(spent.usage) = 0 /\ billed.tokens = 0
    BY <1>1 DEF NoSpending, Usage, Bills, TotalTokens
<1>9. TokensAddUp
    BY <1>1, <1>8 DEF TokensAddUp
<1>10. AnswerRead /\ ReplyReadsTheSame
    BY <1>1 DEF AnswerRead, ReplyReadsTheSame
<1> QED BY <1>4, <1>6, <1>7, <1>9, <1>10 DEF Inv

\* Steps keep the types.
LEMMA TypedStep ==
    ASSUME Typed, [Next]_vars
    PROVE  Typed'
<1> USE DEF Typed, TypeOK, IsResponse
<1>0. /\ call.attempts \in Nat \ {0} /\ call.retry.retries \in Nat
      /\ Len(call.targets) \in Nat /\ DOMAIN call.targets = 1..Len(call.targets)
  <2>1. PICK T : T = [provider : Providers, model : ModelNames]
    OBVIOUS
  <2>2. call.targets \in Seq(T)
    BY <2>1, CallsAssumption
  <2> QED BY <2>2, CallsAssumption
<1>1. CASE Receive
  <2>1. request'.origin = call.caller /\ "origin" \in DOMAIN request'
    BY <1>1 DEF Receive, ParseNativeRequest, Request
  <2> QED BY <1>1, <2>1 DEF Receive
<1>2. CASE Block
    BY <1>2 DEF Block
<1>3. CASE Screen
  <2>1. \A pii, r : /\ RedactRequest(request, pii, r).origin = request.origin
                    /\ "origin" \in DOMAIN RedactRequest(request, pii, r)
    BY <1>3 DEF Screen, RedactRequest
  <2>2. request'.origin = request.origin /\ "origin" \in DOMAIN request'
    BY <1>3, <2>1 DEF Screen
  <2> QED BY <1>3, <2>2 DEF Screen
<1>4. CASE SkipTarget
    BY <1>0, <1>4 DEF SkipTarget, NextTarget
<1>5. CASE Send
    BY <1>5 DEF Send
<1>6. CASE Answer
  <2>1. PICK a \in call.answers : \E finish :
          response' = [Parsed(Target, a, finish) EXCEPT
                          !.cost = CostOfResponse(Target, Parsed(Target, a, finish))]
    BY <1>6 DEF Answer, Parsed
  <2>2. PICK parsed : /\ \E finish : parsed = Parsed(Target, a, finish)
                      /\ response' = [parsed EXCEPT !.cost = CostOfResponse(Target, parsed)]
    BY <2>1
  <2>3. /\ parsed.provider = Target.provider
        /\ IsResponse(parsed)
    BY <2>2 DEF Parsed, ParseResponse, Response
  <2>4. /\ response'.provider = Target.provider
        /\ IsResponse(response')
    BY <2>2, <2>3
  <2>5. Target' = Target
    BY <1>6 DEF Answer, Target
  <2> QED BY <1>6, <2>4, <2>5 DEF Answer
<1>7. CASE Fail
  <2>1. \/ tries < call.retry.retries /\ tries' = tries + 1 /\ index' = index /\ pc' = "retry"
        \/ NextTarget
        \/ pc' = "raised" /\ UNCHANGED <<index, tries>>
    BY <1>7 DEF Fail
  <2>2. UNCHANGED <<call, request, attempt>> /\ pc = "sent"
    BY <1>7 DEF Fail
  <2> QED BY <1>0, <2>1, <2>2 DEF NextTarget
<1>8. CASE Reask
  <2>1. CASE attempt + 1 >= call.attempts
    BY <1>8, <2>1 DEF Reask
  <2>2. CASE ~(attempt + 1 >= call.attempts)
    <3>1. \A m : /\ AppendMessages(request, m).origin = request.origin
                 /\ "origin" \in DOMAIN AppendMessages(request, m)
      BY <1>8 DEF Reask, AppendMessages
    <3>2. request'.origin = request.origin /\ "origin" \in DOMAIN request'
      BY <1>8, <2>2, <3>1 DEF Reask
    <3>3. /\ pc' = "pick" /\ index' = 1 /\ tries' = 0 /\ attempt' = attempt + 1
          /\ call' = call /\ pc = "answered"
      BY <1>8, <2>2 DEF Reask
    <3> QED BY <1>0, <2>2, <3>2, <3>3
  <2> QED BY <2>1, <2>2
<1>9. CASE Accept
  <2>1. /\ response'.provider = response.provider
        /\ IsResponse(response')
    BY <1>9 DEF Accept
  <2>2. Target' = Target
    BY <1>9 DEF Accept, Target
  <2> QED BY <1>9, <2>1, <2>2 DEF Accept
<1>10. CASE Recall
  <2>1. PICK recalled : recalled = Recalled(response)
    OBVIOUS
  <2>2. /\ recalled.provider = response.provider
        /\ IsResponse(recalled)
    BY <1>10, <2>1 DEF Recall, Recalled
  <2>3. /\ response'.provider = response.provider
        /\ IsResponse(response')
    BY <1>10, <2>1, <2>2 DEF Recall
  <2>4. Target' = Target
    BY <1>10 DEF Recall, Target
  <2> QED BY <1>10, <2>3, <2>4 DEF Recall
<1>11. CASE HandBack
  <2>1. Target' = Target
    BY <1>11 DEF HandBack, Target
  <2> QED BY <1>11, <2>1 DEF HandBack
<1>12. CASE UNCHANGED vars
    BY <1>12 DEF vars, Target
<1> QED BY <1>1, <1>2, <1>3, <1>4, <1>5, <1>6, <1>7, <1>8, <1>9, <1>10, <1>11, <1>12 DEF Next

\* Only a failure adds a wait, one its error wants.
LEMMA WaitsStep ==
    ASSUME Typed, RetriedOnceReset, [Next]_vars
    PROVE  RetriedOnceReset'
<1> DEFINE Respects(w) == call.retry.respect =>
             /\ \A t \in Wanted(w.error) : t <= w.wait
             /\ w.wait <= call.retry.longest \/ Wanted(w.error) = {}
<1>1. call \in Calls
    BY DEF Typed
<1>2. \A w \in waits : Respects(w)
    BY DEF RetriedOnceReset
<1>3. CASE Fail
  <2>1. PICK e \in call.errors :
          LET delays == Delays(tries, e, call.retry) IN
          waits' = waits \/ \E d \in delays : waits' = waits \union {[error |-> e, wait |-> d]}
    BY <1>3 DEF Fail
  <2>2. call' = call
    BY <1>3 DEF Fail
  <2>3. CASE waits' = waits
    BY <1>2, <2>2, <2>3 DEF RetriedOnceReset
  <2>4. CASE \E d \in Delays(tries, e, call.retry) : waits' = waits \union {[error |-> e, wait |-> d]}
    <3>1. PICK d \in Delays(tries, e, call.retry) :
            waits' = waits \union {[error |-> e, wait |-> d]}
      BY <2>4
    <3>2. PICK w : w = [error |-> e, wait |-> d]
      OBVIOUS
    <3>3. w.error = e /\ w.wait = d
      BY <3>2
    <3>4. IsError(e) /\ call.retry.longest \in Int
      BY <1>1, CallsAssumption
    <3>5. Respects(w)
      BY <3>3, <3>4, DelaysAsWanted
    <3>6. \A v \in waits' : Respects(v)
      BY <1>2, <3>1, <3>2, <3>5
    <3> QED BY <2>2, <3>6 DEF RetriedOnceReset
  <2> QED BY <2>1, <2>3, <2>4
<1>4. CASE waits' = waits /\ call' = call
    BY <1>2, <1>4 DEF RetriedOnceReset
<1>5. [Next]_vars => Fail \/ (waits' = waits /\ call' = call)
    BY DEF Next, vars, history, Receive, Block, Screen, SkipTarget, Send, Answer, Reask, Accept,
           Recall, HandBack
<1> QED BY <1>3, <1>4, <1>5

\* The target's model answers a, and says why it ended with finish.
AnswersWith(a, finish) ==
    /\ finish \in FinishesOf(Target.provider)[a.outcome]
    /\ response' = [Parsed(Target, a, finish) EXCEPT
                        !.cost = CostOfResponse(Target, Parsed(Target, a, finish))]
    /\ answer' = a
    /\ billed' = [tokens |-> billed.tokens + TotalTokens(BilledUsage(Target.provider, a.bill)),
                  cost   |-> PlusCost(billed.cost, Bill(Target, a))]

\* What Answer does, in these terms.
LEMMA AnswerMade ==
    ASSUME Answer
    PROVE  \E a \in call.answers : \E finish : AnswersWith(a, finish)
BY DEF Answer, AnswersWith, Parsed, Bill

\* An answer adds to what is billed and becomes the response; accepting it, or asking
\* again, adds its cost to what was spent.
LEMMA CostsStep ==
    ASSUME Typed, CostsAddUp, [Next]_vars
    PROVE  CostsAddUp'
<1> USE DEF CostsAddUp
<1>1. None \notin Int /\ call \in Calls /\ attempt \in 0 .. call.attempts - 1
    BY NoneAssumption DEF Typed, TypeOK
<1>2. \A a, b \in Int \union {None} : PlusCost(a, b) \in Int \union {None}
    BY DEF PlusCost
<1>3. \A b \in Int \union {None} : PlusCost(0, b) = b
    BY <1>1 DEF PlusCost
<1>4. CASE Receive
    BY <1>4 DEF Receive, history
<1>5. CASE Block
    BY <1>5 DEF Block, history
<1>6. CASE Screen
    BY <1>6 DEF Screen
<1>7. CASE SkipTarget
    BY <1>7 DEF SkipTarget, NextTarget, history
<1>8. CASE Send
    BY <1>8 DEF Send
<1>9. CASE Answer
  <2>1. PICK a \in call.answers : \E finish : AnswersWith(a, finish)
    BY <1>9, AnswerMade
  <2>0. PICK finish : AnswersWith(a, finish)
    BY <2>1
  <2>2. a.bill \in Bills
    BY <1>1, CallsAssumption
  <2>3. /\ CostOfResponse(Target, Parsed(Target, a, finish)) = Bill(Target, a)
        /\ Bill(Target, a) \in Int \union {None}
    BY <2>2, TargetTyped, CostIsBill
  <2>4. "cost" \in DOMAIN Parsed(Target, a, finish)
    BY DEF Parsed, ParseResponse, Response
  <2>5. response'.cost = Bill(Target, a) /\ billed'.cost = PlusCost(billed.cost, Bill(Target, a))
    BY <2>0, <2>3, <2>4 DEF AnswersWith
  <2>6. /\ pc = "sent" /\ pc' = "answered"
        /\ UNCHANGED <<spent, attempt>>
    BY <1>9 DEF Answer
  <2> QED BY <2>3, <2>5, <2>6
<1>10. CASE Fail
  <2>1. /\ pc = "sent" /\ pc' \in {"retry", "pick", "raised"}
        /\ UNCHANGED <<spent, attempt, billed>>
    BY <1>10 DEF Fail, NextTarget
  <2> QED BY <2>1
<1>11. CASE Reask
  <2>1. spent'.cost = PlusCost(spent.cost, response.cost)
    BY <1>11 DEF Reask, Spending
  <2>2. spent'.cost \in Int \union {None} /\ billed'.cost = spent'.cost
    BY <1>2, <1>11, <2>1 DEF Reask
  <2>3. \/ pc' = "raised"
        \/ pc' = "pick" /\ attempt' # 0
    <3>1. call.attempts \in Nat
      BY <1>1, CallsAssumption
    <3>2. attempt \in Nat
      BY <1>1, <3>1
    <3>3. attempt + 1 # 0
      BY <3>2
    <3> QED BY <1>11, <3>3 DEF Reask
  <2> QED BY <2>2, <2>3
<1>12. CASE Accept
  <2>1. /\ pc = "answered" /\ pc' = "accepted"
        /\ UNCHANGED <<spent, attempt, billed>>
    BY <1>12 DEF Accept, history
  <2>2. CASE attempt = 0
    <3>1. response'.cost = response.cost
      BY <1>12, <2>2 DEF Accept
    <3>2. billed.cost = response.cost
      BY <1>3, <2>1, <2>2
    <3> QED BY <2>1, <3>1, <3>2
  <2>3. CASE attempt # 0
    <3>1. response'.cost = PlusCost(spent.cost, response.cost)
      BY <1>12, <2>1, <2>3 DEF Accept, Spending, Typed, IsResponse
    <3> QED BY <2>1, <2>3, <3>1
  <2> QED BY <2>2, <2>3
<1>13. CASE Recall
    BY <1>13 DEF Recall, history
<1>14. CASE HandBack
    BY <1>14 DEF HandBack, history
<1>15. CASE UNCHANGED vars
    BY <1>15 DEF vars, history
<1> QED BY <1>4, <1>5, <1>6, <1>7, <1>8, <1>9, <1>10, <1>11, <1>12, <1>13, <1>14, <1>15 DEF Next

\* A finish reason as an adapter reads it.
LEMMA FinishRead ==
    ASSUME NEW q \in Providers, NEW outcome \in Outcomes,
           NEW reply, reply.finish \in FinishesOf(q)[outcome], reply.calls = FALSE
    PROVE  FinishOf(q, reply) = ReadFinish(q, reply.finish)
<1>1. CASE q # "openai-responses"
    BY <1>1 DEF FinishOf, ReadFinish
<1>2. CASE q = "openai-responses"
    BY <1>2 DEF FinishOf, ReadFinish, FinishesOf, NativeFinish, Outcomes
<1> QED BY <1>1, <1>2

\* What Answer makes of an answer.
LEMMA AnswerParsed ==
    ASSUME NEW target, target.provider \in Providers, NEW a, a.bill \in Bills,
           a.outcome \in Outcomes, NEW finish \in FinishesOf(target.provider)[a.outcome],
           NEW parsed, parsed = Parsed(target, a, finish)
    PROVE  /\ IsResponse(parsed)
           /\ parsed.provider = target.provider
           /\ parsed.text = TextOfParts(a.parts)
           /\ parsed.usage = BilledUsage(target.provider, a.bill)
           /\ parsed.finish = ReadFinish(target.provider, finish)
           /\ \A reply \in {parsed.raw, parsed.dump} : reply # None =>
                /\ reply.q = target.provider
                /\ reply.parts = a.parts
                /\ reply.finish \in FinishesOf(target.provider)[a.outcome]
<1>1. PICK q \in Providers : q = target.provider
    OBVIOUS
<1>2. PICK native : native = NativeReply(target, a, finish)
    OBVIOUS
<1>3. /\ native.q = q /\ native.parts = a.parts /\ native.calls = FALSE
      /\ native.finish = finish
      /\ native.counters = NativeCounters(q, a.bill)
    BY <1>1, <1>2 DEF NativeReply, Reply
<1>4. PICK read : read = FinishOf(q, native)
    OBVIOUS
<1>5. read = ReadFinish(q, finish)
    BY <1>1, <1>3, <1>4, FinishRead
<1>6. PICK usage : usage = UsageOf(q, native.counters)
    OBVIOUS
<1>7. usage = BilledUsage(q, a.bill)
    BY <1>3, <1>6, CountersRead
<1>8. PICK text : text = TextOfParts(native.parts)
    OBVIOUS
<1>9. /\ IsResponse(parsed)
      /\ parsed.provider = q /\ parsed.text = text /\ parsed.usage = usage
      /\ parsed.finish = read /\ parsed.raw = native /\ parsed.dump \in {native, None}
    BY <1>1, <1>2, <1>4, <1>6, <1>8
    DEF Parsed, ParseResponse, Response, ReplyText, IsResponse
<1> QED BY <1>1, <1>3, <1>5, <1>7, <1>8, <1>9

\* An answer is read as it was given, and stays so until it is handed back.
LEMMA AnswerStep ==
    ASSUME Typed, AnswerRead, [Next]_vars
    PROVE  AnswerRead'
<1> USE DEF AnswerRead, IsOfAnswer
<1>1. call \in Calls
    BY DEF Typed
<1>2. CASE Answer
  <2>1. PICK a \in call.answers : \E finish : AnswersWith(a, finish)
    BY <1>2, AnswerMade
  <2>0. PICK finish : AnswersWith(a, finish)
    BY <2>1
  <2>2. a.bill \in Bills /\ a.outcome \in Outcomes
    BY <1>1, CallsAssumption DEF Outcomes
  <2>3. PICK parsed : parsed = Parsed(Target, a, finish)
    OBVIOUS
  <2>a. finish \in FinishesOf(Target.provider)[a.outcome] /\ answer' = a
    BY <2>0 DEF AnswersWith
  <2>4. /\ IsResponse(parsed)
        /\ parsed.provider = Target.provider
        /\ parsed.text = TextOfParts(a.parts)
        /\ parsed.finish = ReadFinish(Target.provider, finish)
        /\ \A reply \in {parsed.raw, parsed.dump} : reply # None =>
             /\ reply.q = Target.provider
             /\ reply.parts = a.parts
             /\ reply.finish \in FinishesOf(Target.provider)[a.outcome]
    BY <2>2, <2>3, <2>a, TargetTyped, AnswerParsed
  <2>5. /\ response'.provider = parsed.provider /\ response'.text = parsed.text
        /\ response'.finish = parsed.finish
        /\ response'.raw = parsed.raw /\ response'.dump = parsed.dump
    BY <2>0, <2>3, <2>4 DEF AnswersWith, IsResponse
  <2>6. call' = call
    BY <1>2 DEF Answer
  <2> QED BY <2>1, <2>4, <2>5, <2>6, <2>a
<1>3. CASE Accept
  <2>1. /\ UNCHANGED <<call, answer>>
        /\ pc = "answered"
    BY <1>3 DEF Accept, history
  <2>2. /\ response'.provider = response.provider /\ response'.text = response.text
        /\ response'.finish = response.finish
        /\ response'.raw = response.raw /\ response'.dump = response.dump
    BY <1>3, <2>1 DEF Accept, Typed, IsResponse
  <2> QED BY <2>1, <2>2
<1>4. CASE Recall
  <2>1. /\ UNCHANGED <<call, answer>>
        /\ pc = "accepted"
    BY <1>4 DEF Recall, history
  <2>2. PICK recalled : recalled = Recalled(response)
    OBVIOUS
  <2>3. /\ IsResponse(recalled)
        /\ recalled.provider = response.provider /\ recalled.text = response.text
        /\ recalled.finish = response.finish
        /\ recalled.raw = None /\ recalled.dump = response.dump
    BY <2>1, <2>2 DEF Recalled, Typed, IsResponse
  <2>4. /\ response'.provider = recalled.provider /\ response'.text = recalled.text
        /\ response'.finish = recalled.finish
        /\ response'.raw = recalled.raw /\ response'.dump = recalled.dump
    BY <1>4, <2>2, <2>3 DEF Recall, IsResponse
  <2> QED BY <2>1, <2>3, <2>4
<1>5. CASE UNCHANGED vars
    BY <1>5 DEF vars, history
<1>6. [Next]_vars => \/ Answer \/ Accept \/ Recall \/ UNCHANGED vars
                     \/ pc' \notin {"answered", "accepted", "recalled"}
    BY DEF Next, Receive, Block, Screen, SkipTarget, NextTarget, Send, Fail, Reask, HandBack
<1> QED BY <1>2, <1>3, <1>4, <1>5, <1>6

\* The sum of two attempts' usage.
LEMMA UsageAdds ==
    ASSUME NEW u \in Bills, NEW v \in Bills
    PROVE  /\ PlusUsage(u, v) \in Bills
           /\ TotalTokens(PlusUsage(u, v)) = TotalTokens(u) + TotalTokens(v)
           /\ TotalTokens(u) \in Int
BY DEF PlusUsage, Usage, Bills, TotalTokens

\* Tokens are added like costs; what comes out of the cache has the counters it had.
LEMMA TokensStep ==
    ASSUME Typed, TokensAddUp, [Next]_vars
    PROVE  TokensAddUp'
<1> USE DEF TokensAddUp
<1>1. call \in Calls /\ attempt \in 0 .. call.attempts - 1
    BY DEF Typed, TypeOK
<1>2. CASE Receive
    BY <1>2 DEF Receive, history
<1>3. CASE Block
    BY <1>3 DEF Block, history
<1>4. CASE Screen
    BY <1>4 DEF Screen
<1>5. CASE SkipTarget
    BY <1>5 DEF SkipTarget, NextTarget, history
<1>6. CASE Send
    BY <1>6 DEF Send
<1>7. CASE Answer
  <2>1. PICK a \in call.answers : \E finish : AnswersWith(a, finish)
    BY <1>7, AnswerMade
  <2>0. PICK finish : AnswersWith(a, finish)
    BY <2>1
  <2>2. a.bill \in Bills /\ a.outcome \in Outcomes
    BY <1>1, CallsAssumption DEF Outcomes
  <2>3. PICK parsed : parsed = Parsed(Target, a, finish)
    OBVIOUS
  <2>a. finish \in FinishesOf(Target.provider)[a.outcome]
    BY <2>0 DEF AnswersWith
  <2>4. IsResponse(parsed) /\ parsed.usage = BilledUsage(Target.provider, a.bill)
    BY <2>2, <2>3, <2>a, TargetTyped, AnswerParsed
  <2>5. BilledUsage(Target.provider, a.bill) \in Bills
    BY <2>2, TargetTyped, CountersRead
  <2>6. response'.usage = parsed.usage
    BY <2>0, <2>3, <2>4 DEF AnswersWith, IsResponse
  <2>7. billed'.tokens = billed.tokens + TotalTokens(parsed.usage)
    BY <2>0, <2>4 DEF AnswersWith
  <2>8. /\ pc = "sent" /\ pc' = "answered"
        /\ UNCHANGED <<spent, attempt>>
    BY <1>7 DEF Answer
  <2> QED BY <2>4, <2>5, <2>6, <2>7, <2>8
<1>8. CASE Fail
  <2>1. /\ pc = "sent" /\ pc' \in {"retry", "pick", "raised"}
        /\ UNCHANGED <<spent, attempt, billed>>
    BY <1>8 DEF Fail, NextTarget
  <2> QED BY <2>1
<1>9. CASE Reask
  <2>1. spent'.usage = PlusUsage(spent.usage, response.usage) /\ pc = "answered"
    BY <1>9 DEF Reask, Spending
  <2>2. spent'.usage \in Bills /\ billed'.tokens = TotalTokens(spent'.usage)
    BY <1>9, <2>1, UsageAdds DEF Reask
  <2>3. \/ pc' = "raised"
        \/ pc' = "pick" /\ attempt' # 0
    <3>1. call.attempts \in Nat
      BY <1>1, CallsAssumption
    <3>2. attempt \in Nat
      BY <1>1, <3>1
    <3>3. attempt + 1 # 0
      BY <3>2
    <3> QED BY <1>9, <3>3 DEF Reask
  <2> QED BY <2>2, <2>3
<1>10. CASE Accept
  <2>1. /\ pc = "answered" /\ pc' = "accepted"
        /\ UNCHANGED <<spent, attempt, billed>>
    BY <1>10 DEF Accept, history
  <2>2. TotalTokens(response.usage) \in Int /\ response.usage \in Bills
    BY <2>1, UsageAdds
  <2>3. CASE attempt = 0
    <3>1. response'.usage = response.usage
      BY <1>10, <2>3 DEF Accept
    <3>2. billed.tokens = TotalTokens(response.usage)
      BY <2>1, <2>2, <2>3
    <3> QED BY <2>1, <2>2, <2>3, <3>1, <3>2
  <2>4. CASE attempt # 0
    <3>1. response'.usage = PlusUsage(spent.usage, response.usage)
      BY <1>10, <2>1, <2>4 DEF Accept, Spending, Typed, IsResponse
    <3>2. /\ response'.usage \in Bills
          /\ TotalTokens(response'.usage) = TotalTokens(spent.usage) + TotalTokens(response.usage)
      BY <2>2, <3>1, UsageAdds
    <3> QED BY <2>1, <2>4, <3>2
  <2> QED BY <2>3, <2>4
<1>11. CASE Recall
  <2>1. /\ pc = "accepted" /\ pc' = "recalled"
        /\ UNCHANGED <<spent, attempt, billed>>
    BY <1>11 DEF Recall, history
  <2>2. PICK recalled : recalled = Recalled(response)
    OBVIOUS
  <2>3. IsResponse(recalled) /\ recalled.usage = [response.usage EXCEPT !.reported = TRUE]
    BY <2>1, <2>2 DEF Recalled, Typed, IsResponse
  <2>4. response'.usage = recalled.usage
    BY <1>11, <2>2, <2>3 DEF Recall, IsResponse
  <2>5. /\ response'.usage \in Bills
        /\ TotalTokens(response'.usage) = TotalTokens(response.usage)
    BY <2>1, <2>3, <2>4 DEF Bills, TotalTokens
  <2> QED BY <2>1, <2>5
<1>12. CASE HandBack
    BY <1>12 DEF HandBack, history
<1>13. CASE UNCHANGED vars
    BY <1>13 DEF vars, history
<1> QED BY <1>2, <1>3, <1>4, <1>5, <1>6, <1>7, <1>8, <1>9, <1>10, <1>11, <1>12, <1>13 DEF Next

\* What is handed back: a reply of the provider's own where there is one, or one built.
LEMMA HandBackStep ==
    ASSUME Typed, AnswerRead, TokensAddUp, HandBack
    PROVE  ReplyReadsTheSame'
<1>1. /\ pc \in {"accepted", "recalled"} /\ call \in Calls
      /\ UNCHANGED <<call, response, answer, billed>>
    BY DEF HandBack, Typed, history
<1>2. /\ response.provider \in Providers
      /\ answer.outcome \in Outcomes /\ answer.parts \in Seq(ContentParts)
  <2>1. response.provider = Target.provider
    BY <1>1 DEF Typed, TypeOK
  <2>2. answer \in call.answers
    BY <1>1 DEF AnswerRead
  <2> QED BY <1>1, <2>1, <2>2, TargetTyped, CallsAssumption DEF Outcomes, ContentParts
<1>3. PICK q : q = IF call.via = "complete" THEN response.provider ELSE call.caller
    OBVIOUS
<1>4. q \in Providers /\ (call.via = "sdk" => q = call.caller)
    BY <1>1, <1>2, <1>3, CallsAssumption
<1>5. handed' = NativeFor(q, response)
    BY <1>3 DEF HandBack
<1>6. PICK reply : reply = handed'
    OBVIOUS
<1>7. PICK built : built = (reply.q # response.provider
                            \/ (response.raw = None /\ response.dump = None))
    OBVIOUS
<1>8. SUFFICES /\ reply.q = q
               /\ TextOfParts(reply.parts) = TextOfParts(answer.parts)
               /\ OutcomeOf(q, reply.finish) =
                    IF built /\ answer.outcome = "refused" /\ LosesRefusal(q, response.finish)
                    THEN "done" ELSE answer.outcome
               /\ built => reply.counters.total = billed.tokens
    BY <1>1, <1>4, <1>6, <1>7 DEF ReplyReadsTheSame
<1>9. CASE response.provider = q /\ (response.raw # None \/ response.dump # None)
  <2>1. reply \in {response.raw, response.dump} /\ reply # None
    BY <1>5, <1>6, <1>9 DEF NativeFor
  <2>2. IsOfAnswer(reply)
    BY <1>1, <2>1 DEF AnswerRead
  <2>3. reply.q = q /\ reply.parts = answer.parts /\ reply.finish \in FinishesOf(q)[answer.outcome]
    BY <1>9, <2>2 DEF IsOfAnswer
  <2>4. ~built
    BY <1>7, <1>9, <2>3
  <2>5. OutcomeOf(q, reply.finish) = answer.outcome
    BY <1>2, <1>4, <2>3, OutcomesDiffer
  <2> QED BY <2>3, <2>4, <2>5
<1>10. CASE ~(response.provider = q /\ (response.raw # None \/ response.dump # None))
  <2>1. reply = BuildNative(q, response)
    BY <1>5, <1>6, <1>10 DEF NativeFor
  <2>2. /\ reply.q = q /\ reply.parts = <<Part("text", response.text)>>
        /\ reply.finish = BuiltFinish(q, response.finish)
        /\ reply.counters = CountersOf(q, response.usage)
    BY <2>1 DEF BuildNative, Reply, BuiltFinish
  <2>3. response.text = TextOfParts(answer.parts) /\ response.text \in Text
    BY <1>1, <1>2, AnswerHasText DEF AnswerRead
  <2>4. TextOfParts(reply.parts) = TextOfParts(answer.parts)
    BY <2>2, <2>3, OneText
  <2>5. built
    BY <1>7, <1>10, <2>2
  <2>6. PICK outcome \in Outcomes :
          outcome = IF answer.outcome = "refused" /\ LosesRefusal(q, response.finish) THEN "done"
                    ELSE answer.outcome
    BY <1>2 DEF Outcomes
  <2>7. PICK finish \in FinishesOf(response.provider)[answer.outcome] :
          response.finish = ReadFinish(response.provider, finish)
    BY <1>1 DEF AnswerRead
  <2>8. reply.finish \in FinishesOf(q)[outcome]
    BY <1>2, <1>4, <2>2, <2>6, <2>7, OutcomeKept
  <2>9. OutcomeOf(q, reply.finish) = outcome
    BY <1>4, <2>6, <2>8, OutcomesDiffer
  <2>10. response.usage \in Bills /\ billed.tokens = TotalTokens(response.usage)
    BY <1>1 DEF TokensAddUp
  <2>11. CountersOf(q, response.usage).total = TotalTokens(response.usage)
    BY <1>4, <2>10 DEF CountersOf, Counters, TotalTokens, Bills, Providers
  <2> QED BY <2>2, <2>4, <2>5, <2>6, <2>9, <2>10, <2>11
<1> QED BY <1>9, <1>10

\* After it is handed back nothing changes.
LEMMA ReplyStep ==
    ASSUME Typed, AnswerRead, TokensAddUp, ReplyReadsTheSame, [Next]_vars
    PROVE  ReplyReadsTheSame'
<1>1. CASE HandBack
    BY <1>1, HandBackStep
<1>2. CASE UNCHANGED vars
    BY <1>2 DEF ReplyReadsTheSame, vars, history
<1>3. [Next]_vars => HandBack \/ UNCHANGED vars \/ pc' # "returned"
    BY DEF Next, Receive, Block, Screen, SkipTarget, NextTarget, Send, Answer, Fail, Reask,
           Accept, Recall
<1>4. CASE pc' # "returned"
    BY <1>4 DEF ReplyReadsTheSame
<1> QED BY <1>1, <1>2, <1>3, <1>4

(***************************************************************************)
(* Folds, selections and joined texts                                      *)
(***************************************************************************)

\* h follows a fold over the elements of S: those of a set but the one picked first, then
\* that one.
FollowsPicks(h, S, base, pick, step) ==
    \A s \in SUBSET S : h[s] = IF s = {} THEN base ELSE step[pick[s]][h[s \ {pick[s]}]]

\* Some function follows a fold over a finite set.
LEMMA PicksDefineAFunction ==
    ASSUME NEW S, IsFiniteSet(S), NEW T, NEW base \in T, NEW pick, NEW step,
           \A s \in SUBSET S : s # {} => pick[s] \in s,
           \A x \in S : \A t \in T : step[x][t] \in T
    PROVE  \E h \in [SUBSET S -> T] : FollowsPicks(h, S, base, pick, step)
<1>1. PICK N \in Nat : N = Cardinality(S)
    BY FS_CardinalityType
<1>2. PICK F : F = [SUBSET S -> T]
    OBVIOUS
<1> DEFINE Next1(g, s) == IF s = {} THEN base ELSE step[pick[s]][g[s \ {pick[s]}]]
<1>3. PICK more : more = [n \in 1..(N + 1) |-> [g \in F |-> [s \in SUBSET S |-> Next1(g, s)]]]
    OBVIOUS
<1>4. \A n \in 1..(N + 1) : \A g \in F :
         more[n][g] = [s \in SUBSET S |-> Next1(g, s)] /\ more[n][g] \in F
  <2> SUFFICES ASSUME NEW n \in 1..(N + 1), NEW g \in F
               PROVE  more[n][g] = [s \in SUBSET S |-> Next1(g, s)] /\ more[n][g] \in F
    OBVIOUS
  <2>1. more[n][g] = [s \in SUBSET S |-> Next1(g, s)]
    BY <1>3
  <2>2. ASSUME NEW s \in SUBSET S
        PROVE  Next1(g, s) \in T
    <3>1. CASE s = {}
      BY <3>1
    <3>2. CASE s # {}
      <4>1. pick[s] \in S /\ s \ {pick[s]} \in SUBSET S
        BY <3>2
      <4>2. g[s \ {pick[s]}] \in T
        BY <4>1, <1>2
      <4> QED BY <3>2, <4>1, <4>2
    <3> QED BY <3>1, <3>2
  <2> QED BY <2>1, <2>2, <1>2
<1>5. PICK first : first = [s \in SUBSET S |-> base]
    OBVIOUS
<1>6. first \in F
    BY <1>2, <1>5
<1>7. PICK G \in [0..(N + 1) -> F] : FollowsSteps(G, N + 1, first, more)
  <2>1. StepsWithin(N + 1, F, more)
    BY <1>4 DEF StepsWithin
  <2>2. N + 1 \in Nat
    OBVIOUS
  <2> QED BY <1>6, <2>1, <2>2, StepsDefineAFunction, Zenon
<1>8. \A n \in 1..(N + 1) : G[n - 1] \in F /\ \A s \in SUBSET S : G[n][s] = Next1(G[n - 1], s)
  <2> SUFFICES ASSUME NEW n \in 1..(N + 1), NEW s \in SUBSET S
               PROVE  G[n - 1] \in F /\ G[n][s] = Next1(G[n - 1], s)
    OBVIOUS
  <2>1. n - 1 \in 0..(N + 1)
    OBVIOUS
  <2>2. G[n - 1] \in F /\ G[n] = more[n][G[n - 1]]
    BY <1>7, <2>1 DEF FollowsSteps
  <2>3. G[n] = [z \in SUBSET S |-> Next1(G[n - 1], z)]
    BY <1>4, <2>2
  <2> QED BY <2>2, <2>3
<1> HIDE DEF Next1
<1> DEFINE Settled(n) == \A s \in SUBSET S : Cardinality(s) <= n => G[n + 1][s] = G[n][s]
           I == {n \in Nat : n <= N => Settled(n)}
<1>9. \A s \in SUBSET S : IsFiniteSet(s) /\ Cardinality(s) \in Nat /\ Cardinality(s) <= N
    BY <1>1, FS_Subset, FS_CardinalityType
<1>10. \A n \in 1..(N + 1) : \A s \in SUBSET S : s = {} => G[n][s] = base
    BY <1>8 DEF Next1
<1>11. G[0] = first
    BY <1>7 DEF FollowsSteps
<1>12. 0 \in I
  <2> SUFFICES ASSUME NEW s \in SUBSET S, Cardinality(s) <= 0
               PROVE  G[0 + 1][s] = G[0][s]
    OBVIOUS
  <2>1. s = {}
    BY <1>9, FS_EmptySet
  <2>2. G[0][s] = base
    BY <1>5, <1>11
  <2>3. 0 + 1 \in 1..(N + 1)
    OBVIOUS
  <2> QED BY <2>1, <2>2, <2>3, <1>10
<1>13. ASSUME NEW n \in Nat, n \in I
       PROVE  n + 1 \in I
  <2> SUFFICES ASSUME n + 1 <= N, NEW s \in SUBSET S, Cardinality(s) <= n + 1
               PROVE  G[(n + 1) + 1][s] = G[n + 1][s]
    OBVIOUS
  <2>1. /\ n + 1 \in 1..(N + 1) /\ (n + 1) - 1 = n
        /\ (n + 1) + 1 \in 1..(N + 1) /\ ((n + 1) + 1) - 1 = n + 1
    OBVIOUS
  <2>2. CASE s = {}
    BY <2>1, <2>2, <1>10
  <2>3. CASE s # {}
    <3>1. PICK r \in SUBSET S : r = s \ {pick[s]}
      OBVIOUS
    <3>2. Cardinality(r) <= n
      <4>1. Cardinality(r) = Cardinality(s) - 1
        BY <1>9, <2>3, <3>1, FS_RemoveElement
      <4> QED BY <1>9, <4>1
    <3>3. Settled(n)
      BY <1>13
    <3>4. G[n + 1][r] = G[n][r]
      BY <3>2, <3>3
    <3>5. G[n + 1][s] = Next1(G[n], s) /\ G[(n + 1) + 1][s] = Next1(G[n + 1], s)
      BY <1>8, <2>1
    <3>6. \A g : Next1(g, s) = step[pick[s]][g[r]]
      BY <2>3, <3>1 DEF Next1
    <3> QED BY <3>4, <3>5, <3>6
  <2> QED BY <2>2, <2>3
<1>14. Settled(N)
  <2>1. N \in I
    <3> HIDE DEF I
    <3> QED BY <1>12, <1>13, SetInduction
  <2> QED BY <2>1
<1>15. PICK h \in F : h = G[N]
    BY <1>7
<1>16. ASSUME NEW s \in SUBSET S
       PROVE  h[s] = IF s = {} THEN base ELSE step[pick[s]][h[s \ {pick[s]}]]
  <2>1. N + 1 \in 1..(N + 1) /\ (N + 1) - 1 = N
    OBVIOUS
  <2>2. G[N + 1][s] = Next1(G[N], s)
    BY <1>8, <2>1
  <2>3. G[N + 1][s] = G[N][s]
    BY <1>9, <1>14
  <2> QED BY <1>15, <2>2, <2>3 DEF Next1
<1>17. h \in [SUBSET S -> T]
    BY <1>2, <1>15
<1>18. FollowsPicks(h, S, base, pick, step)
    BY <1>16 DEF FollowsPicks
<1> QED BY <1>17, <1>18

\* The greatest of the first numbers is the last one, and what is left are those before.
LEMMA LastIndex ==
    ASSUME NEW n \in Nat \ {0}
    PROVE  Max(1..n) = n /\ (1..n) \ {n} = 1..(n - 1) /\ 1..n # {}
<1>1. n \in 1..n /\ \A y \in 1..n : n >= y
    OBVIOUS
<1>2. \A x \in 1..n : (\A y \in 1..n : x >= y) => x = n
    OBVIOUS
<1> QED BY <1>1, <1>2 DEF Max

\* The greatest of some numbers is one of them.
LEMMA MaxOfIndices ==
    ASSUME NEW N \in Nat, NEW s \in SUBSET (1..N), s # {}
    PROVE  Max(s) \in s /\ \A y \in s : Max(s) >= y
<1>1. IsFiniteSet(s)
  <2>1. IsFiniteSet(1..N)
    BY FS_Interval
  <2> QED BY <2>1, FS_Subset
<1>2. PICK f : f = [x \in s |-> x]
    OBVIOUS
<1>3. PICK x \in s : \A y \in s : f[y] <= f[x]
  <2>1. f \in [s -> Int]
    BY <1>2
  <2> QED BY <1>1, <2>1, GreatestValue
<1>4. x \in s /\ \A y \in s : x >= y
  <2>1. \A y \in s : y \in Int
    OBVIOUS
  <2> QED BY <1>2, <1>3, <2>1
<1> QED BY <1>4 DEF Max

\* h follows the steps of a fold over 1..N.
FoldsIndices(h, N, base, step) ==
    \A s \in SUBSET (1..N) : h[s] = IF s = {} THEN base ELSE step[Max(s)][h[s \ {Max(s)}]]

\* A fold over a sequence of N values, from the left, follows its steps.
LEMMA IndexFold ==
    ASSUME NEW N \in Nat, NEW T, NEW base \in T, NEW step, StepsWithin(N, T, step)
    PROVE  \E h \in [SUBSET (1..N) -> T] : FoldsIndices(h, N, base, step)
<1>0. IsFiniteSet(1..N)
    BY FS_Interval
<1>1. PICK pick : pick = [s \in SUBSET (1..N) |-> Max(s)]
    OBVIOUS
<1>2. ASSUME NEW s \in SUBSET (1..N), s # {}
      PROVE  pick[s] \in s
    BY <1>1, <1>2, MaxOfIndices
<1>4. \A x \in 1..N : \A t \in T : step[x][t] \in T
    BY DEF StepsWithin
<1>5. PICK h \in [SUBSET (1..N) -> T] : FollowsPicks(h, 1..N, base, pick, step)
    BY <1>0, <1>2, <1>4, PicksDefineAFunction
<1> QED BY <1>1, <1>5 DEF FollowsPicks, FoldsIndices

\* f selects the elements of s that are in S.
Selects(f, s, N, S) ==
    f[0] = <<>> /\ \A n \in 1..N : f[n] = IF s[n] \in S THEN Append(f[n - 1], s[n]) ELSE f[n - 1]

\* The values of a sequence, and with one more.
LEMMA ValuesAppended ==
    ASSUME NEW X, NEW seq \in Seq(X), NEW x \in X
    PROVE  /\ Append(seq, x) \in Seq(X)
           /\ ToSet(Append(seq, x)) = ToSet(seq) \union {x}
<1>1. PICK N \in Nat : N = Len(seq) /\ DOMAIN seq = 1..N
    OBVIOUS
<1>2. PICK more : more = Append(seq, x)
    OBVIOUS
<1>3. /\ more \in Seq(X) /\ Len(more) = N + 1 /\ DOMAIN more = 1..(N + 1)
      /\ more[N + 1] = x /\ \A i \in 1..N : more[i] = seq[i]
    BY <1>1, <1>2
<1>4. \A i \in 1..(N + 1) : i \in 1..N \/ i = N + 1
    OBVIOUS
<1>5. \A i \in 1..N : i \in 1..(N + 1)
    OBVIOUS
<1>6. N + 1 \in 1..(N + 1)
    OBVIOUS
<1>7. ToSet(more) = ToSet(seq) \union {x}
    BY <1>1, <1>3, <1>4, <1>5, <1>6 DEF ToSet
<1> QED BY <1>2, <1>3, <1>7

\* The values of two sequences, one after the other.
LEMMA ValuesJoined ==
    ASSUME NEW X, NEW r \in Seq(X), NEW s \in Seq(X)
    PROVE  r \o s \in Seq(X) /\ ToSet(r \o s) = ToSet(r) \union ToSet(s)
<1>1. PICK M \in Nat : M = Len(r) /\ DOMAIN r = 1..M
    OBVIOUS
<1>2. PICK N \in Nat : N = Len(s) /\ DOMAIN s = 1..N
    OBVIOUS
<1>3. PICK t : t = r \o s
    OBVIOUS
<1>4. /\ t \in Seq(X) /\ DOMAIN t = 1..(M + N)
      /\ \A i \in 1..(M + N) : t[i] = IF i <= M THEN r[i] ELSE s[i - M]
    BY <1>1, <1>2, <1>3
<1>5. \A i \in 1..(M + N) : (i <= M /\ i \in 1..M) \/ (~(i <= M) /\ i - M \in 1..N)
    OBVIOUS
<1>6. ASSUME NEW i \in 1..M
      PROVE  i \in 1..(M + N) /\ t[i] = r[i]
    BY <1>4
<1>7. ASSUME NEW i \in 1..N
      PROVE  M + i \in 1..(M + N) /\ t[M + i] = s[i]
  <2>1. M + i \in 1..(M + N) /\ ~(M + i <= M) /\ (M + i) - M = i
    OBVIOUS
  <2> QED BY <1>4, <2>1
<1>8. ToSet(t) \subseteq ToSet(r) \union ToSet(s)
    BY <1>1, <1>2, <1>4, <1>5 DEF ToSet
<1>9. ToSet(r) \subseteq ToSet(t)
    BY <1>1, <1>4, <1>6 DEF ToSet
<1>10. ToSet(s) \subseteq ToSet(t)
    BY <1>2, <1>4, <1>7 DEF ToSet
<1> QED BY <1>3, <1>4, <1>8, <1>9, <1>10

\* The values of a sequence are values of its type, of one with a length.
LEMMA ValuesTyped ==
    ASSUME NEW X, NEW s \in Seq(X)
    PROVE  ToSet(s) \subseteq X /\ \A i \in DOMAIN s : s[i] \in X /\ s[i] \in ToSet(s)
BY DEF ToSet

\* A sequence whose values are in S is one over S.
LEMMA SeqOfValues ==
    ASSUME NEW X, NEW s \in Seq(X), NEW S, ToSet(s) \subseteq S
    PROVE  s \in Seq(S)
<1>1. PICK N \in Nat : N = Len(s) /\ DOMAIN s = 1..N
    OBVIOUS
<1>2. \A i \in 1..N : s[i] \in S
    BY <1>1 DEF ToSet
<1>3. s = [i \in 1..N |-> s[i]]
    BY <1>1
<1>4. s \in [1..N -> S]
    BY <1>2, <1>3
<1> QED BY <1>4

\* What is selected are the elements that are in the set.
LEMMA SelectedValues ==
    ASSUME NEW X, NEW s \in Seq(X), NEW N \in Nat, N = Len(s), NEW S,
           NEW f, Selects(f, s, N, S)
    PROVE  f[N] \in Seq(X) /\ ToSet(f[N]) = ToSet(s) \intersect S
<1> DEFINE Among(n) == {s[k] : k \in 1..n} \intersect S
           Holds(n) == f[n] \in Seq(X) /\ ToSet(f[n]) = Among(n)
           I == {n \in Nat : n <= N => Holds(n)}
<1>1. 0 \in I
  <2>1. 1..0 = {}
    OBVIOUS
  <2>2. f[0] = <<>> /\ <<>> \in Seq(X)
    BY DEF Selects
  <2>3. ToSet(<<>>) = {}
    BY DEF ToSet
  <2>4. Among(0) = {}
    BY <2>1
  <2> QED BY <2>2, <2>3, <2>4
<1>2. ASSUME NEW n \in Nat, n \in I
      PROVE  n + 1 \in I
  <2> SUFFICES ASSUME n + 1 <= N PROVE Holds(n + 1)
    OBVIOUS
  <2>1. Holds(n)
    BY <1>2
  <2>2. n + 1 \in 1..N /\ (n + 1) - 1 = n
    OBVIOUS
  <2>3. 1..(n + 1) = (1..n) \union {n + 1}
    OBVIOUS
  <2>4. {s[k] : k \in 1..(n + 1)} = {s[k] : k \in 1..n} \union {s[n + 1]}
    BY <2>3
  <2>5. f[n + 1] = IF s[n + 1] \in S THEN Append(f[n], s[n + 1]) ELSE f[n]
    BY <2>2 DEF Selects
  <2>6. CASE s[n + 1] \in S
    <3>1. s[n + 1] \in X
      BY <2>2
    <3>2. f[n + 1] \in Seq(X) /\ ToSet(f[n + 1]) = ToSet(f[n]) \union {s[n + 1]}
      BY <2>1, <2>5, <2>6, <3>1, ValuesAppended
    <3>3. Among(n + 1) = Among(n) \union {s[n + 1]}
      BY <2>4, <2>6
    <3> QED BY <2>1, <3>2, <3>3
  <2>7. CASE s[n + 1] \notin S
    <3>1. Among(n + 1) = Among(n)
      BY <2>4, <2>7
    <3> QED BY <2>1, <2>5, <2>7, <3>1
  <2> QED BY <2>6, <2>7
<1>3. Holds(N)
  <2>1. N \in I
    <3> HIDE DEF I
    <3> QED BY <1>1, <1>2, SetInduction
  <2> QED BY <2>1
<1>4. DOMAIN s = 1..N
    OBVIOUS
<1> QED BY <1>3, <1>4 DEF ToSet

\* Only selects value by value.
LEMMA OnlySteps ==
    ASSUME NEW X, NEW s \in Seq(X), NEW S, NEW N \in Nat, N = Len(s)
    PROVE  \E f : /\ Selects(f, s, N, S) /\ Only(s, S) = f[N]
                 /\ \A n \in 0..N : f[n] \in Seq(X)
<1>2. PICK step : step = [n \in 1..N |-> [x \in Seq(X) |-> IF s[n] \in S THEN Append(x, s[n]) ELSE x]]
    OBVIOUS
<1>3. \A n \in 1..N : \A x \in Seq(X) :
        /\ step[n][x] = IF s[n] \in S THEN Append(x, s[n]) ELSE x
        /\ step[n][x] \in Seq(X)
  <2> SUFFICES ASSUME NEW n \in 1..N, NEW x \in Seq(X)
               PROVE  /\ step[n][x] = IF s[n] \in S THEN Append(x, s[n]) ELSE x
                      /\ step[n][x] \in Seq(X)
    OBVIOUS
  <2>1. step[n][x] = IF s[n] \in S THEN Append(x, s[n]) ELSE x
    BY <1>2
  <2>2. s[n] \in X
    OBVIOUS
  <2> QED BY <2>1, <2>2
<1>4. PICK g \in [0..N -> Seq(X)] : FollowsSteps(g, N, <<>>, step)
  <2>1. StepsWithin(N, Seq(X), step)
    BY <1>3 DEF StepsWithin
  <2>2. <<>> \in Seq(X)
    OBVIOUS
  <2> QED BY <2>1, <2>2, StepsDefineAFunction, Zenon
<1> DEFINE R(h) == h = [n \in 0..N |-> IF n = 0 THEN <<>> ELSE
                           IF s[n] \in S THEN Append(h[n - 1], s[n]) ELSE h[n - 1]]
<1>5. R(g)
  <2>1. ASSUME NEW n \in 0..N
        PROVE  g[n] = IF n = 0 THEN <<>> ELSE IF s[n] \in S THEN Append(g[n - 1], s[n]) ELSE g[n - 1]
    <3>1. CASE n = 0
      BY <3>1, <1>4 DEF FollowsSteps
    <3>2. CASE n # 0
      <4>1. n \in 1..N /\ n - 1 \in 0..N
        BY <3>2
      <4>2. g[n] = step[n][g[n - 1]] /\ g[n - 1] \in Seq(X)
        BY <4>1, <1>4 DEF FollowsSteps
      <4> QED BY <1>3, <3>2, <4>1, <4>2
    <3> QED BY <3>1, <3>2
  <2> QED BY <2>1
<1>6. PICK f : f = CHOOSE h : R(h)
    OBVIOUS
<1>7. R(f)
    BY <1>5, <1>6
<1>8. Only(s, S) = f[N]
    BY <1>6 DEF Only
<1>9. Selects(f, s, N, S)
  <2>1. 0 \in 0..N /\ \A n \in 1..N : n \in 0..N /\ n # 0
    OBVIOUS
  <2> QED BY <1>7, <2>1 DEF Selects
<1>10. \A n \in 0..N : f[n] \in Seq(X)
  <2> DEFINE I == {n \in Nat : n <= N => f[n] \in Seq(X)}
  <2>0. <<>> \in Seq(X)
    OBVIOUS
  <2>1. 0 \in I
    BY <1>9, <2>0 DEF Selects
  <2>2. ASSUME NEW n \in Nat, n \in I PROVE n + 1 \in I
    <3> SUFFICES ASSUME n + 1 <= N PROVE f[n + 1] \in Seq(X)
      OBVIOUS
    <3>1. n + 1 \in 1..N /\ (n + 1) - 1 = n /\ f[n] \in Seq(X)
      BY <2>2
    <3>2. f[n + 1] = IF s[n + 1] \in S THEN Append(f[n], s[n + 1]) ELSE f[n]
      BY <1>9, <3>1 DEF Selects
    <3>3. s[n + 1] \in X
      BY <3>1
    <3> QED BY <3>1, <3>2, <3>3, ValuesAppended
  <2>3. Nat \subseteq I
    <3> HIDE DEF I
    <3> QED BY <2>1, <2>2, SetInduction
  <2> QED BY <2>3
<1> HIDE DEF R
<1> QED BY <1>8, <1>9, <1>10

\* Only keeps the elements that are in the set.
LEMMA OnlyValues ==
    ASSUME NEW X, NEW s \in Seq(X), NEW S
    PROVE  /\ Only(s, S) \in Seq(X) /\ Only(s, S) \in Seq(X \intersect S)
           /\ ToSet(Only(s, S)) = ToSet(s) \intersect S
<1>1. PICK N \in Nat : N = Len(s)
    OBVIOUS
<1>2. PICK f : Selects(f, s, N, S) /\ Only(s, S) = f[N]
  <2>1. \E f : /\ Selects(f, s, N, S) /\ Only(s, S) = f[N]
               /\ \A n \in 0..N : f[n] \in Seq(X)
    BY <1>1, OnlySteps
  <2> QED BY <2>1
<1>3. Only(s, S) \in Seq(X) /\ ToSet(Only(s, S)) = ToSet(s) \intersect S
    BY <1>1, <1>2, SelectedValues
<1>4. ToSet(Only(s, S)) \subseteq X \intersect S
  <2>1. ToSet(s) \subseteq X
    BY ValuesTyped
  <2> QED BY <1>3, <2>1
<1>5. Only(s, S) \in Seq(X \intersect S)
    BY <1>3, <1>4, SeqOfValues
<1> QED BY <1>3, <1>5

\* h joins the texts one by one.
Joins(h, texts, N) == h[0] = <<>> /\ \A n \in 1..N : h[n] = h[n - 1] \o texts[n]

\* Joined puts one text after the other.
LEMMA JoinedSteps ==
    ASSUME NEW W, NEW texts, NEW N \in Nat, N = Len(texts),
           \A n \in 1..N : texts[n] \in Seq(W)
    PROVE  \E h : Joins(h, texts, N) /\ Joined(texts) = h[N]
<1>1. PICK step : step = [n \in 1..N |-> [x \in Seq(W) |-> x \o texts[n]]]
    OBVIOUS
<1>2. \A n \in 1..N : \A x \in Seq(W) : step[n][x] = x \o texts[n] /\ step[n][x] \in Seq(W)
    BY <1>1
<1>3. <<>> \in Seq(W)
    OBVIOUS
<1>4. PICK g \in [0..N -> Seq(W)] : FollowsSteps(g, N, <<>>, step)
  <2>1. StepsWithin(N, Seq(W), step)
    BY <1>2 DEF StepsWithin
  <2> QED BY <1>3, <2>1, StepsDefineAFunction, Zenon
<1>5. g[0] = <<>> /\ \A n \in 1..N : g[n] = g[n - 1] \o texts[n]
  <2>1. g[0] = <<>> /\ \A n \in 1..N : g[n] = step[n][g[n - 1]]
    BY <1>4 DEF FollowsSteps
  <2>2. \A n \in 1..N : g[n - 1] \in Seq(W)
    OBVIOUS
  <2> QED BY <2>1, <2>2, <1>2
<1> DEFINE R(h) == h = [n \in 0..N |-> IF n = 0 THEN <<>> ELSE h[n - 1] \o texts[n]]
<1>6. R(g)
  <2>1. \A n \in 0..N : n # 0 => n \in 1..N
    OBVIOUS
  <2>2. \A n \in 0..N : g[n] = IF n = 0 THEN <<>> ELSE g[n - 1] \o texts[n]
    BY <1>5, <2>1
  <2> QED BY <2>2
<1>7. PICK h : h = CHOOSE k : R(k)
    OBVIOUS
<1>8. R(h)
    BY <1>6, <1>7
<1>9. Joined(texts) = h[N]
    BY <1>7 DEF Joined
<1>10. Joins(h, texts, N)
  <2>1. 0 \in 0..N /\ \A n \in 1..N : n \in 0..N /\ n # 0
    OBVIOUS
  <2> QED BY <1>8, <2>1 DEF Joins
<1> QED BY <1>9, <1>10

\* Joining texts gives a text, with the words of all of them.
LEMMA JoinedValues ==
    ASSUME NEW W, NEW texts \in Seq(Seq(W))
    PROVE  /\ Joined(texts) \in Seq(W)
           /\ ToSet(Joined(texts)) = UNION {ToSet(text) : text \in ToSet(texts)}
<1>1. PICK N \in Nat : N = Len(texts) /\ DOMAIN texts = 1..N
    OBVIOUS
<1>2. \A n \in 1..N : texts[n] \in Seq(W)
    BY <1>1
<1>a. PICK h : Joins(h, texts, N) /\ Joined(texts) = h[N]
    BY <1>1, <1>2, JoinedSteps
<1>3. h[0] = <<>> /\ (\A n \in 1..N : h[n] = h[n - 1] \o texts[n]) /\ Joined(texts) = h[N]
    BY <1>a DEF Joins
<1> DEFINE Of(n) == UNION {ToSet(texts[i]) : i \in 1..n}
           Holds(n) == h[n] \in Seq(W) /\ ToSet(h[n]) = Of(n)
           I == {n \in Nat : n <= N => Holds(n)}
<1>4. 0 \in I
  <2>1. 1..0 = {} /\ ToSet(<<>>) = {} /\ <<>> \in Seq(W)
    BY DEF ToSet
  <2>2. Of(0) = {}
    BY <2>1
  <2> QED BY <1>3, <2>1, <2>2
<1>5. ASSUME NEW n \in Nat, n \in I
      PROVE  n + 1 \in I
  <2> SUFFICES ASSUME n + 1 <= N PROVE Holds(n + 1)
    OBVIOUS
  <2>1. Holds(n)
    BY <1>5
  <2>2. n + 1 \in 1..N /\ (n + 1) - 1 = n
    OBVIOUS
  <2>3. h[n + 1] = h[n] \o texts[n + 1] /\ texts[n + 1] \in Seq(W)
    BY <1>2, <1>3, <2>2
  <2>4. h[n + 1] \in Seq(W) /\ ToSet(h[n + 1]) = ToSet(h[n]) \union ToSet(texts[n + 1])
    BY <2>1, <2>3, ValuesJoined
  <2>5. 1..(n + 1) = (1..n) \union {n + 1}
    OBVIOUS
  <2>6. Of(n + 1) = Of(n) \union ToSet(texts[n + 1])
    BY <2>5
  <2> QED BY <2>1, <2>4, <2>6
<1>6. Holds(N)
  <2>1. N \in I
    <3> HIDE DEF I
    <3> QED BY <1>4, <1>5, SetInduction
  <2> QED BY <2>1
<1>7. Of(N) = UNION {ToSet(text) : text \in ToSet(texts)}
  <2>1. ToSet(texts) = {texts[i] : i \in 1..N}
    BY <1>1 DEF ToSet
  <2> QED BY <2>1
<1> QED BY <1>3, <1>6, <1>7

(***************************************************************************)
(* What the detectors find                                                 *)
(***************************************************************************)

\* What a detector adds to the findings of those before it.
Claims(found, entity, text) ==
    {Finding(entity, span, text) :
        span \in {s \in Detected(entity, text) :
                    \A f \in found : ~(s[1] < f.end /\ s[1] + s[2] > f.start)}}

\* The findings with one more detector.
WithClaims(found, entity, text, entities) ==
    IF entity \notin entities THEN found ELSE found \union Claims(found, entity, text)

\* find runs the three detectors in their order.
LEMMA ThreeDetectors ==
    ASSUME NEW text, NEW entities
    PROVE  Findings(text, entities) =
             WithClaims(WithClaims(WithClaims({}, "email", text, entities),
                                   "credit_card", text, entities), "phone", text, entities)
<1>1. PICK Names : Names = {"email", "credit_card", "phone"}
    OBVIOUS
<1>2. PICK U : U = UNION {{Finding(e, span, text) : span \in Detected(e, text)} : e \in Names}
    OBVIOUS
<1>3. PICK T : T = SUBSET U
    OBVIOUS
<1>4. \A found \in T : \A e \in Names : WithClaims(found, e, text, entities) \in T
  <2> SUFFICES ASSUME NEW found \in T, NEW e \in Names
               PROVE  WithClaims(found, e, text, entities) \in T
    OBVIOUS
  <2>1. Claims(found, e, text) \subseteq {Finding(e, span, text) : span \in Detected(e, text)}
    BY DEF Claims
  <2>2. Claims(found, e, text) \subseteq U
    BY <1>2, <2>1
  <2> QED BY <1>3, <2>2 DEF WithClaims
<1>5. PICK step : step = [n \in 1..3 |-> [found \in T |-> WithClaims(found, Order[n], text, entities)]]
    OBVIOUS
<1>6. \A n \in 1..3 : Order[n] \in Names
    BY <1>1 DEF Order
<1>7. \A n \in 1..3 : \A found \in T :
        step[n][found] = WithClaims(found, Order[n], text, entities) /\ step[n][found] \in T
    BY <1>4, <1>5, <1>6
<1>8. {} \in T
    BY <1>3
<1>a. PICK g \in [SUBSET (1..3) -> T] : FoldsIndices(g, 3, {}, step)
  <2>1. StepsWithin(3, T, step)
    BY <1>7 DEF StepsWithin
  <2> QED BY <1>8, <2>1, IndexFold
<1>9. \A s \in SUBSET (1..3) : g[s] = IF s = {} THEN {} ELSE step[Max(s)][g[s \ {Max(s)}]]
    BY <1>a DEF FoldsIndices
<1> DEFINE R(h) == h = [s \in SUBSET (1..3) |->
                          IF s = {} THEN {}
                          ELSE WithClaims(h[s \ {Max(s)}], Order[Max(s)], text, entities)]
<1>10. R(g)
  <2>1. ASSUME NEW s \in SUBSET (1..3)
        PROVE  g[s] = IF s = {} THEN {}
                      ELSE WithClaims(g[s \ {Max(s)}], Order[Max(s)], text, entities)
    <3>1. CASE s = {}
      BY <1>9, <3>1
    <3>2. CASE s # {}
      <4>1. Max(s) \in 1..3
        BY <3>2, MaxOfIndices
      <4>2. s \ {Max(s)} \in SUBSET (1..3)
        OBVIOUS
      <4>3. g[s \ {Max(s)}] \in T
        BY <4>2
      <4> QED BY <1>7, <1>9, <3>2, <4>1, <4>3
    <3> QED BY <3>1, <3>2
  <2> QED BY <2>1
<1>11. PICK h : h = CHOOSE k : R(k)
    OBVIOUS
<1>12. R(h)
    BY <1>10, <1>11
<1>13. Findings(text, entities) = h[1..3]
  <2>1. Len(Order) = 3 /\ DOMAIN Order = 1..3
    BY DEF Order
  <2>2. Findings(text, entities) =
          (CHOOSE k : k = [s \in SUBSET (DOMAIN Order) |->
                             IF s = {} THEN {}
                             ELSE WithClaims(k[s \ {Max(s)}], Order[Max(s)], text, entities)])[DOMAIN Order]
    BY DEF Findings, FoldLeft, MapThenFoldSet, WithClaims, Claims
  <2> QED BY <1>11, <2>1, <2>2
<1>14. \A n \in 1..3 : h[1..n] = WithClaims(h[1..(n - 1)], Order[n], text, entities)
  <2> SUFFICES ASSUME NEW n \in 1..3
               PROVE  h[1..n] = WithClaims(h[1..(n - 1)], Order[n], text, entities)
    OBVIOUS
  <2>1. Max(1..n) = n /\ (1..n) \ {n} = 1..(n - 1) /\ 1..n # {}
    BY LastIndex
  <2>2. 1..n \in SUBSET (1..3)
    OBVIOUS
  <2>3. h[1..n] = IF 1..n = {} THEN {}
                  ELSE WithClaims(h[(1..n) \ {Max(1..n)}], Order[Max(1..n)], text, entities)
    BY <1>12, <2>2
  <2> QED BY <2>1, <2>3
<1>15. h[1..0] = {}
  <2>1. 1..0 = {} /\ {} \in SUBSET (1..3)
    OBVIOUS
  <2> QED BY <1>12, <2>1
<1>16. Order[1] = "email" /\ Order[2] = "credit_card" /\ Order[3] = "phone"
    BY DEF Order
<1>17. /\ h[1..1] = WithClaims(h[1..0], Order[1], text, entities)
       /\ h[1..2] = WithClaims(h[1..1], Order[2], text, entities)
       /\ h[1..3] = WithClaims(h[1..2], Order[3], text, entities)
  <2>1. 1 \in 1..3 /\ 2 \in 1..3 /\ 3 \in 1..3 /\ 1 - 1 = 0 /\ 2 - 1 = 1 /\ 3 - 1 = 2
    OBVIOUS
  <2> QED BY <1>14, <2>1
<1> QED BY <1>13, <1>15, <1>16, <1>17

\* The words a detector looks for.
WordFor(entity) == IF entity = "email" THEN "email" ELSE "digits"

Entities == {"email", "credit_card", "phone"}

\* A span within the text, of words the detector looks for.
IsSpan(span, entity, text) ==
    /\ span[1] \in 1..Len(text) /\ span[2] \in {1, 2} /\ span[1] + span[2] <= Len(text) + 1
    /\ \A i \in 1..Len(text) : span[1] <= i /\ i < span[1] + span[2] => IsWord(text, i, WordFor(entity))

\* The spans of a detector lie within the text and apart.
LEMMA SpansApart ==
    ASSUME NEW text \in Text, NEW entity \in Entities
    PROVE  /\ \A s \in Detected(entity, text) : IsSpan(s, entity, text)
           /\ \A r, s \in Detected(entity, text) :
                r = s \/ r[1] + r[2] <= s[1] \/ s[1] + s[2] <= r[1]
<1>1. PICK N \in Nat : N = Len(text) /\ DOMAIN text = 1..N
    BY DEF Text
<1> DEFINE At(name) == {j \in 1..N : IsWord(text, j, name)}
           Pairs == {j \in At("digits") : j + 1 \in At("digits") /\ j - 1 \notin At("digits")}
<1>2. CASE entity = "credit_card"
  <2>1. Detected(entity, text) = {<<i, 2>> : i \in Pairs}
    <3>1. \A j : IsWord(text, j, "digits") <=> j \in At("digits")
      BY <1>1 DEF IsWord
    <3>2. Detected(entity, text) =
            {<<i, 2>> : i \in {j \in 1..N : /\ IsWord(text, j, "digits")
                                            /\ IsWord(text, j + 1, "digits")
                                            /\ ~IsWord(text, j - 1, "digits")}}
      BY <1>1, <1>2 DEF Detected
    <3> QED BY <3>1, <3>2
  <2>2. ASSUME NEW j \in Pairs
        PROVE  IsSpan(<<j, 2>>, entity, text)
    <3>1. j \in 1..N /\ j + 1 \in 1..N
      OBVIOUS
    <3>2. \A i \in 1..N : j <= i /\ i < j + 2 => i = j \/ i = j + 1
      BY <3>1
    <3>3. IsWord(text, j, "digits") /\ IsWord(text, j + 1, "digits")
      OBVIOUS
    <3>4. \A i \in 1..N : j <= i /\ i < j + 2 => IsWord(text, i, "digits")
      BY <3>2, <3>3
    <3>5. WordFor(entity) = "digits"
      BY <1>2 DEF WordFor
    <3> QED BY <1>1, <3>1, <3>4, <3>5 DEF IsSpan
  <2>3. ASSUME NEW i \in Pairs, NEW j \in Pairs
        PROVE  i = j \/ i + 2 <= j \/ j + 2 <= i
    <3>1. i \in 1..N /\ j \in 1..N /\ i \in At("digits") /\ j \in At("digits")
      OBVIOUS
    <3>2. j - 1 \notin At("digits") /\ i - 1 \notin At("digits")
      OBVIOUS
    <3>3. j - 1 # i /\ i - 1 # j
      BY <3>1, <3>2
    <3> HIDE DEF At, Pairs
    <3> QED BY <3>1, <3>3
  <2> HIDE DEF Pairs
  <2>4. \A s \in Detected(entity, text) : \E i \in Pairs : s = <<i, 2>>
    BY <2>1
  <2> QED BY <2>2, <2>3, <2>4
<1>3. CASE entity \in {"email", "phone"}
  <2>1. PICK name : name = WordFor(entity)
    OBVIOUS
  <2>2. Detected(entity, text) = {<<i, 1>> : i \in At(name)}
    BY <1>1, <1>3, <2>1 DEF Detected, WordFor
  <2>3. ASSUME NEW j \in At(name)
        PROVE  IsSpan(<<j, 1>>, entity, text)
    <3>1. \A i \in 1..N : j <= i /\ i < j + 1 => i = j
      OBVIOUS
    <3>2. \A i \in 1..N : j <= i /\ i < j + 1 => IsWord(text, i, name)
      BY <3>1
    <3> QED BY <1>1, <2>1, <3>2 DEF IsSpan
  <2>4. \A s \in Detected(entity, text) : \E i \in At(name) : s = <<i, 1>>
    BY <2>2
  <2>5. \A i, j \in At(name) : i = j \/ i + 1 <= j \/ j + 1 <= i
    OBVIOUS
  <2> HIDE DEF At
  <2> QED BY <2>3, <2>4, <2>5
<1> QED BY <1>2, <1>3 DEF Entities

\* f says what was found in the text.
IsFinding(f, text, entities) ==
    /\ f \in [entity : Entities \intersect entities, start : Nat, end : Nat, value : Text]
    /\ IsSpan(<<f.start, f.end - f.start>>, f.entity, text)
    /\ f.value = SubSeq(text, f.start, f.end - 1)

\* Findings lie within the text.
LEMMA FindingTyped ==
    ASSUME NEW text \in Text, NEW entities, NEW entity \in Entities \intersect entities,
           NEW span \in Detected(entity, text)
    PROVE  /\ IsFinding(Finding(entity, span, text), text, entities)
           /\ Finding(entity, span, text).start = span[1]
           /\ Finding(entity, span, text).end = span[1] + span[2]
           /\ Finding(entity, span, text).entity = entity
<1>1. PICK N \in Nat : N = Len(text) /\ DOMAIN text = 1..N
    BY DEF Text
<1>2. IsSpan(span, entity, text)
    BY SpansApart
<1>3. PICK start \in 1..N, size \in {1, 2} : start = span[1] /\ size = span[2] /\ start + size <= N + 1
    BY <1>1, <1>2 DEF IsSpan
<1>4. PICK f : f = Finding(entity, span, text)
    OBVIOUS
<1>5. /\ f = [entity |-> entity, start |-> start, end |-> start + size,
              value |-> SubSeq(text, start, start + size - 1)]
    BY <1>3, <1>4 DEF Finding
<1>6. SubSeq(text, start, start + size - 1) \in Text
  <2>1. PICK W : W = Words
    OBVIOUS
  <2>2. text \in Seq(W)
    BY <2>1 DEF Text
  <2>3. start + size - 1 \in 1..N
    BY <1>3
  <2>4. SubSeq(text, start, start + size - 1) \in Seq(W)
    BY <1>1, <2>2, <2>3
  <2> QED BY <2>1, <2>4 DEF Text
<1>7. IsSpan(<<f.start, f.end - f.start>>, f.entity, text)
  <2>1. f.start = start /\ f.end - f.start = size /\ f.entity = entity
    BY <1>3, <1>5
  <2>2. <<f.start, f.end - f.start>>[1] = span[1] /\ <<f.start, f.end - f.start>>[2] = span[2]
    BY <1>3, <2>1
  <2> QED BY <1>2, <2>1, <2>2 DEF IsSpan
<1>8. f \in [entity : Entities \intersect entities, start : Nat, end : Nat, value : Text]
    BY <1>3, <1>5, <1>6, SMTT(30)
<1>9. f.value = SubSeq(text, f.start, f.end - 1)
    BY <1>5
<1>10. IsFinding(f, text, entities)
    BY <1>7, <1>8, <1>9 DEF IsFinding
<1>11. f.start = span[1] /\ f.end = span[1] + span[2] /\ f.entity = entity
    BY <1>3, <1>5
<1> QED BY <1>4, <1>10, <1>11

\* Findings do not overlap.
Apart(found) == \A f, g \in found : f = g \/ f.end <= g.start \/ g.end <= f.start

\* One more detector adds findings apart from those there are.
LEMMA ClaimsApart ==
    ASSUME NEW text \in Text, NEW entities, NEW entity \in Entities,
           NEW found, \A f \in found : IsFinding(f, text, entities), Apart(found)
    PROVE  LET all == WithClaims(found, entity, text, entities) IN
           (\A f \in all : IsFinding(f, text, entities)) /\ Apart(all) /\ found \subseteq all
<1>1. CASE entity \notin entities
    BY <1>1 DEF WithClaims
<1>2. CASE entity \in entities
  <2>1. PICK new : new = Claims(found, entity, text)
    OBVIOUS
  <2>2. WithClaims(found, entity, text, entities) = found \union new
    BY <1>2, <2>1 DEF WithClaims
  <2>3. ASSUME NEW f \in new
        PROVE  \E s \in Detected(entity, text) :
                 /\ f = Finding(entity, s, text) /\ f.start = s[1] /\ f.end = s[1] + s[2]
                 /\ IsFinding(f, text, entities)
                 /\ \A g \in found : ~(f.start < g.end /\ f.end > g.start)
    <3>1. PICK s \in Detected(entity, text) :
            /\ f = Finding(entity, s, text)
            /\ \A g \in found : ~(s[1] < g.end /\ s[1] + s[2] > g.start)
      BY <2>1 DEF Claims
    <3>2. f.start = s[1] /\ f.end = s[1] + s[2] /\ IsFinding(f, text, entities)
      BY <1>2, <3>1, FindingTyped
    <3> QED BY <3>1, <3>2
  <2>4. \A f \in found \union new : f.start \in Nat /\ f.end \in Nat
    BY <2>3 DEF IsFinding
  <2>5. ASSUME NEW f \in new, NEW g \in found
        PROVE  f.end <= g.start \/ g.end <= f.start
    <3>1. ~(f.start < g.end /\ f.end > g.start)
      BY <2>3
    <3> QED BY <2>4, <3>1
  <2>6. ASSUME NEW f \in new, NEW g \in new
        PROVE  f = g \/ f.end <= g.start \/ g.end <= f.start
    <3>1. PICK r \in Detected(entity, text) :
            f = Finding(entity, r, text) /\ f.start = r[1] /\ f.end = r[1] + r[2]
      BY <2>3
    <3>2. PICK s \in Detected(entity, text) :
            g = Finding(entity, s, text) /\ g.start = s[1] /\ g.end = s[1] + s[2]
      BY <2>3
    <3>3. r = s \/ r[1] + r[2] <= s[1] \/ s[1] + s[2] <= r[1]
      BY SpansApart
    <3> QED BY <3>1, <3>2, <3>3
  <2>7. Apart(found \union new)
    BY <2>5, <2>6 DEF Apart
  <2>8. \A f \in found \union new : IsFinding(f, text, entities)
    BY <2>3
  <2> QED BY <2>2, <2>7, <2>8
<1> QED BY <1>1, <1>2

\* A word a detector looks for.
IsPersonal(word, entities) ==
    word[1] = "pii" /\ (\/ word[2] = "email" /\ "email" \in entities
                        \/ word[2] = "digits" /\ "phone" \in entities)

\* What is found lies in the text and apart, and covers every word that is looked for.
LEMMA FindingsFacts ==
    ASSUME NEW text \in Text, NEW entities
    PROVE  /\ \A f \in Findings(text, entities) : IsFinding(f, text, entities)
           /\ Apart(Findings(text, entities))
           /\ \A i \in DOMAIN text : IsPersonal(text[i], entities) =>
                \E f \in Findings(text, entities) : f.start <= i /\ i < f.end
<1>1. PICK a : a = WithClaims({}, "email", text, entities)
    OBVIOUS
<1>2. PICK b : b = WithClaims(a, "credit_card", text, entities)
    OBVIOUS
<1>3. PICK c : c = WithClaims(b, "phone", text, entities)
    OBVIOUS
<1>4. Findings(text, entities) = c
    BY <1>1, <1>2, <1>3, ThreeDetectors
<1>5. (\A f \in a : IsFinding(f, text, entities)) /\ Apart(a)
  <2>1. (\A f \in {} : IsFinding(f, text, entities)) /\ Apart({})
    BY DEF Apart
  <2> QED BY <1>1, <2>1, ClaimsApart DEF Entities
<1>6. (\A f \in b : IsFinding(f, text, entities)) /\ Apart(b) /\ a \subseteq b
    BY <1>2, <1>5, ClaimsApart DEF Entities
<1>7. (\A f \in c : IsFinding(f, text, entities)) /\ Apart(c) /\ b \subseteq c
    BY <1>3, <1>6, ClaimsApart DEF Entities
<1>8. PICK N \in Nat : N = Len(text) /\ DOMAIN text = 1..N
    BY DEF Text
<1>9. ASSUME NEW i \in 1..N, IsPersonal(text[i], entities)
      PROVE  \E f \in c : f.start <= i /\ i < f.end
  <2>1. ASSUME NEW entity \in {"email", "phone"}, entity \in entities, NEW found,
               <<i, 1>> \in Detected(entity, text),
               \A f \in found : f.start \in Nat /\ f.end \in Nat
        PROVE  \E f \in WithClaims(found, entity, text, entities) : f.start <= i /\ i < f.end
    <3>1. CASE \E f \in found : f.start <= i /\ i < f.end
      BY <3>1 DEF WithClaims
    <3>2. CASE ~ \E f \in found : f.start <= i /\ i < f.end
      <4>1. \A f \in found : ~(i < f.end /\ i + 1 > f.start)
        BY <2>1, <3>2
      <4>2. PICK s : s = <<i, 1>>
        OBVIOUS
      <4>3. s \in Detected(entity, text) /\ s[1] = i /\ s[2] = 1
        BY <2>1, <4>2
      <4>4. Finding(entity, s, text) \in WithClaims(found, entity, text, entities)
        BY <2>1, <4>1, <4>3 DEF WithClaims, Claims
      <4>5. Finding(entity, s, text).start = i /\ Finding(entity, s, text).end = i + 1
        BY <4>3 DEF Finding
      <4> QED BY <4>4, <4>5
    <3> QED BY <3>1, <3>2
  <2>2. CASE text[i][2] = "email"
    <3>1. "email" \in entities /\ IsWord(text, i, "email")
      BY <1>8, <1>9, <2>2 DEF IsPersonal, IsWord
    <3>2. <<i, 1>> \in Detected("email", text)
      BY <1>8, <3>1 DEF Detected
    <3>3. \E f \in a : f.start <= i /\ i < f.end
      BY <1>1, <2>1, <3>1, <3>2
    <3> QED BY <1>6, <1>7, <3>3
  <2>3. CASE text[i][2] = "digits"
    <3>1. "phone" \in entities /\ IsWord(text, i, "digits")
      BY <1>8, <1>9, <2>3 DEF IsPersonal, IsWord
    <3>2. <<i, 1>> \in Detected("phone", text)
      BY <1>8, <3>1 DEF Detected
    <3>3. \A f \in b : f.start \in Nat /\ f.end \in Nat
      BY <1>6 DEF IsFinding
    <3> QED BY <1>3, <2>1, <3>1, <3>2, <3>3
  <2> QED BY <1>9, <2>2, <2>3 DEF IsPersonal
<1> QED BY <1>4, <1>7, <1>8, <1>9

\* The values of a function on a finite set are finitely many.
LEMMA FiniteImage ==
    ASSUME NEW S, IsFiniteSet(S), NEW f
    PROVE  IsFiniteSet({f[x] : x \in S})
<1>1. PICK T : T = {f[x] : x \in S}
    OBVIOUS
<1>2. PICK g : g = [x \in S |-> f[x]]
    OBVIOUS
<1>3. g \in Surjection(S, T)
    BY <1>1, <1>2 DEF Surjection
<1> QED BY <1>1, <1>3, FS_Surjection

\* There are finitely many findings in a text.
LEMMA FindingsFinite ==
    ASSUME NEW text \in Text, NEW entities
    PROVE  IsFiniteSet(Findings(text, entities))
<1>1. PICK F : F = Findings(text, entities)
    OBVIOUS
<1>2. PICK N \in Nat : N = Len(text)
    BY DEF Text
<1>3. /\ \A f \in F : f.start \in 1..N /\ f.end \in Nat /\ f.start < f.end
      /\ \A f, g \in F : f = g \/ f.end <= g.start \/ g.end <= f.start
  <2>1. \A f \in F : IsFinding(f, text, entities)
    BY <1>1, FindingsFacts
  <2>2. ASSUME NEW f \in F
        PROVE  f.start \in 1..N /\ f.end \in Nat /\ f.start < f.end
    <3>1. f.start \in Nat /\ f.end \in Nat
      BY <2>1 DEF IsFinding
    <3>2. <<f.start, f.end - f.start>>[1] = f.start /\ <<f.start, f.end - f.start>>[2] = f.end - f.start
      OBVIOUS
    <3>3. f.start \in 1..N /\ f.end - f.start \in {1, 2}
      BY <1>2, <2>1, <3>2 DEF IsFinding, IsSpan
    <3> QED BY <3>1, <3>3
  <2> QED BY <1>1, <2>2, FindingsFacts DEF Apart
<1>4. PICK at : at = [i \in 1..N |-> CHOOSE f \in F : f.start = i]
    OBVIOUS
<1>5. ASSUME NEW f \in F
      PROVE  f = at[f.start]
  <2>1. f.start \in 1..N
    BY <1>3
  <2>2. PICK g \in F : g = at[f.start] /\ g.start = f.start
    BY <1>4, <2>1
  <2> QED BY <1>3, <2>2
<1>6. F \subseteq {at[i] : i \in 1..N}
    BY <1>3, <1>5
<1>7. IsFiniteSet(1..N)
    BY FS_Interval
<1>8. IsFiniteSet({at[i] : i \in 1..N})
    BY <1>7, FiniteImage
<1> QED BY <1>1, <1>6, <1>8, FS_Subset

\* What is found in a sequence of texts.
LEMMA FoundFacts ==
    ASSUME NEW texts \in Seq(Text), NEW entities
    PROVE  /\ IsFiniteSet(FoundIn(texts, entities))
           /\ \A g \in FoundIn(texts, entities) :
                /\ g.at \in DOMAIN texts /\ g.at \in Nat /\ g.finding.start \in Nat
                /\ g.finding \in Findings(texts[g.at], entities)
                /\ IsFinding(g.finding, texts[g.at], entities)
           /\ \A g, h \in FoundIn(texts, entities) :
                g = h \/ IsBefore(g, h) \/ IsBefore(h, g)
<1>1. PICK N \in Nat : N = Len(texts) /\ DOMAIN texts = 1..N
    OBVIOUS
<1>2. PICK found : found = FoundIn(texts, entities)
    OBVIOUS
<1> DEFINE Of(i) == {[at |-> i, finding |-> f] : f \in Findings(texts[i], entities)}
<1>3. found = UNION {Of(i) : i \in 1..N}
    BY <1>1, <1>2 DEF FoundIn
<1>4. \A i \in 1..N : texts[i] \in Text
    BY <1>1
<1>5. IsFiniteSet(found)
  <2>1. ASSUME NEW i \in 1..N
        PROVE  IsFiniteSet(Of(i))
    <3>1. PICK F : F = Findings(texts[i], entities)
      OBVIOUS
    <3>2. IsFiniteSet(F)
      BY <1>4, <3>1, FindingsFinite
    <3>3. PICK put : put = [f \in F |-> [at |-> i, finding |-> f]]
      OBVIOUS
    <3>4. IsFiniteSet({put[f] : f \in F})
      BY <3>2, FiniteImage
    <3>5. {put[f] : f \in F} = Of(i)
      BY <3>1, <3>3
    <3> QED BY <3>4, <3>5
  <2>2. PICK all : all = [k \in 1..N |-> Of(k)]
    OBVIOUS
  <2>3. IsFiniteSet({all[i] : i \in 1..N})
    <3>1. IsFiniteSet(1..N)
      BY FS_Interval
    <3> QED BY <3>1, FiniteImage
  <2>4. {all[i] : i \in 1..N} = {Of(i) : i \in 1..N}
    BY <2>2
  <2>5. \A S \in {Of(i) : i \in 1..N} : IsFiniteSet(S)
    BY <2>1
  <2> QED BY <1>3, <2>3, <2>4, <2>5, FS_UNION
<1>6. ASSUME NEW g \in found
      PROVE  /\ g.at \in 1..N
             /\ g.finding \in Findings(texts[g.at], entities)
             /\ IsFinding(g.finding, texts[g.at], entities)
             /\ g = [at |-> g.at, finding |-> g.finding]
  <2>1. PICK i \in 1..N : \E f \in Findings(texts[i], entities) : g = [at |-> i, finding |-> f]
    BY <1>3
  <2>a. PICK f \in Findings(texts[i], entities) : g = [at |-> i, finding |-> f]
    BY <2>1
  <2>2. IsFinding(f, texts[i], entities)
    BY <1>4, FindingsFacts
  <2> QED BY <2>a, <2>2
<1>7. \A g \in found : g.finding.start \in Nat /\ g.finding.end \in Nat /\ g.finding.start < g.finding.end
  <2> SUFFICES ASSUME NEW g \in found
               PROVE  g.finding.start \in Nat /\ g.finding.end \in Nat /\ g.finding.start < g.finding.end
    OBVIOUS
  <2>1. PICK f : f = g.finding /\ IsFinding(f, texts[g.at], entities)
    BY <1>6
  <2>2. f.start \in Nat /\ f.end \in Nat
    BY <2>1 DEF IsFinding
  <2>3. <<f.start, f.end - f.start>>[2] = f.end - f.start
    OBVIOUS
  <2>4. f.end - f.start \in {1, 2}
    BY <2>1, <2>3 DEF IsFinding, IsSpan
  <2> QED BY <2>1, <2>2, <2>4
<1>8. ASSUME NEW g \in found, NEW h \in found
      PROVE  g = h \/ IsBefore(g, h) \/ IsBefore(h, g)
  <2>1. g.at \in 1..N /\ h.at \in 1..N
    BY <1>6
  <2>2. CASE g.at = h.at
    <3>1. PICK f, k \in Findings(texts[g.at], entities) : f = g.finding /\ k = h.finding
      BY <1>6, <2>2
    <3>2. f = k \/ f.end <= k.start \/ k.end <= f.start
      BY <1>4, <2>1, FindingsFacts DEF Apart
    <3>3. f = k \/ f.start < k.start \/ k.start < f.start
      BY <1>7, <3>1, <3>2
    <3>4. f = k => g = h
      BY <1>6, <2>2, <3>1
    <3> QED BY <2>2, <3>1, <3>3, <3>4 DEF IsBefore
  <2>3. CASE g.at # h.at
    BY <2>1, <2>3 DEF IsBefore
  <2> QED BY <2>2, <2>3
<1> QED BY <1>1, <1>2, <1>5, <1>6, <1>7, <1>8

\* The registry has an entry for each value that was found, with a number of its own
\* among those of its entity.
LEMMA RegistryFacts ==
    ASSUME NEW texts \in Seq(Text), NEW entities
    PROVE  LET found    == FoundIn(texts, entities)
               entries  == Registry(found) IN
           /\ \A r \in entries : r.index \in Nat
           /\ \A g \in found : \E r \in entries : /\ r.entity = g.finding.entity
                                                  /\ r.value = g.finding.value
           /\ \A r, s \in entries : r.entity = s.entity => (r.index = s.index <=> r.value = s.value)
<1>1. PICK found : found = FoundIn(texts, entities)
    OBVIOUS
<1>2. /\ IsFiniteSet(found)
      /\ \A g \in found : g.at \in Nat /\ g.finding.start \in Nat
      /\ \A g, h \in found : g = h \/ IsBefore(g, h) \/ IsBefore(h, g)
    BY <1>1, FoundFacts
<1> DEFINE Same(g, h) == g.finding.entity = h.finding.entity /\ g.finding.value = h.finding.value
<1>3. PICK firsts : firsts = {h \in found : ~ \E g \in found : Same(g, h) /\ IsBefore(g, h)}
    OBVIOUS
<1>4. PICK before : before = [h \in found |-> {g \in firsts : /\ g.finding.entity = h.finding.entity
                                                               /\ IsBefore(g, h)}]
    OBVIOUS
<1>5. Registry(found) = {[entity |-> h.finding.entity, value |-> h.finding.value,
                          index |-> 1 + Cardinality(before[h])] : h \in firsts}
  <2>1. firsts = {h \in found : ~ \E g \in found : /\ g.finding.entity = h.finding.entity
                                                    /\ g.finding.value = h.finding.value
                                                    /\ IsBefore(g, h)}
    BY <1>3
  <2>2. Registry(found) = {[entity |-> h.finding.entity, value |-> h.finding.value,
                            index |-> 1 + Cardinality({g \in firsts : /\ g.finding.entity = h.finding.entity
                                                                      /\ IsBefore(g, h)})] : h \in firsts}
    BY <2>1, Zenon DEF Registry
  <2>3. \A h \in firsts : before[h] = {g \in firsts : /\ g.finding.entity = h.finding.entity
                                                      /\ IsBefore(g, h)}
    BY <1>3, <1>4
  <2> QED BY <2>2, <2>3
<1>6. \A h \in found : IsFiniteSet(before[h]) /\ Cardinality(before[h]) \in Nat
  <2> SUFFICES ASSUME NEW h \in found
               PROVE  IsFiniteSet(before[h]) /\ Cardinality(before[h]) \in Nat
    OBVIOUS
  <2>1. before[h] \in SUBSET found
    BY <1>3, <1>4
  <2> QED BY <1>2, <2>1, FS_Subset, FS_CardinalityType
<1>7. ASSUME NEW r \in Registry(found)
      PROVE  \E h \in firsts : /\ r.entity = h.finding.entity /\ r.value = h.finding.value
                               /\ r.index = 1 + Cardinality(before[h])
    BY <1>5
<1>8. \A r \in Registry(found) : r.index \in Nat
    BY <1>3, <1>6, <1>7
<1>9. ASSUME NEW g \in found
      PROVE  \E r \in Registry(found) : r.entity = g.finding.entity /\ r.value = g.finding.value
  <2>1. PICK at \in {h.at : h \in {k \in found : Same(k, g)}} :
          \A n \in {h.at : h \in {k \in found : Same(k, g)}} : at <= n
    <3>1. {h.at : h \in {k \in found : Same(k, g)}} # {}
      OBVIOUS
    <3>2. {h.at : h \in {k \in found : Same(k, g)}} \in SUBSET Nat
      BY <1>2
    <3> QED BY <3>1, <3>2, LeastNatural
  <2>2. PICK all : all = {k \in found : Same(k, g) /\ k.at = at}
    OBVIOUS
  <2>3. PICK start \in {h.finding.start : h \in all} : \A n \in {h.finding.start : h \in all} : start <= n
    <3>1. {h.finding.start : h \in all} # {}
      BY <2>1, <2>2
    <3>2. {h.finding.start : h \in all} \in SUBSET Nat
      BY <1>2, <2>2
    <3> QED BY <3>1, <3>2, LeastNatural
  <2>4. PICK h \in found : Same(h, g) /\ h.at = at /\ h.finding.start = start
    BY <2>2, <2>3
  <2>5. ASSUME NEW k \in found, Same(k, h)
        PROVE  ~IsBefore(k, h)
    <3>1. Same(k, g)
      BY <2>4, <2>5
    <3>2. at <= k.at
      BY <2>1, <3>1
    <3>3. k.at = at => start <= k.finding.start
      BY <2>2, <2>3, <3>1
    <3>4. at \in Nat /\ start \in Nat /\ k.at \in Nat /\ k.finding.start \in Nat
      BY <1>2, <2>4
    <3> QED BY <2>4, <3>2, <3>3, <3>4 DEF IsBefore
  <2>6. h \in firsts
    BY <1>3, <2>5
  <2>7. PICK r \in Registry(found) : r.entity = h.finding.entity /\ r.value = h.finding.value
    <3>1. PICK r : r = [entity |-> h.finding.entity, value |-> h.finding.value,
                        index |-> 1 + Cardinality(before[h])]
      OBVIOUS
    <3>2. r \in Registry(found)
      BY <1>5, <2>6, <3>1
    <3> QED BY <3>1, <3>2
  <2> QED BY <2>4, <2>7
<1>10. ASSUME NEW h \in firsts, NEW g \in firsts, h.finding.entity = g.finding.entity
       PROVE  /\ h.finding.value = g.finding.value => h = g
              /\ IsBefore(h, g) => Cardinality(before[h]) < Cardinality(before[g])
  <2>1. h \in found /\ g \in found
    BY <1>3
  <2>2. h.finding.value = g.finding.value => h = g
    <3>1. Same(h, g) => ~IsBefore(h, g)
      BY <1>3
    <3>2. Same(g, h) => ~IsBefore(g, h)
      BY <1>3
    <3> QED BY <1>2, <1>10, <2>1, <3>1, <3>2
  <2>3. ASSUME IsBefore(h, g)
        PROVE  Cardinality(before[h]) < Cardinality(before[g])
    <3>1. h \in before[g]
      BY <1>4, <1>10, <2>1, <2>3
    <3>2. h \notin before[h]
      <4>1. ~IsBefore(h, h)
        BY <1>2, <2>1 DEF IsBefore
      <4> QED BY <1>4, <2>1, <4>1
    <3>3. before[h] \subseteq before[g]
      <4>1. \A k \in found : IsBefore(k, h) => IsBefore(k, g)
        BY <1>2, <2>1, <2>3 DEF IsBefore
      <4>2. firsts \subseteq found
        BY <1>3
      <4> QED BY <1>4, <1>10, <2>1, <4>1, <4>2
    <3>4. /\ Cardinality(before[h]) <= Cardinality(before[g])
          /\ Cardinality(before[g]) = Cardinality(before[h]) => before[g] = before[h]
      <4>1. IsFiniteSet(before[g]) /\ before[h] \in SUBSET before[g]
        BY <1>6, <2>1, <3>3
      <4> QED BY <4>1, FS_Subset
    <3>5. Cardinality(before[h]) \in Nat /\ Cardinality(before[g]) \in Nat
      BY <1>6, <2>1
    <3> QED BY <3>1, <3>2, <3>4, <3>5
  <2> QED BY <2>2, <2>3
<1>11. ASSUME NEW r \in Registry(found), NEW s \in Registry(found), r.entity = s.entity
       PROVE  r.index = s.index <=> r.value = s.value
  <2>1. PICK h \in firsts : /\ r.entity = h.finding.entity /\ r.value = h.finding.value
                            /\ r.index = 1 + Cardinality(before[h])
    BY <1>7
  <2>2. PICK g \in firsts : /\ s.entity = g.finding.entity /\ s.value = g.finding.value
                            /\ s.index = 1 + Cardinality(before[g])
    BY <1>7
  <2>3. h \in found /\ g \in found
    BY <1>3
  <2>4. r.value = s.value => h = g
    BY <1>10, <1>11, <2>1, <2>2
  <2>5. h.finding.entity = g.finding.entity
    BY <1>11, <2>1, <2>2
  <2>6. r.index = s.index => ~IsBefore(h, g) /\ ~IsBefore(g, h)
    <3>1. IsBefore(h, g) => Cardinality(before[h]) < Cardinality(before[g])
      BY <1>10, <2>5
    <3>2. IsBefore(g, h) => Cardinality(before[g]) < Cardinality(before[h])
      BY <1>10, <2>5
    <3>3. Cardinality(before[h]) \in Nat /\ Cardinality(before[g]) \in Nat
      BY <1>6, <2>3
    <3> QED BY <2>1, <2>2, <3>1, <3>2, <3>3
  <2>7. r.index = s.index => h = g
    BY <1>2, <2>3, <2>6
  <2> QED BY <2>1, <2>2, <2>4, <2>7
<1> QED BY <1>1, <1>8, <1>9, <1>11

(***************************************************************************)
(* What is redacted                                                        *)
(***************************************************************************)

\* The registry has a placeholder for all that is found in a text.
Resolves(registryOf, text, entities) ==
    /\ \A r \in registryOf : r.index \in Nat
    /\ \A f \in Findings(text, entities) :
         \E r \in registryOf : r.entity = f.entity /\ r.value = f.value

Masks == {word \in Words : word[1] = "mask"}

\* The words of a text nothing is looked for in, and placeholders.
Cleaned(text, entities) == {word \in ToSet(text) : ~IsPersonal(word, entities)} \union Masks

\* A redacted text has none of the words that are looked for.
LEMMA RedactedText ==
    ASSUME NEW text \in Text, NEW entities, NEW registryOf, Resolves(registryOf, text, entities)
    PROVE  /\ Redact(text, entities, registryOf) \in Text
           /\ ToSet(Redact(text, entities, registryOf)) \subseteq Cleaned(text, entities)
<1>1. PICK N \in Nat : N = Len(text) /\ DOMAIN text = 1..N /\ \A i \in 1..N : text[i] \in Words
    BY DEF Text
<1>2. PICK F : F = Findings(text, entities)
    OBVIOUS
<1> DEFINE Covering(i) == {f \in F : f.start <= i /\ i < f.end}
           Chosen(f) == CHOOSE r \in registryOf : r.entity = f.entity /\ r.value = f.value
           Piece(i) == IF Covering(i) = {} THEN <<text[i]>>
                       ELSE IF i = (CHOOSE g \in Covering(i) : TRUE).start
                            THEN << <<"mask", (CHOOSE g \in Covering(i) : TRUE).entity,
                                      Chosen(CHOOSE g \in Covering(i) : TRUE).index>> >>
                            ELSE <<>>
<1>3. PICK pieces : pieces = [i \in 1..N |-> Piece(i)]
    OBVIOUS
<1>4. Redact(text, entities, registryOf) = Joined(pieces)
    BY <1>1, <1>2, <1>3 DEF Redact
<1>5. PICK W : W = Cleaned(text, entities)
    OBVIOUS
<1>6. W \subseteq Words
    BY <1>1, <1>5 DEF Cleaned, Masks, ToSet
<1>7. ASSUME NEW i \in 1..N
      PROVE  Piece(i) \in Seq(W)
  <2>1. CASE Covering(i) = {}
    <3>1. ~IsPersonal(text[i], entities)
      <4>1. IsPersonal(text[i], entities) => \E f \in F : f.start <= i /\ i < f.end
        BY <1>1, <1>2, FindingsFacts
      <4> QED BY <4>1, <2>1
    <3>2. text[i] \in W
      BY <1>1, <1>5, <3>1 DEF Cleaned, ToSet
    <3> QED BY <2>1, <3>2
  <2>2. CASE Covering(i) # {}
    <3>1. PICK f : f = CHOOSE g \in Covering(i) : TRUE
      OBVIOUS
    <3>2. f \in F
      BY <2>2, <3>1
    <3>3. f.entity \in Entities
      <4>1. IsFinding(f, text, entities)
        BY <1>2, <3>2, FindingsFacts
      <4> QED BY <4>1 DEF IsFinding
    <3>4. PICK r \in registryOf : r = Chosen(f)
      BY <1>2, <3>2 DEF Resolves
    <3>5. r.index \in Nat
      BY DEF Resolves
    <3>6. <<"mask", f.entity, r.index>> \in W
      <4>1. <<"mask", f.entity, r.index>> \in Words
        <5>1. r.index \in Int
          BY <3>5
        <5> QED BY <3>3, <5>1 DEF Entities, Words
      <4>2. <<"mask", f.entity, r.index>> \in Masks
        BY <4>1 DEF Masks
      <4> QED BY <1>5, <4>2 DEF Cleaned
    <3> HIDE DEF Covering, Chosen
    <3>7. Piece(i) = IF i = f.start THEN << <<"mask", f.entity, r.index>> >> ELSE <<>>
      BY <2>2, <3>1, <3>4
    <3> QED BY <3>6, <3>7
  <2> QED BY <2>1, <2>2
<1> HIDE DEF Piece
<1>8. pieces \in Seq(Seq(W))
  <2>1. pieces \in [1..N -> Seq(W)]
    BY <1>3, <1>7
  <2> QED BY <2>1
<1>9. Joined(pieces) \in Seq(W)
    BY <1>8, JoinedValues
<1>10. Joined(pieces) \in Text
    BY <1>6, <1>9 DEF Text
<1>11. ToSet(Joined(pieces)) \subseteq W
    BY <1>9, ValuesTyped
<1> QED BY <1>4, <1>5, <1>10, <1>11

Marks == {"item", "system", "instructions", "string", "none"}

MessageTypes == [role : Roles \union ItemKinds, content : Contents, mark : Marks, item : Items]

\* The texts of a message that detectors see.
SeenIn(message) == Visible(message.content, message.item.calls)

\* iter_texts yields these texts.
LEMMA IteratedTexts ==
    ASSUME NEW m \in MessageTypes
    PROVE  IterTexts(m) \in Seq(Text) /\ ToSet(IterTexts(m)) = SeenIn(m) /\ SeenIn(m) \subseteq Text
<1>1. PICK parts \in Seq(ContentParts) : parts = m.content.parts
    BY DEF MessageTypes, Contents, ContentParts
<1>2. PICK calls \in Seq(Text) : calls = m.item.calls
    BY DEF MessageTypes, Items
<1>3. PICK visible : visible = Only(parts, {p \in ToSet(parts) : IsVisible(p)})
    OBVIOUS
<1>4. visible \in Seq(ContentParts) /\ ToSet(visible) = {p \in ToSet(parts) : IsVisible(p)}
  <2>1. /\ visible \in Seq(ContentParts)
        /\ ToSet(visible) = ToSet(parts) \intersect {p \in ToSet(parts) : IsVisible(p)}
    BY <1>3, OnlyValues
  <2> QED BY <2>1
<1>5. PICK N \in Nat : N = Len(visible) /\ DOMAIN visible = 1..N
    BY <1>4
<1>6. PICK texts : texts = [i \in 1..N |-> visible[i].text]
    OBVIOUS
<1>7. texts \in Seq(Text)
  <2>1. \A i \in 1..N : visible[i] \in ContentParts
    BY <1>4, <1>5
  <2>2. \A i \in 1..N : visible[i].text \in Text
    BY <2>1 DEF ContentParts
  <2>3. texts \in [1..N -> Text]
    BY <1>6, <2>2
  <2> QED BY <2>3
<1>8. ToSet(texts) = {part.text : part \in {p \in ToSet(parts) : IsVisible(p)}}
  <2>1. ToSet(texts) = {visible[i].text : i \in 1..N}
    BY <1>6 DEF ToSet
  <2>2. ToSet(visible) = {visible[i] : i \in 1..N}
    BY <1>5 DEF ToSet
  <2> QED BY <1>4, <2>1, <2>2
<1>9. IterTexts(m) = texts \o calls
    BY <1>1, <1>2, <1>3, <1>5, <1>6 DEF IterTexts, TextsOf
<1>10. texts \o calls \in Seq(Text) /\ ToSet(texts \o calls) = ToSet(texts) \union ToSet(calls)
    BY <1>7, ValuesJoined
<1>11. SeenIn(m) = ToSet(texts) \union ToSet(calls)
    BY <1>1, <1>2, <1>8 DEF SeenIn, Visible
<1>12. ToSet(texts) \subseteq Text /\ ToSet(calls) \subseteq Text
    BY <1>7, ValuesTyped
<1> QED BY <1>9, <1>10, <1>11, <1>12

\* The texts that are scanned are those seen in the messages of the roles.
LEMMA ScannedTexts ==
    ASSUME NEW messages \in Seq(MessageTypes), NEW roles
    PROVE  /\ TextsFrom(messages, roles) \in Seq(Text)
           /\ ToSet(TextsFrom(messages, roles)) =
                UNION {SeenIn(m) : m \in {k \in ToSet(messages) : k.role \in roles}}
<1>1. PICK scanned : scanned = Only(messages, {m \in ToSet(messages) : m.role \in roles})
    OBVIOUS
<1>2. scanned \in Seq(MessageTypes) /\ ToSet(scanned) = {k \in ToSet(messages) : k.role \in roles}
  <2>1. /\ scanned \in Seq(MessageTypes)
        /\ ToSet(scanned) = ToSet(messages) \intersect {m \in ToSet(messages) : m.role \in roles}
    BY <1>1, OnlyValues
  <2> QED BY <2>1
<1>3. PICK N \in Nat : N = Len(scanned) /\ DOMAIN scanned = 1..N
    BY <1>2
<1>4. PICK texts : texts = [i \in 1..N |-> IterTexts(scanned[i])]
    OBVIOUS
<1>5. \A i \in 1..N : scanned[i] \in MessageTypes
    BY <1>2, <1>3
<1>6. \A i \in 1..N : texts[i] \in Seq(Text) /\ ToSet(texts[i]) = SeenIn(scanned[i])
    BY <1>4, <1>5, IteratedTexts
<1>7. texts \in Seq(Seq(Text))
  <2>1. texts \in [1..N -> Seq(Text)]
    BY <1>4, <1>6
  <2> QED BY <2>1
<1>8. TextsFrom(messages, roles) = Joined(texts)
    BY <1>1, <1>3, <1>4 DEF TextsFrom
<1>9. /\ Joined(texts) \in Seq(Text)
      /\ ToSet(Joined(texts)) = UNION {ToSet(text) : text \in ToSet(texts)}
    BY <1>7, JoinedValues
<1>10. UNION {ToSet(text) : text \in ToSet(texts)} = UNION {SeenIn(m) : m \in ToSet(scanned)}
  <2>1. ToSet(texts) = {texts[i] : i \in 1..N}
    BY <1>4 DEF ToSet
  <2>2. ToSet(scanned) = {scanned[i] : i \in 1..N}
    BY <1>3 DEF ToSet
  <2>3. {ToSet(text) : text \in ToSet(texts)} = {SeenIn(m) : m \in ToSet(scanned)}
    BY <1>6, <2>1, <2>2
  <2> QED BY <2>3
<1> QED BY <1>2, <1>8, <1>9, <1>10

\* The registry of a request resolves all texts that are scanned; when it is empty nothing
\* was found in them.
LEMMA RegistryResolves ==
    ASSUME NEW req, req.messages \in Seq(MessageTypes), NEW pii,
           NEW m \in ToSet(req.messages), m.role \in pii.roles, NEW text \in SeenIn(m)
    PROVE  /\ Resolves(RegistryOf(req, pii), text, pii.entities)
           /\ RegistryOf(req, pii) = {} => Findings(text, pii.entities) = {}
<1>1. PICK texts \in Seq(Text) : texts = TextsFrom(req.messages, pii.roles)
    BY ScannedTexts
<1>2. text \in ToSet(texts)
  <2>1. ToSet(texts) = UNION {SeenIn(k) : k \in {k \in ToSet(req.messages) : k.role \in pii.roles}}
    BY <1>1, ScannedTexts
  <2> QED BY <2>1
<1>3. PICK i \in DOMAIN texts : texts[i] = text
    BY <1>2 DEF ToSet
<1>4. PICK found : found = FoundIn(texts, pii.entities)
    OBVIOUS
<1>5. RegistryOf(req, pii) = Registry(found)
    BY <1>1, <1>4 DEF RegistryOf
<1>6. \A r \in Registry(found) : r.index \in Nat
    BY <1>4, RegistryFacts
<1>7. ASSUME NEW f \in Findings(text, pii.entities)
      PROVE  \E r \in Registry(found) : r.entity = f.entity /\ r.value = f.value
  <2>1. PICK g : g = [at |-> i, finding |-> f]
    OBVIOUS
  <2>2. g \in found
    BY <1>3, <1>4, <2>1 DEF FoundIn
  <2>3. \E r \in Registry(found) : r.entity = g.finding.entity /\ r.value = g.finding.value
    BY <1>4, <2>2, RegistryFacts
  <2> QED BY <2>1, <2>3
<1> QED BY <1>5, <1>6, <1>7 DEF Resolves

(***************************************************************************)
(* What is sent in a translation                                           *)
(***************************************************************************)

\* What a message shows has words of W only, if its words are told as those of one of roles.
KeptAsTold(messages, roles, W) ==
    \A m \in ToSet(messages) : Spoken(m) \in roles => SeenIn(m) \subseteq Seq(W)

\* What an item shows has words of W only, if it is said by one of roles.
Keeps(item, roles, W) == SpeakerOf(item) \in roles => Visible(item.content, item.calls) \subseteq Seq(W)

\* The text of parts has the words of those that are texts.
LEMMA TextOfVisible ==
    ASSUME NEW parts \in Seq(ContentParts), NEW W,
           \A p \in ToSet(parts) : IsVisible(p) => p.text \in Seq(W)
    PROVE  TextOfParts(parts) \in Seq(W)
<1>1. PICK N \in Nat : N = Len(parts) /\ DOMAIN parts = 1..N
    OBVIOUS
<1>2. PICK texts : texts = [i \in 1..N |-> IF IsTextPart(parts[i]) THEN parts[i].text ELSE <<>>]
    OBVIOUS
<1>3. ASSUME NEW i \in 1..N
      PROVE  texts[i] \in Seq(W)
  <2>1. parts[i] \in ToSet(parts)
    BY <1>1 DEF ToSet
  <2>2. IsTextPart(parts[i]) => IsVisible(parts[i])
    BY DEF IsTextPart, IsVisible
  <2>3. IsTextPart(parts[i]) => parts[i].text \in Seq(W)
    BY <2>1, <2>2
  <2> QED BY <1>2, <2>3
<1>4. texts \in Seq(Seq(W))
  <2>1. texts \in [1..N -> Seq(W)]
    BY <1>2, <1>3
  <2> QED BY <2>1
<1>5. TextOfParts(parts) = Joined(texts)
    BY <1>1, <1>2 DEF TextOfParts
<1> QED BY <1>4, <1>5, JoinedValues

\* The text of a message is one of its type, with the words it shows.
LEMMA TextOfMessage ==
    ASSUME NEW m \in MessageTypes
    PROVE  /\ TextOf(m) \in Text
           /\ \A W : SeenIn(m) \subseteq Seq(W) => TextOf(m) \in Seq(W)
<1>1. PICK parts \in Seq(ContentParts) : parts = m.content.parts
    BY DEF MessageTypes, Contents
<1>2. \A p \in ToSet(parts) : p \in ContentParts /\ p.text \in Seq(Words)
  <2>1. ToSet(parts) \subseteq ContentParts
    BY ValuesTyped
  <2> QED BY <2>1 DEF ContentParts, Text
<1>3. TextOf(m) = TextOfParts(parts)
    BY <1>1 DEF TextOf
<1>4. TextOfParts(parts) \in Seq(Words)
    BY <1>2, TextOfVisible
<1>5. ASSUME NEW W, SeenIn(m) \subseteq Seq(W)
      PROVE  TextOfParts(parts) \in Seq(W)
  <2>1. \A p \in ToSet(parts) : IsVisible(p) => p.text \in SeenIn(m)
    BY <1>1 DEF SeenIn, Visible
  <2> QED BY <1>5, <2>1, TextOfVisible
<1> QED BY <1>3, <1>4, <1>5 DEF Text

\* A system prompt is text.
IsPrompt(system) ==
    /\ system \in Contents \union {None}
    /\ system # None => \A i \in DOMAIN system.parts : IsTextPart(system.parts[i])

\* Messages as one string.
LEMMA ParagraphsTyped ==
    ASSUME NEW messages \in Seq(MessageTypes)
    PROVE  /\ Paragraphs(messages) \in Contents /\ IsPrompt(Paragraphs(messages))
           /\ \A W : (\A m \in ToSet(messages) : SeenIn(m) \subseteq Seq(W)) =>
                Visible(Paragraphs(messages), <<>>) \subseteq Seq(W)
<1>1. PICK N \in Nat : N = Len(messages) /\ DOMAIN messages = 1..N
    OBVIOUS
<1>2. \A i \in 1..N : messages[i] \in MessageTypes /\ messages[i] \in ToSet(messages)
    BY <1>1 DEF ToSet
<1>3. PICK parts : parts = [i \in 1..N |-> Part("text", TextOf(messages[i]))]
    OBVIOUS
<1>4. parts \in Seq(ContentParts)
  <2>1. \A i \in 1..N : Part("text", TextOf(messages[i])) \in ContentParts
    BY <1>2, TextOfMessage DEF Part, ContentParts
  <2>2. parts \in [1..N -> ContentParts]
    BY <1>3, <2>1
  <2> QED BY <2>2
<1>5. Paragraphs(messages) = [form |-> "str", parts |-> parts]
    BY <1>1, <1>3 DEF Paragraphs
<1>6. ASSUME NEW W, \A m \in ToSet(messages) : SeenIn(m) \subseteq Seq(W)
      PROVE  Visible(Paragraphs(messages), <<>>) \subseteq Seq(W)
  <2>1. \A i \in 1..N : parts[i].text \in Seq(W)
    <3>1. \A i \in 1..N : TextOf(messages[i]) \in Seq(W)
      BY <1>2, <1>6, TextOfMessage
    <3> QED BY <1>3, <3>1 DEF Part
  <2>2. ToSet(parts) = {parts[i] : i \in 1..N}
    BY <1>3 DEF ToSet
  <2>3. ToSet(<<>>) = {}
    BY DEF ToSet
  <2> QED BY <1>5, <2>1, <2>2, <2>3 DEF Visible
<1>7. \A i \in 1..N : parts[i].kind = "text"
    BY <1>3 DEF Part
<1>8. Paragraphs(messages) \in Contents /\ Paragraphs(messages).parts = parts /\ DOMAIN parts = 1..N
    BY <1>3, <1>4, <1>5 DEF Contents
<1> QED BY <1>6, <1>7, <1>8 DEF IsPrompt, IsTextPart

\* The words of the system messages, in one string.
LEMMA SystemTextTyped ==
    ASSUME NEW messages \in Seq(MessageTypes), NEW roles, NEW W, KeptAsTold(messages, roles, W)
    PROVE  /\ SystemText(messages) \in Contents \union {None} /\ IsPrompt(SystemText(messages))
           /\ SystemText(messages) # None /\ "system" \in roles =>
                Visible(SystemText(messages), <<>>) \subseteq Seq(W)
<1>1. PICK system : system = Only(messages, {m \in ToSet(messages) :
                                               m.role = "system" /\ TextOf(m) # <<>>})
    OBVIOUS
<1>2. /\ system \in Seq(MessageTypes)
      /\ \A m \in ToSet(system) : m \in ToSet(messages) /\ m.role = "system"
  <2>1. /\ system \in Seq(MessageTypes)
        /\ ToSet(system) = ToSet(messages) \intersect {m \in ToSet(messages) :
                                                         m.role = "system" /\ TextOf(m) # <<>>}
    BY <1>1, OnlyValues
  <2> QED BY <2>1
<1>3. SystemText(messages) = IF system = <<>> THEN None ELSE Paragraphs(system)
    BY <1>1 DEF SystemText
<1>4. "system" \in roles => \A m \in ToSet(system) : SeenIn(m) \subseteq Seq(W)
    BY <1>2 DEF KeptAsTold, Spoken, PortableRoles
<1> QED BY <1>2, <1>3, <1>4, ParagraphsTyped DEF IsPrompt

\* The items of a translation: messages without calls.
Told(roles, W) == {item \in Items : /\ item.kind = "message" /\ item.calls = <<>>
                                    /\ item.content.form # "null"
                                    /\ Keeps(item, roles, W)}

\* An item with one text.
LEMMA TextTold ==
    ASSUME NEW role \in Roles, NEW form \in {"str", "parts"}, NEW parts \in Seq(ContentParts),
           NEW roles, NEW W,
           Canonical(role) \in roles => \A p \in ToSet(parts) : p.text \in Seq(W)
    PROVE  Item("message", role, [form |-> form, parts |-> parts], <<>>) \in Told(roles, W)
<1>1. PICK item : item = Item("message", role, [form |-> form, parts |-> parts], <<>>)
    OBVIOUS
<1>2. PICK content : content = [form |-> form, parts |-> parts]
    OBVIOUS
<1>3. content \in Contents /\ content.form = form /\ content.parts = parts
    BY <1>2 DEF Contents
<1>4. /\ item.kind = "message" /\ item.role = role /\ item.content = content /\ item.calls = <<>>
      /\ item \in Items
  <2>1. item = [kind |-> "message", role |-> role, content |-> content, calls |-> <<>>]
    BY <1>1, <1>2 DEF Item
  <2>2. <<>> \in Seq(Text)
    OBVIOUS
  <2> QED BY <1>3, <2>1, <2>2 DEF Items, ItemKinds
<1>5. SpeakerOf(item) = Canonical(role)
    BY <1>4 DEF SpeakerOf, RoleOf
<1>6. Keeps(item, roles, W)
  <2>1. ToSet(<<>>) = {}
    BY DEF ToSet
  <2> QED BY <1>3, <1>4, <1>5, <2>1 DEF Keeps, Visible
<1> QED BY <1>1, <1>3, <1>4, <1>6 DEF Told

\* A message translated on its own.
LEMMA TranslatedTold ==
    ASSUME NEW messages \in Seq(MessageTypes), NEW roles, NEW W, KeptAsTold(messages, roles, W)
    PROVE  TranslatedAll(messages) \in Seq(Told(roles, W))
<1>1. PICK N \in Nat : N = Len(messages) /\ DOMAIN messages = 1..N
    OBVIOUS
<1>2. ASSUME NEW i \in 1..N
      PROVE  Translated(messages[i]) \in Told(roles, W)
  <2>1. PICK m \in MessageTypes : m = messages[i] /\ m \in ToSet(messages)
    BY <1>1 DEF ToSet
  <2>2. PICK parts : parts = <<Part("text", TextOf(m))>>
    OBVIOUS
  <2>3. /\ parts \in Seq(ContentParts) /\ \A p \in ToSet(parts) : p.text = TextOf(m)
    <3>1. PICK p : p = Part("text", TextOf(m))
      OBVIOUS
    <3>2. p \in ContentParts /\ p.text = TextOf(m)
      BY <3>1, TextOfMessage DEF Part, ContentParts
    <3>3. parts \in Seq(ContentParts) /\ ToSet(parts) = {p}
      BY <2>2, <3>1, <3>2 DEF ToSet
    <3> QED BY <3>2, <3>3
  <2>4. Spoken(m) \in Roles /\ Canonical(Spoken(m)) = Spoken(m)
    BY DEF Spoken, PortableRoles, Roles, Canonical
  <2>5. Spoken(m) \in roles => TextOf(m) \in Seq(W)
    BY <2>1, TextOfMessage DEF KeptAsTold
  <2>6. Item("message", Spoken(m), [form |-> "str", parts |-> parts], <<>>) \in Told(roles, W)
    BY <2>3, <2>4, <2>5, TextTold
  <2> QED BY <2>1, <2>2, <2>6 DEF Translated, Str
<1>3. TranslatedAll(messages) = [i \in 1..N |-> Translated(messages[i])]
    BY <1>1 DEF TranslatedAll
<1>4. TranslatedAll(messages) \in [1..N -> Told(roles, W)]
    BY <1>2, <1>3
<1> QED BY <1>4

\* The role of a turn that has a message's words.
TurnRole(m, other) == IF m.role = "assistant" THEN other ELSE "user"

\* The turns of a translation to the APIs that want roles to alternate.
Alternating(other, roles, W) == {item \in Told(roles, W) : item.role \in {"user", other}}

\* One more message, in the last turn or in one of its own.
WithTurn(turns, m, other) ==
    IF turns # <<>> /\ Last(turns).role = TurnRole(m, other)
    THEN [turns EXCEPT ![Len(turns)].content.parts = Append(@, Part("text", TextOf(m)))]
    ELSE Append(turns, Item("message", TurnRole(m, other),
                            [form |-> IF other = "model" THEN "parts" ELSE "str",
                             parts |-> <<Part("text", TextOf(m))>>], <<>>))

\* One more message keeps the turns as they have to be.
LEMMA OneMoreTurn ==
    ASSUME NEW other \in {"assistant", "model"}, NEW roles, NEW W,
           NEW turns \in Seq(Alternating(other, roles, W)),
           NEW m \in MessageTypes, m.role # "system",
           Spoken(m) \in roles => SeenIn(m) \subseteq Seq(W)
    PROVE  WithTurn(turns, m, other) \in Seq(Alternating(other, roles, W))
<1>1. PICK X : X = Alternating(other, roles, W)
    OBVIOUS
<1>2. PICK role : role = TurnRole(m, other)
    OBVIOUS
<1>3. role \in Roles /\ role \in {"user", other} /\ Canonical(role) = Spoken(m)
    BY <1>2 DEF TurnRole, Roles, Canonical, Spoken, PortableRoles
<1>4. PICK said : said = Part("text", TextOf(m))
    OBVIOUS
<1>5. said \in ContentParts /\ (Canonical(role) \in roles => said.text \in Seq(W))
    BY <1>3, <1>4, TextOfMessage DEF Part, ContentParts
<1>6. CASE turns # <<>> /\ Last(turns).role = role
  <2>1. PICK n \in Nat \ {0} : n = Len(turns) /\ DOMAIN turns = 1..n
    BY <1>6
  <2>2. PICK last \in X : last = turns[n] /\ last.role = role
    <3>1. turns[n] \in X
      BY <1>1, <2>1
    <3> QED BY <1>6, <2>1, <3>1 DEF Last
  <2>3. /\ last \in Items /\ last.kind = "message" /\ last.calls = <<>>
        /\ last.content.form \in {"str", "parts"} /\ last.content.parts \in Seq(ContentParts)
        /\ Keeps(last, roles, W)
    BY <1>1, <2>2 DEF Alternating, Told, Items, Contents
  <2>4. PICK parts : parts = Append(last.content.parts, said)
    OBVIOUS
  <2>5. parts \in Seq(ContentParts) /\ ToSet(parts) = ToSet(last.content.parts) \union {said}
    BY <1>5, <2>3, <2>4, ValuesAppended
  <2>6. PICK more : more = [last EXCEPT !.content.parts = parts]
    OBVIOUS
  <2>7. more \in Items /\ more.kind = "message" /\ more.calls = <<>> /\ more.role = role
        /\ more.content.form = last.content.form /\ more.content.parts = parts
    BY <2>2, <2>3, <2>5, <2>6 DEF Items, Contents
  <2>8. Keeps(more, roles, W)
    <3>1. SpeakerOf(more) = Canonical(role) /\ SpeakerOf(last) = Canonical(role)
      BY <2>2, <2>3, <2>7 DEF SpeakerOf, RoleOf
    <3>2. Visible(more.content, more.calls) \subseteq Visible(last.content, last.calls) \union {said.text}
      BY <2>3, <2>5, <2>7 DEF Visible
    <3> QED BY <1>5, <2>3, <3>1, <3>2 DEF Keeps
  <2>9. more \in X
    BY <1>1, <1>3, <2>3, <2>7, <2>8 DEF Alternating, Told
  <2>10. WithTurn(turns, m, other) = [turns EXCEPT ![n] = more]
    <3>1. WithTurn(turns, m, other) = [turns EXCEPT ![n].content.parts = Append(@, said)]
      BY <1>2, <1>4, <1>6, <2>1 DEF WithTurn
    <3>2. [turns EXCEPT ![n].content.parts = Append(@, said)]
            = [turns EXCEPT ![n] = [turns[n] EXCEPT !.content.parts = Append(@, said)]]
      BY <2>1
    <3> QED BY <2>2, <2>4, <2>6, <3>1, <3>2
  <2>11. [turns EXCEPT ![n] = more] \in [1..n -> X]
    BY <1>1, <2>1, <2>9
  <2> QED BY <1>1, <2>10, <2>11
<1>7. CASE ~(turns # <<>> /\ Last(turns).role = role)
  <2>1. PICK parts : parts = <<said>>
    OBVIOUS
  <2>2. parts \in Seq(ContentParts) /\ ToSet(parts) = {said}
    BY <1>5, <2>1 DEF ToSet
  <2>3. PICK form \in {"str", "parts"} : form = IF other = "model" THEN "parts" ELSE "str"
    OBVIOUS
  <2>4. PICK item : item = Item("message", role, [form |-> form, parts |-> parts], <<>>)
    OBVIOUS
  <2>5. item \in Told(roles, W)
    BY <1>3, <1>5, <2>2, <2>4, TextTold
  <2>6. item \in X
    BY <1>1, <1>3, <2>4, <2>5 DEF Alternating, Item
  <2>7. WithTurn(turns, m, other) = Append(turns, item)
    BY <1>2, <1>4, <1>7, <2>1, <2>3, <2>4 DEF WithTurn
  <2> QED BY <1>1, <2>6, <2>7
<1> QED BY <1>6, <1>7

\* Turns are merged one after the other.
MergesTurns(d, said, N, other) ==
    d[0] = <<>> /\ \A n \in 1..N : d[n] = WithTurn(d[n - 1], said[n], other)

\* Merging follows the messages one by one.
LEMMA MergedSteps ==
    ASSUME NEW messages \in Seq(MessageTypes), NEW other \in {"assistant", "model"},
           NEW roles, NEW W, KeptAsTold(messages, roles, W),
           NEW said, said = NotSystem(messages), NEW N \in Nat, N = Len(said)
    PROVE  \E d : /\ MergesTurns(d, said, N, other)
                 /\ Merged(messages, other) = d[N]
                 /\ \A n \in 0..N : d[n] \in Seq(Alternating(other, roles, W))
<1>1. PICK T : T = Seq(Alternating(other, roles, W))
    OBVIOUS
<1>3. /\ said \in Seq(MessageTypes)
      /\ \A m \in ToSet(said) : m \in ToSet(messages) /\ m.role # "system"
  <2>1. /\ said \in Seq(MessageTypes)
        /\ ToSet(said) = ToSet(messages) \intersect {m \in ToSet(messages) : m.role # "system"}
    BY OnlyValues DEF NotSystem
  <2> QED BY <2>1
<1>4. N = Len(said) /\ DOMAIN said = 1..N
    BY <1>3
<1>5. \A n \in 1..N : \A turns \in T : WithTurn(turns, said[n], other) \in T
  <2> SUFFICES ASSUME NEW n \in 1..N, NEW turns \in T
               PROVE  WithTurn(turns, said[n], other) \in T
    OBVIOUS
  <2>1. PICK m \in MessageTypes : m = said[n]
    BY <1>3, <1>4
  <2>2. m \in ToSet(said)
    BY <1>4, <2>1 DEF ToSet
  <2>3. m.role # "system" /\ (Spoken(m) \in roles => SeenIn(m) \subseteq Seq(W))
    BY <1>3, <2>2 DEF KeptAsTold
  <2> QED BY <1>1, <2>1, <2>3, OneMoreTurn
<1>6. PICK step : step = [n \in 1..N |-> [turns \in T |-> WithTurn(turns, said[n], other)]]
    OBVIOUS
<1>7. \A n \in 1..N : \A turns \in T :
        step[n][turns] = WithTurn(turns, said[n], other) /\ step[n][turns] \in T
    BY <1>5, <1>6
<1>8. <<>> \in T
    BY <1>1
<1>9. PICK g \in [SUBSET (1..N) -> T] : FoldsIndices(g, N, <<>>, step)
  <2>1. StepsWithin(N, T, step)
    BY <1>7 DEF StepsWithin
  <2> QED BY <1>8, <2>1, IndexFold
<1> DEFINE R(h) == h = [s \in SUBSET (1..N) |->
                          IF s = {} THEN <<>>
                          ELSE WithTurn(h[s \ {Max(s)}], said[Max(s)], other)]
<1>10. R(g)
  <2>1. ASSUME NEW s \in SUBSET (1..N)
        PROVE  g[s] = IF s = {} THEN <<>> ELSE WithTurn(g[s \ {Max(s)}], said[Max(s)], other)
    <3>0. g[s] = IF s = {} THEN <<>> ELSE step[Max(s)][g[s \ {Max(s)}]]
      BY <1>9 DEF FoldsIndices
    <3>1. CASE s = {}
      BY <3>0, <3>1
    <3>2. CASE s # {}
      <4>1. Max(s) \in 1..N
        BY <3>2, MaxOfIndices
      <4>2. s \ {Max(s)} \in SUBSET (1..N)
        OBVIOUS
      <4>3. g[s \ {Max(s)}] \in T
        BY <4>2
      <4> QED BY <1>7, <3>0, <3>2, <4>1, <4>3
    <3> QED BY <3>1, <3>2
  <2> QED BY <2>1
<1>11. PICK h : h = CHOOSE k : R(k)
    OBVIOUS
<1>12. R(h)
    BY <1>10, <1>11
<1>13. Merged(messages, other) = h[1..N]
  <2>1. Merged(messages, other) =
          (CHOOSE k : k = [s \in SUBSET (DOMAIN said) |->
                             IF s = {} THEN <<>>
                             ELSE WithTurn(k[s \ {Max(s)}], said[Max(s)], other)])[DOMAIN said]
    BY DEF Merged, FoldLeft, MapThenFoldSet, WithTurn, TurnRole
  <2> QED BY <1>4, <1>11, <2>1
<1> DEFINE I == {n \in Nat : n <= N => h[1..n] \in T}
<1>14. 0 \in I
  <2>1. 1..0 = {} /\ {} \in SUBSET (1..N)
    OBVIOUS
  <2> QED BY <1>8, <1>12, <2>1
<1>15. ASSUME NEW n \in Nat, n \in I
       PROVE  n + 1 \in I
  <2> SUFFICES ASSUME n + 1 <= N PROVE h[1..(n + 1)] \in T
    OBVIOUS
  <2>1. n + 1 \in 1..N /\ n + 1 \in Nat \ {0} /\ (n + 1) - 1 = n /\ h[1..n] \in T
    BY <1>15
  <2>2. /\ Max(1..(n + 1)) = n + 1 /\ (1..(n + 1)) \ {n + 1} = 1..n /\ 1..(n + 1) # {}
    BY <2>1, LastIndex
  <2>3. 1..(n + 1) \in SUBSET (1..N)
    BY <2>1
  <2>4. h[1..(n + 1)] = WithTurn(h[1..n], said[n + 1], other)
    BY <1>12, <2>2, <2>3
  <2> QED BY <1>5, <2>1, <2>4
<1>16. \A n \in 0..N : h[1..n] \in T
  <2>1. Nat \subseteq I
    <3> HIDE DEF I
    <3> QED BY <1>14, <1>15, SetInduction
  <2> QED BY <2>1
<1>17. PICK d : d = [n \in 0..N |-> h[1..n]]
    OBVIOUS
<1>18. d[0] = <<>>
  <2>1. 1..0 = {} /\ {} \in SUBSET (1..N) /\ 0 \in 0..N
    OBVIOUS
  <2> QED BY <1>12, <1>17, <2>1
<1>19. ASSUME NEW n \in 1..N
       PROVE  d[n] = WithTurn(d[n - 1], said[n], other)
  <2>1. n \in Nat \ {0} /\ n \in 0..N /\ n - 1 \in 0..N /\ 1..n \in SUBSET (1..N)
    OBVIOUS
  <2>2. Max(1..n) = n /\ (1..n) \ {n} = 1..(n - 1) /\ 1..n # {}
    BY <2>1, LastIndex
  <2>3. h[1..n] = WithTurn(h[1..(n - 1)], said[n], other)
    BY <1>12, <2>1, <2>2
  <2> QED BY <1>17, <2>1, <2>3
<1>20. \A n \in 0..N : d[n] \in T
    BY <1>16, <1>17
<1>21. Merged(messages, other) = d[N]
    BY <1>13, <1>17
<1> HIDE DEF R
<1> QED BY <1>1, <1>18, <1>19, <1>20, <1>21 DEF MergesTurns

\* Merged turns are as they have to be.
LEMMA MergedTold ==
    ASSUME NEW messages \in Seq(MessageTypes), NEW other \in {"assistant", "model"},
           NEW roles, NEW W, KeptAsTold(messages, roles, W)
    PROVE  Merged(messages, other) \in Seq(Alternating(other, roles, W))
<1>1. PICK said \in Seq(MessageTypes) : said = NotSystem(messages)
    BY OnlyValues DEF NotSystem
<1>2. PICK N \in Nat : N = Len(said)
    OBVIOUS
<1>3. PICK d : /\ Merged(messages, other) = d[N]
               /\ \A n \in 0..N : d[n] \in Seq(Alternating(other, roles, W))
    BY <1>1, <1>2, MergedSteps
<1> QED BY <1>3

\* A word has a kind, a name and a number.
LEMMA WordTyped ==
    ASSUME NEW kind \in {"say", "pii", "mask", "feedback", "empty", "continued"},
           NEW name \in {"", "email", "digits", "credit_card", "phone"}, NEW n \in Int
    PROVE  <<kind, name, n>> \in Words /\ <<kind, name, n>>[1] = kind
<1>1. PICK word : word = <<kind, name, n>>
    OBVIOUS
<1>2. word[1] = kind /\ word[1] # "attack"
    BY <1>1
<1>3. word \in {"say", "pii", "attack", "mask", "feedback", "empty", "continued"}
                 \X ({"", "email", "digits", "credit_card", "phone"} \union Patterns) \X Int
    BY <1>1
<1> QED BY <1>1, <1>2, <1>3 DEF Words

\* A sequence of one value.
LEMMA OneValue ==
    ASSUME NEW X, NEW x \in X
    PROVE  <<x>> \in Seq(X) /\ ToSet(<<x>>) = {x}
BY DEF ToSet

\* The messages but those of the system.
LEMMA NotSystemTyped ==
    ASSUME NEW X, NEW messages \in Seq(X)
    PROVE  /\ NotSystem(messages) \in Seq(X)
           /\ ToSet(NotSystem(messages)) \subseteq ToSet(messages)
<1>1. PICK S : S = {m \in ToSet(messages) : m.role # "system"}
    OBVIOUS
<1>2. NotSystem(messages) = Only(messages, S)
    BY <1>1 DEF NotSystem
<1>3. Only(messages, S) \in Seq(X) /\ ToSet(Only(messages, S)) = ToSet(messages) \intersect S
    BY OnlyValues
<1> QED BY <1>2, <1>3

\* Turns that alternate are turns.
LEMMA AlternatingTold ==
    ASSUME NEW other, NEW roles, NEW W, NEW turns \in Seq(Alternating(other, roles, W))
    PROVE  turns \in Seq(Told(roles, W))
<1>1. PICK A : A = Alternating(other, roles, W)
    OBVIOUS
<1>2. PICK T : T = Told(roles, W)
    OBVIOUS
<1>3. A \subseteq T
    BY <1>1, <1>2 DEF Alternating
<1> QED BY <1>1, <1>2, <1>3

\* The form of the arguments of an SDK.
IsKwargs(kwargs) ==
    kwargs = Kwargs(kwargs.model, kwargs.system, kwargs.turns, kwargs.shape, kwargs.settings)

\* What is covered is what the system prompt and the items of the roles show.
LEMMA CoveredKept ==
    ASSUME NEW kwargs, NEW roles, NEW W,
           kwargs.system # None /\ "system" \in roles => Visible(kwargs.system, <<>>) \subseteq Seq(W),
           \A item \in ToSet(kwargs.turns) : Keeps(item, roles, W)
    PROVE  Covered(kwargs, roles) \subseteq Seq(W)
BY DEF Covered, Keeps

\* An SDK accepts turns without calls and null contents.
LEMMA ToldAccepted ==
    ASSUME NEW q, NEW kwargs, NEW roles, NEW W,
           IsPrompt(kwargs.system), q = "openai" => kwargs.system = None,
           kwargs.turns \in Seq(Told(roles, W)), kwargs.shape = "list",
           q = "google" => kwargs.turns \in Seq(Alternating("model", roles, W))
    PROVE  /\ IsArgs(q, kwargs)
           /\ \A item \in ToSet(kwargs.turns) : Keeps(item, roles, W)
<1>1. PICK N \in Nat : N = Len(kwargs.turns) /\ DOMAIN kwargs.turns = 1..N
    OBVIOUS
<1>2. ASSUME NEW i \in 1..N
      PROVE  LET item == kwargs.turns[i] IN
             /\ item \in Items /\ item.kind = "message" /\ item.content.form # "null"
             /\ Keeps(item, roles, W)
    BY <1>1 DEF Told
<1>3. kwargs.turns \in Seq(Items)
  <2>1. Told(roles, W) \subseteq Items
    BY DEF Told
  <2> QED BY <2>1
<1>4. ASSUME q = "google", NEW i \in 1..N
      PROVE  Canonical(kwargs.turns[i].role) # "system"
  <2>1. kwargs.turns[i] \in Alternating("model", roles, W)
    BY <1>1, <1>4
  <2> QED BY <2>1 DEF Alternating, Canonical
<1>5. \A item \in ToSet(kwargs.turns) : Keeps(item, roles, W)
    BY <1>1, <1>2 DEF ToSet
<1>6. IsArgs(q, kwargs)
    BY <1>1, <1>2, <1>3, <1>4 DEF IsArgs, IsPrompt
<1> QED BY <1>5, <1>6

\* What the turn says that the Messages API requires first.
ContinuedWord == <<"continued", "", 0>>

\* It is a word.
LEMMA ContinuedTyped == ContinuedWord \in Words
<1>1. 0 \in Int
    OBVIOUS
<1> QED BY <1>1, WordTyped DEF ContinuedWord

\* The turn the Messages API requires first.
LEMMA ContinuedTold ==
    ASSUME NEW roles, NEW W, ContinuedWord \in W
    PROVE  Continued \in Told(roles, W)
<1>1. PICK word : word = ContinuedWord
    OBVIOUS
<1>2. word \in Words /\ word \in W
    BY <1>1, ContinuedTyped
<1>3. PICK text : text = <<word>>
    OBVIOUS
<1>a. text \in Seq(Words) /\ text \in Seq(W)
    BY <1>2, <1>3, OneValue
<1>b. PICK part : part = Part("text", text)
    OBVIOUS
<1>4. part \in ContentParts /\ part.text \in Seq(W)
    BY <1>a, <1>b DEF Part, ContentParts, Text
<1>5. <<part>> \in Seq(ContentParts) /\ ToSet(<<part>>) = {part}
    BY <1>4, OneValue
<1>6. Item("message", "user", [form |-> "str", parts |-> <<part>>], <<>>) \in Told(roles, W)
  <2>1. "user" \in Roles
    BY DEF Roles
  <2> QED BY <1>4, <1>5, <2>1, TextTold
<1> QED BY <1>1, <1>3, <1>b, <1>6 DEF Continued, ContinuedWord, Str

\* A translation is accepted by the other SDK, and shows what the messages do.
LEMMA TranslationKeeps ==
    ASSUME NEW q \in Providers, NEW req, req.messages \in Seq(MessageTypes),
           NEW roles, NEW W, ContinuedWord \in W, KeptAsTold(req.messages, roles, W),
           NEW kwargs, kwargs = ToKwargsTranslated(q, req)
    PROVE  /\ IsArgs(q, kwargs)
           /\ Covered(kwargs, roles) \subseteq Seq(W)
           /\ IsKwargs(kwargs)
<1>1. PICK ms \in Seq(MessageTypes) : ms = req.messages
    OBVIOUS
<1>2. PICK system : system = SystemText(ms)
    OBVIOUS
<1>3. /\ IsPrompt(system)
      /\ system # None /\ "system" \in roles => Visible(system, <<>>) \subseteq Seq(W)
    BY <1>1, <1>2, SystemTextTyped
<1>4. SUFFICES /\ kwargs.system \in {system, None} /\ (q = "openai" => kwargs.system = None)
               /\ kwargs.turns \in Seq(Told(roles, W))
               /\ IsKwargs(kwargs) /\ kwargs.shape = "list"
               /\ q = "google" => kwargs.turns \in Seq(Alternating("model", roles, W))
  <2> SUFFICES ASSUME kwargs.system \in {system, None}, q = "openai" => kwargs.system = None,
                      kwargs.turns \in Seq(Told(roles, W)), kwargs.shape = "list",
                      q = "google" => kwargs.turns \in Seq(Alternating("model", roles, W))
               PROVE  IsArgs(q, kwargs) /\ Covered(kwargs, roles) \subseteq Seq(W)
    OBVIOUS
  <2>2. /\ IsPrompt(kwargs.system)
        /\ kwargs.system # None /\ "system" \in roles => Visible(kwargs.system, <<>>) \subseteq Seq(W)
    BY <1>3 DEF IsPrompt
  <2>3. IsArgs(q, kwargs) /\ \A item \in ToSet(kwargs.turns) : Keeps(item, roles, W)
    BY <2>2, ToldAccepted
  <2> QED BY <2>2, <2>3, CoveredKept
<1>6. CASE q = "openai"
  <2>1. TranslatedAll(ms) \in Seq(Told(roles, W))
    BY <1>1, TranslatedTold
  <2> QED BY <1>1, <1>6, <2>1 DEF ToKwargsTranslated, IsKwargs, Kwargs
<1>7. CASE q = "openai-responses"
  <2>1. PICK said : said = NotSystem(ms)
    OBVIOUS
  <2>2. said \in Seq(MessageTypes) /\ ToSet(said) \subseteq ToSet(ms)
    BY <1>1, <2>1, NotSystemTyped
  <2>3. KeptAsTold(said, roles, W)
    BY <1>1, <2>2 DEF KeptAsTold
  <2>4. TranslatedAll(said) \in Seq(Told(roles, W))
    BY <2>2, <2>3, TranslatedTold
  <2> QED BY <1>1, <1>2, <1>7, <2>1, <2>4 DEF ToKwargsTranslated, IsKwargs, Kwargs
<1>8. CASE q = "anthropic"
  <2>1. PICK body : body = Merged(ms, "assistant")
    OBVIOUS
  <2>2. body \in Seq(Told(roles, W))
    BY <1>1, <2>1, MergedTold, AlternatingTold
  <2>3. <<Continued>> \o body \in Seq(Told(roles, W))
    <3>1. Continued \in Told(roles, W)
      BY ContinuedTold
    <3>2. <<Continued>> \in Seq(Told(roles, W))
      BY <3>1, OneValue
    <3> QED BY <2>2, <3>2, ValuesJoined
  <2> QED BY <1>1, <1>2, <1>8, <2>1, <2>2, <2>3 DEF ToKwargsTranslated, ToAnthropic, IsKwargs, Kwargs
<1>9. CASE q = "google"
  <2>1. PICK body : body = Merged(ms, "model")
    OBVIOUS
  <2>2. body \in Seq(Alternating("model", roles, W))
    BY <1>1, <2>1, MergedTold
  <2>3. body \in Seq(Told(roles, W))
    BY <2>2, AlternatingTold
  <2> QED BY <1>1, <1>2, <1>9, <2>1, <2>2, <2>3 DEF ToKwargsTranslated, IsKwargs, Kwargs
<1> QED BY <1>6, <1>7, <1>8, <1>9 DEF Providers

\* A content that is one string.
LEMMA StrTyped ==
    ASSUME NEW text \in Text
    PROVE  Str(text) \in Contents /\ ToSet(Str(text).parts) = {Part("text", text)}
<1>1. PICK part : part = Part("text", text)
    OBVIOUS
<1>2. part \in ContentParts
    BY <1>1 DEF Part, ContentParts
<1>3. <<part>> \in Seq(ContentParts) /\ ToSet(<<part>>) = {part}
    BY <1>2, OneValue
<1> QED BY <1>1, <1>3 DEF Str, Contents

\* The item of a message that comes from none.
LEMMA NoItemTyped ==
    /\ NoItem \in Items
    /\ NoItem.kind = "none" /\ NoItem.content.form = "str" /\ NoItem.calls = <<>>
<1>1. <<>> \in Text /\ <<>> \in Seq(Text)
    BY DEF Text
<1>2. Str(<<>>) \in Contents
    BY <1>1, StrTyped
<1>3. Str(<<>>).form = "str"
    BY DEF Str
<1> QED BY <1>1, <1>2, <1>3 DEF NoItem, Item, Items, ItemKinds, Roles

\* A turn with one text.
LEMMA TurnTyped ==
    ASSUME NEW role \in Roles, NEW text \in Text
    PROVE  Turn(role, text) \in MessageTypes
BY StrTyped, NoItemTyped DEF Turn, Message, MessageTypes, Marks

\* The canonical arguments of complete() become ones the provider's SDK accepts.
LEMMA BuiltAccepted ==
    ASSUME NEW q \in Providers, NEW asked, IsArgs("openai", asked),
           \A i \in DOMAIN asked.turns : Len(asked.turns[i].content.parts) = 1
    PROVE  IsArgs(q, BuildKwargs(q, asked))
<1>1. PICK turns \in Seq(Items) : turns = asked.turns
    BY DEF IsArgs
<1>2. PICK N \in Nat : N = Len(turns) /\ DOMAIN turns = 1..N
    OBVIOUS
<1>3. PICK params : params = [limit |-> asked.settings.limit, temp |-> asked.settings.temp,
                              stop |-> asked.settings.stop]
    OBVIOUS
<1>4. PICK messages : messages = [i \in 1..N |-> Turn(turns[i].role, turns[i].content.parts[1].text)]
    OBVIOUS
<1>6. messages \in Seq(MessageTypes)
  <2>1. ASSUME NEW i \in 1..N
        PROVE  Turn(turns[i].role, turns[i].content.parts[1].text) \in MessageTypes
    <3>1. turns[i] \in Items
      BY <1>2
    <3>2. PICK parts \in Seq(ContentParts) : parts = turns[i].content.parts
      BY <3>1 DEF Items, Contents
    <3>3. Len(parts) = 1
      <4>1. i \in DOMAIN asked.turns /\ parts = asked.turns[i].content.parts
        BY <1>1, <1>2, <3>2
      <4> QED BY <4>1
    <3>4. parts[1] \in ContentParts
      BY <3>3
    <3> QED BY <3>1, <3>2, <3>4, TurnTyped DEF ContentParts, Items
  <2>2. messages \in [1..N -> MessageTypes]
    BY <1>4, <2>1
  <2> QED BY <2>2
<1>7. PICK req : req = Request(q, asked.model, messages, params, None, None)
    OBVIOUS
<1>8. req.messages = messages
    BY <1>7 DEF Request
<1>9. PICK kwargs : kwargs = ToKwargsTranslated(q, req)
    OBVIOUS
<1>10. IsArgs(q, kwargs) /\ IsKwargs(kwargs)
  <2>1. ContinuedWord \in Words
    BY ContinuedTyped
  <2>2. KeptAsTold(req.messages, {}, Words)
    BY DEF KeptAsTold
  <2> QED BY <1>6, <1>8, <1>9, <2>1, <2>2, TranslationKeeps
<1>11. PICK settings : settings = [kwargs.settings EXCEPT
                                     !.opts = asked.settings.opts,
                                     !.body = IF q = "anthropic" THEN params.temp ELSE None]
    OBVIOUS
<1>12. BuildKwargs(q, asked) = [kwargs EXCEPT !.settings = settings]
  <2>1. BuildKwargs(q, asked) = [kwargs EXCEPT !.settings.opts = asked.settings.opts,
                                   !.settings.body = IF q = "anthropic" THEN params.temp ELSE None]
    BY <1>1, <1>2, <1>3, <1>4, <1>7, <1>9 DEF BuildKwargs
  <2> QED BY <1>10, <1>11, <2>1 DEF IsKwargs, Kwargs
<1>13. /\ BuildKwargs(q, asked).system = kwargs.system /\ BuildKwargs(q, asked).turns = kwargs.turns
       /\ BuildKwargs(q, asked).shape = kwargs.shape
    BY <1>10, <1>12 DEF IsKwargs, Kwargs
<1> QED BY <1>10, <1>13 DEF IsArgs

(***************************************************************************)
(* What the messages of a request say of the arguments it is made of       *)
(***************************************************************************)

\* Whose words a message has: one of an output that is a list has none.
Voice(role) == IF role = "function_call_output" THEN "tool" ELSE role

\* The messages the adapter of q makes, and those a re-ask adds.
Made(q) == {m \in MessageTypes :
    /\ m.mark = "item" =>
         /\ m.item.content.form = "null" \/ m.item.kind \in {"function_call", "other"} =>
              m.item.content.parts = <<>>
         /\ q # "google" => SpeakerOf(m.item) = Voice(m.role)
         /\ m.item.kind = "function_call_output" => m.content.form = "str"
    /\ m.role = "function_call_output" => m.content = Str(<<>>) /\ m.item.calls = <<>>
    /\ m.mark # "item" => /\ m.role \in PortableRoles
                          /\ m.item.kind = "none" /\ m.item.content.form = "str"
                          /\ m.item.calls = <<>>
    /\ m.mark \in {"system", "instructions"} => m.role = "system"
    /\ q = "google" => /\ m.role \in {"system", "user", "assistant", "tool", "function"}
                       /\ m.role = "system" => m.mark = "system"}

\* m shows what item does, in the same role.
Shows(m, item) ==
    m.role = SpeakerOf(item) /\ Visible(item.content, item.calls) \subseteq SeenIn(m)

\* An item an SDK accepts.
Accepted(q, item) ==
    /\ item \in Items
    /\ item.content.form = "null" \/ item.kind \in {"function_call", "other"} =>
         item.content.parts = <<>>
    /\ item.kind = "function_call_output" => item.calls = <<>>
    /\ CASE q = "google" -> /\ item.kind \in {"message", "content", "bare"}
                            /\ Canonical(item.role) # "system"
                            /\ item.kind = "bare" => item.role = "user" /\ item.calls = <<>>
         [] q = "openai-responses" -> item.kind \in {"message", "function_call",
                                                     "function_call_output", "other"}
         [] OTHER -> item.kind = "message"

\* The message of an item.
LEMMA OfItemMade ==
    ASSUME NEW q, NEW item, Accepted(q, item), item.kind \in {"message", "content"}
    PROVE  OfItem(item) \in Made(q) /\ Shows(OfItem(item), item)
<1>1. PICK m : m = OfItem(item)
    OBVIOUS
<1>2. PICK content : content = ContentOf(item)
    OBVIOUS
<1>3. PICK role : role = Canonical(item.role)
    OBVIOUS
<1>4. item \in Items /\ item.content \in Contents
    BY DEF Accepted, Items
<1>5. content \in Contents /\ Visible(item.content, item.calls) \subseteq Visible(content, item.calls)
  <2>1. CASE item.content.form = "null"
    <3>1. <<>> \in Text
      BY DEF Text
    <3>2. content \in Contents
      BY <1>2, <2>1, <3>1, StrTyped DEF ContentOf
    <3>3. item.content.parts = <<>> /\ ToSet(<<>>) = {}
      BY <2>1 DEF Accepted, ToSet
    <3>4. Visible(item.content, item.calls) = ToSet(item.calls)
      BY <3>3 DEF Visible
    <3> QED BY <3>2, <3>4 DEF Visible
  <2>2. CASE item.content.form # "null"
    BY <1>2, <1>4, <2>2 DEF ContentOf
  <2> QED BY <2>1, <2>2
<1>6. role \in {"system", "user", "assistant", "tool", "function"}
    BY <1>3, <1>4 DEF Canonical, Items, Roles
<1>7. m = [role |-> role, content |-> content, mark |-> "item", item |-> item]
    BY <1>1, <1>2, <1>3 DEF OfItem, Message
<1>8. m \in MessageTypes
    BY <1>4, <1>5, <1>6, <1>7 DEF MessageTypes, Marks, Roles
<1>9. SpeakerOf(item) = role /\ Voice(role) = role
    BY <1>3, <1>6 DEF SpeakerOf, RoleOf, Voice
<1>10. q = "google" => role # "system"
    BY <1>3 DEF Accepted
<1>11. item.content.form = "null" \/ item.kind \in {"function_call", "other"} => item.content.parts = <<>>
    BY DEF Accepted
<1>12. m \in Made(q)
    BY <1>6, <1>7, <1>8, <1>9, <1>10, <1>11 DEF Made
<1>13. Shows(m, item)
    BY <1>5, <1>7, <1>9 DEF Shows, SeenIn
<1> QED BY <1>1, <1>12, <1>13

\* The message of an item of the Responses API.
LEMMA OfInputItemMade ==
    ASSUME NEW item, Accepted("openai-responses", item)
    PROVE  OfInputItem(item) \in Made("openai-responses")
<1>1. CASE item.kind = "message"
    BY <1>1, OfItemMade DEF OfInputItem
<1> DEFINE MadeOf(role, content) == Message(role, content, "item", item)
<1>2. ASSUME NEW role \in ItemKinds \union {"tool"}, NEW content \in Contents,
             SpeakerOf(item) = Voice(role),
             role = "function_call_output" => content = Str(<<>>) /\ item.calls = <<>>,
             content.form = "str"
      PROVE  MadeOf(role, content) \in Made("openai-responses")
  <2>1. PICK m : m = MadeOf(role, content)
    OBVIOUS
  <2>2. m = [role |-> role, content |-> content, mark |-> "item", item |-> item]
    BY <2>1 DEF Message
  <2>3. item \in Items /\ (item.content.form = "null" \/ item.kind \in {"function_call", "other"} =>
                             item.content.parts = <<>>)
    BY DEF Accepted
  <2>4. m \in MessageTypes
    BY <2>2, <2>3 DEF MessageTypes, Marks, Roles
  <2>5. m \in Made("openai-responses")
    BY <1>2, <2>2, <2>3, <2>4 DEF Made
  <2> QED BY <2>1, <2>5
<1>3. CASE item.kind = "function_call_output" /\ item.content.form = "str"
  <2>1. OfInputItem(item) = MadeOf("tool", item.content)
    BY <1>3 DEF OfInputItem
  <2>2. SpeakerOf(item) = Voice("tool") /\ item.content \in Contents
    BY <1>3 DEF SpeakerOf, Voice, Accepted, Items
  <2> QED BY <1>2, <1>3, <2>1, <2>2
<1>4. CASE item.kind # "message" /\ ~(item.kind = "function_call_output" /\ item.content.form = "str")
  <2>1. OfInputItem(item) = MadeOf(item.kind, Str(<<>>))
    BY <1>4 DEF OfInputItem
  <2>2. item.kind \notin {"message", "content", "bare"} /\ item.kind \in ItemKinds
    BY <1>4 DEF Accepted, Items
  <2>3. SpeakerOf(item) = Voice(item.kind)
    BY <2>2 DEF SpeakerOf, RoleOf, Voice
  <2>4. <<>> \in Text
    BY DEF Text
  <2>5. item.kind = "function_call_output" => item.calls = <<>>
    BY DEF Accepted
  <2>6. Str(<<>>).form = "str"
    BY DEF Str
  <2> QED BY <1>2, <2>1, <2>2, <2>3, <2>4, <2>5, <2>6, StrTyped
<1> QED BY <1>1, <1>3, <1>4

\* The message of a system prompt given apart.
LEMMA SystemMade ==
    ASSUME NEW q, NEW mark \in {"system", "instructions"}, NEW system \in Contents \union {None},
           q = "google" => mark = "system"
    PROVE  /\ SystemMessages(system, mark) \in Seq(Made(q))
           /\ system # None =>
                Message("system", system, mark, NoItem) \in ToSet(SystemMessages(system, mark))
<1>1. CASE system = None
    BY <1>1 DEF SystemMessages
<1>2. CASE system # None
  <2>1. PICK m : m = Message("system", system, mark, NoItem)
    OBVIOUS
  <2>2. m = [role |-> "system", content |-> system, mark |-> mark, item |-> NoItem]
    BY <2>1 DEF Message
  <2>3. m \in MessageTypes
    BY <1>2, <2>2, NoItemTyped DEF MessageTypes, Marks, Roles
  <2>4. m \in Made(q)
    BY <2>2, <2>3, NoItemTyped DEF Made, PortableRoles
  <2>5. SystemMessages(system, mark) = <<m>>
    BY <1>2, <2>1 DEF SystemMessages
  <2>6. <<m>> \in Seq(Made(q)) /\ ToSet(<<m>>) = {m}
    BY <2>4, OneValue
  <2> QED BY <2>1, <2>5, <2>6
<1> QED BY <1>1, <1>2

\* The message a bare part or string of Gemini's contents opens.
BareTurn(item) == Message("user", Parts(item.content.parts), "item",
                          Item("content", "user", Parts(<<>>), <<>>))

\* The messages with one more item.
WithItem(done, item) ==
    IF item.kind # "bare"
    THEN [open |-> FALSE, messages |-> Append(done.messages, OfItem(item))]
    ELSE IF ~done.open
    THEN [open |-> TRUE, messages |-> Append(done.messages, BareTurn(item))]
    ELSE [done EXCEPT !.messages[Len(done.messages)].content.parts = @ \o item.content.parts]

\* The messages of the items so far; the last one may be open for more parts.
GroupsSoFar == {d \in [open : BOOLEAN, messages : Seq(Made("google"))] :
                   d.open => d.messages # <<>> /\ Last(d.messages).role = "user"}

\* new shows all that old does, in the same roles.
ShowsAll(new, old) ==
    \A m \in ToSet(old) : \E k \in ToSet(new) : k.role = m.role /\ SeenIn(m) \subseteq SeenIn(k)

\* A message with more parts.
Longer(m, parts) == [m EXCEPT !.content.parts = @ \o parts]

\* One more bare part in the open message.
LEMMA PartsAppended ==
    ASSUME NEW m \in Made("google"), m.role = "user", NEW parts \in Seq(ContentParts),
           NEW more, more = Longer(m, parts)
    PROVE  /\ more \in Made("google") /\ more.role = "user"
           /\ SeenIn(m) \subseteq SeenIn(more) /\ Visible(Parts(parts), <<>>) \subseteq SeenIn(more)
<1>1. m \in MessageTypes /\ m.content \in Contents /\ m.content.parts \in Seq(ContentParts)
    BY DEF Made, MessageTypes, Contents
<1>2. PICK all : all = m.content.parts \o parts
    OBVIOUS
<1>3. all \in Seq(ContentParts) /\ ToSet(all) = ToSet(m.content.parts) \union ToSet(parts)
    BY <1>1, <1>2, ValuesJoined
<1>4. PICK content : content = [m.content EXCEPT !.parts = all]
    OBVIOUS
<1>5. content \in Contents /\ content.parts = all /\ content.form = m.content.form
    BY <1>1, <1>3, <1>4 DEF Contents
<1>6. more = [m EXCEPT !.content = content]
    BY <1>1, <1>2, <1>4 DEF Longer, MessageTypes
<1>7. /\ more \in MessageTypes
      /\ more.role = m.role /\ more.mark = m.mark /\ more.item = m.item /\ more.content = content
    BY <1>1, <1>5, <1>6 DEF MessageTypes
<1>8. more \in Made("google")
    BY <1>5, <1>7 DEF Made
<1>9. SeenIn(m) \subseteq SeenIn(more)
    BY <1>3, <1>5, <1>7 DEF SeenIn, Visible
<1>10. Visible(Parts(parts), <<>>) \subseteq SeenIn(more)
  <2>1. ToSet(<<>>) = {}
    BY DEF ToSet
  <2> QED BY <1>3, <1>5, <1>7, <2>1 DEF SeenIn, Visible, Parts
<1> QED BY <1>7, <1>8, <1>9, <1>10

\* One more item keeps the messages as they are, and shows itself.
LEMMA OneMoreItem ==
    ASSUME NEW done \in GroupsSoFar, NEW item, Accepted("google", item)
    PROVE  LET more == WithItem(done, item) IN
           /\ more \in GroupsSoFar
           /\ ShowsAll(more.messages, done.messages)
           /\ \E m \in ToSet(more.messages) : Shows(m, item)
<1>1. PICK X : X = Made("google")
    OBVIOUS
<1>2. PICK old \in Seq(X) : old = done.messages
    BY <1>1 DEF GroupsSoFar
<1>3. PICK more : more = WithItem(done, item)
    OBVIOUS
<1>4. /\ item \in Items /\ item.kind \in {"message", "content", "bare"}
      /\ item.kind = "bare" => item.role = "user" /\ item.calls = <<>>
    BY DEF Accepted
<1>5. item.content.parts \in Seq(ContentParts)
    BY <1>4 DEF Items, Contents
<1>6. ASSUME NEW m \in X, NEW open \in BOOLEAN, open => m.role = "user", Shows(m, item),
             more = [open |-> open, messages |-> Append(old, m)]
      PROVE  /\ more \in GroupsSoFar
             /\ ShowsAll(more.messages, old)
             /\ \E k \in ToSet(more.messages) : Shows(k, item)
  <2>1. PICK new : new = Append(old, m)
    OBVIOUS
  <2>2. new \in Seq(X) /\ ToSet(new) = ToSet(old) \union {m}
    BY <2>1, ValuesAppended
  <2>3. new # <<>> /\ Last(new) = m
    BY <2>1 DEF Last
  <2>4. more.messages = new /\ more.open = open
    BY <1>6, <2>1
  <2>5. more \in GroupsSoFar
    BY <1>1, <1>6, <2>1, <2>2, <2>3 DEF GroupsSoFar
  <2>6. ShowsAll(new, old)
    BY <2>2 DEF ShowsAll
  <2> QED BY <1>6, <2>2, <2>4, <2>5, <2>6
<1>7. CASE item.kind # "bare"
  <2>1. OfItem(item) \in X /\ Shows(OfItem(item), item)
    BY <1>1, <1>4, <1>7, OfItemMade
  <2>2. more = [open |-> FALSE, messages |-> Append(old, OfItem(item))]
    BY <1>2, <1>3, <1>7 DEF WithItem
  <2> QED BY <1>2, <1>3, <1>6, <2>1, <2>2
<1>8. item.kind = "bare" =>
          /\ SpeakerOf(item) = "user"
          /\ Visible(item.content, item.calls) = Visible(Parts(item.content.parts), <<>>)
    BY <1>4 DEF SpeakerOf, RoleOf, Canonical, Visible, Parts
<1>9. CASE item.kind = "bare" /\ ~done.open
  <2>1. PICK m : m = BareTurn(item)
    OBVIOUS
  <2>2. PICK none : none = Item("content", "user", Parts(<<>>), <<>>)
    OBVIOUS
  <2>3. none \in Items /\ none.content.parts = <<>> /\ none.calls = <<>> /\ none.kind = "content"
    <3>1. Parts(<<>>) \in Contents
      BY DEF Parts, Contents
    <3>2. <<>> \in Seq(Text)
      OBVIOUS
    <3> QED BY <2>2, <3>1, <3>2 DEF Item, Items, ItemKinds, Roles, Parts
  <2>4. PICK content : content = Parts(item.content.parts)
    OBVIOUS
  <2>5. content \in Contents
    BY <1>5, <2>4 DEF Parts, Contents
  <2>6. m = [role |-> "user", content |-> content, mark |-> "item", item |-> none]
    BY <2>1, <2>2, <2>4 DEF BareTurn, Message
  <2>7. m \in MessageTypes
    BY <2>3, <2>5, <2>6 DEF MessageTypes, Marks, Roles
  <2>8. m \in X
    BY <1>1, <2>3, <2>6, <2>7 DEF Made
  <2>9. Shows(m, item)
    BY <1>8, <1>9, <2>3, <2>4, <2>6 DEF Shows, SeenIn
  <2>10. more = [open |-> TRUE, messages |-> Append(old, m)]
    BY <1>2, <1>3, <1>9, <2>1 DEF WithItem
  <2> QED BY <1>2, <1>3, <1>6, <2>6, <2>8, <2>9, <2>10
<1>10. CASE item.kind = "bare" /\ done.open
  <2>1. PICK n \in Nat \ {0} : n = Len(old) /\ DOMAIN old = 1..n
    <3>1. old # <<>>
      BY <1>2, <1>10 DEF GroupsSoFar
    <3> QED BY <3>1
  <2>2. PICK m \in X : m = old[n] /\ m.role = "user"
    <3>1. Last(old).role = "user"
      BY <1>2, <1>10 DEF GroupsSoFar
    <3> QED BY <2>1, <3>1 DEF Last
  <2>3. PICK parts \in Seq(ContentParts) : parts = item.content.parts
    BY <1>5
  <2>4. PICK k : k = Longer(m, parts)
    OBVIOUS
  <2>5. /\ k \in X /\ k.role = "user"
        /\ SeenIn(m) \subseteq SeenIn(k) /\ Visible(Parts(parts), <<>>) \subseteq SeenIn(k)
    <3>1. m \in Made("google") /\ m.role = "user"
      BY <1>1, <2>2
    <3> QED BY <1>1, <2>4, <3>1, PartsAppended
  <2>6. PICK new : new = [old EXCEPT ![n] = k]
    OBVIOUS
  <2>7. /\ new \in Seq(X) /\ DOMAIN new = 1..n /\ Len(new) = n /\ new[n] = k
        /\ \A i \in 1..n : i # n => new[i] = old[i]
    <3>1. new \in [1..n -> X]
      BY <2>1, <2>5, <2>6
    <3>2. new \in Seq(X)
      BY <3>1
    <3> QED BY <2>1, <2>6, <3>1, <3>2
  <2>8. more = [open |-> TRUE, messages |-> new]
    <3>1. more = [done EXCEPT !.messages[Len(old)].content.parts = @ \o parts]
      BY <1>2, <1>3, <1>10, <2>3 DEF WithItem
    <3>2. done = [open |-> TRUE, messages |-> old]
      BY <1>2, <1>10 DEF GroupsSoFar
    <3>3. [done EXCEPT !.messages[n].content.parts = @ \o parts]
            = [done EXCEPT !.messages = [old EXCEPT ![n] = [m EXCEPT !.content.parts = @ \o parts]]]
      BY <2>1, <2>2, <3>2
    <3> QED BY <2>1, <2>4, <2>6, <3>1, <3>2, <3>3 DEF Longer
  <2>9. new # <<>> /\ Last(new) = k
    BY <2>1, <2>7 DEF Last
  <2>10. more \in GroupsSoFar
    BY <1>1, <2>5, <2>7, <2>8, <2>9 DEF GroupsSoFar
  <2>11. k \in ToSet(new)
    BY <2>1, <2>7 DEF ToSet
  <2>12. ShowsAll(new, old)
    <3>1. ASSUME NEW i \in 1..n
          PROVE  \E j \in ToSet(new) : j.role = old[i].role /\ SeenIn(old[i]) \subseteq SeenIn(j)
      <4>1. CASE i = n
        BY <2>2, <2>5, <2>11, <4>1
      <4>2. CASE i # n
        <5>1. new[i] = old[i] /\ new[i] \in ToSet(new)
          BY <2>7, <4>2 DEF ToSet
        <5> QED BY <5>1
      <4> QED BY <4>1, <4>2
    <3> QED BY <2>1, <3>1 DEF ShowsAll, ToSet
  <2>13. Shows(k, item)
    BY <1>8, <1>10, <2>3, <2>5 DEF Shows
  <2> QED BY <1>2, <1>3, <2>8, <2>10, <2>11, <2>12, <2>13
<1> QED BY <1>7, <1>9, <1>10

\* Items are grouped one after the other.
NoGroups == [open |-> FALSE, messages |-> <<>>]

GroupsItems(d, items, N) ==
    d[0] = NoGroups /\ \A n \in 1..N : d[n] = WithItem(d[n - 1], items[n])

\* Grouping follows the items one by one.
LEMMA GroupedSteps ==
    ASSUME NEW items \in Seq(Items), \A i \in DOMAIN items : Accepted("google", items[i]),
           NEW N \in Nat, N = Len(items)
    PROVE  \E d : /\ GroupsItems(d, items, N)
                 /\ Grouped(items) = d[N].messages
                 /\ \A n \in 0..N : d[n] \in GroupsSoFar
<1>1. DOMAIN items = 1..N
    OBVIOUS
<1>2. PICK T : T = GroupsSoFar
    OBVIOUS
<1>3. PICK none : none = NoGroups
    OBVIOUS
<1>4. none \in T
  <2>1. <<>> \in Seq(Made("google"))
    OBVIOUS
  <2> QED BY <1>2, <1>3, <2>1 DEF GroupsSoFar, NoGroups
<1>5. \A n \in 1..N : \A done \in T : WithItem(done, items[n]) \in T
  <2> SUFFICES ASSUME NEW n \in 1..N, NEW done \in T
               PROVE  WithItem(done, items[n]) \in T
    OBVIOUS
  <2>1. Accepted("google", items[n]) /\ done \in GroupsSoFar
    BY <1>1, <1>2
  <2> QED BY <1>2, <2>1, OneMoreItem
<1>6. PICK step : step = [n \in 1..N |-> [done \in T |-> WithItem(done, items[n])]]
    OBVIOUS
<1>7. \A n \in 1..N : \A done \in T :
        step[n][done] = WithItem(done, items[n]) /\ step[n][done] \in T
    BY <1>5, <1>6
<1>8. PICK g \in [SUBSET (1..N) -> T] : FoldsIndices(g, N, none, step)
  <2>1. StepsWithin(N, T, step)
    BY <1>7 DEF StepsWithin
  <2> QED BY <1>4, <2>1, IndexFold
<1> DEFINE R(h) == h = [s \in SUBSET (1..N) |->
                          IF s = {} THEN none ELSE WithItem(h[s \ {Max(s)}], items[Max(s)])]
<1>9. R(g)
  <2>1. ASSUME NEW s \in SUBSET (1..N)
        PROVE  g[s] = IF s = {} THEN none ELSE WithItem(g[s \ {Max(s)}], items[Max(s)])
    <3>0. g[s] = IF s = {} THEN none ELSE step[Max(s)][g[s \ {Max(s)}]]
      BY <1>8 DEF FoldsIndices
    <3>1. CASE s = {}
      BY <3>0, <3>1
    <3>2. CASE s # {}
      <4>1. Max(s) \in 1..N
        BY <3>2, MaxOfIndices
      <4>2. s \ {Max(s)} \in SUBSET (1..N)
        OBVIOUS
      <4>3. g[s \ {Max(s)}] \in T
        BY <4>2
      <4> QED BY <1>7, <3>0, <3>2, <4>1, <4>3
    <3> QED BY <3>1, <3>2
  <2> QED BY <2>1
<1>10. PICK h : h = CHOOSE k : R(k)
    OBVIOUS
<1>11. R(h)
    BY <1>9, <1>10
<1>12. Grouped(items) = h[1..N].messages
  <2>1. Grouped(items) =
          (CHOOSE k : k = [s \in SUBSET (DOMAIN items) |->
                             IF s = {} THEN [open |-> FALSE, messages |-> <<>>]
                             ELSE WithItem(k[s \ {Max(s)}], items[Max(s)])])[DOMAIN items].messages
    BY DEF Grouped, FoldLeft, MapThenFoldSet, WithItem, BareTurn
  <2> QED BY <1>1, <1>3, <1>10, <2>1 DEF NoGroups
<1>13. PICK d : d = [n \in 0..N |-> h[1..n]]
    OBVIOUS
<1>14. d[0] = none
  <2>1. 1..0 = {} /\ {} \in SUBSET (1..N) /\ 0 \in 0..N
    OBVIOUS
  <2> QED BY <1>11, <1>13, <2>1
<1>15. ASSUME NEW n \in 1..N
       PROVE  d[n] = WithItem(d[n - 1], items[n])
  <2>1. n \in Nat \ {0} /\ n \in 0..N /\ n - 1 \in 0..N /\ 1..n \in SUBSET (1..N)
    OBVIOUS
  <2>2. Max(1..n) = n /\ (1..n) \ {n} = 1..(n - 1) /\ 1..n # {}
    BY <2>1, LastIndex
  <2>3. h[1..n] = WithItem(h[1..(n - 1)], items[n])
    BY <1>11, <2>1, <2>2
  <2> QED BY <1>13, <2>1, <2>3
<1>16. \A n \in 0..N : d[n] \in T
  <2> DEFINE I == {n \in Nat : n <= N => d[n] \in T}
  <2>1. 0 \in I
    BY <1>4, <1>14
  <2>2. ASSUME NEW n \in Nat, n \in I PROVE n + 1 \in I
    <3> SUFFICES ASSUME n + 1 <= N PROVE d[n + 1] \in T
      OBVIOUS
    <3>1. n + 1 \in 1..N /\ (n + 1) - 1 = n /\ d[n] \in T
      BY <2>2
    <3> QED BY <1>5, <1>15, <3>1
  <2>3. Nat \subseteq I
    <3> HIDE DEF I
    <3> QED BY <2>1, <2>2, SetInduction
  <2> QED BY <2>3
<1>17. Grouped(items) = d[N].messages
    BY <1>12, <1>13
<1> HIDE DEF R
<1> QED BY <1>2, <1>3, <1>14, <1>15, <1>16, <1>17 DEF GroupsItems

\* The messages of Gemini's contents show all of them.
LEMMA GroupedMade ==
    ASSUME NEW items \in Seq(Items), \A i \in DOMAIN items : Accepted("google", items[i])
    PROVE  /\ Grouped(items) \in Seq(Made("google"))
           /\ \A item \in ToSet(items) : \E m \in ToSet(Grouped(items)) : Shows(m, item)
<1>1. PICK N \in Nat : N = Len(items) /\ DOMAIN items = 1..N
    OBVIOUS
<1>2. PICK d : /\ GroupsItems(d, items, N)
               /\ Grouped(items) = d[N].messages
               /\ \A n \in 0..N : d[n] \in GroupsSoFar
    BY <1>1, GroupedSteps
<1> DEFINE Shown(n) == \A i \in 1..n : \E m \in ToSet(d[n].messages) : Shows(m, items[i])
           I == {n \in Nat : n <= N => Shown(n)}
<1>3. 0 \in I
    OBVIOUS
<1>4. ASSUME NEW n \in Nat, n \in I
      PROVE  n + 1 \in I
  <2> SUFFICES ASSUME n + 1 <= N PROVE Shown(n + 1)
    OBVIOUS
  <2>1. n + 1 \in 1..N /\ (n + 1) - 1 = n /\ n \in 0..N /\ Shown(n)
    BY <1>4
  <2>2. d[n + 1] = WithItem(d[n], items[n + 1])
    BY <1>2, <2>1 DEF GroupsItems
  <2>3. PICK old \in GroupsSoFar, new \in GroupsSoFar : old = d[n] /\ new = d[n + 1]
    BY <1>2, <2>1
  <2>4. Accepted("google", items[n + 1])
    BY <1>1, <2>1
  <2>5. /\ ShowsAll(new.messages, old.messages)
        /\ \E m \in ToSet(new.messages) : Shows(m, items[n + 1])
    BY <2>2, <2>3, <2>4, OneMoreItem
  <2>6. ASSUME NEW i \in 1..(n + 1)
        PROVE  \E m \in ToSet(new.messages) : Shows(m, items[i])
    <3>1. CASE i = n + 1
      BY <2>5, <3>1
    <3>2. CASE i \in 1..n
      <4>1. PICK m \in ToSet(old.messages) : Shows(m, items[i])
        BY <2>1, <2>3, <3>2
      <4>2. PICK k \in ToSet(new.messages) : k.role = m.role /\ SeenIn(m) \subseteq SeenIn(k)
        BY <2>5 DEF ShowsAll
      <4>3. Shows(k, items[i])
        BY <4>1, <4>2 DEF Shows
      <4> QED BY <4>3
    <3> QED BY <3>1, <3>2
  <2> QED BY <2>3, <2>6
<1>5. Shown(N)
  <2>1. N \in I
    <3> HIDE DEF I
    <3> QED BY <1>3, <1>4, SetInduction
  <2> QED BY <2>1
<1>6. Grouped(items) \in Seq(Made("google"))
    BY <1>2 DEF GroupsSoFar
<1>7. \A item \in ToSet(items) : \E i \in 1..N : item = items[i]
    BY <1>1 DEF ToSet
<1> QED BY <1>2, <1>5, <1>6, <1>7

\* An adapter's messages are made of what the SDK accepts.
LEMMA MessagesMade ==
    ASSUME NEW q \in Providers, NEW kwargs, IsArgs(q, kwargs)
    PROVE  MessagesOf(q, kwargs) \in Seq(Made(q))
<1>1. PICK turns \in Seq(Items) : turns = kwargs.turns
    BY DEF IsArgs
<1>2. PICK N \in Nat : N = Len(turns) /\ DOMAIN turns = 1..N
    OBVIOUS
<1>3. kwargs.system \in Contents \union {None}
    BY DEF IsArgs
<1>4. \A i \in 1..N : Accepted(q, turns[i])
  <2>1. \A i \in 1..N : turns[i] \in Items
    BY <1>2
  <2> QED BY <1>1, <1>2, <2>1 DEF IsArgs, Accepted
<1>5. ASSUME q \in {"openai", "anthropic"}
      PROVE  [i \in DOMAIN kwargs.turns |-> OfItem(kwargs.turns[i])] \in Seq(Made(q))
  <2>1. \A i \in 1..N : turns[i].kind = "message"
    BY <1>4, <1>5 DEF Accepted
  <2>2. \A i \in 1..N : OfItem(turns[i]) \in Made(q)
    BY <1>4, <2>1, OfItemMade
  <2>3. [i \in 1..N |-> OfItem(turns[i])] \in [1..N -> Made(q)]
    BY <2>2
  <2> QED BY <1>1, <1>2, <2>3
<1>6. CASE q = "openai"
    BY <1>5, <1>6 DEF MessagesOf
<1>7. CASE q = "anthropic"
  <2>1. SystemMessages(kwargs.system, "system") \in Seq(Made(q))
    BY <1>3, SystemMade
  <2>2. PICK r \in Seq(Made(q)) : r = SystemMessages(kwargs.system, "system")
    BY <2>1
  <2>3. PICK s \in Seq(Made(q)) : s = [i \in DOMAIN kwargs.turns |-> OfItem(kwargs.turns[i])]
    BY <1>5, <1>7
  <2>4. MessagesOf(q, kwargs) = r \o s
    BY <1>7, <2>2, <2>3 DEF MessagesOf
  <2> QED BY <2>4, ValuesJoined
<1>8. CASE q = "google"
  <2>1. SystemMessages(kwargs.system, "system") \in Seq(Made(q))
    BY <1>3, SystemMade
  <2>2. PICK r \in Seq(Made(q)) : r = SystemMessages(kwargs.system, "system")
    BY <2>1
  <2>3. PICK s \in Seq(Made(q)) : s = Grouped(turns)
    BY <1>2, <1>4, <1>8, GroupedMade
  <2>4. MessagesOf(q, kwargs) = r \o s
    BY <1>1, <1>8, <2>2, <2>3 DEF MessagesOf
  <2> QED BY <2>4, ValuesJoined
<1>9. CASE q = "openai-responses"
  <2>1. SystemMessages(kwargs.system, "instructions") \in Seq(Made(q))
    BY <1>3, <1>9, SystemMade
  <2>2. PICK r \in Seq(Made(q)) : r = SystemMessages(kwargs.system, "instructions")
    BY <2>1
  <2>3. CASE kwargs.shape = "str"
    <3>0. Len(kwargs.turns) = 1
      BY <1>9, <2>3 DEF IsArgs
    <3>1. N = 1 /\ 1 \in 1..N
      BY <1>1, <1>2, <3>0
    <3>2. turns[1] \in Items
      BY <1>2, <3>1
    <3>3. PICK m : m = Message("user", turns[1].content, "string", NoItem)
      OBVIOUS
    <3>4. m = [role |-> "user", content |-> turns[1].content, mark |-> "string", item |-> NoItem]
      BY <3>3 DEF Message
    <3>5. m \in MessageTypes
      BY <3>2, <3>4, NoItemTyped DEF MessageTypes, Marks, Roles, Items
    <3>6. m \in Made(q)
      BY <1>9, <3>4, <3>5, NoItemTyped DEF Made, PortableRoles
    <3>7. <<m>> \in Seq(Made(q))
      BY <3>6, OneValue
    <3>8. MessagesOf(q, kwargs) = r \o <<m>>
      BY <1>1, <1>9, <2>2, <2>3, <3>3 DEF MessagesOf
    <3> QED BY <3>7, <3>8, ValuesJoined
  <2>4. CASE kwargs.shape # "str"
    <3>1. \A i \in 1..N : OfInputItem(turns[i]) \in Made(q)
      BY <1>4, <1>9, OfInputItemMade
    <3>2. PICK s : s = [i \in 1..N |-> OfInputItem(turns[i])]
      OBVIOUS
    <3>3. s \in Seq(Made(q))
      <4>1. s \in [1..N -> Made(q)]
        BY <3>1, <3>2
      <4> QED BY <4>1
    <3>4. MessagesOf(q, kwargs) = r \o s
      BY <1>1, <1>2, <1>9, <2>2, <2>4, <3>2 DEF MessagesOf
    <3> QED BY <3>3, <3>4, ValuesJoined
  <2> QED BY <2>3, <2>4
<1> QED BY <1>6, <1>7, <1>8, <1>9 DEF Providers

(***************************************************************************)
(* What is sent to the provider a request is made for                      *)
(***************************************************************************)

\* What the messages of the roles show has words of W only.
KeepsTo(messages, roles, W) ==
    \A m \in ToSet(messages) : m.role \in roles => SeenIn(m) \subseteq Seq(W)

\* An item restored has the voice of its message, and shows no more.
LEMMA RestoredShows ==
    ASSUME NEW q, q # "google", NEW m \in Made(q)
    PROVE  /\ SpeakerOf(Restored(m)) = Voice(m.role)
           /\ Visible(Restored(m).content, Restored(m).calls) \subseteq SeenIn(m)
<1>1. PICK item : item = m.item
    OBVIOUS
<1>2. item \in Items /\ m.role \in Roles \union ItemKinds
    BY <1>1 DEF Made, MessageTypes
<1>3. SeenIn(m) = Visible(m.content, item.calls)
    BY <1>1 DEF SeenIn
<1>4. ToSet(<<>>) = {}
    BY DEF ToSet
<1>5. CASE m.mark # "item"
  <2>1. PICK r : r = Restored(m)
    OBVIOUS
  <2>2. r = [kind |-> "message", role |-> m.role, content |-> m.content, calls |-> <<>>]
    <3>1. item.content.form = "str" /\ item.kind = "none"
      BY <1>1, <1>5 DEF Made
    <3> QED BY <1>1, <1>5, <2>1, <3>1 DEF Restored, Item
  <2>3. m.role \in PortableRoles
    BY <1>5 DEF Made
  <2>4. SpeakerOf(r) = Voice(m.role)
    BY <2>2, <2>3 DEF SpeakerOf, RoleOf, Canonical, PortableRoles, Voice
  <2>5. Visible(r.content, r.calls) \subseteq SeenIn(m)
    BY <1>3, <1>4, <2>2 DEF Visible
  <2> QED BY <2>1, <2>4, <2>5
<1>6. CASE m.mark = "item" /\ (item.content.form = "null" \/ item.kind \in {"function_call", "other"})
                           /\ Restored(m) = item
  <2>1. item.content.parts = <<>> /\ SpeakerOf(item) = Voice(m.role)
    <3>1. \/ m.item.content.form = "null"
          \/ m.item.kind \in {"function_call", "other"}
      BY <1>1, <1>6
    <3> QED BY <1>1, <1>6, <3>1 DEF Made
  <2>2. Visible(item.content, item.calls) = ToSet(item.calls)
    BY <1>4, <2>1 DEF Visible
  <2> QED BY <1>3, <1>6, <2>1, <2>2 DEF Visible
<1>7. CASE m.mark = "item" /\ Restored(m) = [item EXCEPT !.content = m.content]
  <2>1. SpeakerOf(item) = Voice(m.role)
    BY <1>1, <1>7 DEF Made
  <2>2. PICK r : r = Restored(m)
    OBVIOUS
  <2>3. r.kind = item.kind /\ r.role = item.role /\ r.content = m.content /\ r.calls = item.calls
    BY <1>2, <1>7, <2>2 DEF Items
  <2>4. SpeakerOf(r) = SpeakerOf(item)
    BY <2>3 DEF SpeakerOf, RoleOf
  <2> QED BY <1>3, <2>1, <2>2, <2>3, <2>4
<1> QED BY <1>1, <1>5, <1>6, <1>7 DEF Restored

\* The message of an output that is a list says nothing.
LEMMA SaysNothing ==
    ASSUME NEW q, NEW m \in Made(q), m.role = "function_call_output"
    PROVE  SeenIn(m) \subseteq {<<>>}
<1>1. PICK content : content = Str(<<>>)
    OBVIOUS
<1>2. m.content = content /\ m.item.calls = <<>>
    BY <1>1 DEF Made
<1>3. <<>> \in Text
    BY DEF Text
<1>4. ToSet(content.parts) = {Part("text", <<>>)}
    BY <1>1, <1>3, StrTyped
<1>5. ToSet(<<>>) = {}
    BY DEF ToSet
<1>6. Part("text", <<>>).text = <<>>
    BY DEF Part
<1> QED BY <1>2, <1>4, <1>5, <1>6 DEF SeenIn, Visible

\* Items restored keep to the words of their messages.
LEMMA RestoredKept ==
    ASSUME NEW q, q # "google", NEW messages \in Seq(Made(q)), NEW roles, NEW W,
           KeepsTo(messages, roles, W)
    PROVE  \A item \in ToSet(RestoredAll(messages)) : Keeps(item, roles, W)
<1>1. PICK N \in Nat : N = Len(messages) /\ DOMAIN messages = 1..N
    OBVIOUS
<1>2. ASSUME NEW i \in 1..N
      PROVE  Keeps(Restored(messages[i]), roles, W)
  <2>1. PICK m \in Made(q) : m = messages[i] /\ m \in ToSet(messages)
    BY <1>1 DEF ToSet
  <2>2. m.role \in roles => SeenIn(m) \subseteq Seq(W)
    BY <2>1 DEF KeepsTo
  <2>3. /\ SpeakerOf(Restored(m)) = Voice(m.role)
        /\ Visible(Restored(m).content, Restored(m).calls) \subseteq SeenIn(m)
    BY RestoredShows
  <2>4. Voice(m.role) \in roles => SeenIn(m) \subseteq Seq(W)
    <3>1. CASE m.role = "function_call_output"
      <4>1. SeenIn(m) \subseteq {<<>>}
        BY <3>1, SaysNothing
      <4>2. <<>> \in Seq(W)
        OBVIOUS
      <4> QED BY <4>1, <4>2
    <3>2. CASE m.role # "function_call_output"
      BY <2>2, <3>2 DEF Voice
    <3> QED BY <3>1, <3>2
  <2> QED BY <2>1, <2>3, <2>4 DEF Keeps
<1>3. RestoredAll(messages) = [i \in 1..N |-> Restored(messages[i])]
    BY <1>1 DEF RestoredAll
<1>4. ToSet(RestoredAll(messages)) = {Restored(messages[i]) : i \in 1..N}
    BY <1>3 DEF ToSet
<1> QED BY <1>2, <1>4

\* The messages the adapter makes, of whatever provider.
LEMMA MadeTyped ==
    ASSUME NEW q, NEW messages \in Seq(Made(q))
    PROVE  messages \in Seq(MessageTypes)
<1>1. PICK M : M = Made(q)
    OBVIOUS
<1>2. M \subseteq MessageTypes
    BY <1>1 DEF Made
<1> QED BY <1>1, <1>2

\* The system prompt as it is given apart again.
LEMMA SystemOfKept ==
    ASSUME NEW messages \in Seq(MessageTypes), NEW W,
           \A m \in ToSet(messages) : SeenIn(m) \subseteq Seq(W), SystemOf(messages) # None
    PROVE  Visible(SystemOf(messages), <<>>) \subseteq Seq(W)
<1>1. CASE messages = <<>>
    BY <1>1 DEF SystemOf
<1>2. CASE messages # <<>> /\ Len(messages) = 1 /\ messages[1].mark = "system"
  <2>1. SystemOf(messages) = messages[1].content
    BY <1>2 DEF SystemOf
  <2>2. messages[1] \in ToSet(messages)
    BY <1>2 DEF ToSet
  <2>3. ToSet(<<>>) = {}
    BY DEF ToSet
  <2>4. Visible(messages[1].content, <<>>) \subseteq SeenIn(messages[1])
    BY <2>3 DEF Visible, SeenIn
  <2> QED BY <2>1, <2>2, <2>4
<1>3. CASE messages # <<>> /\ ~(Len(messages) = 1 /\ messages[1].mark = "system")
  <2>1. SystemOf(messages) = Paragraphs(messages)
    BY <1>3 DEF SystemOf
  <2> QED BY <2>1, ParagraphsTyped
<1> QED BY <1>1, <1>2, <1>3

\* What goes to Anthropic.
LEMMA AnthropicKeeps ==
    ASSUME NEW req, req.messages \in Seq(Made("anthropic")), NEW roles, NEW W,
           KeepsTo(req.messages, roles, W)
    PROVE  Covered(ToAnthropicNative(req), roles) \subseteq Seq(W)
<1>1. PICK M : M = Made("anthropic")
    OBVIOUS
<1>2. PICK ms \in Seq(M) : ms = req.messages
    BY <1>1
<1>3. PICK marked : marked = {m \in ToSet(ms) : IsSystem(m)}
    OBVIOUS
<1>4. PICK system : system = Only(ms, marked)
    OBVIOUS
<1>5. PICK body : body = Only(ms, ToSet(ms) \ marked)
    OBVIOUS
<1>6. system \in Seq(M) /\ ToSet(system) = ToSet(ms) \intersect marked
    BY <1>4, OnlyValues
<1>7. body \in Seq(M) /\ ToSet(body) = ToSet(ms) \intersect (ToSet(ms) \ marked)
    BY <1>5, OnlyValues
<1>8. PICK kwargs : kwargs = ToAnthropicNative(req)
    OBVIOUS
<1>9. kwargs.system = SystemOf(system) /\ kwargs.turns = RestoredAll(body)
    BY <1>2, <1>3, <1>4, <1>5, <1>8 DEF ToAnthropicNative, Kwargs
<1>10. \A item \in ToSet(kwargs.turns) : Keeps(item, roles, W)
  <2>1. KeepsTo(body, roles, W)
    BY <1>2, <1>7 DEF KeepsTo
  <2> QED BY <1>1, <1>7, <1>9, <2>1, RestoredKept
<1>11. ASSUME kwargs.system # None, "system" \in roles
       PROVE  Visible(kwargs.system, <<>>) \subseteq Seq(W)
  <2>1. \A m \in ToSet(system) : m \in M /\ IsSystem(m) /\ m \in ToSet(ms)
    <3>1. ToSet(system) \subseteq M
      BY <1>6, ValuesTyped
    <3> QED BY <1>3, <1>6, <3>1
  <2>2. \A m \in ToSet(system) : m.role = "system"
    BY <1>1, <2>1 DEF IsSystem, Made
  <2>3. \A m \in ToSet(system) : SeenIn(m) \subseteq Seq(W)
    BY <1>2, <1>11, <2>1, <2>2 DEF KeepsTo
  <2>4. system \in Seq(MessageTypes)
    BY <1>1, <1>6, MadeTyped
  <2> QED BY <1>9, <1>11, <2>3, <2>4, SystemOfKept
<1> QED BY <1>8, <1>10, <1>11, CoveredKept

\* What goes to the Responses API.
LEMMA ResponsesKeeps ==
    ASSUME NEW req, req.messages \in Seq(Made("openai-responses")), NEW roles, NEW W,
           KeepsTo(req.messages, roles, W)
    PROVE  Covered(ToResponsesNative(req), roles) \subseteq Seq(W)
<1>1. PICK M : M = Made("openai-responses")
    OBVIOUS
<1>2. PICK ms \in Seq(M) : ms = req.messages
    BY <1>1
<1>3. PICK leading : leading = (ms # <<>> /\ Head(ms).mark = "instructions")
    OBVIOUS
<1>4. PICK rest : rest = IF leading THEN Tail(ms) ELSE ms
    OBVIOUS
<1>5. rest \in Seq(M) /\ ToSet(rest) \subseteq ToSet(ms)
  <2>1. CASE ms # <<>>
    <3>1. PICK n \in Nat \ {0} : n = Len(ms) /\ DOMAIN ms = 1..n
      BY <2>1
    <3>2. PICK t : t = Tail(ms)
      OBVIOUS
    <3>3. t \in Seq(M) /\ DOMAIN t = 1..(n - 1) /\ \A i \in 1..(n - 1) : t[i] = ms[i + 1]
      BY <2>1, <3>1, <3>2
    <3>4. \A i \in 1..(n - 1) : i + 1 \in 1..n
      BY <3>1
    <3>5. ToSet(t) \subseteq ToSet(ms)
      BY <3>1, <3>3, <3>4 DEF ToSet
    <3> QED BY <1>4, <3>2, <3>3, <3>5
  <2>2. CASE ms = <<>>
    BY <1>3, <1>4, <2>2
  <2> QED BY <2>1, <2>2
<1>6. PICK kwargs : kwargs = ToResponsesNative(req)
    OBVIOUS
<1>7. /\ kwargs.system = IF leading THEN Str(TextOf(Head(ms))) ELSE None
      /\ kwargs.turns = RestoredAll(rest)
    BY <1>2, <1>3, <1>4, <1>6 DEF ToResponsesNative, Kwargs
<1>8. \A item \in ToSet(kwargs.turns) : Keeps(item, roles, W)
  <2>1. KeepsTo(rest, roles, W)
    BY <1>2, <1>5 DEF KeepsTo
  <2> QED BY <1>1, <1>5, <1>7, <2>1, RestoredKept
<1>9. ASSUME kwargs.system # None, "system" \in roles
      PROVE  Visible(kwargs.system, <<>>) \subseteq Seq(W)
  <2>1. leading /\ ms # <<>>
    BY <1>3, <1>7, <1>9
  <2>2. PICK m \in M : m = Head(ms) /\ m \in ToSet(ms) /\ m.mark = "instructions"
    <3>1. Head(ms) = ms[1] /\ 1 \in DOMAIN ms /\ ms[1] \in M
      BY <2>1
    <3> QED BY <1>3, <2>1, <3>1 DEF ToSet
  <2>3. m.role = "system" /\ m \in MessageTypes
    BY <1>1, <2>2 DEF Made
  <2>4. SeenIn(m) \subseteq Seq(W)
    BY <1>2, <1>9, <2>2, <2>3 DEF KeepsTo
  <2>5. TextOf(m) \in Seq(W) /\ TextOf(m) \in Text
    BY <2>3, <2>4, TextOfMessage
  <2>6. ToSet(Str(TextOf(m)).parts) = {Part("text", TextOf(m))}
    BY <2>5, StrTyped
  <2>7. ToSet(<<>>) = {}
    BY DEF ToSet
  <2>8. Visible(Str(TextOf(m)), <<>>) \subseteq {TextOf(m)}
    BY <2>6, <2>7 DEF Visible, Part
  <2> QED BY <1>7, <2>1, <2>2, <2>5, <2>8
<1> QED BY <1>6, <1>8, <1>9, CoveredKept

\* One of Gemini's contents has the role of its message, and shows the same.
LEMMA ToContentShows ==
    ASSUME NEW m \in Made("google"), m.mark # "system"
    PROVE  /\ SpeakerOf(ToContent(m)) = m.role
           /\ Visible(ToContent(m).content, ToContent(m).calls) = SeenIn(m)
<1>1. m.role \in {"user", "assistant", "tool", "function"}
    BY DEF Made
<1>2. PICK item : item = ToContent(m)
    OBVIOUS
<1>3. PICK role : role = IF m.role = "assistant" THEN "model"
                         ELSE IF m.role = "user" THEN "user" ELSE m.role
    OBVIOUS
<1>4. item = [kind |-> "content", role |-> role, content |-> Parts(m.content.parts), calls |-> m.item.calls]
    BY <1>1, <1>2, <1>3 DEF ToContent, Item
<1>5. SpeakerOf(item) = m.role
    BY <1>1, <1>3, <1>4 DEF SpeakerOf, RoleOf, Canonical
<1>6. Visible(item.content, item.calls) = SeenIn(m)
    BY <1>4 DEF Visible, SeenIn, Parts
<1> QED BY <1>2, <1>5, <1>6

\* The messages of Gemini's arguments show all that is covered in them.
LEMMA ArgsShown ==
    ASSUME NEW kwargs, IsArgs("google", kwargs), NEW roles, NEW W,
           KeepsTo(MessagesOf("google", kwargs), roles, W)
    PROVE  Covered(kwargs, roles) \subseteq Seq(W)
<1>1. PICK turns \in Seq(Items) : turns = kwargs.turns
    BY DEF IsArgs
<1>2. PICK N \in Nat : N = Len(turns) /\ DOMAIN turns = 1..N
    OBVIOUS
<1>3. \A i \in 1..N : Accepted("google", turns[i])
  <2>1. \A i \in 1..N : turns[i] \in Items
    BY <1>2
  <2> QED BY <1>1, <1>2, <2>1 DEF IsArgs, Accepted
<1>4. PICK M : M = Made("google")
    OBVIOUS
<1>5. PICK r : r = SystemMessages(kwargs.system, "system")
    OBVIOUS
<1>6. /\ r \in Seq(M)
      /\ kwargs.system # None => Message("system", kwargs.system, "system", NoItem) \in ToSet(r)
  <2>1. kwargs.system \in Contents \union {None}
    BY DEF IsArgs
  <2> QED BY <1>4, <1>5, <2>1, SystemMade
<1>7. PICK s \in Seq(M) : s = Grouped(turns)
    BY <1>2, <1>3, <1>4, GroupedMade
<1>8. \A item \in ToSet(turns) : \E m \in ToSet(s) : Shows(m, item)
    BY <1>2, <1>3, <1>7, GroupedMade
<1>9. MessagesOf("google", kwargs) = r \o s
    BY <1>1, <1>5, <1>7 DEF MessagesOf
<1>10. ToSet(MessagesOf("google", kwargs)) = ToSet(r) \union ToSet(s)
    BY <1>6, <1>9, ValuesJoined
<1>11. ASSUME NEW item \in ToSet(kwargs.turns)
       PROVE  Keeps(item, roles, W)
  <2>1. PICK m \in ToSet(s) : Shows(m, item)
    BY <1>1, <1>8
  <2>2. m.role \in roles => SeenIn(m) \subseteq Seq(W)
    BY <1>10 DEF KeepsTo
  <2> QED BY <2>1, <2>2 DEF Shows, Keeps
<1>12. ASSUME kwargs.system # None, "system" \in roles
       PROVE  Visible(kwargs.system, <<>>) \subseteq Seq(W)
  <2>1. PICK m : m = Message("system", kwargs.system, "system", NoItem)
    OBVIOUS
  <2>2. m \in ToSet(MessagesOf("google", kwargs)) /\ m.role = "system" /\ m.content = kwargs.system
    BY <1>6, <1>10, <1>12, <2>1 DEF Message
  <2>3. SeenIn(m) \subseteq Seq(W)
    BY <1>12, <2>2 DEF KeepsTo
  <2>4. ToSet(<<>>) = {}
    BY DEF ToSet
  <2>5. Visible(kwargs.system, <<>>) \subseteq SeenIn(m)
    BY <2>2, <2>4 DEF Visible, SeenIn
  <2> QED BY <2>3, <2>5
<1> QED BY <1>11, <1>12, CoveredKept

\* req is a request made of arguments an SDK of q accepts, whatever has become of its
\* messages.
MadeOf(q, req) ==
    /\ req.messages \in Seq(Made(q))
    /\ \E kwargs : /\ IsArgs(q, kwargs)
                   /\ req.extra = Extra(kwargs) /\ req.pristine = MessagesOf(q, kwargs)

\* What goes to Gemini, verbatim or not.
LEMMA GoogleKeeps ==
    ASSUME NEW req, MadeOf("google", req), NEW roles, NEW W, KeepsTo(req.messages, roles, W)
    PROVE  Covered(ToGoogleNative(req), roles) \subseteq Seq(W)
<1>1. PICK M : M = Made("google")
    OBVIOUS
<1>2. PICK ms \in Seq(M) : ms = req.messages
    BY <1>1 DEF MadeOf
<1>3. PICK args : /\ IsArgs("google", args)
                  /\ req.extra = Extra(args) /\ req.pristine = MessagesOf("google", args)
    BY DEF MadeOf
<1>4. req.extra.system = args.system /\ req.extra.turns = args.turns
    BY <1>3 DEF Extra
<1>5. PICK kwargs : kwargs = ToGoogleNative(req)
    OBVIOUS
<1>6. CASE MessagesUnchanged(req)
  <2>1. kwargs.system = args.system /\ kwargs.turns = args.turns
    BY <1>4, <1>5, <1>6 DEF ToGoogleNative, Kwargs
  <2>2. KeepsTo(MessagesOf("google", args), roles, W)
    BY <1>3, <1>6 DEF MessagesUnchanged
  <2>3. Covered(args, roles) \subseteq Seq(W)
    BY <1>3, <2>2, ArgsShown
  <2> QED BY <1>5, <2>1, <2>3 DEF Covered
<1>7. CASE ~MessagesUnchanged(req)
  <2>1. PICK marked : marked = {m \in ToSet(ms) : m.mark = "system"}
    OBVIOUS
  <2>2. PICK system : system = Only(ms, marked)
    OBVIOUS
  <2>3. PICK body : body = Only(ms, ToSet(ms) \ ToSet(system))
    OBVIOUS
  <2>4. system \in Seq(M) /\ ToSet(system) = ToSet(ms) \intersect marked
    BY <2>2, OnlyValues
  <2>5. body \in Seq(M) /\ ToSet(body) = ToSet(ms) \intersect (ToSet(ms) \ ToSet(system))
    BY <2>3, OnlyValues
  <2>6. PICK pristine : pristine = Only(req.pristine, {m \in ToSet(req.pristine) : m.mark = "system"})
    OBVIOUS
  <2>7. /\ kwargs.system = IF system = pristine THEN args.system
                           ELSE IF system = <<>> THEN None ELSE Paragraphs(system)
        /\ kwargs.turns = [i \in DOMAIN body |-> ToContent(body[i])]
    BY <1>2, <1>4, <1>5, <1>7, <2>1, <2>2, <2>3, <2>6 DEF ToGoogleNative, Kwargs
  <2>8. ASSUME NEW item \in ToSet(kwargs.turns)
        PROVE  Keeps(item, roles, W)
    <3>1. PICK i \in DOMAIN body : item = ToContent(body[i])
      BY <2>7 DEF ToSet
    <3>2. PICK m \in M : m = body[i] /\ m \in ToSet(body)
      BY <2>5 DEF ToSet
    <3>3. m \in ToSet(ms) /\ m.mark # "system"
      BY <2>1, <2>4, <2>5, <3>2
    <3>4. m.role \in roles => SeenIn(m) \subseteq Seq(W)
      BY <1>2, <3>3 DEF KeepsTo
    <3>5. SpeakerOf(item) = m.role /\ Visible(item.content, item.calls) = SeenIn(m)
      BY <1>1, <3>1, <3>2, <3>3, ToContentShows
    <3> QED BY <3>4, <3>5 DEF Keeps
  <2>9. ASSUME kwargs.system # None, "system" \in roles
        PROVE  Visible(kwargs.system, <<>>) \subseteq Seq(W)
    <3>1. \A m \in ToSet(system) : m \in ToSet(ms) /\ m \in M /\ m.mark = "system"
      <4>1. ToSet(system) \subseteq M
        BY <2>4, ValuesTyped
      <4> QED BY <2>1, <2>4, <4>1
    <3>2. \A m \in ToSet(system) : SeenIn(m) \subseteq Seq(W)
      <4>1. \A m \in ToSet(system) : m.role = "system"
        BY <1>1, <3>1 DEF Made
      <4> QED BY <1>2, <2>9, <3>1, <4>1 DEF KeepsTo
    <3>3. CASE system = pristine
      <4>1. args.system # None /\ kwargs.system = args.system
        BY <2>7, <2>9, <3>3
      <4>2. PICK m : m = Message("system", args.system, "system", NoItem)
        OBVIOUS
      <4>3. m \in ToSet(req.pristine)
        <5>1. args.system \in Contents \union {None}
          BY <1>3 DEF IsArgs
        <5>2. PICK r \in Seq(M) : r = SystemMessages(args.system, "system") /\ m \in ToSet(r)
          BY <1>1, <4>1, <4>2, <5>1, SystemMade
        <5>3. PICK s : s = Grouped(args.turns)
          OBVIOUS
        <5>4. req.pristine = r \o s
          BY <1>3, <5>2, <5>3 DEF MessagesOf
        <5>5. s \in Seq(M)
          <6>1. PICK turns \in Seq(Items) : turns = args.turns
            BY <1>3 DEF IsArgs
          <6>2. PICK N \in Nat : N = Len(turns) /\ DOMAIN turns = 1..N
            OBVIOUS
          <6>3. \A i \in 1..N : Accepted("google", turns[i])
            <7>1. \A i \in 1..N : turns[i] \in Items
              BY <6>2
            <7> QED BY <1>3, <6>1, <6>2, <7>1 DEF IsArgs, Accepted
          <6> QED BY <1>1, <5>3, <6>1, <6>2, <6>3, GroupedMade
        <5> QED BY <5>2, <5>4, <5>5, ValuesJoined
      <4>4. m \in ToSet(system)
        <5>1. PICK p \in Seq(M) : p = req.pristine
          BY <1>1, <1>3, MessagesMade DEF Providers
        <5>2. ToSet(pristine) = ToSet(p) \intersect {k \in ToSet(p) : k.mark = "system"}
          BY <2>6, <5>1, OnlyValues
        <5>3. m.mark = "system"
          BY <4>2 DEF Message
        <5> QED BY <3>3, <4>3, <5>1, <5>2, <5>3
      <4>5. SeenIn(m) \subseteq Seq(W)
        BY <3>2, <4>4
      <4>6. ToSet(<<>>) = {}
        BY DEF ToSet
      <4>7. Visible(args.system, <<>>) \subseteq SeenIn(m)
        BY <4>2, <4>6 DEF Visible, SeenIn, Message
      <4> QED BY <4>1, <4>5, <4>7
    <3>4. CASE system # pristine
      <4>1. kwargs.system = Paragraphs(system)
        BY <2>7, <2>9, <3>4
      <4>2. system \in Seq(MessageTypes)
        BY <1>1, <2>4, MadeTyped
      <4> QED BY <3>2, <4>1, <4>2, ParagraphsTyped
    <3> QED BY <3>3, <3>4
  <2> QED BY <1>5, <2>8, <2>9, CoveredKept
<1> QED BY <1>6, <1>7

\* What is sent shows what the messages do, to whatever target: the one the request is
\* made for, or one it can be translated for.
LEMMA SentKeeps ==
    ASSUME NEW q \in Providers, NEW req,
           q = req.origin => MadeOf(q, req),
           q # req.origin => /\ req.messages \in Seq(MessageTypes)
                             /\ \A m \in ToSet(req.messages) : m.role \in PortableRoles,
           NEW roles, NEW W, ContinuedWord \in W, KeepsTo(req.messages, roles, W)
    PROVE  Covered(ToKwargs(q, req), roles) \subseteq Seq(W)
<1>1. CASE req.origin = q
  <2>1. ToKwargs(q, req) = ToKwargsNative(q, req)
    BY <1>1 DEF ToKwargs
  <2>2. CASE q = "openai"
    <3>1. PICK ms \in Seq(Made("openai")) : ms = req.messages
      BY <1>1, <2>2 DEF MadeOf
    <3>2. PICK kwargs : kwargs = ToKwargsNative(q, req)
      OBVIOUS
    <3>3. kwargs.system = None /\ kwargs.turns = RestoredAll(ms)
      BY <2>2, <3>1, <3>2 DEF ToKwargsNative, Kwargs
    <3>4. \A item \in ToSet(RestoredAll(ms)) : Keeps(item, roles, W)
      BY <3>1, RestoredKept
    <3> QED BY <2>1, <3>2, <3>3, <3>4, CoveredKept
  <2>3. CASE q = "anthropic"
    <3>1. req.messages \in Seq(Made("anthropic"))
      BY <1>1, <2>3 DEF MadeOf
    <3>2. ToKwargsNative(q, req) = ToAnthropicNative(req)
      BY <2>3 DEF ToKwargsNative
    <3> QED BY <2>1, <3>1, <3>2, AnthropicKeeps
  <2>4. CASE q = "google"
    <3>1. ToKwargsNative(q, req) = ToGoogleNative(req)
      BY <2>4 DEF ToKwargsNative
    <3> QED BY <1>1, <2>1, <2>4, <3>1, GoogleKeeps
  <2>5. CASE q = "openai-responses"
    <3>1. req.messages \in Seq(Made("openai-responses"))
      BY <1>1, <2>5 DEF MadeOf
    <3>2. ToKwargsNative(q, req) = ToResponsesNative(req)
      BY <2>5 DEF ToKwargsNative
    <3> QED BY <2>1, <3>1, <3>2, ResponsesKeeps
  <2> QED BY <2>2, <2>3, <2>4, <2>5 DEF Providers
<1>2. CASE req.origin # q
  <2>1. PICK kwargs : kwargs = ToKwargsTranslated(q, req)
    OBVIOUS
  <2>2. ToKwargs(q, req) = kwargs
    BY <1>2, <2>1 DEF ToKwargs
  <2>3. req.messages \in Seq(MessageTypes)
    BY <1>2
  <2>4. KeptAsTold(req.messages, roles, W)
    <3>1. \A m \in ToSet(req.messages) : m.role \in PortableRoles
      BY <1>2
    <3>2. \A m \in ToSet(req.messages) : Spoken(m) = m.role
      BY <3>1 DEF Spoken
    <3> QED BY <3>2 DEF KeptAsTold, KeepsTo
  <2> QED BY <2>1, <2>2, <2>3, <2>4, TranslationKeeps
<1> QED BY <1>1, <1>2

(***************************************************************************)
(* The request after it was masked                                         *)
(***************************************************************************)

\* The parts of a content, and the arguments of calls, as RedactMessage makes them.
RedactedParts(parts, entities, registryOf) ==
    [i \in DOMAIN parts |->
        IF IsVisible(parts[i]) THEN Part(parts[i].kind, Redact(parts[i].text, entities, registryOf))
        ELSE parts[i]]

RedactedCalls(calls, entities, registryOf) ==
    [i \in DOMAIN calls |-> Redact(calls[i], entities, registryOf)]

\* The texts of parts are changed where they are visible, the parts stay what they are.
LEMMA PartsRedacted ==
    ASSUME NEW parts \in Seq(ContentParts), NEW entities, NEW registryOf,
           \A p \in ToSet(parts) : IsVisible(p) => Resolves(registryOf, p.text, entities),
           NEW redacted, redacted = RedactedParts(parts, entities, registryOf)
    PROVE  /\ redacted \in Seq(ContentParts)
           /\ parts = <<>> => redacted = <<>>
           /\ \A r \in ToSet(redacted) : IsVisible(r) =>
                \E p \in ToSet(parts) : IsVisible(p) /\ r.text \in Seq(Cleaned(p.text, entities))
<1>1. PICK N \in Nat : N = Len(parts) /\ DOMAIN parts = 1..N
    OBVIOUS
<1>a. redacted = [i \in 1..N |->
          IF IsVisible(parts[i]) THEN Part(parts[i].kind, Redact(parts[i].text, entities, registryOf))
          ELSE parts[i]]
    BY <1>1 DEF RedactedParts
<1>2. ASSUME NEW i \in 1..N
      PROVE  /\ redacted[i] \in ContentParts
             /\ IsVisible(redacted[i]) => \E p \in ToSet(parts) :
                  IsVisible(p) /\ redacted[i].text \in Seq(Cleaned(p.text, entities))
  <2>1. PICK p \in ContentParts : p = parts[i] /\ p \in ToSet(parts)
    BY <1>1 DEF ToSet
  <2>2. p.text \in Text /\ p.kind \in {"text", "tool", "thought", "media"}
    BY <2>1 DEF ContentParts
  <2>3. CASE IsVisible(p)
    <3>1. PICK text : text = Redact(p.text, entities, registryOf)
      OBVIOUS
    <3>2. text \in Text /\ ToSet(text) \subseteq Cleaned(p.text, entities)
      BY <2>1, <2>2, <2>3, <3>1, RedactedText
    <3>3. text \in Seq(Cleaned(p.text, entities))
      BY <3>2, SeqOfValues DEF Text
    <3>4. redacted[i] = [kind |-> p.kind, text |-> text]
      BY <1>a, <2>1, <2>3, <3>1 DEF Part
    <3>5. [kind |-> p.kind, text |-> text] \in ContentParts
      BY <2>2, <3>2 DEF ContentParts
    <3>6. redacted[i].text = text
      BY <3>4
    <3> QED BY <2>1, <2>3, <3>3, <3>4, <3>5, <3>6
  <2>4. CASE ~IsVisible(p)
    BY <1>a, <2>1, <2>4
  <2> QED BY <2>3, <2>4
<1>3. DOMAIN redacted = 1..N
    BY <1>a
<1>4. redacted \in Seq(ContentParts)
  <2>1. redacted \in [1..N -> ContentParts]
    BY <1>a, <1>2
  <2> QED BY <2>1
<1>5. parts = <<>> => redacted = <<>>
    BY <1>1, <1>3, <1>4
<1>6. ToSet(redacted) = {redacted[i] : i \in 1..N}
    BY <1>3 DEF ToSet
<1> QED BY <1>2, <1>4, <1>5, <1>6

\* The same of the arguments of calls.
LEMMA CallsRedacted ==
    ASSUME NEW calls \in Seq(Text), NEW entities, NEW registryOf,
           \A text \in ToSet(calls) : Resolves(registryOf, text, entities),
           NEW redacted, redacted = RedactedCalls(calls, entities, registryOf)
    PROVE  /\ redacted \in Seq(Text)
           /\ calls = <<>> => redacted = <<>>
           /\ \A r \in ToSet(redacted) :
                \E text \in ToSet(calls) : r \in Seq(Cleaned(text, entities))
<1>1. PICK N \in Nat : N = Len(calls) /\ DOMAIN calls = 1..N
    OBVIOUS
<1>a. redacted = [i \in 1..N |-> Redact(calls[i], entities, registryOf)]
    BY <1>1 DEF RedactedCalls
<1>2. ASSUME NEW i \in 1..N
      PROVE  /\ redacted[i] \in Text /\ redacted[i] \in Seq(Cleaned(calls[i], entities))
             /\ calls[i] \in ToSet(calls)
  <2>1. PICK text \in Text : text = calls[i] /\ text \in ToSet(calls)
    BY <1>1 DEF ToSet
  <2>2. redacted[i] = Redact(text, entities, registryOf)
    BY <1>a, <2>1
  <2>3. redacted[i] \in Text /\ ToSet(redacted[i]) \subseteq Cleaned(text, entities)
    BY <2>1, <2>2, RedactedText
  <2>4. redacted[i] \in Seq(Cleaned(text, entities))
    BY <2>3, SeqOfValues DEF Text
  <2> QED BY <2>1, <2>3, <2>4
<1>3. DOMAIN redacted = 1..N
    BY <1>a
<1>4. redacted \in Seq(Text)
  <2>1. redacted \in [1..N -> Text]
    BY <1>a, <1>2
  <2> QED BY <2>1
<1>5. calls = <<>> => redacted = <<>>
    BY <1>1, <1>3, <1>4
<1>6. ToSet(redacted) = {redacted[i] : i \in 1..N}
    BY <1>3 DEF ToSet
<1> QED BY <1>2, <1>4, <1>5, <1>6

\* A message that was masked is one an adapter makes, of the same role.
LEMMA MessageRedacted ==
    ASSUME NEW q, NEW m \in Made(q), m.role \in Roles, NEW entities, NEW registryOf,
           \A text \in SeenIn(m) : Resolves(registryOf, text, entities),
           NEW k, k = RedactMessage(m, entities, registryOf)
    PROVE  /\ k \in Made(q) /\ k.role = m.role
           /\ \A r \in SeenIn(k) : \E text \in SeenIn(m) : r \in Seq(Cleaned(text, entities))
<1>1. PICK parts \in Seq(ContentParts) : parts = m.content.parts
    BY DEF Made, MessageTypes, Contents
<1>2. PICK calls \in Seq(Text) : calls = m.item.calls
    BY DEF Made, MessageTypes, Items
<1>3. PICK shown : shown = RedactedParts(parts, entities, registryOf)
    OBVIOUS
<1>4. PICK args : args = RedactedCalls(calls, entities, registryOf)
    OBVIOUS
<1>5. k = [m EXCEPT !.content.parts = shown, !.item.calls = args]
    BY <1>1, <1>2, <1>3, <1>4 DEF RedactMessage, RedactedParts, RedactedCalls
<1>6. SeenIn(m) = {p.text : p \in {x \in ToSet(parts) : IsVisible(x)}} \union ToSet(calls)
    BY <1>1, <1>2 DEF SeenIn, Visible
<1>7. /\ shown \in Seq(ContentParts)
      /\ parts = <<>> => shown = <<>>
      /\ \A r \in ToSet(shown) : IsVisible(r) =>
           \E p \in ToSet(parts) : IsVisible(p) /\ r.text \in Seq(Cleaned(p.text, entities))
  <2>1. \A p \in ToSet(parts) : IsVisible(p) => Resolves(registryOf, p.text, entities)
    BY <1>6
  <2> QED BY <1>3, <2>1, PartsRedacted
<1>8. /\ args \in Seq(Text)
      /\ calls = <<>> => args = <<>>
      /\ \A r \in ToSet(args) : \E text \in ToSet(calls) : r \in Seq(Cleaned(text, entities))
  <2>1. \A text \in ToSet(calls) : Resolves(registryOf, text, entities)
    BY <1>6
  <2> QED BY <1>4, <2>1, CallsRedacted
<1>9. /\ m \in [role : Roles \union ItemKinds, content : Contents, mark : Marks, item : Items]
      /\ m.content \in [form : {"str", "parts", "null"}, parts : Seq(ContentParts)]
      /\ m.item \in [kind : ItemKinds, role : Roles, content : Contents, calls : Seq(Text)]
    BY DEF Made, MessageTypes, Contents, Items
<1>10. PICK content : content = [form |-> m.content.form, parts |-> shown]
    OBVIOUS
<1>11. PICK item : item = [kind |-> m.item.kind, role |-> m.item.role, content |-> m.item.content,
                           calls |-> args]
    OBVIOUS
<1>12. content \in Contents /\ item \in Items
    BY <1>7, <1>8, <1>9, <1>10, <1>11 DEF Contents, Items
<1>13. [m.content EXCEPT !.parts = shown] = content /\ [m.item EXCEPT !.calls = args] = item
    BY <1>9, <1>10, <1>11
<1>14. k = [role |-> m.role, content |-> content, mark |-> m.mark, item |-> item]
    BY <1>5, <1>9, <1>13
<1>15. k.role = m.role /\ k.mark = m.mark /\ k.content = content /\ k.item = item
    BY <1>14
<1>16. k \in MessageTypes
    BY <1>9, <1>12, <1>14 DEF MessageTypes
<1>17. k \in Made(q)
  <2>1. /\ item.kind = m.item.kind /\ item.role = m.item.role /\ item.content = m.item.content
        /\ item.calls = args
    BY <1>11
  <2>2. SpeakerOf(item) = SpeakerOf(m.item)
    BY <2>1 DEF SpeakerOf, RoleOf
  <2>3. m.item.calls = <<>> => item.calls = <<>>
    BY <1>2, <1>8, <2>1
  <2>4. m.role # "function_call_output"
    BY DEF Roles
  <2>5. k.content.form = m.content.form
    BY <1>10, <1>15
  <2> QED BY <1>15, <1>16, <2>1, <2>2, <2>3, <2>4, <2>5 DEF Made
<1>18. SeenIn(k) = {p.text : p \in {x \in ToSet(shown) : IsVisible(x)}} \union ToSet(args)
  <2>1. k.content.parts = shown /\ k.item.calls = args
    BY <1>10, <1>11, <1>15
  <2> QED BY <2>1 DEF SeenIn, Visible
<1>19. ASSUME NEW r \in SeenIn(k)
       PROVE  \E text \in SeenIn(m) : r \in Seq(Cleaned(text, entities))
  <2>1. CASE r \in ToSet(args)
    BY <1>6, <1>8, <2>1
  <2>2. CASE r \notin ToSet(args)
    <3>1. PICK s \in ToSet(shown) : IsVisible(s) /\ r = s.text
      BY <1>18, <2>2
    <3>2. PICK p \in ToSet(parts) : IsVisible(p) /\ r \in Seq(Cleaned(p.text, entities))
      BY <1>7, <3>1
    <3>3. p.text \in SeenIn(m)
      BY <1>6, <3>2
    <3> QED BY <3>2, <3>3
  <2> QED BY <2>1, <2>2
<1> QED BY <1>15, <1>17, <1>19

\* The words that no detector of the entities finds.
Impersonal(entities) == {word \in Words : ~IsPersonal(word, entities)}

\* What keeps to some words keeps to more.
LEMMA KeepsMore ==
    ASSUME NEW V, NEW W, W \subseteq V
    PROVE  /\ \A text : text \in Seq(W) => text \in Seq(V)
           /\ \A messages, roles : KeepsTo(messages, roles, W) => KeepsTo(messages, roles, V)
<1>1. \A text : text \in Seq(W) => text \in Seq(V)
    OBVIOUS
<1> QED BY <1>1 DEF KeepsTo

\* A text in which nothing is found has no personal words.
LEMMA NothingFound ==
    ASSUME NEW text \in Text, NEW entities, Findings(text, entities) = {}
    PROVE  text \in Seq(Impersonal(entities))
<1>1. \A i \in DOMAIN text : ~IsPersonal(text[i], entities)
  <2>1. \A i \in DOMAIN text : IsPersonal(text[i], entities) =>
            \E f \in Findings(text, entities) : f.start <= i /\ i < f.end
    BY FindingsFacts
  <2> QED BY <2>1
<1>2. text \in Seq(Words)
    BY DEF Text
<1>3. PICK W : W = Words
    OBVIOUS
<1>4. \A i \in DOMAIN text : text[i] \in W
    BY <1>2, <1>3
<1>5. \A i \in DOMAIN text : text[i] \in Impersonal(entities)
    BY <1>1, <1>3, <1>4 DEF Impersonal
<1>6. ToSet(text) \subseteq Impersonal(entities)
    BY <1>5 DEF ToSet
<1> QED BY <1>2, <1>6, SeqOfValues

\* What is left of a text has no personal words, and none but its own and placeholders.
LEMMA CleanedWords ==
    ASSUME NEW text \in Text, NEW entities
    PROVE  /\ Cleaned(text, entities) \subseteq Impersonal(entities)
           /\ \A W : text \in Seq(W) /\ Masks \subseteq W => Cleaned(text, entities) \subseteq W
<1>1. ToSet(text) \subseteq Words
    BY ValuesTyped DEF Text
<1>2. Masks \subseteq Impersonal(entities)
    BY DEF Masks, Impersonal, IsPersonal
<1>3. Cleaned(text, entities) \subseteq Impersonal(entities)
    BY <1>1, <1>2 DEF Cleaned, Impersonal
<1>4. ASSUME NEW W, text \in Seq(W), Masks \subseteq W
      PROVE  Cleaned(text, entities) \subseteq W
  <2>1. ToSet(text) \subseteq W
    BY <1>4, ValuesTyped
  <2> QED BY <1>4, <2>1 DEF Cleaned
<1> QED BY <1>3, <1>4

\* What is known of a request before it is masked, and after.
RequestFields == {"provider", "model", "messages", "params", "extra", "origin", "pristine"}

\* The messages as RedactRequest makes them.
RedactedMessages(messages, pii, registryOf) ==
    [i \in DOMAIN messages |->
        IF messages[i].role \in pii.roles
        THEN RedactMessage(messages[i], pii.entities, registryOf) ELSE messages[i]]

\* Masking takes the personal words out of what the roles say, and adds none but
\* placeholders anywhere.
LEMMA MessagesRedacted ==
    ASSUME NEW q, NEW messages \in Seq(Made(q)), NEW pii, pii.roles \subseteq Roles,
           NEW registryOf,
           \A m \in ToSet(messages) : m.role \in pii.roles =>
               \A text \in SeenIn(m) : Resolves(registryOf, text, pii.entities),
           NEW masked, masked = RedactedMessages(messages, pii, registryOf)
    PROVE  /\ masked \in Seq(Made(q))
           /\ KeepsTo(masked, pii.roles, Impersonal(pii.entities))
           /\ \A roles, W : Masks \subseteq W /\ KeepsTo(messages, roles, W) =>
                KeepsTo(masked, roles, W)
<1>1. PICK M : M = Made(q)
    OBVIOUS
<1>2. PICK N \in Nat : N = Len(messages) /\ DOMAIN messages = 1..N
    OBVIOUS
<1>a. masked = [i \in 1..N |->
          IF messages[i].role \in pii.roles
          THEN RedactMessage(messages[i], pii.entities, registryOf) ELSE messages[i]]
    BY <1>2 DEF RedactedMessages
<1>3. ASSUME NEW i \in 1..N
      PROVE  /\ masked[i] \in M /\ masked[i].role = messages[i].role
             /\ messages[i] \in ToSet(messages)
             /\ messages[i].role \in pii.roles =>
                  SeenIn(masked[i]) \subseteq Seq(Impersonal(pii.entities))
             /\ \A W : Masks \subseteq W /\ SeenIn(messages[i]) \subseteq Seq(W) =>
                  SeenIn(masked[i]) \subseteq Seq(W)
  <2>1. PICK m \in M : m = messages[i] /\ m \in ToSet(messages)
    BY <1>1, <1>2 DEF ToSet
  <2>2. CASE m.role \in pii.roles
    <3>1. PICK k : k = RedactMessage(m, pii.entities, registryOf)
      OBVIOUS
    <3>2. masked[i] = k
      BY <1>a, <2>1, <2>2, <3>1
    <3>3. \A text \in SeenIn(m) : Resolves(registryOf, text, pii.entities)
      BY <2>1, <2>2
    <3>4. /\ k \in M /\ k.role = m.role
          /\ \A r \in SeenIn(k) : \E text \in SeenIn(m) : r \in Seq(Cleaned(text, pii.entities))
      BY <1>1, <2>2, <3>1, <3>3, MessageRedacted
    <3>5. SeenIn(m) \subseteq Text
      BY <1>1, IteratedTexts DEF Made
    <3>6. ASSUME NEW r \in SeenIn(k)
          PROVE  r \in Seq(Impersonal(pii.entities))
      <4>1. PICK text \in SeenIn(m) : r \in Seq(Cleaned(text, pii.entities))
        BY <3>4
      <4>2. Cleaned(text, pii.entities) \subseteq Impersonal(pii.entities)
        BY <3>5, <4>1, CleanedWords
      <4> QED BY <4>1, <4>2, KeepsMore
    <3>7. ASSUME NEW W, Masks \subseteq W, SeenIn(m) \subseteq Seq(W), NEW r \in SeenIn(k)
          PROVE  r \in Seq(W)
      <4>1. PICK text \in SeenIn(m) : r \in Seq(Cleaned(text, pii.entities))
        BY <3>4
      <4>2. Cleaned(text, pii.entities) \subseteq W
        <5>1. text \in Text /\ text \in Seq(W)
          BY <3>5, <3>7, <4>1
        <5> QED BY <3>7, <5>1, CleanedWords
      <4> QED BY <4>1, <4>2, KeepsMore
    <3> QED BY <2>1, <3>2, <3>4, <3>6, <3>7
  <2>3. CASE m.role \notin pii.roles
    <3>1. masked[i] = m
      BY <1>a, <2>1, <2>3
    <3> QED BY <2>1, <2>3, <3>1
  <2> QED BY <2>2, <2>3
<1>4. DOMAIN masked = 1..N
    BY <1>a
<1>5. masked \in Seq(M)
  <2>1. masked \in [1..N -> M]
    BY <1>a, <1>3
  <2> QED BY <2>1
<1>6. ToSet(masked) = {masked[i] : i \in 1..N}
    BY <1>4 DEF ToSet
<1>7. KeepsTo(masked, pii.roles, Impersonal(pii.entities))
    BY <1>3, <1>6 DEF KeepsTo
<1>8. ASSUME NEW roles, NEW W, Masks \subseteq W, KeepsTo(messages, roles, W)
      PROVE  KeepsTo(masked, roles, W)
    BY <1>3, <1>6, <1>8 DEF KeepsTo
<1> QED BY <1>1, <1>5, <1>7, <1>8

\* The request that is masked is still one that was made of the caller's arguments.
LEMMA RequestRedacted ==
    ASSUME NEW q, NEW req, RequestFields \subseteq DOMAIN req, MadeOf(q, req), NEW pii,
           pii.roles \subseteq Roles, NEW registryOf, registryOf = RegistryOf(req, pii),
           NEW out, out = RedactRequest(req, pii, registryOf)
    PROVE  /\ RequestFields \subseteq DOMAIN out /\ MadeOf(q, out) /\ out.origin = req.origin
           /\ KeepsTo(out.messages, pii.roles, Impersonal(pii.entities))
           /\ \A roles, W : Masks \subseteq W /\ KeepsTo(req.messages, roles, W) =>
                KeepsTo(out.messages, roles, W)
<1>1. PICK messages \in Seq(Made(q)) : messages = req.messages
    BY DEF MadeOf
<1>2. req.messages \in Seq(MessageTypes)
    BY <1>1, MadeTyped
<1>3. ASSUME NEW m \in ToSet(messages), m.role \in pii.roles, NEW text \in SeenIn(m)
      PROVE  /\ Resolves(registryOf, text, pii.entities)
             /\ registryOf = {} => Findings(text, pii.entities) = {}
    BY <1>1, <1>2, <1>3, RegistryResolves
<1>4. CASE registryOf = {}
  <2>1. out = req
    BY <1>4 DEF RedactRequest
  <2>2. ASSUME NEW m \in ToSet(messages), m.role \in pii.roles, NEW text \in SeenIn(m)
        PROVE  text \in Seq(Impersonal(pii.entities))
    <3>1. PICK T : T = MessageTypes
      OBVIOUS
    <3>2. ToSet(messages) \subseteq T
      BY <1>1, <1>2, <3>1, ValuesTyped
    <3>3. text \in Text
      BY <2>2, <3>1, <3>2, IteratedTexts
    <3> QED BY <1>3, <1>4, <2>2, <3>3, NothingFound
  <2>3. KeepsTo(req.messages, pii.roles, Impersonal(pii.entities))
    BY <1>1, <2>2 DEF KeepsTo
  <2> QED BY <2>1, <2>3
<1>5. CASE registryOf # {}
  <2>1. PICK masked : masked = RedactedMessages(messages, pii, registryOf)
    OBVIOUS
  <2>2. out = [req EXCEPT !.messages = masked]
    BY <1>1, <1>5, <2>1 DEF RedactRequest, RedactedMessages
  <2>3. /\ DOMAIN out = DOMAIN req /\ out.messages = masked /\ out.extra = req.extra
        /\ out.origin = req.origin /\ out.pristine = req.pristine
    BY <2>2 DEF RequestFields
  <2>4. /\ masked \in Seq(Made(q))
        /\ KeepsTo(masked, pii.roles, Impersonal(pii.entities))
        /\ \A roles, W : Masks \subseteq W /\ KeepsTo(messages, roles, W) => KeepsTo(masked, roles, W)
    BY <1>3, <2>1, MessagesRedacted
  <2>5. MadeOf(q, out)
    BY <2>3, <2>4 DEF MadeOf
  <2> QED BY <1>1, <2>3, <2>4, <2>5
<1> QED BY <1>4, <1>5

(***************************************************************************)
(* Prompt injection                                                        *)
(***************************************************************************)

\* Probabilities in ten-thousandths.
Chances == 0..10000

Certain == 10000

\* No more than a piece of evidence of this weight leaves.
Within(left, weight) == left <= Certain - 100 * weight

Remaining(rest, word) == (rest * (100 - word[3])) \div 100

\* What is left of a probability when a piece of evidence is added: less than what was
\* left, and no more than the evidence leaves alone.
LEMMA EvidenceAdds ==
    ASSUME NEW rest \in Chances, NEW weight \in 0..100,
           NEW left, left = (rest * (100 - weight)) \div 100
    PROVE  left \in Chances /\ left <= rest /\ Within(left, weight)
<1>0. rest \in 0..10000
    BY DEF Chances
<1>1. PICK c \in 0..100 : c = 100 - weight
    OBVIOUS
<1>2. PICK x \in Int : x = rest * c
    BY <1>0
<1>3. 0 <= x /\ x <= 100 * rest /\ x <= 10000 * c
  <2>1. \A a, b \in Nat : a * b >= 0
    OBVIOUS
  <2>0. rest \in Nat /\ 100 - c \in Nat /\ 10000 - rest \in Nat /\ c \in Nat
    BY <1>0
  <2>2. rest * c >= 0 /\ rest * (100 - c) >= 0 /\ (10000 - rest) * c >= 0
    BY <2>0, <2>1
  <2>3. PICK y \in Int : y = rest * (100 - c)
    BY <1>0
  <2>4. PICK z \in Int : z = (10000 - rest) * c
    BY <1>0
  <2>5. y = 100 * rest - x
    BY <1>0, <1>2, <2>3
  <2>6. z = 10000 * c - x
    BY <1>0, <1>2, <2>4
  <2>7. 0 <= x /\ 0 <= y /\ 0 <= z
    BY <1>2, <2>2, <2>3, <2>4
  <2> QED BY <1>0, <2>5, <2>6, <2>7
<1>4. PICK d \in Int : d = x \div 100
    OBVIOUS
<1>5. 100 * d <= x /\ x < 100 * d + 100
    BY <1>4
<1>6. d >= 0 /\ d <= rest /\ d <= 100 * c
    BY <1>0, <1>1, <1>3, <1>5
<1>7. left = d
    BY <1>1, <1>2, <1>4
<1>8. d \in Chances /\ d <= rest /\ Within(d, weight)
    BY <1>0, <1>1, <1>6 DEF Chances, Within, Certain
<1> QED BY <1>7, <1>8, Zenon

\* An attack counts with its weight, whatever else the text has.
LEMMA ScoreCounts ==
    ASSUME NEW text \in Text
    PROVE  /\ Score(text) \in Int
           /\ \A word \in ToSet(text) : word[1] = "attack" =>
                word[3] \in 0..100 /\ Score(text) >= 100 * word[3]
<1>1. PICK S : S = {word \in ToSet(text) : word[1] = "attack"}
    OBVIOUS
<1>2. IsFiniteSet(S)
  <2>1. PICK N \in Nat : N = Len(text) /\ DOMAIN text = 1..N
    BY DEF Text
  <2>2. ToSet(text) = {text[i] : i \in 1..N}
    BY <2>1 DEF ToSet
  <2>3. IsFiniteSet(1..N)
    BY FS_Interval
  <2>4. IsFiniteSet(ToSet(text))
    BY <2>2, <2>3, FiniteImage
  <2> QED BY <1>1, <2>4, FS_Subset
<1>3. \A word \in S : word[3] \in 0..100
  <2>1. ToSet(text) \subseteq Words
    BY ValuesTyped DEF Text
  <2>2. \A word \in Words : word[1] = "attack" => word[3] \in 0..100
    BY DEF Words
  <2> QED BY <1>1, <2>1, <2>2
<1>4. PICK T : T = Chances
    OBVIOUS
<1>b. \A x \in T : x \in Int
    BY <1>4 DEF Chances
<1>c. Certain \in T
    BY <1>4 DEF Chances, Certain
<1>d. ASSUME NEW left \in T, NEW weight \in 0..100, Within(left, weight)
      PROVE  Certain - left >= 100 * weight
  <2>1. left \in Int /\ 100 * weight \in Int
    BY <1>b
  <2> QED BY <1>d, <2>1 DEF Within, Certain
<1>5. PICK pick : pick = [s \in SUBSET S |-> CHOOSE x \in s : TRUE]
    OBVIOUS
<1>6. \A s \in SUBSET S : s # {} => pick[s] \in s
    BY <1>5
<1>7. PICK step : step = [word \in S |-> [rest \in T |-> Remaining(rest, word)]]
    OBVIOUS
<1>8. ASSUME NEW word \in S, NEW rest \in T
      PROVE  /\ step[word][rest] = Remaining(rest, word)
             /\ step[word][rest] \in T /\ step[word][rest] <= rest
             /\ Within(step[word][rest], word[3])
  <2>1. step[word][rest] = Remaining(rest, word)
    BY <1>7
  <2>2. word[3] \in 0..100 /\ rest \in Chances
    BY <1>3, <1>4
  <2> QED BY <1>4, <2>1, <2>2, EvidenceAdds DEF Remaining
<1>9. PICK g \in [SUBSET S -> T] : FollowsPicks(g, S, Certain, pick, step)
  <2>1. Certain \in T
    BY <1>4 DEF Chances, Certain
  <2>2. \A x \in S : \A t \in T : step[x][t] \in T
    BY <1>8
  <2>3. PICK base \in T : base = Certain
    BY <2>1
  <2>4. \E g \in [SUBSET S -> T] : FollowsPicks(g, S, base, pick, step)
    BY <1>2, <1>6, <2>2, PicksDefineAFunction
  <2> QED BY <2>3, <2>4
<1> DEFINE R(h) == h = [s \in SUBSET S |->
                          IF s = {} THEN Certain
                          ELSE Remaining(h[s \ {CHOOSE x \in s : TRUE}], CHOOSE x \in s : TRUE)]
<1>10. R(g)
  <2>1. ASSUME NEW s \in SUBSET S
        PROVE  g[s] = IF s = {} THEN Certain
                      ELSE Remaining(g[s \ {CHOOSE x \in s : TRUE}], CHOOSE x \in s : TRUE)
    <3>0. g[s] = IF s = {} THEN Certain ELSE step[pick[s]][g[s \ {pick[s]}]]
      BY <1>9 DEF FollowsPicks
    <3>1. CASE s = {}
      BY <3>0, <3>1
    <3>2. CASE s # {}
      <4>1. pick[s] \in S /\ pick[s] = CHOOSE x \in s : TRUE
        BY <1>5, <1>6, <3>2
      <4>2. g[s \ {pick[s]}] \in T
        BY <1>9
      <4>3. step[pick[s]][g[s \ {pick[s]}]] = Remaining(g[s \ {pick[s]}], pick[s])
        BY <1>8, <4>1, <4>2
      <4> QED BY <3>0, <3>2, <4>1, <4>3
    <3> QED BY <3>1, <3>2
  <2> QED BY <2>1
<1>11. PICK h : h = CHOOSE k : R(k)
    OBVIOUS
<1>12. R(h)
    BY <1>10, <1>11
<1>13. Score(text) = Certain - h[S]
  <2>1. Score(text) = Certain -
          (CHOOSE k : k = [s \in SUBSET S |->
                             IF s = {} THEN Certain
                             ELSE Remaining(k[s \ {CHOOSE x \in s : TRUE}], CHOOSE x \in s : TRUE)])[S]
    BY <1>1 DEF Score, FoldSet, MapThenFoldSet, Remaining, Certain
  <2> QED BY <1>11, <2>1
<1>14. \A s \in SUBSET S : s # {} =>
          h[s] = Remaining(h[s \ {pick[s]}], pick[s])
    BY <1>5, <1>12
<1>15. h[{}] = Certain
    BY <1>12
<1> HIDE DEF R
<1> DEFINE Fits(s) == h[s] \in T /\ \A word \in s : Within(h[s], word[3])
           I == {n \in Nat : \A s \in SUBSET S : Cardinality(s) = n => Fits(s)}
<1>16. \A s \in SUBSET S : IsFiniteSet(s) /\ Cardinality(s) \in Nat
    BY <1>2, FS_Subset, FS_CardinalityType
<1>17. 0 \in I
  <2>1. ASSUME NEW s \in SUBSET S, Cardinality(s) = 0
        PROVE  Fits(s)
    <3>1. s = {}
      BY <1>16, <2>1, FS_EmptySet
    <3>2. h[s] \in T
      BY <1>c, <1>15, <3>1, Zenon
    <3> QED BY <3>1, <3>2, Zenon
  <2> QED BY <2>1
<1>18. ASSUME NEW n \in Nat, n \in I
       PROVE  n + 1 \in I
  <2> SUFFICES ASSUME NEW s \in SUBSET S, Cardinality(s) = n + 1
               PROVE  Fits(s)
    OBVIOUS
  <2>1. s # {}
    <3>1. Cardinality({}) = 0
      BY FS_EmptySet
    <3> QED BY <3>1
  <2>2. PICK x \in s : x = pick[s]
    BY <1>6, <2>1
  <2>3. PICK r \in SUBSET S : r = s \ {x}
    OBVIOUS
  <2>4. Cardinality(r) = n
    <3>1. Cardinality(r) = Cardinality(s) - 1
      BY <1>16, <2>3, FS_RemoveElement
    <3> QED BY <3>1
  <2>5. Fits(r)
    BY <1>18, <2>4
  <2>6. PICK rest \in T : rest = h[r]
    BY <2>5
  <2>7. h[s] = step[x][rest]
    <3>1. h[s] = Remaining(h[r], x)
      BY <1>14, <2>1, <2>2, <2>3
    <3>2. step[x][rest] = Remaining(rest, x)
      BY <1>8
    <3> QED BY <2>6, <3>1, <3>2
  <2>8. h[s] \in T /\ h[s] <= rest /\ Within(h[s], x[3])
    BY <1>8, <2>7
  <2>9. ASSUME NEW word \in s
        PROVE  Within(h[s], word[3])
    <3>1. CASE word = x
      BY <2>8, <3>1
    <3>2. CASE word # x
      <4>1. Within(rest, word[3])
        <5>1. word \in r
          BY <2>3, <3>2
        <5> QED BY <2>5, <2>6, <5>1, Zenon
      <4>2. h[s] \in Int /\ rest \in Int /\ word[3] \in Int
        <5>1. h[s] \in Int /\ rest \in Int
          BY <1>b, <2>8
        <5>2. word[3] \in Int
          BY <1>3
        <5> QED BY <5>1, <5>2
      <4> QED BY <2>8, <4>1, <4>2 DEF Within, Certain
    <3> QED BY <3>1, <3>2
  <2> QED BY <2>8, <2>9
<1>19. Nat \subseteq I
  <2> HIDE DEF I
  <2> QED BY <1>17, <1>18, SetInduction
<1>20. Fits(S)
    BY <1>16, <1>19
<1>21. ASSUME NEW word \in ToSet(text), word[1] = "attack"
       PROVE  word[3] \in 0..100 /\ Score(text) >= 100 * word[3]
  <2>1. word \in S
    BY <1>1, <1>21
  <2>2. word[3] \in 0..100
    BY <1>3, <2>1
  <2>3. Within(h[S], word[3]) /\ h[S] \in T
    BY <1>20, <2>1, Zenon
  <2>4. Certain - h[S] >= 100 * word[3]
    BY <1>d, <2>2, <2>3, Zenon
  <2> QED BY <1>13, <2>2, <2>4
<1>22. Score(text) \in Int
  <2>1. h[S] \in T
    BY <1>20, Zenon
  <2> QED BY <1>b, <1>13, <2>1 DEF Certain
<1> QED BY <1>21, <1>22

\* The words but attacks that have the weight of threshold alone.
Tame(threshold) == {word \in Words : word[1] = "attack" => 100 * word[3] < threshold}

\* The score of a request is that of its worst text.
LEMMA HighestScore ==
    ASSUME NEW req, req.messages \in Seq(MessageTypes), NEW injection,
           NEW text \in ToSet(TextsFrom(req.messages, injection.roles))
    PROVE  /\ InjectionScore(req, injection) \in Int
           /\ InjectionScore(req, injection) >= Score(text)
<1>1. PICK list \in Seq(Text) : list = TextsFrom(req.messages, injection.roles)
    BY ScannedTexts
<1>2. PICK texts : texts = ToSet(list)
    OBVIOUS
<1>3. texts \subseteq Text
    BY <1>1, <1>2, ValuesTyped
<1>4. IsFiniteSet(texts)
  <2>1. PICK N \in Nat : N = Len(list) /\ DOMAIN list = 1..N
    OBVIOUS
  <2>2. texts = {list[i] : i \in 1..N}
    BY <1>2, <2>1 DEF ToSet
  <2>3. IsFiniteSet(1..N)
    BY FS_Interval
  <2> QED BY <2>2, <2>3, FiniteImage
<1>5. PICK f : f = [x \in texts |-> Score(x)]
    OBVIOUS
<1>6. f \in [texts -> Int]
  <2>1. \A x \in texts : Score(x) \in Int
    BY <1>3, ScoreCounts
  <2> QED BY <1>5, <2>1
<1>7. PICK worst \in texts : \A y \in texts : f[y] <= f[worst]
  <2>1. texts # {}
    BY <1>1, <1>2
  <2> QED BY <1>4, <1>6, <2>1, GreatestValue
<1>8. PICK scores : scores = {0} \union {Score(x) : x \in texts}
    OBVIOUS
<1>9. \A s \in scores : s \in Int
  <2>1. \A x \in texts : Score(x) \in Int
    BY <1>3, ScoreCounts
  <2> QED BY <1>8, <2>1
<1>10. \E s \in scores : \A t \in scores : t <= s
  <2>1. \A x \in texts : Score(x) \in Int /\ Score(x) <= Score(worst)
    BY <1>5, <1>6, <1>7
  <2>2. CASE Score(worst) >= 0
    <3>1. \A t \in scores : t <= Score(worst)
      BY <1>8, <2>1, <2>2
    <3> QED BY <1>8, <3>1
  <2>3. CASE ~(Score(worst) >= 0)
    <3>1. \A t \in scores : t <= 0
      BY <1>8, <2>1, <2>3
    <3> QED BY <1>8, <3>1
  <2> QED BY <2>2, <2>3
<1>11. InjectionScore(req, injection) = CHOOSE s \in scores : \A t \in scores : t <= s
    BY <1>1, <1>2, <1>8 DEF InjectionScore
<1>12. /\ InjectionScore(req, injection) \in scores
       /\ \A t \in scores : t <= InjectionScore(req, injection)
    BY <1>10, <1>11
<1>13. Score(text) \in scores
    BY <1>1, <1>2, <1>8
<1> QED BY <1>9, <1>12, <1>13

\* A request that is not flagged has no attack of the weight of the threshold.
LEMMA NotFlaggedIsTame ==
    ASSUME NEW req, req.messages \in Seq(MessageTypes), NEW injection, injection.threshold \in Int,
           ~(InjectionScore(req, injection) >= injection.threshold)
    PROVE  KeepsTo(req.messages, injection.roles, Tame(injection.threshold))
<1>1. ASSUME NEW m \in ToSet(req.messages), m.role \in injection.roles, NEW text \in SeenIn(m)
      PROVE  text \in Seq(Tame(injection.threshold))
  <2>1. PICK messages \in Seq(MessageTypes) : messages = req.messages
    OBVIOUS
  <2>2. PICK M : M = MessageTypes
    OBVIOUS
  <2>3. m \in M
    <3>1. ToSet(messages) \subseteq M
      BY <2>2, ValuesTyped
    <3> QED BY <1>1, <2>1, <3>1
  <2>4. text \in Text
    BY <1>1, <2>2, <2>3, IteratedTexts
  <2>5. text \in ToSet(TextsFrom(req.messages, injection.roles))
    <3>1. ToSet(TextsFrom(req.messages, injection.roles)) =
            UNION {SeenIn(k) : k \in {k \in ToSet(req.messages) : k.role \in injection.roles}}
      BY ScannedTexts
    <3> QED BY <1>1, <3>1
  <2>6. /\ InjectionScore(req, injection) \in Int
        /\ InjectionScore(req, injection) >= Score(text)
    BY <2>5, HighestScore
  <2>7. ASSUME NEW word \in ToSet(text)
        PROVE  word \in Tame(injection.threshold)
    <3>1. word \in Words
      BY <2>4, ValuesTyped DEF Text
    <3>2. ASSUME word[1] = "attack"
          PROVE  100 * word[3] < injection.threshold
      <4>1. word[3] \in 0..100 /\ Score(text) >= 100 * word[3] /\ Score(text) \in Int
        BY <2>4, <2>7, <3>2, ScoreCounts
      <4>2. PICK weight \in 0..100 : weight = word[3]
        BY <4>1
      <4>3. PICK score \in Int : score = Score(text) /\ score >= 100 * weight
        BY <4>1, <4>2
      <4>4. PICK highest \in Int : highest = InjectionScore(req, injection) /\ highest >= score
        BY <2>6, <4>3
      <4>5. PICK threshold \in Int : threshold = injection.threshold
        OBVIOUS
      <4>6. ~(highest >= threshold)
        BY <4>4, <4>5
      <4>7. 100 * weight < threshold
        BY <4>3, <4>4, <4>6
      <4> QED BY <4>2, <4>5, <4>7
    <3> QED BY <3>1, <3>2 DEF Tame
  <2>8. ToSet(text) \subseteq Tame(injection.threshold)
    BY <2>7
  <2> QED BY <2>4, <2>8, SeqOfValues DEF Text
<1> QED BY <1>1 DEF KeepsTo

(***************************************************************************)
(* What the targets are not told                                           *)
(***************************************************************************)

\* The words of the answers a call may meet.
Invented(c) == UNION {WordsIn(Visible(Parts(a.parts), <<>>)) : a \in c.answers}

\* The words that may be sent for a call: personal ones only where a model invented them.
Safe(c) == {word \in Words : IsPersonal(word, c.pii.entities) => word \in Invented(c)}

\* A finding begins with a word of the text the detector of its entity looks for.
LEMMA FirstWord ==
    ASSUME NEW text \in Text, NEW entities, NEW f \in Findings(text, entities)
    PROVE  /\ f.entity \in Entities \intersect entities
           /\ f.value[1] \in ToSet(text)
           /\ f.value[1][1] = "pii" /\ f.value[1][2] = WordFor(f.entity)
<1>1. IsFinding(f, text, entities)
    BY FindingsFacts
<1>2. /\ f.entity \in Entities \intersect entities /\ f.start \in Nat /\ f.end \in Nat
      /\ f.value = SubSeq(text, f.start, f.end - 1)
    BY <1>1 DEF IsFinding
<1>3. /\ f.start \in 1..Len(text) /\ f.end - f.start \in {1, 2}
      /\ f.start + (f.end - f.start) <= Len(text) + 1
      /\ \A i \in 1..Len(text) : f.start <= i /\ i < f.start + (f.end - f.start) =>
           IsWord(text, i, WordFor(f.entity))
    BY <1>1 DEF IsFinding, IsSpan
<1>4. PICK b, e \in Nat : b = f.start /\ e = f.end
    BY <1>2
<1>5. /\ b \in 1..Len(text) /\ b < e /\ e - 1 <= Len(text) /\ e - 1 \in Nat
      /\ b <= b /\ b < b + (e - b)
  <2>1. PICK n \in Nat : n = Len(text)
    BY DEF Text
  <2>2. b \in 1..n /\ e - b \in {1, 2} /\ b + (e - b) <= n + 1
    BY <1>3, <1>4, <2>1
  <2>3. b < e /\ e - 1 <= n /\ e - 1 \in Nat /\ b <= b /\ b < b + (e - b)
    BY <2>2
  <2> QED BY <2>1, <2>2, <2>3
<1>6. IsWord(text, b, WordFor(f.entity))
    BY <1>3, <1>4, <1>5
<1>7. PICK value : value = SubSeq(text, b, e - 1)
    OBVIOUS
<1>8. value[1] = text[b]
  <2>1. PICK W : text \in Seq(W)
    BY DEF Text
  <2>2. 1 \in 1..(((e - 1) - b) + 1) /\ (1 + b) - 1 = b
    BY <1>5
  <2> QED BY <1>5, <1>7, <2>1, <2>2
<1>9. b \in DOMAIN text /\ text[b][1] = "pii" /\ text[b][2] = WordFor(f.entity)
    BY <1>6 DEF IsWord
<1>10. text[b] \in ToSet(text)
    BY <1>9 DEF ToSet
<1> QED BY <1>2, <1>4, <1>7, <1>8, <1>9, <1>10

\* What is covered of the arguments an SDK accepts are texts.
LEMMA CoveredTyped ==
    ASSUME NEW q, NEW kwargs, IsArgs(q, kwargs), NEW roles
    PROVE  Covered(kwargs, roles) \subseteq Text
<1>1. ASSUME NEW content \in Contents, NEW calls \in Seq(Text)
      PROVE  Visible(content, calls) \subseteq Text
  <2>1. PICK parts \in Seq(ContentParts) : parts = content.parts
    BY DEF Contents
  <2>2. ToSet(parts) \subseteq ContentParts
    BY ValuesTyped
  <2>3. \A p \in ToSet(parts) : p.text \in Text
    BY <2>2 DEF ContentParts
  <2>4. ToSet(calls) \subseteq Text
    BY ValuesTyped
  <2> QED BY <2>1, <2>3, <2>4 DEF Visible
<1>2. kwargs.system # None => Visible(kwargs.system, <<>>) \subseteq Text
  <2>1. kwargs.system \in Contents \union {None} /\ <<>> \in Seq(Text)
    BY DEF IsArgs
  <2> QED BY <1>1, <2>1
<1>3. \A item \in ToSet(kwargs.turns) : Visible(item.content, item.calls) \subseteq Text
  <2>1. PICK turns \in Seq(Items) : turns = kwargs.turns
    BY DEF IsArgs
  <2>2. ToSet(turns) \subseteq Items
    BY ValuesTyped
  <2>3. \A item \in ToSet(turns) : item.content \in Contents /\ item.calls \in Seq(Text)
    BY <2>2 DEF Items
  <2> QED BY <1>1, <2>1, <2>3
<1> QED BY <1>2, <1>3 DEF Covered

\* What is said in words that may be sent has none of the caller's personal data.
LEMMA SafeIsNotPersonal ==
    ASSUME NEW c \in Calls, c.pii # None,
           NEW kwargs, Covered(kwargs, c.pii.roles) \subseteq Seq(Safe(c))
    PROVE  PersonalData(kwargs, c.pii) \intersect PersonalData(c.asked, c.pii) = {}
<1> SUFFICES ASSUME NEW x \in PersonalData(kwargs, c.pii), x \in PersonalData(c.asked, c.pii)
             PROVE  FALSE
    OBVIOUS
<1>1. PICK text \in Covered(kwargs, c.pii.roles) :
          \E f \in Findings(text, c.pii.entities) : x = <<f.entity, f.value>>
    BY DEF PersonalData
<1>2. PICK f \in Findings(text, c.pii.entities) : x = <<f.entity, f.value>>
    BY <1>1
<1>3. PICK told \in Covered(c.asked, c.pii.roles) :
          \E g \in Findings(told, c.pii.entities) : x = <<g.entity, g.value>>
    BY DEF PersonalData
<1>4. PICK g \in Findings(told, c.pii.entities) : x = <<g.entity, g.value>>
    BY <1>3
<1>5. f.value = g.value
    BY <1>2, <1>4
<1>6. PICK word : word = f.value[1]
    OBVIOUS
<1>7. text \in Seq(Safe(c)) /\ text \in Text
  <2>1. Safe(c) \subseteq Words
    BY DEF Safe
  <2>2. text \in Seq(Safe(c))
    BY <1>1
  <2> QED BY <2>1, <2>2, KeepsMore DEF Text
<1>8. /\ f.entity \in Entities \intersect c.pii.entities /\ word \in ToSet(text)
      /\ word[1] = "pii" /\ word[2] = WordFor(f.entity)
    BY <1>2, <1>6, <1>7, FirstWord
<1>9. word \in Safe(c)
  <2>1. ToSet(text) \subseteq Safe(c)
    BY <1>7, ValuesTyped
  <2> QED BY <1>8, <2>1
<1>10. /\ "credit_card" \in c.pii.entities => "phone" \in c.pii.entities
       /\ \A w \in Invented(c) \intersect WordsIn(Covered(c.asked, c.pii.roles)) : w[1] # "pii"
    BY SecurityAssumption DEF Invented
<1>11. IsPersonal(word, c.pii.entities)
    BY <1>8, <1>10 DEF IsPersonal, WordFor, Entities
<1>12. word \in Invented(c)
    BY <1>9, <1>11 DEF Safe
<1>13. word \in WordsIn(Covered(c.asked, c.pii.roles))
  <2>1. told \in Text
    BY <1>3, AskedAssumption, CoveredTyped
  <2>2. word \in ToSet(told)
    BY <1>4, <1>5, <1>6, <2>1, FirstWord
  <2> QED BY <1>3, <2>2 DEF WordsIn
<1> QED BY <1>8, <1>10, <1>12, <1>13

\* Nor an attack of the weight that is filtered.
LEMMA TameHasNoAttack ==
    ASSUME NEW threshold, NEW kwargs, NEW roles, Covered(kwargs, roles) \subseteq Seq(Tame(threshold))
    PROVE  \A word \in WordsIn(Covered(kwargs, roles)) : word[1] = "attack" => 100 * word[3] < threshold
<1> SUFFICES ASSUME NEW text \in Covered(kwargs, roles), NEW word \in ToSet(text), word[1] = "attack"
             PROVE  100 * word[3] < threshold
    BY DEF WordsIn
<1>1. text \in Seq(Tame(threshold))
    OBVIOUS
<1>2. word \in Tame(threshold)
  <2>1. ToSet(text) \subseteq Tame(threshold)
    BY <1>1, ValuesTyped
  <2> QED BY <2>1
<1> QED BY <1>2 DEF Tame

(***************************************************************************)
(* The inductive invariant of what is said                                 *)
(***************************************************************************)

\* A request that was made of the arguments of the call.
OfCall(c, req) ==
    RequestFields \subseteq DOMAIN req /\ req.origin = c.caller /\ MadeOf(c.caller, req)

\* What the roles that are screened say has the words that may be sent.
Guarded(c, messages) ==
    /\ c.pii # None => KeepsTo(messages, c.pii.roles, Safe(c))
    /\ c.injection # None /\ c.injection.block =>
         KeepsTo(messages, c.injection.roles, Tame(c.injection.threshold))

\* The request stays one of the call's, and after it was screened no layer brings back
\* what was taken out.
Screening ==
    /\ pc # "called" => OfCall(call, request)
    /\ pc \in {"pick", "retry", "sent", "answered"} => Guarded(call, request.messages)
    /\ MaskedFaithfully

\* The words callm adds itself may be said by anyone.
LEMMA OwnWords ==
    ASSUME NEW word \in Words, word[1] \notin {"pii", "attack"}
    PROVE  \A c, threshold : word \in Safe(c) /\ word \in Tame(threshold)
BY DEF Safe, Tame, IsPersonal

\* Receive makes a request of the call.
LEMMA Received ==
    ASSUME NEW c \in Calls,
           NEW req, req = ParseNativeRequest(c.caller, IF c.via = "complete"
                                                       THEN BuildKwargs(c.caller, c.asked)
                                                       ELSE c.asked)
    PROVE  OfCall(c, req)
<1>1. PICK q \in Providers : q = c.caller
    BY CallsAssumption
<1>2. PICK kwargs : /\ req = ParseNativeRequest(q, kwargs) /\ IsArgs(q, kwargs)
  <2>1. CASE c.via = "complete"
    <3>1. /\ IsArgs("openai", c.asked)
          /\ \A i \in DOMAIN c.asked.turns : Len(c.asked.turns[i].content.parts) = 1
      BY <2>1, AskedAssumption
    <3>2. IsArgs(q, BuildKwargs(q, c.asked))
      BY <3>1, BuiltAccepted
    <3> QED BY <1>1, <2>1, <3>2
  <2>2. CASE c.via # "complete"
    <3>1. IsArgs(q, c.asked)
      BY <1>1, <2>2, AskedAssumption
    <3> QED BY <1>1, <2>2, <3>1
  <2> QED BY <2>1, <2>2
<1>3. PICK messages : messages = MessagesOf(q, kwargs)
    OBVIOUS
<1>4. messages \in Seq(Made(q))
    BY <1>2, <1>3, MessagesMade
<1>5. req = [provider |-> q, model |-> kwargs.model, messages |-> messages,
             params |-> ParamsOf(q, kwargs.settings), extra |-> Extra(kwargs), origin |-> q,
             pristine |-> messages]
    BY <1>2, <1>3 DEF ParseNativeRequest, Request
<1>6. /\ RequestFields \subseteq DOMAIN req /\ req.origin = q /\ req.messages = messages
      /\ req.extra = Extra(kwargs) /\ req.pristine = messages
    BY <1>5 DEF RequestFields
<1>7. MadeOf(q, req)
    BY <1>2, <1>3, <1>4, <1>6 DEF MadeOf
<1> QED BY <1>1, <1>6, <1>7 DEF OfCall

\* Screen leaves a request that is guarded.
LEMMA Screened ==
    ASSUME NEW c \in Calls, NEW req, OfCall(c, req),
           ~(/\ c.injection # None /\ c.injection.block
             /\ InjectionScore(req, c.injection) >= c.injection.threshold),
           NEW out, out = IF c.pii = None THEN req
                          ELSE RedactRequest(req, c.pii, RegistryOf(req, c.pii))
    PROVE  OfCall(c, out) /\ Guarded(c, out.messages)
<1>1. RequestFields \subseteq DOMAIN req /\ req.origin = c.caller /\ MadeOf(c.caller, req)
    BY DEF OfCall
<1>2. req.messages \in Seq(MessageTypes)
    BY <1>1, MadeTyped DEF MadeOf
<1>3. c.injection # None /\ c.injection.block =>
          KeepsTo(req.messages, c.injection.roles, Tame(c.injection.threshold))
  <2>1. c.injection # None => c.injection.threshold \in Int
    BY SecurityAssumption
  <2> QED BY <1>2, <2>1, NotFlaggedIsTame
<1>4. CASE c.pii = None
    BY <1>3, <1>4 DEF Guarded
<1>5. CASE c.pii # None
  <2>0. PICK pii, q : pii = c.pii /\ q = c.caller
    OBVIOUS
  <2>1. PICK registryOf : registryOf = RegistryOf(req, pii)
    OBVIOUS
  <2>2. out = RedactRequest(req, pii, registryOf)
    BY <1>5, <2>0, <2>1
  <2>3. /\ RequestFields \subseteq DOMAIN out /\ MadeOf(q, out) /\ out.origin = req.origin
        /\ KeepsTo(out.messages, pii.roles, Impersonal(pii.entities))
        /\ \A roles, W : Masks \subseteq W /\ KeepsTo(req.messages, roles, W) =>
             KeepsTo(out.messages, roles, W)
    <3>1. RequestFields \subseteq DOMAIN req /\ MadeOf(q, req)
      BY <1>1, <2>0
    <3>2. pii.roles \subseteq Roles
      BY <1>5, <2>0, SecurityAssumption
    <3> HIDE <2>0
    <3> QED BY <2>1, <2>2, <3>1, <3>2, RequestRedacted
  <2>4. KeepsTo(out.messages, pii.roles, Safe(c))
    <3>1. PICK V, W : V = Safe(c) /\ W = Impersonal(pii.entities)
      OBVIOUS
    <3>2. W \subseteq V
      BY <2>0, <3>1 DEF Impersonal, Safe
    <3>3. KeepsTo(out.messages, pii.roles, W)
      BY <2>3, <3>1
    <3>4. KeepsTo(out.messages, pii.roles, V)
      BY <3>2, <3>3, KeepsMore
    <3> QED BY <3>1, <3>4
  <2>5. c.injection # None /\ c.injection.block =>
          KeepsTo(out.messages, c.injection.roles, Tame(c.injection.threshold))
    <3>1. Masks \subseteq Tame(c.injection.threshold)
      BY DEF Masks, Tame
    <3> QED BY <1>3, <2>3, <3>1
  <2> QED BY <1>1, <2>0, <2>3, <2>4, <2>5 DEF OfCall, Guarded
<1> QED BY <1>4, <1>5

\* A turn callm adds is a message like those of every adapter.
LEMMA TurnMade ==
    ASSUME NEW q, NEW role \in {"user", "assistant"}, NEW text \in Text,
           NEW m, m = Turn(role, text)
    PROVE  m \in Made(q) /\ m.role = role /\ SeenIn(m) = {text}
<1>1. m \in MessageTypes
    BY TurnTyped DEF Roles
<1>2. m.role = role /\ m.content = Str(text) /\ m.mark = "none" /\ m.item = NoItem
    BY DEF Turn, Message
<1>3. NoItem.kind = "none" /\ NoItem.content.form = "str" /\ NoItem.calls = <<>>
    BY NoItemTyped
<1>4. m \in Made(q)
    BY <1>1, <1>2, <1>3 DEF Made, PortableRoles
<1>5. ToSet(Str(text).parts) = {Part("text", text)}
    BY StrTyped
<1>6. IsVisible(Part("text", text)) /\ Part("text", text).text = text
    BY DEF IsVisible, Part
<1>7. ToSet(<<>>) = {}
    BY DEF ToSet
<1>8. SeenIn(m) = {text}
    BY <1>2, <1>3, <1>5, <1>6, <1>7 DEF SeenIn, Visible
<1> QED BY <1>2, <1>4, <1>8

\* The text of an answer has words of the model.
LEMMA AnswerWords ==
    ASSUME NEW c \in Calls, NEW a \in c.answers
    PROVE  TextOfParts(a.parts) \in Seq(Words \intersect Invented(c))
<1>1. PICK parts \in Seq(ContentParts) : parts = a.parts
    BY CallsAssumption
<1>2. PICK W : W = Words \intersect Invented(c)
    OBVIOUS
<1>3. ASSUME NEW p \in ToSet(parts), IsVisible(p)
      PROVE  p.text \in Seq(W)
  <2>1. p.text \in Text
    <3>1. ToSet(parts) \subseteq ContentParts
      BY ValuesTyped
    <3> QED BY <3>1 DEF ContentParts
  <2>2. p.text \in Visible(Parts(a.parts), <<>>)
    BY <1>1, <1>3 DEF Visible, Parts
  <2>3. ToSet(p.text) \subseteq Invented(c)
    BY <2>2 DEF Invented, WordsIn
  <2>4. ToSet(p.text) \subseteq W
    BY <1>2, <2>1, <2>3, ValuesTyped DEF Text
  <2> QED BY <2>1, <2>4, SeqOfValues DEF Text
<1> QED BY <1>1, <1>2, <1>3, TextOfVisible

\* Two turns are added, the answer of the model and words of callm's.
LEMMA Reasked ==
    ASSUME NEW c \in Calls, NEW req, OfCall(c, req), Guarded(c, req.messages),
           NEW said \in Text,
           \A word \in ToSet(said) : word \in Invented(c) \/ word[1] \notin {"pii", "attack"},
           NEW feedback \in Text, \A word \in ToSet(feedback) : word[1] \notin {"pii", "attack"},
           NEW out, out = AppendMessages(req, <<Turn("assistant", said), Turn("user", feedback)>>)
    PROVE  OfCall(c, out) /\ Guarded(c, out.messages)
<1>1. PICK q : q = c.caller
    OBVIOUS
<1>2. RequestFields \subseteq DOMAIN req /\ req.origin = q /\ MadeOf(q, req)
    BY <1>1 DEF OfCall
<1>3. PICK M : M = Made(q)
    OBVIOUS
<1>4. PICK messages \in Seq(M) : messages = req.messages
    BY <1>2, <1>3 DEF MadeOf
<1>5. PICK m \in M : m = Turn("assistant", said) /\ m.role = "assistant" /\ SeenIn(m) = {said}
    BY <1>3, TurnMade
<1>6. PICK k \in M : k = Turn("user", feedback) /\ k.role = "user" /\ SeenIn(k) = {feedback}
    BY <1>3, TurnMade
<1>7. PICK added \in Seq(M) : added = <<m, k>> /\ ToSet(added) = {m, k}
  <2>1. <<m, k>> \in Seq(M)
    OBVIOUS
  <2>2. ToSet(<<m, k>>) = {m, k}
    BY DEF ToSet
  <2> QED BY <2>1, <2>2
<1>8. PICK all \in Seq(M) : all = messages \o added /\ ToSet(all) = ToSet(messages) \union {m, k}
  <2>1. messages \o added \in Seq(M) /\ ToSet(messages \o added) = ToSet(messages) \union ToSet(added)
    BY ValuesJoined
  <2> QED BY <1>7, <2>1
<1>9. out = [req EXCEPT !.messages = all]
    BY <1>4, <1>5, <1>6, <1>7, <1>8 DEF AppendMessages
<1>10. /\ RequestFields \subseteq DOMAIN out /\ out.messages = all /\ out.origin = req.origin
       /\ out.extra = req.extra /\ out.pristine = req.pristine
    BY <1>2, <1>9 DEF RequestFields
<1>11. OfCall(c, out)
  <2>1. MadeOf(q, out)
    BY <1>2, <1>3, <1>10 DEF MadeOf
  <2> QED BY <1>1, <1>2, <1>10, <2>1 DEF OfCall
<1>12. \A word \in ToSet(said) \union ToSet(feedback) : word \in Words
    BY ValuesTyped DEF Text
<1>13. c.pii # None => said \in Seq(Safe(c)) /\ feedback \in Seq(Safe(c))
  <2>1. ToSet(said) \subseteq Safe(c) /\ ToSet(feedback) \subseteq Safe(c)
    BY <1>12, OwnWords DEF Safe
  <2> QED BY <2>1, SeqOfValues DEF Text
<1>14. ASSUME c.injection # None
       PROVE  /\ "assistant" \in c.injection.roles => said \in Seq(Tame(c.injection.threshold))
              /\ feedback \in Seq(Tame(c.injection.threshold))
  <2>1. PICK W : W = Tame(c.injection.threshold)
    OBVIOUS
  <2>2. ToSet(feedback) \subseteq W
    BY <1>12, <2>1, OwnWords
  <2>3. ASSUME "assistant" \in c.injection.roles, NEW word \in ToSet(said)
        PROVE  word \in W
    <3>1. \A w \in Invented(c) : w[1] # "attack"
      BY <1>14, <2>3, SecurityAssumption DEF Invented
    <3>2. word[1] # "attack"
      BY <2>3, <3>1
    <3> QED BY <1>12, <2>1, <2>3, <3>2 DEF Tame
  <2>4. "assistant" \in c.injection.roles => ToSet(said) \subseteq W
    BY <2>3
  <2> QED BY <2>1, <2>2, <2>4, SeqOfValues DEF Text
<1>15. ASSUME c.pii # None
       PROVE  KeepsTo(all, c.pii.roles, Safe(c))
  <2>1. KeepsTo(messages, c.pii.roles, Safe(c))
    BY <1>4, <1>15 DEF Guarded
  <2>2. SeenIn(m) \subseteq Seq(Safe(c)) /\ SeenIn(k) \subseteq Seq(Safe(c))
    BY <1>5, <1>6, <1>13, <1>15
  <2> QED BY <1>8, <2>1, <2>2 DEF KeepsTo
<1>16. ASSUME c.injection # None, c.injection.block
       PROVE  KeepsTo(all, c.injection.roles, Tame(c.injection.threshold))
  <2>1. PICK roles, W : roles = c.injection.roles /\ W = Tame(c.injection.threshold)
    OBVIOUS
  <2>2. KeepsTo(messages, roles, W)
    BY <1>4, <1>16, <2>1 DEF Guarded
  <2>3. m.role \in roles => SeenIn(m) \subseteq Seq(W)
    BY <1>5, <1>14, <1>16, <2>1
  <2>4. SeenIn(k) \subseteq Seq(W)
    BY <1>6, <1>14, <1>16, <2>1
  <2>5. KeepsTo(all, roles, W)
    BY <1>8, <2>2, <2>3, <2>4 DEF KeepsTo
  <2> QED BY <2>1, <2>5
<1> QED BY <1>10, <1>11, <1>15, <1>16 DEF Guarded

\* What is sent of a guarded request, to any target of the call.
LEMMA SentIsClean ==
    ASSUME NEW c \in Calls, NEW req, OfCall(c, req), Guarded(c, req.messages),
           NEW i \in DOMAIN c.targets, NEW target, target = c.targets[i],
           i > 1 => ~(target.provider # req.origin /\ ~Portable(req)),
           NEW kwargs, kwargs = ToKwargs(target.provider, Retarget(req, target))
    PROVE  /\ c.pii # None => PersonalData(kwargs, c.pii) \intersect PersonalData(c.asked, c.pii) = {}
           /\ c.injection # None /\ c.injection.block =>
                \A word \in WordsIn(Covered(kwargs, c.injection.roles)) :
                    word[1] = "attack" => 100 * word[3] < c.injection.threshold
<1>1. PICK q \in Providers : q = target.provider
  <2>1. PICK T : T = [provider : Providers, model : ModelNames]
    OBVIOUS
  <2>2. c.targets \in Seq(T)
    BY <2>1, CallsAssumption
  <2>3. target \in T
    BY <2>2
  <2> QED BY <2>1, <2>3
<1>2. RequestFields \subseteq DOMAIN req /\ req.origin = c.caller /\ MadeOf(c.caller, req)
    BY DEF OfCall
<1>3. q = req.origin \/ Portable(req)
  <2>1. CASE i = 1
    <3>1. c.targets[1].provider = c.caller
      BY CallsAssumption
    <3> QED BY <1>1, <1>2, <2>1, <3>1
  <2>2. CASE i # 1
    <3>1. i > 1
      <4>1. PICK T : T = [provider : Providers, model : ModelNames]
        OBVIOUS
      <4>2. c.targets \in Seq(T)
        BY <4>1, CallsAssumption
      <4>3. i \in Nat /\ i # 0
        BY <4>2
      <4> QED BY <2>2, <4>3
    <3> QED BY <1>1, <3>1
  <2> QED BY <2>1, <2>2
<1>4. PICK out : out = Retarget(req, target)
    OBVIOUS
<1>5. /\ out.messages = req.messages /\ out.origin = req.origin /\ out.pristine = req.pristine
      /\ q = req.origin => out.extra = req.extra
    BY <1>1, <1>2, <1>4 DEF Retarget, RequestFields
<1>6. q = out.origin => MadeOf(q, out)
    BY <1>2, <1>5 DEF MadeOf
<1>7. q # out.origin => /\ out.messages \in Seq(MessageTypes)
                        /\ \A m \in ToSet(out.messages) : m.role \in PortableRoles
  <2>1. out.messages \in Seq(MessageTypes)
    BY <1>2, <1>5, MadeTyped DEF MadeOf
  <2>2. Portable(req) => \A m \in ToSet(req.messages) : m.role \in PortableRoles
    BY DEF Portable, ToSet
  <2> QED BY <1>3, <1>5, <2>1, <2>2
<1>8. ASSUME NEW roles, NEW W, ContinuedWord \in W, KeepsTo(req.messages, roles, W)
      PROVE  Covered(kwargs, roles) \subseteq Seq(W)
  <2>1. kwargs = ToKwargs(q, out)
    BY <1>1, <1>4
  <2>2. KeepsTo(out.messages, roles, W)
    BY <1>5, <1>8
  <2>3. Covered(ToKwargs(q, out), roles) \subseteq Seq(W)
    BY <1>6, <1>7, <1>8, <2>2, SentKeeps
  <2> QED BY <2>1, <2>3
<1>9. \A threshold : ContinuedWord \in Safe(c) /\ ContinuedWord \in Tame(threshold)
  <2>1. ContinuedWord[1] = "continued"
    BY DEF ContinuedWord
  <2> QED BY <2>1, ContinuedTyped, OwnWords
<1>10. ASSUME c.pii # None
       PROVE  PersonalData(kwargs, c.pii) \intersect PersonalData(c.asked, c.pii) = {}
  <2>1. KeepsTo(req.messages, c.pii.roles, Safe(c))
    BY <1>10 DEF Guarded
  <2>2. Covered(kwargs, c.pii.roles) \subseteq Seq(Safe(c))
    BY <1>8, <1>9, <2>1
  <2> QED BY <1>10, <2>2, SafeIsNotPersonal
<1>11. ASSUME c.injection # None, c.injection.block
       PROVE  \A word \in WordsIn(Covered(kwargs, c.injection.roles)) :
                  word[1] = "attack" => 100 * word[3] < c.injection.threshold
  <2>1. PICK roles, threshold : roles = c.injection.roles /\ threshold = c.injection.threshold
    OBVIOUS
  <2>2. KeepsTo(req.messages, roles, Tame(threshold))
    BY <1>11, <2>1 DEF Guarded
  <2>3. Covered(kwargs, roles) \subseteq Seq(Tame(threshold))
    BY <1>8, <1>9, <2>2
  <2>4. \A word \in WordsIn(Covered(kwargs, roles)) : word[1] = "attack" => 100 * word[3] < threshold
    BY <2>3, TameHasNoAttack
  <2> QED BY <2>1, <2>4
<1> QED BY <1>10, <1>11

\* Each placeholder of a request stands for one value, each value for one placeholder.
OneToOne(entries) ==
    \A r, s \in entries : r.entity = s.entity => (r.index = s.index <=> r.value = s.value)

\* What is sent has neither the caller's personal data nor attacks.
IsClean(c, kwargs) ==
    /\ c.pii # None => PersonalData(kwargs, c.pii) \intersect PersonalData(c.asked, c.pii) = {}
    /\ c.injection # None /\ c.injection.block =>
         \A word \in WordsIn(Covered(kwargs, c.injection.roles)) :
             word[1] = "attack" => 100 * word[3] < c.injection.threshold

\* MaskedFaithfully is these two.
LEMMA MaskedAsParts ==
    MaskedFaithfully <=> OneToOne(registry) /\ (pc = "sent" => IsClean(call, sent.kwargs))
BY DEF MaskedFaithfully, OneToOne, IsClean

\* The same of the state after a step.
LEMMA MaskedAsPartsNext ==
    MaskedFaithfully' <=> OneToOne(registry') /\ (pc' = "sent" => IsClean(call', sent'.kwargs))
BY DEF MaskedFaithfully, OneToOne, IsClean

\* The registry of a request is one to one.
LEMMA RegistryOneToOne ==
    ASSUME NEW q, NEW req, MadeOf(q, req), NEW pii
    PROVE  OneToOne(RegistryOf(req, pii))
<1>1. req.messages \in Seq(MessageTypes)
    BY MadeTyped DEF MadeOf
<1>2. PICK texts \in Seq(Text) : texts = TextsFrom(req.messages, pii.roles)
    BY <1>1, ScannedTexts
<1>3. PICK entries : entries = Registry(FoundIn(texts, pii.entities))
    OBVIOUS
<1>4. \A r, s \in entries : r.entity = s.entity => (r.index = s.index <=> r.value = s.value)
    BY <1>3, RegistryFacts
<1>5. RegistryOf(req, pii) = entries
    BY <1>2, <1>3 DEF RegistryOf
<1> QED BY <1>4, <1>5 DEF OneToOne

\* A call begins with no request.
LEMMA InitScreening == Init => Screening
<1> SUFFICES ASSUME Init PROVE Screening
    OBVIOUS
<1>1. pc = "called" /\ registry = {}
    BY DEF Init
<1>2. MaskedFaithfully
    BY <1>1 DEF MaskedFaithfully
<1> QED BY <1>1, <1>2 DEF Screening

\* Screening is kept by steps that change neither the request nor the registry, and are
\* not Send.
LEMMA RequestStays ==
    ASSUME Screening, UNCHANGED <<call, request, registry>>, pc # "called" \/ pc' = "called",
           pc' \in {"pick", "retry", "answered"} => pc \in {"pick", "retry", "sent", "answered"},
           pc' = "sent" => pc = "sent" /\ UNCHANGED sent
    PROVE  Screening'
<1>1. OneToOne(registry) /\ (pc = "sent" => IsClean(call, sent.kwargs))
    BY MaskedAsParts DEF Screening
<1>2. OneToOne(registry') /\ (pc' = "sent" => IsClean(call', sent.kwargs'))
    BY <1>1
<1>3. MaskedFaithfully'
    BY <1>2, MaskedAsPartsNext
<1>4. pc' # "called" => OfCall(call', request')
    BY DEF Screening
<1>5. pc' \in {"pick", "retry", "sent", "answered"} => Guarded(call', request'.messages)
    BY DEF Screening
<1> QED BY <1>3, <1>4, <1>5 DEF Screening

\* Steps keep what is said within what may be sent.
LEMMA ScreeningStep ==
    ASSUME Inv, Screening, [Next]_vars
    PROVE  Screening'
<1>0. call \in Calls /\ index \in DOMAIN call.targets
    BY DEF Inv, Typed, TypeOK
<1>1. /\ pc # "called" => OfCall(call, request)
      /\ pc \in {"pick", "retry", "sent", "answered"} => Guarded(call, request.messages)
      /\ OneToOne(registry)
    BY MaskedAsParts DEF Screening
<1>2. CASE Receive
  <2>1. /\ pc = "called" /\ pc' = "screen" /\ call' = call /\ registry' = registry
        /\ request' = ParseNativeRequest(call.caller, IF call.via = "complete"
                                                      THEN BuildKwargs(call.caller, call.asked)
                                                      ELSE call.asked)
    BY <1>2 DEF Receive, history
  <2>2. OfCall(call, request')
    BY <1>0, <2>1, Received
  <2>3. MaskedFaithfully'
    BY <1>1, <2>1, MaskedAsPartsNext
  <2> QED BY <2>1, <2>2, <2>3 DEF Screening
<1>3. CASE Block
  <2>1. pc = "screen" /\ pc' = "raised" /\ UNCHANGED <<call, request, registry>>
    BY <1>3 DEF Block, history
  <2> QED BY <2>1, RequestStays
<1>4. CASE Screen
  <2>1. /\ pc = "screen" /\ pc' = "pick" /\ call' = call
        /\ ~(/\ call.injection # None /\ call.injection.block
             /\ InjectionScore(request, call.injection) >= call.injection.threshold)
        /\ request' = IF call.pii = None THEN request
                      ELSE RedactRequest(request, call.pii, RegistryOf(request, call.pii))
        /\ registry' = IF call.pii = None THEN registry ELSE RegistryOf(request, call.pii)
    BY <1>4 DEF Screen, Flagged
  <2>2. OfCall(call, request)
    BY <1>1, <2>1
  <2>3. OfCall(call, request') /\ Guarded(call, request'.messages)
    BY <1>0, <2>1, <2>2, Screened
  <2>4. OneToOne(registry')
    <3>1. MadeOf(call.caller, request)
      BY <2>2 DEF OfCall
    <3>2. PICK pii : pii = call.pii
      OBVIOUS
    <3>3. OneToOne(RegistryOf(request, pii))
      BY <3>1, RegistryOneToOne
    <3> QED BY <1>1, <2>1, <3>2, <3>3
  <2>5. MaskedFaithfully'
    BY <2>1, <2>4, MaskedAsPartsNext
  <2> QED BY <2>1, <2>3, <2>5 DEF Screening
<1>5. CASE SkipTarget
  <2>1. pc = "pick" /\ pc' \in {"pick", "raised"} /\ UNCHANGED <<call, request, registry>>
    BY <1>5 DEF SkipTarget, NextTarget, history
  <2> QED BY <2>1, RequestStays
<1>6. CASE Send
  <2>1. /\ pc \in {"pick", "retry"} /\ pc' = "sent" /\ UNCHANGED <<call, request, registry>>
        /\ index > 1 => ~IsBlocked
        /\ sent' = [to |-> Target.provider,
                    kwargs |-> ToKwargs(Target.provider, Retarget(request, Target))]
    BY <1>6 DEF Send
  <2>2. OfCall(call, request) /\ Guarded(call, request.messages)
    BY <1>1, <2>1
  <2>3. PICK target : target = call.targets[index] /\ target = Target
    BY DEF Target
  <2>4. PICK kwargs : kwargs = ToKwargs(target.provider, Retarget(request, target))
    OBVIOUS
  <2>5. index > 1 => ~(target.provider # request.origin /\ ~Portable(request))
    BY <2>1, <2>3 DEF IsBlocked
  <2>6. IsClean(call, kwargs)
    BY <1>0, <2>2, <2>3, <2>4, <2>5, SentIsClean DEF IsClean
  <2>7. sent'.kwargs = kwargs
    BY <2>1, <2>3, <2>4
  <2>8. OneToOne(registry') /\ IsClean(call', sent'.kwargs)
    BY <1>1, <2>1, <2>6, <2>7
  <2>9. MaskedFaithfully'
    BY <2>8, MaskedAsPartsNext
  <2> QED BY <2>1, <2>2, <2>9 DEF Screening
<1>7. CASE Answer
  <2>1. pc = "sent" /\ pc' = "answered" /\ UNCHANGED <<call, request, registry>>
    BY <1>7 DEF Answer
  <2> QED BY <2>1, RequestStays
<1>8. CASE Fail
  <2>1. pc = "sent" /\ pc' \in {"retry", "pick", "raised"} /\ UNCHANGED <<call, request, registry>>
    BY <1>8 DEF Fail, NextTarget
  <2> QED BY <2>1, RequestStays
<1>9. CASE Reask
  <2>1. pc = "answered" /\ UNCHANGED <<call, registry>>
    BY <1>9 DEF Reask
  <2>2. CASE attempt + 1 >= call.attempts
    <3>1. pc' = "raised" /\ UNCHANGED request
      BY <1>9, <2>2 DEF Reask
    <3> QED BY <2>1, <3>1, RequestStays
  <2>3. CASE ~(attempt + 1 >= call.attempts)
    <3>1. PICK n \in Int : n = attempt
      BY <1>0, CallsAssumption DEF Inv, Typed, TypeOK
    <3>2. PICK zero \in Int : zero = 0
      OBVIOUS
    <3>a. <<"empty", "", zero>> \in Words /\ <<"empty", "", zero>>[1] = "empty"
      BY WordTyped
    <3>b. <<"feedback", "", n>> \in Words /\ <<"feedback", "", n>>[1] = "feedback"
      BY WordTyped
    <3>3. PICK empty \in Words : empty = <<"empty", "", zero>> /\ empty[1] = "empty"
      BY <3>a, Zenon
    <3>4. PICK told \in Words : told = <<"feedback", "", n>> /\ told[1] = "feedback"
      BY <3>b, Zenon
    <3>5. PICK said : said = IF response.text = <<>> THEN <<empty>> ELSE response.text
      OBVIOUS
    <3>6. PICK feedback : feedback = <<told>>
      OBVIOUS
    <3>7. /\ pc' = "pick"
          /\ request' = AppendMessages(request, <<Turn("assistant", said), Turn("user", feedback)>>)
      BY <1>9, <2>3, <3>1, <3>2, <3>3, <3>4, <3>5, <3>6 DEF Reask, Feedback
    <3>8. feedback \in Text /\ ToSet(feedback) = {told}
      BY <3>4, <3>6, OneValue DEF Text
    <3>9. /\ said \in Text
          /\ \A word \in ToSet(said) : word \in Invented(call) \/ word[1] \notin {"pii", "attack"}
      <4>1. CASE response.text = <<>>
        <5>1. said = <<empty>>
          BY <3>5, <4>1
        <5>2. said \in Text /\ ToSet(said) = {empty}
          BY <3>3, <3>4, <5>1, OneValue DEF Text
        <5> QED BY <3>3, <3>4, <5>2
      <4>2. CASE response.text # <<>>
        <5>1. said = response.text
          BY <3>5, <4>2
        <5>2. answer \in call.answers /\ said = TextOfParts(answer.parts)
          BY <2>1, <5>1 DEF Inv, AnswerRead
        <5>3. said \in Seq(Words \intersect Invented(call))
          BY <1>0, <5>2, AnswerWords
        <5>4. said \in Text
          BY <5>3, KeepsMore DEF Text
        <5>5. ToSet(said) \subseteq Words \intersect Invented(call)
          BY <5>3, ValuesTyped
        <5> QED BY <5>4, <5>5
      <4> QED BY <4>1, <4>2
    <3>10. OfCall(call, request) /\ Guarded(call, request.messages)
      BY <1>1, <2>1
    <3>11. OfCall(call, request') /\ Guarded(call, request'.messages)
      BY <1>0, <3>3, <3>4, <3>7, <3>8, <3>9, <3>10, Reasked
    <3>12. MaskedFaithfully'
      BY <1>1, <2>1, <3>7, MaskedAsPartsNext
    <3> QED BY <2>1, <3>7, <3>11, <3>12 DEF Screening
  <2> QED BY <2>2, <2>3
<1>10. CASE Accept
  <2>1. pc = "answered" /\ pc' = "accepted" /\ UNCHANGED <<call, request, registry>>
    BY <1>10 DEF Accept, history
  <2> QED BY <2>1, RequestStays
<1>11. CASE Recall
  <2>1. pc = "accepted" /\ pc' = "recalled" /\ UNCHANGED <<call, request, registry>>
    BY <1>11 DEF Recall, history
  <2> QED BY <2>1, RequestStays
<1>12. CASE HandBack
  <2>1. /\ pc \in {"accepted", "recalled"} /\ pc' = "returned"
        /\ UNCHANGED <<call, request, registry>>
    BY <1>12 DEF HandBack, history
  <2> QED BY <2>1, RequestStays
<1>13. CASE UNCHANGED vars
  <2>1. UNCHANGED <<call, request, registry, pc, sent>>
    BY <1>13 DEF vars, history
  <2> QED BY <2>1, RequestStays
<1> QED BY <1>2, <1>3, <1>4, <1>5, <1>6, <1>7, <1>8, <1>9, <1>10, <1>11, <1>12, <1>13 DEF Next

\* Two sequences that begin alike are joined alike so far.
LEMMA JoinsAgree ==
    ASSUME NEW N \in Nat, NEW r, NEW s, NEW h, NEW k, Joins(h, r, N), Joins(k, s, N),
           \A n \in 1..N : r[n] = s[n]
    PROVE  h[N] = k[N]
<1> DEFINE I == {n \in Nat : n <= N => h[n] = k[n]}
<1>1. 0 \in I
    BY DEF Joins
<1>2. ASSUME NEW n \in Nat, n \in I
      PROVE  n + 1 \in I
  <2> SUFFICES ASSUME n + 1 <= N PROVE h[n + 1] = k[n + 1]
    OBVIOUS
  <2>1. n + 1 \in 1..N /\ (n + 1) - 1 = n /\ h[n] = k[n]
    BY <1>2
  <2> QED BY <2>1 DEF Joins
<1>3. N \in I
  <2> HIDE DEF I
  <2> QED BY <1>1, <1>2, SetInduction
<1> QED BY <1>3

\* One more text is joined at the end.
LEMMA JoinedAppended ==
    ASSUME NEW W, NEW texts \in Seq(Seq(W)), NEW text \in Seq(W)
    PROVE  /\ Joined(texts) \in Seq(W) /\ Append(texts, text) \in Seq(Seq(W))
           /\ Joined(Append(texts, text)) = Joined(texts) \o text
<1>1. PICK N \in Nat : N = Len(texts) /\ DOMAIN texts = 1..N
    OBVIOUS
<1>2. PICK more \in Seq(Seq(W)) : more = Append(texts, text)
  <2>1. PICK X : X = Seq(W)
    OBVIOUS
  <2>2. Append(texts, text) \in Seq(X)
    BY <2>1
  <2> QED BY <2>1, <2>2
<1>3. /\ Len(more) = N + 1 /\ DOMAIN more = 1..(N + 1)
      /\ more[N + 1] = text /\ \A n \in 1..N : more[n] = texts[n]
    BY <1>1, <1>2
<1>4. PICK h : Joins(h, texts, N) /\ Joined(texts) = h[N]
  <2>1. \A n \in 1..N : texts[n] \in Seq(W)
    BY <1>1
  <2> QED BY <1>1, <2>1, JoinedSteps
<1>5. PICK k : Joins(k, more, N + 1) /\ Joined(more) = k[N + 1]
  <2>1. \A n \in 1..(N + 1) : more[n] \in Seq(W)
    BY <1>3
  <2>2. N + 1 \in Nat
    OBVIOUS
  <2> QED BY <1>3, <2>1, <2>2, JoinedSteps
<1>6. Joins(k, more, N)
  <2>1. \A n \in 1..N : n \in 1..(N + 1)
    OBVIOUS
  <2> QED BY <1>5, <2>1 DEF Joins
<1>7. h[N] = k[N]
    BY <1>3, <1>4, <1>6, JoinsAgree
<1>8. k[N + 1] = k[N] \o more[N + 1]
  <2>1. N + 1 \in 1..(N + 1) /\ (N + 1) - 1 = N
    OBVIOUS
  <2> QED BY <1>5, <2>1 DEF Joins
<1>9. Joined(texts) \in Seq(W)
    BY JoinedValues
<1> QED BY <1>2, <1>3, <1>4, <1>5, <1>7, <1>8, <1>9

\* No text joined is the empty one, one is itself.
LEMMA JoinedFew ==
    ASSUME NEW W, NEW text \in Seq(W)
    PROVE  Joined(<<>>) = <<>> /\ Joined(<<text>>) = text
<1>1. Joined(<<>>) = <<>>
  <2>1. PICK none : none = <<>> /\ Len(none) = 0
    OBVIOUS
  <2>2. PICK h : Joins(h, none, 0) /\ Joined(none) = h[0]
    BY <2>1, JoinedSteps
  <2> QED BY <2>1, <2>2 DEF Joins
<1>2. <<>> \in Seq(Seq(W)) /\ Append(<<>>, text) = <<text>>
    OBVIOUS
<1>3. Joined(<<text>>) = <<>> \o text
    BY <1>1, <1>2, JoinedAppended
<1> QED BY <1>1, <1>3

\* What turns concatenation into concatenation does so with any number of texts.
Distributes(h, V, W) ==
    /\ h \in [Seq(V) -> Seq(W)] /\ h[<<>>] = <<>>
    /\ \A r, s \in Seq(V) : h[r \o s] = h[r] \o h[s]

\* A function that distributes over \o maps a joined text to the join of its values.
LEMMA JoinedMapped ==
    ASSUME NEW V, NEW W, NEW h, Distributes(h, V, W), NEW texts \in Seq(Seq(V))
    PROVE  /\ [i \in DOMAIN texts |-> h[texts[i]]] \in Seq(Seq(W))
           /\ h[Joined(texts)] = Joined([i \in DOMAIN texts |-> h[texts[i]]])
<1>1. PICK N \in Nat : N = Len(texts) /\ DOMAIN texts = 1..N
    OBVIOUS
<1>2. PICK images : images = [i \in 1..N |-> h[texts[i]]]
    OBVIOUS
<1>3. \A n \in 1..N : texts[n] \in Seq(V) /\ images[n] = h[texts[n]] /\ images[n] \in Seq(W)
    BY <1>1, <1>2 DEF Distributes
<1>4. images \in Seq(Seq(W)) /\ Len(images) = N
    BY <1>2, <1>3
<1>5. PICK f : Joins(f, texts, N) /\ Joined(texts) = f[N]
    BY <1>1, <1>3, JoinedSteps
<1>6. PICK g : Joins(g, images, N) /\ Joined(images) = g[N]
    BY <1>3, <1>4, JoinedSteps
<1> DEFINE I == {n \in Nat : n <= N => f[n] \in Seq(V) /\ h[f[n]] = g[n]}
<1>7. 0 \in I
  <2>1. <<>> \in Seq(V)
    OBVIOUS
  <2> QED BY <1>5, <1>6, <2>1 DEF Joins, Distributes
<1>8. ASSUME NEW n \in Nat, n \in I
      PROVE  n + 1 \in I
  <2> SUFFICES ASSUME n + 1 <= N PROVE f[n + 1] \in Seq(V) /\ h[f[n + 1]] = g[n + 1]
    OBVIOUS
  <2>1. n + 1 \in 1..N /\ (n + 1) - 1 = n /\ f[n] \in Seq(V) /\ h[f[n]] = g[n]
    BY <1>8
  <2>2. f[n + 1] = f[n] \o texts[n + 1] /\ g[n + 1] = g[n] \o images[n + 1]
    BY <1>5, <1>6, <2>1 DEF Joins
  <2>3. texts[n + 1] \in Seq(V) /\ images[n + 1] = h[texts[n + 1]]
    BY <1>3, <2>1
  <2>4. f[n] \o texts[n + 1] \in Seq(V)
    BY <2>1, <2>3
  <2>5. h[f[n] \o texts[n + 1]] = h[f[n]] \o h[texts[n + 1]]
    BY <2>1, <2>3 DEF Distributes
  <2> QED BY <2>1, <2>2, <2>3, <2>4, <2>5
<1>9. N \in I
  <2> HIDE DEF I
  <2> QED BY <1>7, <1>8, SetInduction
<1>10. [i \in DOMAIN texts |-> h[texts[i]]] = images
    BY <1>1, <1>2
<1>11. h[f[N]] = g[N]
    BY <1>9
<1>12. h[Joined(texts)] = Joined(images)
    BY <1>5, <1>6, <1>11
<1> HIDE DEF I
<1> QED BY <1>4, <1>10, <1>12, Zenon

(***************************************************************************)
(* The theorems                                                            *)
(***************************************************************************)

\* The inductive invariant holds in every state of Exchange.
THEOREM Invariance == Spec => []Inv
<1>1. Inv /\ [Next]_vars => Inv'
    BY TypedStep, WaitsStep, CostsStep, AnswerStep, TokensStep, ReplyStep DEF Inv
<1> QED BY <1>1, InitInv, PTL DEF Spec

\* Each layer is given what it expects (interception.py, middleware/): the position in
\* the chain is that of a target, retries and attempts stay below the configured
\* numbers, request and response name the providers they are of.
THEOREM TypeCorrect == Spec => []TypeOK
<1>1. Inv => TypeOK
    BY DEF Inv, Typed
<1> QED BY <1>1, Invariance, PTL

\* Whatever an exception says of waiting, and in whatever forms (classify.py): it is
\* repeated no sooner than the server wants, and after the longest wait configured at
\* most.
THEOREM WaitsForTheReset == Spec => []RetriedOnceReset
<1>1. Inv => RetriedOnceReset
    BY DEF Inv
<1> QED BY <1>1, Invariance, PTL

\* Whatever targets answer, after whatever retries, fallbacks and re-asks, the cost of
\* a response is the sum of what its answers cost at the prices in force, or unknown
\* (validator.py, pricing.py, parse_response of the providers), whatever the overrides and
\* the table are and whichever of them hide others.
THEOREM CostIsBilled == Spec => []EveryTokenPricedOnce
<1>1. Inv => EveryTokenPricedOnce
    BY DEF Inv, CostsAddUp, EveryTokenPricedOnce
<1> QED BY <1>1, Invariance, PTL

\* Code written for one SDK reads in the reply what a model of another provider
\* answered, through a fallback, after re-asks or out of the cache (build_native and
\* native_for of the providers): the words, whether it was cut off or refused, and the
\* tokens all attempts took.  Exactly the refusals of LosesRefusal it reads as done: those
\* built for the Responses API, and for OpenAI and Anthropic Gemini's other than SAFETY.
THEOREM RepliesReadTheSame == Spec => []ReplyReadsTheSame
<1>1. Inv => ReplyReadsTheSame
    BY DEF Inv
<1> QED BY <1>1, Invariance, PTL

\* Personal data of the caller's messages reaches no target, in no form of the request
\* (middleware/security.py, to_kwargs of the providers, Gemini's verbatim arguments
\* included), after whatever fallbacks and re-asks, a placeholder stands for one value
\* and a value for one placeholder, and no attack that the filter blocks is sent.  It is
\* about what roles say: the arguments of a function_call of the Responses API have none
\* and are not masked (openai_responses.py:48-49).
THEOREM MaskingIsFaithful == Spec => []MaskedFaithfully
<1>1. Inv /\ [Next]_vars => Inv'
    BY TypedStep, WaitsStep, CostsStep, AnswerStep, TokensStep, ReplyStep DEF Inv
<1>2. Inv /\ Screening /\ [Next]_vars => Screening'
    BY ScreeningStep
<1>3. Screening => MaskedFaithfully
    BY DEF Screening
<1> QED BY <1>1, <1>2, <1>3, InitInv, InitScreening, PTL DEF Spec
=============================================================================
