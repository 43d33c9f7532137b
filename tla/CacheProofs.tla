----------------------------- MODULE CacheProofs -----------------------------
(***************************************************************************)
(* Proofs about the cache layer over either store, after lemmas about the  *)
(* operators of ResponseCache: what is kept of a sequence, what the LRU    *)
(* store does with its entries, what a search settles on.                  *)
(*                                                                         *)
(* Inv says of every call what the entry it holds is worth at the step it  *)
(* is at, of every entry in the store where it comes from, of the LRU store *)
(* that its entries stand in the order in which they were used, and of the *)
(* sorted sets in Redis which keys they list.                              *)
(***************************************************************************)
EXTENDS RedisCache, WellFoundedInduction, SequenceTheorems, FiniteSetTheorems, TLAPS

-----------------------------------------------------------------------------
(* Induction over the natural numbers, in terms of sets and functions. *)

\* A set that has 0, and with every number the next, has all natural numbers.
LEMMA SetInduction ==
    ASSUME NEW S, 0 \in S, \A n \in Nat : n \in S => n + 1 \in S
    PROVE  Nat \subseteq S
<1> DEFINE T == Nat \ S
<1> SUFFICES ASSUME T # {} PROVE FALSE
    OBVIOUS
<1>1. PICK x \in T : \A y \in T : ~(<<y, x>> \in OpToRel(<, Nat))
    BY WFMin, NatLessThanWellFounded
<1>2. x # 0 /\ x - 1 \in Nat
    OBVIOUS
<1>3. x - 1 \in T
    OBVIOUS
<1>4. <<x - 1, x>> \in OpToRel(<, Nat)
    BY <1>2 DEF OpToRel
<1> QED BY <1>1, <1>3, <1>4

\* step[n] leads from a value of T to the next one.
StepsWithin(N, T, step) == \A n \in 1..N : \A x \in T : step[n][x] \in T

\* f is given on 0..N by its value at 0 and by the step from one value to the next.
FollowsSteps(f, N, base, step) ==
    f[0] = base /\ \A n \in 1..N : f[n] = step[n][f[n - 1]]

\* Some function follows the steps.
LEMMA StepsDefineAFunction ==
    ASSUME NEW N \in Nat, NEW T, NEW base \in T, NEW step,
           StepsWithin(N, T, step)
    PROVE  \E f \in [0..N -> T] : FollowsSteps(f, N, base, step)
<1> USE DEF StepsWithin, FollowsSteps
<1> DEFINE Goes(n, f) == FollowsSteps(f, n, base, step)
           S == {n \in Nat : n <= N => \E f \in [0..n -> T] : Goes(n, f)}
<1>1. 0 \in S
  <2> DEFINE g == [i \in 0..0 |-> base]
  <2>1. g \in [0..0 -> T] /\ Goes(0, g)
    OBVIOUS
  <2> QED BY <2>1
<1>2. ASSUME NEW n \in Nat, n \in S
      PROVE  n + 1 \in S
  <2>1. SUFFICES ASSUME n + 1 <= N
                 PROVE  \E f \in [0..(n + 1) -> T] : Goes(n + 1, f)
    BY DEF S
  <2>2. PICK f \in [0..n -> T] : Goes(n, f)
    BY <1>2, <2>1 DEF S
  <2> HIDE DEF S
  <2>3. n + 1 \in 1..N
    BY <2>1
  <2>4. f[n] \in T
    OBVIOUS
  <2>5. step[n + 1][f[n]] \in T
    BY <2>3, <2>4
  <2> DEFINE last == step[n + 1][f[n]]
             g == [i \in 0..(n + 1) |-> IF i = n + 1 THEN last ELSE f[i]]
  <2> HIDE DEF last
  <2>6. g \in [0..(n + 1) -> T]
    BY <2>5 DEF last
  <2>7. g[n + 1] = last /\ \A i \in 0..n : g[i] = f[i]
    OBVIOUS
  <2> HIDE DEF g
  <2>8. g[0] = base
    BY <2>2, <2>7
  <2>9. ASSUME NEW i \in 1..(n + 1)
        PROVE  g[i] = step[i][g[i - 1]]
    <3>1. CASE i = n + 1
      <4>1. g[i - 1] = f[n] /\ g[i] = last
        BY <3>1, <2>7
      <4> QED BY <4>1, <3>1 DEF last
    <3>2. CASE i # n + 1
      <4>1. i \in 1..n /\ i \in 0..n /\ i - 1 \in 0..n
        BY <3>2
      <4>2. g[i - 1] = f[i - 1] /\ g[i] = f[i]
        BY <4>1, <2>7
      <4> QED BY <4>1, <4>2, <2>2
    <3> QED BY <3>1, <3>2
  <2> QED BY <2>6, <2>8, <2>9
<1>3. N \in S
  <2> HIDE DEF S
  <2> QED BY <1>1, <1>2, SetInduction
<1> QED BY <1>3

-----------------------------------------------------------------------------
(* Members that are kept. *)

\* g tells for each member of k which one of the first n members of s it is: k has those
\* that are in S, in their order.
Picks(k, s, n, S, g) ==
    /\ \A i \in 1..Len(k) : k[i] = s[g[i]] /\ k[i] \in S
    /\ \A i, j \in 1..Len(k) : i < j => g[i] < g[j]
    /\ \A m \in 1..n : s[m] \in S => \E i \in 1..Len(k) : g[i] = m

PicksOf(k, s, n, S) ==
    /\ Len(k) <= n
    /\ (\E m \in 1..n : s[m] \notin S) => Len(k) < n
    /\ \E g \in [1..Len(k) -> 1..n] : Picks(k, s, n, S, g)

\* One member more.
LEMMA PicksOneMore ==
    ASSUME NEW T, NEW s \in Seq(T), NEW S, NEW n \in Nat, n + 1 <= Len(s),
           NEW k \in Seq(T), PicksOf(k, s, n, S)
    PROVE  /\ s[n + 1] \in S => PicksOf(Append(k, s[n + 1]), s, n + 1, S)
           /\ s[n + 1] \notin S => PicksOf(k, s, n + 1, S)
<1>1. PICK g \in [1..Len(k) -> 1..n] : Picks(k, s, n, S, g)
  BY DEF PicksOf
<1>2. /\ Len(k) \in Nat /\ Len(k) <= n
      /\ (\E m \in 1..n : s[m] \notin S) => Len(k) < n
      /\ s[n + 1] \in T
  BY DEF PicksOf
<1>3. CASE s[n + 1] \in S
  <2> DEFINE k2 == Append(k, s[n + 1])
             g2 == [i \in 1..(Len(k) + 1) |-> IF i = Len(k) + 1 THEN n + 1 ELSE g[i]]
  <2>1. Len(k2) = Len(k) + 1 /\ k2[Len(k) + 1] = s[n + 1] /\ \A i \in 1..Len(k) : k2[i] = k[i]
    BY <1>2
  <2> HIDE DEF k2
  <2>2. /\ g2 \in [1..Len(k2) -> 1..(n + 1)]
        /\ g2[Len(k) + 1] = n + 1 /\ \A i \in 1..Len(k) : g2[i] = g[i]
    BY <1>2, <2>1
  <2> HIDE DEF g2
  <2>3. \A i \in 1..Len(k2) : i \in 1..Len(k) \/ i = Len(k) + 1
    BY <1>2, <2>1
  <2>4. \A i \in 1..Len(k2) : k2[i] = s[g2[i]] /\ k2[i] \in S
    BY <1>1, <1>3, <2>1, <2>2, <2>3 DEF Picks
  <2>5. ASSUME NEW i \in 1..Len(k2), NEW j \in 1..Len(k2), i < j
        PROVE  g2[i] < g2[j]
    <3>1. i \in 1..Len(k) /\ g[i] \in 1..n
      <4>1. i \in 1..Len(k)
        BY <1>2, <2>1, <2>5
      <4> QED BY <4>1
    <3>2. CASE j \in 1..Len(k)
      BY <1>1, <2>2, <2>5, <3>1, <3>2 DEF Picks
    <3>3. CASE j = Len(k) + 1
      BY <2>2, <3>1, <3>3
    <3> QED BY <2>3, <3>2, <3>3
  <2>6. ASSUME NEW m \in 1..(n + 1), s[m] \in S
        PROVE  \E i \in 1..Len(k2) : g2[i] = m
    <3>1. CASE m = n + 1
      <4>1. Len(k) + 1 \in 1..Len(k2)
        BY <1>2, <2>1
      <4> QED BY <2>2, <3>1, <4>1
    <3>2. CASE m # n + 1
      <4>1. m \in 1..n
        BY <3>2
      <4>2. PICK i \in 1..Len(k) : g[i] = m
        BY <1>1, <2>6, <4>1 DEF Picks
      <4>3. i \in 1..Len(k2)
        BY <1>2, <2>1
      <4> QED BY <2>2, <4>2, <4>3
    <3> QED BY <3>1, <3>2
  <2>7. Len(k2) <= n + 1
    BY <1>2, <2>1
  <2>8. ASSUME NEW m \in 1..(n + 1), s[m] \notin S PROVE Len(k2) < n + 1
    <3>1. m \in 1..n
      BY <1>3, <2>8
    <3> QED BY <1>2, <2>1, <2>8, <3>1
  <2>9. PicksOf(k2, s, n + 1, S)
    BY <2>2, <2>4, <2>5, <2>6, <2>7, <2>8 DEF PicksOf, Picks
  <2> QED BY <1>3, <2>9 DEF k2
<1>4. CASE s[n + 1] \notin S
  <2>1. g \in [1..Len(k) -> 1..(n + 1)]
    OBVIOUS
  <2>2. \A m \in 1..(n + 1) : s[m] \in S => m \in 1..n
    BY <1>4
  <2>3. Picks(k, s, n + 1, S, g)
    BY <1>1, <2>2 DEF Picks
  <2>4. Len(k) < n + 1
    BY <1>2
  <2> QED BY <1>4, <2>1, <2>3, <2>4 DEF PicksOf
<1> QED BY <1>3, <1>4

\* What Kept returns, for any sequence and any set.
LEMMA KeptFacts ==
    ASSUME NEW T, NEW s \in Seq(T), NEW S
    PROVE  Kept(s, S) \in Seq(T) /\ PicksOf(Kept(s, S), s, Len(s), S)
<1> DEFINE N == Len(s)
           D == Seq(T)
           With1(n, x) == IF s[n] \in S THEN Append(x, s[n]) ELSE x
           base == <<>>
           step == [n \in 1..N |-> [x \in D |-> With1(n, x)]]
           Body(f) == [n \in 0..N |-> IF n = 0 THEN base ELSE With1(n, f[n - 1])]
           kept == CHOOSE f : f = Body(f)
<1>1. N \in Nat
  OBVIOUS
<1>2. base \in D
  OBVIOUS
<1>3. ASSUME NEW n \in 1..N, NEW x \in D
      PROVE  With1(n, x) \in D
  <2>1. s[n] \in T
    OBVIOUS
  <2>2. Append(x, s[n]) \in D
    BY <2>1
  <2> QED BY <2>2
<1>4. StepsWithin(N, D, step)
  BY <1>3 DEF StepsWithin
<1> HIDE DEF base
<1>5. PICK f \in [0..N -> D] : FollowsSteps(f, N, base, step)
  <2> HIDE DEF step, N, D
  <2> QED BY <1>1, <1>2, <1>4, StepsDefineAFunction
<1>6. f = Body(f)
  <2>1. ASSUME NEW n \in 1..N
        PROVE  step[n][f[n - 1]] = With1(n, f[n - 1])
    <3>1. f[n - 1] \in D
      OBVIOUS
    <3> HIDE DEF D
    <3> QED BY <3>1
  <2> HIDE DEF N, With1, step, D
  <2>2. f[0] = base /\ \A n \in 1..N : f[n] = With1(n, f[n - 1])
    BY <1>5, <2>1 DEF FollowsSteps
  <2>3. \A n \in 0..N : f[n] = IF n = 0 THEN base ELSE With1(n, f[n - 1])
    BY <1>1, <2>2
  <2> QED BY <2>3
<1>7. kept = Body(kept)
  BY <1>6
<1> HIDE DEF kept
<1>8. /\ kept[0] = base
      /\ \A n \in 1..N : kept[n] = With1(n, kept[n - 1])
  <2> DEFINE value(n) == IF n = 0 THEN base ELSE With1(n, kept[n - 1])
  <2> HIDE DEF N
  <2>1. \A n \in 0..N : kept[n] = value(n)
    BY <1>7
  <2> QED BY <1>1, <2>1
<1>9. \A n \in Nat : n \in 0..N => kept[n] \in D /\ PicksOf(kept[n], s, n, S)
  <2> DEFINE I == {n \in Nat : n \in 0..N => kept[n] \in D /\ PicksOf(kept[n], s, n, S)}
  <2>1. 0 \in I
    <3>1. PICK e : e = kept[0]
      OBVIOUS
    <3>2. Len(e) = 0
      BY <1>8, <3>1 DEF base
    <3>3. PICK g : g = [i \in 1..0 |-> 0]
      OBVIOUS
    <3>4. g \in [1..0 -> 1..0]
      BY <3>3
    <3>5. Picks(e, s, 0, S, g)
      BY <3>2 DEF Picks
    <3>6. PicksOf(e, s, 0, S)
      BY <3>2, <3>4, <3>5 DEF PicksOf
    <3> QED BY <1>2, <1>8, <3>1, <3>6
  <2>2. ASSUME NEW n \in Nat, n \in I
        PROVE  n + 1 \in I
    <3>1. SUFFICES ASSUME n + 1 \in 0..N
                   PROVE  kept[n + 1] \in D /\ PicksOf(kept[n + 1], s, n + 1, S)
      OBVIOUS
    <3>2. kept[n] \in D /\ PicksOf(kept[n], s, n, S) /\ n + 1 \in 1..N /\ n + 1 <= Len(s)
      BY <2>2, <3>1
    <3>3. kept[n + 1] = With1(n + 1, kept[n])
      BY <1>8, <3>2
    <3>4. kept[n + 1] \in D
      BY <1>3, <3>2, <3>3
    <3>5. /\ s[n + 1] \in S => PicksOf(Append(kept[n], s[n + 1]), s, n + 1, S)
          /\ s[n + 1] \notin S => PicksOf(kept[n], s, n + 1, S)
      BY <3>2, PicksOneMore
    <3> QED BY <3>3, <3>4, <3>5
  <2> HIDE DEF I
  <2>3. Nat \subseteq I
    BY <2>1, <2>2, SetInduction
  <2> QED BY <2>3 DEF I
<1>10. Kept(s, S) = kept[N]
  BY DEF Kept, kept, base
<1> QED BY <1>1, <1>9, <1>10

-----------------------------------------------------------------------------
(* The entries of a store, and the order in which they were used. *)

Distinct(s) == \A i, j \in 1..Len(s) : s[i].key = s[j].key => i = j

\* A part of the entries, and what it is of them.
LEMMA KeptEntries ==
    ASSUME NEW s \in Seq(Entries), Distinct(s), NEW S
    PROVE  /\ Kept(s, S) \in Seq(Entries) /\ Distinct(Kept(s, S))
           /\ Len(Kept(s, S)) <= Len(s)
           /\ \A i \in 1..Len(Kept(s, S)) :
                Kept(s, S)[i] \in S /\ \E m \in 1..Len(s) : Kept(s, S)[i] = s[m]
           /\ \A m \in 1..Len(s) : s[m] \in S => \E i \in 1..Len(Kept(s, S)) : Kept(s, S)[i] = s[m]
           /\ (\E m \in 1..Len(s) : s[m] \notin S) => Len(Kept(s, S)) < Len(s)
<1>1. PICK k : k = Kept(s, S)
  OBVIOUS
<1>2. k \in Seq(Entries) /\ PicksOf(k, s, Len(s), S)
  BY <1>1, KeptFacts
<1>3. PICK g \in [1..Len(k) -> 1..Len(s)] : Picks(k, s, Len(s), S, g)
  BY <1>2 DEF PicksOf
<1>4. Distinct(k)
  <2>1. SUFFICES ASSUME NEW i \in 1..Len(k), NEW j \in 1..Len(k), k[i].key = k[j].key
                 PROVE  i = j
    BY DEF Distinct
  <2>2. k[i] = s[g[i]] /\ k[j] = s[g[j]]
    BY <1>3 DEF Picks
  <2>3. g[i] = g[j]
    <3>1. g[i] \in 1..Len(s) /\ g[j] \in 1..Len(s)
      OBVIOUS
    <3> QED BY <2>1, <2>2, <3>1 DEF Distinct
  <2>4. ~(i < j) /\ ~(j < i)
    BY <1>3, <2>3 DEF Picks
  <2> QED BY <2>4
<1>5. \A i \in 1..Len(k) : k[i] \in S /\ \E m \in 1..Len(s) : k[i] = s[m]
  <2>1. SUFFICES ASSUME NEW i \in 1..Len(k) PROVE k[i] \in S /\ \E m \in 1..Len(s) : k[i] = s[m]
    OBVIOUS
  <2>2. g[i] \in 1..Len(s) /\ k[i] = s[g[i]] /\ k[i] \in S
    BY <1>3 DEF Picks
  <2> QED BY <2>2
<1>6. \A m \in 1..Len(s) : s[m] \in S => \E i \in 1..Len(k) : k[i] = s[m]
  <2>1. SUFFICES ASSUME NEW m \in 1..Len(s), s[m] \in S
                 PROVE  \E i \in 1..Len(k) : k[i] = s[m]
    OBVIOUS
  <2>2. PICK i \in 1..Len(k) : g[i] = m
    BY <1>3, <2>1 DEF Picks
  <2>3. k[i] = s[g[i]]
    BY <1>3 DEF Picks
  <2> QED BY <2>2, <2>3
<1>7. Len(k) <= Len(s) /\ ((\E m \in 1..Len(s) : s[m] \notin S) => Len(k) < Len(s))
  BY <1>2 DEF PicksOf
<1> QED BY <1>1, <1>2, <1>4, <1>5, <1>6, <1>7

\* What an entry consists of.
LEMMA EntryHas ==
    ASSUME NEW e \in Entries
    PROVE  /\ e.key \in Prompts /\ e.embedding \in Vectors \union {None}
           /\ e.expires \in Nat \union {None} /\ e.hits \in Nat /\ e.created \in Nat
BY DEF Entries

\* The keys of s were used in the order in which they are in r, the last used last.
Ordered(s, r) ==
    /\ \A i \in 1..Len(s) : \E a \in 1..Len(r) : r[a] = s[i].key
    /\ \A i, j \in 1..Len(s) : i < j =>
          \E a, b \in 1..Len(r) : a < b /\ r[a] = s[i].key /\ r[b] = s[j].key

\* Part of them were used in that order too.
LEMMA KeptIsOrdered ==
    ASSUME NEW s \in Seq(Entries), NEW S, NEW r, Ordered(s, r)
    PROVE  Ordered(Kept(s, S), r)
<1>1. PICK k : k = Kept(s, S)
  OBVIOUS
<1>2. k \in Seq(Entries) /\ PicksOf(k, s, Len(s), S)
  BY <1>1, KeptFacts
<1>3. PICK g \in [1..Len(k) -> 1..Len(s)] : Picks(k, s, Len(s), S, g)
  BY <1>2 DEF PicksOf
<1>4. \A i \in 1..Len(k) : g[i] \in 1..Len(s) /\ k[i] = s[g[i]]
  BY <1>3 DEF Picks
<1>5. \A i, j \in 1..Len(k) : i < j => g[i] < g[j]
  BY <1>3 DEF Picks
<1>6. ASSUME NEW i \in 1..Len(k)
      PROVE  \E a \in 1..Len(r) : r[a] = k[i].key
  <2>1. \E a \in 1..Len(r) : r[a] = s[g[i]].key
    BY <1>4 DEF Ordered
  <2> QED BY <1>4, <2>1
<1>7. ASSUME NEW i \in 1..Len(k), NEW j \in 1..Len(k), i < j
      PROVE  \E a, b \in 1..Len(r) : a < b /\ r[a] = k[i].key /\ r[b] = k[j].key
  <2>1. g[i] \in 1..Len(s) /\ g[j] \in 1..Len(s) /\ g[i] < g[j]
    BY <1>4, <1>5, <1>7
  <2>2. \E a, b \in 1..Len(r) : a < b /\ r[a] = s[g[i]].key /\ r[b] = s[g[j]].key
    BY <2>1 DEF Ordered
  <2> QED BY <1>4, <2>2
<1> QED BY <1>1, <1>6, <1>7 DEF Ordered

\* So were those from some place on.
LEMMA SuffixIsOrdered ==
    ASSUME NEW s \in Seq(Entries), NEW r, Ordered(s, r), NEW d \in Nat,
           NEW u \in Seq(Entries), Len(u) = Len(s) - d, \A i \in 1..Len(u) : u[i] = s[d + i]
    PROVE  Ordered(u, r)
<1>1. \A i \in 1..Len(u) : d + i \in 1..Len(s) /\ u[i] = s[d + i]
  OBVIOUS
<1>2. ASSUME NEW i \in 1..Len(u)
      PROVE  \E a \in 1..Len(r) : r[a] = u[i].key
  <2>1. \E a \in 1..Len(r) : r[a] = s[d + i].key
    BY <1>1 DEF Ordered
  <2> QED BY <1>1, <2>1
<1>3. ASSUME NEW i \in 1..Len(u), NEW j \in 1..Len(u), i < j
      PROVE  \E a, b \in 1..Len(r) : a < b /\ r[a] = u[i].key /\ r[b] = u[j].key
  <2>1. d + i \in 1..Len(s) /\ d + j \in 1..Len(s) /\ d + i < d + j
    BY <1>1, <1>3
  <2>2. \E a, b \in 1..Len(r) : a < b /\ r[a] = s[d + i].key /\ r[b] = s[d + j].key
    BY <2>1 DEF Ordered
  <2>3. u[i] = s[d + i] /\ u[j] = s[d + j]
    BY <1>1
  <2> QED BY <2>2, <2>3
<1> QED BY <1>2, <1>3 DEF Ordered

\* Members of a part come in the order in which they came before.
LEMMA OrderIsKept ==
    ASSUME NEW T, NEW s \in Seq(T), NEW S,
           NEW a \in 1..Len(s), NEW b \in 1..Len(s), a < b, s[a] \in S, s[b] \in S
    PROVE  \E i, j \in 1..Len(Kept(s, S)) : i < j /\ Kept(s, S)[i] = s[a] /\ Kept(s, S)[j] = s[b]
<1>1. PICK k : k = Kept(s, S)
  OBVIOUS
<1>2. k \in Seq(T) /\ PicksOf(k, s, Len(s), S)
  BY <1>1, KeptFacts
<1>3. PICK g \in [1..Len(k) -> 1..Len(s)] : Picks(k, s, Len(s), S, g)
  BY <1>2 DEF PicksOf
<1>4. PICK i \in 1..Len(k), j \in 1..Len(k) : g[i] = a /\ g[j] = b
  BY <1>3 DEF Picks
<1>5. k[i] = s[a] /\ k[j] = s[b]
  BY <1>3, <1>4 DEF Picks
<1>6. ~(j < i) /\ i # j
  <2>1. j < i => g[j] < g[i]
    BY <1>3 DEF Picks
  <2> QED BY <1>4, <2>1
<1> QED BY <1>1, <1>4, <1>5, <1>6

\* What is used becomes the last, in the store as in the order of use.
LEMMA UsedIsOrdered ==
    ASSUME NEW s \in Seq(Entries), NEW r \in Seq(Prompts), Ordered(s, r),
           NEW k \in Seq(Entries), NEW e \in Entries, NEW r2,
           \A i \in 1..Len(k) : k[i].key # e.key, Ordered(k, r),
           r2 = Append(Kept(r, Prompts \ {e.key}), e.key)
    PROVE  Ordered(Append(k, e), r2) /\ r2 \in Seq(Prompts)
<1>1. e.key \in Prompts /\ \A i \in 1..Len(k) : k[i] \in Entries /\ k[i].key \in Prompts
  <2>1. \A i \in 1..Len(k) : k[i] \in Entries
    OBVIOUS
  <2> QED BY <2>1, EntryHas
<1>2. PICK q : q = Kept(r, Prompts \ {e.key})
  OBVIOUS
<1>3. q \in Seq(Prompts)
  BY <1>2, KeptFacts
<1>4. /\ r2 \in Seq(Prompts) /\ Len(r2) = Len(q) + 1 /\ r2[Len(q) + 1] = e.key
      /\ \A a \in 1..Len(q) : a \in 1..Len(r2) /\ r2[a] = q[a]
  BY <1>1, <1>2, <1>3
<1>5. PICK u : u = Append(k, e)
  OBVIOUS
<1>6. /\ Len(u) = Len(k) + 1 /\ u[Len(k) + 1] = e
      /\ \A i \in 1..Len(k) : u[i] = k[i]
      /\ \A i \in 1..Len(u) : i \in 1..Len(k) \/ i = Len(k) + 1
  BY <1>5
<1>7. ASSUME NEW i \in 1..Len(k)
      PROVE  \E a \in 1..Len(q) : q[a] = k[i].key
  <2>1. PICK a \in 1..Len(r) : r[a] = k[i].key
    BY DEF Ordered
  <2>2. r[a] \in Prompts \ {e.key}
    BY <1>1, <2>1
  <2>3. PicksOf(q, r, Len(r), Prompts \ {e.key})
    BY <1>2, KeptFacts
  <2>4. PICK g \in [1..Len(q) -> 1..Len(r)] : Picks(q, r, Len(r), Prompts \ {e.key}, g)
    BY <2>3 DEF PicksOf
  <2> QED BY <2>1, <2>2, <2>4 DEF Picks
<1>8. ASSUME NEW i \in 1..Len(k), NEW j \in 1..Len(k), i < j
      PROVE  \E a, b \in 1..Len(q) : a < b /\ q[a] = k[i].key /\ q[b] = k[j].key
  <2>1. PICK a \in 1..Len(r), b \in 1..Len(r) : a < b /\ r[a] = k[i].key /\ r[b] = k[j].key
    BY <1>8 DEF Ordered
  <2>2. r[a] \in Prompts \ {e.key} /\ r[b] \in Prompts \ {e.key}
    BY <1>1, <2>1
  <2>3. PICK S : S = Prompts \ {e.key}
    OBVIOUS
  <2>4. r[a] \in S /\ r[b] \in S
    BY <2>2, <2>3
  <2>5. \E i2, j2 \in 1..Len(Kept(r, S)) :
           i2 < j2 /\ Kept(r, S)[i2] = r[a] /\ Kept(r, S)[j2] = r[b]
    BY <2>1, <2>4, OrderIsKept
  <2>6. Kept(r, S) = q
    BY <1>2, <2>3
  <2> QED BY <2>1, <2>5, <2>6
<1>9. Len(q) + 1 \in 1..Len(r2) /\ Len(q) \in Nat /\ \A a \in 1..Len(q) : a < Len(q) + 1
  BY <1>3, <1>4
<1>10. \A i \in 1..Len(u) : \E a \in 1..Len(r2) : r2[a] = u[i].key
  <2>1. SUFFICES ASSUME NEW i \in 1..Len(u) PROVE \E a \in 1..Len(r2) : r2[a] = u[i].key
    OBVIOUS
  <2>2. CASE i = Len(k) + 1
    BY <1>4, <1>6, <1>9, <2>2
  <2>3. CASE i \in 1..Len(k)
    <3>1. PICK a \in 1..Len(q) : q[a] = k[i].key
      BY <1>7, <2>3
    <3> QED BY <1>4, <1>6, <2>3, <3>1
  <2> QED BY <1>6, <2>2, <2>3
<1>11. \A i, j \in 1..Len(u) : i < j =>
          \E a, b \in 1..Len(r2) : a < b /\ r2[a] = u[i].key /\ r2[b] = u[j].key
  <2>1. SUFFICES ASSUME NEW i \in 1..Len(u), NEW j \in 1..Len(u), i < j
                 PROVE  \E a, b \in 1..Len(r2) : a < b /\ r2[a] = u[i].key /\ r2[b] = u[j].key
    OBVIOUS
  <2>2. i \in 1..Len(k)
    BY <1>6, <2>1
  <2>3. CASE j = Len(k) + 1
    <3>1. PICK a \in 1..Len(q) : q[a] = k[i].key
      BY <1>7, <2>2
    <3>2. PICK b : b = Len(q) + 1
      OBVIOUS
    <3>3. a \in 1..Len(r2) /\ b \in 1..Len(r2) /\ a < b
      BY <1>4, <1>9, <3>2
    <3>4. r2[a] = u[i].key /\ r2[b] = u[j].key
      BY <1>4, <1>6, <2>2, <2>3, <3>1, <3>2
    <3> QED BY <3>3, <3>4
  <2>4. CASE j \in 1..Len(k)
    <3>1. PICK a \in 1..Len(q), b \in 1..Len(q) : a < b /\ q[a] = k[i].key /\ q[b] = k[j].key
      BY <1>8, <2>1, <2>2, <2>4
    <3>2. a \in 1..Len(r2) /\ b \in 1..Len(r2)
      BY <1>4, <1>9
    <3>3. r2[a] = u[i].key /\ r2[b] = u[j].key
      BY <1>4, <1>6, <2>2, <2>4, <3>1
    <3> QED BY <3>1, <3>2, <3>3
  <2> QED BY <1>6, <2>3, <2>4
<1>12. Ordered(u, r2)
  BY <1>10, <1>11 DEF Ordered
<1> QED BY <1>4, <1>5, <1>12

-----------------------------------------------------------------------------
(* What the store does with its entries. *)

\* The entry of a key is one of those in the store.
LEMMA EntryOfAKey ==
    ASSUME cache \in Seq(Entries), NEW p \in Keys
    PROVE  /\ EntryOf(p) \in Entries /\ EntryOf(p).key = p
           /\ \E i \in 1..Len(cache) : cache[i] = EntryOf(p)
<1>1. PICK i \in 1..Len(cache) : cache[i].key = p
  BY DEF Keys
<1>2. cache[i] \in ToSet(cache)
  BY DEF ToSet
<1>3. EntryOf(p) \in ToSet(cache) /\ EntryOf(p).key = p
  BY <1>1, <1>2 DEF EntryOf
<1>4. \E j \in 1..Len(cache) : cache[j] = EntryOf(p)
  BY <1>3 DEF ToSet
<1> QED BY <1>3, <1>4

\* No other entry has that key.
LEMMA EntryOfItsKey ==
    ASSUME cache \in Seq(Entries), Distinct(cache), NEW i \in 1..Len(cache)
    PROVE  cache[i].key \in Keys /\ EntryOf(cache[i].key) = cache[i]
<1>1. cache[i].key \in Keys
  BY DEF Keys
<1>2. PICK j \in 1..Len(cache) : cache[j] = EntryOf(cache[i].key) /\ cache[j].key = cache[i].key
  BY <1>1, EntryOfAKey
<1>3. j = i
  BY <1>2 DEF Distinct
<1> QED BY <1>1, <1>2, <1>3

\* Every member of s is one of t.
PartOf(s, t) == \A i \in 1..Len(s) : \E m \in 1..Len(t) : s[i] = t[m]

\* The entries of all other keys.
LEMMA WithoutAKey ==
    ASSUME cache \in Seq(Entries), Distinct(cache), NEW p
    PROVE  /\ Without(p) \in Seq(Entries) /\ Distinct(Without(p)) /\ PartOf(Without(p), cache)
           /\ Len(Without(p)) <= Len(cache)
           /\ p \in Keys => Len(Without(p)) < Len(cache)
           /\ \A i \in 1..Len(Without(p)) : Without(p)[i].key # p
           /\ \A m \in 1..Len(cache) : cache[m].key # p =>
                 \E i \in 1..Len(Without(p)) : Without(p)[i] = cache[m]
<1>1. PICK S : S = {e \in ToSet(cache) : e.key # p}
  OBVIOUS
<1>2. Without(p) = Kept(cache, S)
  BY <1>1 DEF Without
<1>3. PICK k : k = Kept(cache, S)
  OBVIOUS
<1>4. \A m \in 1..Len(cache) : cache[m] \in S <=> cache[m].key # p
  BY <1>1 DEF ToSet
<1>5. /\ k \in Seq(Entries) /\ Distinct(k) /\ Len(k) <= Len(cache)
      /\ \A i \in 1..Len(k) : k[i] \in S /\ \E m \in 1..Len(cache) : k[i] = cache[m]
      /\ \A m \in 1..Len(cache) : cache[m] \in S => \E i \in 1..Len(k) : k[i] = cache[m]
      /\ (\E m \in 1..Len(cache) : cache[m] \notin S) => Len(k) < Len(cache)
  BY <1>3, KeptEntries
<1>6. p \in Keys => \E m \in 1..Len(cache) : cache[m] \notin S
  BY <1>4 DEF Keys
<1>7. \A i \in 1..Len(k) : k[i].key # p
  BY <1>1, <1>5
<1> QED BY <1>2, <1>3, <1>4, <1>5, <1>6, <1>7 DEF PartOf

\* One entry more, of a new key.
LEMMA OneMoreEntry ==
    ASSUME NEW k \in Seq(Entries), Distinct(k), NEW e \in Entries,
           \A i \in 1..Len(k) : k[i].key # e.key
    PROVE  /\ Append(k, e) \in Seq(Entries) /\ Distinct(Append(k, e))
           /\ Len(Append(k, e)) = Len(k) + 1
           /\ \A i \in 1..Len(Append(k, e)) :
                 Append(k, e)[i] = e \/ \E m \in 1..Len(k) : Append(k, e)[i] = k[m]
<1>1. PICK u : u = Append(k, e)
  OBVIOUS
<1>2. /\ u \in Seq(Entries) /\ Len(u) = Len(k) + 1 /\ u[Len(k) + 1] = e
      /\ \A i \in 1..Len(k) : u[i] = k[i]
      /\ \A i \in 1..Len(u) : i \in 1..Len(k) \/ i = Len(k) + 1
  BY <1>1
<1>3. Distinct(u)
  <2>1. SUFFICES ASSUME NEW i \in 1..Len(u), NEW j \in 1..Len(u), u[i].key = u[j].key
                 PROVE  i = j
    BY DEF Distinct
  <2>2. CASE i \in 1..Len(k) /\ j \in 1..Len(k)
    BY <1>2, <2>1, <2>2 DEF Distinct
  <2>3. CASE i \in 1..Len(k) /\ j = Len(k) + 1
    BY <1>2, <2>1, <2>3
  <2>4. CASE j \in 1..Len(k) /\ i = Len(k) + 1
    BY <1>2, <2>1, <2>4
  <2> QED BY <1>2, <2>2, <2>3, <2>4
<1>4. \A i \in 1..Len(u) : u[i] = e \/ \E m \in 1..Len(k) : u[i] = k[m]
  BY <1>2
<1> QED BY <1>1, <1>2, <1>3, <1>4

\* The LRU store drops what is too much, from the old end.
LEMMA NewestFacts ==
    ASSUME NEW s \in Seq(Entries)
    PROVE  \E d \in Nat :
              /\ Newest(s) \in Seq(Entries) /\ Len(Newest(s)) = Len(s) - d
              /\ Len(Newest(s)) <= MaxEntries
              /\ d > 0 => Len(Newest(s)) = MaxEntries
              /\ \A i \in 1..Len(Newest(s)) : Newest(s)[i] = s[d + i]
<1>1. MaxEntries \in Nat \ {0} /\ Len(s) \in Nat
  BY CacheAssumption
<1>2. PICK d : d = IF Len(s) > MaxEntries THEN Len(s) - MaxEntries ELSE 0
  OBVIOUS
<1>3. d \in Nat /\ d <= Len(s) /\ Len(s) - d <= MaxEntries /\ (d > 0 => Len(s) - d = MaxEntries)
  BY <1>1, <1>2
<1>4. Newest(s) = SubSeq(s, d + 1, Len(s))
  BY <1>1, <1>2 DEF Newest
<1>5. PICK t : t = SubSeq(s, d + 1, Len(s))
  OBVIOUS
<1>6. /\ t \in Seq(Entries) /\ Len(t) = Len(s) - d
      /\ \A i \in 1..Len(t) : t[i] = s[d + i]
  <2>1. d + 1 \in Int /\ Len(s) \in Int /\ \A i \in (d + 1)..Len(s) : s[i] \in Entries
    BY <1>3
  <2>2. /\ SubSeq(s, d + 1, Len(s)) \in Seq(Entries)
        /\ Len(SubSeq(s, d + 1, Len(s))) = IF d + 1 <= Len(s) THEN Len(s) - (d + 1) + 1 ELSE 0
        /\ \A i \in 1..(Len(s) - (d + 1) + 1) : SubSeq(s, d + 1, Len(s))[i] = s[d + 1 + i - 1]
    BY <2>1, SubSeqProperties
  <2>3. Len(t) = Len(s) - d
    BY <1>1, <1>3, <1>5, <2>2
  <2>4. ASSUME NEW i \in 1..Len(t) PROVE t[i] = s[d + i]
    <3>1. i \in 1..(Len(s) - (d + 1) + 1) /\ d + 1 + i - 1 = d + i
      BY <1>1, <1>3, <2>3
    <3> QED BY <1>5, <2>2, <3>1
  <2> QED BY <1>5, <2>2, <2>3, <2>4
<1> QED BY <1>3, <1>4, <1>5, <1>6

-----------------------------------------------------------------------------
(* What a search settles on. *)

\* What a search may find in the store for a group.
LEMMA CandidatesFacts ==
    ASSUME cache \in Seq(Entries), NEW group, NEW limit \in Nat
    PROVE  /\ Candidates(group, limit) \in Seq(Entries)
           /\ \A i \in 1..Len(Candidates(group, limit)) :
                /\ \E m \in 1..Len(cache) : Candidates(group, limit)[i] = cache[m]
                /\ Candidates(group, limit)[i].group = group
                /\ Candidates(group, limit)[i].embedding # None
                /\ ~Expired(Candidates(group, limit)[i])
<1>1. PICK S : S = {e \in ToSet(cache) : e.group = group /\ e.embedding # None /\ ~Expired(e)}
  OBVIOUS
<1>2. PICK r : r = Reverse(cache)
  OBVIOUS
<1>3. r \in Seq(Entries)
  <2>1. \A i \in 1..Len(cache) : Len(cache) - i + 1 \in 1..Len(cache)
    OBVIOUS
  <2>2. \A i \in 1..Len(cache) : cache[Len(cache) - i + 1] \in Entries
    BY <2>1
  <2>3. r = [i \in 1..Len(cache) |-> cache[Len(cache) - i + 1]]
    BY <1>2 DEF Reverse
  <2> QED BY <2>2, <2>3
<1>4. PICK f : f = Kept(r, S)
  OBVIOUS
<1>5. f \in Seq(Entries) /\ PicksOf(f, r, Len(r), S)
  BY <1>3, <1>4, KeptFacts
<1>6. \A i \in 1..Len(f) : f[i] \in S
  BY <1>5 DEF PicksOf, Picks
<1>7. PICK n : n = IF Len(f) < limit THEN Len(f) ELSE limit
  OBVIOUS
<1>8. n \in Nat /\ n <= Len(f)
  BY <1>5, <1>7
<1>9. Candidates(group, limit) = SubSeq(f, 1, n)
  BY <1>1, <1>2, <1>4, <1>7 DEF Candidates
<1>10. PICK t : t = SubSeq(f, 1, n)
  OBVIOUS
<1>11. t \in Seq(Entries) /\ \A i \in 1..Len(t) : t[i] \in S
  <2>1. \A i \in 1..n : f[i] \in S /\ f[i] \in Entries
    BY <1>5, <1>6, <1>8
  <2>2. t \in Seq(Entries)
    BY <1>8, <1>10, <2>1, SubSeqProperties
  <2>3. t \in Seq(S)
    BY <1>8, <1>10, <2>1, SubSeqProperties
  <2> QED BY <2>2, <2>3
<1>12. \A e \in S : \E m \in 1..Len(cache) : e = cache[m]
  BY <1>1 DEF ToSet
<1> QED BY <1>1, <1>9, <1>10, <1>11, <1>12

\* Among finitely many numbers there is a first greatest one.
LEMMA FirstGreatest ==
    ASSUME NEW N \in Nat \ {0}, NEW f, \A i \in 1..N : f[i] \in Int
    PROVE  \E i \in 1..N : /\ \A j \in 1..N : f[j] <= f[i]
                           /\ \A j \in 1..(i - 1) : f[j] < f[i]
<1> DEFINE Greatest(n, i) == /\ \A j \in 1..n : f[j] <= f[i]
                             /\ \A j \in 1..(i - 1) : f[j] < f[i]
           I == {n \in Nat : n \in 1..N => \E i \in 1..n : Greatest(n, i)}
<1>1. 0 \in I
  OBVIOUS
<1>2. ASSUME NEW n \in Nat, n \in I
      PROVE  n + 1 \in I
  <2>1. SUFFICES ASSUME n + 1 \in 1..N PROVE \E i \in 1..(n + 1) : Greatest(n + 1, i)
    OBVIOUS
  <2>2. CASE n = 0
    <3>1. 1 \in 1..(n + 1) /\ Greatest(n + 1, 1)
      BY <2>1, <2>2
    <3> QED BY <3>1
  <2>3. CASE n # 0
    <3>1. PICK i \in 1..n : Greatest(n, i)
      BY <1>2, <2>1, <2>3
    <3>2. f[i] \in Int /\ f[n + 1] \in Int /\ \A j \in 1..n : f[j] \in Int
      BY <2>1
    <3>3. CASE f[n + 1] <= f[i]
      <4>1. Greatest(n + 1, i)
        BY <3>1, <3>2, <3>3
      <4> QED BY <4>1
    <3>4. CASE ~(f[n + 1] <= f[i])
      <4>1. \A j \in 1..n : f[j] < f[n + 1]
        BY <3>1, <3>2, <3>4
      <4>2. Greatest(n + 1, n + 1)
        BY <3>2, <4>1
      <4> QED BY <4>2
    <3> QED BY <3>3, <3>4
  <2> QED BY <2>2, <2>3
<1>3. N \in I
  <2> HIDE DEF I
  <2> QED BY <1>1, <1>2, SetInduction
<1> QED BY <1>3

\* The best candidate is one of them.
LEMMA BestIsACandidate ==
    ASSUME NEW c, NEW found \in Seq(Entries), found # <<>>,
           \A i \in 1..Len(found) : Score(c, found[i]) \in Int
    PROVE  \E i \in 1..Len(found) : Best(c, found) = found[i]
<1> DEFINE scores == [i \in DOMAIN found |-> Score(c, found[i])]
           First(i) == /\ \A j \in DOMAIN scores : scores[j] <= scores[i]
                       /\ \A j \in 1..(i - 1) : scores[j] < scores[i]
<1>1. DOMAIN scores = 1..Len(found)
  OBVIOUS
<1>2. \A i \in 1..Len(found) : scores[i] \in Int
  OBVIOUS
<1>3. Len(found) \in Nat \ {0}
  OBVIOUS
<1>4. Best(c, found) = found[CHOOSE i \in DOMAIN scores : First(i)]
  BY DEF Best
<1> HIDE DEF scores
<1>5. \E i \in DOMAIN scores : First(i)
  BY <1>1, <1>2, <1>3, FirstGreatest
<1>6. (CHOOSE i \in DOMAIN scores : First(i)) \in 1..Len(found)
  BY <1>1, <1>5
<1> QED BY <1>4, <1>6

-----------------------------------------------------------------------------
(* The inductive invariant. *)

Members == [key : Prompts, created : Nat]

\* What a call reads for its next command.
Readings == Members \union Prompts \union Groups \union {None}

CallTypes ==
    /\ phase \in [Calls -> Phases]
    /\ prompt \in [Calls -> Prompts \union {None}]
    /\ config \in [Calls -> Configs \union {None}]
    /\ embedding \in [Calls -> Vectors \union {None}]
    /\ entry \in [Calls -> Entries \union {None}]
    /\ lookedAt \in [Calls -> Nat]
    /\ held \in [Calls -> SUBSET Readings]

Embedded(c) == embedding[c] = <<config[c].embedder, prompt[c].text>>

\* e answers what is similar enough to the question of c.
AnswersSimilar(c, e) ==
    /\ config[c].semantic
    /\ e.key.group = prompt[c].group
    /\ Embedded(c)
    /\ e.embedding \in Vectors /\ e.embedding[2] = e.key.text
    /\ Similarity[<<embedding[c], e.embedding>>] >= config[c].threshold

LookedInTime(c, e) == e.expires = None \/ lookedAt[c] < e.expires

\* The vector of an entry is one of the text it is kept for.
VectorOfItsText(e) == e.embedding = None \/ e.embedding[2] = e.key.text

\* What has been established by the time a call is at a step.
CallOK(c) ==
    /\ phase[c] # "new" => prompt[c] \in Prompts /\ config[c] \in Configs
    /\ phase[c] \in {"embed", "match", "fetch", "prune", "hit"} =>
          config[c].semantic /\ prompt[c].group # None
    /\ phase[c] = "new" => embedding[c] = None
    /\ embedding[c] = None \/ Embedded(c)
    /\ phase[c] \in {"match", "fetch"} => Embedded(c)
    /\ phase[c] \in {"new", "read", "embed", "match", "call", "failed"} => entry[c] = None
    /\ phase[c] \in {"count", "hit", "write", "served", "answered"} => entry[c] \in Entries
    /\ phase[c] = "count" => entry[c].key = prompt[c]
    /\ phase[c] = "hit" => AnswersSimilar(c, entry[c])
    /\ phase[c] = "prune" /\ entry[c] # None =>
          AnswersSimilar(c, entry[c]) /\ LookedInTime(c, entry[c])
    /\ phase[c] = "served" => entry[c].key = prompt[c] \/ AnswersSimilar(c, entry[c])
    /\ phase[c] \in {"count", "hit", "served"} => LookedInTime(c, entry[c])
    /\ phase[c] \in {"write", "answered"} =>
          /\ entry[c].key = prompt[c] /\ entry[c].group \in {prompt[c].group, None}
          /\ VectorOfItsText(entry[c])
    /\ phase[c] = "write" => ~entry[c].response.refused
    /\ phase[c] = "fetch" =>
          \A m \in held[c] : m \in Members /\ m.key.group = prompt[c].group

\* e is an answer some call got, or was left by an earlier one.
Sound(e) ==
    /\ ~e.response.refused
    /\ e.group \in {e.key.group, None}
    /\ VectorOfItsText(e)
    /\ \/ \E c \in Calls : /\ phase[c] = "answered"
                           /\ prompt[c] = e.key
                           /\ entry[c].response = e.response
       \/ \E s \in Earlier : \E i \in DOMAIN s :
             s[i].key = e.key /\ s[i].response = e.response

AllSound == \A i \in 1..Len(cache) : Sound(cache[i])

EntriesOK == cache \in Seq(Entries) /\ Distinct(cache) /\ recent \in Seq(Prompts)

UsedInOrder == store = "memory" => Len(cache) <= MaxEntries /\ Ordered(cache, recent)

Lists(members, g) ==
    /\ IsFiniteSet(members) /\ Cardinality(members) <= MaxGroupSize
    /\ \A m \in members : m \in Members /\ m.key.group = g
    /\ \A m, n \in members : m.key = n.key => m = n

IndexOK ==
    /\ index = [g \in Groups |-> index[g]]
    /\ \A g \in Groups : Lists(index[g], g)

Inv ==
    /\ now \in 0..MaxTime /\ store \in Stores
    /\ CallTypes /\ \A c \in Calls : CallOK(c)
    /\ EntriesOK /\ AllSound /\ UsedInOrder /\ IndexOK

-----------------------------------------------------------------------------
(* Steps of a call: what it has established. *)

Same(d) ==
    /\ phase'[d] = phase[d] /\ prompt'[d] = prompt[d] /\ config'[d] = config[d]
    /\ embedding'[d] = embedding[d] /\ entry'[d] = entry[d]
    /\ lookedAt'[d] = lookedAt[d] /\ held'[d] = held[d]

\* c makes a step, which none of the others notices.
Proceeds(c) ==
    /\ CallTypes' /\ phase[c] # "answered" /\ CallOK(c)'
    /\ \A d \in Calls : d # c => Same(d)

Calm == \A d \in Calls : Same(d)

\* The others have established what they had.
LEMMA OthersKeep ==
    ASSUME Inv, NEW c \in Calls, Proceeds(c)
    PROVE  /\ CallTypes' /\ \A d \in Calls : CallOK(d)'
           /\ \A e : Sound(e) => Sound(e)'
<1>1. ASSUME NEW d \in Calls, d # c
      PROVE  CallOK(d)'
  <2>1. Same(d) /\ CallOK(d)
    BY <1>1 DEF Proceeds, Inv
  <2> QED BY <2>1 DEF Same, CallOK, AnswersSimilar, LookedInTime, Embedded, VectorOfItsText
<1>2. ASSUME NEW e, Sound(e)
      PROVE  Sound(e)'
  <2>1. \A d \in Calls : phase[d] = "answered" => Same(d)
    BY DEF Proceeds
  <2> QED BY <1>2, <2>1 DEF Sound, Same
<1> QED BY <1>1, <1>2 DEF Proceeds

\* So have all when no call made a step.
LEMMA AllKeep ==
    ASSUME Inv, CallTypes', Calm
    PROVE  /\ \A d \in Calls : CallOK(d)'
           /\ \A e : Sound(e) => Sound(e)'
<1>1. ASSUME NEW d \in Calls
      PROVE  CallOK(d)'
  <2>1. Same(d) /\ CallOK(d)
    BY DEF Calm, Inv
  <2> QED BY <2>1 DEF Same, CallOK, AnswersSimilar, LookedInTime, Embedded, VectorOfItsText
<1>2. ASSUME NEW e, Sound(e)
      PROVE  Sound(e)'
  <2>1. \A d \in Calls : Same(d)
    BY DEF Calm
  <2> QED BY <1>2, <2>1 DEF Sound, Same
<1> QED BY <1>1, <1>2

\* A call begins.
LEMMA BeginProceeds ==
    ASSUME Inv, NEW c \in Calls, NEW p \in Prompts, NEW conf \in Configs, Begin(c, p, conf),
           held' = held
    PROVE  Proceeds(c)
<1> USE DEF Inv, CallTypes, Begin, Goto, local, history, Phases
<1>1. CallOK(c)
  OBVIOUS
<1>2. CallTypes' /\ \A d \in Calls : d # c => Same(d)
  BY DEF Same
<1>3. phase'[c] = "read" /\ prompt'[c] = p /\ config'[c] = conf /\ entry'[c] = None
  BY <1>1 DEF CallOK
<1>4. CallOK(c)'
  BY <1>3 DEF CallOK
<1> QED BY <1>2, <1>4 DEF Proceeds

\* A step that goes on without an entry, to the embedder or to the model.
LEMMA MissProceeds ==
    ASSUME Inv, NEW c \in Calls, phase[c] # "new", phase[c] # "answered",
           Missed(c), prompt' = prompt, config' = config, embedding' = embedding,
           lookedAt' \in [Calls -> Nat], \A d \in Calls : d # c => lookedAt'[d] = lookedAt[d],
           held' \in [Calls -> SUBSET Readings], \A d \in Calls : d # c => held'[d] = held[d]
    PROVE  Proceeds(c)
<1> USE DEF Inv, CallTypes, Missed, Goto, Phases
<1>1. CallOK(c) /\ prompt[c] \in Prompts /\ config[c] \in Configs
  BY DEF CallOK
<1>2. CallTypes' /\ \A d \in Calls : d # c => Same(d)
  BY DEF Same
<1>3. /\ phase'[c] = IF config[c].semantic /\ prompt[c].group # None THEN "embed" ELSE "call"
      /\ entry'[c] = None /\ prompt'[c] = prompt[c] /\ config'[c] = config[c]
      /\ embedding'[c] = embedding[c]
  OBVIOUS
<1>4. CallOK(c)'
  BY <1>1, <1>3 DEF CallOK, Embedded
<1> QED BY <1>2, <1>4 DEF Proceeds

\* The embedder runs, or fails.
LEMMA EmbedProceeds ==
    ASSUME Inv, NEW c \in Calls, held' = held,
           EmbedText(c) \/ EmbedFails(c) \/ EmbedderMissing(c)
    PROVE  Proceeds(c)
<1> USE DEF Inv, CallTypes, EmbedText, EmbedFails, EmbedderMissing, Goto, history, Phases
<1>1. /\ CallOK(c) /\ phase[c] = "embed" /\ prompt[c] \in Prompts /\ config[c] \in Configs
      /\ config[c].semantic /\ prompt[c].group # None /\ entry[c] = None
  BY DEF CallOK
<1>2. <<config[c].embedder, prompt[c].text>> \in Vectors
  BY <1>1 DEF Vectors
<1>3. CallTypes' /\ \A d \in Calls : d # c => Same(d)
  BY <1>2 DEF Same
<1>4. /\ phase'[c] \in {"match", "call", "failed"} /\ entry'[c] = entry[c]
      /\ prompt'[c] = prompt[c] /\ config'[c] = config[c]
      /\ phase'[c] = "match" => embedding'[c] = <<config[c].embedder, prompt[c].text>>
  OBVIOUS
<1>5. CallOK(c)'
  BY <1>1, <1>4 DEF CallOK, Embedded
<1> QED BY <1>1, <1>3, <1>5 DEF Proceeds

\* The model answers.
LEMMA AnswerProceeds ==
    ASSUME Inv, NEW c \in Calls, NEW answer \in Answers, Answer(c, answer), held' = held
    PROVE  Proceeds(c)
<1> USE DEF Inv, CallTypes, Answer, Goto, history, Phases
<1>1. /\ CallOK(c) /\ phase[c] = "call" /\ prompt[c] \in Prompts /\ config[c] \in Configs
      /\ now \in Nat /\ embedding[c] \in Vectors \union {None}
  BY CacheAssumption DEF CallOK
<1>2. PICK e : e = Entry(prompt[c], answer, embedding[c], config[c].ttl)
  OBVIOUS
<1>3. /\ e.key = prompt[c] /\ e.group \in {prompt[c].group, None} /\ e.response = answer
      /\ VectorOfItsText(e)
  <2>1. /\ e.key = prompt[c] /\ e.group \in {prompt[c].group, None} /\ e.response = answer
        /\ e.embedding = embedding[c]
    BY <1>2 DEF Entry
  <2>2. embedding[c] = None \/ embedding[c][2] = prompt[c].text
    BY <1>1 DEF CallOK, Embedded
  <2> QED BY <2>1, <2>2 DEF VectorOfItsText
<1>4. config[c].ttl \in Nat \union {None}
  BY <1>1, CacheAssumption
<1>5. e \in Entries
  BY <1>1, <1>2, <1>4 DEF Entry, Entries
<1>6. CallTypes' /\ \A d \in Calls : d # c => Same(d)
  BY <1>2, <1>5 DEF Same
<1>7. /\ phase'[c] = IF Cacheable(answer) THEN "write" ELSE "answered"
      /\ entry'[c] = e /\ prompt'[c] = prompt[c] /\ config'[c] = config[c]
      /\ embedding'[c] = embedding[c]
  BY <1>2
<1>8. CallOK(c)'
  BY <1>1, <1>3, <1>5, <1>7 DEF CallOK, Cacheable, Embedded
<1> QED BY <1>1, <1>6, <1>8 DEF Proceeds

\* Steps that only take the call on: it fails, goes on without a match, is served what it
\* has found, or returns what it has got.
LEMMA GoingOnProceeds ==
    ASSUME Inv, NEW c \in Calls,
           /\ prompt' = prompt /\ config' = config /\ embedding' = embedding
           /\ entry' = entry /\ lookedAt' = lookedAt /\ held' = held,
           \/ phase[c] = "call" /\ Goto(c, "failed")
           \/ phase[c] = "match" /\ Goto(c, "call")
           \/ phase[c] \in {"hit", "count"} /\ Goto(c, "served")
           \/ phase[c] = "write" /\ Goto(c, "answered")
    PROVE  Proceeds(c)
<1> USE DEF Inv, CallTypes, Goto, Phases
<1>1. CallOK(c) /\ phase[c] # "answered"
  OBVIOUS
<1>2. CallTypes' /\ \A d \in Calls : d # c => Same(d)
  BY DEF Same
<1>3. /\ entry'[c] = entry[c] /\ prompt'[c] = prompt[c] /\ config'[c] = config[c]
      /\ embedding'[c] = embedding[c] /\ lookedAt'[c] = lookedAt[c]
      /\ \/ phase[c] = "call" /\ phase'[c] = "failed"
         \/ phase[c] = "match" /\ phase'[c] = "call"
         \/ phase[c] \in {"hit", "count"} /\ phase'[c] = "served"
         \/ phase[c] = "write" /\ phase'[c] = "answered"
  OBVIOUS
<1>4. CallOK(c)'
  BY <1>1, <1>3 DEF CallOK, AnswersSimilar, LookedInTime, Embedded, VectorOfItsText
<1> QED BY <1>1, <1>2, <1>4 DEF Proceeds

\* What is in the store and alive when a call looks.
LEMMA AliveNow ==
    ASSUME Inv, NEW c \in Calls, NEW e \in Entries, ~Expired(e),
           lookedAt' = [lookedAt EXCEPT ![c] = now]
    PROVE  LookedInTime(c, e)'
<1>1. lookedAt'[c] = now /\ now \in Nat
  BY CacheAssumption DEF Inv, CallTypes
<1>2. e.expires = None \/ e.expires \in Nat
  BY EntryHas
<1> QED BY <1>1, <1>2 DEF Expired, LookedInTime

\* The time of the lookup.
LEMMA LookTypes ==
    ASSUME Inv, NEW c \in Calls, lookedAt' = [lookedAt EXCEPT ![c] = now]
    PROVE  /\ lookedAt' \in [Calls -> Nat]
           /\ \A d \in Calls : d # c => lookedAt'[d] = lookedAt[d]
BY CacheAssumption DEF Inv, CallTypes

\* The exact lookup in the LRU store.
LEMMA ReadProceeds ==
    ASSUME Inv, NEW c \in Calls, Read(c), held' = held
    PROVE  Proceeds(c)
<1>1. /\ phase[c] = "read" /\ lookedAt' = [lookedAt EXCEPT ![c] = now]
      /\ prompt' = prompt /\ config' = config /\ embedding' = embedding
  BY DEF Read
<1>2. /\ CallOK(c) /\ CallTypes /\ prompt[c] \in Prompts /\ config[c] \in Configs
      /\ cache \in Seq(Entries)
  BY <1>1 DEF Inv, CallOK, EntriesOK
<1>3. CASE prompt[c] \in Keys /\ ~Expired(EntryOf(prompt[c]))
  <2>1. PICK e : e = EntryOf(prompt[c])
    OBVIOUS
  <2>2. e \in Entries /\ e.key = prompt[c] /\ ~Expired(e)
    BY <1>2, <1>3, <2>1, EntryOfAKey
  <2>3. entry' = [entry EXCEPT ![c] = e] /\ phase' = [phase EXCEPT ![c] = "served"]
    BY <1>3, <2>1 DEF Read, Goto
  <2>4. LookedInTime(c, e)'
    BY <1>1, <2>2, AliveNow
  <2>5. CallTypes' /\ \A d \in Calls : d # c => Same(d)
    BY <1>1, <1>2, <2>2, <2>3, LookTypes DEF CallTypes, Same, Phases
  <2>6. /\ phase'[c] = "served" /\ entry'[c] = e /\ prompt'[c] = prompt[c] /\ config'[c] = config[c]
        /\ embedding'[c] = embedding[c]
    BY <1>1, <1>2, <2>3 DEF CallTypes
  <2>7. CallOK(c)'
    BY <1>2, <2>2, <2>4, <2>6 DEF CallOK, Embedded, VectorOfItsText, LookedInTime
  <2> QED BY <1>1, <2>5, <2>7 DEF Proceeds
<1>4. CASE ~(prompt[c] \in Keys /\ ~Expired(EntryOf(prompt[c])))
  <2>1. Missed(c)
    BY <1>4 DEF Read
  <2> QED BY <1>1, <1>2, <2>1, LookTypes, MissProceeds DEF CallTypes
<1> QED BY <1>3, <1>4

\* What a search settles on is in the store, alive, and similar enough.
LEMMA MatchIsSimilar ==
    ASSUME Inv, NEW c \in Calls, phase[c] = "match", NEW match,
           match = SemanticMatch(c, Candidates(prompt[c].group, config[c].max_candidates)),
           match # None
    PROVE  match \in Entries /\ ~Expired(match) /\ AnswersSimilar(c, match)
<1>1. /\ CallOK(c) /\ prompt[c] \in Prompts /\ config[c] \in Configs /\ Embedded(c)
      /\ config[c].semantic /\ prompt[c].group # None
      /\ cache \in Seq(Entries) /\ AllSound
  BY DEF Inv, CallOK, EntriesOK
<1>2. config[c].max_candidates \in Nat /\ config[c].threshold \in Nat \ {0}
  BY <1>1, CacheAssumption
<1>3. PICK found : found = Candidates(prompt[c].group, config[c].max_candidates)
  OBVIOUS
<1>4. /\ found \in Seq(Entries)
      /\ \A i \in 1..Len(found) : /\ \E m \in 1..Len(cache) : found[i] = cache[m]
                                  /\ found[i].group = prompt[c].group
                                  /\ found[i].embedding # None /\ ~Expired(found[i])
  BY <1>1, <1>2, <1>3, CandidatesFacts
<1>5. embedding[c] \in Vectors
  BY <1>1 DEF Embedded, Vectors
<1>6. ASSUME NEW i \in 1..Len(found)
      PROVE  found[i] \in Entries /\ found[i].embedding \in Vectors \ {None} /\ Score(c, found[i]) \in Int
  <2>1. found[i] \in Entries
    BY <1>4
  <2>2. found[i].embedding \in Vectors \ {None}
    BY <1>4, <2>1, EntryHas
  <2> QED BY <1>5, <2>1, <2>2, CacheAssumption DEF Score
<1>7. /\ found # <<>> /\ match = Best(c, found)
      /\ Score(c, match) >= config[c].threshold
  BY <1>3 DEF SemanticMatch
<1>8. PICK i \in 1..Len(found) : match = found[i]
  BY <1>4, <1>6, <1>7, BestIsACandidate
<1>9. /\ match \in Entries /\ match.embedding \in Vectors \ {None} /\ ~Expired(match)
      /\ match.group = prompt[c].group /\ \E m \in 1..Len(cache) : match = cache[m]
  BY <1>4, <1>6, <1>8
<1>10. match.key.group = prompt[c].group
  BY <1>1, <1>9 DEF AllSound, Sound
<1>12. match.embedding[2] = match.key.text
  BY <1>1, <1>9 DEF AllSound, Sound, VectorOfItsText
<1>11. Similarity[<<embedding[c], match.embedding>>] >= config[c].threshold
  BY <1>7 DEF Score
<1> QED BY <1>1, <1>9, <1>10, <1>12, <1>11 DEF AnswersSimilar

\* The search in the LRU store.
LEMMA MatchProceeds ==
    ASSUME Inv, NEW c \in Calls, Match(c), held' = held
    PROVE  Proceeds(c)
<1>1. PICK match : match = SemanticMatch(c, Candidates(prompt[c].group, config[c].max_candidates))
  OBVIOUS
<1>2. /\ phase[c] = "match" /\ lookedAt' = [lookedAt EXCEPT ![c] = now]
      /\ entry' = [entry EXCEPT ![c] = match]
      /\ phase' = [phase EXCEPT ![c] = IF match = None THEN "call" ELSE "hit"]
      /\ prompt' = prompt /\ config' = config /\ embedding' = embedding
  BY <1>1 DEF Match, Goto
<1>3. /\ CallOK(c) /\ CallTypes /\ prompt[c] \in Prompts /\ config[c] \in Configs
      /\ config[c].semantic /\ prompt[c].group # None
  BY <1>2 DEF Inv, CallOK
<1>4. match # None => match \in Entries /\ ~Expired(match) /\ AnswersSimilar(c, match)
  BY <1>1, <1>2, MatchIsSimilar
<1>5. match # None => LookedInTime(c, match)'
  BY <1>2, <1>4, AliveNow
<1>6. CallTypes' /\ \A d \in Calls : d # c => Same(d)
  BY <1>2, <1>3, <1>4, LookTypes DEF CallTypes, Same, Phases
<1>7. /\ phase'[c] = (IF match = None THEN "call" ELSE "hit") /\ entry'[c] = match
      /\ prompt'[c] = prompt[c] /\ config'[c] = config[c] /\ embedding'[c] = embedding[c]
  BY <1>2, <1>3 DEF CallTypes
<1>8. CallOK(c)'
  BY <1>3, <1>4, <1>5, <1>7 DEF CallOK, LookedInTime, AnswersSimilar, Embedded, VectorOfItsText
<1> QED BY <1>2, <1>6, <1>8 DEF Proceeds

\* The exact lookup in Redis.
LEMMA GetProceeds ==
    ASSUME Inv, NEW c \in Calls, Get(c)
    PROVE  Proceeds(c)
<1>1. /\ phase[c] = "read" /\ lookedAt' = [lookedAt EXCEPT ![c] = now]
      /\ prompt' = prompt /\ config' = config /\ embedding' = embedding /\ held' = held
  BY DEF Get, redis
<1>2. /\ CallOK(c) /\ CallTypes /\ prompt[c] \in Prompts /\ config[c] \in Configs
      /\ cache \in Seq(Entries)
  BY <1>1 DEF Inv, CallOK, EntriesOK
<1>3. CASE prompt[c] \notin Keys
  <2>1. Missed(c)
    BY <1>3 DEF Get
  <2> QED BY <1>1, <1>2, <2>1, LookTypes, MissProceeds DEF CallTypes
<1>4. CASE prompt[c] \in Keys /\ Expired(EntryOf(prompt[c]))
  <2>1. entry' = entry /\ phase' = [phase EXCEPT ![c] = "drop"]
    BY <1>4 DEF Get, Goto
  <2>2. CallTypes' /\ \A d \in Calls : d # c => Same(d)
    BY <1>1, <1>2, <2>1, LookTypes DEF CallTypes, Same, Phases
  <2>3. /\ phase'[c] = "drop" /\ prompt'[c] = prompt[c] /\ config'[c] = config[c]
        /\ embedding'[c] = embedding[c]
    BY <1>1, <1>2, <2>1 DEF CallTypes
  <2>4. CallOK(c)'
    BY <1>2, <2>3 DEF CallOK, Embedded
  <2> QED BY <1>1, <2>2, <2>4 DEF Proceeds
<1>5. CASE prompt[c] \in Keys /\ ~Expired(EntryOf(prompt[c]))
  <2>1. PICK e : e = EntryOf(prompt[c])
    OBVIOUS
  <2>2. e \in Entries /\ e.key = prompt[c] /\ ~Expired(e)
    BY <1>2, <1>5, <2>1, EntryOfAKey
  <2>3. entry' = [entry EXCEPT ![c] = e] /\ phase' = [phase EXCEPT ![c] = "count"]
    BY <1>5, <2>1 DEF Get, Goto
  <2>4. LookedInTime(c, e)'
    BY <1>1, <2>2, AliveNow
  <2>5. CallTypes' /\ \A d \in Calls : d # c => Same(d)
    BY <1>1, <1>2, <2>2, <2>3, LookTypes DEF CallTypes, Same, Phases
  <2>6. /\ phase'[c] = "count" /\ entry'[c] = e /\ prompt'[c] = prompt[c] /\ config'[c] = config[c]
        /\ embedding'[c] = embedding[c]
    BY <1>1, <1>2, <2>3 DEF CallTypes
  <2>7. CallOK(c)'
    BY <1>2, <2>2, <2>4, <2>6 DEF CallOK, Embedded, VectorOfItsText, LookedInTime
  <2> QED BY <1>1, <2>5, <2>7 DEF Proceeds
<1> QED BY <1>3, <1>4, <1>5

\* The group of an entry is one of Groups, if it has one.
LEMMA GroupOfAKey ==
    ASSUME cache \in Seq(Entries), NEW p
    PROVE  GroupOf(p) \in Groups \union {None}
<1>1. CASE p \in Keys
  <2>1. EntryOf(p) \in Entries
    BY <1>1, EntryOfAKey
  <2>2. EntryOf(p).group \in {q.group : q \in Prompts} \union {None}
    BY <2>1 DEF Entries
  <2> QED BY <1>1, <2>2, RedisAssumption DEF GroupOf
<1>2. CASE p \notin Keys
  BY <1>2 DEF GroupOf
<1> QED BY <1>1, <1>2

\* An expired entry is deleted, or the server fails: a miss.
LEMMA DropProceeds ==
    ASSUME Inv, NEW c \in Calls, DropExpired(c) \/ RemoveExpired(c) \/ GetFails(c)
    PROVE  Proceeds(c)
<1>1. CallOK(c) /\ CallTypes /\ cache \in Seq(Entries)
  BY DEF Inv, EntriesOK
<1>2. CASE DropExpired(c)
  <2>1. PICK group : group = GroupOf(prompt[c])
    OBVIOUS
  <2>2. group \in Groups \union {None}
    BY <1>1, <2>1, GroupOfAKey
  <2>3. /\ phase[c] = "drop" /\ phase' = [phase EXCEPT ![c] = "remove"]
        /\ held' = [held EXCEPT ![c] = {group}]
        /\ prompt' = prompt /\ config' = config /\ embedding' = embedding
        /\ entry' = entry /\ lookedAt' = lookedAt
    BY <1>2, <2>1 DEF DropExpired, Goto, Hold, history
  <2>4. CallTypes' /\ \A d \in Calls : d # c => Same(d)
    BY <1>1, <2>2, <2>3 DEF CallTypes, Same, Phases, Readings
  <2>5. /\ phase'[c] = "remove" /\ prompt'[c] = prompt[c] /\ config'[c] = config[c]
        /\ embedding'[c] = embedding[c]
    BY <1>1, <2>3 DEF CallTypes
  <2>6. CallOK(c)'
    BY <1>1, <2>3, <2>5 DEF CallOK, Embedded
  <2> QED BY <2>3, <2>4, <2>6 DEF Proceeds
<1>3. CASE RemoveExpired(c) \/ GetFails(c)
  <2>1. /\ phase[c] \in {"count", "drop", "remove"} /\ Missed(c)
        /\ held' = [held EXCEPT ![c] = {}]
        /\ prompt' = prompt /\ config' = config /\ embedding' = embedding /\ lookedAt' = lookedAt
    BY <1>3 DEF RemoveExpired, GetFails, Hold, history
  <2>2. held' \in [Calls -> SUBSET Readings] /\ \A d \in Calls : d # c => held'[d] = held[d]
    BY <1>1, <2>1 DEF CallTypes
  <2> QED BY <1>1, <2>1, <2>2, MissProceeds DEF CallTypes
<1> QED BY <1>2, <1>3

\* The listing of a group.
LEMMA ListProceeds ==
    ASSUME Inv, NEW c \in Calls, ListNewest(c)
    PROVE  Proceeds(c)
<1>1. PICK newest \in SUBSET index[prompt[c].group] :
         /\ held' = [held EXCEPT ![c] = newest]
         /\ phase' = [phase EXCEPT ![c] = IF newest = {} THEN "call" ELSE "fetch"]
  BY DEF ListNewest, Hold, Goto
<1>2. /\ phase[c] = "match" /\ prompt' = prompt /\ config' = config /\ embedding' = embedding
      /\ entry' = entry /\ lookedAt' = lookedAt
  BY DEF ListNewest, history
<1>3. /\ CallOK(c) /\ CallTypes /\ prompt[c] \in Prompts /\ config[c] \in Configs
      /\ config[c].semantic /\ prompt[c].group # None /\ Embedded(c) /\ entry[c] = None
  BY <1>2 DEF Inv, CallOK
<1>4. prompt[c].group \in Groups
  BY <1>3, RedisAssumption
<1>5. \A m \in newest : m \in Members /\ m.key.group = prompt[c].group
  BY <1>1, <1>4 DEF Inv, IndexOK, Lists
<1>6. CallTypes' /\ \A d \in Calls : d # c => Same(d)
  BY <1>1, <1>2, <1>3, <1>5 DEF CallTypes, Same, Phases, Readings
<1>7. /\ phase'[c] = (IF newest = {} THEN "call" ELSE "fetch") /\ held'[c] = newest
      /\ prompt'[c] = prompt[c] /\ config'[c] = config[c]
      /\ embedding'[c] = embedding[c] /\ entry'[c] = None
  BY <1>1, <1>2, <1>3 DEF CallTypes
<1>8. CallOK(c)'
  BY <1>3, <1>5, <1>7 DEF CallOK, Embedded
<1> QED BY <1>2, <1>6, <1>8 DEF Proceeds

\* What MGET finds of the keys that were listed.
LEMMA FetchedIsSimilar ==
    ASSUME Inv, NEW c \in Calls, phase[c] = "fetch", NEW live,
           \A m \in live : m \in held[c] /\ m.key \in Keys /\ ~Expired(EntryOf(m.key)),
           NEW match \in Matches(c, live)
    PROVE  match \in Entries /\ ~Expired(match) /\ AnswersSimilar(c, match)
<1>1. /\ CallOK(c) /\ prompt[c] \in Prompts /\ config[c] \in Configs /\ Embedded(c)
      /\ config[c].semantic /\ cache \in Seq(Entries) /\ AllSound
      /\ \A m \in held[c] : m.key.group = prompt[c].group
  BY DEF Inv, CallOK, EntriesOK
<1>2. PICK m \in live : /\ match = EntryOf(m.key) /\ match.embedding # None
                        /\ Score(c, match) >= config[c].threshold
  BY DEF Matches
<1>3. match \in Entries /\ match.key = m.key /\ ~Expired(match)
  BY <1>1, <1>2, EntryOfAKey
<1>4. match.key.group = prompt[c].group
  BY <1>1, <1>2, <1>3
<1>5. embedding[c] \in Vectors
  BY <1>1 DEF Embedded, Vectors
<1>6. match.embedding \in Vectors
  BY <1>2, <1>3, EntryHas
<1>7. Similarity[<<embedding[c], match.embedding>>] >= config[c].threshold
  BY <1>2 DEF Score
<1>8. match.embedding[2] = match.key.text
  <2>1. PICK i \in 1..Len(cache) : cache[i] = match
    BY <1>1, <1>2, EntryOfAKey
  <2>2. VectorOfItsText(match)
    BY <1>1, <2>1 DEF AllSound, Sound
  <2> QED BY <1>2, <2>2 DEF VectorOfItsText
<1> QED BY <1>1, <1>3, <1>4, <1>6, <1>7, <1>8 DEF AnswersSimilar

\* MGET, and the search.
LEMMA FetchProceeds ==
    ASSUME Inv, NEW c \in Calls, Fetch(c)
    PROVE  Proceeds(c)
<1>1. PICK live, stale :
         /\ live = {m \in held[c] : m.key \in Keys /\ ~Expired(EntryOf(m.key))}
         /\ stale = held[c] \ live
  OBVIOUS
<1>2. PICK match \in IF Matches(c, live) = {} THEN {None} ELSE Matches(c, live) :
         /\ entry' = [entry EXCEPT ![c] = match]
         /\ phase' = [phase EXCEPT ![c] = IF stale # {} THEN "prune"
                                          ELSE IF match = None THEN "call" ELSE "hit"]
  BY <1>1 DEF Fetch, Goto
<1>3. /\ phase[c] = "fetch" /\ prompt' = prompt /\ config' = config /\ embedding' = embedding
      /\ lookedAt' = [lookedAt EXCEPT ![c] = now]
      /\ held' = [held EXCEPT ![c] = {m.key : m \in stale}]
  BY <1>1 DEF Fetch, Hold
<1>4. /\ CallOK(c) /\ CallTypes /\ prompt[c] \in Prompts /\ config[c] \in Configs
      /\ config[c].semantic /\ prompt[c].group # None
  BY <1>3 DEF Inv, CallOK
<1>5. match # None => match \in Entries /\ ~Expired(match) /\ AnswersSimilar(c, match)
  <2>1. SUFFICES ASSUME match # None
                 PROVE  match \in Entries /\ ~Expired(match) /\ AnswersSimilar(c, match)
    OBVIOUS
  <2>2. match \in Matches(c, live)
    BY <1>2, <2>1
  <2>3. \A m \in live : m \in held[c] /\ m.key \in Keys /\ ~Expired(EntryOf(m.key))
    BY <1>1
  <2> QED BY <1>3, <2>2, <2>3, FetchedIsSimilar
<1>6. match # None => LookedInTime(c, match)'
  BY <1>3, <1>5, AliveNow
<1>7. {m.key : m \in stale} \subseteq Readings
  BY <1>1, <1>3, <1>4 DEF Readings, CallOK, Members
<1>8. CallTypes' /\ \A d \in Calls : d # c => Same(d)
  BY <1>2, <1>3, <1>4, <1>5, <1>7, LookTypes DEF CallTypes, Same, Phases
<1>9. /\ phase'[c] = (IF stale # {} THEN "prune" ELSE IF match = None THEN "call" ELSE "hit")
      /\ entry'[c] = match
      /\ prompt'[c] = prompt[c] /\ config'[c] = config[c] /\ embedding'[c] = embedding[c]
  BY <1>2, <1>3, <1>4 DEF CallTypes
<1>10. CallOK(c)'
  BY <1>4, <1>5, <1>6, <1>9 DEF CallOK, LookedInTime, AnswersSimilar, Embedded, VectorOfItsText
<1> QED BY <1>3, <1>8, <1>10 DEF Proceeds

\* The stale keys are removed, or the server fails.
LEMMA PruneProceeds ==
    ASSUME Inv, NEW c \in Calls, Prune(c) \/ CandidatesFail(c)
    PROVE  Proceeds(c)
<1>1. /\ held' = [held EXCEPT ![c] = {}] /\ phase[c] \in {"fetch", "prune"}
      /\ prompt' = prompt /\ config' = config /\ embedding' = embedding /\ lookedAt' = lookedAt
  BY DEF Prune, CandidatesFail, Hold, history
<1>2. CallOK(c) /\ CallTypes
  BY DEF Inv
<1>3. CASE Prune(c)
  <2>1. /\ phase[c] = "prune" /\ entry' = entry
        /\ phase' = [phase EXCEPT ![c] = IF entry[c] = None THEN "call" ELSE "hit"]
    BY <1>3 DEF Prune, Goto
  <2>2. CallTypes' /\ \A d \in Calls : d # c => Same(d)
    BY <1>1, <1>2, <2>1 DEF CallTypes, Same, Phases
  <2>3. /\ phase'[c] = (IF entry[c] = None THEN "call" ELSE "hit") /\ entry'[c] = entry[c]
        /\ prompt'[c] = prompt[c] /\ config'[c] = config[c] /\ embedding'[c] = embedding[c]
        /\ lookedAt'[c] = lookedAt[c] /\ entry[c] \in Entries \union {None}
    BY <1>1, <1>2, <2>1 DEF CallTypes
  <2>4. CallOK(c)'
    BY <1>2, <2>1, <2>3 DEF CallOK, LookedInTime, AnswersSimilar, Embedded, VectorOfItsText
  <2> QED BY <1>1, <2>2, <2>4 DEF Proceeds
<1>4. CASE CandidatesFail(c)
  <2>1. entry' = [entry EXCEPT ![c] = None] /\ phase' = [phase EXCEPT ![c] = "call"]
    BY <1>4 DEF CandidatesFail, Goto
  <2>2. CallTypes' /\ \A d \in Calls : d # c => Same(d)
    BY <1>1, <1>2, <2>1 DEF CallTypes, Same, Phases
  <2>3. /\ phase'[c] = "call" /\ entry'[c] = None
        /\ prompt'[c] = prompt[c] /\ config'[c] = config[c]
        /\ embedding'[c] = embedding[c]
    BY <1>1, <1>2, <2>1 DEF CallTypes
  <2>4. CallOK(c)'
    BY <1>1, <1>2, <2>3 DEF CallOK, Embedded
  <2> QED BY <1>1, <2>2, <2>4 DEF Proceeds
<1> QED BY <1>3, <1>4

\* What the layer does over either store.
LEMMA LayerProceeds ==
    ASSUME Inv, NEW c \in Calls, LayerStep(c)
    PROVE  Proceeds(c)
<1>1. held' = held
  BY DEF LayerStep, redis
<1>2. CASE ReadFails(c)
  <2>1. /\ phase[c] = "read" /\ Missed(c)
        /\ prompt' = prompt /\ config' = config /\ embedding' = embedding /\ lookedAt' = lookedAt
    BY <1>2 DEF ReadFails, history
  <2> QED BY <1>1, <2>1, MissProceeds DEF Inv, CallTypes
<1>3. CASE EmbedText(c) \/ EmbedFails(c) \/ EmbedderMissing(c)
  BY <1>1, <1>3, EmbedProceeds
<1>4. CASE \E answer \in Answers : Answer(c, answer)
  BY <1>1, <1>4, AnswerProceeds
<1>5. CASE MatchFails(c) \/ RecordHitFails(c) \/ Fail(c) \/ WriteFails(c)
  <2>1. /\ prompt' = prompt /\ config' = config /\ embedding' = embedding
        /\ entry' = entry /\ lookedAt' = lookedAt
        /\ \/ phase[c] = "call" /\ Goto(c, "failed")
           \/ phase[c] = "match" /\ Goto(c, "call")
           \/ phase[c] = "hit" /\ Goto(c, "served")
           \/ phase[c] = "write" /\ Goto(c, "answered")
    BY <1>5 DEF MatchFails, RecordHitFails, Fail, WriteFails, history
  <2> QED BY <1>1, <2>1, GoingOnProceeds
<1> QED BY <1>2, <1>3, <1>4, <1>5 DEF LayerStep

\* Every step of a call over the LRU store.
LEMMA StepProceeds ==
    ASSUME Inv, NEW c \in Calls, Step(c), UNCHANGED redis
    PROVE  Proceeds(c)
<1>1. held' = held
  BY DEF redis
<1>2. CASE Read(c)
  BY <1>1, <1>2, ReadProceeds
<1>3. CASE Match(c)
  BY <1>1, <1>3, MatchProceeds
<1>4. CASE RecordHit(c) \/ Write(c)
  <2>1. /\ prompt' = prompt /\ config' = config /\ embedding' = embedding
        /\ entry' = entry /\ lookedAt' = lookedAt
        /\ \/ phase[c] = "hit" /\ Goto(c, "served")
           \/ phase[c] = "write" /\ Goto(c, "answered")
    BY <1>4 DEF RecordHit, Write
  <2> QED BY <1>1, <2>1, GoingOnProceeds
<1>5. CASE LayerStep(c)
  BY <1>5, LayerProceeds
<1> QED BY <1>2, <1>3, <1>4, <1>5 DEF Step, LayerStep

\* Every step of a call over Redis.
LEMMA RedisStepProceeds ==
    ASSUME Inv, NEW c \in Calls, RedisStep(c)
    PROVE  Proceeds(c)
<1>1. CASE CountHit(c) \/ CountSimilar(c) \/ Put(c)
  <2>1. /\ prompt' = prompt /\ config' = config /\ embedding' = embedding
        /\ entry' = entry /\ lookedAt' = lookedAt /\ held' = held
        /\ \/ phase[c] \in {"hit", "count"} /\ Goto(c, "served")
           \/ phase[c] = "write" /\ Goto(c, "answered")
    BY <1>1 DEF CountHit, CountSimilar, Put, history
  <2> QED BY <2>1, GoingOnProceeds
<1> QED BY <1>1, GetProceeds, DropProceeds, ListProceeds, FetchProceeds, PruneProceeds,
           LayerProceeds DEF RedisStep

-----------------------------------------------------------------------------
(* Steps of the store: its entries, and the order of their use. *)

StoreFine == EntriesOK' /\ AllSound' /\ UsedInOrder'

SoundStays == \A e : Sound(e) => Sound(e)'

\* Nothing of the kind happens.
LEMMA IdleStoreFine ==
    ASSUME Inv, SoundStays, cache' = cache, recent' = recent, store' = store
    PROVE  StoreFine
<1>1. EntriesOK'
  <2>1. EntriesOK
    BY DEF Inv
  <2> QED BY <2>1 DEF EntriesOK, Distinct
<1>2. UsedInOrder'
  <2>1. SUFFICES ASSUME store = "memory" PROVE Len(cache') <= MaxEntries /\ Ordered(cache, recent)'
    BY DEF UsedInOrder
  <2>2. Len(cache) <= MaxEntries /\ Ordered(cache, recent)
    BY <2>1 DEF Inv, UsedInOrder
  <2>3. Ordered(cache', recent')
    BY <2>2
  <2>4. Ordered(cache, recent)'
    BY <2>3 DEF Ordered
  <2> QED BY <2>2, <2>4
<1>3. ASSUME NEW i \in 1..Len(cache')
      PROVE  Sound(cache[i])'
  <2>1. PICK e : e = cache[i]
    OBVIOUS
  <2>2. Sound(e)
    BY <2>1 DEF Inv, AllSound
  <2>3. Sound(e)' /\ cache'[i] = e
    BY <2>1, <2>2 DEF SoundStays
  <2> QED BY <2>3
<1> QED BY <1>1, <1>2, <1>3 DEF StoreFine, AllSound

\* What remains of the entries, or was of them with another number of hits, is sound.
LEMMA RestIsSound ==
    ASSUME Inv, SoundStays, NEW t,
           \A i \in 1..Len(t) :
              \/ Sound(t[i])'
              \/ \E m \in 1..Len(cache) : /\ t[i].key = cache[m].key
                                          /\ t[i].response = cache[m].response
                                          /\ t[i].group = cache[m].group
                                          /\ t[i].embedding = cache[m].embedding,
           cache' = t
    PROVE  AllSound'
<1>1. ASSUME NEW i \in 1..Len(t)
      PROVE  Sound(t[i])'
  <2>1. CASE \E m \in 1..Len(cache) : /\ t[i].key = cache[m].key
                                      /\ t[i].response = cache[m].response
                                      /\ t[i].group = cache[m].group
                                      /\ t[i].embedding = cache[m].embedding
    <3>1. PICK m \in 1..Len(cache) : /\ t[i].key = cache[m].key
                                     /\ t[i].response = cache[m].response
                                     /\ t[i].group = cache[m].group
                                     /\ t[i].embedding = cache[m].embedding
      BY <2>1
    <3>2. PICK e, f : e = cache[m] /\ f = t[i]
      OBVIOUS
    <3>3. Sound(e)
      BY <3>2 DEF Inv, AllSound
    <3>4. Sound(f)
      BY <3>1, <3>2, <3>3 DEF Sound, VectorOfItsText
    <3>5. Sound(f)'
      BY <3>4 DEF SoundStays
    <3> QED BY <3>2, <3>5
  <2> QED BY <2>1
<1>2. ASSUME NEW i \in 1..Len(cache')
      PROVE  Sound(cache[i])'
  <2>1. i \in 1..Len(t) /\ cache'[i] = t[i]
    OBVIOUS
  <2>2. Sound(t[i])'
    BY <1>1, <2>1
  <2> QED BY <2>1, <2>2
<1> QED BY <1>2 DEF AllSound

\* Some entries are dropped, in either store.
LEMMA DroppingFine ==
    ASSUME Inv, SoundStays, NEW S, cache' = Kept(cache, S), recent' = recent, store' = store
    PROVE  StoreFine
<1>1. PICK k : k = Kept(cache, S)
  OBVIOUS
<1>2. cache \in Seq(Entries) /\ Distinct(cache) /\ recent \in Seq(Prompts)
  BY DEF Inv, EntriesOK
<1>3. /\ k \in Seq(Entries) /\ Distinct(k) /\ Len(k) <= Len(cache)
      /\ \A i \in 1..Len(k) : \E m \in 1..Len(cache) : k[i] = cache[m]
  BY <1>1, <1>2, KeptEntries, SMTT(30)
<1>4. EntriesOK'
  BY <1>1, <1>2, <1>3 DEF EntriesOK, Distinct
<1>5. AllSound'
  BY <1>1, <1>3, RestIsSound
<1>6. UsedInOrder'
  <2>1. SUFFICES ASSUME store = "memory" PROVE Len(k) <= MaxEntries /\ Ordered(k, recent)
    BY <1>1 DEF UsedInOrder, Ordered
  <2>2. Len(cache) <= MaxEntries /\ Ordered(cache, recent)
    BY <2>1 DEF Inv, UsedInOrder
  <2>3. Ordered(k, recent)
    BY <1>1, <1>2, <2>2, KeptIsOrdered
  <2>4. Len(k) \in Nat /\ Len(cache) \in Nat /\ MaxEntries \in Nat
    BY <1>2, <1>3, CacheAssumption
  <2> QED BY <1>3, <2>2, <2>3, <2>4
<1> QED BY <1>4, <1>5, <1>6 DEF StoreFine

\* The same of one key.
LEMMA WithoutFine ==
    ASSUME Inv, SoundStays, NEW p, cache' = Without(p), recent' = recent, store' = store
    PROVE  StoreFine
BY DroppingFine DEF Without

\* All entries are dropped.
LEMMA ClearFine ==
    ASSUME Inv, SoundStays, cache' = <<>>, recent' = recent, store' = store
    PROVE  StoreFine
<1>1. PICK t : t = <<>>
  OBVIOUS
<1>2. t \in Seq(Entries) /\ Len(t) = 0
  BY <1>1
<1>3. AllSound'
  BY <1>1, <1>2, RestIsSound
<1>4. EntriesOK'
  BY <1>1, <1>2 DEF Inv, EntriesOK, Distinct
<1>5. UsedInOrder'
  BY <1>1, <1>2, CacheAssumption DEF UsedInOrder, Ordered
<1> QED BY <1>3, <1>4, <1>5 DEF StoreFine

\* A hit makes an entry the last.
LEMMA TouchFine ==
    ASSUME Inv, SoundStays, NEW p \in Keys, cache' = Touched(EntryOf(p)), Use(p), store' = store
    PROVE  StoreFine
<1>1. cache \in Seq(Entries) /\ Distinct(cache) /\ recent \in Seq(Prompts)
  BY DEF Inv, EntriesOK
<1>2. PICK e : e = EntryOf(p)
  OBVIOUS
<1>3. /\ e \in Entries /\ e.key = p /\ p \in Prompts
      /\ \E m \in 1..Len(cache) : cache[m] = e
  BY <1>1, <1>2, EntryOfAKey, EntryHas
<1>4. PICK f : f = [e EXCEPT !.hits = @ + 1]
  OBVIOUS
<1>5. /\ f \in Entries /\ f.key = p
      /\ f.response = e.response /\ f.group = e.group /\ f.embedding = e.embedding
  BY <1>3, <1>4 DEF Entries
<1>6. PICK k : k = Without(p)
  OBVIOUS
<1>7. /\ k \in Seq(Entries) /\ Distinct(k) /\ PartOf(k, cache) /\ Len(k) < Len(cache)
      /\ \A i \in 1..Len(k) : k[i].key # f.key
  BY <1>1, <1>5, <1>6, WithoutAKey
<1>8. PICK u : u = Append(k, f)
  OBVIOUS
<1>9. cache' = u
  BY <1>2, <1>3, <1>4, <1>6, <1>8 DEF Touched
<1>10. /\ u \in Seq(Entries) /\ Distinct(u) /\ Len(u) = Len(k) + 1
       /\ \A i \in 1..Len(u) : u[i] = f \/ \E m \in 1..Len(k) : u[i] = k[m]
  BY <1>5, <1>7, <1>8, OneMoreEntry
<1>11. PICK r2 : r2 = Append(Kept(recent, Prompts \ {f.key}), f.key)
  OBVIOUS
<1>12. recent' = r2
  BY <1>5, <1>11 DEF Use
<1>13. r2 \in Seq(Prompts)
  <2>1. Kept(recent, Prompts \ {f.key}) \in Seq(Prompts)
    BY <1>1, KeptFacts
  <2> QED BY <1>3, <1>5, <1>11, <2>1
<1>14. EntriesOK'
  BY <1>9, <1>10, <1>12, <1>13 DEF EntriesOK, Distinct
<1>15. \A i \in 1..Len(u) : \E m \in 1..Len(cache) :
          /\ u[i].key = cache[m].key /\ u[i].response = cache[m].response
          /\ u[i].group = cache[m].group /\ u[i].embedding = cache[m].embedding
  <2>1. SUFFICES ASSUME NEW i \in 1..Len(u)
                 PROVE  \E m \in 1..Len(cache) : /\ u[i].key = cache[m].key
                                                 /\ u[i].response = cache[m].response
                                                 /\ u[i].group = cache[m].group
                                                 /\ u[i].embedding = cache[m].embedding
    OBVIOUS
  <2>2. CASE u[i] = f
    BY <1>3, <1>5, <2>2
  <2>3. CASE \E m \in 1..Len(k) : u[i] = k[m]
    BY <1>7, <2>3 DEF PartOf
  <2> QED BY <1>10, <2>2, <2>3
<1>16. AllSound'
  BY <1>9, <1>15, RestIsSound
<1>17. UsedInOrder'
  <2>1. SUFFICES ASSUME store = "memory"
                 PROVE  Len(cache') <= MaxEntries /\ Ordered(cache, recent)'
    BY DEF UsedInOrder
  <2>2. Len(cache) <= MaxEntries /\ Ordered(cache, recent)
    BY <2>1 DEF Inv, UsedInOrder
  <2>3. Ordered(k, recent)
    BY <1>1, <1>6, <2>2, KeptIsOrdered DEF Without
  <2>4. Ordered(Append(k, f), r2)
    BY <1>1, <1>5, <1>7, <1>11, <2>2, <2>3, UsedIsOrdered
  <2>5. Len(u) <= MaxEntries
    BY <1>1, <1>7, <1>10, <2>2, CacheAssumption
  <2>6. Ordered(u, r2)
    BY <1>8, <2>4
  <2>7. Ordered(cache, recent)'
    <3>1. Ordered(cache', recent')
      BY <1>9, <1>12, <2>6
    <3> QED BY <3>1 DEF Ordered
  <2>8. Len(cache') <= MaxEntries
    BY <1>9, <2>5
  <2> QED BY <2>7, <2>8
<1> QED BY <1>14, <1>16, <1>17 DEF StoreFine

\* What a call writes: an entry, put in the place of that of the same key.
Placed(e) == Append(Without(e.key), e)

\* It is in the list, last, and everything else of the list is still there.
LEMMA PlacedFacts ==
    ASSUME Inv, NEW e \in Entries
    PROVE  /\ Placed(e) \in Seq(Entries) /\ Distinct(Placed(e))
           /\ Len(Placed(e)) \in Nat \ {0} /\ Placed(e)[Len(Placed(e))] = e
           /\ \A i \in 1..Len(Placed(e)) :
                 Placed(e)[i] = e \/ \E m \in 1..Len(cache) : Placed(e)[i] = cache[m]
           /\ \A m \in 1..Len(cache) : cache[m].key # e.key =>
                 \E i \in 1..Len(Placed(e)) : Placed(e)[i] = cache[m]
           /\ store = "memory" =>
                 Ordered(Placed(e), Append(Kept(recent, Prompts \ {e.key}), e.key))
           /\ Append(Kept(recent, Prompts \ {e.key}), e.key) \in Seq(Prompts)
<1>1. cache \in Seq(Entries) /\ Distinct(cache) /\ recent \in Seq(Prompts) /\ e.key \in Prompts
  BY EntryHas DEF Inv, EntriesOK
<1>2. PICK k : k = Without(e.key)
  OBVIOUS
<1>3. /\ k \in Seq(Entries) /\ Distinct(k) /\ PartOf(k, cache)
      /\ \A i \in 1..Len(k) : k[i].key # e.key
      /\ \A m \in 1..Len(cache) : cache[m].key # e.key => \E i \in 1..Len(k) : k[i] = cache[m]
  BY <1>1, <1>2, WithoutAKey
<1>4. PICK u : u = Append(k, e)
  OBVIOUS
<1>5. Placed(e) = u
  BY <1>2, <1>4 DEF Placed
<1>6. /\ u \in Seq(Entries) /\ Distinct(u) /\ Len(u) = Len(k) + 1
      /\ \A i \in 1..Len(u) : u[i] = e \/ \E m \in 1..Len(k) : u[i] = k[m]
  BY <1>3, <1>4, OneMoreEntry
<1>7. u[Len(k) + 1] = e /\ \A i \in 1..Len(k) : i \in 1..Len(u) /\ u[i] = k[i]
  BY <1>3, <1>4
<1>8. \A m \in 1..Len(cache) : cache[m].key # e.key => \E i \in 1..Len(u) : u[i] = cache[m]
  BY <1>3, <1>7
<1>9. \A i \in 1..Len(u) : u[i] = e \/ \E m \in 1..Len(cache) : u[i] = cache[m]
  BY <1>3, <1>6 DEF PartOf
<1>10. PICK r2 : r2 = Append(Kept(recent, Prompts \ {e.key}), e.key)
  OBVIOUS
<1>11. r2 \in Seq(Prompts)
  <2>1. Kept(recent, Prompts \ {e.key}) \in Seq(Prompts)
    BY <1>1, KeptFacts
  <2> QED BY <1>1, <1>10, <2>1
<1>12. store = "memory" => Ordered(u, r2)
  <2>1. SUFFICES ASSUME store = "memory" PROVE Ordered(u, r2)
    OBVIOUS
  <2>2. Ordered(cache, recent)
    BY <2>1 DEF Inv, UsedInOrder
  <2>3. Ordered(k, recent)
    BY <1>1, <1>2, <2>2, KeptIsOrdered DEF Without
  <2>4. Ordered(Append(k, e), r2)
    BY <1>1, <1>3, <1>10, <2>2, <2>3, UsedIsOrdered
  <2> QED BY <1>4, <2>4
<1>13. Len(u) \in Nat \ {0} /\ u[Len(u)] = e
  BY <1>3, <1>6, <1>7
<1> QED BY <1>5, <1>6, <1>8, <1>9, <1>10, <1>11, <1>12, <1>13

\* The entry a call has written is the answer that call got.
LEMMA WrittenIsSound ==
    ASSUME Inv, NEW c \in Calls, phase[c] = "write", Goto(c, "answered"),
           prompt' = prompt, entry' = entry
    PROVE  entry[c] \in Entries /\ Sound(entry[c])'
<1>1. CallOK(c) /\ CallTypes
  BY DEF Inv
<1>2. PICK e : e = entry[c]
  OBVIOUS
<1>3. /\ e \in Entries /\ e.key = prompt[c] /\ e.group \in {prompt[c].group, None}
      /\ ~e.response.refused /\ VectorOfItsText(e)
  BY <1>1, <1>2 DEF CallOK
<1>4. phase'[c] = "answered" /\ prompt'[c] = prompt[c] /\ entry'[c] = e
  BY <1>1, <1>2 DEF Goto, CallTypes
<1>5. Sound(e)'
  BY <1>3, <1>4 DEF Sound, VectorOfItsText
<1>6. Sound(entry[c])'
  BY <1>2, <1>4, <1>5 DEF Sound
<1> QED BY <1>2, <1>3, <1>6

\* A write to the LRU store.
LEMMA WriteFine ==
    ASSUME Inv, SoundStays, NEW c \in Calls, Write(c), store' = store
    PROVE  StoreFine
<1>1. PICK e : e = entry[c]
  OBVIOUS
<1>2. e \in Entries /\ Sound(e)'
  <2>1. entry' = entry
    BY DEF Write
  <2>2. entry[c] \in Entries /\ Sound(entry[c])'
    BY WrittenIsSound DEF Write
  <2> QED BY <1>1, <2>1, <2>2 DEF Sound
<1>3. PICK u : u = Placed(e)
  OBVIOUS
<1>4. PICK r2 : r2 = Append(Kept(recent, Prompts \ {e.key}), e.key)
  OBVIOUS
<1>5. /\ u \in Seq(Entries) /\ Distinct(u) /\ r2 \in Seq(Prompts)
      /\ \A i \in 1..Len(u) : u[i] = e \/ \E m \in 1..Len(cache) : u[i] = cache[m]
      /\ store = "memory" => Ordered(u, r2)
  BY <1>2, <1>3, <1>4, PlacedFacts
<1>6. PICK t : t = Newest(u)
  OBVIOUS
<1>7. cache' = t /\ recent' = r2
  BY <1>1, <1>3, <1>4, <1>6 DEF Write, With, Use, Placed
<1>8. PICK d \in Nat : /\ t \in Seq(Entries) /\ Len(t) = Len(u) - d /\ Len(t) <= MaxEntries
                       /\ \A i \in 1..Len(t) : t[i] = u[d + i]
  BY <1>5, <1>6, NewestFacts
<1>9. \A i \in 1..Len(t) : d + i \in 1..Len(u) /\ t[i] = u[d + i]
  BY <1>5, <1>8
<1>10. Distinct(t)
  <2>1. SUFFICES ASSUME NEW i \in 1..Len(t), NEW j \in 1..Len(t), t[i].key = t[j].key
                 PROVE  i = j
    BY DEF Distinct
  <2>2. d + i = d + j
    BY <1>5, <1>9, <2>1 DEF Distinct
  <2> QED BY <1>8, <2>2
<1>11. EntriesOK'
  BY <1>5, <1>7, <1>8, <1>10 DEF EntriesOK, Distinct
<1>12. \A i \in 1..Len(t) : t[i] = e \/ \E m \in 1..Len(cache) : t[i] = cache[m]
  BY <1>5, <1>9
<1>13. AllSound'
  <2>1. \A i \in 1..Len(t) : \/ Sound(t[i])'
                             \/ \E m \in 1..Len(cache) : /\ t[i].key = cache[m].key
                                                         /\ t[i].response = cache[m].response
                                                         /\ t[i].group = cache[m].group
                                                         /\ t[i].embedding = cache[m].embedding
    BY <1>2, <1>12
  <2> QED BY <1>7, <2>1, RestIsSound
<1>14. UsedInOrder'
  <2>1. SUFFICES ASSUME store = "memory"
                 PROVE  Len(cache') <= MaxEntries /\ Ordered(cache, recent)'
    BY DEF UsedInOrder
  <2>2. Ordered(t, r2)
    BY <1>5, <1>8, <2>1, SuffixIsOrdered
  <2>3. Ordered(cache, recent)'
    <3>1. Ordered(cache', recent')
      BY <1>7, <2>2
    <3> QED BY <3>1 DEF Ordered
  <2> QED BY <1>7, <1>8, <2>3
<1> QED BY <1>11, <1>13, <1>14 DEF StoreFine

\* A write to Redis.
LEMMA PutFine ==
    ASSUME Inv, SoundStays, NEW c \in Calls, Put(c), store = "redis", store' = store
    PROVE  StoreFine
<1>1. PICK e : e = entry[c]
  OBVIOUS
<1>2. e \in Entries /\ Sound(e)'
  <2>1. entry' = entry
    BY DEF Put
  <2>2. entry[c] \in Entries /\ Sound(entry[c])'
    BY WrittenIsSound DEF Put
  <2> QED BY <1>1, <2>1, <2>2 DEF Sound
<1>3. PICK u : u = Placed(e)
  OBVIOUS
<1>4. /\ u \in Seq(Entries) /\ Distinct(u)
      /\ \A i \in 1..Len(u) : u[i] = e \/ \E m \in 1..Len(cache) : u[i] = cache[m]
  <2>1. /\ Placed(e) \in Seq(Entries) /\ Distinct(Placed(e))
        /\ \A i \in 1..Len(Placed(e)) :
              Placed(e)[i] = e \/ \E m \in 1..Len(cache) : Placed(e)[i] = cache[m]
    BY <1>2, PlacedFacts
  <2> QED BY <1>3, <2>1
<1>5. cache' = u /\ recent' = recent
  BY <1>1, <1>3 DEF Put, Placed, history
<1>6. EntriesOK'
  BY <1>4, <1>5 DEF Inv, EntriesOK, Distinct
<1>7. AllSound'
  <2>1. \A i \in 1..Len(u) : \/ Sound(u[i])'
                             \/ \E m \in 1..Len(cache) : /\ u[i].key = cache[m].key
                                                         /\ u[i].response = cache[m].response
                                                         /\ u[i].group = cache[m].group
                                                         /\ u[i].embedding = cache[m].embedding
    BY <1>2, <1>4
  <2> QED BY <1>5, <2>1, RestIsSound
<1> QED BY <1>6, <1>7 DEF StoreFine, UsedInOrder

-----------------------------------------------------------------------------
(* Steps of the sorted sets. *)

\* A set that lists less is as good.
LEMMA ListsLess ==
    ASSUME NEW g, NEW members, Lists(members, g), NEW T \in SUBSET members
    PROVE  Lists(T, g)
<1>1. IsFiniteSet(T) /\ Cardinality(T) <= Cardinality(members)
  BY FS_Subset DEF Lists
<1>2. Cardinality(T) \in Nat /\ Cardinality(members) \in Nat /\ MaxGroupSize \in Nat
  BY <1>1, FS_CardinalityType, RedisAssumption DEF Lists
<1>3. Cardinality(T) <= MaxGroupSize
  BY <1>1, <1>2 DEF Lists
<1> QED BY <1>1, <1>3 DEF Lists

\* Every group lists less.
LEMMA IndexShrinks ==
    ASSUME Inv, index' = [g \in Groups |-> index'[g]],
           \A g \in Groups : index'[g] \subseteq index[g]
    PROVE  IndexOK'
<1>1. ASSUME NEW g \in Groups
      PROVE  Lists(index'[g], g)
  BY ListsLess DEF Inv, IndexOK
<1>2. \A g \in Groups : Lists(index[g], g)'
  BY <1>1 DEF Lists
<1> QED BY <1>2 DEF IndexOK

\* Nothing is listed, and nothing dropped.
LEMMA IdleIndexFine ==
    ASSUME Inv, index' = index
    PROVE  IndexOK'
BY DEF Inv, IndexOK, Lists

\* Keys are dropped from a group.
LEMMA UnlistedFine ==
    ASSUME Inv, NEW group, NEW keys, index' = UnlistedAt(group, keys)
    PROVE  IndexOK'
<1>1. index = [g \in Groups |-> index[g]]
  BY DEF Inv, IndexOK
<1>2. \/ index' = index
      \/ index' = [index EXCEPT ![group] = {m \in @ : m.key \notin keys}]
  BY DEF UnlistedAt
<1>3. CASE index' = index
  BY <1>3, IdleIndexFine
<1>4. CASE index' = [index EXCEPT ![group] = {m \in @ : m.key \notin keys}]
  <2>1. index' = [g \in Groups |-> IF g = group THEN {m \in index[g] : m.key \notin keys}
                                   ELSE index[g]]
    BY <1>1, <1>4
  <2>2. /\ index' = [g \in Groups |-> index'[g]]
        /\ \A g \in Groups : index'[g] \subseteq index[g]
    BY <2>1
  <2> QED BY <2>2, IndexShrinks
<1> QED BY <1>2, <1>3, <1>4

\* A write lists its key, and trims the group.
LEMMA PutIndexFine ==
    ASSUME Inv, NEW c \in Calls, Put(c)
    PROVE  IndexOK'
<1>1. PICK e : e = entry[c]
  OBVIOUS
<1>2. phase[c] = "write" /\ CallOK(c) /\ prompt[c] \in Prompts
  BY DEF Put, Inv, CallOK
<1>3. e \in Entries /\ e.key = prompt[c] /\ e.group \in {prompt[c].group, None}
  BY <1>1, <1>2 DEF CallOK
<1>4. CASE e.group = None
  <2>1. index' = index
    BY <1>1, <1>4 DEF Put
  <2> QED BY <2>1, IdleIndexFine
<1>5. CASE e.group # None
  <2>1. PICK group : group = e.group
    OBVIOUS
  <2>2. group \in Groups /\ group = e.key.group /\ e.key \in Prompts /\ e.created \in Nat
    BY <1>2, <1>3, <1>5, <2>1, RedisAssumption, EntryHas
  <2>3. PICK members : members = {m \in index[group] : m.key # e.key}
                                    \union {[key |-> e.key, created |-> e.created]}
    OBVIOUS
  <2>4. PICK newest \in SUBSET members :
           /\ Trimmed(newest, members)
           /\ index' = [index EXCEPT ![group] = newest]
    BY <1>1, <1>5, <2>1, <2>3 DEF Put
  <2>5. index = [g \in Groups |-> index[g]] /\ \A g \in Groups : Lists(index[g], g)
    BY DEF Inv, IndexOK
  <2>6. PICK kept : kept = {m \in index[group] : m.key # e.key}
    OBVIOUS
  <2>7. PICK new : new = [key |-> e.key, created |-> e.created]
    OBVIOUS
  <2>8. members = kept \union {new} /\ kept \subseteq index[group]
    BY <2>3, <2>6, <2>7
  <2>9. IsFiniteSet(index[group])
    BY <2>2, <2>5 DEF Lists
  <2>10. IsFiniteSet(kept)
    BY <2>8, <2>9, FS_Subset
  <2>11. IsFiniteSet(members)
    BY <2>8, <2>10, FS_AddElement
  <2>12. IsFiniteSet(newest)
    BY <2>11, FS_Subset
  <2>13. Cardinality(newest) \in Nat /\ Cardinality(members) \in Nat /\ MaxGroupSize \in Nat
    BY <2>11, <2>12, FS_CardinalityType, RedisAssumption
  <2>14. Cardinality(newest) <= MaxGroupSize
    BY <2>4, <2>13 DEF Trimmed, IsNewest
  <2>15. new \in Members /\ new.key = e.key /\ new.key.group = group
    BY <2>2, <2>7 DEF Members
  <2>16. \A m \in members : m \in Members /\ m.key.group = group
    BY <2>2, <2>5, <2>8, <2>15 DEF Lists
  <2>17. ASSUME NEW m \in members, NEW n \in members, m.key = n.key
         PROVE  m = n
    <3>1. \A x \in kept : x.key # e.key
      BY <2>6
    <3>2. CASE m \in kept /\ n \in kept
      BY <2>2, <2>5, <2>8, <2>17, <3>2 DEF Lists
    <3>3. CASE ~(m \in kept /\ n \in kept)
      BY <2>8, <2>15, <2>17, <3>1, <3>3
    <3> QED BY <3>2, <3>3
  <2>18. Lists(newest, group)
    BY <2>12, <2>14, <2>16, <2>17 DEF Lists
  <2>19. index' = [g \in Groups |-> IF g = group THEN newest ELSE index[g]]
    BY <2>4, <2>5
  <2>20. \A g \in Groups : Lists(index'[g], g)
    BY <2>5, <2>18, <2>19
  <2>21. \A g \in Groups : Lists(index[g], g)'
    BY <2>20 DEF Lists
  <2>22. index' = [g \in Groups |-> index'[g]]
    BY <2>19
  <2> QED BY <2>21, <2>22 DEF IndexOK
<1> QED BY <1>4, <1>5

-----------------------------------------------------------------------------
(* Every step keeps the invariant. *)

\* A step of a call does, when it does nothing wrong to the store.
LEMMA CallStepKeeps ==
    ASSUME Inv, NEW c \in Calls, Proceeds(c), SoundStays => StoreFine, IndexOK',
           now' = now, store' = store
    PROVE  Inv'
<1>1. CallTypes' /\ (\A d \in Calls : CallOK(d)') /\ SoundStays
  BY OthersKeep DEF SoundStays
<1>2. StoreFine
  BY <1>1
<1>3. (now \in 0..MaxTime)' /\ (store \in Stores)'
  BY DEF Inv
<1>4. (\A d \in Calls : CallOK(d))'
  BY <1>1
<1> QED BY <1>1, <1>2, <1>3, <1>4 DEF Inv, StoreFine

\* So does a step of the application, the server or the clock.
LEMMA CalmStepKeeps ==
    ASSUME Inv, UNCHANGED local, lookedAt' = lookedAt, held' = held,
           SoundStays => StoreFine, IndexOK', now' \in 0..MaxTime, store' = store
    PROVE  Inv'
<1>1. CallTypes' /\ Calm
  BY DEF Inv, CallTypes, Calm, Same, local
<1>2. (\A d \in Calls : CallOK(d)') /\ SoundStays
  BY <1>1, AllKeep DEF SoundStays
<1>3. StoreFine
  BY <1>2
<1>4. (now \in 0..MaxTime)' /\ (store \in Stores)'
  BY DEF Inv
<1>5. (\A d \in Calls : CallOK(d))'
  BY <1>2
<1> QED BY <1>1, <1>3, <1>4, <1>5 DEF Inv, StoreFine

\* A step of a call over the LRU store.
LEMMA StepKeeps ==
    ASSUME Inv, NEW c \in Calls, Step(c), UNCHANGED redis, store' = store
    PROVE  Inv'
<1>1. Proceeds(c)
  BY StepProceeds
<1>2. now' = now
  BY DEF Step, Read, ReadFails, EmbedText, EmbedFails, EmbedderMissing, Match, MatchFails,
         RecordHit, RecordHitFails, Answer, Fail, Write, WriteFails
<1>3. IndexOK'
  BY IdleIndexFine DEF redis
<1>4. ASSUME SoundStays
      PROVE  StoreFine
  <2>1. CASE Read(c)
    <3>1. CASE prompt[c] \in Keys /\ ~Expired(EntryOf(prompt[c]))
      BY <1>4, <2>1, <3>1, TouchFine DEF Read
    <3>2. CASE ~(prompt[c] \in Keys /\ ~Expired(EntryOf(prompt[c])))
      BY <1>4, <2>1, <3>2, WithoutFine DEF Read
    <3> QED BY <3>1, <3>2
  <2>2. CASE RecordHit(c)
    <3>1. CASE entry[c].key \in Keys
      BY <1>4, <2>2, <3>1, TouchFine DEF RecordHit
    <3>2. CASE entry[c].key \notin Keys
      BY <1>4, <2>2, <3>2, IdleStoreFine DEF RecordHit
    <3> QED BY <3>1, <3>2
  <2>3. CASE Write(c)
    BY <1>4, <2>3, WriteFine
  <2>4. CASE Match(c) \/ LayerStep(c)
    <3>1. cache' = cache /\ recent' = recent
      BY <2>4 DEF Match, LayerStep, ReadFails, EmbedText, EmbedFails, EmbedderMissing,
                  MatchFails, RecordHitFails, Answer, Fail, WriteFails, history
    <3> QED BY <1>4, <3>1, IdleStoreFine
  <2> QED BY <2>1, <2>2, <2>3, <2>4 DEF Step, LayerStep
<1> QED BY <1>1, <1>2, <1>3, <1>4, CallStepKeeps

\* A step of a call over Redis.
LEMMA RedisStepKeeps ==
    ASSUME Inv, NEW c \in Calls, RedisStep(c), store = "redis", store' = store
    PROVE  Inv'
<1>1. Proceeds(c)
  BY RedisStepProceeds
<1>2. now' = now
  BY DEF RedisStep, Get, CountHit, DropExpired, RemoveExpired, GetFails, ListNewest, Fetch,
         Prune, CandidatesFail, CountSimilar, Put, LayerStep,
         ReadFails, EmbedText, EmbedFails, EmbedderMissing, MatchFails,
         RecordHitFails, Answer, Fail, WriteFails
<1>3. CASE Put(c)
  BY <1>1, <1>2, <1>3, PutFine, PutIndexFine, CallStepKeeps
<1>4. CASE RemoveExpired(c)
  <2>1. PICK group \in held[c] : Removed(prompt[c], group)
    BY <1>4 DEF RemoveExpired
  <2>2. IndexOK'
    BY <2>1, UnlistedFine DEF Removed
  <2>3. cache' = Without(prompt[c]) /\ recent' = recent
    BY <1>4, <2>1 DEF Removed, RemoveExpired, history
  <2> QED BY <1>1, <1>2, <2>2, <2>3, WithoutFine, CallStepKeeps
<1>5. CASE Prune(c)
  <2>1. IndexOK'
    BY <1>5, UnlistedFine DEF Prune
  <2>2. cache' = cache /\ recent' = recent
    BY <1>5 DEF Prune, history
  <2> QED BY <1>1, <1>2, <2>1, <2>2, IdleStoreFine, CallStepKeeps
<1>6. CASE \/ Get(c) \/ CountHit(c) \/ DropExpired(c) \/ GetFails(c) \/ ListNewest(c)
           \/ Fetch(c) \/ CandidatesFail(c) \/ CountSimilar(c) \/ LayerStep(c)
  <2>1. cache' = cache /\ recent' = recent /\ index' = index
    BY <1>6 DEF Get, CountHit, DropExpired, GetFails, ListNewest, Fetch, CandidatesFail,
                CountSimilar, LayerStep, ReadFails, EmbedText, EmbedFails, EmbedderMissing,
                MatchFails, RecordHitFails, Answer, Fail, WriteFails, history, redis
  <2> QED BY <1>1, <1>2, <2>1, IdleStoreFine, IdleIndexFine, CallStepKeeps
<1> QED BY <1>3, <1>4, <1>5, <1>6 DEF RedisStep

\* A call begins, over either store.
LEMMA BeginKeeps ==
    ASSUME Inv, NEW c \in Calls, NEW p \in Prompts, NEW conf \in Configs, Begin(c, p, conf),
           UNCHANGED redis, store' = store
    PROVE  Inv'
<1>1. Proceeds(c)
  BY BeginProceeds DEF redis
<1>2. now' = now /\ cache' = cache /\ recent' = recent /\ index' = index
  BY DEF Begin, history, redis
<1> QED BY <1>1, <1>2, IdleStoreFine, IdleIndexFine, CallStepKeeps

\* The application deletes or clears, the clock ticks, the server drops a key.
LEMMA OutsideKeeps ==
    ASSUME Inv, store' = store,
           \/ (\E p \in Prompts : Delete(p)) /\ UNCHANGED redis
           \/ (Clear \/ Tick \/ Finished) /\ UNCHANGED redis
           \/ \E p \in Prompts : BeginDelete(p) \/ Vanish(p)
           \/ EndDelete \/ ScanEntries \/ ScanGroups \/ EndClear
    PROVE  Inv'
<1>1. /\ UNCHANGED local /\ lookedAt' = lookedAt /\ recent' = recent /\ held' = held
  BY DEF Delete, Clear, Tick, Finished, BeginDelete, Vanish, EndDelete, ScanEntries, ScanGroups,
         EndClear, vars, history, redis
<1>2. now' \in 0..MaxTime
  <2>1. CASE Tick
    BY <2>1, CacheAssumption DEF Tick, Inv
  <2>2. CASE now' = now
    BY <2>2 DEF Inv
  <2> QED BY <2>1, <2>2 DEF Delete, Clear, Finished, BeginDelete, Vanish, EndDelete,
                            ScanEntries, ScanGroups, EndClear, vars
<1>3. IndexOK'
  <2>1. CASE EndDelete
    BY <2>1, UnlistedFine DEF EndDelete, Removed
  <2>2. CASE EndClear
    <3>1. index' = [g \in Groups |-> IF g \in removal.groups THEN {} ELSE index[g]]
      BY <2>2 DEF EndClear
    <3>2. /\ index' = [g \in Groups |-> index'[g]]
          /\ \A g \in Groups : index'[g] \subseteq index[g]
      BY <3>1
    <3> QED BY <3>2, IndexShrinks
  <2>3. CASE index' = index
    BY <2>3, IdleIndexFine
  <2> QED BY <2>1, <2>2, <2>3 DEF BeginDelete, Vanish, ScanEntries, ScanGroups, redis
<1>4. ASSUME SoundStays
      PROVE  StoreFine
  <2>1. CASE \E p \in Prompts : Delete(p) \/ Vanish(p)
    BY <1>1, <1>4, <2>1, WithoutFine DEF Delete, Vanish
  <2>2. CASE EndDelete
    BY <1>1, <1>4, <2>2, WithoutFine DEF EndDelete, Removed
  <2>3. CASE Clear
    BY <1>1, <1>4, <2>3, ClearFine DEF Clear
  <2>4. CASE EndClear
    BY <1>1, <1>4, <2>4, DroppingFine DEF EndClear
  <2>5. CASE cache' = cache
    BY <1>1, <1>4, <2>5, IdleStoreFine
  <2> QED BY <2>1, <2>2, <2>3, <2>4, <2>5 DEF Tick, Finished, BeginDelete, ScanEntries,
                                             ScanGroups, vars
<1> QED BY <1>1, <1>2, <1>3, <1>4, CalmStepKeeps

\* Nothing has happened yet: what is in the store was left by earlier calls.
LEMMA InitInv == SharedInit => Inv
<1> SUFFICES ASSUME SharedInit PROVE Inv
  OBVIOUS
<1>1. Init /\ cache \in Earlier
  BY DEF SharedInit, Init
<1>2. PICK s \in Earlier : s = cache
  BY <1>1
<1>3. /\ s \in Seq(Entries) /\ Len(s) <= MaxEntries
      /\ \A i, j \in DOMAIN s : s[i].key = s[j].key => i = j
  BY CacheAssumption
<1>4. \A i \in 1..Len(s) : s[i] \in Entries /\ s[i] \in LeftEntries /\ s[i].key \in Prompts
  <2>1. ASSUME NEW i \in 1..Len(s)
        PROVE  s[i] \in Entries /\ s[i] \in LeftEntries /\ s[i].key \in Prompts
    <3>1. s[i] \in Entries
      BY <1>3
    <3>2. s[i] \in ToSet(s)
      BY <1>3 DEF ToSet
    <3> QED BY <3>1, <3>2, EntryHas DEF LeftEntries
  <2> QED BY <2>1
<1>5. recent = [i \in 1..Len(s) |-> s[i].key]
  BY <1>1, <1>2, <1>3 DEF Init
<1>6. recent \in Seq(Prompts) /\ Len(recent) = Len(s) /\ \A i \in 1..Len(s) : recent[i] = s[i].key
  BY <1>3, <1>4, <1>5
<1>7. EntriesOK
  BY <1>2, <1>3, <1>6 DEF EntriesOK, Distinct
<1>8. AllSound
  <2>1. SUFFICES ASSUME NEW i \in 1..Len(s) PROVE Sound(s[i])
    BY <1>2 DEF AllSound
  <2>2. /\ ~s[i].response.refused /\ s[i].group \in {s[i].key.group, None}
        /\ VectorOfItsText(s[i])
    BY <1>4, CacheAssumption DEF VectorOfItsText
  <2>3. i \in DOMAIN s
    BY <1>3
  <2> QED BY <2>2, <2>3 DEF Sound
<1>9. UsedInOrder
  <2>1. \A i \in 1..Len(s) : \E a \in 1..Len(recent) : recent[a] = s[i].key
    BY <1>6
  <2>2. ASSUME NEW i \in 1..Len(s), NEW j \in 1..Len(s), i < j
        PROVE  \E a, b \in 1..Len(recent) : a < b /\ recent[a] = s[i].key /\ recent[b] = s[j].key
    <3>1. i \in 1..Len(recent) /\ j \in 1..Len(recent)
      BY <1>6
    <3> QED BY <1>6, <2>2, <3>1
  <2>3. Ordered(s, recent)
    BY <2>1, <2>2 DEF Ordered
  <2> QED BY <1>2, <1>3, <2>3 DEF UsedInOrder
<1>10. IndexOK
  <2>1. index = [g \in Groups |-> {[key |-> e.key, created |-> e.created] :
                                    e \in {x \in ToSet(s) : store = "redis" /\ x.group = g}}]
    BY <1>2 DEF SharedInit
  <2>2. SUFFICES ASSUME NEW g \in Groups PROVE Lists(index[g], g)
    BY <2>1 DEF IndexOK
  <2>3. PICK X : X = {x \in ToSet(s) : store = "redis" /\ x.group = g}
    OBVIOUS
  <2>4. index[g] = {[key |-> e.key, created |-> e.created] : e \in X}
    BY <2>1, <2>3
  <2>5. \A e \in ToSet(s) : \E i \in 1..Len(s) : e = s[i]
    BY <1>3 DEF ToSet
  <2>6. \A e \in X : e \in Entries /\ e \in LeftEntries /\ e.group = g
    BY <1>4, <2>3, <2>5
  <2>7. \A e \in X : [key |-> e.key, created |-> e.created] \in Members /\ e.key.group = g
    <3>1. SUFFICES ASSUME NEW e \in X
                   PROVE  /\ [key |-> e.key, created |-> e.created] \in Members
                          /\ e.key.group = g
      OBVIOUS
    <3>2. e.key \in Prompts /\ e.created \in Nat
      BY <2>6, EntryHas
    <3>3. e.key.group = g
      BY <2>6, CacheAssumption, RedisAssumption
    <3> QED BY <3>2, <3>3 DEF Members
  <2>8. \A m \in index[g] : m \in Members /\ m.key.group = g
    BY <2>4, <2>7
  <2>9. ASSUME NEW m \in index[g], NEW n \in index[g], m.key = n.key
        PROVE  m = n
    <3>1. PICK e \in X, f \in X : /\ m = [key |-> e.key, created |-> e.created]
                                  /\ n = [key |-> f.key, created |-> f.created]
      BY <2>4
    <3>2. PICK i \in 1..Len(s), j \in 1..Len(s) : e = s[i] /\ f = s[j]
      BY <2>3, <2>5
    <3>3. s[i].key = s[j].key /\ i \in DOMAIN s /\ j \in DOMAIN s
      BY <1>3, <2>9, <3>1, <3>2
    <3>4. i = j
      BY <1>3, <3>3
    <3> QED BY <3>1, <3>2, <3>4
  <2>10. IsFiniteSet(ToSet(s))
    <3>1. PICK f : f = [i \in 1..Len(s) |-> s[i]]
      OBVIOUS
    <3>2. f \in [1..Len(s) -> ToSet(s)] /\ \A e \in ToSet(s) : \E i \in 1..Len(s) : f[i] = e
      BY <1>3, <2>5, <3>1 DEF ToSet
    <3>3. f \in Surjection(1..Len(s), ToSet(s))
      BY <3>2 DEF Surjection
    <3>4. Len(s) \in Nat
      BY <1>3
    <3>5. ExistsSurjection(1..Len(s), ToSet(s))
      BY <3>3 DEF ExistsSurjection
    <3> QED BY <3>4, <3>5, FS_NatSurjection
  <2>11. PICK Y : Y = {e \in ToSet(s) : e.group = g}
    OBVIOUS
  <2>12. IsFiniteSet(Y) /\ X \in SUBSET Y
    BY <2>3, <2>10, <2>11, FS_Subset
  <2>13. IsFiniteSet(X) /\ Cardinality(X) <= Cardinality(Y)
    BY <2>12, FS_Subset
  <2>14. Cardinality(Y) <= MaxGroupSize
    BY <2>11, RedisAssumption
  <2>15. PICK f : f = [e \in X |-> [key |-> e.key, created |-> e.created]]
    OBVIOUS
  <2>16. f \in Surjection(X, index[g])
    BY <2>4, <2>15 DEF Surjection
  <2>17. IsFiniteSet(index[g]) /\ Cardinality(index[g]) <= Cardinality(X)
    BY <2>13, <2>16, FS_Surjection
  <2>18. /\ Cardinality(index[g]) \in Nat /\ Cardinality(X) \in Nat /\ Cardinality(Y) \in Nat
         /\ MaxGroupSize \in Nat
    BY <2>12, <2>13, <2>17, FS_CardinalityType, RedisAssumption
  <2>19. Cardinality(index[g]) <= MaxGroupSize
    BY <2>13, <2>14, <2>17, <2>18
  <2> QED BY <2>8, <2>9, <2>17, <2>19 DEF Lists
<1>11. CallTypes /\ \A c \in Calls : CallOK(c)
  <2>1. CallTypes
    BY <1>1 DEF SharedInit, Init, CallTypes, Phases
  <2>2. \A c \in Calls : phase[c] = "new" /\ entry[c] = None /\ embedding[c] = None
    BY <1>1 DEF Init
  <2>3. \A c \in Calls : CallOK(c)
    BY <2>2 DEF CallOK
  <2> QED BY <2>1, <2>3
<1>12. now \in 0..MaxTime /\ store \in Stores
  BY <1>1, CacheAssumption DEF Init, SharedInit
<1> QED BY <1>7, <1>8, <1>9, <1>10, <1>11, <1>12 DEF Inv

\* Nothing changes.
LEMMA StutterKeeps ==
    ASSUME Inv, UNCHANGED allVars
    PROVE  Inv'
<1>1. /\ UNCHANGED local /\ lookedAt' = lookedAt /\ recent' = recent /\ held' = held
      /\ cache' = cache /\ index' = index /\ now' = now /\ store' = store
  BY DEF allVars, vars, history, redis
<1> QED BY <1>1, IdleStoreFine, IdleIndexFine, CalmStepKeeps DEF Inv

-----------------------------------------------------------------------------
(* The theorems. *)

\* Whatever the calls, the application, the server and the clock do in whichever order, the
\* invariant holds: for any number of calls, prompts, configurations, entries and groups.
THEOREM Invariance == SharedSpec => []Inv
<1>1. ASSUME Inv, [SharedNext]_allVars
      PROVE  Inv'
  <2>1. CASE UNCHANGED allVars
    BY <1>1, <2>1, StutterKeeps
  <2>2. CASE store = "memory" /\ Next /\ UNCHANGED redis /\ UNCHANGED store
    BY <1>1, <2>2, StepKeeps, BeginKeeps, OutsideKeeps DEF Next
  <2>3. CASE store = "redis" /\ RedisNext /\ UNCHANGED store
    BY <1>1, <2>3, RedisStepKeeps, BeginKeeps, OutsideKeeps DEF RedisNext
  <2> QED BY <1>1, <2>1, <2>2, <2>3 DEF SharedNext
<1> QED BY InitInv, <1>1, PTL DEF SharedSpec

\* Types, and at every step of a call whether it holds an entry.
THEOREM TypeCorrect == SharedSpec => []TypeOK
<1>1. Inv => TypeOK
  <2>1. SUFFICES ASSUME Inv PROVE TypeOK
    OBVIOUS
  <2>2. \A i \in DOMAIN cache : cache[i].key \in Prompts /\ cache[i].hits \in Nat
    <3>1. \A i \in DOMAIN cache : cache[i] \in Entries
      BY <2>1 DEF Inv, EntriesOK
    <3> QED BY <3>1, EntryHas
  <2>3. now \in 0..MaxTime /\ phase \in [Calls -> Phases]
        /\ \A c \in Calls : prompt[c] \in Prompts \union {None}
    BY <2>1 DEF Inv, CallTypes
  <2>4. ASSUME NEW c \in Calls
        PROVE  /\ phase[c] \in {"count", "hit", "write", "served", "answered"} => entry[c] # None
               /\ phase[c] \in {"new", "read", "embed", "match", "call", "failed"} => entry[c] = None
    <3>1. CallOK(c) /\ None \notin Entries
      BY <2>1, CacheAssumption DEF Inv
    <3> QED BY <3>1 DEF CallOK
  <2> QED BY <2>2, <2>3, <2>4 DEF TypeOK
<1> QED BY <1>1, Invariance, PTL

\* At most one entry of a key in either store, at most max_entries entries in the LRU store,
\* and at most max_group_size keys in a sorted set.
THEOREM SizesAreBounded == SharedSpec => []StoresBounded
<1>1. Inv => StoresBounded
  <2>1. SUFFICES ASSUME Inv PROVE StoresBounded
    OBVIOUS
  <2>2. cache \in Seq(Entries) /\ \A i, j \in DOMAIN cache : cache[i].key = cache[j].key => i = j
    BY <2>1 DEF Inv, EntriesOK, Distinct
  <2>3. CASE store = "memory"
    BY <2>1, <2>2, <2>3 DEF Inv, UsedInOrder, StoresBounded, Bounded
  <2>4. CASE store # "memory"
    <3>1. \A g \in Groups : Lists(index[g], g)
      BY <2>1 DEF Inv, IndexOK
    <3> QED BY <2>2, <2>4, <3>1 DEF StoresBounded, Lists
  <2> QED BY <2>3, <2>4
<1> QED BY <1>1, Invariance, PTL

\* A call is served an answer to its own question or, by a vector that some embedder has
\* given the text of its question, to a similar one of its group.
THEOREM ServesTheSameQuestion == SharedSpec => []SameQuestion
<1>1. Inv => SameQuestion
  <2>1. SUFFICES ASSUME Inv, NEW c \in Calls, phase[c] = "served", entry[c].key # prompt[c]
                 PROVE  /\ config[c].semantic
                        /\ entry[c].key.group = prompt[c].group
                        /\ \E v \in Vectors : LooksSimilar(c, v)
    BY DEF SameQuestion
  <2>2. AnswersSimilar(c, entry[c])
    BY <2>1 DEF Inv, CallOK
  <2> QED BY <2>2 DEF AnswersSimilar, Embedded, LooksSimilar
<1> QED BY <1>1, Invariance, PTL

\* What a call is served had not expired when the call looked.
THEOREM ServesWhatIsAlive == SharedSpec => []ServedAlive
<1>1. Inv => ServedAlive
  BY DEF Inv, CallOK, LookedInTime, ServedAlive
<1> QED BY <1>1, Invariance, PTL

\* Everything in a store is an answer some call got for that very prompt, in its own group,
\* and no refusal.
THEOREM KeepsAnswersOnly == SharedSpec => []HoldsAnswers
<1>1. Inv => HoldsAnswers
  <2>1. SUFFICES ASSUME Inv, NEW e \in ToSet(cache) PROVE Sound(e)
    BY DEF HoldsAnswers, Sound
  <2>2. PICK i \in 1..Len(cache) : e = cache[i]
    BY <2>1 DEF ToSet, Inv, EntriesOK
  <2> QED BY <2>1, <2>2 DEF Inv, AllSound
<1> QED BY <1>1, Invariance, PTL

Evicts(c) == \A p \in Keys \ Keys', q \in Keys' :
                \E i, j \in DOMAIN recent' : i < j /\ recent'[i] = p /\ recent'[j] = q

\* The LRU store evicts from the end where the entries used longest ago are.
LEMMA WriteEvicts ==
    ASSUME Inv, store = "memory", NEW c \in Calls, Write(c)
    PROVE  Evicts(c)
<1>1. phase[c] = "write" /\ CallOK(c)
  BY DEF Write, Inv
<1>2. PICK e : e = entry[c]
  OBVIOUS
<1>3. e \in Entries
  BY <1>1, <1>2 DEF CallOK
<1>4. PICK u : u = Placed(e)
  OBVIOUS
<1>5. PICK r2 : r2 = Append(Kept(recent, Prompts \ {e.key}), e.key)
  OBVIOUS
<1>6. /\ u \in Seq(Entries) /\ r2 \in Seq(Prompts) /\ Ordered(u, r2)
      /\ Len(u) \in Nat \ {0} /\ u[Len(u)] = e
      /\ \A m \in 1..Len(cache) : cache[m].key # e.key => \E i \in 1..Len(u) : u[i] = cache[m]
  BY <1>3, <1>4, <1>5, PlacedFacts
<1>7. PICK t : t = Newest(u)
  OBVIOUS
<1>8. cache' = t /\ recent' = r2
  BY <1>2, <1>4, <1>5, <1>7 DEF Write, With, Use, Placed
<1>9. PICK d \in Nat : /\ t \in Seq(Entries) /\ Len(t) = Len(u) - d
                       /\ d > 0 => Len(t) = MaxEntries
                       /\ \A i \in 1..Len(t) : t[i] = u[d + i]
  BY <1>6, <1>7, NewestFacts
<1>10. MaxEntries \in Nat \ {0}
  BY CacheAssumption
<1>11. d < Len(u)
  BY <1>6, <1>9, <1>10
<1>12. Keys' = {t[i].key : i \in 1..Len(t)}
  BY <1>8, <1>9 DEF Keys
<1>13. ASSUME NEW i \in 1..Len(u), i > d
       PROVE  u[i].key \in Keys'
  <2>1. PICK n : n = i - d
    OBVIOUS
  <2>2. n \in 1..Len(t) /\ d + n = i
    BY <1>6, <1>9, <1>13, <2>1
  <2>3. t[n] = u[i]
    BY <1>9, <2>2
  <2> QED BY <1>12, <2>2, <2>3
<1>14. SUFFICES ASSUME NEW p \in Keys \ Keys', NEW q \in Keys'
                PROVE  \E i, j \in 1..Len(r2) : i < j /\ r2[i] = p /\ r2[j] = q
  BY <1>6, <1>8 DEF Evicts
<1>15. PICK m \in 1..Len(cache) : p = cache[m].key
  BY DEF Keys, Inv, EntriesOK
<1>16. p # e.key
  <2>1. Len(u) \in 1..Len(u) /\ Len(u) > d
    BY <1>6, <1>11
  <2> QED BY <1>6, <1>13, <2>1
<1>17. PICK i \in 1..Len(u) : p = u[i].key
  BY <1>6, <1>15, <1>16
<1>18. i <= d
  BY <1>13, <1>17
<1>19. PICK n \in 1..Len(t) : q = t[n].key
  BY <1>12
<1>20. d + n \in 1..Len(u) /\ q = u[d + n].key /\ i < d + n
  BY <1>6, <1>9, <1>18, <1>19
<1>21. \E a, b \in 1..Len(r2) : a < b /\ r2[a] = u[i].key /\ r2[b] = u[d + n].key
  BY <1>6, <1>20 DEF Ordered
<1> QED BY <1>17, <1>20, <1>21

\* Redis evicts nothing when a call writes.
LEMMA PutEvicts ==
    ASSUME Inv, RedisNext, NEW c \in Calls, Write(c)
    PROVE  Evicts(c)
<1>1. phase[c] = "write" /\ CallOK(c) /\ phase \in [Calls -> Phases] /\ cache \in Seq(Entries)
  BY DEF Write, Inv, CallTypes, EntriesOK
<1>2. phase'[c] = "answered"
  BY <1>1 DEF Write, Goto
<1>3. RedisStep(c)
  <2>1. ASSUME NEW d \in Calls, RedisStep(d), d # c PROVE FALSE
    BY <1>1, <1>2, <2>1, RedisStepProceeds DEF Proceeds, Same
  <2>2. ASSUME NEW d \in Calls, NEW p \in Prompts, NEW conf \in Configs, Begin(d, p, conf)
        PROVE  FALSE
    BY <1>1, <1>2, <2>2 DEF Begin, Goto
  <2>3. phase' # phase
    BY <1>1, <1>2
  <2> QED BY <2>1, <2>2, <2>3 DEF RedisNext, BeginDelete, Vanish, EndDelete, ScanEntries,
                                  ScanGroups, EndClear, Tick, Finished, local, vars
<1>4. Put(c) \/ WriteFails(c)
  BY <1>1, <1>3 DEF RedisStep, Get, CountHit, DropExpired, RemoveExpired, GetFails, ListNewest,
                    Fetch, Prune, CandidatesFail, CountSimilar, LayerStep, ReadFails, EmbedText,
                    EmbedFails, EmbedderMissing, MatchFails, RecordHitFails, Answer, Fail
<1>5. PICK e : e = entry[c]
  OBVIOUS
<1>6. e \in Entries
  BY <1>1, <1>5 DEF CallOK
<1>7. PICK u : u = Placed(e)
  OBVIOUS
<1>8. /\ u \in Seq(Entries) /\ Len(u) \in Nat \ {0} /\ u[Len(u)] = e
      /\ \A m \in 1..Len(cache) : cache[m].key # e.key => \E i \in 1..Len(u) : u[i] = cache[m]
  <2>1. /\ Placed(e) \in Seq(Entries)
        /\ Len(Placed(e)) \in Nat \ {0} /\ Placed(e)[Len(Placed(e))] = e
    BY <1>6, PlacedFacts
  <2>2. \A m \in 1..Len(cache) : cache[m].key # e.key =>
            \E i \in 1..Len(Placed(e)) : Placed(e)[i] = cache[m]
    BY <1>6, PlacedFacts
  <2>3. u \in Seq(Entries) /\ Len(u) \in Nat \ {0} /\ u[Len(u)] = e
    BY <1>7, <2>1
  <2>4. \A m \in 1..Len(cache) : cache[m].key # e.key => \E i \in 1..Len(u) : u[i] = cache[m]
    BY <1>7, <2>2
  <2> QED BY <2>3, <2>4
<1>9. Keys \subseteq Keys'
  <2>1. CASE Put(c)
    <3>1. cache' = u
      BY <1>5, <1>7, <2>1 DEF Put, Placed
    <3>0. Keys = {cache[i].key : i \in 1..Len(cache)} /\ Keys' = {u[i].key : i \in 1..Len(u)}
      <4>1. DOMAIN cache = 1..Len(cache) /\ DOMAIN u = 1..Len(u)
        BY <1>1, <1>8
      <4> QED BY <3>1, <4>1 DEF Keys
    <3>2. SUFFICES ASSUME NEW m \in 1..Len(cache) PROVE cache[m].key \in {u[i].key : i \in 1..Len(u)}
      BY <3>0
    <3>3. CASE cache[m].key = e.key
      <4>1. Len(u) \in 1..Len(u)
        BY <1>8
      <4> QED BY <1>8, <3>3, <4>1
    <3>4. CASE cache[m].key # e.key
      BY <1>8, <3>4
    <3> QED BY <3>3, <3>4
  <2>2. CASE WriteFails(c)
    BY <2>2 DEF WriteFails, Keys
  <2> QED BY <1>4, <2>1, <2>2
<1> QED BY <1>9 DEF Evicts

\* A write evicts only what was used longer ago than everything that stays.
THEOREM EvictsTheOldest == SharedSpec => EvictsLeastRecent
<1>1. ASSUME Inv, [SharedNext]_allVars
      PROVE  [\A c \in Calls : Write(c) =>
                 \A p \in Keys \ Keys', q \in Keys' :
                    \E i, j \in DOMAIN recent' : i < j /\ recent'[i] = p /\ recent'[j] = q]_vars
  <2>1. CASE UNCHANGED allVars
    BY <2>1 DEF allVars
  <2>2. CASE SharedNext
    <3>1. ASSUME NEW c \in Calls, Write(c) PROVE Evicts(c)
      BY <1>1, <2>2, <3>1, WriteEvicts, PutEvicts DEF SharedNext
    <3> QED BY <3>1 DEF Evicts
  <2> QED BY <1>1, <2>1, <2>2
<1> QED BY <1>1, Invariance, PTL DEF SharedSpec, EvictsLeastRecent
=============================================================================
