----------------------------- MODULE ScopesProofs -----------------------------
(***************************************************************************)
(* Proofs about Scopes: whatever contexts exist and whichever tasks share  *)
(* them, a call gets the protections of the frames it is made in.          *)
(*                                                                         *)
(* The code keeps no stack of frames.  The invariant finds for each task   *)
(* the level of contexts and of entered budgets at which each frame was     *)
(* entered, and says what the context at every level holds.                *)
(***************************************************************************)
EXTENDS Scopes, WellFoundedInduction, FiniteSetTheorems, SequenceTheorems, TLAPS

-----------------------------------------------------------------------------
(* Induction over the natural numbers, in terms of sets and functions. *)

\* A set that has 0, and with every number the next, has all natural numbers.
LEMMA SetInduction ==
    ASSUME NEW S, 0 \in S, \A n \in Nat : n \in S => n + 1 \in S
    PROVE  Nat \subseteq S
<1> DEFINE T == Nat \ S
<1> SUFFICES ASSUME T # {} PROVE FALSE
    OBVIOUS
<1>1. PICK x \in T : \A y \in T : ~(<<y, x>> \in OpToRel(<, Nat))
    BY WFMin, NatLessThanWellFounded
<1>2. x # 0 /\ x - 1 \in Nat
    OBVIOUS
<1>3. x - 1 \in T
    OBVIOUS
<1>4. <<x - 1, x>> \in OpToRel(<, Nat)
    BY <1>2 DEF OpToRel
<1> QED BY <1>1, <1>3, <1>4

-----------------------------------------------------------------------------
(* Greatest and least numbers. *)

\* A set of numbers with a bound has a greatest one.
LEMMA MaxIsGreatest ==
    ASSUME NEW N \in Nat, NEW S \in SUBSET (0..N), S # {}
    PROVE  Max(S) \in S /\ \A y \in S : y <= Max(S)
<1> DEFINE I == {n \in Nat : \A T \in SUBSET (0..n) : T # {} => \E x \in T : \A y \in T : x >= y}
<1>1. 0 \in I
  <2>1. SUFFICES ASSUME NEW T \in SUBSET (0..0), T # {}
                 PROVE  \E x \in T : \A y \in T : x >= y
    OBVIOUS
  <2>2. PICK x \in T : TRUE
    BY <2>1
  <2>3. x = 0 /\ \A y \in T : y = 0
    OBVIOUS
  <2> QED BY <2>3
<1>2. ASSUME NEW n \in Nat, n \in I
      PROVE  n + 1 \in I
  <2>1. SUFFICES ASSUME NEW T \in SUBSET (0..(n + 1)), T # {}
                 PROVE  \E x \in T : \A y \in T : x >= y
    OBVIOUS
  <2>2. CASE n + 1 \in T
    BY <2>2
  <2>3. CASE n + 1 \notin T
    <3>1. T \in SUBSET (0..n)
      BY <2>3
    <3> QED BY <1>2, <2>1, <3>1
  <2> QED BY <2>2, <2>3
<1>3. N \in I
  <2> HIDE DEF I
  <2> QED BY <1>1, <1>2, SetInduction
<1>4. \E x \in S : \A y \in S : x >= y
  BY <1>3
<1>5. Max(S) \in S /\ \A y \in S : Max(S) >= y
  BY <1>4 DEF Max
<1> QED BY <1>5

\* Natural numbers have a least one.
LEMMA MinIsLeast ==
    ASSUME NEW S \in SUBSET Nat, S # {}
    PROVE  Min(S) \in S /\ \A y \in S : Min(S) <= y
<1>1. PICK x \in S : \A y \in S : ~(<<y, x>> \in OpToRel(<, Nat))
  BY WFMin, NatLessThanWellFounded
<1>2. ASSUME NEW y \in S
      PROVE  x <= y
  <2>1. SUFFICES ASSUME y < x PROVE FALSE
    OBVIOUS
  <2>2. <<y, x>> \in OpToRel(<, Nat)
    BY <2>1 DEF OpToRel
  <2> QED BY <1>1, <2>2
<1> QED BY <1>2 DEF Min

-----------------------------------------------------------------------------
(* Chains of contexts. *)

\* Every context of C was created in one that is older, or in none.
Older(C) == \A i \in 1..Len(C) : C[i].parent \in 0..(i - 1)

ChainIn(C, i) ==
    LET up[j \in 0..Len(C)] ==
            IF j = 0 THEN {} ELSE {j} \union up[C[j].parent]
    IN  up[i]

Climbs(C, f, N) ==
    f[0] = {} /\ \A j \in 1..N : f[j] = {j} \union f[C[j].parent]

\* A chain is its first context and the chain of its parent.
LEMMA ChainSteps ==
    ASSUME NEW C, Len(C) \in Nat, Older(C)
    PROVE  /\ ChainIn(C, 0) = {}
           /\ \A i \in 1..Len(C) : ChainIn(C, i) = {i} \union ChainIn(C, C[i].parent)
<1> DEFINE N == Len(C)
           D == SUBSET Nat
           I == {n \in Nat : n <= N => \E f \in [0..n -> D] : Climbs(C, f, n)}
<1>1. 0 \in I
  <2> DEFINE g == [i \in 0..0 |-> {}]
  <2>1. g \in [0..0 -> D] /\ Climbs(C, g, 0)
    BY DEF Climbs
  <2> QED BY <2>1
<1>2. ASSUME NEW n \in Nat, n \in I
      PROVE  n + 1 \in I
  <2>1. SUFFICES ASSUME n + 1 <= N
                 PROVE  \E f \in [0..(n + 1) -> D] : Climbs(C, f, n + 1)
    OBVIOUS
  <2>2. PICK f \in [0..n -> D] : Climbs(C, f, n)
    BY <1>2, <2>1
  <2>3. C[n + 1].parent \in 0..n
    BY <2>1 DEF Older
  <2>4. PICK last : last = {n + 1} \union f[C[n + 1].parent]
    OBVIOUS
  <2>5. last \in D
    BY <2>3, <2>4
  <2>6. PICK g : g = [i \in 0..(n + 1) |-> IF i = n + 1 THEN last ELSE f[i]]
    OBVIOUS
  <2>7. g \in [0..(n + 1) -> D]
    BY <2>5, <2>6
  <2>8. g[n + 1] = last /\ \A i \in 0..n : g[i] = f[i]
    BY <2>6
  <2>9. g[0] = {}
    BY <2>2, <2>8 DEF Climbs
  <2>10. ASSUME NEW j \in 1..(n + 1)
         PROVE  g[j] = {j} \union g[C[j].parent]
    <3>1. CASE j = n + 1
      BY <2>3, <2>4, <2>8, <3>1
    <3>2. CASE j # n + 1
      <4>1. j \in 1..n /\ j \in 0..n /\ C[j].parent \in 0..n
        BY <2>1, <3>2 DEF Older
      <4>2. f[j] = {j} \union f[C[j].parent]
        BY <2>2, <4>1 DEF Climbs
      <4> QED BY <2>8, <4>1, <4>2
    <3> QED BY <3>1, <3>2
  <2> QED BY <2>7, <2>9, <2>10 DEF Climbs
<1>3. N \in I
  <2> HIDE DEF I
  <2> QED BY <1>1, <1>2, SetInduction
<1>4. PICK f \in [0..N -> D] : Climbs(C, f, N)
  BY <1>3
<1> DEFINE Body(up) == [j \in 0..N |-> IF j = 0 THEN {} ELSE {j} \union up[C[j].parent]]
           up == CHOOSE g : g = Body(g)
<1>5. f = Body(f)
  BY <1>4 DEF Climbs
<1>6. up = Body(up)
  <2>1. \E g : g = Body(g)
    BY <1>5
  <2> HIDE DEF Body
  <2> QED BY <2>1
<1>7. \A i : ChainIn(C, i) = up[i]
  BY DEF ChainIn
<1> HIDE DEF up
<1>8. /\ up[0] = {}
      /\ \A i \in 1..N : up[i] = {i} \union up[C[i].parent]
  BY <1>6, SMTT(30)
<1> QED BY <1>7, <1>8

\* A chain has contexts only, none newer than its first, which it has.
LEMMA ChainFacts ==
    ASSUME NEW C, Len(C) \in Nat, Older(C), NEW i \in 0..Len(C)
    PROVE  ChainIn(C, i) \subseteq 1..i /\ (i # 0 => i \in ChainIn(C, i))
<1> DEFINE I == {n \in Nat : \A j \in 0..n : j <= Len(C) => ChainIn(C, j) \subseteq 1..j}
<1>1. 0 \in I
  BY ChainSteps
<1>2. ASSUME NEW n \in Nat, n \in I
      PROVE  n + 1 \in I
  <2>1. SUFFICES ASSUME n + 1 <= Len(C) PROVE ChainIn(C, n + 1) \subseteq 1..(n + 1)
    BY <1>2
  <2>2. C[n + 1].parent \in 0..n /\ ChainIn(C, n + 1) = {n + 1} \union ChainIn(C, C[n + 1].parent)
    BY <2>1, ChainSteps DEF Older
  <2>3. ChainIn(C, C[n + 1].parent) \subseteq 1..C[n + 1].parent
    BY <1>2, <2>1, <2>2
  <2> QED BY <2>2, <2>3
<1>3. i \in I
  <2> HIDE DEF I
  <2> QED BY <1>1, <1>2, SetInduction
<1> QED BY <1>3, ChainSteps

\* A chain is the same in all collections of contexts that have its contexts.
LEMMA ChainsAgree ==
    ASSUME NEW C, Len(C) \in Nat, Older(C), NEW D, Len(D) \in Nat, Older(D),
           NEW i \in Nat, i <= Len(C), i <= Len(D), \A j \in 1..i : C[j].parent = D[j].parent
    PROVE  ChainIn(C, i) = ChainIn(D, i)
<1>1. /\ ChainIn(C, 0) = {}
      /\ \A j \in 1..Len(C) : ChainIn(C, j) = {j} \union ChainIn(C, C[j].parent)
  BY ChainSteps
<1>2. /\ ChainIn(D, 0) = {}
      /\ \A j \in 1..Len(D) : ChainIn(D, j) = {j} \union ChainIn(D, D[j].parent)
  BY ChainSteps
<1> DEFINE I == {n \in Nat : \A j \in 0..n : j <= i => ChainIn(C, j) = ChainIn(D, j)}
<1>3. 0 \in I
  BY <1>1, <1>2
<1>4. ASSUME NEW n \in Nat, n \in I
      PROVE  n + 1 \in I
  <2>1. SUFFICES ASSUME n + 1 <= i PROVE ChainIn(C, n + 1) = ChainIn(D, n + 1)
    BY <1>4
  <2>2. /\ C[n + 1].parent \in 0..n
        /\ ChainIn(C, n + 1) = {n + 1} \union ChainIn(C, C[n + 1].parent)
        /\ ChainIn(D, n + 1) = {n + 1} \union ChainIn(D, D[n + 1].parent)
        /\ C[n + 1].parent = D[n + 1].parent
    BY <1>1, <1>2, <2>1 DEF Older
  <2>3. ChainIn(C, C[n + 1].parent) = ChainIn(D, C[n + 1].parent)
    BY <1>4, <2>1, <2>2
  <2> QED BY <2>2, <2>3
<1>5. i \in I
  <2> HIDE DEF I
  <2> QED BY <1>3, <1>4, SetInduction
<1> QED BY <1>5

-----------------------------------------------------------------------------
(* The levels of a stack of frames. *)

Contexts ==
    [config : Protections, parent : Nat, owner : Shields \union {None}, calls : BOOLEAN]

Frames ==
    [kind : {"shield", "function", "budget"}, of : Shields \union Functions \union Budgets,
     protects : Protections, ctx : Nat, token : Nat, run : Nat, retries : Nat,
     validations : Nat, holds : Kinds \union {None}, sleeping : BOOLEAN]

Surroundings == [protects : Protections, scoped : BOOLEAN, runs : SUBSET Nat]

ConfigAt(C, i) == IF i = 0 THEN Unprotected ELSE C[i].config

\* The protections of a context and of the first k budgets entered.
Joined(config, e, k) == [config EXCEPT !.budgets = @ \union {e[m] : m \in 1..k}]

\* Frame F leads from context p and j budgets to context q and k budgets.
Leads(F, e, C, p, q, j, k) ==
    \/ /\ F.kind = "budget"
       /\ q = p /\ k = j + 1
       /\ e[k] = F.of /\ F.ctx = 0
       /\ F.protects = [Unprotected EXCEPT !.budgets = {F.of}]
    \/ /\ F.kind # "budget"
       /\ k = j /\ p < q
       /\ F.ctx = q /\ F.token = p
       /\ C[q].parent = p
       /\ C[q].owner = IF F.kind = "shield" THEN F.of ELSE None
       /\ C[q].config = IF p = 0 THEN F.protects ELSE Merge(C[p].config, F.protects)

\* A task that was started in ar has stack s, entered e, and n active: a and b have the
\* context and the number of budgets at every level.
Levels(s, e, C, n, ar, a, b) ==
    /\ a \in [0..Len(s) -> 0..Len(C)] /\ b \in [0..Len(s) -> 0..Len(e)]
    /\ a[Len(s)] = n /\ b[Len(s)] = Len(e)
    /\ \A i \in 1..Len(s) : Leads(s[i], e, C, a[i - 1], a[i], b[i - 1], b[i])
    /\ ar.scoped <=> a[0] # 0
    /\ ar.protects = Joined(ConfigAt(C, a[0]), e, b[0])

Level(s, e, C, n, ar) ==
    \E a \in [0..Len(s) -> 0..Len(C)], b \in [0..Len(s) -> 0..Len(e)] : Levels(s, e, C, n, ar, a, b)

\* m is the strictest of the limits of ar and of the first i frames.
IsStrictest(m, ar, s, i) ==
    /\ m = None <=> /\ ar.protects.max_cost = None
                    /\ \A j \in 1..i : s[j].protects.max_cost = None
    /\ m # None =>
         /\ m = ar.protects.max_cost \/ \E j \in 1..i : m = s[j].protects.max_cost
         /\ ar.protects.max_cost # None => m <= ar.protects.max_cost
         /\ \A j \in 1..i : s[j].protects.max_cost # None => m <= s[j].protects.max_cost

\* m is the PIIConfig of the innermost of the first i frames that has one, or else of ar.
IsInnermost(m, ar, s, i) ==
    \/ m = ar.protects.pii /\ \A j \in 1..i : s[j].protects.pii = None
    \/ \E j \in 1..i : /\ s[j].protects.pii # None /\ m = s[j].protects.pii
                       /\ \A h \in (j + 1)..i : s[h].protects.pii = None

\* P adds up what ar and the first i frames ask for.
AddsUp(P, ar, s, i) ==
    /\ P \in Protections
    /\ P.budgets = ar.protects.budgets \union UNION {s[j].protects.budgets : j \in 1..i}
    /\ IsInnermost(P.pii, ar, s, i)
    /\ IsStrictest(P.max_cost, ar, s, i)

\* One limit more.
LEMMA StrictestSteps ==
    ASSUME NEW m \in Nat \union {None}, NEW ar \in Surroundings, NEW s \in Seq(Frames),
           NEW i \in Nat, i + 1 <= Len(s), IsStrictest(m, ar, s, i)
    PROVE  IsStrictest(Strictest(m, s[i + 1].protects.max_cost), ar, s, i + 1)
<1>1. PICK x : x = s[i + 1].protects.max_cost
  OBVIOUS
<1>2. x \in Nat \union {None} /\ None \notin Nat
  <2>1. s[i + 1] \in Frames
    OBVIOUS
  <2> QED BY <1>1, <2>1, ScopesAssumption DEF Frames, Protections
<1>3. PICK y : y = ar.protects.max_cost
  OBVIOUS
<1>4. y \in Nat \union {None}
  BY <1>3 DEF Surroundings, Protections
<1>5. PICK g : g = [j \in 1..Len(s) |-> s[j].protects.max_cost]
  OBVIOUS
<1>6. /\ \A j \in 1..Len(s) : g[j] \in Nat \union {None} /\ g[j] = s[j].protects.max_cost
  <2>1. ASSUME NEW j \in 1..Len(s) PROVE s[j].protects.max_cost \in Nat \union {None}
    <3>1. s[j] \in Frames
      OBVIOUS
    <3> QED BY <3>1 DEF Frames, Protections
  <2> QED BY <1>5, <2>1
<1>7. /\ m = None <=> y = None /\ \A j \in 1..i : g[j] = None
      /\ m # None => /\ m = y \/ \E j \in 1..i : m = g[j]
                     /\ y # None => m <= y
                     /\ \A j \in 1..i : g[j] # None => m <= g[j]
  BY <1>3, <1>6, SMTT(30) DEF IsStrictest
<1>8. g[i + 1] = x /\ \A j \in 1..(i + 1) : j \in 1..i \/ j = i + 1
  BY <1>1, <1>6
<1>9. PICK r : r = Strictest(m, x)
  OBVIOUS
<1>10. \/ m = None /\ r = x
       \/ m # None /\ x = None /\ r = m
       \/ m # None /\ x # None /\ m < x /\ r = m
       \/ m # None /\ x # None /\ ~(m < x) /\ r = x
  BY <1>9 DEF Strictest
<1>11. /\ r = None <=> y = None /\ \A j \in 1..(i + 1) : g[j] = None
       /\ r # None => /\ r = y \/ \E j \in 1..(i + 1) : r = g[j]
                      /\ y # None => r <= y
                      /\ \A j \in 1..(i + 1) : g[j] # None => r <= g[j]
  <2>1. CASE m = None
    BY <1>2, <1>7, <1>8, <1>10, <2>1
  <2>2. CASE m # None /\ x = None
    BY <1>2, <1>7, <1>8, <1>10, <2>2
  <2>3. CASE m # None /\ x # None /\ m < x
    BY <1>2, <1>4, <1>6, <1>7, <1>8, <1>10, <2>3
  <2>4. CASE m # None /\ x # None /\ ~(m < x)
    <3>1. r = x /\ x <= m /\ r \in Nat /\ m \in Nat
      BY <1>2, <1>10, <2>4
    <3>2. y # None => r <= y
      BY <1>2, <1>4, <1>7, <3>1, <2>4
    <3>3. \A j \in 1..i : g[j] # None => r <= g[j]
      BY <1>2, <1>6, <1>7, <3>1, <2>4
    <3> QED BY <1>2, <1>7, <1>8, <2>4, <3>1, <3>2, <3>3
  <2> QED BY <2>1, <2>2, <2>3, <2>4
<1> QED BY <1>1, <1>3, <1>6, <1>9, <1>11 DEF IsStrictest

\* One PIIConfig more.
LEMMA InnermostSteps ==
    ASSUME NEW m, NEW ar, NEW s, NEW i \in Nat, IsInnermost(m, ar, s, i)
    PROVE  IsInnermost(Innermost(m, s[i + 1].protects.pii), ar, s, i + 1)
<1>1. PICK x : x = s[i + 1].protects.pii
  OBVIOUS
<1>2. \A j : j \in 1..(i + 1) <=> j \in 1..i \/ j = i + 1
  OBVIOUS
<1>3. CASE x # None
  <2>1. i + 1 \in 1..(i + 1) /\ ((i + 1) + 1)..(i + 1) = {}
    OBVIOUS
  <2> QED BY <1>1, <1>3, <2>1 DEF Innermost, IsInnermost
<1>4. CASE x = None
  <2>1. Innermost(m, x) = m
    BY <1>4 DEF Innermost
  <2>2. CASE m = ar.protects.pii /\ \A j \in 1..i : s[j].protects.pii = None
    BY <1>1, <1>2, <1>4, <2>1, <2>2 DEF IsInnermost
  <2>3. ASSUME NEW j \in 1..i, s[j].protects.pii # None, m = s[j].protects.pii,
               \A h \in (j + 1)..i : s[h].protects.pii = None
        PROVE  IsInnermost(Innermost(m, s[i + 1].protects.pii), ar, s, i + 1)
    <3>1. j \in 1..(i + 1)
      OBVIOUS
    <3>2. \A h : h \in (j + 1)..(i + 1) => h \in (j + 1)..i \/ h = i + 1
      OBVIOUS
    <3>3. \A h \in (j + 1)..(i + 1) : s[h].protects.pii = None
      BY <1>1, <1>4, <2>3, <3>2
    <3> QED BY <1>1, <2>1, <2>3, <3>1, <3>3 DEF IsInnermost
  <2> QED BY <2>2, <2>3 DEF IsInnermost
<1> QED BY <1>3, <1>4

\* Protections keep their shape when they are joined or merged.
LEMMA MergeIsProtections ==
    ASSUME NEW P \in Protections, NEW Q \in Protections
    PROVE  /\ Merge(P, Q) \in Protections
           /\ Merge(P, Q).budgets = P.budgets \union Q.budgets
           /\ Merge(P, Q).pii = Innermost(P.pii, Q.pii)
           /\ Merge(P, Q).max_cost = Strictest(P.max_cost, Q.max_cost)
<1>1. Strictest(P.max_cost, Q.max_cost) \in Nat \union {None}
  BY DEF Protections, Strictest
<1>2. Innermost(P.pii, Q.pii) \in PIIConfigs \union {None}
  BY DEF Protections, Innermost
<1> QED BY <1>1, <1>2 DEF Merge, Protections

\* The budgets entered are among those of the protections that are joined.
LEMMA JoinedIsProtections ==
    ASSUME NEW P \in Protections, NEW e \in Seq(AllBudgets), NEW k \in 0..Len(e)
    PROVE  /\ Joined(P, e, k) \in Protections
           /\ Joined(P, e, k).budgets = P.budgets \union {e[m] : m \in 1..k}
           /\ Joined(P, e, k).pii = P.pii /\ Joined(P, e, k).max_cost = P.max_cost
<1>1. {e[m] : m \in 1..k} \subseteq AllBudgets
  <2>1. ASSUME NEW m \in 1..k PROVE e[m] \in AllBudgets
    <3>1. m \in 1..Len(e)
      OBVIOUS
    <3> QED BY <3>1
  <2> QED BY <2>1
<1>2. PICK B : B = {e[m] : m \in 1..k}
  OBVIOUS
<1>3. Joined(P, e, k) = [P EXCEPT !.budgets = @ \union B]
  BY <1>2 DEF Joined
<1>4. [P EXCEPT !.budgets = @ \union B] \in Protections
  BY <1>1, <1>2 DEF Protections
<1> QED BY <1>2, <1>3, <1>4 DEF Protections

\* Outside of all contexts nothing is protected.
LEMMA ConfigIsProtections ==
    ASSUME NEW C \in Seq(Contexts), NEW i \in 0..Len(C)
    PROVE  /\ ConfigAt(C, i) \in Protections
           /\ Unprotected \in Protections
<1>1. Unprotected \in Protections
  BY DEF Unprotected, Protections
<1>2. i # 0 => C[i] \in Contexts
  OBVIOUS
<1> QED BY <1>1, <1>2 DEF ConfigAt, Contexts

\* A context adds the protections of its frame to those of its parent.
LEMMA ScopeAdds ==
    ASSUME NEW C \in Seq(Contexts), NEW p \in 0..Len(C), NEW q \in 1..Len(C), NEW Q \in Protections,
           C[q].config = IF p = 0 THEN Q ELSE Merge(C[p].config, Q),
           NEW e \in Seq(AllBudgets), NEW k \in 0..Len(e)
    PROVE  /\ Joined(ConfigAt(C, q), e, k).budgets = Joined(ConfigAt(C, p), e, k).budgets \union Q.budgets
           /\ Joined(ConfigAt(C, q), e, k).pii = Innermost(Joined(ConfigAt(C, p), e, k).pii, Q.pii)
           /\ Joined(ConfigAt(C, q), e, k).max_cost = Strictest(Joined(ConfigAt(C, p), e, k).max_cost, Q.max_cost)
<1>1. PICK P : P = ConfigAt(C, p)
  OBVIOUS
<1>2. PICK R : R = ConfigAt(C, q)
  OBVIOUS
<1>3. P \in Protections /\ R \in Protections
  BY <1>1, <1>2, ConfigIsProtections
<1>4. R.budgets = P.budgets \union Q.budgets /\ R.pii = Innermost(P.pii, Q.pii)
      /\ R.max_cost = Strictest(P.max_cost, Q.max_cost)
  <2>1. CASE p = 0
    <3>1. P = Unprotected /\ R = Q
      BY <1>1, <1>2, <2>1 DEF ConfigAt
    <3> QED BY <3>1 DEF Unprotected, Strictest, Innermost, Protections
  <2>2. CASE p # 0
    <3>1. R = Merge(P, Q)
      BY <1>1, <1>2, <2>2 DEF ConfigAt
    <3> QED BY <1>3, <3>1, MergeIsProtections
  <2> QED BY <2>1, <2>2
<1>5. /\ Joined(P, e, k).budgets = P.budgets \union {e[m] : m \in 1..k}
      /\ Joined(P, e, k).pii = P.pii /\ Joined(P, e, k).max_cost = P.max_cost
  BY <1>3, JoinedIsProtections
<1>6. /\ Joined(R, e, k).budgets = R.budgets \union {e[m] : m \in 1..k}
      /\ Joined(R, e, k).pii = R.pii /\ Joined(R, e, k).max_cost = R.max_cost
  BY <1>3, JoinedIsProtections
<1> QED BY <1>1, <1>2, <1>4, <1>5, <1>6

\* What is protected at a level is what the frames below ask for.
LEMMA OneFrameMore ==
    ASSUME NEW s \in Seq(Frames), NEW e \in Seq(AllBudgets), NEW C \in Seq(Contexts),
           NEW ar \in Surroundings, NEW i \in Nat, i + 1 <= Len(s),
           NEW p \in 0..Len(C), NEW q \in 0..Len(C), NEW j \in 0..Len(e), NEW k \in 0..Len(e),
           Leads(s[i + 1], e, C, p, q, j, k),
           AddsUp(Joined(ConfigAt(C, p), e, j), ar, s, i)
    PROVE  AddsUp(Joined(ConfigAt(C, q), e, k), ar, s, i + 1)
<1>1. PICK F : F = s[i + 1]
  OBVIOUS
<1>2. PICK P : P = Joined(ConfigAt(C, p), e, j)
  OBVIOUS
<1>3. PICK R : R = Joined(ConfigAt(C, q), e, k)
  OBVIOUS
<1>4. F.protects \in Protections
  <2>1. s[i + 1] \in Frames
    OBVIOUS
  <2> QED BY <1>1, <2>1 DEF Frames
<1>5. P \in Protections /\ R \in Protections
  BY <1>2, <1>3, ConfigIsProtections, JoinedIsProtections
<1>6. /\ R.budgets = P.budgets \union F.protects.budgets
      /\ R.pii = Innermost(P.pii, F.protects.pii)
      /\ R.max_cost = Strictest(P.max_cost, F.protects.max_cost)
  <2>1. CASE F.kind # "budget"
    <3>1. k = j /\ p < q /\ C[q].config = IF p = 0 THEN F.protects ELSE Merge(C[p].config, F.protects)
      BY <1>1, <2>1 DEF Leads
    <3>2. q \in 1..Len(C)
      BY <3>1
    <3> QED BY <1>2, <1>3, <1>4, <3>1, <3>2, ScopeAdds
  <2>2. CASE F.kind = "budget"
    <3>1. q = p /\ k = j + 1 /\ e[k] = F.of /\ F.protects = [Unprotected EXCEPT !.budgets = {F.of}]
      BY <1>1, <2>2 DEF Leads
    <3>2. F.protects.budgets = {F.of} /\ F.protects.pii = None /\ F.protects.max_cost = None
      BY <3>1 DEF Unprotected
    <3>3. PICK G : G = ConfigAt(C, p)
      OBVIOUS
    <3>4. G \in Protections
      BY <3>3, ConfigIsProtections
    <3>5. /\ P.budgets = G.budgets \union {e[m] : m \in 1..j} /\ P.pii = G.pii /\ P.max_cost = G.max_cost
      BY <1>2, <3>3, <3>4, JoinedIsProtections
    <3>6. /\ R.budgets = G.budgets \union {e[m] : m \in 1..k} /\ R.pii = G.pii /\ R.max_cost = G.max_cost
      BY <1>3, <3>1, <3>3, <3>4, JoinedIsProtections
    <3>7. {e[m] : m \in 1..k} = {e[m] : m \in 1..j} \union {F.of}
      <4>1. \A m \in 1..k : m \in 1..j \/ m = k
        BY <3>1
      <4>2. \A m \in 1..j : m \in 1..k
        BY <3>1
      <4>3. k \in 1..k
        BY <3>1
      <4> QED BY <3>1, <4>1, <4>2, <4>3
    <3>8. R.max_cost = Strictest(P.max_cost, None)
      BY <3>5, <3>6 DEF Strictest
    <3>9. R.pii = Innermost(P.pii, None)
      BY <3>5, <3>6 DEF Innermost
    <3> QED BY <3>2, <3>5, <3>6, <3>7, <3>8, <3>9
  <2> QED BY <2>1, <2>2
<1>7. /\ P.budgets = ar.protects.budgets \union UNION {s[m].protects.budgets : m \in 1..i}
      /\ IsInnermost(P.pii, ar, s, i)
      /\ IsStrictest(P.max_cost, ar, s, i)
  BY <1>2 DEF AddsUp
<1>8. \A m : m \in 1..(i + 1) <=> m \in 1..i \/ m = i + 1
  OBVIOUS
<1>9. UNION {s[m].protects.budgets : m \in 1..(i + 1)}
        = (UNION {s[m].protects.budgets : m \in 1..i}) \union F.protects.budgets
  BY <1>1, <1>8
<1>10. R.budgets = ar.protects.budgets \union UNION {s[m].protects.budgets : m \in 1..(i + 1)}
  BY <1>6, <1>7, <1>9
<1>11. IsInnermost(R.pii, ar, s, i + 1)
  <2>1. IsInnermost(Innermost(P.pii, s[i + 1].protects.pii), ar, s, i + 1)
    BY <1>7, InnermostSteps
  <2> QED BY <1>1, <1>6, <2>1
<1>12. IsStrictest(R.max_cost, ar, s, i + 1)
  <2>1. P.max_cost \in Nat \union {None}
    BY <1>5 DEF Protections
  <2>2. IsStrictest(Strictest(P.max_cost, s[i + 1].protects.max_cost), ar, s, i + 1)
    BY <1>7, <2>1, StrictestSteps
  <2> QED BY <1>1, <1>6, <2>2
<1> QED BY <1>3, <1>5, <1>10, <1>11, <1>12 DEF AddsUp

\* What is active, with the budgets entered, is what the frames ask for, and nothing is
\* active outside of all scopes.
LEMMA LevelsAddUp ==
    ASSUME NEW s \in Seq(Frames), NEW e \in Seq(AllBudgets), NEW C \in Seq(Contexts),
           NEW ar \in Surroundings, NEW n, Level(s, e, C, n, ar)
    PROVE  /\ n \in 0..Len(C)
           /\ AddsUp(Joined(ConfigAt(C, n), e, Len(e)), ar, s, Len(s))
           /\ n = 0 <=> ~(ar.scoped \/ \E i \in 1..Len(s) : s[i].kind # "budget")
<1>1. PICK a \in [0..Len(s) -> 0..Len(C)], b \in [0..Len(s) -> 0..Len(e)] : Levels(s, e, C, n, ar, a, b)
  BY DEF Level
<1>2. /\ a[Len(s)] = n /\ b[Len(s)] = Len(e)
      /\ \A i \in 1..Len(s) : Leads(s[i], e, C, a[i - 1], a[i], b[i - 1], b[i])
      /\ ar.scoped <=> a[0] # 0
      /\ ar.protects = Joined(ConfigAt(C, a[0]), e, b[0])
  BY <1>1 DEF Levels
<1> DEFINE S == {i \in Nat : i <= Len(s) =>
                    /\ AddsUp(Joined(ConfigAt(C, a[i]), e, b[i]), ar, s, i)
                    /\ a[i] # 0 <=> (ar.scoped \/ \E m \in 1..i : s[m].kind # "budget")}
<1>3. 0 \in S
  <2>1. AddsUp(ar.protects, ar, s, 0)
    <3>1. ar.protects \in Protections
      BY DEF Surroundings
    <3>2. 1..0 = {}
      OBVIOUS
    <3>3. ar.protects.max_cost \in Nat \union {None}
      BY <3>1 DEF Protections
    <3>4. ar.protects.max_cost # None => ar.protects.max_cost <= ar.protects.max_cost
      BY <3>3
    <3>5. IsStrictest(ar.protects.max_cost, ar, s, 0)
      BY <3>2, <3>4 DEF IsStrictest
    <3>6. IsInnermost(ar.protects.pii, ar, s, 0)
      BY <3>2 DEF IsInnermost
    <3> QED BY <3>1, <3>2, <3>5, <3>6 DEF AddsUp
  <2> QED BY <1>2, <2>1
<1>4. ASSUME NEW i \in Nat, i \in S
      PROVE  i + 1 \in S
  <2>1. SUFFICES ASSUME i + 1 <= Len(s)
                 PROVE  /\ AddsUp(Joined(ConfigAt(C, a[i + 1]), e, b[i + 1]), ar, s, i + 1)
                        /\ a[i + 1] # 0 <=> (ar.scoped \/ \E m \in 1..(i + 1) : s[m].kind # "budget")
    OBVIOUS
  <2>2. AddsUp(Joined(ConfigAt(C, a[i]), e, b[i]), ar, s, i)
    BY <1>4, <2>1
  <2>3. a[i] # 0 <=> (ar.scoped \/ \E m \in 1..i : s[m].kind # "budget")
    BY <1>4, <2>1
  <2> HIDE DEF S
  <2>4. i + 1 \in 1..Len(s) /\ i \in 0..Len(s) /\ i + 1 \in 0..Len(s) /\ (i + 1) - 1 = i
    BY <2>1
  <2>5. Leads(s[i + 1], e, C, a[i], a[i + 1], b[i], b[i + 1])
    BY <1>2, <2>4
  <2>6. a[i] \in 0..Len(C) /\ a[i + 1] \in 0..Len(C) /\ b[i] \in 0..Len(e) /\ b[i + 1] \in 0..Len(e)
    BY <2>4
  <2>7. AddsUp(Joined(ConfigAt(C, a[i + 1]), e, b[i + 1]), ar, s, i + 1)
    BY <2>1, <2>2, <2>5, <2>6, OneFrameMore
  <2>8. a[i + 1] # 0 <=> (a[i] # 0 \/ s[i + 1].kind # "budget")
    BY <2>5, <2>6 DEF Leads
  <2>9. \A m : m \in 1..(i + 1) <=> m \in 1..i \/ m = i + 1
    OBVIOUS
  <2> QED BY <2>3, <2>7, <2>8, <2>9
<1>5. Len(s) \in S
  <2> HIDE DEF S
  <2> QED BY <1>3, <1>4, SetInduction
<1>6. /\ AddsUp(Joined(ConfigAt(C, a[Len(s)]), e, b[Len(s)]), ar, s, Len(s))
      /\ a[Len(s)] # 0 <=> (ar.scoped \/ \E m \in 1..Len(s) : s[m].kind # "budget")
  BY <1>5
<1>7. a[Len(s)] \in 0..Len(C)
  <2>1. Len(s) \in 0..Len(s)
    OBVIOUS
  <2> QED BY <1>1, <2>1
<1> QED BY <1>2, <1>6, <1>7

\* D has the contexts of C up to n.
Agree(C, D, n) ==
    /\ n <= Len(D)
    /\ \A i \in 1..n : /\ D[i].config = C[i].config
                       /\ D[i].parent = C[i].parent
                       /\ D[i].owner = C[i].owner

\* The levels rise.
LEMMA LevelsRise ==
    ASSUME NEW s \in Seq(Frames), NEW e \in Seq(AllBudgets), NEW C \in Seq(Contexts),
           NEW ar, NEW n, NEW a, NEW b, Levels(s, e, C, n, ar, a, b)
    PROVE  \A i \in 0..Len(s) : a[i] <= n
<1>1. /\ a \in [0..Len(s) -> 0..Len(C)] /\ a[Len(s)] = n
      /\ \A i \in 1..Len(s) : Leads(s[i], e, C, a[i - 1], a[i], b[i - 1], b[i])
  BY DEF Levels
<1>2. \A i \in 1..Len(s) : a[i - 1] <= a[i]
  <2>1. SUFFICES ASSUME NEW i \in 1..Len(s) PROVE a[i - 1] <= a[i]
    OBVIOUS
  <2>2. Leads(s[i], e, C, a[i - 1], a[i], b[i - 1], b[i])
    BY <1>1
  <2>3. a[i - 1] \in 0..Len(C) /\ a[i] \in 0..Len(C)
    <3>1. i - 1 \in 0..Len(s) /\ i \in 0..Len(s)
      OBVIOUS
    <3> QED BY <1>1, <3>1
  <2> QED BY <2>2, <2>3 DEF Leads
<1> DEFINE S == {k \in Nat : k <= Len(s) => a[Len(s) - k] <= n}
<1>3. 0 \in S
  <2>1. Len(s) \in 0..Len(s) /\ Len(s) - 0 = Len(s)
    OBVIOUS
  <2>2. a[Len(s)] \in 0..Len(C)
    BY <1>1, <2>1
  <2> QED BY <1>1, <2>1, <2>2
<1>4. ASSUME NEW k \in Nat, k \in S
      PROVE  k + 1 \in S
  <2>1. SUFFICES ASSUME k + 1 <= Len(s) PROVE a[Len(s) - (k + 1)] <= n
    OBVIOUS
  <2>2. PICK m : m = Len(s) - k
    OBVIOUS
  <2>3. m \in 1..Len(s) /\ m \in 0..Len(s) /\ m - 1 \in 0..Len(s) /\ Len(s) - (k + 1) = m - 1 /\ Len(s) \in 0..Len(s)
    BY <2>1, <2>2
  <2>4. a[m] <= n
    BY <1>4, <2>1, <2>2
  <2>5. a[m - 1] <= a[m]
    BY <1>2, <2>3
  <2>6. a[m] \in 0..Len(C) /\ a[m - 1] \in 0..Len(C) /\ n \in 0..Len(C)
    BY <1>1, <2>3
  <2> QED BY <2>3, <2>4, <2>5, <2>6
<1>5. Nat \subseteq S
  <2> HIDE DEF S
  <2> QED BY <1>3, <1>4, SetInduction
<1>6. SUFFICES ASSUME NEW i \in 0..Len(s) PROVE a[i] <= n
  OBVIOUS
<1>7. PICK k : k = Len(s) - i
  OBVIOUS
<1>8. k \in Nat /\ k <= Len(s) /\ Len(s) - k = i
  BY <1>7
<1>9. k \in S
  <2> HIDE DEF S
  <2> QED BY <1>5, <1>8
<1> QED BY <1>8, <1>9

\* One frame has the same place among contexts that agree and budgets that do.
LEMMA LeadsAgain ==
    ASSUME NEW F, NEW G, NEW e, NEW d, NEW C, NEW D, NEW p \in Nat, NEW q \in Nat, NEW j \in Nat, NEW k \in Nat,
           Leads(F, e, C, p, q, j, k),
           G.kind = F.kind, G.of = F.of, G.protects = F.protects, G.ctx = F.ctx, G.token = F.token,
           \A m \in 1..k : d[m] = e[m],
           \A i \in 1..q : D[i].config = C[i].config /\ D[i].parent = C[i].parent /\ D[i].owner = C[i].owner
    PROVE  Leads(G, d, D, p, q, j, k)
<1>1. CASE F.kind = "budget"
  <2>1. /\ q = p /\ k = j + 1 /\ e[k] = F.of /\ F.ctx = 0
        /\ F.protects = [Unprotected EXCEPT !.budgets = {F.of}]
    BY <1>1 DEF Leads
  <2>2. k \in 1..k
    BY <2>1
  <2>3. d[k] = G.of
    BY <2>1, <2>2
  <2> QED BY <1>1, <2>1, <2>3 DEF Leads
<1>2. CASE F.kind # "budget"
  <2>1. /\ k = j /\ p < q /\ F.ctx = q /\ F.token = p /\ C[q].parent = p
        /\ C[q].owner = IF F.kind = "shield" THEN F.of ELSE None
        /\ C[q].config = IF p = 0 THEN F.protects ELSE Merge(C[p].config, F.protects)
    BY <1>2 DEF Leads
  <2>2. q \in 1..q /\ (p # 0 => p \in 1..q)
    BY <2>1
  <2>3. D[q].parent = p /\ D[q].owner = IF G.kind = "shield" THEN G.of ELSE None
    BY <2>1, <2>2
  <2>4. D[q].config = IF p = 0 THEN G.protects ELSE Merge(D[p].config, G.protects)
    BY <2>1, <2>2
  <2> QED BY <1>2, <2>1, <2>3, <2>4 DEF Leads
<1> QED BY <1>1, <1>2

\* Frames F and G are of the same thing, entered in the same place.
SamePlace(F, G) ==
    G.kind = F.kind /\ G.of = F.of /\ G.protects = F.protects /\ G.ctx = F.ctx /\ G.token = F.token

\* Neither newer contexts nor what else frames say changes the levels.
LEMMA LevelStays ==
    ASSUME NEW s \in Seq(Frames), NEW u \in Seq(Frames), NEW e \in Seq(AllBudgets),
           NEW C \in Seq(Contexts), NEW D \in Seq(Contexts), NEW ar, NEW n,
           Level(s, e, C, n, ar), Agree(C, D, n),
           Len(u) = Len(s), \A i \in 1..Len(s) : SamePlace(s[i], u[i])
    PROVE  Level(u, e, D, n, ar)
<1>1. PICK a \in [0..Len(s) -> 0..Len(C)], b \in [0..Len(s) -> 0..Len(e)] : Levels(s, e, C, n, ar, a, b)
  BY DEF Level
<1>2. /\ a[Len(s)] = n /\ b[Len(s)] = Len(e)
      /\ \A i \in 1..Len(s) : Leads(s[i], e, C, a[i - 1], a[i], b[i - 1], b[i])
      /\ ar.scoped <=> a[0] # 0
      /\ ar.protects = Joined(ConfigAt(C, a[0]), e, b[0])
  BY <1>1 DEF Levels
<1>3. \A i \in 0..Len(s) : a[i] \in Nat /\ a[i] <= n
  <2>1. \A i \in 0..Len(s) : a[i] <= n
    BY <1>1, LevelsRise
  <2>2. \A i \in 0..Len(s) : a[i] \in 0..Len(C)
    BY <1>1
  <2> QED BY <2>1, <2>2
<1>4. Len(s) \in 0..Len(s) /\ 0 \in 0..Len(s)
  OBVIOUS
<1>5. n \in Nat
  BY <1>2, <1>3, <1>4
<1>6. a \in [0..Len(u) -> 0..Len(D)]
  <2>1. \A i \in 0..Len(s) : a[i] \in 0..Len(D)
    BY <1>3, <1>5 DEF Agree
  <2> QED BY <1>1, <2>1
<1>7. ASSUME NEW i \in 1..Len(s)
      PROVE  Leads(u[i], e, D, a[i - 1], a[i], b[i - 1], b[i])
  <2>1. Leads(s[i], e, C, a[i - 1], a[i], b[i - 1], b[i])
    BY <1>2
  <2>2. i \in 0..Len(s) /\ i - 1 \in 0..Len(s)
    OBVIOUS
  <2>3. a[i - 1] \in Nat /\ a[i] \in Nat /\ b[i - 1] \in Nat /\ b[i] \in Nat /\ a[i] <= n
    <3>1. a[i - 1] \in Nat /\ a[i] \in Nat /\ a[i] <= n
      BY <1>3, <2>2
    <3>2. b[i - 1] \in 0..Len(e) /\ b[i] \in 0..Len(e)
      BY <1>1, <2>2
    <3> QED BY <3>1, <3>2
  <2>4. \A m \in 1..a[i] : D[m].config = C[m].config /\ D[m].parent = C[m].parent /\ D[m].owner = C[m].owner
    <3>1. \A m \in 1..a[i] : m \in 1..n
      BY <1>5, <2>3
    <3> QED BY <3>1 DEF Agree
  <2>5. /\ u[i].kind = s[i].kind /\ u[i].of = s[i].of /\ u[i].protects = s[i].protects
        /\ u[i].ctx = s[i].ctx /\ u[i].token = s[i].token
    BY DEF SamePlace
  <2> QED BY <2>1, <2>3, <2>4, <2>5, LeadsAgain
<1>8. ConfigAt(D, a[0]) = ConfigAt(C, a[0])
  <2>1. a[0] \in Nat /\ a[0] <= n
    BY <1>3, <1>4
  <2>2. CASE a[0] = 0
    BY <2>2 DEF ConfigAt
  <2>3. CASE a[0] # 0
    <3>1. a[0] \in 1..n
      BY <1>5, <2>1, <2>3
    <3>2. D[a[0]].config = C[a[0]].config
      BY <3>1 DEF Agree
    <3> QED BY <2>3, <3>2 DEF ConfigAt
  <2> QED BY <2>2, <2>3
<1>9. b \in [0..Len(u) -> 0..Len(e)]
  BY <1>1
<1>10. Levels(u, e, D, n, ar, a, b)
  BY <1>2, <1>6, <1>7, <1>8, <1>9 DEF Levels
<1> QED BY <1>6, <1>9, <1>10 DEF Level

\* A frame more, that was entered with c active and leads to q and the budgets of d.
LEMMA PushedLevel ==
    ASSUME NEW s \in Seq(Frames), NEW e \in Seq(AllBudgets), NEW C \in Seq(Contexts),
           NEW ar, NEW n, Level(s, e, C, n, ar),
           NEW F \in Frames, NEW d \in Seq(AllBudgets), NEW D \in Seq(Contexts), NEW q \in 0..Len(D),
           Len(e) <= Len(d), \A m \in 1..Len(e) : d[m] = e[m], Agree(C, D, n),
           Leads(F, d, D, n, q, Len(e), Len(d))
    PROVE  Level(Append(s, F), d, D, q, ar)
<1>1. PICK a \in [0..Len(s) -> 0..Len(C)], b \in [0..Len(s) -> 0..Len(e)] : Levels(s, e, C, n, ar, a, b)
  BY DEF Level
<1>2. /\ a[Len(s)] = n /\ b[Len(s)] = Len(e)
      /\ \A i \in 1..Len(s) : Leads(s[i], e, C, a[i - 1], a[i], b[i - 1], b[i])
      /\ ar.scoped <=> a[0] # 0
      /\ ar.protects = Joined(ConfigAt(C, a[0]), e, b[0])
  BY <1>1 DEF Levels
<1>3. PICK N : N = Len(s)
  OBVIOUS
<1>4. /\ N \in Nat /\ N \in 0..N /\ 0 \in 0..N
      /\ Len(e) \in Nat /\ Len(d) \in Nat /\ Len(D) \in Nat /\ Len(C) \in Nat
  BY <1>3
<1>5. \A i \in 0..N : a[i] \in Nat /\ a[i] <= n /\ a[i] \in 0..Len(C)
  <2>1. \A i \in 0..N : a[i] <= n
    BY <1>1, <1>3, LevelsRise
  <2>2. \A i \in 0..N : a[i] \in 0..Len(C)
    BY <1>1, <1>3
  <2> QED BY <2>1, <2>2, <1>4
<1>6. \A i \in 0..N : b[i] \in Nat /\ b[i] <= Len(e)
  <2>1. \A i \in 0..N : b[i] \in 0..Len(e)
    BY <1>1, <1>3
  <2> QED BY <1>4, <2>1
<1>7. n \in Nat /\ n <= Len(D)
  <2>1. n \in Nat
    BY <1>2, <1>3, <1>4, <1>5
  <2> QED BY <2>1 DEF Agree
<1>8. PICK u : u = Append(s, F)
  OBVIOUS
<1>9. u \in Seq(Frames) /\ Len(u) = N + 1 /\ u[N + 1] = F /\ \A i \in 1..N : u[i] = s[i]
  BY <1>3, <1>8
<1>10. PICK f : f = [i \in 0..(N + 1) |-> IF i = N + 1 THEN q ELSE a[i]]
  OBVIOUS
<1>11. PICK g : g = [i \in 0..(N + 1) |-> IF i = N + 1 THEN Len(d) ELSE b[i]]
  OBVIOUS
<1>12. /\ \A i \in 0..N : f[i] = a[i] /\ g[i] = b[i]
       /\ f[N + 1] = q /\ g[N + 1] = Len(d)
  <2>1. \A i \in 0..N : i \in 0..(N + 1) /\ i # N + 1
    BY <1>4
  <2>2. N + 1 \in 0..(N + 1)
    BY <1>4
  <2> QED BY <1>10, <1>11, <2>1, <2>2
<1>13. f \in [0..(N + 1) -> 0..Len(D)]
  <2>1. \A i \in 0..N : a[i] \in 0..Len(D)
    BY <1>4, <1>5, <1>7
  <2>2. \A i \in 0..(N + 1) : i = N + 1 \/ i \in 0..N
    BY <1>4
  <2> QED BY <1>10, <2>1, <2>2
<1>14. g \in [0..(N + 1) -> 0..Len(d)]
  <2>1. \A i \in 0..N : b[i] \in 0..Len(d)
    BY <1>4, <1>6
  <2>2. \A i \in 0..(N + 1) : i = N + 1 \/ i \in 0..N
    BY <1>4
  <2>3. Len(d) \in 0..Len(d)
    BY <1>4
  <2> QED BY <1>11, <2>1, <2>2, <2>3
<1>15. ASSUME NEW i \in 1..(N + 1)
       PROVE  Leads(u[i], d, D, f[i - 1], f[i], g[i - 1], g[i])
  <2>1. CASE i = N + 1
    <3>1. i - 1 = N /\ N \in 0..N
      BY <1>4, <2>1
    <3>2. f[i - 1] = n /\ f[i] = q /\ g[i - 1] = Len(e) /\ g[i] = Len(d) /\ u[i] = F
      BY <1>2, <1>3, <1>9, <1>12, <2>1, <3>1
    <3> QED BY <3>2
  <2>2. CASE i # N + 1
    <3>1. i \in 1..N /\ i \in 0..N /\ i - 1 \in 0..N
      BY <1>4, <2>2
    <3>2. Leads(s[i], e, C, a[i - 1], a[i], b[i - 1], b[i])
      BY <1>2, <1>3, <3>1
    <3>3. /\ a[i - 1] \in Nat /\ a[i] \in Nat /\ b[i - 1] \in Nat /\ b[i] \in Nat
          /\ a[i] <= n /\ b[i] <= Len(e)
      BY <1>5, <1>6, <3>1
    <3>4. \A m \in 1..a[i] : D[m].config = C[m].config /\ D[m].parent = C[m].parent /\ D[m].owner = C[m].owner
      <4>1. \A m \in 1..a[i] : m \in 1..n
        BY <1>7, <3>3
      <4> QED BY <4>1 DEF Agree
    <3>5. \A m \in 1..b[i] : d[m] = e[m]
      <4>1. \A m \in 1..b[i] : m \in 1..Len(e)
        BY <1>4, <3>3
      <4> QED BY <4>1
    <3>6. PICK F1, p1, q1, j1, k1 :
             F1 = s[i] /\ p1 = a[i - 1] /\ q1 = a[i] /\ j1 = b[i - 1] /\ k1 = b[i]
      OBVIOUS
    <3>7. /\ Leads(F1, e, C, p1, q1, j1, k1)
          /\ p1 \in Nat /\ q1 \in Nat /\ j1 \in Nat /\ k1 \in Nat
      BY <3>2, <3>3, <3>6
    <3>8. /\ \A m \in 1..k1 : d[m] = e[m]
          /\ \A m \in 1..q1 : D[m].config = C[m].config /\ D[m].parent = C[m].parent
                              /\ D[m].owner = C[m].owner
      BY <3>4, <3>5, <3>6
    <3>9. Leads(F1, d, D, p1, q1, j1, k1)
      <4>1. CASE F1.kind = "budget"
        <5>1. q1 = p1 /\ k1 = j1 + 1 /\ e[k1] = F1.of /\ F1.ctx = 0
              /\ F1.protects = [Unprotected EXCEPT !.budgets = {F1.of}]
          BY <3>7, <4>1 DEF Leads
        <5>2. k1 \in 1..k1
          BY <3>7, <5>1
        <5>3. d[k1] = e[k1]
          BY <3>8, <5>2
        <5> QED BY <4>1, <5>1, <5>3 DEF Leads
      <4>2. CASE F1.kind # "budget"
        <5>1. /\ k1 = j1 /\ p1 < q1 /\ F1.ctx = q1 /\ F1.token = p1 /\ C[q1].parent = p1
              /\ C[q1].owner = IF F1.kind = "shield" THEN F1.of ELSE None
              /\ C[q1].config = IF p1 = 0 THEN F1.protects ELSE Merge(C[p1].config, F1.protects)
          BY <3>7, <4>2 DEF Leads
        <5>2. q1 \in 1..q1 /\ (p1 # 0 => p1 \in 1..q1)
          BY <3>7, <5>1
        <5>3. /\ D[q1].config = C[q1].config /\ D[q1].parent = C[q1].parent
              /\ D[q1].owner = C[q1].owner /\ (p1 # 0 => D[p1].config = C[p1].config)
          BY <3>8, <5>2
        <5> QED BY <4>2, <5>1, <5>3 DEF Leads
      <4> QED BY <4>1, <4>2
    <3> QED BY <1>9, <1>12, <3>1, <3>6, <3>9
  <2> QED BY <2>1, <2>2
<1>16. ConfigAt(D, a[0]) = ConfigAt(C, a[0])
  <2>1. a[0] \in Nat /\ a[0] <= n
    BY <1>4, <1>5
  <2>2. CASE a[0] = 0
    BY <2>2 DEF ConfigAt
  <2>3. CASE a[0] # 0
    <3>1. a[0] \in 1..n
      BY <1>7, <2>1, <2>3
    <3>2. D[a[0]].config = C[a[0]].config
      BY <3>1 DEF Agree
    <3> QED BY <2>3, <3>2 DEF ConfigAt
  <2> QED BY <2>2, <2>3
<1>17. ar.protects = Joined(ConfigAt(D, f[0]), d, g[0])
  <2>1. f[0] = a[0] /\ g[0] = b[0] /\ b[0] \in Nat /\ b[0] <= Len(e)
    BY <1>4, <1>6, <1>12
  <2>2. \A m \in 1..b[0] : d[m] = e[m]
    <3>1. \A m \in 1..b[0] : m \in 1..Len(e)
      BY <1>4, <2>1
    <3> QED BY <3>1
  <2>3. {d[m] : m \in 1..b[0]} = {e[m] : m \in 1..b[0]}
    BY <2>2
  <2>4. Joined(ConfigAt(C, a[0]), d, b[0]) = Joined(ConfigAt(C, a[0]), e, b[0])
    BY <2>3 DEF Joined
  <2> QED BY <1>2, <1>16, <2>1, <2>4
<1>18. ar.scoped <=> f[0] # 0
  BY <1>2, <1>4, <1>12
<1>19. Levels(u, d, D, q, ar, f, g)
  BY <1>9, <1>12, <1>13, <1>14, <1>15, <1>17, <1>18 DEF Levels
<1>20. Level(u, d, D, q, ar)
  BY <1>9, <1>13, <1>14, <1>19 DEF Level
<1> QED BY <1>8, <1>20

\* A frame less: the context and the budgets are those that it was entered with.
LEMMA PoppedLevel ==
    ASSUME NEW s \in Seq(Frames), Len(s) > 0, NEW e \in Seq(AllBudgets), NEW C \in Seq(Contexts),
           NEW ar, NEW n, Level(s, e, C, n, ar)
    PROVE  \E p \in 0..Len(C), j \in 0..Len(e) :
              /\ Leads(s[Len(s)], e, C, p, n, j, Len(e))
              /\ p <= n
              /\ Level(SubSeq(s, 1, Len(s) - 1), SubSeq(e, 1, j), C, p, ar)
<1>1. PICK a \in [0..Len(s) -> 0..Len(C)], b \in [0..Len(s) -> 0..Len(e)] : Levels(s, e, C, n, ar, a, b)
  BY DEF Level
<1>2. /\ a[Len(s)] = n /\ b[Len(s)] = Len(e)
      /\ \A i \in 1..Len(s) : Leads(s[i], e, C, a[i - 1], a[i], b[i - 1], b[i])
      /\ ar.scoped <=> a[0] # 0
      /\ ar.protects = Joined(ConfigAt(C, a[0]), e, b[0])
  BY <1>1 DEF Levels
<1>3. PICK N : N = Len(s) - 1
  OBVIOUS
<1>4. /\ N \in Nat /\ Len(s) = N + 1 /\ N \in 0..Len(s) /\ N + 1 \in 1..Len(s) /\ (N + 1) - 1 = N /\ 0 \in 0..Len(s)
      /\ Len(e) \in Nat /\ Len(C) \in Nat
  BY <1>3
<1>5. \A i \in 0..Len(s) : a[i] \in 0..Len(C) /\ b[i] \in 0..Len(e)
  BY <1>1
<1>6. \A i \in 0..Len(s) : a[i] <= n
  BY <1>1, LevelsRise
<1>7. \A i \in 1..Len(s) : b[i - 1] \in Nat /\ b[i] \in Nat /\ b[i - 1] <= b[i]
  <2>1. SUFFICES ASSUME NEW i \in 1..Len(s) PROVE b[i - 1] \in Nat /\ b[i] \in Nat /\ b[i - 1] <= b[i]
    OBVIOUS
  <2>2. i - 1 \in 0..Len(s) /\ i \in 0..Len(s)
    OBVIOUS
  <2>3. b[i - 1] \in Nat /\ b[i] \in Nat
    BY <1>4, <1>5, <2>2
  <2>4. Leads(s[i], e, C, a[i - 1], a[i], b[i - 1], b[i])
    BY <1>2
  <2> QED BY <2>3, <2>4 DEF Leads
<1>8. PICK p, j : p = a[N] /\ j = b[N]
  OBVIOUS
<1>9. p \in 0..Len(C) /\ j \in 0..Len(e) /\ p <= n
  BY <1>4, <1>5, <1>6, <1>8
<1>10. Leads(s[Len(s)], e, C, p, n, j, Len(e))
  <2>1. Leads(s[N + 1], e, C, a[(N + 1) - 1], a[N + 1], b[(N + 1) - 1], b[N + 1])
    BY <1>2, <1>4
  <2> QED BY <1>2, <1>4, <1>8, <2>1
<1>11. \A i \in 0..N : b[i] \in Nat /\ b[i] <= j
  <2> DEFINE S == {k \in Nat : k <= N => b[N - k] \in Nat /\ b[N - k] <= j}
  <2>1. 0 \in S
    <3>1. N - 0 = N /\ b[N] \in Nat
      BY <1>4, <1>5
    <3> QED BY <1>8, <3>1
  <2>2. ASSUME NEW k \in Nat, k \in S
        PROVE  k + 1 \in S
    <3>1. SUFFICES ASSUME k + 1 <= N PROVE b[N - (k + 1)] \in Nat /\ b[N - (k + 1)] <= j
      OBVIOUS
    <3>2. b[N - k] \in Nat /\ b[N - k] <= j
      BY <1>4, <2>2, <3>1
    <3>3. N - k \in 1..Len(s) /\ (N - k) - 1 = N - (k + 1)
      BY <1>4, <3>1
    <3>4. b[(N - k) - 1] \in Nat /\ b[(N - k) - 1] <= b[N - k]
      BY <1>7, <3>3
    <3> QED BY <1>9, <3>2, <3>3, <3>4
  <2>3. Nat \subseteq S
    <3> HIDE DEF S
    <3> QED BY <2>1, <2>2, SetInduction
  <2>4. SUFFICES ASSUME NEW i \in 0..N PROVE b[i] \in Nat /\ b[i] <= j
    OBVIOUS
  <2>5. PICK k : k = N - i
    OBVIOUS
  <2>6. k \in Nat /\ k <= N /\ N - k = i
    BY <1>4, <2>5
  <2>7. k \in S
    <3> HIDE DEF S
    <3> QED BY <2>3, <2>6
  <2> QED BY <2>6, <2>7
<1>12. PICK u, d : u = SubSeq(s, 1, N) /\ d = SubSeq(e, 1, j)
  OBVIOUS
<1>13. /\ u \in Seq(Frames) /\ Len(u) = N /\ \A i \in 1..N : u[i] = s[i]
       /\ d \in Seq(AllBudgets) /\ Len(d) = j /\ \A i \in 1..j : d[i] = e[i]
  <2>1. u \in Seq(Frames) /\ Len(u) = N /\ \A i \in 1..N : u[i] = s[i]
    BY <1>4, <1>12
  <2>2. d \in Seq(AllBudgets) /\ Len(d) = j /\ \A i \in 1..j : d[i] = e[i]
    BY <1>9, <1>12
  <2> QED BY <2>1, <2>2
<1>14. PICK f, g : f = [i \in 0..N |-> a[i]] /\ g = [i \in 0..N |-> b[i]]
  OBVIOUS
<1>15. /\ \A i \in 0..N : f[i] = a[i] /\ g[i] = b[i]
       /\ f \in [0..N -> 0..Len(C)] /\ g \in [0..N -> 0..Len(d)]
  <2>1. \A i \in 0..N : i \in 0..Len(s)
    BY <1>4
  <2>2. \A i \in 0..N : b[i] \in 0..j
    BY <1>9, <1>11
  <2> QED BY <1>5, <1>13, <1>14, <2>1, <2>2
<1>16. ASSUME NEW i \in 1..N
       PROVE  Leads(u[i], d, C, f[i - 1], f[i], g[i - 1], g[i])
  <2>1. i \in 1..Len(s) /\ i \in 0..N /\ i - 1 \in 0..N /\ i \in 0..Len(s) /\ i - 1 \in 0..Len(s)
    BY <1>4
  <2>2. Leads(s[i], e, C, a[i - 1], a[i], b[i - 1], b[i])
    BY <1>2, <2>1
  <2>3. a[i - 1] \in Nat /\ a[i] \in Nat /\ b[i - 1] \in Nat /\ b[i] \in Nat /\ b[i] <= j
    BY <1>4, <1>5, <1>11, <2>1
  <2>4. \A m \in 1..b[i] : d[m] = e[m]
    <3>1. \A m \in 1..b[i] : m \in 1..j
      BY <1>9, <2>3
    <3> QED BY <1>13, <3>1
  <2>5. Leads(s[i], d, C, a[i - 1], a[i], b[i - 1], b[i])
    BY <2>2, <2>3, <2>4, LeadsAgain
  <2> QED BY <1>13, <1>15, <2>1, <2>5
<1>17. ar.protects = Joined(ConfigAt(C, f[0]), d, g[0])
  <2>1. 0 \in 0..N
    BY <1>4
  <2>2. f[0] = a[0] /\ g[0] = b[0] /\ b[0] \in Nat /\ b[0] <= j
    BY <1>11, <1>15, <2>1
  <2>3. \A m \in 1..b[0] : d[m] = e[m]
    <3>1. \A m \in 1..b[0] : m \in 1..j
      BY <1>9, <2>2
    <3> QED BY <1>13, <3>1
  <2>4. {d[m] : m \in 1..b[0]} = {e[m] : m \in 1..b[0]}
    BY <2>3
  <2>5. Joined(ConfigAt(C, a[0]), d, b[0]) = Joined(ConfigAt(C, a[0]), e, b[0])
    BY <2>4 DEF Joined
  <2> QED BY <1>2, <2>2, <2>5
<1>18. /\ ar.scoped <=> f[0] # 0
       /\ f[Len(u)] = p /\ g[Len(u)] = Len(d)
  <2>1. 0 \in 0..N /\ N \in 0..N
    BY <1>4
  <2> QED BY <1>2, <1>8, <1>13, <1>15, <2>1
<1>19. Levels(u, d, C, p, ar, f, g)
  BY <1>13, <1>15, <1>16, <1>17, <1>18 DEF Levels
<1>20. Level(u, d, C, p, ar)
  BY <1>13, <1>15, <1>19 DEF Level
<1>21. Level(SubSeq(s, 1, Len(s) - 1), SubSeq(e, 1, j), C, p, ar)
  BY <1>3, <1>12, <1>20
<1> QED BY <1>9, <1>10, <1>21

-----------------------------------------------------------------------------
(* The inductive invariant. *)

Types ==
    /\ ctxs \in Seq(Contexts) /\ Older(ctxs)
    /\ active \in [Tasks -> Nat]
    /\ entered \in [Tasks -> Seq(AllBudgets)]
    /\ frames \in [Tasks -> Seq(Frames)]
    /\ spawner \in [Tasks -> Tasks \union {None}]
    /\ got \in [Tasks -> Kinds \union {None}]
    /\ around \in [Tasks -> Surroundings]
    /\ called \subseteq Nat

\* Only a function sleeps, to be run again.
FrameOK(F) ==
    /\ F.kind = "function" =>
         /\ F.of \in Functions
         /\ F.retries <= Options[F.of].max_retries
         /\ F.validations <= Options[F.of].validation_retries
    /\ F.sleeping => F.kind = "function" /\ F.retries < Options[F.of].max_retries

FramesOK == \A t \in Tasks : \A i \in 1..Len(frames[t]) : FrameOK(frames[t][i])

AllLevels == \A t \in Tasks : Level(frames[t], entered[t], ctxs, active[t], around[t])

Nowhere == [protects |-> Unprotected, scoped |-> FALSE, runs |-> {}]

NotStarted ==
    \A t \in Tasks : ~Started(t) =>
        frames[t] = <<>> /\ active[t] = 0 /\ entered[t] = <<>> /\ around[t] = Nowhere

RunsEnd == \E N \in Nat : \A t \in Tasks : RunsOf(t) \subseteq 0..N

Inv == Types /\ FramesOK /\ AllLevels /\ NotStarted /\ RunsEnd

\* No function has the run that the next one gets.
LEMMA NewRunIsNew ==
    ASSUME RunsEnd
    PROVE  NewRun \in Nat /\ \A t \in Tasks : NewRun \notin RunsOf(t)
<1>1. PICK N \in Nat : \A t \in Tasks : RunsOf(t) \subseteq 0..N
  BY DEF RunsEnd
<1>2. PICK used : used = UNION {RunsOf(t) : t \in Tasks}
  OBVIOUS
<1>3. used \subseteq 0..N
  BY <1>1, <1>2
<1>4. IsFiniteSet(used) /\ Cardinality(used) \in Nat
  <2>1. IsFiniteSet(0..N)
    BY FS_Interval
  <2> QED BY <1>3, <2>1, FS_Subset, FS_CardinalityType
<1>5. PICK m : m = Cardinality(used) + 1
  OBVIOUS
<1>6. PICK free : free = 1..m \ used
  OBVIOUS
<1>7. free # {}
  <2>1. SUFFICES ASSUME free = {} PROVE FALSE
    OBVIOUS
  <2>2. 1..m \subseteq used
    BY <1>6, <2>1
  <2>3. Cardinality(1..m) <= Cardinality(used)
    BY <1>4, <2>2, FS_Subset
  <2>4. Cardinality(1..m) = m
    <3>1. m \in Nat /\ m >= 1
      BY <1>4, <1>5
    <3>2. Cardinality(1..m) = IF 1 > m THEN 0 ELSE m - 1 + 1
      BY <3>1, FS_Interval
    <3> QED BY <3>1, <3>2
  <2> QED BY <1>4, <1>5, <2>3, <2>4
<1>8. free \in SUBSET Nat
  BY <1>6
<1>9. Min(free) \in free
  BY <1>7, <1>8, MinIsLeast
<1>10. NewRun = Min(free)
  BY <1>2, <1>5, <1>6 DEF NewRun
<1>11. NewRun \in Nat /\ NewRun \notin used
  BY <1>6, <1>8, <1>9, <1>10
<1> QED BY <1>2, <1>11

\* A step in which one task enters or leaves something, or the contexts are changed by it.
LEMMA OneTaskSteps ==
    ASSUME Inv, NEW t \in Tasks, Started(t),
           NEW s \in Seq(Frames), NEW e \in Seq(AllBudgets), NEW D \in Seq(Contexts), NEW n, NEW r \in Nat,
           Older(D), frames' = [frames EXCEPT ![t] = s], entered' = [entered EXCEPT ![t] = e],
           ctxs' = D, active' = [active EXCEPT ![t] = n],
           \A i \in 1..Len(s) : FrameOK(s[i]),
           \A i \in 1..Len(s) : s[i].kind = "function" => s[i].run \in RunsOf(t) \union {r},
           Level(s, e, D, n, around[t]),
           \A u \in Tasks : u # t => Agree(ctxs, D, active[u]),
           UNCHANGED <<spawner, around>>,
           got' \in [Tasks -> Kinds \union {None}], called' \subseteq Nat
    PROVE  Inv'
<1>1. n \in Nat
  <2>1. around[t] \in Surroundings
    BY DEF Inv, Types
  <2>2. n \in 0..Len(D)
    BY <2>1, LevelsAddUp
  <2> QED BY <2>2
<1>2. /\ frames'[t] = s /\ entered'[t] = e /\ active'[t] = n
      /\ \A u \in Tasks : u # t => frames'[u] = frames[u] /\ entered'[u] = entered[u] /\ active'[u] = active[u]
  BY DEF Inv, Types
<1>3. Types'
  <2>1. /\ ctxs' \in Seq(Contexts) /\ Older(ctxs)'
    BY DEF Older
  <2>2. /\ active' \in [Tasks -> Nat] /\ entered' \in [Tasks -> Seq(AllBudgets)]
        /\ frames' \in [Tasks -> Seq(Frames)]
    BY <1>1 DEF Inv, Types
  <2>3. /\ spawner' \in [Tasks -> Tasks \union {None}] /\ around' \in [Tasks -> Surroundings]
    BY DEF Inv, Types
  <2> QED BY <2>1, <2>2, <2>3 DEF Types
<1>4. FramesOK'
  <2>1. ASSUME NEW u \in Tasks, NEW i \in 1..Len(frames'[u])
        PROVE  FrameOK(frames'[u][i])
    <3>1. CASE u = t
      BY <1>2, <3>1
    <3>2. CASE u # t
      BY <1>2, <3>2 DEF Inv, FramesOK
    <3> QED BY <3>1, <3>2
  <2> QED BY <2>1 DEF FramesOK, FrameOK
<1>5. AllLevels'
  <2>1. ASSUME NEW u \in Tasks
        PROVE  Level(frames'[u], entered'[u], ctxs', active'[u], around'[u])
    <3>1. CASE u = t
      BY <1>2, <3>1
    <3>2. CASE u # t
      <4>1. PICK p : p = frames[u]
        OBVIOUS
      <4>2. p \in Seq(Frames) /\ entered[u] \in Seq(AllBudgets) /\ ctxs \in Seq(Contexts)
        BY <4>1 DEF Inv, Types
      <4>3. Level(p, entered[u], ctxs, active[u], around[u])
        BY <4>1 DEF Inv, AllLevels
      <4>4. Agree(ctxs, D, active[u])
        BY <3>2
      <4>5. \A i \in 1..Len(p) : SamePlace(p[i], p[i])
        BY DEF SamePlace
      <4>6. Level(p, entered[u], D, active[u], around[u])
        BY <4>2, <4>3, <4>4, <4>5, LevelStays
      <4> QED BY <1>2, <3>2, <4>1, <4>6
    <3> QED BY <3>1, <3>2
  <2>2. ASSUME NEW u \in Tasks
        PROVE  Level(frames[u], entered[u], ctxs, active[u], around[u])'
    BY <2>1 DEF Level, Levels, Leads, ConfigAt, Joined
  <2> QED BY <2>2 DEF AllLevels
<1>6. NotStarted'
  <2>1. ASSUME NEW u \in Tasks, ~Started(u)'
        PROVE  frames'[u] = <<>> /\ active'[u] = 0 /\ entered'[u] = <<>> /\ around'[u] = Nowhere
    <3>1. ~Started(u) /\ u # t
      BY <2>1 DEF Started
    <3> QED BY <1>2, <3>1 DEF Inv, NotStarted
  <2> QED BY <2>1 DEF NotStarted, Nowhere
<1>7. RunsEnd'
  <2>1. PICK N \in Nat : \A u \in Tasks : RunsOf(u) \subseteq 0..N
    BY DEF Inv, RunsEnd
  <2>2. PICK M : M = IF r > N THEN r ELSE N
    OBVIOUS
  <2>3. M \in Nat /\ N <= M /\ r <= M
    BY <2>2
  <2>4. ASSUME NEW u \in Tasks, NEW x \in RunsOf(u)'
        PROVE  x \in 0..M
    <3>1. x \in around[u].runs \/ \E i \in 1..Len(frames'[u]) : frames'[u][i].kind = "function" /\ x = frames'[u][i].run
      <4>1. frames'[u] \in Seq(Frames)
        BY <1>3 DEF Types
      <4> QED BY <2>4, <4>1 DEF RunsOf, FunctionsOf
    <3>2. x \in RunsOf(u) \union {r}
      <4>1. CASE x \in around[u].runs
        BY <4>1 DEF RunsOf
      <4>2. CASE u = t /\ \E i \in 1..Len(frames'[u]) : frames'[u][i].kind = "function" /\ x = frames'[u][i].run
        BY <1>2, <4>2
      <4>3. CASE u # t /\ \E i \in 1..Len(frames'[u]) : frames'[u][i].kind = "function" /\ x = frames'[u][i].run
        <5>1. frames[u] \in Seq(Frames)
          BY DEF Inv, Types
        <5> QED BY <1>2, <4>3, <5>1 DEF RunsOf, FunctionsOf
      <4> QED BY <3>1, <4>1, <4>2, <4>3
    <3> QED BY <2>1, <2>3, <3>2
  <2> QED BY <2>3, <2>4 DEF RunsEnd
<1> QED BY <1>3, <1>4, <1>5, <1>6, <1>7 DEF Inv

\* What gets a response changes in nothing else.
LEMMA GiveGives ==
    ASSUME Inv, NEW t \in Tasks, NEW u \in Seq(Frames), NEW r \in Kinds \union {None}, Give(t, u, r)
    PROVE  /\ got' \in [Tasks -> Kinds \union {None}]
           /\ \E s \in Seq(Frames) :
                /\ frames' = [frames EXCEPT ![t] = s] /\ Len(s) = Len(u)
                /\ \A i \in 1..Len(u) : \E h \in Kinds \union {None} : s[i] = [u[i] EXCEPT !.holds = h]
<1>0. got \in [Tasks -> Kinds \union {None}]
  BY DEF Inv, Types
<1>1. CASE r = None \/ FunctionsOf(u) = {}
  <2>1. frames' = [frames EXCEPT ![t] = u]
    BY <1>1 DEF Give
  <2>2. \A i \in 1..Len(u) : u[i].holds \in Kinds \union {None} /\ u[i] = [u[i] EXCEPT !.holds = u[i].holds]
    <3>1. \A i \in 1..Len(u) : u[i] \in Frames
      OBVIOUS
    <3> QED BY <3>1 DEF Frames
  <2>3. got' = [got EXCEPT ![t] = IF r = None \/ spawner[t] = None THEN @ ELSE r]
    BY <1>1 DEF Give
  <2>4. got' \in [Tasks -> Kinds \union {None}]
    BY <1>0, <2>3
  <2>5. \A i \in 1..Len(u) : \E h \in Kinds \union {None} : u[i] = [u[i] EXCEPT !.holds = h]
    BY <2>2
  <2>6. \E s \in Seq(Frames) :
           /\ frames' = [frames EXCEPT ![t] = s] /\ Len(s) = Len(u)
           /\ \A i \in 1..Len(u) : \E h \in Kinds \union {None} : s[i] = [u[i] EXCEPT !.holds = h]
    <3>1. WITNESS u \in Seq(Frames)
    <3> QED BY <2>1, <2>5
  <2> QED BY <2>4, <2>6
<1>2. CASE ~(r = None \/ FunctionsOf(u) = {})
  <2>1. PICK m : m = Max(FunctionsOf(u))
    OBVIOUS
  <2>2. m \in 1..Len(u)
    <3>1. FunctionsOf(u) \in SUBSET (0..Len(u)) /\ FunctionsOf(u) # {} /\ Len(u) \in Nat
      BY <1>2 DEF FunctionsOf
    <3>2. m \in FunctionsOf(u)
      BY <2>1, <3>1, MaxIsGreatest
    <3> QED BY <3>2 DEF FunctionsOf
  <2>3. PICK s : s = [u EXCEPT ![m].holds = r]
    OBVIOUS
  <2>4. frames' = [frames EXCEPT ![t] = s] /\ got' = got
    BY <1>2, <2>1, <2>3 DEF Give
  <2>5. [u[m] EXCEPT !.holds = r] \in Frames
    <3>1. u[m] \in Frames
      BY <2>2
    <3> QED BY <3>1 DEF Frames
  <2>6. /\ s \in Seq(Frames) /\ Len(s) = Len(u) /\ s[m] = [u[m] EXCEPT !.holds = r]
        /\ \A i \in 1..Len(u) : i # m => s[i] = u[i]
    BY <2>2, <2>3, <2>5
  <2>7. ASSUME NEW i \in 1..Len(u)
        PROVE  \E h \in Kinds \union {None} : s[i] = [u[i] EXCEPT !.holds = h]
    <3>1. CASE i = m
      BY <2>6, <3>1
    <3>2. CASE i # m
      <4>1. u[i] \in Frames
        OBVIOUS
      <4>2. u[i].holds \in Kinds \union {None} /\ u[i] = [u[i] EXCEPT !.holds = u[i].holds]
        BY <4>1 DEF Frames
      <4> QED BY <2>6, <3>2, <4>2
    <3> QED BY <3>1, <3>2
  <2> QED BY <1>0, <2>4, <2>6, <2>7
<1> QED BY <1>1, <1>2

\* The contexts of the frames exist.
LEMMA FrameContexts ==
    ASSUME NEW s \in Seq(Frames), NEW e \in Seq(AllBudgets), NEW C \in Seq(Contexts),
           NEW ar, NEW n, Level(s, e, C, n, ar), NEW i \in 1..Len(s)
    PROVE  /\ s[i].ctx \in 0..Len(C)
           /\ s[i].kind # "budget" => s[i].ctx > 0
<1>1. PICK a \in [0..Len(s) -> 0..Len(C)], b \in [0..Len(s) -> 0..Len(e)] : Levels(s, e, C, n, ar, a, b)
  BY DEF Level
<1>2. Leads(s[i], e, C, a[i - 1], a[i], b[i - 1], b[i])
  BY <1>1 DEF Levels
<1>3. i - 1 \in 0..Len(s) /\ i \in 0..Len(s)
  OBVIOUS
<1>4. a[i - 1] \in 0..Len(C) /\ a[i] \in 0..Len(C)
  BY <1>1, <1>3
<1> QED BY <1>2, <1>4 DEF Leads

\* What remains of the contexts when the newest are collected.
LEMMA PrefixOfContexts ==
    ASSUME NEW C \in Seq(Contexts), Older(C), NEW m \in 0..Len(C), NEW D, D = SubSeq(C, 1, m)
    PROVE  /\ D \in Seq(Contexts) /\ Len(D) = m /\ Older(D)
           /\ \A i \in 1..m : D[i] = C[i]
           /\ \A n \in Nat : n <= m => Agree(C, D, n)
<1>1. D \in Seq(Contexts) /\ Len(D) = m /\ \A i \in 1..m : D[i] = C[i]
  OBVIOUS
<1>2. Older(D)
  <2>1. \A i \in 1..m : i \in 1..Len(C)
    OBVIOUS
  <2> QED BY <1>1, <2>1 DEF Older
<1>3. ASSUME NEW n \in Nat, n <= m
      PROVE  Agree(C, D, n)
  <2>1. \A i \in 1..n : i \in 1..m
    BY <1>3
  <2> QED BY <1>1, <1>3, <2>1 DEF Agree
<1> QED BY <1>1, <1>2, <1>3

\* D is C with other marks.
OnlyMarks(C, D) ==
    /\ D \in [1..Len(C) -> Contexts]
    /\ \A i \in 1..Len(C) : \E b \in BOOLEAN : D[i] = [C[i] EXCEPT !.calls = b]

\* Contexts of which only the marks change.
LEMMA MarksOfContexts ==
    ASSUME NEW C \in Seq(Contexts), Older(C), NEW D, OnlyMarks(C, D)
    PROVE  /\ D \in Seq(Contexts) /\ Len(D) = Len(C) /\ Older(D)
           /\ \A n \in Nat : n <= Len(C) => Agree(C, D, n)
<1>1. ASSUME NEW i \in 1..Len(C)
      PROVE  /\ D[i] \in Contexts /\ D[i].config = C[i].config
             /\ D[i].parent = C[i].parent /\ D[i].owner = C[i].owner
  <2>1. PICK b \in BOOLEAN : D[i] = [C[i] EXCEPT !.calls = b]
    BY DEF OnlyMarks
  <2>2. C[i] \in Contexts
    OBVIOUS
  <2> QED BY <2>1, <2>2 DEF Contexts
<1>2. D \in Seq(Contexts) /\ Len(D) = Len(C)
  BY DEF OnlyMarks
<1>3. Older(D)
  BY <1>1, <1>2 DEF Older
<1>4. ASSUME NEW n \in Nat, n <= Len(C)
      PROVE  Agree(C, D, n)
  <2>1. \A i \in 1..n : i \in 1..Len(C)
    BY <1>4
  <2> QED BY <1>1, <1>2, <1>4, <2>1 DEF Agree
<1> QED BY <1>2, <1>3, <1>4

\* A call marks contexts.
LEMMA MarkedFacts ==
    ASSUME Types, NEW i
    PROVE  /\ Marked(i) \in [1..Len(ctxs) -> Contexts]
           /\ \A j \in 1..Len(ctxs) :
                Marked(i)[j] = [ctxs[j] EXCEPT !.calls = IF j \in ChainIn(ctxs, i) THEN TRUE ELSE @]
<1>1. Chain(i) = ChainIn(ctxs, i)
  BY DEF Chain, ChainIn
<1>2. PICK S : S = ChainIn(ctxs, i)
  OBVIOUS
<1>3. Marked(i) = [j \in 1..Len(ctxs) |-> IF j \in S THEN [ctxs[j] EXCEPT !.calls = TRUE] ELSE ctxs[j]]
  BY <1>1, <1>2 DEF Marked, Types
<1>4. ASSUME NEW j \in 1..Len(ctxs)
      PROVE  /\ Marked(i)[j] \in Contexts
             /\ Marked(i)[j] = [ctxs[j] EXCEPT !.calls = IF j \in S THEN TRUE ELSE @]
  <2>1. ctxs[j] \in Contexts
    BY DEF Types
  <2> QED BY <1>3, <2>1 DEF Contexts
<1> QED BY <1>2, <1>3, <1>4

\* A frame that has got a response is the same in all else.
LEMMA HoldingIsNothingElse ==
    ASSUME NEW F \in Frames, NEW h \in Kinds \union {None}, NEW G, G = [F EXCEPT !.holds = h]
    PROVE  /\ G \in Frames /\ SamePlace(F, G) /\ G.run = F.run
           /\ G.retries = F.retries /\ G.validations = F.validations /\ G.sleeping = F.sleeping
           /\ FrameOK(F) => FrameOK(G)
<1>1. /\ G \in Frames /\ G.kind = F.kind /\ G.of = F.of /\ G.protects = F.protects
      /\ G.ctx = F.ctx /\ G.token = F.token /\ G.run = F.run /\ G.retries = F.retries
      /\ G.validations = F.validations /\ G.sleeping = F.sleeping
  BY DEF Frames
<1> QED BY <1>1 DEF SamePlace, FrameOK

\* A task that is in something has been started, and the top of its stack is its last frame.
LEMMA TopFacts ==
    ASSUME Inv, NEW t \in Tasks, frames[t] # <<>>
    PROVE  /\ Started(t) /\ frames[t] \in Seq(Frames) /\ Len(frames[t]) > 0
           /\ Top(t) = frames[t][Len(frames[t])] /\ Top(t) \in Frames /\ FrameOK(Top(t))
           /\ Front(frames[t]) = SubSeq(frames[t], 1, Len(frames[t]) - 1)
<1>1. Started(t)
  BY DEF Inv, NotStarted
<1>2. frames[t] \in Seq(Frames)
  BY DEF Inv, Types
<1>3. Len(frames[t]) > 0
  BY <1>2
<1>4. Len(frames[t]) \in 1..Len(frames[t])
  BY <1>2, <1>3
<1>5. Top(t) = frames[t][Len(frames[t])]
  BY DEF Top, Last
<1>6. Top(t) \in Frames
  BY <1>2, <1>4, <1>5
<1>7. FrameOK(Top(t))
  BY <1>4, <1>5 DEF Inv, FramesOK
<1> QED BY <1>1, <1>2, <1>3, <1>5, <1>6, <1>7 DEF Front

\* The active contexts exist.
LEMMA ActiveExists ==
    ASSUME Inv, NEW t \in Tasks
    PROVE  /\ active[t] \in 0..Len(ctxs)
           /\ Level(frames[t], entered[t], ctxs, active[t], around[t])
           /\ frames[t] \in Seq(Frames) /\ entered[t] \in Seq(AllBudgets) /\ ctxs \in Seq(Contexts)
           /\ around[t] \in Surroundings
<1>1. /\ frames[t] \in Seq(Frames) /\ entered[t] \in Seq(AllBudgets) /\ ctxs \in Seq(Contexts)
      /\ around[t] \in Surroundings
  BY DEF Inv, Types
<1>2. Level(frames[t], entered[t], ctxs, active[t], around[t])
  BY DEF Inv, AllLevels
<1> QED BY <1>1, <1>2, LevelsAddUp

\* Nothing that is used is collected.
LEMMA CollectedKeeps ==
    ASSUME Inv, active' \in [Tasks -> 0..Len(ctxs)],
           \A u \in Tasks : frames'[u] \in Seq(Frames),
           \A u \in Tasks : \A i \in 1..Len(frames'[u]) : frames'[u][i].ctx \in 0..Len(ctxs)
    PROVE  \E m \in 0..Len(ctxs) : /\ Collected = SubSeq(ctxs, 1, m)
                                   /\ \A u \in Tasks : active'[u] <= m
                                   /\ \A u \in Tasks : \A i \in 1..Len(frames'[u]) : frames'[u][i].ctx <= m
<1>1. PICK used : used = {active'[u] : u \in Tasks}
                         \union UNION {{frames'[u][i].ctx : i \in DOMAIN frames'[u]} : u \in Tasks}
  OBVIOUS
<1>2. \A u \in Tasks : DOMAIN frames'[u] = 1..Len(frames'[u])
  OBVIOUS
<1>3. /\ \A u \in Tasks : active'[u] \in used
      /\ \A u \in Tasks : \A i \in 1..Len(frames'[u]) : frames'[u][i].ctx \in used
  BY <1>1, <1>2
<1>4. used \in SUBSET (0..Len(ctxs))
  BY <1>1, <1>2
<1>5. used # {} /\ Len(ctxs) \in Nat
  BY <1>3, ScopesAssumption DEF Inv, Types
<1>6. PICK m : m = Max(used)
  OBVIOUS
<1>7. m \in used /\ \A y \in used : y <= m
  BY <1>4, <1>5, <1>6, MaxIsGreatest
<1>8. Collected = SubSeq(ctxs, 1, m)
  BY <1>1, <1>6 DEF Collected
<1> QED BY <1>3, <1>4, <1>7, <1>8

-----------------------------------------------------------------------------
(* The steps. *)

\* What has been entered protects what it was created to protect.
LEMMA OptionsFacts ==
    ASSUME NEW x \in Shields \union Functions
    PROVE  /\ Options[x].protects \in Protections
           /\ Options[x].max_retries \in Nat /\ Options[x].validation_retries \in Nat
BY ScopesAssumption

\* The context that is created when something is entered.
LEMMA NewContext ==
    ASSUME Inv, NEW t \in Tasks, NEW x \in Shields \union Functions, NEW owner \in Shields \union {None},
           NEW c, c = Context(t, x, owner)
    PROVE  /\ c \in Contexts /\ c.parent = active[t] /\ c.owner = owner /\ c.calls = FALSE
           /\ c.config = IF active[t] = 0 THEN Options[x].protects
                         ELSE Merge(ctxs[active[t]].config, Options[x].protects)
           /\ Append(ctxs, c) \in Seq(Contexts) /\ Older(Append(ctxs, c))
           /\ \A n \in Nat : n <= Len(ctxs) => Agree(ctxs, Append(ctxs, c), n)
<1>1. active[t] \in 0..Len(ctxs) /\ ctxs \in Seq(Contexts) /\ Older(ctxs)
  BY ActiveExists DEF Inv, Types
<1>2. PICK P : P = IF active[t] = 0 THEN Options[x].protects
                   ELSE Merge(ctxs[active[t]].config, Options[x].protects)
  OBVIOUS
<1>3. P \in Protections
  <2>1. CASE active[t] = 0
    BY <1>2, <2>1, OptionsFacts
  <2>2. CASE active[t] # 0
    <3>1. ctxs[active[t]].config \in Protections
      <4>1. ctxs[active[t]] \in Contexts
        BY <1>1, <2>2
      <4> QED BY <4>1 DEF Contexts
    <3> QED BY <1>2, <2>2, <3>1, OptionsFacts, MergeIsProtections
  <2> QED BY <2>1, <2>2
<1>4. c = [config |-> P, parent |-> active[t], owner |-> owner, calls |-> FALSE]
  BY <1>2 DEF Context
<1>5. active[t] \in Nat
  BY <1>1
<1>6. c \in Contexts
  BY <1>3, <1>4, <1>5 DEF Contexts
<1>7. c.parent = active[t] /\ c.owner = owner /\ c.calls = FALSE /\ c.config = P
  BY <1>4
<1>8. PICK D : D = Append(ctxs, c)
  OBVIOUS
<1>9. D \in Seq(Contexts) /\ Len(D) = Len(ctxs) + 1 /\ D[Len(ctxs) + 1] = c /\ \A i \in 1..Len(ctxs) : D[i] = ctxs[i]
  BY <1>1, <1>6, <1>8
<1>10. Older(D)
  <2>1. ASSUME NEW i \in 1..Len(D)
        PROVE  D[i].parent \in 0..(i - 1)
    <3>1. CASE i = Len(ctxs) + 1
      BY <1>1, <1>7, <1>9, <3>1
    <3>2. CASE i # Len(ctxs) + 1
      <4>1. i \in 1..Len(ctxs)
        BY <1>1, <1>9, <3>2
      <4> QED BY <1>1, <1>9, <4>1 DEF Older
    <3> QED BY <3>1, <3>2
  <2> QED BY <2>1 DEF Older
<1>11. ASSUME NEW n \in Nat, n <= Len(ctxs)
       PROVE  Agree(ctxs, D, n)
  <2>1. \A i \in 1..n : i \in 1..Len(ctxs)
    BY <1>1, <1>11
  <2>2. n <= Len(D)
    BY <1>1, <1>9, <1>11
  <2> QED BY <1>9, <2>1, <2>2 DEF Agree
<1> QED BY <1>2, <1>6, <1>7, <1>8, <1>9, <1>10, <1>11

\* What is entered has a frame of its kind.
LEMMA FrameIsAFrame ==
    ASSUME NEW kind \in {"shield", "function", "budget"}, NEW x \in Shields \union Functions \union Budgets,
           NEW P \in Protections, NEW ctx \in Nat, NEW token \in Nat, NEW run \in Nat
    PROVE  Frame(kind, x, P, ctx, token, run) \in Frames
BY DEF Frame, Frames

\* A scope is entered.
LEMMA EnterSteps ==
    ASSUME Inv, NEW t \in Tasks, NEW x, NEW owner, NEW kind, NEW run \in Nat,
           \/ kind = "shield" /\ x \in Shields /\ owner = x
           \/ kind = "function" /\ x \in Functions /\ owner = None,
           Enter(t, x, owner, kind, run), called' \subseteq Nat
    PROVE  Inv'
<1>1. /\ Started(t) /\ UNCHANGED <<entered, spawner, got, around>>
      /\ ctxs' = Append(ctxs, Context(t, x, owner))
      /\ active' = [active EXCEPT ![t] = Len(ctxs) + 1]
  BY DEF Enter, Runs
<1>2. /\ active[t] \in 0..Len(ctxs)
      /\ Level(frames[t], entered[t], ctxs, active[t], around[t])
      /\ frames[t] \in Seq(Frames) /\ entered[t] \in Seq(AllBudgets) /\ ctxs \in Seq(Contexts)
  BY ActiveExists
<1>3. x \in Shields \union Functions /\ owner \in Shields \union {None} /\ kind # "budget"
  OBVIOUS
<1>4. PICK c : c = Context(t, x, owner)
  OBVIOUS
<1>5. PICK D : D = Append(ctxs, c)
  OBVIOUS
<1>6. /\ c.parent = active[t] /\ c.owner = owner
      /\ c.config = IF active[t] = 0 THEN Options[x].protects
                    ELSE Merge(ctxs[active[t]].config, Options[x].protects)
      /\ c \in Contexts /\ D \in Seq(Contexts) /\ Older(D)
      /\ \A n \in Nat : n <= Len(ctxs) => Agree(ctxs, D, n)
  <2>4. c \in Contexts
    BY <1>3, <1>4, NewContext
  <2>1. c.parent = active[t] /\ c.owner = owner
    BY <1>4 DEF Context
  <2>3. c.config = IF active[t] = 0 THEN Options[x].protects
                   ELSE Merge(ctxs[active[t]].config, Options[x].protects)
    BY <1>4 DEF Context
  <2>2. /\ Append(ctxs, c) \in Seq(Contexts) /\ Older(Append(ctxs, c))
        /\ \A n \in Nat : n <= Len(ctxs) => Agree(ctxs, Append(ctxs, c), n)
    BY <1>3, <1>4, NewContext
  <2> QED BY <1>5, <2>1, <2>2, <2>3, <2>4
<1>7. PICK F : F = Frame(kind, x, Options[x].protects, Len(ctxs) + 1, active[t], run)
  OBVIOUS
<1>8. frames' = [frames EXCEPT ![t] = Append(frames[t], F)]
  BY <1>7 DEF Enter, Push
<1>9. F \in Frames
  <2>1. PICK P, ctx, token : P = Options[x].protects /\ ctx = Len(ctxs) + 1 /\ token = active[t]
    OBVIOUS
  <2>2. ctx \in Nat /\ token \in Nat
    BY <1>2, <2>1
  <2>3. kind \in {"shield", "function", "budget"} /\ x \in Shields \union Functions \union Budgets
    OBVIOUS
  <2>4. P \in Protections
    BY <1>3, <2>1, OptionsFacts
  <2>5. Frame(kind, x, P, ctx, token, run) \in Frames
    BY <2>2, <2>3, <2>4, FrameIsAFrame
  <2> QED BY <1>7, <2>1, <2>5
<1>10. /\ F.kind = kind /\ F.of = x /\ F.protects = Options[x].protects /\ F.ctx = Len(ctxs) + 1
       /\ F.token = active[t] /\ F.run = run /\ F.retries = 0 /\ F.validations = 0 /\ F.sleeping = FALSE
  BY <1>7 DEF Frame
<1>11. Len(D) = Len(ctxs) + 1 /\ D[Len(ctxs) + 1] = c /\ \A i \in 1..Len(ctxs) : D[i] = ctxs[i]
  BY <1>2, <1>5, <1>6
<1>12. PICK q : q = Len(ctxs) + 1
  OBVIOUS
<1>13. q \in 0..Len(D) /\ active[t] < q
  BY <1>2, <1>11, <1>12
<1>14. Leads(F, entered[t], D, active[t], q, Len(entered[t]), Len(entered[t]))
  <2>1. D[q].owner = IF F.kind = "shield" THEN F.of ELSE None
    BY <1>3, <1>6, <1>10, <1>11, <1>12
  <2>2. D[q].config = IF active[t] = 0 THEN F.protects ELSE Merge(D[active[t]].config, F.protects)
    <3>1. CASE active[t] = 0
      BY <1>6, <1>10, <1>11, <1>12, <3>1
    <3>2. CASE active[t] # 0
      <4>1. D[active[t]] = ctxs[active[t]]
        BY <1>2, <1>11, <3>2
      <4> QED BY <1>6, <1>10, <1>11, <1>12, <3>2, <4>1
    <3> QED BY <3>1, <3>2
  <2> QED BY <1>3, <1>6, <1>10, <1>11, <1>12, <1>13, <2>1, <2>2 DEF Leads
<1>15. Agree(ctxs, D, active[t]) /\ \A u \in Tasks : Agree(ctxs, D, active[u])
  <2>1. \A u \in Tasks : active[u] \in Nat /\ active[u] <= Len(ctxs)
    <3>1. \A u \in Tasks : active[u] \in 0..Len(ctxs)
      BY ActiveExists
    <3> QED BY <1>2, <3>1
  <2> QED BY <1>6, <2>1
<1>16. PICK s : s = Append(frames[t], F)
  OBVIOUS
<1>17. Level(s, entered[t], D, q, around[t])
  <2>1. Len(entered[t]) <= Len(entered[t]) /\ \A m \in 1..Len(entered[t]) : entered[t][m] = entered[t][m]
    BY <1>2
  <2> QED BY <1>2, <1>6, <1>9, <1>13, <1>14, <1>15, <1>16, <2>1, PushedLevel
<1>18. /\ s \in Seq(Frames) /\ Len(s) = Len(frames[t]) + 1 /\ s[Len(frames[t]) + 1] = F
       /\ \A i \in 1..Len(frames[t]) : s[i] = frames[t][i]
  BY <1>2, <1>9, <1>16
<1>19. \A i \in 1..Len(s) : i = Len(frames[t]) + 1 \/ i \in 1..Len(frames[t])
  BY <1>2, <1>18
<1>20. FrameOK(F)
  <2>1. kind = "function" => Options[x].max_retries \in Nat /\ Options[x].validation_retries \in Nat
    BY <1>3, OptionsFacts
  <2> QED BY <1>10, <2>1 DEF FrameOK
<1>21. \A i \in 1..Len(s) : FrameOK(s[i])
  <2>1. \A i \in 1..Len(frames[t]) : FrameOK(frames[t][i])
    BY DEF Inv, FramesOK
  <2> QED BY <1>18, <1>19, <1>20, <2>1
<1>22. \A i \in 1..Len(s) : s[i].kind = "function" => s[i].run \in RunsOf(t) \union {run}
  <2>1. \A i \in 1..Len(frames[t]) : frames[t][i].kind = "function" => frames[t][i].run \in RunsOf(t)
    BY <1>2 DEF RunsOf, FunctionsOf
  <2> QED BY <1>10, <1>18, <1>19, <2>1
<1>23. frames' = [frames EXCEPT ![t] = s] /\ ctxs' = D /\ active' = [active EXCEPT ![t] = q]
  BY <1>1, <1>4, <1>5, <1>8, <1>12, <1>16
<1>24. entered' = [entered EXCEPT ![t] = entered[t]]
  BY <1>1 DEF Inv, Types
<1>25. got' \in [Tasks -> Kinds \union {None}]
  BY <1>1 DEF Inv, Types
<1>26. /\ s \in Seq(Frames) /\ entered[t] \in Seq(AllBudgets) /\ D \in Seq(Contexts) /\ Older(D)
       /\ \A u \in Tasks : u # t => Agree(ctxs, D, active[u])
       /\ UNCHANGED <<spawner, around>> /\ Started(t)
  BY <1>1, <1>2, <1>6, <1>15, <1>18
<1> QED BY <1>17, <1>21, <1>22, <1>23, <1>24, <1>25, <1>26, OneTaskSteps

\* Contexts agree with themselves.
LEMMA AgreesWithItself ==
    ASSUME Inv
    PROVE  \A u \in Tasks : Agree(ctxs, ctxs, active[u])
<1>1. SUFFICES ASSUME NEW u \in Tasks PROVE Agree(ctxs, ctxs, active[u])
  OBVIOUS
<1>2. active[u] \in 0..Len(ctxs)
  BY ActiveExists
<1> QED BY <1>2 DEF Agree

\* A budget is entered.
LEMMA EnterBudgetSteps ==
    ASSUME Inv, NEW t \in Tasks, NEW b \in Budgets, EnterBudget(t, b)
    PROVE  Inv'
<1>1. /\ Started(t) /\ ctxs' = ctxs /\ active' = active /\ spawner' = spawner /\ got' = got
      /\ around' = around /\ called' = called
      /\ entered' = [entered EXCEPT ![t] = Append(@, b)]
  BY DEF EnterBudget, Runs
<1>2. /\ active[t] \in 0..Len(ctxs)
      /\ Level(frames[t], entered[t], ctxs, active[t], around[t])
      /\ frames[t] \in Seq(Frames) /\ entered[t] \in Seq(AllBudgets) /\ ctxs \in Seq(Contexts)
  BY ActiveExists
<1>3. PICK F, P : F = Frame("budget", b, P, 0, 0, 0) /\ P = [Unprotected EXCEPT !.budgets = {b}]
  OBVIOUS
<1>4. b \in AllBudgets
  BY DEF AllBudgets
<1>5. P \in Protections
  BY <1>3, <1>4 DEF Unprotected, Protections
<1>6. F \in Frames
  <2>1. Frame("budget", b, P, 0, 0, 0) \in Frames
    BY <1>5, FrameIsAFrame
  <2> QED BY <1>3, <2>1
<1>7. F.kind = "budget" /\ F.of = b /\ F.protects = P /\ F.ctx = 0 /\ F.sleeping = FALSE
  BY <1>3 DEF Frame
<1>8. PICK s, d : s = Append(frames[t], F) /\ d = Append(entered[t], b)
  OBVIOUS
<1>9. /\ s \in Seq(Frames) /\ Len(s) = Len(frames[t]) + 1 /\ s[Len(frames[t]) + 1] = F
      /\ \A i \in 1..Len(frames[t]) : s[i] = frames[t][i]
  BY <1>2, <1>6, <1>8
<1>10. /\ d \in Seq(AllBudgets) /\ Len(d) = Len(entered[t]) + 1 /\ d[Len(entered[t]) + 1] = b
       /\ \A i \in 1..Len(entered[t]) : d[i] = entered[t][i]
  BY <1>2, <1>4, <1>8
<1>11. Leads(F, d, ctxs, active[t], active[t], Len(entered[t]), Len(d))
  BY <1>3, <1>7, <1>10 DEF Leads
<1>12. \A u \in Tasks : Agree(ctxs, ctxs, active[u])
  BY AgreesWithItself
<1>13. Level(s, d, ctxs, active[t], around[t])
  <2>1. Len(entered[t]) <= Len(d)
    BY <1>2, <1>10
  <2> QED BY <1>2, <1>6, <1>8, <1>10, <1>11, <1>12, <2>1, PushedLevel
<1>14. \A i \in 1..Len(s) : i = Len(frames[t]) + 1 \/ i \in 1..Len(frames[t])
  BY <1>2, <1>9
<1>15. \A i \in 1..Len(s) : FrameOK(s[i])
  <2>1. \A i \in 1..Len(frames[t]) : FrameOK(frames[t][i])
    BY DEF Inv, FramesOK
  <2>2. FrameOK(F)
    BY <1>7 DEF FrameOK
  <2> QED BY <1>9, <1>14, <2>1, <2>2
<1>16. \A i \in 1..Len(s) : s[i].kind = "function" => s[i].run \in RunsOf(t) \union {0}
  <2>1. \A i \in 1..Len(frames[t]) : frames[t][i].kind = "function" => frames[t][i].run \in RunsOf(t)
    BY <1>2 DEF RunsOf, FunctionsOf
  <2> QED BY <1>7, <1>9, <1>14, <2>1
<1>17. frames' = [frames EXCEPT ![t] = s] /\ entered' = [entered EXCEPT ![t] = d]
  BY <1>1, <1>3, <1>8 DEF EnterBudget, Push
<1>18. active' = [active EXCEPT ![t] = active[t]]
  BY <1>1 DEF Inv, Types
<1>19. got' \in [Tasks -> Kinds \union {None}] /\ called' \subseteq Nat /\ Older(ctxs)
  BY <1>1 DEF Inv, Types
<1>20. s \in Seq(Frames) /\ d \in Seq(AllBudgets) /\ ctxs \in Seq(Contexts) /\ 0 \in Nat
  BY <1>2, <1>9, <1>10
<1>21. UNCHANGED <<spawner, around>> /\ ctxs' = ctxs /\ Started(t)
  BY <1>1
<1> QED BY <1>12, <1>13, <1>15, <1>16, <1>17, <1>18, <1>19, <1>20, <1>21, OneTaskSteps

\* What is left of a task's frames, and of the runs it is in.
LEMMA FrontFacts ==
    ASSUME Inv, NEW t \in Tasks, frames[t] # <<>>, NEW u, u = Front(frames[t])
    PROVE  /\ u \in Seq(Frames) /\ Len(u) = Len(frames[t]) - 1
           /\ \A i \in 1..Len(u) : /\ i \in 1..Len(frames[t]) /\ u[i] = frames[t][i] /\ FrameOK(u[i])
                                   /\ u[i].kind = "function" => u[i].run \in RunsOf(t)
<1>1. /\ frames[t] \in Seq(Frames) /\ Len(frames[t]) > 0 /\ u = SubSeq(frames[t], 1, Len(frames[t]) - 1)
  BY TopFacts
<1>2. u \in Seq(Frames) /\ Len(u) = Len(frames[t]) - 1 /\ \A i \in 1..Len(u) : u[i] = frames[t][i]
  BY <1>1
<1>3. \A i \in 1..Len(u) : i \in 1..Len(frames[t])
  BY <1>1, <1>2
<1>4. \A i \in 1..Len(frames[t]) : FrameOK(frames[t][i])
  BY DEF Inv, FramesOK
<1>5. \A i \in 1..Len(frames[t]) : frames[t][i].kind = "function" => frames[t][i].run \in RunsOf(t)
  BY <1>1 DEF RunsOf, FunctionsOf
<1> QED BY <1>2, <1>3, <1>4, <1>5

\* A budget is left.
LEMMA LeaveBudgetSteps ==
    ASSUME Inv, NEW t \in Tasks, LeaveBudget(t)
    PROVE  Inv'
<1>1. /\ frames[t] # <<>> /\ Top(t).kind = "budget"
      /\ ctxs' = ctxs /\ active' = active /\ spawner' = spawner /\ got' = got
      /\ around' = around /\ called' = called
  BY DEF LeaveBudget, AtTop
<1>2. /\ active[t] \in 0..Len(ctxs)
      /\ Level(frames[t], entered[t], ctxs, active[t], around[t])
      /\ frames[t] \in Seq(Frames) /\ entered[t] \in Seq(AllBudgets) /\ ctxs \in Seq(Contexts)
  BY ActiveExists
<1>3. /\ Started(t) /\ Len(frames[t]) > 0 /\ Top(t) = frames[t][Len(frames[t])]
      /\ Front(frames[t]) = SubSeq(frames[t], 1, Len(frames[t]) - 1)
  BY <1>1, TopFacts
<1>4. PICK e : e = entered[t]
  OBVIOUS
<1>5. PICK p \in 0..Len(ctxs), j \in 0..Len(e) :
         /\ Leads(Top(t), e, ctxs, p, active[t], j, Len(e))
         /\ Level(SubSeq(frames[t], 1, Len(frames[t]) - 1), SubSeq(e, 1, j), ctxs, p, around[t])
  BY <1>2, <1>3, <1>4, PoppedLevel
<1>6. p = active[t] /\ Len(e) = j + 1 /\ e[Len(e)] = Top(t).of
  BY <1>1, <1>5 DEF Leads
<1>7. PICK at : at = Max({i \in DOMAIN e : e[i] = Top(t).of})
  OBVIOUS
<1>8. at = Len(e)
  <2>1. PICK S : S = {i \in DOMAIN e : e[i] = Top(t).of}
    OBVIOUS
  <2>2. Len(e) \in Nat /\ DOMAIN e = 1..Len(e) /\ Len(e) \in 1..Len(e)
    BY <1>2, <1>4, <1>6
  <2>3. S \in SUBSET (0..Len(e)) /\ Len(e) \in S
    BY <1>6, <2>1, <2>2
  <2>4. at = Max(S)
    BY <1>7, <2>1
  <2>5. at \in S /\ \A y \in S : y <= at
    BY <2>2, <2>3, <2>4, MaxIsGreatest
  <2>6. at \in 0..Len(e) /\ Len(e) <= at
    BY <2>3, <2>5
  <2>7. Len(e) \in Nat
    BY <2>2
  <2>8. \A n \in Nat : \A m \in 0..n : n <= m => m = n
    OBVIOUS
  <2> QED BY <2>6, <2>7, <2>8
<1>9. PICK d : d = RemoveAt(e, at)
  OBVIOUS
<1>10. d = SubSeq(e, 1, j)
  <2>1. d = SubSeq(e, 1, Len(e) - 1) \o SubSeq(e, Len(e) + 1, Len(e))
    BY <1>8, <1>9 DEF RemoveAt
  <2>2. e \in Seq(AllBudgets) /\ Len(e) - 1 = j /\ Len(e) \in Nat
    BY <1>2, <1>4, <1>6
  <2>3. SubSeq(e, Len(e) + 1, Len(e)) = <<>>
    BY <2>2
  <2>4. SubSeq(e, 1, j) \in Seq(AllBudgets)
    BY <2>2
  <2> QED BY <2>1, <2>2, <2>3, <2>4
<1>11. d \in Seq(AllBudgets)
  BY <1>2, <1>4, <1>5, <1>10
<1>12. PICK s : s = Front(frames[t])
  OBVIOUS
<1>13. Level(s, d, ctxs, active[t], around[t])
  BY <1>3, <1>5, <1>6, <1>10, <1>12
<1>14. /\ s \in Seq(Frames)
       /\ \A i \in 1..Len(s) : FrameOK(s[i]) /\ (s[i].kind = "function" => s[i].run \in RunsOf(t))
  BY <1>1, <1>12, FrontFacts
<1>15. frames' = [frames EXCEPT ![t] = s] /\ entered' = [entered EXCEPT ![t] = d]
  <2>1. frames' = [frames EXCEPT ![t] = s]
    BY <1>12 DEF LeaveBudget, Pop
  <2>2. entered' = [entered EXCEPT ![t] = RemoveAt(@, Max({i \in DOMAIN entered[t] : entered[t][i] = Top(t).of}))]
    BY DEF LeaveBudget
  <2> QED BY <1>4, <1>7, <1>9, <2>1, <2>2
<1>16. active' = [active EXCEPT ![t] = active[t]]
  BY <1>1 DEF Inv, Types
<1>17. got' \in [Tasks -> Kinds \union {None}] /\ called' \subseteq Nat /\ Older(ctxs)
  BY <1>1 DEF Inv, Types
<1>18. \A u \in Tasks : Agree(ctxs, ctxs, active[u])
  BY AgreesWithItself
<1>19. \A i \in 1..Len(s) : s[i].kind = "function" => s[i].run \in RunsOf(t) \union {0}
  BY <1>14
<1>20. s \in Seq(Frames) /\ d \in Seq(AllBudgets) /\ ctxs \in Seq(Contexts) /\ 0 \in Nat
       /\ UNCHANGED <<spawner, around>> /\ ctxs' = ctxs /\ Started(t)
       /\ \A i \in 1..Len(s) : FrameOK(s[i])
  BY <1>1, <1>2, <1>3, <1>11, <1>14
<1> QED BY <1>13, <1>15, <1>16, <1>17, <1>18, <1>19, <1>20, OneTaskSteps

\* The innermost scope of a task has the context that is active.
LEMMA ScopeOnTop ==
    ASSUME Inv, NEW t \in Tasks, frames[t] # <<>>, Top(t).kind # "budget"
    PROVE  /\ active[t] \in 1..Len(ctxs) /\ Top(t).ctx = active[t]
           /\ Top(t).token \in 0..Len(ctxs) /\ Top(t).token < active[t]
           /\ ctxs[active[t]].parent = Top(t).token
           /\ ctxs[active[t]].owner = IF Top(t).kind = "shield" THEN Top(t).of ELSE None
           /\ Level(Front(frames[t]), entered[t], ctxs, Top(t).token, around[t])
<1>1. /\ active[t] \in 0..Len(ctxs)
      /\ Level(frames[t], entered[t], ctxs, active[t], around[t])
      /\ frames[t] \in Seq(Frames) /\ entered[t] \in Seq(AllBudgets) /\ ctxs \in Seq(Contexts)
  BY ActiveExists
<1>2. /\ Len(frames[t]) > 0 /\ Top(t) = frames[t][Len(frames[t])]
      /\ Front(frames[t]) = SubSeq(frames[t], 1, Len(frames[t]) - 1)
  BY TopFacts
<1>3. PICK e, n, F : e = entered[t] /\ n = active[t] /\ F = Top(t)
  OBVIOUS
<1>4. PICK p \in 0..Len(ctxs), j \in 0..Len(e) :
         /\ Leads(F, e, ctxs, p, n, j, Len(e))
         /\ Level(SubSeq(frames[t], 1, Len(frames[t]) - 1), SubSeq(e, 1, j), ctxs, p, around[t])
  BY <1>1, <1>2, <1>3, PoppedLevel
<1>5. /\ Len(e) = j /\ p < n /\ F.ctx = n /\ F.token = p
      /\ ctxs[n].parent = p /\ ctxs[n].owner = IF F.kind = "shield" THEN F.of ELSE None
  BY <1>3, <1>4 DEF Leads
<1>6. SubSeq(e, 1, j) = e
  <2>1. e \in Seq(AllBudgets)
    BY <1>1, <1>3
  <2>2. SubSeq(e, 1, Len(e)) = e
    BY <2>1
  <2> QED BY <1>5, <2>2
<1>7. Level(Front(frames[t]), e, ctxs, p, around[t])
  BY <1>2, <1>4, <1>6
<1>8. n \in 1..Len(ctxs)
  BY <1>1, <1>3, <1>4, <1>5
<1> QED BY <1>3, <1>4, <1>5, <1>7, <1>8

\* A scope is left, and what is around it gets a response, or none.
LEMMA LeaveScopeSteps ==
    ASSUME Inv, NEW t \in Tasks, frames[t] # <<>>, Top(t).kind # "budget",
           NEW s \in Seq(Frames), Len(s) = Len(frames[t]) - 1,
           \A i \in 1..Len(s) : \E h \in Kinds \union {None} : s[i] = [frames[t][i] EXCEPT !.holds = h],
           frames' = [frames EXCEPT ![t] = s], active' = [active EXCEPT ![t] = Top(t).token],
           ctxs' = Collected, UNCHANGED <<entered, spawner, around>>,
           got' \in [Tasks -> Kinds \union {None}], called' \subseteq Nat
    PROVE  /\ Inv'
           /\ \E m \in 0..Len(ctxs) : /\ ctxs' = SubSeq(ctxs, 1, m)
                                      /\ \A u \in Tasks : active'[u] <= m
                                      /\ \A u \in Tasks : \A i \in 1..Len(frames'[u]) : frames'[u][i].ctx <= m
<1>1. /\ active[t] \in 1..Len(ctxs) /\ Top(t).ctx = active[t]
      /\ Top(t).token \in 0..Len(ctxs) /\ Top(t).token < active[t]
      /\ Level(Front(frames[t]), entered[t], ctxs, Top(t).token, around[t])
  BY ScopeOnTop
<1>2. /\ frames[t] \in Seq(Frames) /\ entered[t] \in Seq(AllBudgets) /\ ctxs \in Seq(Contexts)
      /\ around[t] \in Surroundings /\ Older(ctxs)
  BY ActiveExists DEF Inv, Types
<1>3. Started(t)
  BY TopFacts
<1>4. PICK f : f = Front(frames[t])
  OBVIOUS
<1>5. /\ f \in Seq(Frames) /\ Len(f) = Len(frames[t]) - 1
      /\ \A i \in 1..Len(f) : /\ i \in 1..Len(frames[t]) /\ f[i] = frames[t][i] /\ FrameOK(f[i])
                              /\ f[i].kind = "function" => f[i].run \in RunsOf(t)
  BY <1>4, FrontFacts
<1>6. ASSUME NEW i \in 1..Len(s)
      PROVE  /\ SamePlace(f[i], s[i]) /\ FrameOK(s[i]) /\ s[i].ctx = frames[t][i].ctx /\ i \in 1..Len(frames[t])
             /\ s[i].kind = "function" => s[i].run \in RunsOf(t) \union {0}
  <2>1. i \in 1..Len(f) /\ f[i] \in Frames /\ f[i] = frames[t][i] /\ i \in 1..Len(frames[t])
    BY <1>5
  <2>2. PICK h \in Kinds \union {None} : s[i] = [f[i] EXCEPT !.holds = h]
    BY <2>1
  <2>3. FrameOK(f[i]) /\ (f[i].kind = "function" => f[i].run \in RunsOf(t))
    BY <1>5, <2>1
  <2>4. SamePlace(f[i], s[i]) /\ s[i].run = f[i].run /\ (FrameOK(f[i]) => FrameOK(s[i]))
    <3>1. PICK F, G : F = f[i] /\ G = s[i]
      OBVIOUS
    <3>2. F \in Frames /\ G = [F EXCEPT !.holds = h]
      BY <2>1, <2>2, <3>1
    <3>3. SamePlace(F, G)
      BY <3>2, HoldingIsNothingElse
    <3>4. G.run = F.run
      BY <3>2, HoldingIsNothingElse
    <3>5. FrameOK(F) => FrameOK(G)
      BY <3>2, HoldingIsNothingElse
    <3> QED BY <3>1, <3>3, <3>4, <3>5
  <2> QED BY <2>1, <2>3, <2>4 DEF SamePlace
<1>7. /\ frames'[t] = s /\ active'[t] = Top(t).token
      /\ \A u \in Tasks : u # t => frames'[u] = frames[u] /\ active'[u] = active[u]
  BY DEF Inv, Types
<1>8. \A u \in Tasks : active'[u] \in 0..Len(ctxs)
  <2>1. \A u \in Tasks : active[u] \in 0..Len(ctxs)
    BY ActiveExists
  <2> QED BY <1>1, <1>7, <2>1
<1>9. active' \in [Tasks -> 0..Len(ctxs)]
  <2>1. active \in [Tasks -> Nat]
    BY DEF Inv, Types
  <2> QED BY <1>8, <2>1
<1>10. ASSUME NEW u \in Tasks
       PROVE  frames'[u] \in Seq(Frames) /\ \A i \in 1..Len(frames'[u]) : frames'[u][i].ctx \in 0..Len(ctxs)
  <2>1. /\ Level(frames[u], entered[u], ctxs, active[u], around[u])
        /\ frames[u] \in Seq(Frames) /\ entered[u] \in Seq(AllBudgets)
    BY ActiveExists
  <2>2. \A i \in 1..Len(frames[u]) : frames[u][i].ctx \in 0..Len(ctxs)
    BY <1>2, <2>1, FrameContexts
  <2>3. CASE u = t
    BY <1>6, <1>7, <2>2, <2>3
  <2>4. CASE u # t
    BY <1>7, <2>1, <2>2, <2>4
  <2> QED BY <2>3, <2>4
<1>11. PICK m \in 0..Len(ctxs) : /\ Collected = SubSeq(ctxs, 1, m)
                                 /\ \A u \in Tasks : active'[u] <= m
                                 /\ \A u \in Tasks : \A i \in 1..Len(frames'[u]) : frames'[u][i].ctx <= m
  BY <1>9, <1>10, CollectedKeeps
<1>12. PICK D : D = SubSeq(ctxs, 1, m)
  OBVIOUS
<1>13. /\ D \in Seq(Contexts) /\ Older(D) /\ \A n \in Nat : n <= m => Agree(ctxs, D, n)
  BY <1>2, <1>12, PrefixOfContexts
<1>14. /\ Agree(ctxs, D, Top(t).token)
       /\ \A u \in Tasks : u # t => Agree(ctxs, D, active[u])
  <2>1. \A u \in Tasks : active'[u] \in Nat /\ active'[u] <= m
    BY <1>8, <1>11
  <2>2. \A u \in Tasks : Agree(ctxs, D, active'[u])
    BY <1>13, <2>1
  <2> QED BY <1>7, <2>2
<1>15. Level(s, entered[t], D, Top(t).token, around[t])
  <2>1. Level(f, entered[t], ctxs, Top(t).token, around[t]) /\ Len(s) = Len(f)
    BY <1>1, <1>4, <1>5
  <2>2. \A i \in 1..Len(f) : SamePlace(f[i], s[i])
    BY <1>6, <2>1
  <2> QED BY <1>2, <1>5, <1>13, <1>14, <2>1, <2>2, LevelStays
<1>16. entered' = [entered EXCEPT ![t] = entered[t]] /\ ctxs' = D
  BY <1>11, <1>12 DEF Inv, Types
<1>17. UNCHANGED <<spawner, around>> /\ 0 \in Nat
  OBVIOUS
<1>18. \A i \in 1..Len(s) : FrameOK(s[i])
  BY <1>6
<1>19. \A i \in 1..Len(s) : s[i].kind = "function" => s[i].run \in RunsOf(t) \union {0}
  BY <1>6
<1>20. Inv'
  BY <1>2, <1>3, <1>13, <1>14, <1>15, <1>16, <1>17, <1>18, <1>19, OneTaskSteps
<1> QED BY <1>11, <1>12, <1>16, <1>20

\* A frame holds what it holds.
LEMMA HoldsTheSame ==
    ASSUME NEW F \in Frames
    PROVE  \E h \in Kinds \union {None} : F = [F EXCEPT !.holds = h]
<1>1. F.holds \in Kinds \union {None} /\ F = [F EXCEPT !.holds = F.holds]
  BY DEF Frames
<1> QED BY <1>1

\* What shield.__exit__ makes active is what was active before its entry.
LEMMA OutsideIsTheToken ==
    ASSUME Inv, NEW t \in Tasks, frames[t] # <<>>, Top(t).kind = "shield"
    PROVE  Outside(active[t], Top(t).of) = Top(t).token
<1>1. /\ active[t] \in 1..Len(ctxs) /\ ctxs[active[t]].parent = Top(t).token
      /\ ctxs[active[t]].owner = Top(t).of
  BY ScopeOnTop
<1>2. ctxs \in Seq(Contexts) /\ Older(ctxs)
  BY DEF Inv, Types
<1>3. PICK n, S : n = active[t] /\ S = ChainIn(ctxs, n)
  OBVIOUS
<1>4. S \subseteq 1..n /\ n \in S
  <2>1. Len(ctxs) \in Nat /\ n \in 0..Len(ctxs) /\ n # 0
    BY <1>1, <1>2, <1>3
  <2> QED BY <1>2, <1>3, <2>1, ChainFacts
<1>5. PICK own : own = {j \in S : ctxs[j].owner = Top(t).of}
  OBVIOUS
<1>6. n \in own /\ own \in SUBSET (0..n) /\ n \in Nat
  BY <1>1, <1>3, <1>4, <1>5
<1>7. Max(own) = n
  <2>1. Max(own) \in own /\ \A y \in own : y <= Max(own)
    BY <1>6, MaxIsGreatest
  <2>2. Max(own) \in 0..n /\ n <= Max(own)
    BY <1>6, <2>1
  <2> QED BY <1>6, <2>2
<1>8. Chain(n) = S
  BY <1>3 DEF Chain, ChainIn
<1>9. Outside(n, Top(t).of) = IF own = {} THEN n ELSE ctxs[Max(own)].parent
  BY <1>5, <1>8 DEF Outside
<1> QED BY <1>1, <1>3, <1>6, <1>7, <1>9

\* Contexts that nothing refers to any more are collected.
CollectedFor(D) ==
    \E m \in 0..Len(ctxs) : /\ D = SubSeq(ctxs, 1, m)
                            /\ \A u \in Tasks : active'[u] <= m
                            /\ \A u \in Tasks : \A i \in 1..Len(frames'[u]) : frames'[u][i].ctx <= m

\* A shield is left.
LEMMA LeaveShieldSteps ==
    ASSUME Inv, NEW t \in Tasks, LeaveShield(t)
    PROVE  Inv' /\ CollectedFor(ctxs')
<1>1. /\ frames[t] # <<>> /\ Top(t).kind = "shield"
      /\ ctxs' = Collected /\ UNCHANGED <<entered, spawner, around>>
      /\ got' = got /\ called' = called
  BY DEF LeaveShield, AtTop
<1>2. active' = [active EXCEPT ![t] = Top(t).token]
  <2>1. active' = [active EXCEPT ![t] = Outside(active[t], Top(t).of)]
    BY DEF LeaveShield
  <2> QED BY <1>1, <2>1, OutsideIsTheToken
<1>3. PICK s : s = Front(frames[t])
  OBVIOUS
<1>4. frames' = [frames EXCEPT ![t] = s]
  BY <1>3 DEF LeaveShield, Pop
<1>5. s \in Seq(Frames) /\ Len(s) = Len(frames[t]) - 1 /\ \A i \in 1..Len(s) : s[i] = frames[t][i]
  BY <1>1, <1>3, FrontFacts
<1>6. \A i \in 1..Len(s) : \E h \in Kinds \union {None} : s[i] = [frames[t][i] EXCEPT !.holds = h]
  <2>1. \A i \in 1..Len(s) : s[i] \in Frames
    BY <1>5
  <2> QED BY <1>5, <2>1, HoldsTheSame
<1>7. got' \in [Tasks -> Kinds \union {None}] /\ called' \subseteq Nat
  BY <1>1 DEF Inv, Types
<1>8. Top(t).kind # "budget"
  BY <1>1
<1> QED BY <1>1, <1>2, <1>4, <1>5, <1>6, <1>7, <1>8, LeaveScopeSteps DEF CollectedFor

\* A function is done.
LEMMA FinishSteps ==
    ASSUME Inv, NEW t \in Tasks, frames[t] # <<>>, Top(t).kind = "function",
           NEW r \in Kinds \union {None}, Finish(t, r), UNCHANGED <<entered, spawner, around>>
    PROVE  /\ Inv' /\ CollectedFor(ctxs')
           /\ Len(frames'[t]) < Len(frames[t]) /\ called' = called
           /\ active' = [active EXCEPT ![t] = Top(t).token]
           /\ \E s \in Seq(Frames) :
                /\ frames' = [frames EXCEPT ![t] = s] /\ Len(s) = Len(frames[t]) - 1
                /\ \A i \in 1..Len(s) : \E h \in Kinds \union {None} : s[i] = [frames[t][i] EXCEPT !.holds = h]
<1>1. /\ active' = [active EXCEPT ![t] = Top(t).token] /\ Give(t, Front(frames[t]), r)
      /\ ctxs' = Collected /\ called' = called
  BY DEF Finish
<1>2. PICK f : f = Front(frames[t])
  OBVIOUS
<1>3. f \in Seq(Frames) /\ Len(f) = Len(frames[t]) - 1 /\ \A i \in 1..Len(f) : f[i] = frames[t][i]
  BY <1>2, FrontFacts
<1>4. Give(t, f, r)
  BY <1>1, <1>2
<1>5. got' \in [Tasks -> Kinds \union {None}]
  BY <1>3, <1>4, GiveGives
<1>6. PICK s \in Seq(Frames) :
         /\ frames' = [frames EXCEPT ![t] = s] /\ Len(s) = Len(f)
         /\ \A i \in 1..Len(f) : \E h \in Kinds \union {None} : s[i] = [f[i] EXCEPT !.holds = h]
  BY <1>3, <1>4, GiveGives
<1>7. /\ Len(s) = Len(frames[t]) - 1
      /\ \A i \in 1..Len(s) : \E h \in Kinds \union {None} : s[i] = [frames[t][i] EXCEPT !.holds = h]
  BY <1>3, <1>6
<1>8. called' \subseteq Nat
  BY <1>1 DEF Inv, Types
<1>9. Top(t).kind # "budget"
  OBVIOUS
<1>10. Inv' /\ CollectedFor(ctxs')
  BY <1>1, <1>5, <1>6, <1>7, <1>8, <1>9, LeaveScopeSteps DEF CollectedFor
<1>11. Len(frames'[t]) < Len(frames[t])
  <2>1. frames'[t] = s
    BY <1>6 DEF Inv, Types
  <2>2. frames[t] \in Seq(Frames)
    BY DEF Inv, Types
  <2> QED BY <1>7, <2>1, <2>2
<1> QED BY <1>1, <1>6, <1>7, <1>10, <1>11

\* The frames of a task change, but not the places they were entered in, and the
\* contexts in their marks only.
LEMMA InPlaceSteps ==
    ASSUME Inv, NEW t \in Tasks, Started(t), NEW s \in Seq(Frames), Len(s) = Len(frames[t]), NEW r \in Nat,
           \A i \in 1..Len(s) : SamePlace(frames[t][i], s[i]),
           \A i \in 1..Len(s) : FrameOK(s[i]),
           \A i \in 1..Len(s) : s[i].kind = "function" => s[i].run \in RunsOf(t) \union {r},
           frames' = [frames EXCEPT ![t] = s],
           OnlyMarks(ctxs, ctxs'),
           UNCHANGED <<active, entered, spawner, around>>,
           got' \in [Tasks -> Kinds \union {None}], called' \subseteq Nat
    PROVE  Inv'
<1>1. /\ active[t] \in 0..Len(ctxs)
      /\ Level(frames[t], entered[t], ctxs, active[t], around[t])
      /\ frames[t] \in Seq(Frames) /\ entered[t] \in Seq(AllBudgets) /\ ctxs \in Seq(Contexts)
  BY ActiveExists
<1>2. PICK D : D = ctxs'
  OBVIOUS
<1>3. /\ D \in Seq(Contexts) /\ Older(D)
      /\ \A n \in Nat : n <= Len(ctxs) => Agree(ctxs, D, n)
  <2>1. Older(ctxs)
    BY DEF Inv, Types
  <2>2. OnlyMarks(ctxs, D)
    BY <1>2
  <2> QED BY <1>1, <2>1, <2>2, MarksOfContexts
<1>4. \A u \in Tasks : Agree(ctxs, D, active[u])
  <2>1. \A u \in Tasks : active[u] \in 0..Len(ctxs)
    BY ActiveExists
  <2>2. \A u \in Tasks : active[u] \in Nat /\ active[u] <= Len(ctxs)
    BY <1>1, <2>1
  <2> QED BY <1>3, <2>2
<1>5. Level(s, entered[t], D, active[t], around[t])
  BY <1>1, <1>3, <1>4, LevelStays
<1>6. /\ entered' = [entered EXCEPT ![t] = entered[t]] /\ active' = [active EXCEPT ![t] = active[t]]
  BY DEF Inv, Types
<1>7. ctxs' = D /\ UNCHANGED <<spawner, around>> /\ entered[t] \in Seq(AllBudgets)
      /\ D \in Seq(Contexts) /\ Older(D) /\ \A u \in Tasks : u # t => Agree(ctxs, D, active[u])
  BY <1>1, <1>2, <1>3, <1>4
<1>8. PICK e, n : e = entered[t] /\ n = active[t]
  OBVIOUS
<1>9. /\ e \in Seq(AllBudgets) /\ Level(s, e, D, n, around[t])
      /\ entered' = [entered EXCEPT ![t] = e] /\ active' = [active EXCEPT ![t] = n]
  BY <1>5, <1>6, <1>7, <1>8
<1>10. /\ ctxs' = D /\ D \in Seq(Contexts) /\ Older(D) /\ UNCHANGED <<spawner, around>>
  BY <1>7
<1>11. \A u \in Tasks : u # t => Agree(ctxs, D, active[u])
  BY <1>7
<1>12. \A i \in 1..Len(s) : FrameOK(s[i])
  OBVIOUS
<1>13. \A i \in 1..Len(s) : s[i].kind = "function" => s[i].run \in RunsOf(t) \union {r}
  OBVIOUS
<1>14. /\ frames' = [frames EXCEPT ![t] = s] /\ Started(t)
       /\ got' \in [Tasks -> Kinds \union {None}] /\ called' \subseteq Nat
  OBVIOUS
<1> HIDE DEF Inv
<1> QED BY <1>9, <1>10, <1>11, <1>12, <1>13, <1>14, OneTaskSteps

\* Contexts that do not change change in their marks only.
LEMMA NoMarks ==
    ASSUME Inv
    PROVE  OnlyMarks(ctxs, ctxs)
<1>1. ctxs \in Seq(Contexts)
  BY DEF Inv, Types
<1>2. ctxs \in [1..Len(ctxs) -> Contexts]
  BY <1>1
<1>3. ASSUME NEW i \in 1..Len(ctxs)
      PROVE  \E b \in BOOLEAN : ctxs[i] = [ctxs[i] EXCEPT !.calls = b]
  <2>1. PICK c : c = ctxs[i]
    OBVIOUS
  <2>2. c \in Contexts
    BY <1>1, <2>1
  <2>3. c.calls \in BOOLEAN /\ c = [c EXCEPT !.calls = c.calls]
    BY <2>2 DEF Contexts
  <2> QED BY <2>1, <2>3
<1> QED BY <1>2, <1>3 DEF OnlyMarks

\* A task's frames get a response.
LEMMA HoldSteps ==
    ASSUME Inv, NEW t \in Tasks, Started(t), NEW s \in Seq(Frames), Len(s) = Len(frames[t]),
           \A i \in 1..Len(s) : \E h \in Kinds \union {None} : s[i] = [frames[t][i] EXCEPT !.holds = h],
           frames' = [frames EXCEPT ![t] = s],
           OnlyMarks(ctxs, ctxs'),
           UNCHANGED <<active, entered, spawner, around>>,
           got' \in [Tasks -> Kinds \union {None}], called' \subseteq Nat
    PROVE  Inv'
<1>1. frames[t] \in Seq(Frames)
  BY DEF Inv, Types
<1>2. ASSUME NEW i \in 1..Len(s)
      PROVE  /\ SamePlace(frames[t][i], s[i]) /\ FrameOK(s[i])
             /\ s[i].kind = "function" => s[i].run \in RunsOf(t) \union {0}
  <2>1. PICK F, G : F = frames[t][i] /\ G = s[i]
    OBVIOUS
  <2>2. i \in 1..Len(frames[t])
    OBVIOUS
  <2>3. F \in Frames
    BY <1>1, <2>1, <2>2
  <2>4. PICK h \in Kinds \union {None} : G = [F EXCEPT !.holds = h]
    BY <2>1
  <2>5. SamePlace(F, G)
    BY <2>3, <2>4, HoldingIsNothingElse
  <2>6. G.run = F.run
    BY <2>3, <2>4, HoldingIsNothingElse
  <2>7. FrameOK(F) => FrameOK(G)
    BY <2>3, <2>4, HoldingIsNothingElse
  <2>8. FrameOK(F)
    BY <2>1, <2>2 DEF Inv, FramesOK
  <2>9. F.kind = "function" => F.run \in RunsOf(t)
    BY <1>1, <2>1, <2>2 DEF RunsOf, FunctionsOf
  <2> QED BY <2>1, <2>5, <2>6, <2>7, <2>8, <2>9 DEF SamePlace
<1>3. \A i \in 1..Len(s) : SamePlace(frames[t][i], s[i])
  BY <1>2
<1>4. \A i \in 1..Len(s) : FrameOK(s[i])
  BY <1>2
<1>5. \A i \in 1..Len(s) : s[i].kind = "function" => s[i].run \in RunsOf(t) \union {0}
  BY <1>2
<1> QED BY <1>3, <1>4, <1>5, InPlaceSteps

\* A request is answered.
LEMMA ReceiveSteps ==
    ASSUME Inv, NEW t \in Tasks, NEW kind \in Kinds, Receive(t, kind),
           OnlyMarks(ctxs, ctxs'), called' \subseteq Nat
    PROVE  /\ Inv'
           /\ \E s \in Seq(Frames) :
                /\ frames' = [frames EXCEPT ![t] = s] /\ Len(s) = Len(frames[t])
                /\ \A i \in 1..Len(s) : \E h \in Kinds \union {None} : s[i] = [frames[t][i] EXCEPT !.holds = h]
<1>1. Started(t) /\ Give(t, frames[t], kind) /\ UNCHANGED <<active, entered, spawner, around>>
  BY DEF Receive, Runs
<1>2. PICK f : f = frames[t]
  OBVIOUS
<1>3. f \in Seq(Frames) /\ Give(t, f, kind) /\ kind \in Kinds \union {None}
  BY <1>1, <1>2 DEF Inv, Types
<1>4. got' \in [Tasks -> Kinds \union {None}]
  BY <1>3, GiveGives
<1>5. PICK s \in Seq(Frames) :
         /\ frames' = [frames EXCEPT ![t] = s] /\ Len(s) = Len(f)
         /\ \A i \in 1..Len(f) : \E h \in Kinds \union {None} : s[i] = [f[i] EXCEPT !.holds = h]
  BY <1>3, GiveGives
<1>6. /\ Len(s) = Len(frames[t])
      /\ \A i \in 1..Len(s) : \E h \in Kinds \union {None} : s[i] = [frames[t][i] EXCEPT !.holds = h]
  BY <1>2, <1>5
<1>7. Inv'
  BY <1>1, <1>4, <1>5, <1>6, HoldSteps
<1> QED BY <1>5, <1>6, <1>7

\* The runs of a task are numbers.
LEMMA RunsAreNumbers ==
    ASSUME Inv, NEW t \in Tasks
    PROVE  RunsOf(t) \subseteq Nat
BY DEF Inv, RunsEnd

\* An intercepted call.
LEMMA CallSteps ==
    ASSUME Inv, NEW t \in Tasks, Call(t)
    PROVE  Inv'
<1>1. Receive(t, "intercepted") /\ ctxs' = Marked(active[t]) /\ called' = called \union RunsOf(t)
  BY DEF Call
<1>2. called' \subseteq Nat
  BY <1>1, RunsAreNumbers DEF Inv, Types
<1>3. OnlyMarks(ctxs, ctxs')
  <2>1. Types
    BY DEF Inv
  <2>2. PICK n, D : n = active[t] /\ D = Marked(n)
    OBVIOUS
  <2>3. /\ D \in [1..Len(ctxs) -> Contexts]
        /\ \A j \in 1..Len(ctxs) : D[j] = [ctxs[j] EXCEPT !.calls = IF j \in ChainIn(ctxs, n) THEN TRUE ELSE @]
    BY <2>1, <2>2, MarkedFacts
  <2>4. ASSUME NEW j \in 1..Len(ctxs)
        PROVE  \E b \in BOOLEAN : D[j] = [ctxs[j] EXCEPT !.calls = b]
    <3>1. PICK b : b = IF j \in ChainIn(ctxs, n) THEN TRUE ELSE ctxs[j].calls
      OBVIOUS
    <3>2. b \in BOOLEAN
      <4>1. ctxs[j] \in Contexts
        BY <2>1 DEF Types
      <4> QED BY <3>1, <4>1 DEF Contexts
    <3> QED BY <2>3, <3>1, <3>2
  <2> QED BY <1>1, <2>2, <2>3, <2>4 DEF OnlyMarks
<1>4. "intercepted" \in Kinds
  BY DEF Kinds
<1> QED BY <1>1, <1>2, <1>3, <1>4, ReceiveSteps

\* A request that is not intercepted.
LEMMA OtherRequestSteps ==
    ASSUME Inv, NEW t \in Tasks, Complete(t) \/ OwnRequest(t)
    PROVE  Inv'
<1>1. PICK kind \in Kinds : Receive(t, kind)
  <2>1. "complete" \in Kinds /\ "own" \in Kinds
    BY DEF Kinds
  <2> QED BY <2>1 DEF Complete, OwnRequest
<1>2. ctxs' = ctxs /\ called' = called
  BY DEF Complete, OwnRequest
<1>3. OnlyMarks(ctxs, ctxs') /\ called' \subseteq Nat
  BY <1>2, NoMarks DEF Inv, Types
<1> QED BY <1>1, <1>3, ReceiveSteps

\* The frame of a function that runs again.
Rerun(F, run) == [F EXCEPT !.run = run, !.holds = None, !.sleeping = FALSE]

\* A new run changes nothing else.
LEMMA RerunFacts ==
    ASSUME NEW F \in Frames, NEW run \in Nat, NEW G, G = Rerun(F, run)
    PROVE  /\ G \in Frames /\ SamePlace(F, G) /\ G.run = run /\ G.sleeping = FALSE
           /\ G.retries = F.retries /\ G.validations = F.validations
<1>1. /\ G \in Frames /\ G.kind = F.kind /\ G.of = F.of /\ G.protects = F.protects
      /\ G.ctx = F.ctx /\ G.token = F.token /\ G.run = run /\ G.retries = F.retries
      /\ G.validations = F.validations /\ G.sleeping = FALSE
  BY DEF Frames, Rerun
<1> QED BY <1>1 DEF SamePlace

\* s is f with the last frame replaced by G.
Replaces(s, f, G) ==
    /\ s \in Seq(Frames) /\ Len(s) = Len(f) /\ s[Len(f)] = G
    /\ \A i \in 1..Len(f) : i # Len(f) => s[i] = f[i]

\* The last frame is replaced.
LEMMA ReplacedFacts ==
    ASSUME NEW f \in Seq(Frames), Len(f) > 0, NEW G \in Frames, NEW s, s = Append(Front(f), G)
    PROVE  Replaces(s, f, G)
<1>1. PICK u : u = Front(f)
  OBVIOUS
<1>2. u \in Seq(Frames) /\ Len(u) = Len(f) - 1 /\ \A i \in 1..(Len(f) - 1) : u[i] = f[i]
  <2>1. PICK m : m = Len(f) - 1
    OBVIOUS
  <2>2. m \in 0..Len(f)
    BY <2>1
  <2>3. u = SubSeq(f, 1, m)
    BY <1>1, <2>1 DEF Front
  <2>4. u \in Seq(Frames) /\ Len(u) = m /\ \A i \in 1..m : u[i] = f[i]
    BY <2>2, <2>3
  <2> QED BY <2>1, <2>4
<1>3. s = Append(u, G)
  BY <1>1
<1>4. s \in Seq(Frames) /\ Len(s) = Len(u) + 1 /\ s[Len(u) + 1] = G /\ \A i \in 1..Len(u) : s[i] = u[i]
  BY <1>2, <1>3
<1>5. \A i \in 1..Len(f) : i # Len(f) => i \in 1..(Len(f) - 1)
  OBVIOUS
<1>6. Len(u) + 1 = Len(f)
  BY <1>2
<1> QED BY <1>2, <1>4, <1>5, <1>6 DEF Replaces

\* The marks of one context are reset.
LEMMA ResetMarks ==
    ASSUME Inv, NEW k
    PROVE  OnlyMarks(ctxs, [ctxs EXCEPT ![k].calls = FALSE])
<1>1. ctxs \in Seq(Contexts)
  BY DEF Inv, Types
<1>2. PICK D : D = [ctxs EXCEPT ![k].calls = FALSE]
  OBVIOUS
<1>3. /\ DOMAIN D = 1..Len(ctxs) /\ D = [i \in 1..Len(ctxs) |-> D[i]]
      /\ \A i \in 1..Len(ctxs) : D[i] = IF i = k THEN [ctxs[i] EXCEPT !.calls = FALSE] ELSE ctxs[i]
  <2>1. PICK c : c = [ctxs[k] EXCEPT !.calls = FALSE]
    OBVIOUS
  <2>2. D = [ctxs EXCEPT ![k] = c]
    BY <1>2, <2>1
  <2>3. DOMAIN ctxs = 1..Len(ctxs) /\ ctxs = [i \in 1..Len(ctxs) |-> ctxs[i]]
    BY <1>1
  <2>4. DOMAIN D = 1..Len(ctxs) /\ D = [i \in 1..Len(ctxs) |-> D[i]]
    BY <2>2, <2>3
  <2>5. \A i \in 1..Len(ctxs) : D[i] = IF i = k THEN c ELSE ctxs[i]
    BY <2>2, <2>3
  <2> QED BY <2>1, <2>4, <2>5
<1>4. ASSUME NEW i \in 1..Len(ctxs)
      PROVE  D[i] \in Contexts /\ \E b \in BOOLEAN : D[i] = [ctxs[i] EXCEPT !.calls = b]
  <2>1. ctxs[i] \in Contexts
    BY <1>1
  <2>2. PICK c : c = ctxs[i]
    OBVIOUS
  <2>3. c \in Contexts /\ c.calls \in BOOLEAN /\ c = [c EXCEPT !.calls = c.calls]
        /\ [c EXCEPT !.calls = FALSE] \in Contexts
    BY <2>1, <2>2 DEF Contexts
  <2>4. D[i] = [c EXCEPT !.calls = FALSE] \/ D[i] = c
    BY <1>3, <2>2
  <2> QED BY <2>2, <2>3, <2>4
<1>5. D \in [1..Len(ctxs) -> Contexts]
  BY <1>3, <1>4
<1> QED BY <1>2, <1>4, <1>5 DEF OnlyMarks

\* A function runs again.
LEMMA AgainSteps ==
    ASSUME Inv, NEW t \in Tasks, frames[t] # <<>>, Top(t).kind = "function",
           NEW F \in Frames, SamePlace(Top(t), F),
           F.retries <= Options[F.of].max_retries, F.validations <= Options[F.of].validation_retries,
           Again(t, F), UNCHANGED <<entered, spawner, around>>
    PROVE  /\ Inv' /\ NewRun \in Nat
           /\ \E s \in Seq(Frames) :
                /\ frames' = [frames EXCEPT ![t] = s] /\ Len(s) = Len(frames[t])
                /\ SamePlace(Top(t), s[Len(s)]) /\ s[Len(s)].run = NewRun /\ ~s[Len(s)].sleeping
                /\ \A i \in 1..Len(s) : i # Len(s) => s[i] = frames[t][i]
<1>1. /\ active' = active /\ got' = got /\ called' = called \ {NewRun}
      /\ ctxs' = [ctxs EXCEPT ![F.ctx].calls = FALSE]
  BY DEF Again
<1>2. /\ Started(t) /\ frames[t] \in Seq(Frames) /\ Len(frames[t]) > 0
      /\ Top(t) = frames[t][Len(frames[t])] /\ FrameOK(Top(t))
  BY TopFacts
<1>3. NewRun \in Nat
  BY NewRunIsNew DEF Inv
<1>4. PICK f, N, run : f = frames[t] /\ N = Len(f) /\ run = NewRun
  OBVIOUS
<1>5. PICK G : G = Rerun(F, run)
  OBVIOUS
<1>6. /\ G \in Frames /\ SamePlace(F, G) /\ G.run = run /\ G.sleeping = FALSE
      /\ G.retries = F.retries /\ G.validations = F.validations
  <2>1. run \in Nat
    BY <1>3, <1>4
  <2>2. F \in Frames /\ G = Rerun(F, run)
    BY <1>2, <1>5
  <2>3. G \in Frames /\ SamePlace(F, G)
    BY <2>1, <2>2, RerunFacts
  <2>4. G = [F EXCEPT !.run = run, !.holds = None, !.sleeping = FALSE]
    BY <2>2 DEF Rerun
  <2>5. G.run = run /\ G.sleeping = FALSE /\ G.retries = F.retries /\ G.validations = F.validations
    BY <2>2, <2>4 DEF Frames
  <2> QED BY <2>3, <2>5
<1>7. PICK s : s = Append(Front(f), G)
  OBVIOUS
<1>8. frames' = [frames EXCEPT ![t] = s]
  BY <1>4, <1>5, <1>7 DEF Again, Rerun
<1>9. /\ s \in Seq(Frames) /\ Len(s) = N /\ s[N] = G
      /\ \A i \in 1..N : i # N => s[i] = f[i]
  <2>1. f \in Seq(Frames) /\ Len(f) > 0 /\ G \in Frames
    BY <1>2, <1>4, <1>6
  <2>2. Replaces(s, f, G)
    BY <1>7, <2>1, ReplacedFacts
  <2> QED BY <1>4, <2>2 DEF Replaces
<1>10. SamePlace(Top(t), G) /\ G.kind = "function"
  BY <1>6 DEF SamePlace
<1>11. FrameOK(G)
  <2>1. G.of = F.of /\ G.of \in Functions
    BY <1>2, <1>6, <1>10 DEF SamePlace, FrameOK
  <2> QED BY <1>6, <2>1 DEF FrameOK
<1>12. \A i \in 1..N : FrameOK(f[i])
  BY <1>4 DEF Inv, FramesOK
<1>13. \A i \in 1..N : f[i].kind = "function" => f[i].run \in RunsOf(t)
  BY <1>2, <1>4 DEF RunsOf, FunctionsOf
<1>14. N \in Nat /\ N > 0 /\ N \in 1..N
  BY <1>2, <1>4
<1>15. \A i \in 1..Len(s) : SamePlace(frames[t][i], s[i])
  <2>1. ASSUME NEW i \in 1..N
        PROVE  SamePlace(f[i], s[i])
    <3>1. CASE i = N
      BY <1>2, <1>4, <1>9, <1>10, <3>1
    <3>2. CASE i # N
      <4>1. s[i] = f[i]
        BY <1>9, <3>2
      <4> QED BY <4>1 DEF SamePlace
    <3> QED BY <3>1, <3>2
  <2> QED BY <1>4, <1>9, <2>1
<1>16. \A i \in 1..Len(s) : FrameOK(s[i])
  BY <1>9, <1>11, <1>12
<1>17. \A i \in 1..Len(s) : s[i].kind = "function" => s[i].run \in RunsOf(t) \union {run}
  BY <1>6, <1>9, <1>13
<1>18. OnlyMarks(ctxs, ctxs')
  BY <1>1, ResetMarks
<1>19. got' \in [Tasks -> Kinds \union {None}] /\ called' \subseteq Nat
  BY <1>1 DEF Inv, Types
<1>20. UNCHANGED <<active, entered, spawner, around>> /\ run \in Nat /\ Len(s) = Len(frames[t])
  BY <1>1, <1>3, <1>4, <1>9
<1>21. Inv'
  BY <1>2, <1>8, <1>9, <1>15, <1>16, <1>17, <1>18, <1>19, <1>20, InPlaceSteps
<1>22. /\ SamePlace(Top(t), s[Len(s)]) /\ s[Len(s)].run = NewRun /\ ~s[Len(s)].sleeping
       /\ \A i \in 1..Len(s) : i # Len(s) => s[i] = frames[t][i]
  BY <1>4, <1>6, <1>9, <1>10
<1> QED BY <1>3, <1>8, <1>9, <1>20, <1>21, <1>22

\* The innermost function of t is run again, or is done.
RunsAgain(t) ==
    \E F \in Frames :
        /\ SamePlace(Top(t), F) /\ F.retries <= Options[F.of].max_retries
        /\ F.validations <= Options[F.of].validation_retries /\ Again(t, F)
Ends(t) == \E r \in Kinds \union {None} : Finish(t, r)

\* A function that returns is run again, or is done.
LEMMA ReturnCases ==
    ASSUME Inv, NEW t \in Tasks, NEW r \in Kinds \union {None}, NEW valid \in BOOLEAN, Return(t, r, valid)
    PROVE  /\ frames[t] # <<>> /\ Top(t).kind = "function" /\ UNCHANGED <<entered, spawner, around>>
           /\ RunsAgain(t) \/ Ends(t)
<1>1. /\ frames[t] # <<>> /\ Top(t).kind = "function" /\ UNCHANGED <<entered, spawner, around>>
  BY DEF Return, AtTop
<1>2. Top(t) \in Frames /\ FrameOK(Top(t))
  BY <1>1, TopFacts
<1>3. CASE ~valid /\ Revalidates(Top(t))
  <2>1. PICK F : F = [Top(t) EXCEPT !.validations = @ + 1]
    OBVIOUS
  <2>2. Again(t, F)
    BY <1>3, <2>1 DEF Return
  <2>3. /\ F \in Frames /\ F.kind = Top(t).kind /\ F.of = Top(t).of /\ F.protects = Top(t).protects
        /\ F.ctx = Top(t).ctx /\ F.token = Top(t).token
        /\ F.retries = Top(t).retries /\ F.validations = Top(t).validations + 1
        /\ Top(t).validations \in Nat
    BY <1>2, <2>1 DEF Frames
  <2>4. SamePlace(Top(t), F)
    BY <2>3 DEF SamePlace
  <2>5. /\ F.of \in Functions /\ F.retries <= Options[F.of].max_retries
        /\ Top(t).validations < Options[F.of].validation_retries
    BY <1>1, <1>2, <1>3, <2>3 DEF FrameOK, Revalidates
  <2>6. Options[F.of].validation_retries \in Nat
    BY <2>5, OptionsFacts
  <2>7. F.validations <= Options[F.of].validation_retries
    BY <2>3, <2>5, <2>6
  <2> QED BY <1>1, <2>2, <2>3, <2>4, <2>5, <2>7 DEF RunsAgain
<1>4. CASE ~(~valid /\ Revalidates(Top(t)))
  <2>1. PICK q \in Kinds \union {None} : Finish(t, q)
    BY <1>4 DEF Return
  <2> QED BY <1>1, <2>1 DEF Ends
<1> QED BY <1>3, <1>4

\* A function whose backoff is over is run again, and one that is cancelled is done.
LEMMA WakeCases ==
    ASSUME Inv, NEW t \in Tasks, Wake(t) \/ Cancel(t)
    PROVE  /\ frames[t] # <<>> /\ Top(t).kind = "function" /\ UNCHANGED <<entered, spawner, around>>
           /\ RunsAgain(t) \/ Ends(t)
<1>1. /\ frames[t] # <<>> /\ Top(t).sleeping /\ UNCHANGED <<entered, spawner, around>>
  BY DEF Wake, Cancel
<1>2. Top(t) \in Frames /\ FrameOK(Top(t))
  BY <1>1, TopFacts
<1>3. Top(t).kind = "function" /\ Top(t).retries < Options[Top(t).of].max_retries /\ Top(t).of \in Functions
  BY <1>1, <1>2 DEF FrameOK
<1>4. CASE Wake(t)
  <2>1. PICK F : F = [Top(t) EXCEPT !.retries = @ + 1]
    OBVIOUS
  <2>2. Again(t, F)
    BY <1>4, <2>1 DEF Wake
  <2>3. /\ F \in Frames /\ F.kind = Top(t).kind /\ F.of = Top(t).of /\ F.protects = Top(t).protects
        /\ F.ctx = Top(t).ctx /\ F.token = Top(t).token
        /\ F.retries = Top(t).retries + 1 /\ F.validations = Top(t).validations
        /\ Top(t).retries \in Nat
    BY <1>2, <2>1 DEF Frames
  <2>4. SamePlace(Top(t), F)
    BY <2>3 DEF SamePlace
  <2>5. F.validations <= Options[F.of].validation_retries
    BY <1>2, <1>3, <2>3 DEF FrameOK
  <2>6. Options[F.of].max_retries \in Nat
    BY <1>3, <2>3, OptionsFacts
  <2>7. F.retries <= Options[F.of].max_retries
    BY <1>3, <2>3, <2>6
  <2> QED BY <1>1, <1>3, <2>2, <2>3, <2>4, <2>5, <2>7 DEF RunsAgain
<1>5. CASE Cancel(t)
  <2>1. Finish(t, None) /\ None \in Kinds \union {None}
    BY <1>5 DEF Cancel
  <2> QED BY <1>1, <1>3, <2>1 DEF Ends
<1> QED BY <1>4, <1>5

\* A function is run again, or is done.
LEMMA RunEndSteps ==
    ASSUME Inv, NEW t \in Tasks, frames[t] # <<>>, Top(t).kind = "function",
           UNCHANGED <<entered, spawner, around>>, RunsAgain(t) \/ Ends(t)
    PROVE  Inv'
<1>1. CASE RunsAgain(t)
  BY <1>1, AgainSteps DEF RunsAgain
<1>2. CASE Ends(t)
  BY <1>2, FinishSteps DEF Ends
<1> QED BY <1>1, <1>2

\* A function raises: it waits to be run again, or is done.
LEMMA RaiseSteps ==
    ASSUME Inv, NEW t \in Tasks, NEW retryable \in BOOLEAN, Raise(t, retryable)
    PROVE  Inv'
<1>1. /\ frames[t] # <<>> /\ Top(t).kind = "function" /\ UNCHANGED <<entered, spawner, around>>
  BY DEF Raise, AtTop
<1>2. /\ Started(t) /\ frames[t] \in Seq(Frames) /\ Len(frames[t]) > 0
      /\ Top(t) = frames[t][Len(frames[t])] /\ Top(t) \in Frames /\ FrameOK(Top(t))
  BY <1>1, TopFacts
<1>3. CASE Retries(Top(t), retryable)
  <2>1. /\ frames' = [frames EXCEPT ![t][Len(frames[t])].sleeping = TRUE]
        /\ ctxs' = ctxs /\ active' = active /\ got' = got /\ called' = called
        /\ Top(t).retries < Options[Top(t).of].max_retries
    BY <1>3 DEF Raise, Retries
  <2>2. PICK f, N, G : f = frames[t] /\ N = Len(f) /\ G = [f[N] EXCEPT !.sleeping = TRUE]
    OBVIOUS
  <2>3. PICK s : s = [f EXCEPT ![N] = G]
    OBVIOUS
  <2>4. frames' = [frames EXCEPT ![t] = s]
    BY <2>1, <2>2, <2>3
  <2>5. f \in Seq(Frames) /\ N \in Nat /\ N \in 1..N /\ f[N] = Top(t)
    BY <1>2, <2>2
  <2>6. /\ G \in Frames /\ G.kind = f[N].kind /\ G.of = f[N].of /\ G.protects = f[N].protects
        /\ G.ctx = f[N].ctx /\ G.token = f[N].token /\ G.run = f[N].run
        /\ G.retries = f[N].retries /\ G.validations = f[N].validations
    <3>1. f[N] \in Frames
      BY <1>2, <2>5
    <3> QED BY <2>2, <3>1 DEF Frames
  <2>7. s \in Seq(Frames) /\ Len(s) = N /\ s[N] = G /\ \A i \in 1..N : i # N => s[i] = f[i]
    BY <2>2, <2>3, <2>5, <2>6
  <2>8. SamePlace(f[N], G) /\ FrameOK(G)
    BY <1>1, <1>2, <2>1, <2>5, <2>6 DEF SamePlace, FrameOK
  <2>9. \A i \in 1..N : FrameOK(f[i])
    BY <2>2 DEF Inv, FramesOK
  <2>10. \A i \in 1..N : f[i].kind = "function" => f[i].run \in RunsOf(t)
    BY <2>2, <2>5 DEF RunsOf, FunctionsOf
  <2>11. \A i \in 1..Len(s) : SamePlace(frames[t][i], s[i])
    <3>1. ASSUME NEW i \in 1..N
          PROVE  SamePlace(f[i], s[i])
      <4>1. CASE i = N
        BY <2>7, <2>8, <4>1
      <4>2. CASE i # N
        <5>1. s[i] = f[i]
          BY <2>7, <4>2
        <5> QED BY <5>1 DEF SamePlace
      <4> QED BY <4>1, <4>2
    <3> QED BY <2>2, <2>7, <3>1
  <2>12. \A i \in 1..Len(s) : FrameOK(s[i])
    BY <2>7, <2>8, <2>9
  <2>13. \A i \in 1..Len(s) : s[i].kind = "function" => s[i].run \in RunsOf(t) \union {0}
    BY <2>5, <2>6, <2>7, <2>10
  <2>14. OnlyMarks(ctxs, ctxs')
    BY <2>1, NoMarks
  <2>15. got' \in [Tasks -> Kinds \union {None}] /\ called' \subseteq Nat
    BY <2>1 DEF Inv, Types
  <2>16. UNCHANGED <<active, entered, spawner, around>> /\ Len(s) = Len(frames[t]) /\ s \in Seq(Frames) /\ Started(t)
    BY <1>1, <1>2, <2>1, <2>2, <2>7
  <2> QED BY <2>4, <2>11, <2>12, <2>13, <2>14, <2>15, <2>16, InPlaceSteps
<1>4. CASE ~Retries(Top(t), retryable)
  <2>1. Finish(t, None) /\ None \in Kinds \union {None}
    BY <1>4 DEF Raise
  <2> QED BY <1>1, <2>1, FinishSteps
<1> QED BY <1>3, <1>4

\* A task gets the result of another.
LEMMA AwaitSteps ==
    ASSUME Inv, NEW t \in Tasks, NEW u \in Tasks, Await(t, u)
    PROVE  /\ Inv'
           /\ \E s \in Seq(Frames) :
                /\ frames' = [frames EXCEPT ![t] = s] /\ Len(s) = Len(frames[t])
                /\ \A i \in 1..Len(s) : \E h \in Kinds \union {None} : s[i] = [frames[t][i] EXCEPT !.holds = h]
<1>1. /\ Started(t) /\ got' = [got EXCEPT ![u] = None] /\ FunctionsOf(frames[t]) # {}
      /\ frames' = [frames EXCEPT ![t][Max(FunctionsOf(frames[t]))].holds = got[u]]
      /\ ctxs' = ctxs /\ active' = active /\ entered' = entered /\ spawner' = spawner
      /\ around' = around /\ called' = called
  BY DEF Await, Runs
<1>2. PICK f, m : f = frames[t] /\ m = Max(FunctionsOf(f))
  OBVIOUS
<1>3. f \in Seq(Frames) /\ got[u] \in Kinds \union {None}
  BY <1>2 DEF Inv, Types
<1>4. m \in 1..Len(f)
  <2>1. FunctionsOf(f) \in SUBSET (0..Len(f)) /\ FunctionsOf(f) # {} /\ Len(f) \in Nat
    BY <1>1, <1>2, <1>3 DEF FunctionsOf
  <2>2. m \in FunctionsOf(f)
    BY <1>2, <2>1, MaxIsGreatest
  <2> QED BY <1>3, <2>2 DEF FunctionsOf
<1>5. PICK h, G : h = got[u] /\ G = [f[m] EXCEPT !.holds = h]
  OBVIOUS
<1>6. PICK s : s = [f EXCEPT ![m] = G]
  OBVIOUS
<1>7. frames' = [frames EXCEPT ![t] = s]
  BY <1>1, <1>2, <1>5, <1>6
<1>8. f[m] \in Frames /\ G \in Frames
  <2>1. f[m] \in Frames /\ h \in Kinds \union {None}
    BY <1>3, <1>4, <1>5
  <2> QED BY <1>5, <2>1 DEF Frames
<1>9. s \in Seq(Frames) /\ Len(s) = Len(f) /\ s[m] = G /\ \A i \in 1..Len(f) : i # m => s[i] = f[i]
  BY <1>3, <1>4, <1>6, <1>8
<1>10. \A i \in 1..Len(s) : \E g \in Kinds \union {None} : s[i] = [f[i] EXCEPT !.holds = g]
  <2>1. ASSUME NEW i \in 1..Len(f)
        PROVE  \E g \in Kinds \union {None} : s[i] = [f[i] EXCEPT !.holds = g]
    <3>1. CASE i = m
      BY <1>3, <1>5, <1>9, <3>1
    <3>2. CASE i # m
      <4>1. f[i] \in Frames /\ s[i] = f[i]
        BY <1>3, <1>9, <3>2
      <4> QED BY <4>1, HoldsTheSame
    <3> QED BY <3>1, <3>2
  <2> QED BY <1>9, <2>1
<1>11. got' \in [Tasks -> Kinds \union {None}] /\ called' \subseteq Nat
  BY <1>1 DEF Inv, Types
<1>12. OnlyMarks(ctxs, ctxs') /\ UNCHANGED <<active, entered, spawner, around>>
  BY <1>1, NoMarks
<1>13. /\ Len(s) = Len(frames[t])
       /\ \A i \in 1..Len(s) : \E g \in Kinds \union {None} : s[i] = [frames[t][i] EXCEPT !.holds = g]
  BY <1>2, <1>9, <1>10
<1>14. Inv'
  BY <1>1, <1>7, <1>9, <1>11, <1>12, <1>13, HoldSteps
<1> QED BY <1>7, <1>9, <1>13, <1>14

\* What is protected is what is asked for.
LEMMA ProtectionIsAsked ==
    ASSUME Inv, NEW t \in Tasks
    PROVE  /\ Protection(t) = Joined(ConfigAt(ctxs, active[t]), entered[t], Len(entered[t]))
           /\ Protection(t) = Asked(t)
           /\ active[t] = 0 <=> ~InScope(t)
           /\ Protection(t) \in Protections
<1>1. /\ Level(frames[t], entered[t], ctxs, active[t], around[t])
      /\ frames[t] \in Seq(Frames) /\ entered[t] \in Seq(AllBudgets) /\ ctxs \in Seq(Contexts)
      /\ around[t] \in Surroundings
  BY ActiveExists
<1>2. PICK s, e, ar, n : s = frames[t] /\ e = entered[t] /\ ar = around[t] /\ n = active[t]
  OBVIOUS
<1>3. PICK P : P = Joined(ConfigAt(ctxs, n), e, Len(e))
  OBVIOUS
<1>4. /\ AddsUp(P, ar, s, Len(s))
      /\ n = 0 <=> ~(ar.scoped \/ \E i \in 1..Len(s) : s[i].kind # "budget")
  <2>1. PICK C : C = ctxs
    OBVIOUS
  <2>2. /\ s \in Seq(Frames) /\ e \in Seq(AllBudgets) /\ C \in Seq(Contexts)
        /\ ar \in Surroundings /\ Level(s, e, C, n, ar)
    BY <1>1, <1>2, <2>1
  <2>3. /\ AddsUp(Joined(ConfigAt(C, n), e, Len(e)), ar, s, Len(s))
        /\ n = 0 <=> ~(ar.scoped \/ \E i \in 1..Len(s) : s[i].kind # "budget")
    BY <2>2, LevelsAddUp
  <2> QED BY <1>3, <2>1, <2>3
<1>5. s \in Seq(Frames) /\ DOMAIN s = 1..Len(s) /\ Len(s) \in Nat
  BY <1>1, <1>2
<1>6. Protection(t) = P
  <2>1. PICK config : config = ConfigAt(ctxs, n)
    OBVIOUS
  <2>2. Protection(t) = [config EXCEPT !.budgets = @ \union ToSet(e)]
    BY <1>2, <2>1 DEF Protection, ConfigAt
  <2>3. ToSet(e) = {e[m] : m \in 1..Len(e)}
    BY <1>1, <1>2 DEF ToSet
  <2> QED BY <1>3, <2>1, <2>2, <2>3 DEF Joined
<1>7. Asked(t) = P
  <2>1. PICK all : all = {ar.protects} \union {s[i].protects : i \in 1..Len(s)}
    OBVIOUS
  <2>2. PICK limits : limits = {a.max_cost : a \in all} \ {None}
    OBVIOUS
  <2>10. PICK masking : masking = {i \in 1..Len(s) : s[i].protects.pii # None}
    OBVIOUS
  <2>3. Asked(t) = [budgets |-> UNION {a.budgets : a \in all},
                    pii |-> IF masking = {} THEN ar.protects.pii ELSE s[Max(masking)].protects.pii,
                    max_cost |-> IF limits = {} THEN None ELSE Min(limits)]
    BY <1>2, <1>5, <2>1, <2>2, <2>10 DEF Asked
  <2>4. /\ P \in Protections
        /\ P.budgets = ar.protects.budgets \union UNION {s[i].protects.budgets : i \in 1..Len(s)}
        /\ IsInnermost(P.pii, ar, s, Len(s))
        /\ IsStrictest(P.max_cost, ar, s, Len(s))
    BY <1>4 DEF AddsUp
  <2>5. P.budgets = UNION {a.budgets : a \in all}
    BY <2>1, <2>4
  <2>6. P.pii = IF masking = {} THEN ar.protects.pii ELSE s[Max(masking)].protects.pii
    <3>1. CASE P.pii = ar.protects.pii /\ \A j \in 1..Len(s) : s[j].protects.pii = None
      BY <2>10, <3>1
    <3>2. ASSUME NEW j \in 1..Len(s), s[j].protects.pii # None, P.pii = s[j].protects.pii,
                 \A h \in (j + 1)..Len(s) : s[h].protects.pii = None
          PROVE  P.pii = s[Max(masking)].protects.pii /\ masking # {}
      <4>1. masking \subseteq Int /\ j \in masking
        BY <1>5, <2>10, <3>2
      <4>2. \A y \in masking : y <= j
        <5>1. ASSUME NEW y \in masking, ~(y <= j)
              PROVE  FALSE
          <6>1. y \in 1..Len(s) /\ s[y].protects.pii # None
            BY <2>10
          <6>2. y \in (j + 1)..Len(s)
            BY <5>1, <6>1
          <6> QED BY <3>2, <6>1, <6>2
        <5> QED BY <5>1
      <4>3. Max(masking) = j
        <5>1. PICK k : k = Max(masking)
          OBVIOUS
        <5>2. k \in masking /\ \A y \in masking : k >= y
          BY <4>1, <4>2, <5>1 DEF Max
        <5> QED BY <4>1, <4>2, <5>1, <5>2
      <4> QED BY <3>2, <4>1, <4>3
    <3> QED BY <2>4, <3>1, <3>2 DEF IsInnermost
  <2>7. P.max_cost = IF limits = {} THEN None ELSE Min(limits)
    <3>1. /\ P.max_cost = None <=> /\ ar.protects.max_cost = None
                                   /\ \A i \in 1..Len(s) : s[i].protects.max_cost = None
          /\ P.max_cost # None =>
               /\ P.max_cost = ar.protects.max_cost \/ \E i \in 1..Len(s) : P.max_cost = s[i].protects.max_cost
               /\ ar.protects.max_cost # None => P.max_cost <= ar.protects.max_cost
               /\ \A i \in 1..Len(s) : s[i].protects.max_cost # None => P.max_cost <= s[i].protects.max_cost
      BY <2>4 DEF IsStrictest
    <3>2. CASE P.max_cost = None
      <4>1. \A a \in all : a.max_cost = None
        BY <2>1, <3>1, <3>2
      <4>2. limits = {}
        BY <2>2, <4>1
      <4> QED BY <3>2, <4>2
    <3>3. CASE P.max_cost # None
      <4>1. \A a \in all : a \in Protections
        <5>1. ar.protects \in Protections
          BY <1>1, <1>2 DEF Surroundings
        <5>2. \A i \in 1..Len(s) : s[i].protects \in Protections
          <6>1. \A i \in 1..Len(s) : s[i] \in Frames
            BY <1>5
          <6> QED BY <6>1 DEF Frames
        <5> QED BY <2>1, <5>1, <5>2
      <4>2. limits \in SUBSET Nat
        BY <2>2, <4>1 DEF Protections
      <4>3. P.max_cost \in limits
        <5>1. \E a \in all : P.max_cost = a.max_cost
          BY <2>1, <3>1, <3>3
        <5> QED BY <2>2, <3>3, <5>1
      <4>4. \A y \in limits : P.max_cost <= y
        <5>1. \A a \in all : a.max_cost # None => P.max_cost <= a.max_cost
          BY <2>1, <3>1, <3>3
        <5> QED BY <2>2, <5>1
      <4>5. PICK m, k : m = P.max_cost /\ k = Min(limits)
        OBVIOUS
      <4>6. k \in limits /\ \A y \in limits : k <= y
        BY <4>2, <4>3, <4>5, MinIsLeast
      <4>7. m <= k /\ k <= m /\ m \in Nat /\ k \in Nat
        BY <4>2, <4>3, <4>4, <4>5, <4>6
      <4>8. m = k
        BY <4>7
      <4> QED BY <4>3, <4>5, <4>8
    <3> QED BY <3>2, <3>3
  <2>8. P = [budgets |-> P.budgets, pii |-> P.pii, max_cost |-> P.max_cost]
    BY <2>4 DEF Protections
  <2> QED BY <2>3, <2>5, <2>6, <2>7, <2>8
<1>8. n = 0 <=> ~InScope(t)
  BY <1>2, <1>4, <1>5 DEF InScope
<1>9. P \in Protections
  BY <1>4 DEF AddsUp
<1> QED BY <1>2, <1>3, <1>6, <1>7, <1>8, <1>9

\* A task that is in nothing yet is where it was started.
LEMMA StartLevel ==
    ASSUME NEW e \in Seq(AllBudgets), NEW C \in Seq(Contexts), NEW n \in 0..Len(C), NEW ar,
           ar.scoped <=> n # 0, ar.protects = Joined(ConfigAt(C, n), e, Len(e))
    PROVE  Level(<<>>, e, C, n, ar)
<1>1. PICK s : s = <<>>
  OBVIOUS
<1>2. Len(s) = 0 /\ 1..Len(s) = {} /\ Len(e) \in Nat /\ 0..Len(s) = {0}
  BY <1>1
<1>3. PICK a, b : a = [i \in 0..Len(s) |-> n] /\ b = [i \in 0..Len(s) |-> Len(e)]
  OBVIOUS
<1>4. a \in [0..Len(s) -> 0..Len(C)] /\ b \in [0..Len(s) -> 0..Len(e)]
  BY <1>2, <1>3
<1>5. a[0] = n /\ b[0] = Len(e) /\ a[Len(s)] = n /\ b[Len(s)] = Len(e)
  BY <1>2, <1>3
<1>6. Levels(s, e, C, n, ar, a, b)
  BY <1>2, <1>4, <1>5 DEF Levels
<1> QED BY <1>1, <1>4, <1>6 DEF Level

\* A task is started.
LEMMA StartSteps ==
    ASSUME Inv, NEW t \in Tasks, NEW u \in Tasks, NEW copies \in BOOLEAN, Start(t, u, copies)
    PROVE  Inv'
<1>1. /\ Started(t) /\ ~Started(u)
      /\ spawner' = [spawner EXCEPT ![u] = t]
      /\ ctxs' = ctxs /\ frames' = frames /\ got' = got /\ called' = called
  BY DEF Start, Runs
<1>2. /\ frames[u] = <<>> /\ active[u] = 0 /\ entered[u] = <<>> /\ around[u] = Nowhere /\ u # t
  BY <1>1 DEF Inv, NotStarted
<1>3. /\ active[t] \in 0..Len(ctxs) /\ entered[t] \in Seq(AllBudgets) /\ ctxs \in Seq(Contexts)
      /\ frames[t] \in Seq(Frames)
  BY ActiveExists
<1>4. PICK n, e, ar : /\ n = IF copies THEN active[t] ELSE 0
                      /\ e = IF copies THEN entered[t] ELSE <<>>
                      /\ ar = IF copies THEN [protects |-> Asked(t), scoped |-> InScope(t), runs |-> RunsOf(t)]
                              ELSE around[u]
  OBVIOUS
<1>5. /\ active' = [active EXCEPT ![u] = n] /\ entered' = [entered EXCEPT ![u] = e]
      /\ around' = [around EXCEPT ![u] = ar]
  <2>1. active' = [active EXCEPT ![u] = n] /\ entered' = [entered EXCEPT ![u] = e]
    BY <1>4 DEF Start
  <2>2. around' = [around EXCEPT ![u] = ar]
    BY <1>4 DEF Start
  <2> QED BY <2>1, <2>2
<1>6. n \in 0..Len(ctxs) /\ n \in Nat /\ e \in Seq(AllBudgets)
  BY <1>3, <1>4
<1>7. /\ ar \in Surroundings /\ (ar.scoped <=> n # 0)
      /\ ar.protects = Joined(ConfigAt(ctxs, n), e, Len(e))
      /\ ar.runs \subseteq RunsOf(t) \union RunsOf(u)
  <2>1. CASE copies
    <3>1. ar = [protects |-> Asked(t), scoped |-> InScope(t), runs |-> RunsOf(t)] /\ n = active[t] /\ e = entered[t]
      BY <1>4, <2>1
    <3>2. /\ Asked(t) = Joined(ConfigAt(ctxs, active[t]), entered[t], Len(entered[t]))
          /\ Asked(t) \in Protections
          /\ active[t] = 0 <=> ~InScope(t)
      BY ProtectionIsAsked
    <3>3. InScope(t) \in BOOLEAN
      <4>1. around[t].scoped \in BOOLEAN
        BY DEF Inv, Types, Surroundings
      <4> QED BY <4>1 DEF InScope
    <3>4. RunsOf(t) \subseteq Nat
      BY RunsAreNumbers
    <3>5. ar.protects = Asked(t) /\ ar.scoped = InScope(t) /\ ar.runs = RunsOf(t)
      BY <3>1
    <3>6. ar \in Surroundings
      BY <3>1, <3>2, <3>3, <3>4 DEF Surroundings
    <3> QED BY <3>1, <3>2, <3>5, <3>6
  <2>2. CASE ~copies
    <3>1. ar = Nowhere /\ n = 0 /\ e = <<>>
      BY <1>2, <1>4, <2>2
    <3>2. ar.protects = Unprotected /\ ar.scoped = FALSE /\ ar.runs = {}
      BY <3>1 DEF Nowhere
    <3>3. Unprotected \in Protections
      BY DEF Unprotected, Protections
    <3>4. ar \in Surroundings
      BY <3>1, <3>3 DEF Surroundings, Nowhere
    <3>5. Joined(ConfigAt(ctxs, n), e, Len(e)) = Unprotected
      <4>1. {e[m] : m \in 1..Len(e)} = {}
        BY <3>1
      <4>2. ConfigAt(ctxs, n) = Unprotected
        BY <3>1 DEF ConfigAt
      <4>3. [Unprotected EXCEPT !.budgets = @ \union {}] = Unprotected
        BY DEF Unprotected
      <4> QED BY <4>1, <4>2, <4>3 DEF Joined
    <3> QED BY <3>1, <3>2, <3>4, <3>5
  <2> QED BY <2>1, <2>2
<1>8. /\ active'[u] = n /\ entered'[u] = e /\ around'[u] = ar
      /\ \A v \in Tasks : v # u => active'[v] = active[v] /\ entered'[v] = entered[v] /\ around'[v] = around[v]
  BY <1>5 DEF Inv, Types
<1>9. Types'
  <2>1. ctxs' \in Seq(Contexts) /\ Older(ctxs)'
    BY <1>1 DEF Inv, Types, Older
  <2>2. /\ active' \in [Tasks -> Nat] /\ entered' \in [Tasks -> Seq(AllBudgets)]
        /\ around' \in [Tasks -> Surroundings]
    BY <1>5, <1>6, <1>7 DEF Inv, Types
  <2>3. frames' \in [Tasks -> Seq(Frames)] /\ got' \in [Tasks -> Kinds \union {None}] /\ called' \subseteq Nat
    BY <1>1 DEF Inv, Types
  <2>4. spawner' \in [Tasks -> Tasks \union {None}]
    BY <1>1 DEF Inv, Types
  <2> QED BY <2>1, <2>2, <2>3, <2>4 DEF Types
<1>10. FramesOK'
  BY <1>1 DEF Inv, FramesOK, FrameOK
<1>11. AllLevels'
  <2>1. ASSUME NEW v \in Tasks
        PROVE  Level(frames'[v], entered'[v], ctxs', active'[v], around'[v])
    <3>1. CASE v = u
      <4>1. Level(<<>>, e, ctxs, n, ar)
        BY <1>3, <1>6, <1>7, StartLevel
      <4> QED BY <1>1, <1>2, <1>8, <3>1, <4>1
    <3>2. CASE v # u
      <4>1. Level(frames[v], entered[v], ctxs, active[v], around[v])
        BY DEF Inv, AllLevels
      <4> QED BY <1>1, <1>8, <3>2, <4>1
    <3> QED BY <3>1, <3>2
  <2>2. ASSUME NEW v \in Tasks
        PROVE  Level(frames[v], entered[v], ctxs, active[v], around[v])'
    BY <2>1 DEF Level, Levels, Leads, ConfigAt, Joined
  <2> QED BY <2>2 DEF AllLevels
<1>12. NotStarted'
  <2>1. ASSUME NEW v \in Tasks, ~Started(v)'
        PROVE  frames'[v] = <<>> /\ active'[v] = 0 /\ entered'[v] = <<>> /\ around'[v] = Nowhere
    <3>1. v # u
      <4>1. spawner'[u] = t /\ t # None
        BY <1>1, ScopesAssumption DEF Inv, Types
      <4> QED BY <2>1, <4>1 DEF Started
    <3>2. ~Started(v)
      BY <1>1, <2>1, <3>1 DEF Inv, Types, Started
    <3> QED BY <1>1, <1>8, <3>1, <3>2 DEF Inv, NotStarted
  <2> QED BY <2>1 DEF NotStarted, Nowhere
<1>13. RunsEnd'
  <2>1. PICK N \in Nat : \A v \in Tasks : RunsOf(v) \subseteq 0..N
    BY DEF Inv, RunsEnd
  <2>2. ASSUME NEW v \in Tasks
        PROVE  RunsOf(v)' \subseteq 0..N
    <3>1. RunsOf(v)' \subseteq around'[v].runs \union RunsOf(v)
      BY <1>1 DEF RunsOf
    <3>2. around'[v].runs \subseteq RunsOf(v) \union RunsOf(t) \union RunsOf(u)
      <4>1. CASE v = u
        BY <1>7, <1>8, <4>1
      <4>2. CASE v # u
        BY <1>8, <4>2 DEF RunsOf
      <4> QED BY <4>1, <4>2
    <3> QED BY <2>1, <3>1, <3>2
  <2> QED BY <2>2 DEF RunsEnd
<1> QED BY <1>9, <1>10, <1>11, <1>12, <1>13 DEF Inv

\* In the initial state nothing has been entered.
LEMMA InitHolds == Init => Inv
<1> SUFFICES ASSUME Init PROVE Inv
  OBVIOUS
<1>1. /\ ctxs = <<>> /\ active = [t \in Tasks |-> 0] /\ entered = [t \in Tasks |-> <<>>]
      /\ frames = [t \in Tasks |-> <<>>] /\ spawner = [t \in Tasks |-> None]
      /\ got = [t \in Tasks |-> None] /\ called = {}
      /\ around = [t \in Tasks |-> Nowhere]
  BY DEF Init, Nowhere
<1>2. Unprotected \in Protections
  BY DEF Unprotected, Protections
<1>3. Nowhere \in Surroundings
  BY <1>2 DEF Nowhere, Surroundings
<1>4. Types
  <2>1. ctxs \in Seq(Contexts) /\ Older(ctxs)
    BY <1>1 DEF Older
  <2>2. active \in [Tasks -> Nat] /\ entered \in [Tasks -> Seq(AllBudgets)] /\ frames \in [Tasks -> Seq(Frames)]
    BY <1>1
  <2>3. /\ spawner \in [Tasks -> Tasks \union {None}] /\ got \in [Tasks -> Kinds \union {None}]
        /\ around \in [Tasks -> Surroundings] /\ called \subseteq Nat
    BY <1>1, <1>3
  <2> QED BY <2>1, <2>2, <2>3 DEF Types
<1>5. FramesOK
  BY <1>1 DEF FramesOK
<1>6. AllLevels
  <2>1. ASSUME NEW t \in Tasks
        PROVE  Level(frames[t], entered[t], ctxs, active[t], around[t])
    <3>1. PICK e, C, n, ar : e = entered[t] /\ C = ctxs /\ n = active[t] /\ ar = around[t]
      OBVIOUS
    <3>2. e = <<>> /\ C = <<>> /\ n = 0 /\ ar = Nowhere /\ frames[t] = <<>>
      BY <1>1, <3>1
    <3>3. e \in Seq(AllBudgets) /\ C \in Seq(Contexts) /\ n \in 0..Len(C) /\ 1..Len(e) = {}
      BY <3>2
    <3>4. ar.scoped = FALSE /\ ar.protects = Unprotected
      BY <3>2 DEF Nowhere
    <3>5. Joined(ConfigAt(C, n), e, Len(e)) = Unprotected
      <4>1. {e[m] : m \in 1..Len(e)} = {}
        BY <3>3
      <4>2. ConfigAt(C, n) = Unprotected
        BY <3>2 DEF ConfigAt
      <4>3. [Unprotected EXCEPT !.budgets = @ \union {}] = Unprotected
        BY DEF Unprotected
      <4> QED BY <4>1, <4>2, <4>3 DEF Joined
    <3>6. Level(<<>>, e, C, n, ar)
      BY <3>2, <3>3, <3>4, <3>5, StartLevel
    <3> QED BY <3>1, <3>2, <3>6
  <2> QED BY <2>1 DEF AllLevels
<1>7. NotStarted
  BY <1>1 DEF NotStarted
<1>8. RunsEnd
  <2>1. \A t \in Tasks : RunsOf(t) \subseteq 0..0
    BY <1>1 DEF RunsOf, FunctionsOf, Nowhere
  <2> QED BY <2>1 DEF RunsEnd
<1> QED BY <1>4, <1>5, <1>6, <1>7, <1>8 DEF Inv

\* Every step keeps the invariant.
LEMMA NextHolds == Inv /\ [Next]_vars => Inv'
<1> SUFFICES ASSUME Inv, [Next]_vars PROVE Inv'
  OBVIOUS
<1>1. CASE UNCHANGED vars
  <2>1. /\ ctxs' = ctxs /\ active' = active /\ entered' = entered /\ frames' = frames
        /\ spawner' = spawner /\ got' = got /\ around' = around /\ called' = called
    BY <1>1 DEF vars, program, history
  <2>2. Types' /\ FramesOK' /\ NotStarted'
    BY <2>1 DEF Inv, Types, Older, FramesOK, FrameOK, NotStarted, Started, Nowhere
  <2>3. AllLevels'
    <3>1. ASSUME NEW t \in Tasks
          PROVE  Level(frames'[t], entered'[t], ctxs', active'[t], around'[t])
      BY <2>1 DEF Inv, AllLevels
    <3>2. ASSUME NEW t \in Tasks
          PROVE  Level(frames[t], entered[t], ctxs, active[t], around[t])'
      BY <3>1 DEF Level, Levels, Leads, ConfigAt, Joined
    <3> QED BY <3>2 DEF AllLevels
  <2>4. RunsEnd'
    BY <2>1 DEF Inv, RunsEnd, RunsOf, FunctionsOf
  <2> QED BY <2>2, <2>3, <2>4 DEF Inv
<1>2. CASE Next
  <2>1. PICK t \in Tasks : Leave(t) \/ Proceed(t)
    BY <1>2 DEF Next
  <2>2. CASE Leave(t)
    <3>1. CASE LeaveShield(t)
      BY <3>1, LeaveShieldSteps
    <3>2. CASE LeaveBudget(t)
      BY <3>2, LeaveBudgetSteps
    <3>3. CASE Wake(t) \/ Cancel(t)
      BY <3>3, WakeCases, RunEndSteps
    <3>4. CASE \E retryable \in BOOLEAN : Raise(t, retryable)
      BY <3>4, RaiseSteps
    <3>5. CASE \E r \in Kinds \union {None}, valid \in BOOLEAN : Return(t, r, valid)
      BY <3>5, ReturnCases, RunEndSteps
    <3> QED BY <2>2, <3>1, <3>2, <3>3, <3>4, <3>5 DEF Leave
  <2>3. CASE Proceed(t)
    <3>1. CASE Call(t)
      BY <3>1, CallSteps
    <3>2. CASE Complete(t) \/ OwnRequest(t)
      BY <3>2, OtherRequestSteps
    <3>3. ASSUME NEW s \in Shields, EnterShield(t, s)
          PROVE  Inv'
      <4>1. Enter(t, s, s, "shield", 0) /\ called' = called
        BY <3>3 DEF EnterShield
      <4>2. called' \subseteq Nat
        BY <4>1 DEF Inv, Types
      <4> QED BY <4>1, <4>2, EnterSteps
    <3>4. ASSUME NEW b \in Budgets, EnterBudget(t, b)
          PROVE  Inv'
      BY <3>4, EnterBudgetSteps
    <3>5. ASSUME NEW f \in Functions, CallFunction(t, f)
          PROVE  Inv'
      <4>1. PICK run : run = NewRun
        OBVIOUS
      <4>2. Enter(t, f, None, "function", run) /\ called' = called \ {run}
        BY <3>5, <4>1 DEF CallFunction
      <4>3. called' \subseteq Nat
        BY <4>2 DEF Inv, Types
      <4>4. run \in Nat
        BY <4>1, NewRunIsNew DEF Inv
      <4> QED BY <4>2, <4>3, <4>4, EnterSteps
    <3>6. CASE \E u \in Tasks, copies \in BOOLEAN : Start(t, u, copies)
      BY <3>6, StartSteps
    <3>7. CASE \E u \in Tasks : Await(t, u)
      BY <3>7, AwaitSteps
    <3> QED BY <2>3, <3>1, <3>2, <3>3, <3>4, <3>5, <3>6, <3>7 DEF Proceed
  <2> QED BY <2>1, <2>2, <2>3
<1> QED BY <1>1, <1>2

\* In every state there are levels for all that the tasks have entered.
THEOREM Invariance == Spec => []Inv
BY InitHolds, NextHolds, PTL DEF Spec

\* TypeOK of Scopes: a context is older than those that are created in it, and a
\* decorated function is run again at most as often as it was created to be.
THEOREM TypeCorrect == Spec => []TypeOK
<1>1. Inv => TypeOK
  <2> SUFFICES ASSUME Inv PROVE TypeOK
    OBVIOUS
  <2>1. \A i \in DOMAIN ctxs : ctxs[i].parent \in 0..(i - 1)
    <3>1. ctxs \in Seq(Contexts) /\ Older(ctxs)
      BY DEF Inv, Types
    <3>2. DOMAIN ctxs = 1..Len(ctxs)
      BY <3>1
    <3> QED BY <3>1, <3>2 DEF Older
  <2>2. active \in [Tasks -> 0..Len(ctxs)]
    <3>1. \A t \in Tasks : active[t] \in 0..Len(ctxs)
      BY ActiveExists
    <3>2. active \in [Tasks -> Nat]
      BY DEF Inv, Types
    <3> QED BY <3>1, <3>2
  <2>3. ASSUME NEW t \in Tasks, NEW i \in FunctionsOf(frames[t])
        PROVE  /\ frames[t][i].retries \in 0..Options[frames[t][i].of].max_retries
               /\ frames[t][i].validations \in 0..Options[frames[t][i].of].validation_retries
               /\ frames[t][i].holds \in Kinds \union {None}
    <3>1. frames[t] \in Seq(Frames)
      BY DEF Inv, Types
    <3>2. i \in 1..Len(frames[t]) /\ frames[t][i].kind = "function"
      BY <2>3, <3>1 DEF FunctionsOf
    <3>3. PICK F : F = frames[t][i]
      OBVIOUS
    <3>4. F \in Frames /\ F.kind = "function"
      BY <3>1, <3>2, <3>3
    <3>5. FrameOK(F)
      BY <3>2, <3>3 DEF Inv, FramesOK
    <3>6. F.retries \in Nat /\ F.validations \in Nat /\ F.holds \in Kinds \union {None}
      BY <3>4 DEF Frames
    <3>7. F.of \in Functions /\ F.retries <= Options[F.of].max_retries
          /\ F.validations <= Options[F.of].validation_retries
      BY <3>4, <3>5 DEF FrameOK
    <3>8. Options[F.of].max_retries \in Nat /\ Options[F.of].validation_retries \in Nat
      BY <3>7, OptionsFacts
    <3> QED BY <3>3, <3>6, <3>7, <3>8
  <2> QED BY <2>1, <2>2, <2>3 DEF TypeOK
<1> QED BY <1>1, Invariance, PTL

\* EveryScopeApplies of Scopes: whatever has been entered and left, by whichever tasks,
\* a call is left alone outside of all scopes, and otherwise has the budgets of all the
\* scopes it is made in, the least of their max_cost, and the PIIConfig and InjectionConfig
\* of the innermost scope that has one, be it weaker than those around it (merge_scopes).
THEOREM ScopesApply == Spec => []EveryScopeApplies
<1>1. Inv => EveryScopeApplies
  BY ProtectionIsAsked DEF EveryScopeApplies
<1> QED BY <1>1, Invariance, PTL

-----------------------------------------------------------------------------
(* What a function knows of the calls that were made in it. *)

\* No two scopes have the same context.
Fresh ==
    \A t, u \in Tasks : \A i \in 1..Len(frames[t]), j \in 1..Len(frames[u]) :
        /\ frames[t][i].kind # "budget" /\ frames[u][j].kind # "budget"
        /\ frames[t][i].ctx = frames[u][j].ctx
        => t = u /\ i = j

\* A function that a task is in, in this task or in one that it was started in, is among
\* the contexts that a call of the task marks.
Behind ==
    \A t, u \in Tasks : \A j \in 1..Len(frames[u]) :
        frames[u][j].kind = "function" /\ frames[u][j].run \in RunsOf(t)
        => frames[u][j].ctx \in ChainIn(ctxs, active[t])

\* A function in whose run a call was intercepted has a context that says so.
Marks ==
    \A u \in Tasks : \A j \in 1..Len(frames[u]) :
        frames[u][j].kind = "function" /\ frames[u][j].run \in called
        => ctxs[frames[u][j].ctx].calls

CallsInv == Inv /\ Fresh /\ Behind /\ Marks

\* The scopes of g are scopes of f.
Carried(f, g) ==
    \A i \in 1..Len(g) : g[i].kind # "budget" =>
        i \in 1..Len(f) /\ g[i].kind = f[i].kind /\ g[i].ctx = f[i].ctx /\ g[i].run = f[i].run

\* A task that is in no new run is in runs that it was in.
LEMMA RunsShrink ==
    ASSUME Inv, Inv', NEW t \in Tasks, Carried(frames[t], frames'[t]), around' = around
    PROVE  RunsOf(t)' \subseteq RunsOf(t)
<1>1. frames[t] \in Seq(Frames) /\ frames'[t] \in Seq(Frames)
  BY DEF Inv, Types
<1>2. ASSUME NEW x \in RunsOf(t)'
      PROVE  x \in RunsOf(t)
  <2>1. CASE x \in around[t].runs
    BY <2>1 DEF RunsOf
  <2>2. CASE x \notin around[t].runs
    <3>1. PICK i \in 1..Len(frames'[t]) : frames'[t][i].kind = "function" /\ x = frames'[t][i].run
      BY <1>1, <1>2, <2>2 DEF RunsOf, FunctionsOf
    <3>2. i \in 1..Len(frames[t]) /\ frames[t][i].kind = "function" /\ x = frames[t][i].run
      BY <3>1 DEF Carried
    <3> QED BY <1>1, <3>2 DEF RunsOf, FunctionsOf
  <2> QED BY <2>1, <2>2
<1> QED BY <1>2

\* A step that enters no scope, and runs no function again.
LEMMA CarriedSteps ==
    ASSUME CallsInv, Inv', around' = around,
           \A u \in Tasks : Carried(frames[u], frames'[u]),
           \A t, u \in Tasks : \A j \in 1..Len(frames'[u]) :
               /\ frames'[u][j].kind = "function"
               /\ frames'[u][j].ctx \in ChainIn(ctxs, active[t])
               => frames'[u][j].ctx \in ChainIn(ctxs', active'[t]),
           \A u \in Tasks : \A j \in 1..Len(frames'[u]) :
               frames'[u][j].kind = "function" /\ frames'[u][j].run \in called'
               => ctxs'[frames'[u][j].ctx].calls
    PROVE  CallsInv'
<1>1. Fresh'
  <2>1. ASSUME NEW t \in Tasks, NEW u \in Tasks, NEW i \in 1..Len(frames'[t]), NEW j \in 1..Len(frames'[u]),
               frames'[t][i].kind # "budget", frames'[u][j].kind # "budget",
               frames'[t][i].ctx = frames'[u][j].ctx
        PROVE  t = u /\ i = j
    <3>1. /\ i \in 1..Len(frames[t]) /\ frames[t][i].kind # "budget" /\ frames[t][i].ctx = frames'[t][i].ctx
      BY <2>1 DEF Carried
    <3>2. /\ j \in 1..Len(frames[u]) /\ frames[u][j].kind # "budget" /\ frames[u][j].ctx = frames'[u][j].ctx
      BY <2>1 DEF Carried
    <3> QED BY <2>1, <3>1, <3>2 DEF CallsInv, Fresh
  <2> QED BY <2>1 DEF Fresh
<1>2. Behind'
  <2>1. ASSUME NEW t \in Tasks, NEW u \in Tasks, NEW j \in 1..Len(frames'[u]),
               frames'[u][j].kind = "function", frames'[u][j].run \in RunsOf(t)'
        PROVE  frames'[u][j].ctx \in ChainIn(ctxs', active'[t])
    <3>1. /\ j \in 1..Len(frames[u]) /\ frames[u][j].kind = "function"
          /\ frames[u][j].ctx = frames'[u][j].ctx /\ frames[u][j].run = frames'[u][j].run
      BY <2>1 DEF Carried
    <3>2. RunsOf(t)' \subseteq RunsOf(t)
      BY RunsShrink DEF CallsInv
    <3>3. frames[u][j].ctx \in ChainIn(ctxs, active[t])
      BY <2>1, <3>1, <3>2 DEF CallsInv, Behind
    <3> QED BY <2>1, <3>1, <3>3
  <2>2. ASSUME NEW t \in Tasks, NEW u \in Tasks, NEW j \in 1..Len(frames'[u]),
               frames'[u][j].kind = "function", frames'[u][j].run \in RunsOf(t)'
        PROVE  (frames[u][j].ctx \in ChainIn(ctxs, active[t]))'
    <3>1. frames'[u][j].ctx \in ChainIn(ctxs', active'[t])
      BY <2>1, <2>2
    <3> QED BY <3>1 DEF ChainIn
  <2> QED BY <2>2 DEF Behind
<1>3. Marks'
  BY DEF Marks
<1> QED BY <1>1, <1>2, <1>3 DEF CallsInv

\* What carries itself.
LEMMA CarriesItself ==
    ASSUME Inv, NEW u \in Tasks
    PROVE  Carried(frames[u], frames[u])
BY DEF Carried

\* Frames that have got a response carry their scopes.
LEMMA HeldCarries ==
    ASSUME NEW f \in Seq(Frames), NEW g, Len(g) \in Nat, Len(g) <= Len(f),
           \A i \in 1..Len(g) : \E h \in Kinds \union {None} : g[i] = [f[i] EXCEPT !.holds = h]
    PROVE  Carried(f, g)
<1>1. ASSUME NEW i \in 1..Len(g)
      PROVE  i \in 1..Len(f) /\ g[i].kind = f[i].kind /\ g[i].ctx = f[i].ctx /\ g[i].run = f[i].run
  <2>1. i \in 1..Len(f)
    OBVIOUS
  <2>2. f[i] \in Frames
    BY <2>1
  <2>3. PICK h \in Kinds \union {None} : g[i] = [f[i] EXCEPT !.holds = h]
    OBVIOUS
  <2> QED BY <2>1, <2>2, <2>3 DEF Frames
<1> QED BY <1>1 DEF Carried

\* One task's frames change.
LEMMA AllCarry ==
    ASSUME Inv, NEW t \in Tasks, NEW s, frames' = [frames EXCEPT ![t] = s], Carried(frames[t], s)
    PROVE  \A u \in Tasks : Carried(frames[u], frames'[u])
<1>1. frames'[t] = s /\ \A u \in Tasks : u # t => frames'[u] = frames[u]
  BY DEF Inv, Types
<1>2. ASSUME NEW u \in Tasks
      PROVE  Carried(frames[u], frames'[u])
  <2>1. CASE u = t
    BY <1>1, <2>1
  <2>2. CASE u # t
    BY <1>1, <2>2, CarriesItself
  <2> QED BY <2>1, <2>2
<1> QED BY <1>2

\* Contexts do not change, nor what is active, nor what was called.
LEMMA QuietSteps ==
    ASSUME CallsInv, Inv', around' = around, ctxs' = ctxs, active' = active, called' = called,
           \A u \in Tasks : Carried(frames[u], frames'[u])
    PROVE  CallsInv'
<1>1. \A u \in Tasks : \A j \in 1..Len(frames'[u]) :
         frames'[u][j].kind = "function" /\ frames'[u][j].run \in called'
         => ctxs'[frames'[u][j].ctx].calls
  BY DEF CallsInv, Marks, Carried
<1>2. \A t, u \in Tasks : \A j \in 1..Len(frames'[u]) :
         /\ frames'[u][j].kind = "function"
         /\ frames'[u][j].ctx \in ChainIn(ctxs, active[t])
         => frames'[u][j].ctx \in ChainIn(ctxs', active'[t])
  OBVIOUS
<1> QED BY <1>1, <1>2, CarriedSteps

\* A function that a task is in has a context.
LEMMA FunctionContexts ==
    ASSUME CallsInv, NEW u \in Tasks, NEW j \in 1..Len(frames[u]), frames[u][j].kind = "function"
    PROVE  frames[u][j].run \in RunsOf(u) /\ frames[u][j].ctx \in 1..Len(ctxs)
<1>1. /\ active[u] \in 0..Len(ctxs) /\ frames[u] \in Seq(Frames) /\ ctxs \in Seq(Contexts) /\ Older(ctxs)
  BY ActiveExists DEF CallsInv, Inv, Types
<1>2. frames[u][j].run \in RunsOf(u)
  BY <1>1 DEF RunsOf, FunctionsOf
<1>3. frames[u][j].ctx \in ChainIn(ctxs, active[u])
  BY <1>2 DEF CallsInv, Behind
<1>4. ChainIn(ctxs, active[u]) \subseteq 1..active[u]
  <2>1. Len(ctxs) \in Nat
    BY <1>1
  <2> QED BY <1>1, <2>1, ChainFacts
<1>5. 1..active[u] \subseteq 1..Len(ctxs)
  BY <1>1
<1> QED BY <1>2, <1>3, <1>4, <1>5

\* The runs that a task is in.
LEMMA RunsMembers ==
    ASSUME Inv, NEW t \in Tasks, NEW x
    PROVE  x \in RunsOf(t) <=>
               \/ x \in around[t].runs
               \/ \E i \in 1..Len(frames[t]) : frames[t][i].kind = "function" /\ x = frames[t][i].run
<1>1. frames[t] \in Seq(Frames)
  BY DEF Inv, Types
<1>2. DOMAIN frames[t] = 1..Len(frames[t])
  BY <1>1
<1> QED BY <1>2 DEF RunsOf, FunctionsOf

\* A scope is entered: the calls made in it, and in it only, will be marked in its context.
LEMMA EnterCalls ==
    ASSUME CallsInv, Inv', NEW t \in Tasks, NEW x \in Shields \union Functions,
           NEW owner \in Shields \union {None}, NEW kind, NEW run \in Nat,
           Enter(t, x, owner, kind, run), called' \subseteq called,
           kind = "function" => run \notin called' /\ \A v \in Tasks : run \notin RunsOf(v)
    PROVE  CallsInv'
<1>1. /\ ctxs' = Append(ctxs, Context(t, x, owner)) /\ around' = around
      /\ active' = [active EXCEPT ![t] = Len(ctxs) + 1]
      /\ Push(t, Frame(kind, x, Options[x].protects, Len(ctxs) + 1, active[t], run))
  BY DEF Enter
<1>2. Inv /\ ctxs \in Seq(Contexts) /\ Older(ctxs) /\ ctxs' \in Seq(Contexts) /\ Older(ctxs')
  <2>1. Inv /\ ctxs \in Seq(Contexts) /\ Older(ctxs)
    BY DEF CallsInv, Inv, Types
  <2>2. ctxs' \in Seq(Contexts) /\ Older(ctxs')
    <3>1. PICK c : c = Context(t, x, owner)
      OBVIOUS
    <3>2. Append(ctxs, c) \in Seq(Contexts) /\ Older(Append(ctxs, c))
      BY <2>1, <3>1, NewContext
    <3>3. ctxs' = Append(ctxs, c)
      BY <1>1, <3>1
    <3> QED BY <3>2, <3>3
  <2> QED BY <2>1, <2>2
<1>3. PICK n : n = Len(ctxs) + 1
  OBVIOUS
<1>4. /\ n \in Nat /\ n = Len(ctxs) + 1 /\ Len(ctxs') = n
      /\ ctxs'[n].parent = active[t] /\ \A i \in 1..Len(ctxs) : ctxs'[i] = ctxs[i]
  <2>1. PICK c : c = Context(t, x, owner)
    OBVIOUS
  <2>2. c.parent = active[t] /\ c \in Contexts
    <3>1. c.parent = active[t]
      BY <2>1 DEF Context
    <3>2. c \in Contexts
      BY <1>2, <2>1, NewContext
    <3> QED BY <3>1, <3>2
  <2> QED BY <1>1, <1>2, <1>3, <2>1, <2>2
<1>5. /\ \A v \in Tasks : ChainIn(ctxs, active[v]) \subseteq ChainIn(ctxs', active'[v])
      /\ n \in ChainIn(ctxs', active'[t])
  <2>1. Len(ctxs) \in Nat /\ Len(ctxs') \in Nat /\ Len(ctxs) <= Len(ctxs')
    BY <1>2, <1>4
  <2>2. ASSUME NEW v \in Tasks
        PROVE  ChainIn(ctxs, active[v]) = ChainIn(ctxs', active[v])
    <3>1. active[v] \in 0..Len(ctxs)
      BY <1>2, ActiveExists
    <3>2. active[v] \in Nat /\ active[v] <= Len(ctxs) /\ active[v] <= Len(ctxs')
      BY <2>1, <3>1
    <3>3. \A j \in 1..active[v] : ctxs[j].parent = ctxs'[j].parent
      BY <1>4, <2>1, <3>1
    <3> QED BY <1>2, <2>1, <3>2, <3>3, ChainsAgree
  <2>3. ChainIn(ctxs', n) = {n} \union ChainIn(ctxs', active[t])
    <3>1. n \in 1..Len(ctxs')
      BY <1>4, <2>1
    <3> QED BY <1>2, <1>4, <2>1, <3>1, ChainSteps
  <2>4. active'[t] = n /\ \A v \in Tasks : v # t => active'[v] = active[v]
    BY <1>1, <1>2, <1>3 DEF Inv, Types
  <2>5. ASSUME NEW v \in Tasks
        PROVE  ChainIn(ctxs, active[v]) \subseteq ChainIn(ctxs', active'[v])
    <3>1. CASE v = t
      BY <2>2, <2>3, <2>4, <3>1
    <3>2. CASE v # t
      BY <2>2, <2>4, <3>2
    <3> QED BY <3>1, <3>2
  <2> QED BY <2>3, <2>4, <2>5
<1>6. PICK F : F = Frame(kind, x, Options[x].protects, n, active[t], run)
  OBVIOUS
<1>7. F.kind = kind /\ F.ctx = n /\ F.run = run
  BY <1>6 DEF Frame
<1>8. PICK N : N = Len(frames[t]) + 1
  OBVIOUS
<1>9. /\ Len(frames'[t]) = N /\ frames'[t][N] = F /\ N \in Nat /\ N \in 1..N
      /\ \A u \in Tasks : \A j \in 1..Len(frames'[u]) :
           \/ u = t /\ j = N
           \/ j \in 1..Len(frames[u]) /\ frames'[u][j] = frames[u][j]
  <2>1. PICK f, s : f = frames[t] /\ s = Append(f, F)
    OBVIOUS
  <2>2. frames' = [frames EXCEPT ![t] = s]
    BY <1>1, <1>3, <1>6, <2>1 DEF Push
  <2>3. frames'[t] = s /\ \A u \in Tasks : u # t => frames'[u] = frames[u]
    BY <1>2, <2>2 DEF Inv, Types
  <2>4. f \in Seq(Frames) /\ s \in Seq(Frames)
    BY <1>2, <2>1, <2>3 DEF Inv, Types
  <2>5. F \in Frames
    <3>1. Len(s) = Len(f) + 1 /\ s[Len(f) + 1] = F
      BY <2>1, <2>4
    <3>2. Len(f) + 1 \in 1..Len(s)
      BY <2>4, <3>1
    <3> QED BY <2>4, <3>1, <3>2
  <2>6. Len(s) = N /\ s[N] = F /\ N \in Nat /\ N >= 1 /\ \A j \in 1..Len(f) : s[j] = f[j]
    BY <1>8, <2>1, <2>4, <2>5
  <2>7. \A j \in 1..N : j = N \/ j \in 1..Len(f)
    BY <1>8, <2>1, <2>4
  <2>8. ASSUME NEW u \in Tasks, NEW j \in 1..Len(frames'[u])
        PROVE  \/ u = t /\ j = N
               \/ j \in 1..Len(frames[u]) /\ frames'[u][j] = frames[u][j]
    <3>1. CASE u = t
      BY <2>1, <2>3, <2>6, <2>7, <3>1
    <3>2. CASE u # t
      BY <2>3, <3>2
    <3> QED BY <3>1, <3>2
  <2> QED BY <2>3, <2>6, <2>8
<1>10. ASSUME NEW v \in Tasks, NEW y \in RunsOf(v)'
       PROVE  y \in RunsOf(v) \/ (v = t /\ kind = "function" /\ y = run)
  <2>1. \/ y \in around[v].runs
        \/ \E i \in 1..Len(frames'[v]) : frames'[v][i].kind = "function" /\ y = frames'[v][i].run
    <3>1. frames'[v] \in Seq(Frames)
      BY DEF Inv, Types
    <3>2. DOMAIN frames'[v] = 1..Len(frames'[v])
      BY <3>1
    <3> QED BY <1>1, <1>10, <3>2 DEF RunsOf, FunctionsOf
  <2>2. CASE y \in around[v].runs
    BY <1>2, <2>2, RunsMembers
  <2>3. ASSUME NEW i \in 1..Len(frames'[v]), frames'[v][i].kind = "function", y = frames'[v][i].run
        PROVE  y \in RunsOf(v) \/ (v = t /\ kind = "function" /\ y = run)
    <3>1. CASE v = t /\ i = N
      BY <1>7, <1>9, <2>3, <3>1
    <3>2. CASE i \in 1..Len(frames[v]) /\ frames'[v][i] = frames[v][i]
      BY <1>2, <2>3, <3>2, RunsMembers
    <3> QED BY <1>9, <3>1, <3>2
  <2> QED BY <2>1, <2>2, <2>3
<1>11. ASSUME NEW u \in Tasks, NEW j \in 1..Len(frames[u])
       PROVE  frames[u][j].ctx # n
  <2>1. frames[u][j].ctx \in 0..Len(ctxs)
    BY <1>2, ActiveExists, FrameContexts
  <2> QED BY <1>2, <1>4, <2>1
<1>12. Fresh'
  <2>1. ASSUME NEW v \in Tasks, NEW u \in Tasks, NEW i \in 1..Len(frames'[v]), NEW j \in 1..Len(frames'[u]),
               frames'[v][i].kind # "budget", frames'[u][j].kind # "budget",
               frames'[v][i].ctx = frames'[u][j].ctx
        PROVE  v = u /\ i = j
    <3>1. CASE v = t /\ i = N /\ u = t /\ j = N
      BY <3>1
    <3>2. CASE v = t /\ i = N /\ j \in 1..Len(frames[u]) /\ frames'[u][j] = frames[u][j]
      BY <1>7, <1>9, <1>11, <2>1, <3>2
    <3>3. CASE u = t /\ j = N /\ i \in 1..Len(frames[v]) /\ frames'[v][i] = frames[v][i]
      BY <1>7, <1>9, <1>11, <2>1, <3>3
    <3>4. CASE /\ i \in 1..Len(frames[v]) /\ frames'[v][i] = frames[v][i]
               /\ j \in 1..Len(frames[u]) /\ frames'[u][j] = frames[u][j]
      BY <2>1, <3>4 DEF CallsInv, Fresh
    <3> QED BY <1>9, <3>1, <3>2, <3>3, <3>4
  <2> QED BY <2>1 DEF Fresh
<1>13. Behind'
  <2>1. ASSUME NEW v \in Tasks, NEW u \in Tasks, NEW j \in 1..Len(frames'[u]),
               frames'[u][j].kind = "function", frames'[u][j].run \in RunsOf(v)'
        PROVE  frames'[u][j].ctx \in ChainIn(ctxs', active'[v])
    <3>1. CASE u = t /\ j = N
      <4>1. kind = "function" /\ frames'[u][j].run = run /\ frames'[u][j].ctx = n
        BY <1>7, <1>9, <2>1, <3>1
      <4>2. v = t
        BY <1>10, <2>1, <4>1
      <4> QED BY <1>5, <4>1, <4>2
    <3>2. CASE j \in 1..Len(frames[u]) /\ frames'[u][j] = frames[u][j]
      <4>1. frames[u][j].run \in RunsOf(u)
        BY <2>1, <3>2, FunctionContexts
      <4>2. frames[u][j].run \in RunsOf(v)
        BY <1>10, <2>1, <3>2, <4>1
      <4>3. frames[u][j].ctx \in ChainIn(ctxs, active[v])
        BY <2>1, <3>2, <4>2 DEF CallsInv, Behind
      <4> QED BY <1>5, <3>2, <4>3
    <3> QED BY <1>9, <3>1, <3>2
  <2>2. ASSUME NEW v \in Tasks, NEW u \in Tasks, NEW j \in 1..Len(frames'[u]),
               frames'[u][j].kind = "function", frames'[u][j].run \in RunsOf(v)'
        PROVE  (frames[u][j].ctx \in ChainIn(ctxs, active[v]))'
    <3>1. frames'[u][j].ctx \in ChainIn(ctxs', active'[v])
      BY <2>1, <2>2
    <3> QED BY <3>1 DEF ChainIn
  <2> QED BY <2>2 DEF Behind
<1>14. Marks'
  <2>1. ASSUME NEW u \in Tasks, NEW j \in 1..Len(frames'[u]),
               frames'[u][j].kind = "function", frames'[u][j].run \in called'
        PROVE  ctxs'[frames'[u][j].ctx].calls
    <3>1. ~(u = t /\ j = N)
      BY <1>7, <1>9, <2>1
    <3>2. j \in 1..Len(frames[u]) /\ frames'[u][j] = frames[u][j]
      BY <1>9, <3>1
    <3>3. frames[u][j].ctx \in 1..Len(ctxs) /\ ctxs[frames[u][j].ctx].calls
      BY <2>1, <3>2, FunctionContexts DEF CallsInv, Marks
    <3> QED BY <1>4, <3>2, <3>3
  <2> QED BY <2>1 DEF Marks
<1> QED BY <1>12, <1>13, <1>14 DEF CallsInv

\* What a reset leaves of the contexts.
LEMMA ResetFacts ==
    ASSUME NEW C \in Seq(Contexts), NEW k, NEW D, D = [C EXCEPT ![k].calls = FALSE]
    PROVE  \A i \in 1..Len(C) : D[i].parent = C[i].parent /\ (i # k => D[i] = C[i])
<1>1. PICK c : c = [C[k] EXCEPT !.calls = FALSE]
  OBVIOUS
<1>2. D = [C EXCEPT ![k] = c]
  BY <1>1
<1>3. \A i \in 1..Len(C) : D[i] = IF i = k THEN c ELSE C[i]
  <2>1. DOMAIN C = 1..Len(C)
    OBVIOUS
  <2> QED BY <1>2, <2>1
<1>4. ASSUME NEW i \in 1..Len(C)
      PROVE  D[i].parent = C[i].parent /\ (i # k => D[i] = C[i])
  <2>1. C[i] \in Contexts
    OBVIOUS
  <2>2. CASE i = k
    <3>1. D[i] = [C[i] EXCEPT !.calls = FALSE]
      BY <1>1, <1>3, <2>2
    <3> QED BY <2>1, <2>2, <3>1 DEF Contexts
  <2>3. CASE i # k
    BY <1>3, <2>3
  <2> QED BY <2>2, <2>3
<1> QED BY <1>4

\* A function runs again: of the calls made in its new run none has been marked.
LEMMA AgainCalls ==
    ASSUME CallsInv, NEW t \in Tasks, frames[t] # <<>>, Top(t).kind = "function",
           NEW F \in Frames, SamePlace(Top(t), F),
           F.retries <= Options[F.of].max_retries, F.validations <= Options[F.of].validation_retries,
           Again(t, F), UNCHANGED <<entered, spawner, around>>
    PROVE  CallsInv'
<1>1. Inv /\ ctxs \in Seq(Contexts) /\ Older(ctxs) /\ frames[t] \in Seq(Frames) /\ Len(frames[t]) > 0
      /\ Top(t) = frames[t][Len(frames[t])]
  BY TopFacts DEF CallsInv, Inv, Types
<1>2. PICK run : run = NewRun
  OBVIOUS
<1>3. /\ active' = active /\ called' = called \ {run} /\ around' = around
      /\ ctxs' = [ctxs EXCEPT ![F.ctx].calls = FALSE]
      /\ \A v \in Tasks : run \notin RunsOf(v)
  BY <1>1, <1>2, NewRunIsNew DEF Again, Inv
<1>4. Inv'
  BY <1>1, AgainSteps
<1>5. PICK s \in Seq(Frames) :
         /\ frames' = [frames EXCEPT ![t] = s] /\ Len(s) = Len(frames[t])
         /\ SamePlace(Top(t), s[Len(s)]) /\ s[Len(s)].run = run
         /\ \A i \in 1..Len(s) : i # Len(s) => s[i] = frames[t][i]
  <2>1. \E s \in Seq(Frames) :
           /\ frames' = [frames EXCEPT ![t] = s] /\ Len(s) = Len(frames[t])
           /\ SamePlace(Top(t), s[Len(s)]) /\ s[Len(s)].run = NewRun /\ ~s[Len(s)].sleeping
           /\ \A i \in 1..Len(s) : i # Len(s) => s[i] = frames[t][i]
    BY <1>1, AgainSteps
  <2> QED BY <1>2, <2>1
<1>6. PICK N, k : N = Len(frames[t]) /\ k = F.ctx
  OBVIOUS
<1>7. /\ N \in 1..Len(frames[t]) /\ frames[t][N].kind = "function" /\ frames[t][N].ctx = k
      /\ s[N].kind = "function" /\ s[N].ctx = k /\ s[N].run = run
  BY <1>1, <1>5, <1>6 DEF SamePlace
<1>8. frames'[t] = s /\ \A u \in Tasks : u # t => frames'[u] = frames[u]
  BY <1>1, <1>5 DEF Inv, Types
<1>9. /\ \A u \in Tasks : Len(frames'[u]) = Len(frames[u])
      /\ \A u \in Tasks : \A j \in 1..Len(frames[u]) :
           (u = t /\ j = N) \/ frames'[u][j] = frames[u][j]
  <2>1. ASSUME NEW u \in Tasks, NEW j \in 1..Len(frames[u])
        PROVE  (u = t /\ j = N) \/ frames'[u][j] = frames[u][j]
    BY <1>5, <1>6, <1>8
  <2> QED BY <1>5, <1>8, <2>1
<1>10. \A u \in Tasks : \A j \in 1..Len(frames[u]) :
          frames'[u][j].kind = frames[u][j].kind /\ frames'[u][j].ctx = frames[u][j].ctx
  <2>1. ASSUME NEW u \in Tasks, NEW j \in 1..Len(frames[u])
        PROVE  frames'[u][j].kind = frames[u][j].kind /\ frames'[u][j].ctx = frames[u][j].ctx
    <3>1. CASE u = t /\ j = N
      BY <1>7, <1>8, <3>1
    <3>2. CASE frames'[u][j] = frames[u][j]
      BY <3>2
    <3> QED BY <1>9, <3>1, <3>2
  <2> QED BY <2>1
<1>11. \A i \in 1..Len(ctxs) : ctxs'[i].parent = ctxs[i].parent /\ (i # k => ctxs'[i] = ctxs[i])
  BY <1>1, <1>3, <1>6, ResetFacts
<1>12. ASSUME NEW v \in Tasks
       PROVE  ChainIn(ctxs, active[v]) = ChainIn(ctxs', active[v])
  <2>1. OnlyMarks(ctxs, ctxs')
    BY <1>1, <1>3, ResetMarks
  <2>2. Len(ctxs') = Len(ctxs) /\ Older(ctxs') /\ Len(ctxs) \in Nat
    <3>1. PICK D : D = ctxs'
      OBVIOUS
    <3>2. Len(D) = Len(ctxs) /\ Older(D)
      BY <1>1, <2>1, <3>1, MarksOfContexts
    <3> QED BY <1>1, <3>1, <3>2 DEF Older
  <2>3. active[v] \in 0..Len(ctxs)
    BY <1>1, ActiveExists
  <2>4. \A j \in 1..active[v] : j \in 1..Len(ctxs)
    BY <2>2, <2>3
  <2>5. \A j \in 1..active[v] : ctxs[j].parent = ctxs'[j].parent
    BY <1>11, <2>4
  <2>6. active[v] \in Nat /\ active[v] <= Len(ctxs) /\ active[v] <= Len(ctxs')
    BY <2>2, <2>3
  <2> QED BY <1>1, <2>2, <2>5, <2>6, ChainsAgree
<1>13. ASSUME NEW v \in Tasks, NEW y \in RunsOf(v)'
       PROVE  y \in RunsOf(v) \/ (v = t /\ y = run)
  <2>1. \/ y \in around[v].runs
        \/ \E i \in 1..Len(frames'[v]) : frames'[v][i].kind = "function" /\ y = frames'[v][i].run
    <3>1. frames'[v] \in Seq(Frames)
      BY <1>4 DEF Inv, Types
    <3>2. DOMAIN frames'[v] = 1..Len(frames'[v])
      BY <3>1
    <3> QED BY <1>3, <1>13, <3>2 DEF RunsOf, FunctionsOf
  <2>2. CASE y \in around[v].runs
    BY <1>1, <2>2, RunsMembers
  <2>3. ASSUME NEW i \in 1..Len(frames[v]), frames'[v][i].kind = "function", y = frames'[v][i].run
        PROVE  y \in RunsOf(v) \/ (v = t /\ y = run)
    <3>1. CASE v = t /\ i = N
      BY <1>7, <1>8, <2>3, <3>1
    <3>2. CASE frames'[v][i] = frames[v][i]
      BY <1>1, <2>3, <3>2, RunsMembers
    <3> QED BY <1>9, <3>1, <3>2
  <2> QED BY <1>9, <2>1, <2>2, <2>3
<1>14. Fresh'
  <2>1. ASSUME NEW v \in Tasks, NEW u \in Tasks, NEW i \in 1..Len(frames'[v]), NEW j \in 1..Len(frames'[u]),
               frames'[v][i].kind # "budget", frames'[u][j].kind # "budget",
               frames'[v][i].ctx = frames'[u][j].ctx
        PROVE  v = u /\ i = j
    <3>1. i \in 1..Len(frames[v]) /\ j \in 1..Len(frames[u])
      BY <1>9, <2>1
    <3>2. /\ frames[v][i].kind # "budget" /\ frames[u][j].kind # "budget"
          /\ frames[v][i].ctx = frames[u][j].ctx
      BY <1>10, <2>1, <3>1
    <3>3. Fresh
      BY DEF CallsInv
    <3> QED BY <3>1, <3>2, <3>3 DEF Fresh
  <2> QED BY <2>1 DEF Fresh
<1>15. k \in ChainIn(ctxs, active[t])
  BY <1>1, <1>7, FunctionContexts DEF CallsInv, Behind
<1>16. Behind'
  <2>1. ASSUME NEW v \in Tasks, NEW u \in Tasks, NEW j \in 1..Len(frames'[u]),
               frames'[u][j].kind = "function", frames'[u][j].run \in RunsOf(v)'
        PROVE  frames'[u][j].ctx \in ChainIn(ctxs', active'[v])
    <3>1. CASE u = t /\ j = N
      <4>1. v = t
        BY <1>3, <1>7, <1>8, <1>13, <2>1, <3>1
      <4> QED BY <1>3, <1>7, <1>8, <1>12, <1>15, <3>1, <4>1
    <3>2. CASE frames'[u][j] = frames[u][j]
      <4>1. j \in 1..Len(frames[u])
        BY <1>9
      <4>2. frames[u][j].run \in RunsOf(u)
        BY <2>1, <3>2, <4>1, FunctionContexts
      <4>3. frames[u][j].run \in RunsOf(v)
        BY <1>3, <1>13, <2>1, <3>2, <4>2
      <4>4. frames[u][j].ctx \in ChainIn(ctxs, active[v])
        BY <2>1, <3>2, <4>1, <4>3 DEF CallsInv, Behind
      <4> QED BY <1>3, <1>12, <3>2, <4>4
    <3> QED BY <1>9, <3>1, <3>2
  <2>2. ASSUME NEW v \in Tasks, NEW u \in Tasks, NEW j \in 1..Len(frames'[u]),
               frames'[u][j].kind = "function", frames'[u][j].run \in RunsOf(v)'
        PROVE  (frames[u][j].ctx \in ChainIn(ctxs, active[v]))'
    <3>1. frames'[u][j].ctx \in ChainIn(ctxs', active'[v])
      BY <2>1, <2>2
    <3> QED BY <3>1 DEF ChainIn
  <2> QED BY <2>2 DEF Behind
<1>17. Marks'
  <2>1. ASSUME NEW u \in Tasks, NEW j \in 1..Len(frames'[u]),
               frames'[u][j].kind = "function", frames'[u][j].run \in called'
        PROVE  ctxs'[frames'[u][j].ctx].calls
    <3>1. ~(u = t /\ j = N)
      BY <1>3, <1>7, <1>8, <2>1
    <3>2. j \in 1..Len(frames[u]) /\ frames'[u][j] = frames[u][j]
      BY <1>9, <3>1
    <3>3. frames[u][j].ctx \in 1..Len(ctxs) /\ ctxs[frames[u][j].ctx].calls
      BY <1>3, <2>1, <3>2, FunctionContexts DEF CallsInv, Marks
    <3>4. frames[u][j].ctx # k
      BY <1>7, <2>1, <3>1, <3>2 DEF CallsInv, Fresh
    <3> QED BY <1>11, <3>2, <3>3, <3>4
  <2> QED BY <2>1 DEF Marks
<1> QED BY <1>4, <1>14, <1>16, <1>17 DEF CallsInv

\* A scope is left: its context is no other's.
LEMMA LeaveCalls ==
    ASSUME CallsInv, Inv', NEW t \in Tasks, frames[t] # <<>>, Top(t).kind # "budget",
           NEW s \in Seq(Frames), Len(s) = Len(frames[t]) - 1,
           \A i \in 1..Len(s) : \E h \in Kinds \union {None} : s[i] = [frames[t][i] EXCEPT !.holds = h],
           frames' = [frames EXCEPT ![t] = s], active' = [active EXCEPT ![t] = Top(t).token],
           CollectedFor(ctxs'), around' = around, called' = called
    PROVE  CallsInv'
<1>1. Inv /\ ctxs \in Seq(Contexts) /\ Older(ctxs) /\ Len(ctxs) \in Nat
      /\ frames[t] \in Seq(Frames) /\ Len(frames[t]) > 0 /\ Top(t) = frames[t][Len(frames[t])]
  BY TopFacts, SMTT(30) DEF CallsInv, Inv, Types
<1>2. /\ active[t] \in 1..Len(ctxs) /\ Top(t).ctx = active[t]
      /\ ctxs[active[t]].parent = Top(t).token
  BY <1>1, ScopeOnTop
<1>3. active'[t] = Top(t).token /\ \A v \in Tasks : v # t => active'[v] = active[v]
  BY <1>1 DEF Inv, Types
<1>4. \A u \in Tasks : Carried(frames[u], frames'[u])
  <2>1. Carried(frames[t], s)
    <3>1. Len(s) \in Nat /\ Len(s) <= Len(frames[t])
      BY <1>1
    <3> QED BY <1>1, <3>1, HeldCarries
  <2> QED BY <1>1, <2>1, AllCarry
<1>5. PICK m \in 0..Len(ctxs) : /\ ctxs' = SubSeq(ctxs, 1, m)
                                /\ \A u \in Tasks : active'[u] <= m
                                /\ \A u \in Tasks : \A i \in 1..Len(frames'[u]) : frames'[u][i].ctx <= m
  BY DEF CollectedFor
<1>6. Len(ctxs') = m /\ Older(ctxs') /\ \A i \in 1..m : ctxs'[i] = ctxs[i]
  <2>1. PICK D : D = ctxs'
    OBVIOUS
  <2>2. D = SubSeq(ctxs, 1, m)
    BY <1>5, <2>1
  <2>3. Len(D) = m
    BY <1>1, <2>2, PrefixOfContexts
  <2>4. Older(D)
    BY <1>1, <2>2, PrefixOfContexts
  <2>5. \A i \in 1..m : D[i] = ctxs[i]
    BY <1>1, <2>2, PrefixOfContexts
  <2> QED BY <2>1, <2>3, <2>4, <2>5 DEF Older
<1>7. ASSUME NEW v \in Tasks
      PROVE  ChainIn(ctxs, active'[v]) = ChainIn(ctxs', active'[v])
  <2>1. active' \in [Tasks -> Nat]
    BY DEF Inv, Types
  <2>2. active'[v] \in Nat /\ active'[v] <= m /\ active'[v] <= Len(ctxs)
    BY <1>1, <1>5, <2>1
  <2>3. \A j \in 1..active'[v] : j \in 1..m
    BY <2>2
  <2>4. \A j \in 1..active'[v] : ctxs[j].parent = ctxs'[j].parent
    BY <1>6, <2>3
  <2>5. m \in Nat
    BY <1>1
  <2> QED BY <1>1, <1>6, <2>2, <2>4, <2>5, ChainsAgree
<1>8. ASSUME NEW u \in Tasks, NEW j \in 1..Len(frames'[u]), frames'[u][j].kind = "function"
      PROVE  /\ j \in 1..Len(frames[u]) /\ frames[u][j].kind = "function"
             /\ frames'[u][j].ctx = frames[u][j].ctx /\ frames'[u][j].run = frames[u][j].run
             /\ frames[u][j].ctx # active[t]
  <2>1. /\ j \in 1..Len(frames[u]) /\ frames[u][j].kind = "function"
        /\ frames'[u][j].ctx = frames[u][j].ctx /\ frames'[u][j].run = frames[u][j].run
    BY <1>4, <1>8 DEF Carried
  <2>2. Len(frames[t]) \in 1..Len(frames[t])
    BY <1>1
  <2>5. frames[u][j].ctx = frames[t][Len(frames[t])].ctx => u = t /\ j = Len(frames[t])
    <3>1. frames[t][Len(frames[t])].kind # "budget" /\ frames[u][j].kind # "budget"
      BY <1>1, <2>1
    <3> QED BY <2>1, <2>2, <3>1 DEF CallsInv, Fresh
  <2>3. CASE u = t
    <3>1. frames'[t] = s
      BY <1>1 DEF Inv, Types
    <3>2. j # Len(frames[t])
      BY <1>1, <1>8, <2>3, <3>1
    <3>3. frames[t][j].ctx # frames[t][Len(frames[t])].ctx
      BY <2>1, <2>2, <2>3, <2>5, <3>2
    <3> QED BY <1>1, <1>2, <2>1, <2>3, <3>3
  <2>4. CASE u # t
    <3>1. frames[u][j].ctx # frames[t][Len(frames[t])].ctx
      BY <2>1, <2>2, <2>4, <2>5
    <3> QED BY <1>1, <1>2, <2>1, <3>1
  <2> QED BY <2>3, <2>4
<1>9. ASSUME NEW v \in Tasks, NEW u \in Tasks, NEW j \in 1..Len(frames'[u]),
             frames'[u][j].kind = "function", frames'[u][j].ctx \in ChainIn(ctxs, active[v])
      PROVE  frames'[u][j].ctx \in ChainIn(ctxs', active'[v])
  <2>1. CASE v = t
    <3>1. ChainIn(ctxs, active[t]) = {active[t]} \union ChainIn(ctxs, active'[t])
      BY <1>1, <1>2, <1>3, ChainSteps
    <3>2. frames'[u][j].ctx # active[t]
      BY <1>8, <1>9
    <3> QED BY <1>7, <1>9, <2>1, <3>1, <3>2
  <2>2. CASE v # t
    BY <1>3, <1>7, <1>9, <2>2
  <2> QED BY <2>1, <2>2
<1>10. ASSUME NEW u \in Tasks, NEW j \in 1..Len(frames'[u]),
              frames'[u][j].kind = "function", frames'[u][j].run \in called'
       PROVE  ctxs'[frames'[u][j].ctx].calls
  <2>1. /\ j \in 1..Len(frames[u]) /\ frames[u][j].kind = "function"
        /\ frames'[u][j].ctx = frames[u][j].ctx /\ frames'[u][j].run = frames[u][j].run
    BY <1>8, <1>10
  <2>2. frames[u][j].ctx \in 1..Len(ctxs) /\ ctxs[frames[u][j].ctx].calls
    BY <1>10, <2>1, FunctionContexts, SMTT(30) DEF CallsInv, Marks
  <2>3. frames[u][j].ctx \in 1..m
    BY <1>1, <1>5, <2>1, <2>2
  <2> QED BY <1>6, <2>1, <2>2, <2>3
<1> QED BY <1>4, <1>9, <1>10, CarriedSteps

\* An intercepted call marks the functions that it is made in.
LEMMA CallCalls ==
    ASSUME CallsInv, NEW t \in Tasks, Call(t)
    PROVE  CallsInv'
<1>1. /\ Receive(t, "intercepted") /\ ctxs' = Marked(active[t]) /\ called' = called \union RunsOf(t)
      /\ active' = active /\ around' = around
  BY DEF Call, Receive
<1>2. Inv /\ Inv' /\ ctxs \in Seq(Contexts) /\ Older(ctxs) /\ Len(ctxs) \in Nat
  <2>1. Inv
    BY DEF CallsInv
  <2>2. Inv'
    BY <2>1, CallSteps
  <2>3. ctxs \in Seq(Contexts) /\ Older(ctxs)
    BY <2>1 DEF Inv, Types
  <2> QED BY <2>1, <2>2, <2>3
<1>3. PICK n, S, D : n = active[t] /\ S = ChainIn(ctxs, n) /\ D = Marked(n)
  OBVIOUS
<1>4. /\ D \in [1..Len(ctxs) -> Contexts]
      /\ \A j \in 1..Len(ctxs) : D[j] = [ctxs[j] EXCEPT !.calls = IF j \in S THEN TRUE ELSE @]
  BY <1>2, <1>3, MarkedFacts DEF Inv
<1>5. ASSUME NEW j \in 1..Len(ctxs)
      PROVE  D[j].parent = ctxs[j].parent /\ (D[j].calls <=> j \in S \/ ctxs[j].calls)
  <2>1. ctxs[j] \in Contexts
    BY <1>2
  <2>2. PICK c : c = ctxs[j]
    OBVIOUS
  <2>3. c \in Contexts /\ c.calls \in BOOLEAN
    BY <2>1, <2>2 DEF Contexts
  <2>4. CASE j \in S
    <3>1. D[j] = [c EXCEPT !.calls = TRUE]
      BY <1>4, <2>2, <2>4
    <3> QED BY <2>2, <2>3, <2>4, <3>1 DEF Contexts
  <2>5. CASE j \notin S
    <3>1. D[j] = [c EXCEPT !.calls = c.calls]
      BY <1>4, <2>2, <2>5
    <3> QED BY <2>2, <2>3, <2>5, <3>1 DEF Contexts
  <2> QED BY <2>4, <2>5
<1>6. ctxs' = D
  BY <1>1, <1>3
<1>7. OnlyMarks(ctxs, ctxs') /\ called' \subseteq Nat
  <2>1. called' \subseteq Nat
    BY <1>1, <1>2, RunsAreNumbers DEF Inv, Types
  <2>2. ASSUME NEW j \in 1..Len(ctxs)
        PROVE  \E b \in BOOLEAN : D[j] = [ctxs[j] EXCEPT !.calls = b]
    <3>1. PICK b : b = IF j \in S THEN TRUE ELSE ctxs[j].calls
      OBVIOUS
    <3>2. b \in BOOLEAN
      <4>1. ctxs[j] \in Contexts
        BY <1>2
      <4> QED BY <3>1, <4>1 DEF Contexts
    <3> QED BY <1>4, <3>1, <3>2
  <2> QED BY <1>4, <1>6, <2>1, <2>2 DEF OnlyMarks
<1>8. PICK s \in Seq(Frames) :
         /\ frames' = [frames EXCEPT ![t] = s] /\ Len(s) = Len(frames[t])
         /\ \A i \in 1..Len(s) : \E h \in Kinds \union {None} : s[i] = [frames[t][i] EXCEPT !.holds = h]
  <2>1. "intercepted" \in Kinds
    BY DEF Kinds
  <2> QED BY <1>1, <1>2, <1>7, <2>1, ReceiveSteps
<1>9. \A u \in Tasks : Carried(frames[u], frames'[u])
  <2>1. frames[t] \in Seq(Frames) /\ Len(s) \in Nat /\ Len(s) <= Len(frames[t])
    BY <1>2, <1>8 DEF Inv, Types
  <2>2. Carried(frames[t], s)
    BY <1>8, <2>1, HeldCarries
  <2> QED BY <1>2, <1>8, <2>2, AllCarry
<1>10. ASSUME NEW v \in Tasks
       PROVE  ChainIn(ctxs, active[v]) = ChainIn(ctxs', active'[v])
  <2>1. Len(D) = Len(ctxs) /\ Older(D)
    BY <1>2, <1>6, <1>7, MarksOfContexts
  <2>2. active[v] \in 0..Len(ctxs)
    BY <1>2, ActiveExists
  <2>3. \A j \in 1..active[v] : j \in 1..Len(ctxs)
    BY <1>2, <2>2
  <2>4. \A j \in 1..active[v] : ctxs[j].parent = D[j].parent
    BY <1>5, <2>3
  <2>5. active[v] \in Nat /\ active[v] <= Len(ctxs) /\ active[v] <= Len(D) /\ Len(D) \in Nat
    BY <1>2, <2>1, <2>2
  <2>6. ChainIn(ctxs, active[v]) = ChainIn(D, active[v])
    BY <1>2, <2>1, <2>4, <2>5, ChainsAgree
  <2> QED BY <1>1, <1>6, <2>6
<1>11. ASSUME NEW u \in Tasks, NEW j \in 1..Len(frames'[u]),
              frames'[u][j].kind = "function", frames'[u][j].run \in called'
       PROVE  ctxs'[frames'[u][j].ctx].calls
  <2>1. /\ j \in 1..Len(frames[u]) /\ frames[u][j].kind = "function"
        /\ frames'[u][j].ctx = frames[u][j].ctx /\ frames'[u][j].run = frames[u][j].run
    BY <1>9, <1>11 DEF Carried
  <2>2. frames[u][j].ctx \in 1..Len(ctxs)
    BY <2>1, FunctionContexts
  <2>3. CASE frames[u][j].run \in called
    <3>1. ctxs[frames[u][j].ctx].calls
      BY <2>1, <2>3 DEF CallsInv, Marks
    <3> QED BY <1>5, <1>6, <2>1, <2>2, <3>1
  <2>4. CASE frames[u][j].run \in RunsOf(t)
    <3>1. frames[u][j].ctx \in S
      BY <1>3, <2>1, <2>4 DEF CallsInv, Behind
    <3> QED BY <1>5, <1>6, <2>1, <2>2, <3>1
  <2> QED BY <1>1, <1>11, <2>1, <2>3, <2>4
<1> QED BY <1>1, <1>2, <1>9, <1>10, <1>11, CarriedSteps

\* A function is run again, or is done, or a shield is left.
LEMMA RunEndCalls ==
    ASSUME CallsInv, NEW t \in Tasks, frames[t] # <<>>, Top(t).kind = "function",
           UNCHANGED <<entered, spawner, around>>, RunsAgain(t) \/ Ends(t)
    PROVE  CallsInv'
<1>1. CASE RunsAgain(t)
  BY <1>1, AgainCalls DEF RunsAgain
<1>2. CASE Ends(t)
  <2>1. PICK r \in Kinds \union {None} : Finish(t, r)
    BY <1>2 DEF Ends
  <2>2. Inv /\ around' = around
    BY DEF CallsInv
  <2>3. Inv' /\ CollectedFor(ctxs') /\ called' = called /\ active' = [active EXCEPT ![t] = Top(t).token]
    BY <2>1, <2>2, FinishSteps
  <2>4. PICK s \in Seq(Frames) :
           /\ frames' = [frames EXCEPT ![t] = s] /\ Len(s) = Len(frames[t]) - 1
           /\ \A i \in 1..Len(s) : \E h \in Kinds \union {None} : s[i] = [frames[t][i] EXCEPT !.holds = h]
    BY <2>1, <2>2, FinishSteps
  <2>5. Top(t).kind # "budget"
    OBVIOUS
  <2> QED BY <2>2, <2>3, <2>4, <2>5, LeaveCalls
<1> QED BY <1>1, <1>2

\* A shield is left.
LEMMA LeaveShieldCalls ==
    ASSUME CallsInv, NEW t \in Tasks, LeaveShield(t)
    PROVE  CallsInv'
<1>1. /\ frames[t] # <<>> /\ Top(t).kind = "shield" /\ around' = around /\ called' = called
      /\ active' = [active EXCEPT ![t] = Outside(@, Top(t).of)]
      /\ frames' = [frames EXCEPT ![t] = Front(@)]
  BY DEF LeaveShield, AtTop, Pop
<1>2. Inv /\ Inv' /\ CollectedFor(ctxs')
  BY LeaveShieldSteps DEF CallsInv
<1>3. active' = [active EXCEPT ![t] = Top(t).token]
  BY <1>1, <1>2, OutsideIsTheToken
<1>4. PICK s : s = Front(frames[t])
  OBVIOUS
<1>5. s \in Seq(Frames) /\ Len(s) = Len(frames[t]) - 1 /\ \A i \in 1..Len(s) : s[i] = frames[t][i]
  BY <1>1, <1>2, <1>4, FrontFacts
<1>6. \A i \in 1..Len(s) : \E h \in Kinds \union {None} : s[i] = [frames[t][i] EXCEPT !.holds = h]
  <2>1. \A i \in 1..Len(s) : s[i] \in Frames
    BY <1>5
  <2> QED BY <1>5, <2>1, HoldsTheSame
<1>7. frames' = [frames EXCEPT ![t] = s] /\ Top(t).kind # "budget"
  BY <1>1, <1>4
<1> QED BY <1>1, <1>2, <1>3, <1>5, <1>6, <1>7, LeaveCalls

\* A budget is entered or left.
LEMMA BudgetCalls ==
    ASSUME CallsInv, NEW t \in Tasks,
           LeaveBudget(t) \/ \E b \in Budgets : EnterBudget(t, b)
    PROVE  CallsInv'
<1>1. /\ around' = around /\ ctxs' = ctxs /\ active' = active /\ called' = called
  BY DEF LeaveBudget, EnterBudget
<1>2. Inv /\ Inv' /\ frames[t] \in Seq(Frames)
  BY EnterBudgetSteps, LeaveBudgetSteps DEF CallsInv, Inv, Types
<1>3. PICK s : frames' = [frames EXCEPT ![t] = s] /\ Carried(frames[t], s)
  <2>1. CASE LeaveBudget(t)
    <3>1. PICK s : s = Front(frames[t])
      OBVIOUS
    <3>2. frames' = [frames EXCEPT ![t] = s] /\ frames[t] # <<>>
      BY <2>1, <3>1 DEF LeaveBudget, AtTop, Pop
    <3>3. \A i \in 1..Len(s) : i \in 1..Len(frames[t]) /\ s[i] = frames[t][i]
      BY <1>2, <3>1, <3>2, FrontFacts
    <3> QED BY <3>2, <3>3 DEF Carried
  <2>2. CASE \E b \in Budgets : EnterBudget(t, b)
    <3>1. PICK b \in Budgets : EnterBudget(t, b)
      BY <2>2
    <3>2. PICK F, s : /\ F = Frame("budget", b, [Unprotected EXCEPT !.budgets = {b}], 0, 0, 0)
                      /\ s = Append(frames[t], F)
      OBVIOUS
    <3>3. frames' = [frames EXCEPT ![t] = s] /\ F.kind = "budget"
      BY <3>1, <3>2 DEF EnterBudget, Push, Frame
    <3>4. Len(s) = Len(frames[t]) + 1 /\ s[Len(frames[t]) + 1] = F /\ \A i \in 1..Len(frames[t]) : s[i] = frames[t][i]
      BY <1>2, <3>2
    <3>5. \A i \in 1..Len(s) : i = Len(frames[t]) + 1 \/ i \in 1..Len(frames[t])
      BY <1>2, <3>4
    <3> QED BY <3>3, <3>4, <3>5 DEF Carried
  <2> QED BY <2>1, <2>2
<1> QED BY <1>1, <1>2, <1>3, AllCarry, QuietSteps

\* A task gets a response, or the result of another task.
LEMMA ReceiveCalls ==
    ASSUME CallsInv, NEW t \in Tasks,
           Complete(t) \/ OwnRequest(t) \/ \E u \in Tasks : Await(t, u)
    PROVE  CallsInv'
<1>1. Inv /\ frames[t] \in Seq(Frames)
  BY DEF CallsInv, Inv, Types
<1>2. /\ around' = around /\ ctxs' = ctxs /\ active' = active /\ called' = called
  BY DEF Complete, OwnRequest, Receive, Await
<1>3. Inv' /\ \E s \in Seq(Frames) :
         /\ frames' = [frames EXCEPT ![t] = s] /\ Len(s) = Len(frames[t])
         /\ \A i \in 1..Len(s) : \E h \in Kinds \union {None} : s[i] = [frames[t][i] EXCEPT !.holds = h]
  <2>1. CASE Complete(t) \/ OwnRequest(t)
    <3>1. PICK kind \in Kinds : Receive(t, kind)
      <4>1. "complete" \in Kinds /\ "own" \in Kinds
        BY DEF Kinds
      <4> QED BY <2>1, <4>1 DEF Complete, OwnRequest
    <3>2. OnlyMarks(ctxs, ctxs') /\ called' \subseteq Nat
      BY <1>1, <1>2, NoMarks DEF Inv, Types
    <3> QED BY <1>1, <3>1, <3>2, ReceiveSteps
  <2>2. CASE \E u \in Tasks : Await(t, u)
    BY <1>1, <2>2, AwaitSteps
  <2> QED BY <2>1, <2>2
<1>4. PICK s \in Seq(Frames) :
         /\ frames' = [frames EXCEPT ![t] = s] /\ Len(s) = Len(frames[t])
         /\ \A i \in 1..Len(s) : \E h \in Kinds \union {None} : s[i] = [frames[t][i] EXCEPT !.holds = h]
  BY <1>3
<1>5. Carried(frames[t], s)
  <2>1. Len(s) \in Nat /\ Len(s) <= Len(frames[t])
    BY <1>1, <1>4
  <2> QED BY <1>1, <1>4, <2>1, HeldCarries
<1> QED BY <1>1, <1>2, <1>3, <1>4, <1>5, AllCarry, QuietSteps

\* A function raises.
LEMMA RaiseCalls ==
    ASSUME CallsInv, NEW t \in Tasks, NEW retryable \in BOOLEAN, Raise(t, retryable)
    PROVE  CallsInv'
<1>1. /\ Inv /\ Inv' /\ frames[t] # <<>> /\ Top(t).kind = "function"
      /\ UNCHANGED <<entered, spawner, around>>
  BY RaiseSteps DEF CallsInv, Raise, AtTop
<1>2. CASE Retries(Top(t), retryable)
  <2>1. /\ frames' = [frames EXCEPT ![t][Len(frames[t])].sleeping = TRUE]
        /\ ctxs' = ctxs /\ active' = active /\ called' = called
    BY <1>2 DEF Raise
  <2>2. PICK f, N, G : f = frames[t] /\ N = Len(f) /\ G = [f[N] EXCEPT !.sleeping = TRUE]
    OBVIOUS
  <2>3. PICK s : s = [f EXCEPT ![N] = G]
    OBVIOUS
  <2>4. frames' = [frames EXCEPT ![t] = s]
    BY <2>1, <2>2, <2>3
  <2>5. f \in Seq(Frames) /\ N \in 1..N /\ f[N] \in Frames
    BY <1>1, <2>2, TopFacts
  <2>6. G \in Frames /\ G.kind = f[N].kind /\ G.ctx = f[N].ctx /\ G.run = f[N].run
    BY <2>2, <2>5 DEF Frames
  <2>7. Len(s) = N /\ s[N] = G /\ \A i \in 1..N : i # N => s[i] = f[i]
    BY <2>2, <2>3, <2>5, <2>6
  <2>8. Carried(f, s)
    <3>1. ASSUME NEW i \in 1..Len(s)
          PROVE  i \in 1..Len(f) /\ s[i].kind = f[i].kind /\ s[i].ctx = f[i].ctx /\ s[i].run = f[i].run
      BY <2>2, <2>6, <2>7
    <3> QED BY <3>1 DEF Carried
  <2> QED BY <1>1, <2>1, <2>2, <2>4, <2>8, AllCarry, QuietSteps
<1>3. CASE ~Retries(Top(t), retryable)
  <2>1. Ends(t)
    BY <1>3 DEF Raise, Ends
  <2> QED BY <1>1, <2>1, RunEndCalls
<1> QED BY <1>2, <1>3

\* A task is started.
LEMMA StartCalls ==
    ASSUME CallsInv, NEW t \in Tasks, NEW u \in Tasks, NEW copies \in BOOLEAN, Start(t, u, copies)
    PROVE  CallsInv'
<1>1. /\ Inv /\ Inv' /\ ~Started(u)
      /\ ctxs' = ctxs /\ frames' = frames /\ called' = called
      /\ active' = [active EXCEPT ![u] = IF copies THEN active[t] ELSE 0]
  BY StartSteps DEF CallsInv, Start
<1>2. frames[u] = <<>> /\ around[u].runs = {}
  BY <1>1 DEF Inv, NotStarted, Nowhere
<1>3. \A v \in Tasks : v # u => active'[v] = active[v] /\ around'[v] = around[v]
  <2>1. \A v \in Tasks : v # u => active'[v] = active[v]
    BY <1>1 DEF Inv, Types
  <2>2. \A v \in Tasks : v # u => around'[v] = around[v]
    <3>1. PICK ar : around' = [around EXCEPT ![u] = ar]
      BY DEF Start
    <3> QED BY <1>1, <3>1 DEF Inv, Types
  <2> QED BY <2>1, <2>2
<1>4. ASSUME NEW v \in Tasks, v # u
      PROVE  RunsOf(v)' = RunsOf(v) /\ active'[v] = active[v]
  BY <1>1, <1>3, <1>4 DEF RunsOf
<1>5. RunsOf(u)' = {} \/ (RunsOf(u)' = RunsOf(t) /\ active'[u] = active[t])
  <2>1. RunsOf(u)' = around'[u].runs
    <3>1. FunctionsOf(frames[u]) = {}
      <4>1. DOMAIN frames[u] = {}
        BY <1>2
      <4> QED BY <4>1 DEF FunctionsOf
    <3>2. RunsOf(u)' = around'[u].runs \union {frames[u][i].run : i \in FunctionsOf(frames[u])}
      BY <1>1 DEF RunsOf
    <3> QED BY <3>1, <3>2
  <2>2. CASE copies
    <3>1. around' = [around EXCEPT ![u] = [protects |-> Asked(t), scoped |-> InScope(t), runs |-> RunsOf(t)]]
      BY <2>2 DEF Start
    <3>2. around'[u].runs = RunsOf(t)
      BY <1>1, <3>1 DEF Inv, Types
    <3>3. active'[u] = active[t]
      BY <1>1, <2>2 DEF Inv, Types
    <3> QED BY <2>1, <3>2, <3>3
  <2>3. CASE ~copies
    <3>1. around' = [around EXCEPT ![u] = around[u]]
      BY <2>3 DEF Start
    <3>2. around'[u].runs = {}
      BY <1>1, <1>2, <3>1 DEF Inv, Types
    <3> QED BY <2>1, <3>2
  <2> QED BY <2>2, <2>3
<1>6. Fresh' /\ Marks'
  BY <1>1 DEF CallsInv, Fresh, Marks
<1>7. Behind'
  <2>1. ASSUME NEW v \in Tasks, NEW w \in Tasks, NEW j \in 1..Len(frames[w]),
               frames[w][j].kind = "function", frames[w][j].run \in RunsOf(v)'
        PROVE  frames[w][j].ctx \in ChainIn(ctxs, active'[v])
    <3>1. CASE v = u
      <4>1. frames[w][j].run \in RunsOf(t) /\ active'[u] = active[t]
        BY <1>5, <2>1, <3>1
      <4> QED BY <2>1, <3>1, <4>1 DEF CallsInv, Behind
    <3>2. CASE v # u
      BY <1>4, <2>1, <3>2 DEF CallsInv, Behind
    <3> QED BY <3>1, <3>2
  <2>2. ASSUME NEW v \in Tasks, NEW w \in Tasks, NEW j \in 1..Len(frames'[w]),
               frames'[w][j].kind = "function", frames'[w][j].run \in RunsOf(v)'
        PROVE  (frames[w][j].ctx \in ChainIn(ctxs, active[v]))'
    <3>1. frames'[w][j].ctx \in ChainIn(ctxs', active'[v])
      BY <1>1, <2>1, <2>2
    <3> QED BY <3>1 DEF ChainIn
  <2> QED BY <2>2 DEF Behind
<1> QED BY <1>1, <1>6, <1>7 DEF CallsInv

\* At first no function has run.
LEMMA CallsInit == Init => CallsInv
<1> SUFFICES ASSUME Init PROVE CallsInv
  OBVIOUS
<1>1. Inv
  BY InitHolds
<1>2. \A t \in Tasks : Len(frames[t]) = 0
  BY DEF Init
<1> QED BY <1>1, <1>2 DEF CallsInv, Fresh, Behind, Marks

\* Every step keeps what is known of the calls.
LEMMA CallsNext == CallsInv /\ [Next]_vars => CallsInv'
<1> SUFFICES ASSUME CallsInv, [Next]_vars PROVE CallsInv'
  OBVIOUS
<1>1. Inv /\ Inv'
  BY NextHolds DEF CallsInv
<1>2. CASE UNCHANGED vars
  <2>1. /\ ctxs' = ctxs /\ active' = active /\ frames' = frames /\ around' = around /\ called' = called
    BY <1>2 DEF vars, program, history
  <2>2. \A u \in Tasks : Carried(frames[u], frames'[u])
    BY <1>1, <2>1, CarriesItself
  <2> QED BY <1>1, <2>1, <2>2, QuietSteps
<1>3. CASE Next
  <2>1. PICK t \in Tasks : Leave(t) \/ Proceed(t)
    BY <1>3 DEF Next
  <2>2. CASE Leave(t)
    <3>1. CASE LeaveShield(t)
      BY <3>1, LeaveShieldCalls
    <3>2. CASE LeaveBudget(t)
      BY <3>2, BudgetCalls
    <3>3. CASE Wake(t) \/ Cancel(t)
      BY <1>1, <3>3, WakeCases, RunEndCalls
    <3>4. CASE \E retryable \in BOOLEAN : Raise(t, retryable)
      BY <3>4, RaiseCalls
    <3>5. CASE \E r \in Kinds \union {None}, valid \in BOOLEAN : Return(t, r, valid)
      BY <1>1, <3>5, ReturnCases, RunEndCalls
    <3> QED BY <2>2, <3>1, <3>2, <3>3, <3>4, <3>5 DEF Leave
  <2>3. CASE Proceed(t)
    <3>1. CASE Call(t)
      BY <3>1, CallCalls
    <3>2. CASE Complete(t) \/ OwnRequest(t) \/ \E u \in Tasks : Await(t, u)
      BY <3>2, ReceiveCalls
    <3>3. ASSUME NEW s \in Shields, EnterShield(t, s)
          PROVE  CallsInv'
      <4>1. Enter(t, s, s, "shield", 0) /\ called' = called
        BY <3>3 DEF EnterShield
      <4> QED BY <1>1, <4>1, EnterCalls
    <3>4. CASE \E b \in Budgets : EnterBudget(t, b)
      BY <3>4, BudgetCalls
    <3>5. ASSUME NEW f \in Functions, CallFunction(t, f)
          PROVE  CallsInv'
      <4>1. PICK run : run = NewRun
        OBVIOUS
      <4>2. Enter(t, f, None, "function", run) /\ called' = called \ {run}
        BY <3>5, <4>1 DEF CallFunction
      <4>3. run \in Nat /\ \A v \in Tasks : run \notin RunsOf(v)
        BY <1>1, <4>1, NewRunIsNew DEF Inv
      <4> QED BY <1>1, <4>2, <4>3, EnterCalls
    <3>6. CASE \E u \in Tasks, copies \in BOOLEAN : Start(t, u, copies)
      BY <3>6, StartCalls
    <3> QED BY <2>3, <3>1, <3>2, <3>3, <3>4, <3>5, <3>6 DEF Proceed
  <2> QED BY <2>1, <2>2, <2>3
<1> QED BY <1>2, <1>3

\* In every state the functions that a call was made in can see that it was.
THEOREM CallsInvariance == Spec => []CallsInv
BY CallsInit, CallsNext, PTL DEF Spec

\* CallersRunOnce of Scopes: a function in which a call was intercepted, by itself or by
\* whatever it called or started, is not run again, nor is what it returns recorded.
THEOREM CalledFunctionsRunOnce == Spec => CallersRunOnce
<1>1. ASSUME CallsInv, NEW t \in Tasks, AtTop(t, "function"), Top(t).run \in called
      PROVE  /\ \A retryable \in BOOLEAN : Raise(t, retryable) => Len(frames'[t]) < Len(frames[t])
             /\ \A r \in Kinds, valid \in BOOLEAN : Return(t, r, valid) =>
                   recorded' = None /\ Len(frames'[t]) < Len(frames[t])
  <2>1. Inv /\ frames[t] # <<>> /\ Top(t).kind = "function"
    BY <1>1 DEF CallsInv, AtTop
  <2>2. ~Silent(Top(t))
    <3>1. Len(frames[t]) \in 1..Len(frames[t]) /\ Top(t) = frames[t][Len(frames[t])]
      BY <2>1, TopFacts
    <3> QED BY <1>1, <2>1, <3>1 DEF CallsInv, Marks, Silent
  <2>3. ASSUME NEW r \in Kinds \union {None}, Finish(t, r), UNCHANGED <<entered, spawner, around>>
        PROVE  Len(frames'[t]) < Len(frames[t])
    BY <2>1, <2>3, FinishSteps
  <2>4. ASSUME NEW retryable \in BOOLEAN, Raise(t, retryable)
        PROVE  Len(frames'[t]) < Len(frames[t])
    <3>1. Finish(t, None) /\ UNCHANGED <<entered, spawner, around>>
      BY <2>2, <2>4 DEF Raise, Retries
    <3> QED BY <2>3, <3>1
  <2>5. ASSUME NEW r \in Kinds, NEW valid \in BOOLEAN, Return(t, r, valid)
        PROVE  recorded' = None /\ Len(frames'[t]) < Len(frames[t])
    <3>1. recorded' = None
      BY <2>2, <2>5 DEF Return, Records
    <3>2. PICK q \in Kinds \union {None} : Finish(t, q)
      BY <2>2, <2>5 DEF Return, Revalidates
    <3>3. UNCHANGED <<entered, spawner, around>>
      BY <2>5 DEF Return
    <3> QED BY <2>3, <3>1, <3>2, <3>3
  <2> QED BY <2>4, <2>5
<1>2. CallsInv => \A t \in Tasks : AtTop(t, "function") /\ Top(t).run \in called =>
          /\ \A retryable \in BOOLEAN : Raise(t, retryable) => Len(frames'[t]) < Len(frames[t])
          /\ \A r \in Kinds, valid \in BOOLEAN : Return(t, r, valid) =>
                recorded' = None /\ Len(frames'[t]) < Len(frames[t])
  BY <1>1
<1> QED BY <1>2, CallsInvariance, PTL DEF CallersRunOnce
=============================================================================
