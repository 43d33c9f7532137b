--------------------------- MODULE InstrumentProofs ---------------------------
(***************************************************************************)
(* Proofs about Instrument, for any number of threads, any list of target  *)
(* modules that import each other in any way, and any number of imports    *)
(* and calls of uninstall.                                                 *)
(***************************************************************************)
EXTENDS Instrument, TLAPS

-----------------------------------------------------------------------------
(* The inductive invariant. *)

Ops == {"import", "body", "loaded", "loop", "patch", "ensure", "install"}
OfModule == {"import", "body", "loaded", "patch"}

Frames ==
    [op : Ops, module : Modules \union {None}, next : 0..(Len(Targets) + 1)]

Shapes ==
    /\ importer \in [Modules -> Threads \union {None}]
    /\ wrapped \in [Modules -> Nat]
    /\ patched \in SUBSET Modules
    /\ hooked \in SUBSET Modules
    /\ owner \in Threads \union {None}
    /\ stack \in [Threads -> Seq(Frames)]
    /\ loadedAt \in [Threads -> SUBSET Modules]
    /\ removed \in SUBSET Modules

WellFormed(f) ==
    /\ f.op \in OfModule => f.module \in Modules
    /\ f.op = "loop" => f.next \in 1..(Len(Targets) + 1)

\* What is executed within what: an import is innermost, it becomes the body of the
\* module, and within a body the modules it requires are imported; ensure_installed and
\* the hook run the loop over the targets, which patches the target it is at.
Within(f, g) ==
    \/ f.op \in {"install", "loaded"} /\ g.op = "loop" /\ g.next >= 1
    \/ f.op = "loop" /\ g.op = "patch" /\ f.next >= 2 /\ g.module = Targets[f.next - 1]
    \/ f.op = "patch" /\ g.op \in {"import", "body", "loaded"} /\ g.module = f.module
    \/ f.op = "body" /\ g.op \in {"import", "body", "loaded"}

WellStacked(s) ==
    /\ \A i \in 1..Len(s) : WellFormed(s[i])
    /\ Len(s) > 0 => s[1].op \notin {"loop", "patch"}
    /\ \A i \in 1..(Len(s) - 1) : Within(s[i], s[i + 1])

\* A module is being imported by the thread that has it on its stack, where it is once.
Owned(t, s) ==
    /\ \A i \in 1..Len(s) :
         /\ s[i].op = "body" => module[s[i].module] = "executing" /\ importer[s[i].module] = t
         /\ s[i].op = "loaded" => module[s[i].module] = "defined" /\ importer[s[i].module] = t
    /\ \A i, j \in 1..Len(s) :
         i # j /\ s[i].op \in {"body", "loaded"} /\ s[j].op \in {"body", "loaded"} =>
             s[i].module # s[j].module

\* The thread that holds _lock is the one in ensure_installed.
Locked(t, s) == owner = t <=> Len(s) > 0 /\ s[1].op = "install"

\* The modules that the loop within a frame has to see to: those that ensure_installed
\* found loaded, or the one the hook is for.
Due(t, f) ==
    IF f.op = "install" THEN loadedAt[t]
    ELSE IF f.op = "loaded" THEN {f.module} \cap (hooked \ removed) ELSE {}

\* The loop within s[i] is not past m yet, or is patching it.
Pending(s, i, m) ==
    /\ i + 1 <= Len(s)
    /\ \/ \E j \in s[i + 1].next..Len(Targets) : Targets[j] = m
       \/ i + 2 <= Len(s) /\ s[i + 2].module = m

Covered(t, s) ==
    \A i \in 1..Len(s) : \A m \in Due(t, s[i]) : m \in patched \/ Pending(s, i, m)

LoadedStays ==
    /\ \A m \in Modules : module[m] # "absent" => Root[m] \in packages
    /\ \A t \in Threads : \A m \in loadedAt[t] : module[m] = "loaded"

StackHolds(t) ==
    /\ stack[t] \in Seq(Frames) /\ WellStacked(stack[t])
    /\ Owned(t, stack[t]) /\ Locked(t, stack[t]) /\ Covered(t, stack[t])

Inv ==
    /\ TypeOK /\ Shapes /\ WrappedOnce /\ LoadedStays
    /\ \A t \in Threads : StackHolds(t)

-----------------------------------------------------------------------------
(* Stacks. *)

\* Every target is at some place of the list.
LEMMA TargetsAreListed ==
    /\ \A m \in Modules : \E j \in 1..Len(Targets) : Targets[j] = m
    /\ \A j \in 1..Len(Targets) : Targets[j] \in Modules
    /\ Len(Targets) \in Nat
<1>1. Targets \in Seq(Modules)
  BY InstrumentAssumption
<1>2. DOMAIN Targets = 1..Len(Targets) /\ Len(Targets) \in Nat
  BY <1>1
<1> QED BY <1>2 DEF Modules, ToSet

\* The frames that actions push.
LEMMA FramesAreFrames ==
    /\ \A m \in Modules :
         /\ Importing(m) \in Frames /\ WellFormed(Importing(m))
         /\ Importing(m).op = "import" /\ Importing(m).module = m
         /\ \A op \in {"body", "loaded", "patch"} :
              /\ [Importing(m) EXCEPT !.op = op] \in Frames
              /\ WellFormed([Importing(m) EXCEPT !.op = op])
              /\ [Importing(m) EXCEPT !.op = op].op = op
              /\ [Importing(m) EXCEPT !.op = op].module = m
    /\ \A i \in 1..(Len(Targets) + 1) :
         /\ Looping(i) \in Frames /\ WellFormed(Looping(i))
         /\ Looping(i).op = "loop" /\ Looping(i).next = i
    /\ \A op \in {"ensure", "install"} :
         Doing(op) \in Frames /\ WellFormed(Doing(op)) /\ Doing(op).op = op
BY TargetsAreListed DEF Importing, Looping, Doing, Frames, WellFormed, Ops, OfModule

\* An import is innermost, ensure_installed outermost; a loop is within ensure_installed
\* or an import that has the hook, and patches within it.
LEMMA StackFacts ==
    ASSUME NEW s \in Seq(Frames), WellStacked(s)
    PROVE  /\ \A i \in 1..(Len(s) - 1) : s[i].op \notin {"import", "ensure"}
           /\ \A i \in 2..Len(s) : s[i].op \notin {"ensure", "install"}
           /\ \A i \in 1..(Len(s) - 1) : s[i].op \in {"install", "loaded"} => s[i + 1].op = "loop"
           /\ \A i \in 1..(Len(s) - 1) : s[i].op = "loop" =>
                 s[i + 1].op = "patch" /\ s[i + 1].module = Targets[s[i].next - 1]
           /\ \A i \in 1..(Len(s) - 1) : s[i].op = "patch" => s[i + 1].module = s[i].module
           /\ \A i \in 1..Len(s) : s[i].op = "loop" => i > 1 /\ s[i - 1].op \in {"install", "loaded"}
           /\ \A i \in 1..Len(s) : s[i].op = "patch" => i > 1 /\ s[i - 1].op = "loop"
           /\ \A i \in 1..Len(s) : s[i] \in Frames /\ WellFormed(s[i])
<1>1. Len(s) \in Nat /\ \A i \in 1..Len(s) : s[i] \in Frames /\ WellFormed(s[i])
  BY DEF WellStacked
<1>2. \A i \in 1..(Len(s) - 1) : Within(s[i], s[i + 1])
  BY DEF WellStacked
<1>3. ASSUME NEW i \in 2..Len(s) PROVE Within(s[i - 1], s[i])
  <2>1. i - 1 \in 1..(Len(s) - 1) /\ (i - 1) + 1 = i
    BY <1>1
  <2> QED BY <1>2, <2>1
<1>4. \A i \in 1..(Len(s) - 1) : s[i].op \notin {"import", "ensure"}
  BY <1>2 DEF Within
<1>5. \A i \in 2..Len(s) : s[i].op \notin {"ensure", "install"}
  BY <1>3 DEF Within
<1>6. \A i \in 1..(Len(s) - 1) : s[i].op \in {"install", "loaded"} => s[i + 1].op = "loop"
  BY <1>2 DEF Within
<1>7. \A i \in 1..(Len(s) - 1) : s[i].op = "loop" =>
         s[i + 1].op = "patch" /\ s[i + 1].module = Targets[s[i].next - 1]
  BY <1>2 DEF Within
<1>8. \A i \in 1..(Len(s) - 1) : s[i].op = "patch" => s[i + 1].module = s[i].module
  BY <1>2 DEF Within
<1>9. ASSUME NEW i \in 1..Len(s), s[i].op \in {"loop", "patch"}
      PROVE  /\ i > 1
             /\ s[i].op = "loop" => s[i - 1].op \in {"install", "loaded"}
             /\ s[i].op = "patch" => s[i - 1].op = "loop"
  <2>1. i > 1
    BY <1>1, <1>9 DEF WellStacked
  <2>2. Within(s[i - 1], s[i])
    BY <1>1, <1>3, <2>1
  <2> QED BY <1>9, <2>1, <2>2 DEF Within
<1> QED BY <1>1, <1>4, <1>5, <1>6, <1>7, <1>8, <1>9

\* Frames may be taken off a stack.
LEMMA PrefixIsStacked ==
    ASSUME NEW s \in Seq(Frames), WellStacked(s), NEW u \in Seq(Frames),
           Len(u) <= Len(s), \A i \in 1..Len(u) : u[i] = s[i]
    PROVE  WellStacked(u)
<1>1. Len(s) \in Nat /\ Len(u) \in Nat
  OBVIOUS
<1>2. \A i \in 1..Len(u) : WellFormed(u[i])
  BY <1>1 DEF WellStacked
<1>3. \A i \in 1..(Len(u) - 1) : Within(u[i], u[i + 1])
  <2>1. ASSUME NEW i \in 1..(Len(u) - 1)
        PROVE  i \in 1..(Len(s) - 1) /\ i \in 1..Len(u) /\ i + 1 \in 1..Len(u)
    BY <1>1
  <2> QED BY <2>1 DEF WellStacked
<1>4. Len(u) > 0 => u[1].op \notin {"loop", "patch"}
  BY <1>1 DEF WellStacked
<1> QED BY <1>2, <1>3, <1>4 DEF WellStacked

\* The innermost frame may be replaced by one that fits where it was, and others put
\* within that one.
LEMMA ReplacedIsStacked ==
    ASSUME NEW s \in Seq(Frames), WellStacked(s), NEW u \in Seq(Frames),
           NEW n \in Nat, n = Len(s), n > 0, Len(u) >= n,
           \A i \in 1..(n - 1) : u[i] = s[i],
           \A i \in n..Len(u) : WellFormed(u[i]),
           n = 1 => u[n].op \notin {"loop", "patch"},
           n > 1 => Within(s[n - 1], u[n]),
           \A i \in n..(Len(u) - 1) : Within(u[i], u[i + 1])
    PROVE  WellStacked(u)
<1>1. Len(u) \in Nat
  OBVIOUS
<1>2. \A i \in 1..Len(u) : WellFormed(u[i])
  <2>1. ASSUME NEW i \in 1..Len(u)
        PROVE  (i \in 1..(n - 1) /\ i \in 1..Len(s)) \/ i \in n..Len(u)
    BY <1>1
  <2> QED BY <2>1 DEF WellStacked
<1>3. \A i \in 1..(Len(u) - 1) : Within(u[i], u[i + 1])
  <2>1. SUFFICES ASSUME NEW i \in 1..(Len(u) - 1) PROVE Within(u[i], u[i + 1])
    OBVIOUS
  <2>2. CASE i < n - 1
    <3>1. i \in 1..(n - 1) /\ i + 1 \in 1..(n - 1) /\ i \in 1..(Len(s) - 1)
      BY <1>1, <2>2
    <3> QED BY <3>1 DEF WellStacked
  <2>3. CASE i = n - 1
    <3>1. n > 1 /\ i \in 1..(n - 1) /\ i + 1 = n
      BY <1>1, <2>3
    <3> QED BY <2>3, <3>1
  <2>4. CASE i >= n
    <3>1. i \in n..(Len(u) - 1)
      BY <1>1, <2>4
    <3> QED BY <3>1
  <2> QED BY <1>1, <2>2, <2>3, <2>4
<1>4. u[1].op \notin {"loop", "patch"}
  <2>1. CASE n = 1
    BY <2>1
  <2>2. CASE n > 1
    <3>1. 1 \in 1..(n - 1)
      BY <2>2
    <3> QED BY <2>2, <3>1 DEF WellStacked
  <2> QED BY <2>1, <2>2
<1> QED BY <1>2, <1>3, <1>4 DEF WellStacked

\* What a loop has to see to has its classes.
LEMMA DueHasClass ==
    ASSUME Inv, NEW t \in Threads, NEW i \in 1..Len(stack[t]), NEW m \in Due(t, stack[t][i])
    PROVE  /\ stack[t][i].op \in {"install", "loaded"} /\ m \in Modules
           /\ HasClass(m) /\ Root[m] \in packages
           /\ module[m] = "loaded" \/ importer[m] = t
           /\ stack[t][i].op = "loaded" => stack[t][i].module = m
<1>1. /\ stack[t] \in Seq(Frames) /\ Owned(t, stack[t])
      /\ loadedAt[t] \subseteq Modules /\ LoadedStays
  BY DEF Inv, Shapes, StackHolds
<1>2. CASE stack[t][i].op = "install"
  <2>1. m \in loadedAt[t]
    BY <1>2 DEF Due
  <2> QED BY <1>1, <1>2, <2>1 DEF LoadedStays, HasClass
<1>3. CASE stack[t][i].op = "loaded"
  <2>1. m = stack[t][i].module /\ m \in Modules
    BY <1>3 DEF Due, Inv, Shapes
  <2>2. module[m] = "defined" /\ importer[m] = t
    BY <1>1, <1>3, <2>1 DEF Owned
  <2> QED BY <1>1, <1>3, <2>1, <2>2 DEF LoadedStays, HasClass
<1>4. stack[t][i].op \in {"install", "loaded"}
  BY DEF Due
<1> QED BY <1>2, <1>3, <1>4

\* Within a frame of an import there is no loop, so all loops are further out.
LEMMA InnerIsFree ==
    ASSUME Inv, NEW t \in Threads, NEW n \in Nat, n = Len(stack[t]), n > 0,
           stack[t][n].op \in {"import", "body", "loaded"},
           NEW i \in 1..(n - 1), Due(t, stack[t][i]) # {}
    PROVE  i + 2 <= n - 1
<1> DEFINE s == stack[t]
<1>1. s \in Seq(Frames) /\ WellStacked(s)
  BY DEF Inv, Shapes, StackHolds
<1>2. s[i].op \in {"install", "loaded"}
  BY DEF Due
<1>3. s[i + 1].op = "loop"
  BY <1>1, <1>2, StackFacts
<1>4. i + 1 # n
  BY <1>3
<1>5. i + 1 \in 1..(n - 1)
  BY <1>4
<1>6. s[i + 2].op = "patch"
  <2>1. s[(i + 1) + 1].op = "patch"
    <3>1. n = Len(s)
      OBVIOUS
    <3> HIDE DEF s
    <3> QED BY <1>1, <1>3, <1>5, <3>1, StackFacts
  <2> QED BY <2>1
<1> QED BY <1>5, <1>6

\* What a loop sees to, it still does after a step that leaves the k outermost frames and
\* removes no wrapper, if the patch it is at is among those frames.
LEMMA StillCovered ==
    ASSUME Inv, NEW t \in Threads, NEW u \in Seq(Frames),
           NEW k \in 0..Len(stack[t]), k <= Len(u),
           \A j \in 1..k : u[j] = stack[t][j],
           patched \subseteq patched',
           NEW i \in 1..k, NEW m \in Due(t, stack[t][i]), i + 2 <= k
    PROVE  m \in patched' \/ Pending(u, i, m)
<1> DEFINE s == stack[t]
<1>1. s \in Seq(Frames) /\ Covered(t, s)
  BY DEF Inv, Shapes, StackHolds
<1>2. Len(s) \in Nat /\ Len(u) \in Nat /\ i \in 1..Len(s)
  BY <1>1
<1>3. m \in patched \/ Pending(s, i, m)
  BY <1>1, <1>2 DEF Covered
<1>4. u[i + 1] = s[i + 1] /\ u[i + 2] = s[i + 2]
  BY <1>2
<1> QED BY <1>2, <1>3, <1>4 DEF Pending

\* A step of one thread leaves the stack of another one right, if it leaves the modules
\* that are imported there, and removes no wrapper.
LEMMA OthersHold ==
    ASSUME Inv, NEW t \in Threads, stack'[t] = stack[t], loadedAt'[t] = loadedAt[t],
           owner' = t <=> owner = t, patched \subseteq patched',
           \A m \in Modules : importer[m] = t =>
               /\ importer'[m] = t /\ module'[m] = module[m]
               /\ m \in hooked' \ removed' => m \in hooked \ removed
    PROVE  StackHolds(t)'
<1> DEFINE s == stack[t]
<1>1. /\ s \in Seq(Frames) /\ WellStacked(s) /\ Owned(t, s) /\ Locked(t, s) /\ Covered(t, s)
      /\ stack'[t] = s
  BY DEF Inv, Shapes, StackHolds
<1>2. \A i \in 1..Len(s) : s[i].op \in {"body", "loaded"} => s[i].module \in Modules
  BY <1>1 DEF WellStacked, WellFormed, OfModule
<1>4. WellStacked(stack'[t]) /\ Locked(t, stack[t])'
  BY <1>1 DEF Locked
<1>5. Owned(t, stack[t])'
  BY <1>1, <1>2 DEF Owned
<1>6. Covered(t, stack[t])'
  <2>1. ASSUME NEW i \in 1..Len(s), NEW m \in Due(t, s[i])'
        PROVE  m \in patched' \/ Pending(s, i, m)
    <3>1. m \in Due(t, s[i])
      <4>1. CASE s[i].op = "install"
        BY <2>1, <4>1 DEF Due
      <4>2. CASE s[i].op = "loaded"
        <5>1. s[i].module \in Modules /\ importer[s[i].module] = t
          BY <1>1, <1>2, <4>2 DEF Owned
        <5> QED BY <2>1, <4>2, <5>1 DEF Due
      <4>3. CASE s[i].op \notin {"install", "loaded"}
        BY <2>1, <4>3 DEF Due
      <4> QED BY <4>1, <4>2, <4>3
    <3> QED BY <1>1, <3>1 DEF Covered
  <2> QED BY <1>1, <2>1 DEF Covered
<1> QED BY <1>1, <1>4, <1>5, <1>6 DEF StackHolds, WellStacked

\* A thread takes the innermost frames off its stack: an import that is over, with the
\* patch it was for if it has failed and that patch is not of a module that is due.
LEMMA CutHolds ==
    ASSUME Inv, NEW t \in Threads, NEW n \in Nat, n = Len(stack[t]), n > 0,
           stack[t][n].op \in {"import", "body", "loaded"},
           NEW k \in 0..(n - 1), stack'[t] = SubSeq(stack[t], 1, k),
           \/ k = n - 1
           \/ /\ k = n - 2 /\ stack[t][n - 1].op = "patch"
              /\ \A i \in 1..(n - 1) : stack[t][n].module \notin Due(t, stack[t][i]),
           patched' = patched, loadedAt' = loadedAt, owner' = owner, hooked' = hooked,
           removed' = removed,
           \A i \in 1..(n - 1) : stack[t][i].op \in {"body", "loaded"} =>
               /\ module'[stack[t][i].module] = module[stack[t][i].module]
               /\ importer'[stack[t][i].module] = importer[stack[t][i].module]
    PROVE  StackHolds(t)'
<1> DEFINE s == stack[t]
           u == SubSeq(s, 1, k)
<1>1. /\ s \in Seq(Frames) /\ WellStacked(s) /\ Owned(t, s) /\ Locked(t, s) /\ Covered(t, s)
      /\ Len(s) = n
  BY DEF Inv, Shapes, StackHolds
<1>2. u \in Seq(Frames) /\ Len(u) = k /\ \A i \in 1..k : u[i] = s[i]
  BY <1>1
<1>3. stack'[t] = u
  OBVIOUS
<1> HIDE DEF u
<1>4. WellStacked(stack'[t])
  <2> HIDE DEF s
  <2>1. Len(u) <= Len(s) /\ \A i \in 1..Len(u) : u[i] = s[i]
    BY <1>1, <1>2
  <2>2. WellStacked(u)
    BY <1>1, <1>2, <2>1, PrefixIsStacked
  <2> QED BY <1>3, <2>2
<1>5. Owned(t, stack[t])'
  <2>1. ASSUME NEW i \in 1..k
        PROVE  /\ u[i].op = "body" =>
                     module'[u[i].module] = "executing" /\ importer'[u[i].module] = t
               /\ u[i].op = "loaded" =>
                     module'[u[i].module] = "defined" /\ importer'[u[i].module] = t
    <3>1. i \in 1..(n - 1) /\ i \in 1..Len(s) /\ u[i] = s[i]
      BY <1>1, <1>2
    <3> QED BY <1>1, <3>1 DEF Owned
  <2>2. ASSUME NEW i \in 1..k, NEW j \in 1..k, i # j, u[i].op \in {"body", "loaded"},
               u[j].op \in {"body", "loaded"}
        PROVE  u[i].module # u[j].module
    <3>1. i \in 1..Len(s) /\ u[i] = s[i] /\ j \in 1..Len(s) /\ u[j] = s[j]
      BY <1>1, <1>2
    <3> QED BY <1>1, <2>2, <3>1 DEF Owned
  <2> QED BY <1>2, <1>3, <2>1, <2>2 DEF Owned
<1>6. Locked(t, stack[t])'
  <2>1. CASE k > 0
    <3>1. 1 \in 1..k
      BY <2>1
    <3> QED BY <1>1, <1>2, <1>3, <2>1, <3>1 DEF Locked
  <2>2. CASE k = 0
    <3>1. s[1].op # "install"
      <4>1. CASE n = 1
        BY <4>1
      <4>2. CASE n # 1
        BY <1>1, <2>2, <4>2 DEF WellStacked
      <4> QED BY <4>1, <4>2
    <3> QED BY <1>1, <1>2, <1>3, <2>2, <3>1 DEF Locked
  <2> QED BY <2>1, <2>2
<1>7. ASSUME NEW i \in 1..k, NEW m \in Due(t, s[i])
      PROVE  m \in patched' \/ Pending(u, i, m)
  <2>1. i \in 1..(n - 1) /\ Due(t, stack[t][i]) # {}
    BY <1>7
  <2>2. i + 2 <= n - 1
    BY <2>1, InnerIsFree
  <2>3. CASE i + 2 <= k
    <3>1. k \in 0..Len(stack[t]) /\ k <= Len(u) /\ patched \subseteq patched'
      BY <1>2
    <3> QED BY <1>2, <1>7, <2>3, <3>1, StillCovered
  <2>4. CASE ~(i + 2 <= k)
    <3>1. k = n - 2 /\ i + 2 = n - 1 /\ s[n - 1].op = "patch" /\ i + 1 = k
      BY <2>2, <2>4
    <3>2. s[n - 1].module = s[n].module
      <4>1. n - 1 \in 1..(Len(s) - 1) /\ (n - 1) + 1 = n
        BY <1>1, <2>1, <3>1
      <4>2. s[(n - 1) + 1].module = s[n - 1].module
        <5> HIDE DEF s
        <5> QED BY <1>1, <3>1, <4>1, StackFacts
      <4> QED BY <4>1, <4>2
    <3>3. s[i + 2].module # m
      BY <1>7, <2>1, <3>1, <3>2
    <3>4. m \in patched \/ Pending(s, i, m)
      BY <1>1, <1>7, <2>1 DEF Covered
    <3>5. u[i + 1] = s[i + 1]
      <4>1. i + 1 \in 1..k
        BY <3>1
      <4> QED BY <1>2, <4>1
    <3> QED BY <1>2, <3>1, <3>3, <3>4, <3>5 DEF Pending
  <2> QED BY <2>3, <2>4
<1>8. Covered(t, stack[t])'
  <2>1. ASSUME NEW i \in 1..k, NEW m \in Due(t, s[i])'
        PROVE  m \in patched' \/ Pending(u, i, m)
    <3>1. m \in Due(t, s[i])
      BY <2>1 DEF Due
    <3> QED BY <1>7, <3>1
  <2> QED BY <1>2, <1>3, <2>1 DEF Covered
<1> QED BY <1>2, <1>3, <1>4, <1>5, <1>6, <1>8 DEF StackHolds, WellStacked

\* The innermost frame.
LEMMA TopIsAFrame ==
    ASSUME Inv, NEW t \in Threads, ~Idle(t)
    PROVE  /\ Len(stack[t]) \in Nat \ {0} /\ Len(stack[t]) > 0
           /\ Top(t) = stack[t][Len(stack[t])] /\ WellFormed(Top(t))
           /\ Top(t).op \in OfModule => Top(t).module \in Modules
           /\ Front(stack[t]) = SubSeq(stack[t], 1, Len(stack[t]) - 1)
           /\ stack[t] \in Seq(Frames) /\ WellStacked(stack[t])
           /\ Owned(t, stack[t]) /\ Locked(t, stack[t]) /\ Covered(t, stack[t])
<1>1. stack[t] \in Seq(Frames) /\ stack[t] # <<>>
  BY DEF Inv, Shapes, Idle
<1>2. Len(stack[t]) \in Nat \ {0}
  BY <1>1
<1>3. /\ WellStacked(stack[t]) /\ Owned(t, stack[t]) /\ Locked(t, stack[t])
      /\ Covered(t, stack[t])
  BY DEF Inv, StackHolds
<1>4. Top(t) = stack[t][Len(stack[t])] /\ WellFormed(Top(t))
  BY <1>2, <1>3 DEF Top, Last, WellStacked
<1> QED BY <1>1, <1>2, <1>3, <1>4 DEF WellFormed, Front

\* The modules further out on a stack are not the innermost one, when that one is on it
\* for its own import, and none of them is free to be imported.
LEMMA OuterModulesDiffer ==
    ASSUME Inv, NEW t \in Threads, NEW n \in Nat, n = Len(stack[t]), n > 0,
           NEW i \in 1..(n - 1), stack[t][i].op \in {"body", "loaded"}
    PROVE  /\ stack[t][i].module \in Modules
           /\ importer[stack[t][i].module] = t
           /\ module[stack[t][i].module] \in {"executing", "defined"}
           /\ stack[t][n].op \in {"body", "loaded"} => stack[t][i].module # stack[t][n].module
<1>1. /\ stack[t] \in Seq(Frames) /\ WellStacked(stack[t]) /\ Owned(t, stack[t])
      /\ i \in 1..Len(stack[t]) /\ n \in 1..Len(stack[t]) /\ i # n
  BY DEF Inv, Shapes, StackHolds
<1>2. stack[t][i].module \in Modules
  BY <1>1 DEF WellStacked, WellFormed, OfModule
<1> QED BY <1>1, <1>2 DEF Owned

\* A thread that has the module it wants, gives it up, fails to import it or ends its
\* import leaves its stack right.
LEMMA ImportOverHolds ==
    ASSUME Inv, NEW t \in Threads,
           ImportHas(t) \/ ImportGivesUp(t) \/ ImportFails(t) \/ ImportEnds(t)
    PROVE  StackHolds(t)'
<1> DEFINE s == stack[t]
           n == Len(s)
           m == Top(t).module
<1>1. /\ ~Idle(t) /\ Top(t).op \in {"import", "body", "loaded"}
      /\ patched' = patched /\ loadedAt' = loadedAt /\ owner' = owner /\ hooked' = hooked
      /\ removed' = removed
  BY DEF ImportHas, ImportGivesUp, ImportFails, ImportEnds, At, python
<1>2. /\ n \in Nat /\ n > 0 /\ Top(t) = s[n] /\ s \in Seq(Frames) /\ WellStacked(s)
      /\ m \in Modules /\ Front(s) = SubSeq(s, 1, n - 1) /\ Owned(t, s)
  BY <1>1, TopIsAFrame DEF OfModule
<1>3. n - 1 \in 0..(n - 1) /\ (n > 1 => n - 2 \in 0..(n - 1))
  BY <1>2
<1>4. ASSUME NEW i \in 1..(n - 1), s[i].op \in {"body", "loaded"}
      PROVE  /\ module'[s[i].module] = module[s[i].module]
             /\ importer'[s[i].module] = importer[s[i].module]
  <2>1. /\ s[i].module \in Modules
        /\ s[n].op \in {"body", "loaded"} => s[i].module # s[n].module
    BY <1>2, <1>4, OuterModulesDiffer
  <2>2. CASE UNCHANGED <<module, importer>>
    BY <2>2
  <2>3. CASE /\ s[n].op \in {"body", "loaded"}
             /\ \E value : module' = [module EXCEPT ![m] = value]
             /\ importer' = [importer EXCEPT ![m] = None]
    BY <1>2, <2>1, <2>3 DEF Inv, TypeOK, Shapes
  <2> QED BY <1>2, <2>2, <2>3 DEF ImportHas, ImportGivesUp, ImportFails, ImportEnds, At, python
<1>5. CASE ImportHas(t) \/ ImportEnds(t)
  <2>1. stack'[t] = SubSeq(s, 1, n - 1)
    BY <1>2, <1>5 DEF ImportHas, ImportEnds, Pop, Inv, Shapes
  <2> HIDE DEF n, s
  <2> QED BY <1>1, <1>2, <1>3, <1>4, <2>1, CutHolds DEF n, s
<1>6. CASE ImportGivesUp(t) \/ ImportFails(t)
  <2>1. stack'[t] = Abandoned(s)
    BY <1>6 DEF ImportGivesUp, ImportFails, Inv, Shapes
  <2>2. CASE n > 1 /\ s[n - 1].op = "patch"
    <3>1. stack'[t] = SubSeq(s, 1, n - 2)
      BY <2>1, <2>2 DEF Abandoned
    <3>2. ASSUME NEW i \in 1..(n - 1)
          PROVE  s[n].module \notin Due(t, s[i])
      <4>0. i \in 1..Len(stack[t])
        BY <1>2
      <4>1. SUFFICES ASSUME m \in Due(t, s[i]) PROVE FALSE
        BY <1>2
      <4>2. /\ s[i].op \in {"install", "loaded"} /\ HasClass(m)
            /\ module[m] = "loaded" \/ importer[m] = t
            /\ s[i].op = "loaded" => s[i].module = m
        BY <4>0, <4>1, DueHasClass
      <4>3. CASE ImportGivesUp(t)
        <5>1. importer[m] \notin {t, None}
          BY <4>3 DEF ImportGivesUp, WaitsFor
        <5> QED BY <1>2, <4>2, <5>1 DEF Inv, TypeOK
      <4>4. CASE ImportFails(t)
        <5>1. s[n].op = "body"
          BY <1>2, <4>4 DEF ImportFails, At
        <5>2. module[m] = "executing"
          BY <1>2, <5>1 DEF Owned
        <5> QED BY <4>2, <5>2 DEF HasClass
      <4> QED BY <1>6, <4>3, <4>4
    <3> HIDE DEF n, s
    <3> QED BY <1>1, <1>2, <1>3, <1>4, <2>2, <3>1, <3>2, CutHolds DEF n, s
  <2>3. CASE ~(n > 1 /\ s[n - 1].op = "patch")
    <3>1. stack'[t] = SubSeq(s, 1, n - 1)
      BY <1>2, <2>1, <2>3 DEF Abandoned
    <3> HIDE DEF n, s
    <3> QED BY <1>1, <1>2, <1>3, <1>4, <3>1, CutHolds DEF n, s
  <2> QED BY <2>2, <2>3
<1> QED BY <1>5, <1>6

\* The frames of a prefix of a stack.
LEMMA Prefix ==
    ASSUME NEW s \in Seq(Frames), NEW k \in 0..Len(s), NEW p, p = SubSeq(s, 1, k)
    PROVE  p \in Seq(Frames) /\ Len(p) = k /\ \A i \in 1..k : p[i] = s[i]
OBVIOUS

\* The frames of two stacks put together.
LEMMA Joined ==
    ASSUME NEW p \in Seq(Frames), NEW q \in Seq(Frames)
    PROVE  /\ p \o q \in Seq(Frames) /\ Len(p \o q) = Len(p) + Len(q)
           /\ \A i \in 1..Len(p) : (p \o q)[i] = p[i]
           /\ \A j \in 1..Len(q) : (p \o q)[Len(p) + j] = q[j]
OBVIOUS

\* A stack whose innermost frame is replaced, and others put within it.
LEMMA Replaced ==
    ASSUME NEW s \in Seq(Frames), Len(s) > 0, NEW f \in Frames, NEW tail \in Seq(Frames)
    PROVE  /\ (Front(s) \o <<f>>) \o tail \in Seq(Frames)
           /\ Len((Front(s) \o <<f>>) \o tail) = Len(s) + Len(tail)
           /\ \A i \in 1..(Len(s) - 1) : ((Front(s) \o <<f>>) \o tail)[i] = s[i]
           /\ ((Front(s) \o <<f>>) \o tail)[Len(s)] = f
           /\ \A j \in 1..Len(tail) : ((Front(s) \o <<f>>) \o tail)[Len(s) + j] = tail[j]
<1> DEFINE n == Len(s)
           p == Front(s)
           v == p \o <<f>>
           u == v \o tail
<1>0. n \in Nat /\ n > 0 /\ n = Len(s)
  OBVIOUS
<1> HIDE DEF n
<1>1. p \in Seq(Frames) /\ Len(p) = n - 1 /\ \A i \in 1..(n - 1) : p[i] = s[i]
  <2>1. n - 1 \in 0..Len(s) /\ p = SubSeq(s, 1, n - 1)
    BY <1>0 DEF Front
  <2> HIDE DEF p
  <2> QED BY <2>1, Prefix
<1>2. <<f>> \in Seq(Frames) /\ Len(<<f>>) = 1 /\ <<f>>[1] = f /\ 1 \in 1..1
  OBVIOUS
<1> HIDE DEF p
<1>3. /\ v \in Seq(Frames) /\ Len(v) = n
      /\ \A i \in 1..(n - 1) : v[i] = p[i]
      /\ v[n] = f
  <2>1. /\ v \in Seq(Frames) /\ Len(v) = Len(p) + Len(<<f>>)
        /\ \A i \in 1..Len(p) : v[i] = p[i]
        /\ \A j \in 1..Len(<<f>>) : v[Len(p) + j] = <<f>>[j]
    BY <1>1, <1>2, Joined
  <2> HIDE DEF v
  <2>2. (n - 1) + 1 = n
    BY <1>0
  <2> QED BY <1>0, <1>1, <1>2, <2>1, <2>2
<1>4. u = v \o tail
  OBVIOUS
<1> HIDE DEF v
<1>5. /\ u \in Seq(Frames) /\ Len(u) = Len(v) + Len(tail)
      /\ \A i \in 1..Len(v) : u[i] = v[i]
      /\ \A j \in 1..Len(tail) : u[Len(v) + j] = tail[j]
  <2>1. /\ v \o tail \in Seq(Frames) /\ Len(v \o tail) = Len(v) + Len(tail)
        /\ \A i \in 1..Len(v) : (v \o tail)[i] = v[i]
        /\ \A j \in 1..Len(tail) : (v \o tail)[Len(v) + j] = tail[j]
    BY <1>3, Joined
  <2> QED BY <1>4, <2>1
<1> HIDE DEF u
<1>6. \A i \in 1..(n - 1) : i \in 1..n /\ u[i] = s[i]
  BY <1>0, <1>1, <1>3, <1>5
<1>7. n \in 1..n /\ u[n] = f
  <2>1. n \in 1..Len(v)
    BY <1>0, <1>3
  <2> QED BY <1>0, <1>3, <1>5, <2>1
<1>8. /\ u \in Seq(Frames) /\ Len(u) = n + Len(tail)
      /\ \A i \in 1..(n - 1) : u[i] = s[i]
      /\ u[n] = f
      /\ \A j \in 1..Len(tail) : u[n + j] = tail[j]
  BY <1>3, <1>5, <1>6, <1>7
<1> QED BY <1>8 DEF n, u, v, p

\* ... and is as it should be, if what is put on it fits.
LEMMA ReplacedStack ==
    ASSUME NEW s \in Seq(Frames), WellStacked(s), NEW n \in Nat, n = Len(s), n > 0,
           NEW u \in Seq(Frames), NEW d \in {0, 1, 2}, Len(u) = n + d,
           \A i \in 1..(n - 1) : u[i] = s[i],
           WellFormed(u[n]),
           n = 1 => u[n].op \notin {"loop", "patch"},
           n > 1 => Within(s[n - 1], u[n]),
           d >= 1 => WellFormed(u[n + 1]) /\ Within(u[n], u[n + 1]),
           d = 2 => WellFormed(u[n + 2]) /\ Within(u[n + 1], u[n + 2])
    PROVE  WellStacked(u)
<1>1. \A i \in n..Len(u) : WellFormed(u[i])
  <2>1. ASSUME NEW i \in n..Len(u)
        PROVE  i = n \/ (i = n + 1 /\ d >= 1) \/ (i = n + 2 /\ d = 2)
    OBVIOUS
  <2> QED BY <2>1
<1>2. \A i \in n..(Len(u) - 1) : Within(u[i], u[i + 1])
  <2>1. ASSUME NEW i \in n..(Len(u) - 1)
        PROVE  (i = n /\ d >= 1) \/ (i = n + 1 /\ i + 1 = n + 2 /\ d = 2)
    OBVIOUS
  <2> QED BY <2>1
<1>3. Len(u) >= n
  OBVIOUS
<1> QED BY <1>1, <1>2, <1>3, ReplacedIsStacked

Imported == {"body", "loaded"}

\* A stack that keeps the k outermost frames, with at most one import more that runs in
\* the frame after them, has the modules that it should.
LEMMA OwnedAfter ==
    ASSUME NEW t, NEW s \in Seq(Frames), Owned(t, s), NEW u \in Seq(Frames),
           NEW k \in 0..Len(s), k <= Len(u),
           \A i \in 1..k :
               /\ u[i] = s[i]
               /\ s[i].op \in Imported =>
                      /\ module'[s[i].module] = module[s[i].module]
                      /\ importer'[s[i].module] = importer[s[i].module],
           \A i \in (k + 1)..Len(u) : u[i].op \in Imported =>
               /\ i = k + 1
               /\ module'[u[i].module] = IF u[i].op = "body" THEN "executing" ELSE "defined"
               /\ importer'[u[i].module] = t
               /\ \A j \in 1..k : s[j].op \in Imported => s[j].module # u[i].module
    PROVE  Owned(t, u)'
<1>1. Len(s) \in Nat /\ Len(u) \in Nat
  OBVIOUS
<1>2. ASSUME NEW i \in 1..Len(u)
      PROVE  (i \in 1..k /\ i \in 1..Len(s)) \/ i \in (k + 1)..Len(u)
  BY <1>1
<1>3. ASSUME NEW i \in 1..Len(u), u[i].op \in Imported
      PROVE  /\ module'[u[i].module] = IF u[i].op = "body" THEN "executing" ELSE "defined"
             /\ importer'[u[i].module] = t
  <2>1. CASE i \in 1..k /\ i \in 1..Len(s)
    <3>1. /\ s[i].op = "body" => module[s[i].module] = "executing" /\ importer[s[i].module] = t
          /\ s[i].op = "loaded" => module[s[i].module] = "defined" /\ importer[s[i].module] = t
      BY <2>1 DEF Owned
    <3> QED BY <1>3, <2>1, <3>1 DEF Imported
  <2>2. CASE i \in (k + 1)..Len(u)
    BY <1>3, <2>2
  <2> QED BY <1>2, <2>1, <2>2
<1>4. ASSUME NEW i \in 1..Len(u), NEW j \in 1..Len(u), i # j,
             u[i].op \in Imported, u[j].op \in Imported
      PROVE  u[i].module # u[j].module
  <2>1. i \in 1..k \/ i = k + 1
    BY <1>2, <1>4
  <2>2. j \in 1..k \/ j = k + 1
    BY <1>2, <1>4
  <2>3. CASE i \in 1..k /\ j \in 1..k
    <3>1. i \in 1..Len(s) /\ j \in 1..Len(s) /\ u[i] = s[i] /\ u[j] = s[j]
      BY <1>1, <2>3
    <3> QED BY <1>4, <3>1 DEF Owned, Imported
  <2>4. CASE i \in 1..k /\ j = k + 1
    <3>1. j \in (k + 1)..Len(u) /\ u[i] = s[i]
      BY <1>1, <2>4
    <3> QED BY <1>4, <2>4, <3>1
  <2>5. CASE j \in 1..k /\ i = k + 1
    <3>1. i \in (k + 1)..Len(u) /\ u[j] = s[j]
      BY <1>1, <2>5
    <3> QED BY <1>4, <2>5, <3>1
  <2> QED BY <1>4, <2>1, <2>2, <2>3, <2>4, <2>5
<1> QED BY <1>3, <1>4 DEF Owned, Imported

\* A thread is still in ensure_installed, or still not, if the outermost frame stays.
LEMMA LockedAfter ==
    ASSUME NEW t, NEW s \in Seq(Frames), Locked(t, s), Len(s) > 0,
           NEW u \in Seq(Frames), Len(u) > 0, owner' = owner,
           u[1].op = "install" <=> s[1].op = "install"
    PROVE  Locked(t, u)'
BY DEF Locked

\* The loops further out than an import still see to what they have to, whatever is put
\* in place of the import.
LEMMA OuterCovered ==
    ASSUME Inv, NEW t \in Threads, NEW n \in Nat, n = Len(stack[t]), n > 0,
           stack[t][n].op \in {"import", "body", "loaded"},
           NEW u \in Seq(Frames), n - 1 <= Len(u),
           \A j \in 1..(n - 1) : u[j] = stack[t][j],
           patched \subseteq patched', loadedAt'[t] = loadedAt[t],
           \A j \in 1..(n - 1) : stack[t][j].op = "loaded" /\ stack[t][j].module \in Modules =>
               (stack[t][j].module \in hooked' \ removed' =>
                    stack[t][j].module \in hooked \ removed),
           NEW i \in 1..(n - 1), NEW x \in Due(t, u[i])'
    PROVE  x \in patched' \/ Pending(u, i, x)
<1>1. u[i] = stack[t][i] /\ stack[t] \in Seq(Frames) /\ WellStacked(stack[t])
  BY DEF Inv, Shapes, StackHolds
<1>2. x \in Due(t, stack[t][i])
  <2>1. CASE u[i].op = "install"
    BY <1>1, <2>1 DEF Due
  <2>2. CASE u[i].op = "loaded"
    <3>1. stack[t][i].module \in Modules
      BY <1>1, <2>2 DEF WellStacked, WellFormed, OfModule
    <3> QED BY <1>1, <2>2, <3>1 DEF Due
  <2>3. CASE u[i].op \notin {"install", "loaded"}
    BY <2>3 DEF Due
  <2> QED BY <2>1, <2>2, <2>3
<1>3. i + 2 <= n - 1
  BY <1>2, InnerIsFree
<1>4. n - 1 \in 0..Len(stack[t])
  OBVIOUS
<1> QED BY <1>2, <1>3, <1>4, StillCovered

\* Finding a module puts its body where its import was, and what it requires within.
LEMMA ImportFindsHolds ==
    ASSUME Inv, NEW t \in Threads, ImportFinds(t)
    PROVE  StackHolds(t)'
<1> DEFINE m == Top(t).module
           f == [Importing(m) EXCEPT !.op = "body"]
           tail == IF Requires[m] = None THEN <<>> ELSE <<Importing(Requires[m])>>
<1>1. /\ ~Idle(t) /\ Top(t).op = "import" /\ module[m] = "absent" /\ importer[m] = None
      /\ module' = [module EXCEPT ![m] = "executing"]
      /\ importer' = [importer EXCEPT ![m] = t]
      /\ hooked' = IF hook THEN hooked \union {m} ELSE hooked \ {m}
      /\ removed' = removed \ {m}
      /\ patched' = patched /\ owner' = owner /\ loadedAt' = loadedAt
  BY DEF ImportFinds, At
<1>2. PICK s, n, u : s = stack[t] /\ n = Len(s) /\ u = stack'[t]
  OBVIOUS
<1>3. /\ n \in Nat /\ n > 0 /\ Top(t) = s[n] /\ s \in Seq(Frames) /\ WellStacked(s)
      /\ m \in Modules /\ Owned(t, s) /\ Locked(t, s)
  BY <1>1, <1>2, TopIsAFrame DEF OfModule
<1>4. /\ f \in Frames /\ WellFormed(f) /\ f.op = "body" /\ f.module = m
  BY <1>3, FramesAreFrames
<1>5. PICK d \in {0, 1} :
        /\ tail \in Seq(Frames) /\ Len(tail) = d
        /\ d = 1 => WellFormed(tail[1]) /\ tail[1].op = "import"
  <2>1. CASE Requires[m] = None
    BY <2>1
  <2>2. CASE Requires[m] # None
    <3>1. Requires[m] \in Modules
      BY <1>3, <2>2, InstrumentAssumption
    <3>2. /\ Importing(Requires[m]) \in Frames /\ WellFormed(Importing(Requires[m]))
          /\ Importing(Requires[m]).op = "import"
      BY <3>1, FramesAreFrames
    <3>3. tail = <<Importing(Requires[m])>>
      BY <2>2
    <3> HIDE DEF tail
    <3> QED BY <3>2, <3>3
  <2> QED BY <2>1, <2>2
<1>6. u = (Front(s) \o <<f>>) \o tail
  BY <1>2 DEF ImportFinds, Inv, Shapes
<1> HIDE DEF f, tail, m
<1>7. /\ u \in Seq(Frames) /\ Len(u) = n + d
      /\ \A i \in 1..(n - 1) : u[i] = s[i]
      /\ u[n] = f /\ (d = 1 => u[n + 1] = tail[1])
  <2>1. /\ u \in Seq(Frames) /\ Len(u) = n + Len(tail)
        /\ \A i \in 1..(n - 1) : u[i] = s[i]
        /\ u[n] = f
        /\ \A j \in 1..Len(tail) : u[n + j] = tail[j]
    <3>1. n = Len(s) /\ n \in Nat /\ n > 0 /\ s \in Seq(Frames)
      BY <1>2, <1>3
    <3>2. f \in Frames /\ tail \in Seq(Frames)
      BY <1>4, <1>5
    <3>3. /\ (Front(s) \o <<f>>) \o tail \in Seq(Frames)
          /\ Len((Front(s) \o <<f>>) \o tail) = Len(s) + Len(tail)
          /\ \A i \in 1..(Len(s) - 1) : ((Front(s) \o <<f>>) \o tail)[i] = s[i]
          /\ ((Front(s) \o <<f>>) \o tail)[Len(s)] = f
          /\ \A j \in 1..Len(tail) : ((Front(s) \o <<f>>) \o tail)[Len(s) + j] = tail[j]
      BY <3>1, <3>2, Replaced
    <3> QED BY <1>6, <3>1, <3>3
  <2>2. d = 1 => 1 \in 1..Len(tail)
    BY <1>5
  <2> QED BY <1>5, <2>1, <2>2
<1>8. WellStacked(u)
  <2>1. n > 1 => Within(s[n - 1], u[n])
    <3>1. SUFFICES ASSUME n > 1 PROVE Within(s[n - 1], u[n])
      OBVIOUS
    <3>2. n - 1 \in 1..(n - 1) /\ (n - 1) + 1 = n
      BY <1>3, <3>1
    <3>3. Within(s[n - 1], s[n])
      BY <1>2, <1>3, <3>2 DEF WellStacked
    <3> QED BY <1>1, <1>3, <1>4, <1>7, <3>3 DEF Within, m
  <2>2. d = 1 => WellFormed(u[n + 1]) /\ Within(u[n], u[n + 1])
    BY <1>4, <1>5, <1>7 DEF Within
  <2>3. WellFormed(u[n]) /\ u[n].op \notin {"loop", "patch"} /\ d \in {0, 1, 2} /\ d # 2
    BY <1>4, <1>7
  <2>4. n = Len(s) /\ n \in Nat /\ n > 0 /\ s \in Seq(Frames) /\ WellStacked(s)
    BY <1>2, <1>3
  <2>5. u \in Seq(Frames) /\ Len(u) = n + d /\ \A i \in 1..(n - 1) : u[i] = s[i]
    BY <1>7
  <2>6. d >= 1 => d = 1
    OBVIOUS
  <2> QED BY <2>1, <2>2, <2>3, <2>4, <2>5, <2>6, ReplacedStack
<1>9. ASSUME NEW i \in 1..(n - 1), s[i].op \in Imported
      PROVE  s[i].module \in Modules /\ s[i].module # m
  <2>1. s[i].module \in Modules /\ importer[s[i].module] = t
    BY <1>2, <1>3, <1>9, OuterModulesDiffer DEF Imported
  <2>2. t # None
    BY InstrumentAssumption
  <2> QED BY <1>1, <2>1, <2>2
<1>10. importer \in [Modules -> Threads \union {None}] /\ DOMAIN module = Modules
  BY DEF Inv, Shapes, TypeOK
<1>11. Owned(t, u)'
  <2>1. \A i \in 1..(n - 1) :
          /\ u[i] = s[i]
          /\ s[i].op \in Imported =>
                /\ module'[s[i].module] = module[s[i].module]
                /\ importer'[s[i].module] = importer[s[i].module]
    BY <1>1, <1>7, <1>9, <1>10
  <2>2. n - 1 \in 0..Len(s) /\ n - 1 <= Len(u)
    BY <1>2, <1>3, <1>7
  <2>3. ASSUME NEW i \in ((n - 1) + 1)..Len(u), u[i].op \in Imported
        PROVE  i = n
    <3>1. i = n \/ (i = n + 1 /\ d = 1)
      BY <1>3, <1>7
    <3> QED BY <1>5, <1>7, <2>3, <3>1 DEF Imported
  <2>4. /\ u[n].op = "body" /\ u[n].module = m /\ module'[m] = "executing" /\ importer'[m] = t
    BY <1>1, <1>3, <1>4, <1>7, <1>10
  <2>5. \A i \in ((n - 1) + 1)..Len(u) : u[i].op \in Imported =>
          /\ i = (n - 1) + 1
          /\ module'[u[i].module] = IF u[i].op = "body" THEN "executing" ELSE "defined"
          /\ importer'[u[i].module] = t
          /\ \A j \in 1..(n - 1) : s[j].op \in Imported => s[j].module # u[i].module
    BY <1>3, <1>9, <2>3, <2>4
  <2> QED BY <1>3, <1>7, <2>1, <2>2, <2>5, OwnedAfter
<1>12. Locked(t, u)'
  <2>1. Len(u) > 0 /\ Len(s) > 0
    BY <1>2, <1>3, <1>7
  <2>2. u[1].op = "install" <=> s[1].op = "install"
    <3>1. CASE n = 1
      BY <1>1, <1>3, <1>4, <1>7, <3>1 DEF m
    <3>2. CASE n # 1
      <4>1. 1 \in 1..(n - 1)
        BY <1>3, <3>2
      <4> QED BY <1>7, <4>1
    <3> QED BY <3>1, <3>2
  <2> QED BY <1>1, <1>3, <1>7, <2>1, <2>2, LockedAfter
<1>13. Covered(t, u)'
  <2>1. ASSUME NEW i \in 1..Len(u), NEW x \in Due(t, u[i])'
        PROVE  x \in patched' \/ Pending(u, i, x)
    <3>1. u[i].op \in {"install", "loaded"}
      BY <2>1 DEF Due
    <3>2. i \in 1..(n - 1)
      <4>1. i \in 1..(n - 1) \/ i = n \/ (i = n + 1 /\ d = 1)
        BY <1>3, <1>7
      <4> QED BY <1>4, <1>5, <1>7, <3>1, <4>1
    <3>3. n - 1 <= Len(u) /\ s[n].op = "import"
      BY <1>1, <1>3, <1>7 DEF m
    <3>4. \A j \in 1..(n - 1) : s[j].op = "loaded" /\ s[j].module \in Modules =>
             (s[j].module \in hooked' \ removed' => s[j].module \in hooked \ removed)
      BY <1>1, <1>9 DEF Imported
    <3> QED BY <1>1, <1>2, <1>3, <1>7, <2>1, <3>2, <3>3, <3>4, OuterCovered
  <2> QED BY <2>1 DEF Covered
<1> QED BY <1>2, <1>7, <1>8, <1>11, <1>12, <1>13 DEF StackHolds

\* When a body has run, its classes are there and the hook, if it is around the body,
\* begins to patch: what it has to see to is among the targets.
LEMMA BodyRunsHolds ==
    ASSUME Inv, NEW t \in Threads, BodyRuns(t)
    PROVE  StackHolds(t)'
<1> DEFINE m == Top(t).module
           f == [Importing(m) EXCEPT !.op = "loaded"]
           tail == IF HookRuns(m) THEN <<Looping(1)>> ELSE <<>>
<1>1. /\ ~Idle(t) /\ Top(t).op = "body"
      /\ module' = [module EXCEPT ![m] = "defined"]
      /\ importer' = importer /\ hooked' = hooked /\ removed' = removed
      /\ patched' = patched /\ owner' = owner /\ loadedAt' = loadedAt
  BY DEF BodyRuns, At
<1>2. PICK s, n, u : s = stack[t] /\ n = Len(s) /\ u = stack'[t]
  OBVIOUS
<1>3. /\ n \in Nat /\ n > 0 /\ Top(t) = s[n] /\ s \in Seq(Frames) /\ WellStacked(s)
      /\ m \in Modules /\ Owned(t, s) /\ Locked(t, s)
  BY <1>1, <1>2, TopIsAFrame DEF OfModule
<1>4. /\ f \in Frames /\ WellFormed(f) /\ f.op = "loaded" /\ f.module = m
  BY <1>3, FramesAreFrames
<1>5. PICK d \in {0, 1} :
        /\ tail \in Seq(Frames) /\ Len(tail) = d
        /\ d = 1 => WellFormed(tail[1]) /\ tail[1].op = "loop" /\ tail[1].next = 1
        /\ d = 0 => m \notin hooked
  <2>1. CASE ~HookRuns(m)
    BY <2>1 DEF HookRuns
  <2>2. CASE HookRuns(m)
    <3>1. /\ Looping(1) \in Frames /\ WellFormed(Looping(1))
          /\ Looping(1).op = "loop" /\ Looping(1).next = 1
      <4>1. 1 \in 1..(Len(Targets) + 1)
        BY TargetsAreListed
      <4> QED BY <4>1, FramesAreFrames
    <3>2. tail = <<Looping(1)>>
      BY <2>2
    <3> HIDE DEF tail
    <3> QED BY <3>1, <3>2
  <2> QED BY <2>1, <2>2
<1>6. u = (Front(s) \o <<f>>) \o tail
  BY <1>2 DEF BodyRuns, Inv, Shapes
<1> HIDE DEF f, tail, m
<1>7. /\ u \in Seq(Frames) /\ Len(u) = n + d
      /\ \A i \in 1..(n - 1) : u[i] = s[i]
      /\ u[n] = f /\ (d = 1 => u[n + 1] = tail[1])
  <2>1. /\ u \in Seq(Frames) /\ Len(u) = n + Len(tail)
        /\ \A i \in 1..(n - 1) : u[i] = s[i]
        /\ u[n] = f
        /\ \A j \in 1..Len(tail) : u[n + j] = tail[j]
    <3>1. n = Len(s) /\ n > 0 /\ s \in Seq(Frames)
      BY <1>2, <1>3
    <3>2. f \in Frames /\ tail \in Seq(Frames)
      BY <1>4, <1>5
    <3>3. /\ (Front(s) \o <<f>>) \o tail \in Seq(Frames)
          /\ Len((Front(s) \o <<f>>) \o tail) = Len(s) + Len(tail)
          /\ \A i \in 1..(Len(s) - 1) : ((Front(s) \o <<f>>) \o tail)[i] = s[i]
          /\ ((Front(s) \o <<f>>) \o tail)[Len(s)] = f
          /\ \A j \in 1..Len(tail) : ((Front(s) \o <<f>>) \o tail)[Len(s) + j] = tail[j]
      BY <3>1, <3>2, Replaced
    <3> QED BY <1>6, <3>1, <3>3
  <2>2. d = 1 => 1 \in 1..Len(tail)
    BY <1>5
  <2> QED BY <1>5, <2>1, <2>2
<1>8. WellStacked(u)
  <2>1. n > 1 => Within(s[n - 1], u[n])
    <3>1. SUFFICES ASSUME n > 1 PROVE Within(s[n - 1], u[n])
      OBVIOUS
    <3>2. n - 1 \in 1..(n - 1) /\ (n - 1) + 1 = n
      BY <1>3, <3>1
    <3>3. Within(s[n - 1], s[n])
      BY <1>2, <1>3, <3>2 DEF WellStacked
    <3> QED BY <1>1, <1>3, <1>4, <1>7, <3>3 DEF Within, m
  <2>2. d = 1 => WellFormed(u[n + 1]) /\ Within(u[n], u[n + 1])
    BY <1>4, <1>5, <1>7 DEF Within
  <2>3. WellFormed(u[n]) /\ u[n].op \notin {"loop", "patch"} /\ d \in {0, 1, 2} /\ d # 2
    BY <1>4, <1>7
  <2>4. n = Len(s) /\ n \in Nat /\ n > 0 /\ s \in Seq(Frames) /\ WellStacked(s)
    BY <1>2, <1>3
  <2>5. u \in Seq(Frames) /\ Len(u) = n + d /\ \A i \in 1..(n - 1) : u[i] = s[i]
    BY <1>7
  <2>6. d >= 1 => d = 1
    OBVIOUS
  <2> QED BY <2>1, <2>2, <2>3, <2>4, <2>5, <2>6, ReplacedStack
<1>9. ASSUME NEW i \in 1..(n - 1), s[i].op \in Imported
      PROVE  s[i].module \in Modules /\ s[i].module # m
  BY <1>1, <1>2, <1>3, <1>9, OuterModulesDiffer DEF Imported, m
<1>10. DOMAIN module = Modules
  BY DEF Inv, TypeOK
<1>11. importer[m] = t
  <2>1. n \in 1..Len(s) /\ s[n].op = "body"
    BY <1>1, <1>2, <1>3 DEF m
  <2> QED BY <1>3, <2>1 DEF Owned, m
<1>12. Owned(t, u)'
  <2>1. \A i \in 1..(n - 1) :
          /\ u[i] = s[i]
          /\ s[i].op \in Imported =>
                /\ module'[s[i].module] = module[s[i].module]
                /\ importer'[s[i].module] = importer[s[i].module]
    BY <1>1, <1>7, <1>9, <1>10
  <2>2. n - 1 \in 0..Len(s) /\ n - 1 <= Len(u)
    BY <1>2, <1>3, <1>7
  <2>3. ASSUME NEW i \in ((n - 1) + 1)..Len(u), u[i].op \in Imported
        PROVE  i = n
    <3>1. i = n \/ (i = n + 1 /\ d = 1)
      BY <1>3, <1>7
    <3> QED BY <1>5, <1>7, <2>3, <3>1 DEF Imported
  <2>4. /\ u[n].op = "loaded" /\ u[n].module = m /\ module'[m] = "defined" /\ importer'[m] = t
    BY <1>1, <1>3, <1>4, <1>7, <1>10, <1>11
  <2>5. \A i \in ((n - 1) + 1)..Len(u) : u[i].op \in Imported =>
          /\ i = (n - 1) + 1
          /\ module'[u[i].module] = IF u[i].op = "body" THEN "executing" ELSE "defined"
          /\ importer'[u[i].module] = t
          /\ \A j \in 1..(n - 1) : s[j].op \in Imported => s[j].module # u[i].module
    BY <1>3, <1>9, <2>3, <2>4
  <2> QED BY <1>3, <1>7, <2>1, <2>2, <2>5, OwnedAfter
<1>13. Locked(t, u)'
  <2>1. Len(u) > 0 /\ Len(s) > 0
    BY <1>2, <1>3, <1>7
  <2>2. u[1].op = "install" <=> s[1].op = "install"
    <3>1. CASE n = 1
      BY <1>1, <1>3, <1>4, <1>7, <3>1 DEF m
    <3>2. CASE n # 1
      <4>1. 1 \in 1..(n - 1)
        BY <1>3, <3>2
      <4> QED BY <1>7, <4>1
    <3> QED BY <3>1, <3>2
  <2> QED BY <1>1, <1>3, <1>7, <2>1, <2>2, LockedAfter
<1>14. Covered(t, u)'
  <2>1. ASSUME NEW i \in 1..Len(u), NEW x \in Due(t, u[i])'
        PROVE  x \in patched' \/ Pending(u, i, x)
    <3>1. u[i].op \in {"install", "loaded"}
      BY <2>1 DEF Due
    <3>2. i \in 1..(n - 1) \/ i = n
      <4>1. i \in 1..(n - 1) \/ i = n \/ (i = n + 1 /\ d = 1)
        BY <1>3, <1>7
      <4> QED BY <1>4, <1>5, <1>7, <3>1, <4>1
    <3>3. CASE i \in 1..(n - 1)
      <4>1. n - 1 <= Len(u) /\ s[n].op = "body"
        BY <1>1, <1>3, <1>7 DEF m
      <4> QED BY <1>1, <1>2, <1>3, <1>7, <2>1, <3>3, <4>1, OuterCovered
    <3>4. CASE i = n
      <4>1. x = m /\ m \in hooked
        BY <1>1, <1>4, <1>7, <2>1, <3>4 DEF Due
      <4>2. d = 1 /\ u[n + 1].next = 1 /\ n + 1 <= Len(u)
        BY <1>3, <1>5, <1>7, <4>1
      <4>3. \E j \in 1..Len(Targets) : Targets[j] = x
        BY <1>3, <4>1, TargetsAreListed
      <4> QED BY <3>4, <4>2, <4>3 DEF Pending
    <3> QED BY <3>2, <3>3, <3>4
  <2> QED BY <2>1 DEF Covered
<1> QED BY <1>2, <1>7, <1>8, <1>12, <1>13, <1>14 DEF StackHolds

\* When a loop is innermost, or the patch that it is at, the other loops are further out.
LEMMA LoopOnTop ==
    ASSUME Inv, NEW t \in Threads, NEW n \in Nat, n = Len(stack[t]),
           NEW k \in 1..n, k \in {n, n - 1}, stack[t][k].op = "loop",
           k = n - 1 => stack[t][n].op = "patch"
    PROVE  /\ k > 1 /\ stack[t][k - 1].op \in {"install", "loaded"}
           /\ stack[t][k].next \in 1..(Len(Targets) + 1)
           /\ k = n - 1 => stack[t][k].next >= 2
                           /\ stack[t][n].module = Targets[stack[t][k].next - 1]
           /\ \A i \in 1..n : Due(t, stack[t][i]) # {} => i = k - 1 \/ i + 2 <= k - 1
<1> DEFINE s == stack[t]
<1>1. s \in Seq(Frames) /\ WellStacked(s) /\ n = Len(s)
  BY DEF Inv, Shapes, StackHolds
<1>2. k > 1 /\ s[k - 1].op \in {"install", "loaded"} /\ WellFormed(s[k])
  <2> HIDE DEF s
  <2>1. s[k].op = "loop"
    BY DEF s
  <2> QED BY <1>1, <2>1, StackFacts
<1>3. k = n - 1 => s[k].next >= 2 /\ s[n].module = Targets[s[k].next - 1]
  <2>1. SUFFICES ASSUME k = n - 1 PROVE Within(s[k], s[n])
    BY DEF Within
  <2>2. k \in 1..(Len(s) - 1) /\ k + 1 = n
    BY <1>1, <2>1
  <2> HIDE DEF s
  <2> QED BY <1>1, <2>2 DEF WellStacked
<1>4. ASSUME NEW i \in 1..n, Due(t, s[i]) # {}, i # k - 1
      PROVE  i + 2 <= k - 1
  <2>1. s[i].op \in {"install", "loaded"}
    BY <1>4 DEF Due
  <2>2. i # k /\ (k = n - 1 => i # n)
    BY <2>1
  <2>3. i < k - 1
    BY <1>4, <2>2
  <2>4. i \in 1..(Len(s) - 1) /\ i + 1 \in 1..(Len(s) - 1)
    BY <1>1, <2>3
  <2>5. s[i + 1].op = "loop" /\ s[(i + 1) + 1].op = "patch"
    <3> HIDE DEF s
    <3> QED BY <1>1, <2>1, <2>4, StackFacts
  <2>6. i + 2 # k
    BY <2>5
  <2>7. s[i + 2].op = "patch" /\ i + 2 # k - 1
    BY <1>2, <2>5
  <2> QED BY <2>3, <2>6, <2>7
<1> QED BY <1>2, <1>3, <1>4 DEF WellFormed

\* What a frame has to see to does not change while what has been loaded, hooked and
\* removed does not.
LEMMA SameDue ==
    ASSUME NEW t, NEW f, loadedAt' = loadedAt, hooked' = hooked, removed' = removed
    PROVE  Due(t, f)' = Due(t, f)
BY DEF Due

\* A thread that takes one frame off its stack keeps the others, and what they have.
LEMMA PopHolds ==
    ASSUME Inv, NEW t \in Threads, NEW s, s = stack[t], NEW n \in Nat, n = Len(s),
           n > 1, module' = module, importer' = importer, owner' = owner,
           NEW u \in Seq(Frames), Len(u) = n - 1, \A i \in 1..(n - 1) : u[i] = s[i]
    PROVE  WellStacked(u) /\ Owned(t, u)' /\ Locked(t, u)'
<1>1. /\ s \in Seq(Frames) /\ WellStacked(s) /\ Owned(t, s) /\ Locked(t, s)
  BY DEF Inv, Shapes, StackHolds
<1>3. WellStacked(u)
  <2>1. Len(u) <= Len(s) /\ \A i \in 1..Len(u) : u[i] = s[i]
    OBVIOUS
  <2> QED BY <1>1, <2>1, PrefixIsStacked
<1>4. Owned(t, u)'
  <2>1. n - 1 \in 0..Len(s) /\ n - 1 <= Len(u)
    OBVIOUS
  <2>2. \A i \in ((n - 1) + 1)..Len(u) : u[i].op \in Imported =>
               /\ i = (n - 1) + 1
               /\ module'[u[i].module] = IF u[i].op = "body" THEN "executing" ELSE "defined"
               /\ importer'[u[i].module] = t
               /\ \A j \in 1..(n - 1) : s[j].op \in Imported => s[j].module # u[i].module
    OBVIOUS
  <2>3. \A i \in 1..(n - 1) :
          /\ u[i] = s[i]
          /\ s[i].op \in Imported =>
                /\ module'[s[i].module] = module[s[i].module]
                /\ importer'[s[i].module] = importer[s[i].module]
    OBVIOUS
  <2> QED BY <1>1, <2>1, <2>2, <2>3, OwnedAfter
<1>5. Locked(t, u)'
  <2>1. Len(u) > 0 /\ Len(s) > 0 /\ u[1] = s[1]
    <3>1. 1 \in 1..(n - 1)
      OBVIOUS
    <3> QED BY <3>1
  <2> QED BY <1>1, <2>1, LockedAfter
<1> QED BY <1>3, <1>4, <1>5

\* A loop that has passed every target has seen to all that it had to.
LEMMA LoopEndsHolds ==
    ASSUME Inv, NEW t \in Threads, LoopEnds(t)
    PROVE  StackHolds(t)'
<1>1. /\ ~Idle(t) /\ Top(t).op = "loop" /\ Top(t).next > Len(Targets)
      /\ UNCHANGED <<module, importer, owner>>
      /\ patched' = patched /\ loadedAt' = loadedAt /\ hooked' = hooked /\ removed' = removed
  BY DEF LoopEnds, At, python
<1>2. PICK s, n, u : s = stack[t] /\ n = Len(s) /\ u = stack'[t]
  OBVIOUS
<1>3. /\ n \in Nat /\ n > 0 /\ Top(t) = s[n] /\ s \in Seq(Frames) /\ WellStacked(s)
      /\ Covered(t, s) /\ Front(s) = SubSeq(s, 1, n - 1)
  BY <1>1, <1>2, TopIsAFrame
<1>4. u = SubSeq(s, 1, n - 1)
  BY <1>2, <1>3 DEF LoopEnds, Pop, Inv, Shapes
<1>5. s[n].op = "loop" /\ s[n].next > Len(Targets)
  BY <1>1, <1>3
<1>6. /\ n > 1
      /\ \A i \in 1..n : Due(t, s[i]) # {} => i = n - 1 \/ i + 2 <= n - 1
  <2>1. n \in 1..n /\ n # n - 1 /\ stack[t][n].op = "loop" /\ n = Len(stack[t])
    BY <1>2, <1>3, <1>5
  <2> QED BY <1>2, <1>3, <2>1, LoopOnTop
<1>7. /\ u \in Seq(Frames) /\ Len(u) = n - 1 /\ \A i \in 1..(n - 1) : u[i] = s[i]
      /\ WellStacked(u) /\ Owned(t, u)' /\ Locked(t, u)'
  <2>1. module' = module /\ importer' = importer /\ owner' = owner
    BY <1>1
  <2>2. s = stack[t] /\ n \in Nat /\ n = Len(s) /\ n > 1
    BY <1>2, <1>3, <1>6
  <2>3. u \in Seq(Frames) /\ Len(u) = n - 1 /\ \A i \in 1..(n - 1) : u[i] = s[i]
    <3>1. n - 1 \in 0..Len(s) /\ s \in Seq(Frames)
      BY <1>3, <2>2
    <3> QED BY <1>4, <3>1, Prefix
  <2> QED BY <2>1, <2>2, <2>3, PopHolds
<1>8. Covered(t, u)'
  <2>1. ASSUME NEW i \in 1..Len(u), NEW x \in Due(t, u[i])'
        PROVE  x \in patched' \/ Pending(u, i, x)
    <3>1. i \in 1..(n - 1) /\ i \in 1..n /\ i \in 1..Len(s) /\ u[i] = s[i]
      <4>1. n \in Nat /\ n = Len(s)
        BY <1>2, <1>3
      <4>2. Len(u) = n - 1 /\ \A j \in 1..(n - 1) : u[j] = s[j]
        BY <1>7
      <4>3. i \in 1..(n - 1)
        BY <4>1, <4>2
      <4> QED BY <4>1, <4>2, <4>3
    <3>2. x \in Due(t, s[i])
      BY <1>1, <2>1, <3>1, SameDue
    <3>3. CASE i = n - 1
      <4>1. x \in patched \/ Pending(s, n - 1, x)
        BY <1>3, <3>1, <3>2, <3>3 DEF Covered
      <4>2. ~Pending(s, n - 1, x)
        <5>1. (n - 1) + 1 = n /\ ~((n - 1) + 2 <= Len(s))
          BY <1>2, <1>3
        <5>2. s[n].next \in Nat /\ Len(Targets) \in Nat
          <6>1. s[n] \in Frames
            BY <1>2, <1>3
          <6> QED BY <6>1, TargetsAreListed DEF Frames
        <5> QED BY <1>5, <5>1, <5>2 DEF Pending
      <4> QED BY <1>1, <4>1, <4>2
    <3>4. CASE i + 2 <= n - 1
      <4>1. n - 1 \in 0..Len(stack[t]) /\ n - 1 <= Len(u)
        BY <1>2, <1>3, <1>7
      <4> QED BY <1>1, <1>2, <1>7, <3>1, <3>2, <3>4, <4>1, StillCovered
    <3> QED BY <1>6, <3>1, <3>2, <3>3, <3>4
  <2> QED BY <2>1 DEF Covered
<1> QED BY <1>2, <1>7, <1>8 DEF StackHolds

\* A patch removes no wrapper, and a module that has its classes is patched after it.
LEMMA PatchHolds ==
    ASSUME Inv, NEW t \in Threads, Patch(t)
    PROVE  StackHolds(t)'
<1>1. /\ ~Idle(t) /\ Top(t).op = "patch"
      /\ module' = module /\ importer' = importer /\ owner' = owner
      /\ loadedAt' = loadedAt /\ hooked' = hooked /\ removed' = removed
  BY DEF Patch, At, python
<1>2. PICK s, n, u : s = stack[t] /\ n = Len(s) /\ u = stack'[t]
  OBVIOUS
<1>3. /\ n \in Nat /\ n > 0 /\ Top(t) = s[n] /\ s \in Seq(Frames) /\ WellStacked(s)
      /\ Covered(t, s) /\ Front(s) = SubSeq(s, 1, n - 1)
  BY <1>1, <1>2, TopIsAFrame
<1>4. u = SubSeq(s, 1, n - 1)
  BY <1>2, <1>3 DEF Patch, Pop, Inv, Shapes
<1>5. s[n].op = "patch"
  BY <1>1, <1>3
<1>6. /\ n > 1 /\ s[n - 1].op = "loop"
  <2>1. n \in 1..Len(s) /\ s \in Seq(Frames) /\ WellStacked(s)
    BY <1>2, <1>3
  <2> QED BY <1>5, <2>1, StackFacts
<1>7. /\ n - 1 > 1
      /\ \A i \in 1..n : Due(t, s[i]) # {} => i = (n - 1) - 1 \/ i + 2 <= (n - 1) - 1
      /\ s[n - 1].next \in 1..(Len(Targets) + 1) /\ s[n - 1].next >= 2
      /\ s[n].module = Targets[s[n - 1].next - 1]
  <2>1. n - 1 \in 1..n /\ n - 1 \in {n, n - 1} /\ n = Len(stack[t]) /\ n \in Nat
    BY <1>2, <1>3, <1>6
  <2>2. stack[t][n - 1].op = "loop" /\ stack[t][n].op = "patch"
    BY <1>2, <1>5, <1>6
  <2> QED BY <1>2, <2>1, <2>2, LoopOnTop
<1>8. /\ u \in Seq(Frames) /\ Len(u) = n - 1 /\ \A i \in 1..(n - 1) : u[i] = s[i]
      /\ WellStacked(u) /\ Owned(t, u)' /\ Locked(t, u)'
  <2>1. module' = module /\ importer' = importer /\ owner' = owner
    BY <1>1
  <2>2. s = stack[t] /\ n \in Nat /\ n = Len(s) /\ n > 1
    BY <1>2, <1>3, <1>6
  <2>3. u \in Seq(Frames) /\ Len(u) = n - 1 /\ \A i \in 1..(n - 1) : u[i] = s[i]
    <3>1. n - 1 \in 0..Len(s) /\ s \in Seq(Frames)
      BY <1>3, <2>2
    <3> QED BY <1>4, <3>1, Prefix
  <2> QED BY <2>1, <2>2, <2>3, PopHolds
<1>9. /\ patched \subseteq patched'
      /\ HasClass(s[n].module) => s[n].module \in patched'
  BY <1>3 DEF Patch
<1>10. Covered(t, u)'
  <2>1. ASSUME NEW i \in 1..Len(u), NEW x \in Due(t, u[i])'
        PROVE  x \in patched' \/ Pending(u, i, x)
    <3>1. i \in 1..(n - 1) /\ i \in 1..n /\ i \in 1..Len(s) /\ u[i] = s[i]
      <4>1. n \in Nat /\ n = Len(s)
        BY <1>2, <1>3
      <4>2. Len(u) = n - 1 /\ \A j \in 1..(n - 1) : u[j] = s[j]
        BY <1>8
      <4>3. i \in 1..(n - 1)
        BY <4>1, <4>2
      <4> QED BY <4>1, <4>2, <4>3
    <3>2. x \in Due(t, s[i])
      BY <1>1, <2>1, <3>1, SameDue
    <3>3. CASE i = (n - 1) - 1
      <4>1. x \in patched \/ Pending(s, i, x)
        BY <1>3, <3>1, <3>2 DEF Covered
      <4>2. i + 1 = n - 1 /\ i + 2 = n /\ i + 1 <= Len(u) /\ u[n - 1] = s[n - 1]
        <5>1. n - 1 \in 1..(n - 1)
          BY <1>3, <1>6
        <5> QED BY <1>3, <1>8, <3>3, <5>1
      <4>3. s[n].module = x => x \in patched'
        <5>1. HasClass(x)
          BY <1>2, <3>1, <3>2, DueHasClass
        <5> QED BY <1>9, <5>1
      <4>4. (\E j \in s[n - 1].next..Len(Targets) : Targets[j] = x) => Pending(u, i, x)
        BY <4>2 DEF Pending
      <4> QED BY <1>9, <4>1, <4>2, <4>3, <4>4 DEF Pending
    <3>4. CASE i + 2 <= (n - 1) - 1
      <4>1. /\ n - 1 \in 0..Len(stack[t]) /\ n - 1 <= Len(u) /\ i + 2 <= n - 1
        BY <1>2, <1>3, <1>8, <3>4
      <4> QED BY <1>2, <1>8, <1>9, <3>1, <3>2, <4>1, StillCovered
    <3> QED BY <1>7, <3>1, <3>2, <3>3, <3>4
  <2> QED BY <2>1 DEF Covered
<1> QED BY <1>2, <1>8, <1>10 DEF StackHolds

\* A loop passes over a target only if it is patched or not there, and else goes to it.
LEMMA LoopTurnsHolds ==
    ASSUME Inv, NEW t \in Threads, LoopTurns(t)
    PROVE  StackHolds(t)'
<1> DEFINE i0 == Top(t).next
           f == Looping(i0 + 1)
           tail == IF Skips(Targets[i0]) THEN <<>>
                   ELSE <<[Importing(Targets[i0]) EXCEPT !.op = "patch"],
                          Importing(Targets[i0])>>
<1>1. /\ ~Idle(t) /\ Top(t).op = "loop" /\ i0 <= Len(Targets)
      /\ module' = module /\ importer' = importer /\ owner' = owner /\ patched' = patched
      /\ loadedAt' = loadedAt /\ hooked' = hooked /\ removed' = removed
  BY DEF LoopTurns, At, python
<1>2. PICK s, n, u : s = stack[t] /\ n = Len(s) /\ u = stack'[t]
  OBVIOUS
<1>3. /\ n \in Nat /\ n > 0 /\ Top(t) = s[n] /\ s \in Seq(Frames) /\ WellStacked(s)
      /\ Covered(t, s) /\ Owned(t, s) /\ Locked(t, s)
  BY <1>1, <1>2, TopIsAFrame
<1>4. /\ n > 1 /\ s[n - 1].op \in {"install", "loaded"}
      /\ i0 \in 1..Len(Targets)
      /\ \A i \in 1..n : Due(t, s[i]) # {} => i = n - 1 \/ i + 2 <= n - 1
  <2>1. n \in 1..n /\ n # n - 1 /\ stack[t][n].op = "loop" /\ n = Len(stack[t])
    BY <1>1, <1>2, <1>3
  <2>2. /\ n > 1 /\ stack[t][n - 1].op \in {"install", "loaded"}
        /\ stack[t][n].next \in 1..(Len(Targets) + 1)
        /\ \A i \in 1..n : Due(t, stack[t][i]) # {} => i = n - 1 \/ i + 2 <= n - 1
    BY <1>3, <2>1, LoopOnTop
  <2>3. i0 \in 1..Len(Targets)
    <3>1. s[n].next = i0 /\ i0 <= Len(Targets) /\ Len(Targets) \in Nat
      BY <1>1, <1>3, TargetsAreListed
    <3> HIDE DEF i0
    <3> QED BY <1>2, <2>2, <3>1
  <2> QED BY <1>2, <2>2, <2>3
<1>5. Targets[i0] \in Modules /\ i0 + 1 \in 1..(Len(Targets) + 1)
  BY <1>4, TargetsAreListed
<1>6. f \in Frames /\ WellFormed(f) /\ f.op = "loop" /\ f.next = i0 + 1
  BY <1>5, FramesAreFrames
<1>7. PICK d \in {0, 2} :
        /\ tail \in Seq(Frames) /\ Len(tail) = d
        /\ d = 2 => /\ WellFormed(tail[1]) /\ tail[1].op = "patch"
                    /\ WellFormed(tail[2]) /\ tail[2].op = "import"
                    /\ tail[1].module = Targets[i0] /\ tail[2].module = Targets[i0]
        /\ d = 0 => Skips(Targets[i0])
  <2>1. CASE Skips(Targets[i0])
    BY <2>1
  <2>2. CASE ~Skips(Targets[i0])
    <3> DEFINE a == [Importing(Targets[i0]) EXCEPT !.op = "patch"]
               b == Importing(Targets[i0])
    <3>1. /\ a \in Frames /\ WellFormed(a) /\ a.op = "patch" /\ a.module = Targets[i0]
          /\ b \in Frames /\ WellFormed(b) /\ b.op = "import" /\ b.module = Targets[i0]
      BY <1>5, FramesAreFrames
    <3>2. tail = <<a, b>>
      BY <2>2
    <3> HIDE DEF tail, a, b
    <3> QED BY <3>1, <3>2
  <2> QED BY <2>1, <2>2
<1>8. u = (Front(s) \o <<f>>) \o tail
  BY <1>2 DEF LoopTurns, Inv, Shapes
<1>9. s[n].next = i0 /\ s[n].op = "loop" /\ i0 + 1 >= 2 /\ (i0 + 1) - 1 = i0
  BY <1>1, <1>3, <1>4
<1> HIDE DEF f, tail, i0
<1>10. /\ u \in Seq(Frames) /\ Len(u) = n + d
       /\ \A i \in 1..(n - 1) : u[i] = s[i]
       /\ u[n] = f /\ (d = 2 => u[n + 1] = tail[1] /\ u[n + 2] = tail[2])
  <2>1. /\ u \in Seq(Frames) /\ Len(u) = n + Len(tail)
        /\ \A i \in 1..(n - 1) : u[i] = s[i]
        /\ u[n] = f
        /\ \A j \in 1..Len(tail) : u[n + j] = tail[j]
    <3>1. n = Len(s) /\ n > 0 /\ s \in Seq(Frames)
      BY <1>2, <1>3
    <3>2. f \in Frames /\ tail \in Seq(Frames)
      BY <1>6, <1>7
    <3>3. /\ (Front(s) \o <<f>>) \o tail \in Seq(Frames)
          /\ Len((Front(s) \o <<f>>) \o tail) = Len(s) + Len(tail)
          /\ \A i \in 1..(Len(s) - 1) : ((Front(s) \o <<f>>) \o tail)[i] = s[i]
          /\ ((Front(s) \o <<f>>) \o tail)[Len(s)] = f
          /\ \A j \in 1..Len(tail) : ((Front(s) \o <<f>>) \o tail)[Len(s) + j] = tail[j]
      BY <3>1, <3>2, Replaced
    <3> QED BY <1>8, <3>1, <3>3
  <2>2. d = 2 => 1 \in 1..Len(tail) /\ 2 \in 1..Len(tail)
    BY <1>7
  <2> QED BY <1>7, <2>1, <2>2
<1>11. WellStacked(u)
  <2>1. n > 1 => Within(s[n - 1], u[n])
    BY <1>4, <1>5, <1>6, <1>10 DEF Within
  <2>2. d = 2 => WellFormed(u[n + 1]) /\ Within(u[n], u[n + 1])
    BY <1>6, <1>7, <1>9, <1>10 DEF Within
  <2>3. d = 2 => WellFormed(u[n + 2]) /\ Within(u[n + 1], u[n + 2])
    BY <1>7, <1>10 DEF Within
  <2>4. WellFormed(u[n]) /\ n # 1 /\ d \in {0, 1, 2} /\ (d >= 1 => d = 2)
    BY <1>4, <1>6, <1>10
  <2>5. n = Len(s) /\ n \in Nat /\ n > 0 /\ s \in Seq(Frames) /\ WellStacked(s)
    BY <1>2, <1>3
  <2>6. u \in Seq(Frames) /\ Len(u) = n + d /\ \A i \in 1..(n - 1) : u[i] = s[i]
    BY <1>10
  <2> QED BY <2>1, <2>2, <2>3, <2>4, <2>5, <2>6, ReplacedStack
<1>12. Owned(t, u)'
  <2>1. n - 1 \in 0..Len(s) /\ n - 1 <= Len(u)
    BY <1>2, <1>3, <1>10
  <2>2. ASSUME NEW i \in ((n - 1) + 1)..Len(u)
        PROVE  u[i].op \notin Imported
    <3>1. i = n \/ (d = 2 /\ i \in {n + 1, n + 2})
      BY <1>3, <1>10
    <3> QED BY <1>6, <1>7, <1>10, <3>1 DEF Imported
  <2>3. \A i \in 1..(n - 1) :
          /\ u[i] = s[i]
          /\ s[i].op \in Imported =>
                /\ module'[s[i].module] = module[s[i].module]
                /\ importer'[s[i].module] = importer[s[i].module]
    BY <1>1, <1>10
  <2>4. \A i \in ((n - 1) + 1)..Len(u) : u[i].op \in Imported =>
          /\ i = (n - 1) + 1
          /\ module'[u[i].module] = IF u[i].op = "body" THEN "executing" ELSE "defined"
          /\ importer'[u[i].module] = t
          /\ \A j \in 1..(n - 1) : s[j].op \in Imported => s[j].module # u[i].module
    BY <2>2
  <2> QED BY <1>3, <1>10, <2>1, <2>3, <2>4, OwnedAfter
<1>13. Locked(t, u)'
  <2>1. Len(u) > 0 /\ Len(s) > 0 /\ u[1] = s[1]
    <3>1. 1 \in 1..(n - 1)
      BY <1>3, <1>4
    <3> QED BY <1>2, <1>3, <1>10, <3>1
  <2> QED BY <1>1, <1>3, <1>10, <2>1, LockedAfter
<1>14. Covered(t, u)'
  <2>1. ASSUME NEW i \in 1..Len(u), NEW x \in Due(t, u[i])'
        PROVE  x \in patched' \/ Pending(u, i, x)
    <3>1. u[i].op \in {"install", "loaded"}
      BY <2>1 DEF Due
    <3>2. i \in 1..(n - 1) /\ i \in 1..n /\ i \in 1..Len(s) /\ u[i] = s[i]
      <4>1. i \in 1..(n - 1) \/ i = n \/ (d = 2 /\ i \in {n + 1, n + 2})
        BY <1>3, <1>10
      <4>2. i \in 1..(n - 1)
        BY <1>6, <1>7, <1>10, <3>1, <4>1
      <4> QED BY <1>2, <1>3, <1>10, <4>2
    <3>3. x \in Due(t, s[i])
      BY <1>1, <2>1, <3>2, SameDue
    <3>4. CASE i + 2 <= n - 1
      <4>1. n - 1 \in 0..Len(stack[t]) /\ n - 1 <= Len(u) /\ patched \subseteq patched'
        BY <1>1, <1>2, <1>3, <1>10
      <4> QED BY <1>2, <1>10, <3>2, <3>3, <3>4, <4>1, StillCovered
    <3>5. CASE i = n - 1
      <4>1. x \in patched \/ Pending(s, i, x)
        BY <1>3, <3>2, <3>3 DEF Covered
      <4>2. i + 1 = n /\ i + 2 = n + 1 /\ n <= Len(u) /\ ~(i + 2 <= Len(s))
        BY <1>2, <1>3, <1>10, <3>5
      <4>3. SUFFICES ASSUME NEW j \in i0..Len(Targets), Targets[j] = x
                     PROVE  x \in patched \/ Pending(u, i, x)
        BY <1>1, <1>9, <4>1, <4>2 DEF Pending
      <4>4. CASE j = i0
        <5>1. Root[x] \in packages
          BY <1>2, <3>2, <3>3, DueHasClass
        <5>2. CASE d = 0
          BY <1>7, <4>3, <4>4, <5>1, <5>2 DEF Skips
        <5>3. CASE d = 2
          BY <1>7, <1>10, <4>2, <4>3, <4>4, <5>3 DEF Pending
        <5> QED BY <5>2, <5>3
      <4>5. CASE j # i0
        <5>1. j \in (i0 + 1)..Len(Targets)
          BY <1>4, <4>5, TargetsAreListed
        <5> QED BY <1>6, <1>10, <4>2, <4>3, <5>1 DEF Pending
      <4> QED BY <4>4, <4>5
    <3> QED BY <1>4, <3>2, <3>3, <3>4, <3>5
  <2> QED BY <2>1 DEF Covered
<1> QED BY <1>2, <1>10, <1>11, <1>12, <1>13, <1>14 DEF StackHolds

\* A thread that has nothing on its stack, or begins something.
LEMMA BeginHolds ==
    ASSUME Inv, NEW t \in Threads, Idle(t), owner' = owner,
           \/ stack'[t] = stack[t]
           \/ \E f \in Frames : /\ WellFormed(f) /\ f.op \in {"import", "ensure"}
                                /\ stack'[t] = Append(stack[t], f)
    PROVE  StackHolds(t)'
<1>1. stack[t] = <<>> /\ owner' # t
  BY DEF Inv, StackHolds, Locked, Idle
<1>2. CASE stack'[t] = stack[t]
  <2>1. stack'[t] = <<>> /\ <<>> \in Seq(Frames) /\ Len(<<>>) = 0
    BY <1>1, <1>2
  <2> QED BY <1>1, <2>1 DEF StackHolds, WellStacked, Owned, Locked, Covered
<1>3. ASSUME NEW f \in Frames, WellFormed(f), f.op \in {"import", "ensure"},
             stack'[t] = Append(stack[t], f)
      PROVE  StackHolds(t)'
  <2>1. PICK u : u = stack'[t]
    OBVIOUS
  <2>2. u \in Seq(Frames) /\ Len(u) = 1 /\ u[1] = f
    BY <1>1, <1>3, <2>1
  <2>3. WellStacked(u)
    <3>1. \A i \in 1..Len(u) : i = 1
      BY <2>2
    <3>2. \A i \in 1..(Len(u) - 1) : FALSE
      BY <2>2
    <3> QED BY <1>3, <2>2, <3>1, <3>2 DEF WellStacked
  <2>4. \A i \in 1..Len(u) : u[i] = f
    BY <2>2
  <2>5. Owned(t, u)' /\ Locked(t, u)' /\ Covered(t, u)'
    <3>1. Owned(t, u)'
      BY <1>3, <2>4 DEF Owned
    <3>2. Locked(t, u)'
      BY <1>1, <1>3, <2>2 DEF Locked
    <3>3. Covered(t, u)'
      BY <1>3, <2>4 DEF Covered, Due
    <3> QED BY <3>1, <3>2, <3>3
  <2> QED BY <2>1, <2>2, <2>3, <2>5 DEF StackHolds
<1> QED BY <1>2, <1>3

\* ensure_installed is outermost, and begins its loop with what is loaded still to see to.
LEMMA EnsureLocksHolds ==
    ASSUME Inv, NEW t \in Threads, EnsureLocks(t)
    PROVE  /\ StackHolds(t)'
           /\ \A m \in Modules : m \in loadedAt'[t] => module[m] = "loaded"
           /\ loadedAt'[t] \subseteq Modules
<1> DEFINE a == Doing("install")
           b == Looping(1)
<1>1. /\ ~Idle(t) /\ Top(t).op = "ensure" /\ owner' = t
  BY DEF EnsureLocks, At
<1>2. PICK s, n, u : s = stack[t] /\ n = Len(s) /\ u = stack'[t]
  OBVIOUS
<1>3. /\ n \in Nat /\ n > 0 /\ Top(t) = s[n] /\ s \in Seq(Frames) /\ WellStacked(s)
  BY <1>1, <1>2, TopIsAFrame
<1>4. n = 1
  <2>1. ASSUME n # 1 PROVE FALSE
    <3>1. n \in 2..Len(s)
      <4>1. n = Len(s) /\ n \in Nat /\ n > 0
        BY <1>2, <1>3
      <4> QED BY <2>1, <4>1
    <3> QED BY <1>1, <1>3, <3>1, StackFacts
  <2> QED BY <2>1
<1>5. /\ a \in Frames /\ WellFormed(a) /\ a.op = "install"
      /\ b \in Frames /\ WellFormed(b) /\ b.op = "loop" /\ b.next = 1
  <2>1. 1 \in 1..(Len(Targets) + 1)
    BY TargetsAreListed
  <2> QED BY <2>1, FramesAreFrames
<1>6. u = Front(s) \o <<a, b>>
  BY <1>2 DEF EnsureLocks, Inv, Shapes
<1>7. Front(s) = <<>>
  BY <1>2, <1>3, <1>4 DEF Front
<1>8. loadedAt'[t] = {m \in Modules : module[m] = "loaded"}
  BY DEF EnsureLocks, Inv, Shapes
<1> HIDE DEF a, b
<1>9. u \in Seq(Frames) /\ Len(u) = 2 /\ u[1] = a /\ u[2] = b
  BY <1>5, <1>6, <1>7
<1>10. \A i \in 1..Len(u) : i = 1 \/ i = 2
  BY <1>9
<1>11. WellStacked(u)
  <2>1. \A i \in 1..Len(u) : WellFormed(u[i])
    BY <1>5, <1>9, <1>10
  <2>2. \A i \in 1..(Len(u) - 1) : i = 1
    BY <1>9
  <2>3. \A i \in 1..(Len(u) - 1) : Within(u[i], u[i + 1])
    BY <1>5, <1>9, <2>2 DEF Within
  <2> QED BY <1>5, <1>9, <2>1, <2>3 DEF WellStacked
<1>12. Owned(t, u)'
  BY <1>5, <1>9, <1>10 DEF Owned
<1>13. Locked(t, u)'
  BY <1>1, <1>5, <1>9 DEF Locked
<1>14. Covered(t, u)'
  <2>1. ASSUME NEW i \in 1..Len(u), NEW x \in Due(t, u[i])'
        PROVE  Pending(u, i, x)
    <3>1. i = 1 /\ x \in Modules
      BY <1>5, <1>8, <1>9, <1>10, <2>1 DEF Due
    <3>2. \E j \in 1..Len(Targets) : Targets[j] = x
      BY <3>1, TargetsAreListed
    <3> QED BY <1>5, <1>9, <3>1, <3>2 DEF Pending
  <2> QED BY <2>1 DEF Covered
<1> QED BY <1>2, <1>8, <1>9, <1>11, <1>12, <1>13, <1>14 DEF StackHolds

\* When ensure_installed returns nothing else is on the stack, and no module that it
\* found loaded is left without its wrapper.
LEMMA EnsureReturnsHolds ==
    ASSUME Inv, NEW t \in Threads, EnsureReturns(t)
    PROVE  /\ StackHolds(t)' /\ owner = t
           /\ loadedAt[t] \subseteq patched
<1>1. /\ ~Idle(t) /\ Top(t).op = "install" /\ owner' = None
  BY DEF EnsureReturns, At
<1>2. PICK s, n, u : s = stack[t] /\ n = Len(s) /\ u = stack'[t]
  OBVIOUS
<1>3. /\ n \in Nat /\ n > 0 /\ Top(t) = s[n] /\ s \in Seq(Frames) /\ WellStacked(s)
      /\ Locked(t, s) /\ Covered(t, s)
  BY <1>1, <1>2, TopIsAFrame
<1>4. n = 1 /\ s[1].op = "install"
  <2>1. ASSUME n # 1 PROVE FALSE
    <3>1. n \in 2..Len(s)
      <4>1. n = Len(s) /\ n \in Nat /\ n > 0
        BY <1>2, <1>3
      <4> QED BY <2>1, <4>1
    <3> QED BY <1>1, <1>3, <3>1, StackFacts
  <2> QED BY <1>1, <1>3, <2>1
<1>5. u = Front(s)
  BY <1>2 DEF EnsureReturns, Pop, Inv, Shapes
<1>6. u = <<>> /\ <<>> \in Seq(Frames) /\ Len(<<>>) = 0
  BY <1>2, <1>3, <1>4, <1>5 DEF Front
<1>7. t # None
  BY InstrumentAssumption
<1>8. StackHolds(t)'
  BY <1>1, <1>2, <1>6, <1>7 DEF StackHolds, WellStacked, Owned, Locked, Covered
<1>9. owner = t
  BY <1>2, <1>3, <1>4 DEF Locked
<1>10. ASSUME NEW x \in loadedAt[t] PROVE x \in patched
  <2>1. x \in Due(t, s[1])
    BY <1>4, <1>10 DEF Due
  <2>2. ~Pending(s, 1, x)
    BY <1>2, <1>4 DEF Pending
  <2> QED BY <1>2, <1>3, <1>4, <2>1, <2>2 DEF Covered
<1> QED BY <1>8, <1>9, <1>10

\* uninstall is not called while a thread is in ensure_installed, and what is being
\* imported is not seen to any more.
LEMMA UninstallHolds ==
    ASSUME Inv, NEW r \in Threads, Uninstall(r), NEW t \in Threads
    PROVE  StackHolds(t)'
<1>1. PICK s : s = stack[t]
  OBVIOUS
<1>2. /\ s \in Seq(Frames) /\ WellStacked(s) /\ Owned(t, s) /\ Locked(t, s)
  BY <1>1 DEF Inv, StackHolds
<1>3. /\ stack' = stack /\ owner' = owner /\ module' = module /\ importer' = importer
      /\ loadedAt' = loadedAt
      /\ removed' = removed \union {m \in Modules : importer[m] # None}
  BY DEF Uninstall, python
<1>4. owner = None
  BY DEF Uninstall, HasLock, Inv, StackHolds, Locked, Idle
<1>5. t # None
  BY InstrumentAssumption
<1>6. Owned(t, s)' /\ Locked(t, s)'
  BY <1>2, <1>3 DEF Owned, Locked
<1>7. ASSUME NEW i \in 1..Len(s) PROVE Due(t, s[i])' = {}
  <2>1. CASE s[i].op = "install"
    <3>1. ~(Len(s) > 0 /\ s[1].op = "install")
      BY <1>2, <1>4, <1>5 DEF Locked
    <3>2. i \in 2..Len(s)
      BY <1>2, <2>1, <3>1
    <3> QED BY <1>2, <2>1, <3>2, StackFacts
  <2>2. CASE s[i].op = "loaded"
    <3>1. s[i].module \in Modules /\ importer[s[i].module] # None
      BY <1>2, <1>5, <2>2 DEF Owned, WellStacked, WellFormed, OfModule
    <3> QED BY <1>3, <2>2, <3>1 DEF Due
  <2>3. CASE s[i].op \notin {"install", "loaded"}
    BY <2>3 DEF Due
  <2> QED BY <2>1, <2>2, <2>3
<1>8. Covered(t, s)'
  BY <1>7 DEF Covered
<1> QED BY <1>1, <1>2, <1>3, <1>6, <1>8 DEF StackHolds

-----------------------------------------------------------------------------
(* The invariant. *)

\* It holds when nothing has been imported.
LEMMA InvInit ==
    ASSUME Init
    PROVE  Inv
<1>1. \A t \in Threads : StackHolds(t)
  <2>1. <<>> \in Seq(Frames) /\ Len(<<>>) = 0
    OBVIOUS
  <2>2. SUFFICES ASSUME NEW t \in Threads PROVE StackHolds(t)
    OBVIOUS
  <2>3. stack[t] = <<>> /\ owner = None /\ t # None
    BY InstrumentAssumption DEF Init
  <2>4. WellStacked(<<>>) /\ Owned(t, <<>>) /\ Locked(t, <<>>) /\ Covered(t, <<>>)
    BY <2>1, <2>3 DEF WellStacked, Owned, Locked, Covered
  <2> QED BY <2>1, <2>3, <2>4 DEF StackHolds
<1>2. Shapes
  <2>1. stack \in [Threads -> Seq(Frames)]
    BY DEF Init
  <2> QED BY <2>1 DEF Init, Shapes
<1>3. TypeOK /\ WrappedOnce /\ LoadedStays
  BY DEF Init, TypeOK, WrappedOnce, LoadedStays
<1> QED BY <1>1, <1>2, <1>3 DEF Inv

\* What Continue does to the stack of its thread.
LEMMA ContinueHolds ==
    ASSUME Inv, NEW t \in Threads, Continue(t)
    PROVE  StackHolds(t)'
BY ImportOverHolds, ImportFindsHolds, BodyRunsHolds, LoopTurnsHolds, LoopEndsHolds, PatchHolds,
   EnsureLocksHolds, EnsureReturnsHolds DEF Continue

\* A step of a thread changes its own stack only, and the modules whose lock it has.
LEMMA ContinueIsLocal ==
    ASSUME Inv, NEW t \in Threads, Continue(t), NEW r \in Threads, r # t
    PROVE  StackHolds(r)'
<1>1. /\ \E w : stack' = [stack EXCEPT ![t] = w]
      /\ stack \in [Threads -> Seq(Frames)]
  BY DEF Inv, Shapes, Continue, ImportHas, ImportFinds, ImportGivesUp, BodyRuns, ImportFails,
     ImportEnds, LoopTurns, LoopEnds, Patch, EnsureLocks, EnsureReturns, Pop
<1>2. stack'[r] = stack[r]
  BY <1>1
<1>3. t # None /\ r # None
  BY InstrumentAssumption
<1>4. /\ importer \in [Modules -> Threads \union {None}] /\ DOMAIN module = Modules
      /\ loadedAt \in [Threads -> SUBSET Modules] /\ owner \in Threads \union {None}
      /\ \A m \in Modules : importer[m] # None <=> module[m] \in {"executing", "defined"}
  BY DEF Inv, Shapes, TypeOK
<1>5. CASE ImportHas(t) \/ ImportGivesUp(t) \/ LoopTurns(t) \/ LoopEnds(t)
  <2>1. UNCHANGED <<module, importer, hooked, removed, patched, owner, loadedAt>>
    BY <1>5 DEF ImportHas, ImportGivesUp, LoopTurns, LoopEnds, python
  <2> QED BY <1>2, <2>1, OthersHold
<1>6. CASE ImportFinds(t)
  <2>1. PICK m \in Modules :
          /\ importer[m] = None
          /\ module' = [module EXCEPT ![m] = "executing"]
          /\ importer' = [importer EXCEPT ![m] = t]
          /\ hooked' \subseteq hooked \union {m} /\ removed' = removed \ {m}
          /\ patched' = patched /\ owner' = owner /\ loadedAt' = loadedAt
    <3>1. Top(t).module \in Modules
      BY <1>6, TopIsAFrame DEF ImportFinds, At, OfModule
    <3> QED BY <1>6, <3>1 DEF ImportFinds
  <2> QED BY <1>2, <1>3, <1>4, <2>1, OthersHold
<1>7. CASE BodyRuns(t) \/ ImportFails(t) \/ ImportEnds(t)
  <2>1. PICK m \in Modules :
          /\ importer[m] = t
          /\ \E value : module' = [module EXCEPT ![m] = value]
          /\ importer' = [importer EXCEPT ![m] = None] \/ importer' = importer
          /\ UNCHANGED <<hooked, removed, patched, owner, loadedAt>>
    <3>1. ~Idle(t) /\ Top(t).op \in {"body", "loaded"}
      BY <1>7 DEF BodyRuns, ImportFails, ImportEnds, At
    <3>2. Top(t).module \in Modules /\ importer[Top(t).module] = t
      <4>1. /\ Len(stack[t]) \in 1..Len(stack[t]) /\ Top(t) = stack[t][Len(stack[t])]
            /\ Owned(t, stack[t]) /\ Top(t).module \in Modules
        BY <3>1, TopIsAFrame DEF OfModule
      <4> QED BY <3>1, <4>1 DEF Owned
    <3> QED BY <1>7, <3>2 DEF BodyRuns, ImportFails, ImportEnds
  <2> QED BY <1>2, <1>3, <1>4, <2>1, OthersHold
<1>8. CASE Patch(t)
  <2>1. UNCHANGED <<module, importer, hooked, removed, owner, loadedAt>> /\ patched \subseteq patched'
    BY <1>8 DEF Patch, python
  <2> QED BY <1>2, <2>1, OthersHold
<1>9. CASE EnsureLocks(t)
  <2>1. /\ UNCHANGED <<module, importer, hooked, removed, patched>>
        /\ owner \in {t, None} /\ owner' = t /\ loadedAt'[r] = loadedAt[r]
    BY <1>4, <1>9 DEF EnsureLocks, HasLock, python
  <2> QED BY <1>2, <1>3, <2>1, OthersHold
<1>10. CASE EnsureReturns(t)
  <2>1. /\ UNCHANGED <<module, importer, hooked, removed, patched>>
        /\ owner = t /\ owner' = None /\ loadedAt'[r] = loadedAt[r]
    BY <1>4, <1>10, EnsureReturnsHolds DEF EnsureReturns, python
  <2> QED BY <1>2, <1>3, <2>1, OthersHold
<1> QED BY <1>5, <1>6, <1>7, <1>8, <1>9, <1>10 DEF Continue

\* Every step leaves every stack right.
LEMMA StacksHold ==
    ASSUME Inv, Next
    PROVE  \A t \in Threads : StackHolds(t)'
<1>1. PICK t \in Threads :
        \/ Continue(t) \/ (\E m \in Modules : BeginImport(t, m))
        \/ BeginEnsure(t) \/ Uninstall(t)
  BY DEF Next
<1>2. CASE Continue(t)
  BY <1>2, ContinueHolds, ContinueIsLocal
<1>3. CASE (\E m \in Modules : BeginImport(t, m)) \/ BeginEnsure(t)
  <2>1. /\ UNCHANGED <<module, importer, hooked, removed, patched, owner, loadedAt>>
        /\ Idle(t)
    BY <1>3 DEF BeginImport, BeginEnsure, python
  <2>2. \/ stack' = stack
        \/ \E f \in Frames : /\ WellFormed(f) /\ f.op \in {"import", "ensure"}
                             /\ stack' = [stack EXCEPT ![t] = Append(@, f)]
    BY <1>3, FramesAreFrames DEF BeginImport, BeginEnsure, Push
  <2>3. stack \in [Threads -> Seq(Frames)]
    BY DEF Inv, Shapes
  <2>4. \/ stack'[t] = stack[t]
        \/ \E f \in Frames : /\ WellFormed(f) /\ f.op \in {"import", "ensure"}
                             /\ stack'[t] = Append(stack[t], f)
    BY <2>2, <2>3
  <2>5. \A r \in Threads : r # t => stack'[r] = stack[r]
    BY <2>2, <2>3
  <2>6. StackHolds(t)'
    BY <2>1, <2>4, BeginHolds
  <2>7. ASSUME NEW r \in Threads, r # t PROVE StackHolds(r)'
    BY <2>1, <2>5, <2>7, OthersHold
  <2> QED BY <2>6, <2>7
<1>4. CASE Uninstall(t)
  BY <1>4, UninstallHolds
<1> QED BY <1>1, <1>2, <1>3, <1>4

\* What ImportFails and BodyRuns change is executing, what ImportEnds changes is defined.
LEMMA TopIsOwned ==
    ASSUME Inv, NEW t \in Threads, BodyRuns(t) \/ ImportFails(t) \/ ImportEnds(t)
    PROVE  /\ Top(t).module \in Modules /\ importer[Top(t).module] = t
           /\ ImportEnds(t) => module[Top(t).module] = "defined"
           /\ ~ImportEnds(t) => module[Top(t).module] = "executing"
<1>1. /\ ~Idle(t) /\ Top(t).op \in {"body", "loaded"}
      /\ ImportEnds(t) <=> Top(t).op = "loaded"
  BY DEF BodyRuns, ImportFails, ImportEnds, At
<1>2. /\ Len(stack[t]) \in 1..Len(stack[t]) /\ Top(t) = stack[t][Len(stack[t])]
      /\ Owned(t, stack[t]) /\ Top(t).module \in Modules
  BY <1>1, TopIsAFrame DEF OfModule
<1> QED BY <1>1, <1>2 DEF Owned

\* The types of the variables.
LEMMA ShapesStay ==
    ASSUME Inv, Next
    PROVE  Shapes' /\ module' \in [Modules -> {"absent", "executing", "defined", "loaded"}]
<1>1. /\ Shapes /\ module \in [Modules -> {"absent", "executing", "defined", "loaded"}]
      /\ \A t \in Threads : stack'[t] \in Seq(Frames)
  BY StacksHold DEF Inv, TypeOK, StackHolds
<1>2. PICK t \in Threads :
        \/ Continue(t) \/ (\E m \in Modules : BeginImport(t, m))
        \/ BeginEnsure(t) \/ Uninstall(t)
  BY DEF Next
<1>3. stack' \in [Threads -> Seq(Frames)]
  <2>1. stack' = stack \/ \E w : stack' = [stack EXCEPT ![t] = w]
    BY <1>2 DEF Continue, ImportHas, ImportFinds, ImportGivesUp, BodyRuns, ImportFails,
       ImportEnds, LoopTurns, LoopEnds, Patch, EnsureLocks, EnsureReturns, BeginImport,
       BeginEnsure, Uninstall, Push, Pop
  <2>2. stack \in [Threads -> Seq(Frames)]
    BY <1>1 DEF Shapes
  <2> QED BY <1>1, <2>1, <2>2
<1>4. CASE UNCHANGED <<module, importer, wrapped, patched, hooked, owner, loadedAt, removed>>
  BY <1>1, <1>3, <1>4 DEF Shapes
<1>5. CASE ImportFinds(t)
  <2>1. Top(t).module \in Modules
    BY <1>5, TopIsAFrame DEF ImportFinds, At, OfModule
  <2> QED BY <1>1, <1>3, <1>5, <2>1 DEF Shapes, ImportFinds
<1>6. CASE BodyRuns(t) \/ ImportFails(t) \/ ImportEnds(t)
  <2>1. Top(t).module \in Modules
    BY <1>6, TopIsOwned
  <2>2. /\ \E v \in {"absent", "defined", "loaded"} :
             module' = [module EXCEPT ![Top(t).module] = v]
        /\ importer' = importer \/ importer' = [importer EXCEPT ![Top(t).module] = None]
        /\ wrapped' = wrapped \/ wrapped' = [wrapped EXCEPT ![Top(t).module] = 0]
        /\ UNCHANGED <<hooked, patched, owner, loadedAt, removed>>
    BY <1>6 DEF BodyRuns, ImportFails, ImportEnds
  <2>3. /\ importer \in [Modules -> Threads \union {None}] /\ wrapped \in [Modules -> Nat]
        /\ module \in [Modules -> {"absent", "executing", "defined", "loaded"}]
    BY <1>1 DEF Shapes
  <2>4. module' \in [Modules -> {"absent", "executing", "defined", "loaded"}]
    BY <2>2, <2>3
  <2>5. importer' \in [Modules -> Threads \union {None}]
    BY <2>2, <2>3
  <2>6. wrapped' \in [Modules -> Nat]
    BY <2>2, <2>3
  <2> QED BY <1>1, <1>3, <2>2, <2>4, <2>5, <2>6 DEF Shapes
<1>7. CASE Patch(t)
  <2>1. Top(t).module \in Modules
    BY <1>7, TopIsAFrame DEF Patch, At, OfModule
  <2>2. wrapped \in [Modules -> Nat] /\ patched \in SUBSET Modules
    BY <1>1 DEF Shapes
  <2>3. Wraps(Top(t).module) \in Nat
    BY <2>1, <2>2 DEF Wraps
  <2>4. wrapped' \in [Modules -> Nat] /\ patched' \in SUBSET Modules
    BY <1>7, <2>1, <2>2, <2>3 DEF Patch
  <2>5. UNCHANGED <<module, importer, hooked, owner, loadedAt, removed>>
    BY <1>7 DEF Patch, python
  <2> QED BY <1>1, <1>3, <2>4, <2>5 DEF Shapes
<1>8. CASE EnsureLocks(t) \/ EnsureReturns(t)
  <2>1. /\ UNCHANGED <<module, importer, hooked, wrapped, patched, removed>>
        /\ owner' \in Threads \union {None}
        /\ \E v \in SUBSET Modules : loadedAt' = [loadedAt EXCEPT ![t] = v]
    BY <1>8 DEF EnsureLocks, EnsureReturns, python
  <2> QED BY <1>1, <1>3, <2>1 DEF Shapes
<1>9. CASE Uninstall(t)
  <2>1. /\ UNCHANGED <<module, importer, hooked, owner, loadedAt>>
        /\ patched' = {} /\ removed' \subseteq removed \union Modules
        /\ wrapped' = [m \in Modules |-> IF m \in patched THEN 0 ELSE wrapped[m]]
    BY <1>9 DEF Uninstall, python
  <2> QED BY <1>1, <1>3, <2>1 DEF Shapes
<1>10. CASE \/ ImportHas(t) \/ ImportGivesUp(t) \/ LoopTurns(t) \/ LoopEnds(t)
            \/ (\E m \in Modules : BeginImport(t, m)) \/ BeginEnsure(t)
  <2>1. UNCHANGED <<module, importer, wrapped, patched, hooked, owner, loadedAt, removed>>
    BY <1>10 DEF ImportHas, ImportGivesUp, LoopTurns, LoopEnds, BeginImport, BeginEnsure, python
  <2> QED BY <1>4, <2>1
<1> QED BY <1>2, <1>5, <1>6, <1>7, <1>8, <1>9, <1>10 DEF Continue

\* The modules, their importers, what is wrapped and what is loaded.
LEMMA ModulesStay ==
    ASSUME Inv, Next
    PROVE  /\ \A m \in Modules : importer'[m] # None <=> module'[m] \in {"executing", "defined"}
           /\ \A m \in patched' : module'[m] \in {"defined", "loaded"}
           /\ WrappedOnce' /\ LoadedStays'
<1>1. /\ module \in [Modules -> {"absent", "executing", "defined", "loaded"}]
      /\ importer \in [Modules -> Threads \union {None}] /\ wrapped \in [Modules -> Nat]
      /\ patched \subseteq Modules /\ loadedAt \in [Threads -> SUBSET Modules]
  BY DEF Inv, TypeOK, Shapes
<1>2. /\ \A m \in Modules : importer[m] # None <=> module[m] \in {"executing", "defined"}
      /\ \A m \in patched : module[m] \in {"defined", "loaded"}
  BY DEF Inv, TypeOK
<1>3. WrappedOnce /\ LoadedStays
  BY DEF Inv
<1>4. PICK t \in Threads :
        \/ Continue(t) \/ (\E m \in Modules : BeginImport(t, m))
        \/ BeginEnsure(t) \/ Uninstall(t)
  BY DEF Next
<1>5. t # None
  BY InstrumentAssumption
<1>6. CASE /\ UNCHANGED <<module, importer, wrapped, patched, loadedAt>>
           /\ packages \subseteq packages'
  BY <1>2, <1>3, <1>6 DEF WrappedOnce, LoadedStays
<1>7. CASE ImportFinds(t)
  <2>1. PICK m \in Modules :
          /\ importer[m] = None /\ module[m] = "absent"
          /\ module' = [module EXCEPT ![m] = "executing"]
          /\ importer' = [importer EXCEPT ![m] = t]
          /\ packages' = packages \union {Root[m]}
          /\ wrapped' = wrapped /\ patched' = patched /\ loadedAt' = loadedAt
    <3>1. Top(t).module \in Modules
      BY <1>7, TopIsAFrame DEF ImportFinds, At, OfModule
    <3> QED BY <1>7, <3>1 DEF ImportFinds
  <2>2. m \notin patched
    BY <1>2, <2>1
  <2>3. \A x \in Modules : x # m => module'[x] = module[x] /\ importer'[x] = importer[x]
    BY <1>1, <2>1
  <2>4. module'[m] = "executing" /\ importer'[m] = t
    BY <1>1, <2>1
  <2>5. \A x \in Modules : importer'[x] # None <=> module'[x] \in {"executing", "defined"}
    BY <1>2, <1>5, <2>3, <2>4
  <2>6. \A x \in patched' : module'[x] \in {"defined", "loaded"}
    BY <1>1, <1>2, <2>1, <2>2, <2>3
  <2>7. WrappedOnce'
    BY <1>3, <2>1 DEF WrappedOnce
  <2>8. LoadedStays'
    BY <1>1, <1>3, <2>1, <2>3, <2>4 DEF LoadedStays
  <2> QED BY <2>5, <2>6, <2>7, <2>8
<1>8. CASE BodyRuns(t) \/ ImportFails(t) \/ ImportEnds(t)
  <2> DEFINE m == Top(t).module
  <2>1. /\ m \in Modules /\ importer[m] = t
        /\ ImportEnds(t) => module[m] = "defined"
        /\ ~ImportEnds(t) => module[m] = "executing"
    BY <1>8, TopIsOwned
  <2>2. /\ packages' = packages /\ patched' = patched /\ loadedAt' = loadedAt
        /\ \A x \in Modules : x # m => /\ module'[x] = module[x] /\ importer'[x] = importer[x]
                                       /\ wrapped'[x] = wrapped[x]
    BY <1>1, <1>8 DEF BodyRuns, ImportFails, ImportEnds
  <2>3. /\ module[m] \in {"executing", "defined"} /\ Root[m] \in packages
        /\ \A r \in Threads : m \notin loadedAt[r]
    BY <1>3, <2>1 DEF LoadedStays
  <2>4. CASE ImportEnds(t)
    <3>1. module'[m] = "loaded" /\ importer'[m] = None /\ wrapped'[m] = wrapped[m]
      BY <1>1, <2>1, <2>4 DEF ImportEnds
    <3> HIDE DEF m
    <3>2. \A x \in Modules : importer'[x] # None <=> module'[x] \in {"executing", "defined"}
      BY <1>2, <2>2, <3>1
    <3>3. \A x \in patched' : module'[x] \in {"defined", "loaded"}
      BY <1>1, <1>2, <2>2, <3>1
    <3>4. WrappedOnce'
      BY <1>3, <2>2, <3>1 DEF WrappedOnce
    <3>5. LoadedStays'
      BY <1>1, <1>3, <2>2, <2>3, <3>1 DEF LoadedStays
    <3> QED BY <3>2, <3>3, <3>4, <3>5
  <2>5. CASE ~ImportEnds(t)
    <3>1. m \notin patched /\ wrapped[m] = 0
      BY <1>2, <1>3, <2>1, <2>5 DEF WrappedOnce
    <3>2. /\ \/ module'[m] = "defined" /\ importer'[m] = t
             \/ module'[m] = "absent" /\ importer'[m] = None
          /\ wrapped'[m] = 0
      BY <1>1, <1>8, <2>1, <2>5, <3>1 DEF BodyRuns, ImportFails
    <3> HIDE DEF m
    <3>3. \A x \in Modules : importer'[x] # None <=> module'[x] \in {"executing", "defined"}
      BY <1>2, <1>5, <2>2, <3>2
    <3>4. \A x \in patched' : module'[x] \in {"defined", "loaded"}
      BY <1>1, <1>2, <2>2, <3>1
    <3>5. WrappedOnce'
      BY <1>3, <2>2, <3>1, <3>2 DEF WrappedOnce
    <3>6. LoadedStays'
      BY <1>1, <1>3, <2>2, <2>3, <3>2 DEF LoadedStays
    <3> QED BY <3>3, <3>4, <3>5, <3>6
  <2> QED BY <2>4, <2>5
<1>9. CASE Patch(t)
  <2>1. Top(t).module \in Modules
    BY <1>9, TopIsAFrame DEF Patch, At, OfModule
  <2>2. UNCHANGED <<module, importer, packages, loadedAt>>
    BY <1>9 DEF Patch, python
  <2>3. \/ UNCHANGED <<wrapped, patched>>
        \/ /\ module[Top(t).module] \in {"defined", "loaded"}
           /\ wrapped' = [wrapped EXCEPT ![Top(t).module] = Wraps(Top(t).module)]
           /\ patched' = patched \union {Top(t).module}
    BY <1>9 DEF Patch, HasClass
  <2>4. Wraps(Top(t).module) = 1
    BY <1>3, <2>1 DEF Wraps, WrappedOnce
  <2>5. \A x \in patched' : module'[x] \in {"defined", "loaded"}
    BY <1>2, <2>2, <2>3
  <2>6. WrappedOnce'
    BY <1>1, <1>3, <2>1, <2>3, <2>4 DEF WrappedOnce
  <2>7. LoadedStays'
    BY <1>3, <2>2 DEF LoadedStays
  <2> QED BY <1>2, <2>2, <2>5, <2>6, <2>7
<1>10. CASE EnsureLocks(t) \/ EnsureReturns(t)
  <2>1. /\ UNCHANGED <<module, importer, packages, wrapped, patched>>
        /\ \A r \in Threads : \A m \in loadedAt'[r] :
              m \in loadedAt[r] \/ module[m] = "loaded"
    BY <1>1, <1>10 DEF EnsureLocks, EnsureReturns, python
  <2> QED BY <1>2, <1>3, <2>1 DEF WrappedOnce, LoadedStays
<1>11. CASE Uninstall(t)
  <2>1. /\ UNCHANGED <<module, importer, packages, loadedAt>> /\ patched' = {}
        /\ wrapped' = [m \in Modules |-> IF m \in patched THEN 0 ELSE wrapped[m]]
    BY <1>11 DEF Uninstall, python
  <2> QED BY <1>2, <1>3, <2>1 DEF WrappedOnce, LoadedStays
<1>12. CASE \/ ImportHas(t) \/ ImportGivesUp(t) \/ LoopTurns(t) \/ LoopEnds(t)
            \/ (\E m \in Modules : BeginImport(t, m)) \/ BeginEnsure(t)
  <2>1. /\ UNCHANGED <<module, importer, wrapped, patched, loadedAt>>
        /\ packages \subseteq packages'
    BY <1>12 DEF ImportHas, ImportGivesUp, LoopTurns, LoopEnds, BeginImport, BeginEnsure, python
  <2> QED BY <1>6, <2>1
<1> QED BY <1>4, <1>7, <1>8, <1>9, <1>10, <1>11, <1>12 DEF Continue

\* A step keeps the invariant.
LEMMA InvNext ==
    ASSUME Inv, [Next]_vars
    PROVE  Inv'
<1>1. CASE Next
  <2>1. /\ Shapes' /\ module' \in [Modules -> {"absent", "executing", "defined", "loaded"}]
        /\ \A t \in Threads : StackHolds(t)'
    BY <1>1, ShapesStay, StacksHold
  <2>2. /\ \A m \in Modules : importer'[m] # None <=> module'[m] \in {"executing", "defined"}
        /\ \A m \in patched' : module'[m] \in {"defined", "loaded"}
        /\ WrappedOnce' /\ LoadedStays'
    BY <1>1, ModulesStay
  <2>3. owner' = None \/ \E i \in DOMAIN stack'[owner'] : stack'[owner'][i].op = "install"
    <3>1. SUFFICES ASSUME owner' # None
                   PROVE  \E i \in DOMAIN stack'[owner'] : stack'[owner'][i].op = "install"
      OBVIOUS
    <3>2. owner' \in Threads
      BY <2>1, <3>1 DEF Shapes
    <3>3. stack'[owner'] \in Seq(Frames) /\ Len(stack'[owner']) > 0 /\ stack'[owner'][1].op = "install"
      BY <2>1, <3>2 DEF StackHolds, Locked
    <3>4. 1 \in DOMAIN stack'[owner']
      BY <3>3
    <3> QED BY <3>3, <3>4
  <2>4. TypeOK'
    BY <2>1, <2>2, <2>3 DEF TypeOK
  <2> QED BY <2>1, <2>2, <2>4 DEF Inv
<1>2. CASE UNCHANGED vars
  BY <1>2 DEF vars, python, Inv, TypeOK, Shapes, WrappedOnce, LoadedStays, StackHolds,
     WellStacked, Owned, Locked, Covered, Due
<1> QED BY <1>1, <1>2

-----------------------------------------------------------------------------
(* Theorems. *)

\* In every state of every behaviour the stacks are as the code can nest them, the thread
\* that holds _lock is the one in ensure_installed, and every loop has still before it
\* what it has to see to.
THEOREM Invariance == Spec => []Inv
<1>1. Init => Inv
  BY InvInit
<1>2. Inv /\ [Next]_vars => Inv'
  BY InvNext
<1> QED BY <1>1, <1>2, PTL DEF Spec

\* The states of the modules, their locks and _lock fit each other.
THEOREM TypeCorrect == Spec => []TypeOK
<1>1. Inv => TypeOK
  BY DEF Inv
<1> QED BY <1>1, Invariance, PTL

\* However many threads instrument, import and uninstall, the methods of a module have one
\* wrapper when _patched has the module, and none when it has not.
THEOREM NoSecondWrapper == Spec => []WrappedOnce
<1>1. Inv => WrappedOnce
  BY DEF Inv
<1> QED BY <1>1, Invariance, PTL

\* ensure_installed does not return before everything is instrumented that was loaded when
\* it got the lock, for any number of other threads that import and instrument meanwhile.
THEOREM InstalledIsCovered == Spec => EnsureCovers
<1>1. Inv /\ [Next]_vars =>
          [\A t \in Threads : EnsureReturns(t) => loadedAt[t] \subseteq patched']_vars
  <2>1. SUFFICES ASSUME Inv, NEW t \in Threads, EnsureReturns(t)
                 PROVE  loadedAt[t] \subseteq patched'
    OBVIOUS
  <2>2. patched' = patched
    BY <2>1 DEF EnsureReturns
  <2> QED BY <2>1, <2>2, EnsureReturnsHolds
<1> QED BY <1>1, Invariance, PTL DEF Spec, EnsureCovers

\* A thread that ends an import in which the hook is has the module with its wrappers,
\* unless uninstall was called meanwhile.
THEOREM HookedIsCovered == Spec => LaterImportsCovered
<1>1. Inv /\ [Next]_vars =>
          [\A t \in Threads : ImportEnds(t) =>
              LET m == Top(t).module IN m \in hooked \ removed => m \in patched']_vars
  <2>1. SUFFICES ASSUME Inv, NEW t \in Threads, ImportEnds(t),
                        Top(t).module \in hooked \ removed
                 PROVE  Top(t).module \in patched'
    OBVIOUS
  <2> DEFINE s == stack[t]
             n == Len(s)
  <2>2. ~Idle(t) /\ Top(t).op = "loaded" /\ patched' = patched
    BY <2>1 DEF ImportEnds, At
  <2>3. n \in 1..n /\ Top(t) = s[n] /\ Covered(t, s)
    BY <2>1, <2>2, TopIsAFrame
  <2>4. Top(t).module \in Due(t, s[n])
    BY <2>1, <2>2, <2>3 DEF Due
  <2>5. ~Pending(s, n, Top(t).module)
    BY <2>3 DEF Pending
  <2> QED BY <2>2, <2>3, <2>4, <2>5 DEF Covered
<1> QED BY <1>1, Invariance, PTL DEF Spec, LaterImportsCovered
===============================================================================
