----------------------------- MODULE Instrument -----------------------------
(***************************************************************************)
(* Instrumentation of the provider SDKs (the end of interception.py): every *)
(* decorated call begins with ensure_installed, which wraps the methods of  *)
(* SDK modules that are imported already and puts a hook into sys.meta_path *)
(* that wraps those of modules imported later, in whatever thread.          *)
(*                                                                         *)
(* Two kinds of locks meet: _lock, which ensure_installed holds while it    *)
(* imports, and the lock that Python has for each module, which a thread    *)
(* holds while it imports the module and so while the hook waits for _lock. *)
(* The methods of a module are wrapped together: a module stands for them.  *)
(***************************************************************************)
EXTENDS Integers, SequencesExt, FiniteSets

CONSTANTS
    Threads,
    Targets,        \* the modules of PATCH_TARGETS, in that order
    Root,           \* module -> its package in _ROOT_PACKAGES
    Requires,       \* module -> the module that it imports itself, or None
    MaxImports,     \* bound: imports that a program's threads begin
    MaxUninstalls,  \* bound: calls of uninstall
    None

Modules == ToSet(Targets)

ASSUME InstrumentAssumption ==
    /\ {MaxImports, MaxUninstalls} \subseteq Nat
    /\ Targets \in Seq(Modules)
    /\ \A m \in Modules : Requires[m] \in Modules \union {None}
    /\ None \notin Modules \union Threads

VARIABLES
    module,     \* module -> "absent", "executing", "defined" or "loaded"
    importer,   \* module -> the thread that holds its lock, or None
    hooked,     \* the modules whose loader the hook has changed
    packages,   \* the packages in sys.modules
    wrapped,    \* module -> how many wrappers are around its methods
    patched,    \* _patched
    hook,       \* whether _hook is in sys.meta_path
    owner,      \* the thread that holds _lock, or None
    stack,      \* thread -> what it is executing, innermost last
    imports, uninstalls,
    (* History, read by the properties only. *)
    loadedAt,   \* thread -> the modules loaded when it entered ensure_installed
    removed     \* modules whose import was under way in a call of uninstall

python == <<module, importer, hooked, packages>>
vars   == <<python, wrapped, patched, hook, owner, stack, imports, uninstalls,
            loadedAt, removed>>

-----------------------------------------------------------------------------

Idle(t) == stack[t] = <<>>
Top(t) == Last(stack[t])
At(t, op) == ~Idle(t) /\ Top(t).op = op

\* A frame: the module that an import is for, or the next target of a loop.
Importing(m) == [op |-> "import", module |-> m, next |-> 0]
Looping(i)   == [op |-> "loop", module |-> None, next |-> i]
Doing(op)    == [op |-> op, module |-> None, next |-> 0]

Push(t, frame) == stack' = [stack EXCEPT ![t] = Append(@, frame)]
Pop(t)         == stack' = [stack EXCEPT ![t] = Front(@)]

HasLock(t) == owner \in {t, None}

\* An exception of an import: import_module's is caught for each target, and the body
\* of another module may go on without what it required.
AbandonedLoop(s) ==  \* mutant
    IF Len(s) > 1 /\ s[Len(s) - 1].op = "patch"
    THEN SubSeq(s, 1, Len(s) - 3) ELSE Front(s)

Abandoned(s) ==
    IF Len(s) > 1 /\ s[Len(s) - 1].op = "patch"
    THEN SubSeq(s, 1, Len(s) - 2) ELSE Front(s)

\* The module whose lock t waits for, if any.
WaitsFor(t) ==
    IF At(t, "import") /\ importer[Top(t).module] \notin {t, None}
    THEN Top(t).module ELSE None

\* Python does not let threads wait for each other's modules in a circle.
Circle(t) ==
    LET ahead[n \in 0..Cardinality(Threads)] ==
            IF n = 0 THEN t
            ELSE LET m == IF ahead[n - 1] = None THEN None ELSE WaitsFor(ahead[n - 1])
                 IN  IF m = None THEN None ELSE importer[m]
    IN  \E n \in 1..Cardinality(Threads) : ahead[n] = t

Init ==
    /\ module = [m \in Modules |-> "absent"]
    /\ importer = [m \in Modules |-> None]
    /\ hooked = {}
    /\ packages = {}
    /\ wrapped = [m \in Modules |-> 0]
    /\ patched = {}
    /\ hook = FALSE
    /\ owner = None
    /\ stack = [t \in Threads |-> <<>>]
    /\ imports = 0
    /\ uninstalls = 0
    /\ loadedAt = [t \in Threads |-> {}]
    /\ removed = {}

-----------------------------------------------------------------------------
(* Imports, as Python does them. *)

\* A thread imports an SDK, or its package only.
BeginImport(t, m) ==
    /\ Idle(t) /\ imports < MaxImports
    /\ imports' = imports + 1
    /\ packages' = packages \union {Root[m]}
    /\ \/ Push(t, Importing(m))
       \/ UNCHANGED stack
    /\ UNCHANGED <<module, importer, hooked, wrapped, patched, hook, owner, uninstalls,
                   loadedAt, removed>>

\* The import is of a module that t has, or is itself importing further out.
ImportHas(t) ==
    /\ At(t, "import")
    /\ LET m == Top(t).module IN module[m] = "loaded" \/ importer[m] = t
    /\ Pop(t)
    /\ UNCHANGED <<python, wrapped, patched, hook, owner, imports, uninstalls, loadedAt,
                   removed>>

\* t takes the lock of the module and finds it, in its package: the hook, if it is there,
\* changes the loader.  The module begins to execute, and imports what it requires.
ImportFinds(t) ==
    /\ At(t, "import")
    /\ LET m == Top(t).module IN
       /\ module[m] = "absent" /\ importer[m] = None
       /\ module' = [module EXCEPT ![m] = "executing"]
       /\ importer' = [importer EXCEPT ![m] = t]
       /\ packages' = packages \union {Root[m]}
       /\ hooked' = IF hook THEN hooked \union {m} ELSE hooked \ {m}
       /\ removed' = removed \ {m}
       /\ stack' = [stack EXCEPT ![t] =
                       Front(@) \o <<[Importing(m) EXCEPT !.op = "body"]>>
                       \o (IF Requires[m] = None THEN <<>> ELSE <<Importing(Requires[m])>>)]
    /\ UNCHANGED <<wrapped, patched, hook, owner, imports, uninstalls, loadedAt>>

\* A thread that would wait in a circle goes on without the module.
ImportGivesUp(t) ==
    /\ At(t, "import") /\ WaitsFor(t) # None /\ Circle(t)
    /\ stack' = [stack EXCEPT ![t] = Abandoned(@)]
    /\ UNCHANGED <<python, wrapped, patched, hook, owner, imports, uninstalls, loadedAt,
                   removed>>

HookRunsOnce(m) == m \in hooked /\ patched = {}  \* mutant

\* Whether the hook's exec_module is around the body of the module.
HookRuns(m) == m \in hooked

\* The body has run: the classes are there, with their own methods.
BodyRuns(t) ==
    LET m == Top(t).module IN
    /\ At(t, "body")
    /\ module' = [module EXCEPT ![m] = "defined"]
    /\ wrapped' = [wrapped EXCEPT ![m] = 0]
    /\ stack' = [stack EXCEPT ![t] =
                    Front(@) \o <<[Importing(m) EXCEPT !.op = "loaded"]>>
                    \o (IF HookRuns(m) THEN <<Looping(1)>> ELSE <<>>)]
    /\ UNCHANGED <<importer, hooked, packages, patched, hook, owner, imports, uninstalls,
                   loadedAt, removed>>

\* The body raises an exception.
ImportFails(t) ==
    LET m == Top(t).module IN
    /\ At(t, "body")
    /\ module' = [module EXCEPT ![m] = "absent"]
    /\ importer' = [importer EXCEPT ![m] = None]
    /\ stack' = [stack EXCEPT ![t] = Abandoned(@)]
    /\ UNCHANGED <<hooked, packages, wrapped, patched, hook, owner, imports, uninstalls,
                   loadedAt, removed>>

ImportEnds(t) ==
    LET m == Top(t).module IN
    /\ At(t, "loaded")
    /\ module' = [module EXCEPT ![m] = "loaded"]
    /\ importer' = [importer EXCEPT ![m] = None]
    /\ Pop(t)
    /\ UNCHANGED <<hooked, packages, wrapped, patched, hook, owner, imports, uninstalls,
                   loadedAt, removed>>

-----------------------------------------------------------------------------
(* _try_patch_loaded and _patch_module. *)

Skips(m) == m \in patched \/ Root[m] \notin packages

\* The next target is passed over, or its module imported, to be patched then.
LoopTurns(t) ==
    LET i == Top(t).next IN
    /\ At(t, "loop") /\ i <= Len(Targets)
    /\ stack' = [stack EXCEPT ![t] =
                    Front(@) \o <<Looping(i + 1)>>
                    \o (IF Skips(Targets[i]) THEN <<>>
                        ELSE <<[Importing(Targets[i]) EXCEPT !.op = "patch"],
                               Importing(Targets[i])>>)]
    /\ UNCHANGED <<python, wrapped, patched, hook, owner, imports, uninstalls, loadedAt,
                   removed>>

LoopEnds(t) ==
    /\ At(t, "loop") /\ Top(t).next > Len(Targets)
    /\ Pop(t)
    /\ UNCHANGED <<python, wrapped, patched, hook, owner, imports, uninstalls, loadedAt,
                   removed>>

HasClassAlways(m) == TRUE  \* mutant

\* A module that is still executing does not have its classes.
HasClass(m) == module[m] \in {"defined", "loaded"}

WrapsAgain(m) == wrapped[m] + 1  \* mutant

\* Another thread may have been faster.
Wraps(m) == IF m \in patched \/ wrapped[m] # 0 THEN wrapped[m] ELSE 1

Patch(t) ==
    LET m == Top(t).module IN
    /\ At(t, "patch") /\ HasLock(t)
    /\ Pop(t)
    /\ IF HasClass(m)
       THEN /\ wrapped' = [wrapped EXCEPT ![m] = Wraps(m)]
            /\ patched' = patched \union {m}
       ELSE UNCHANGED <<wrapped, patched>>
    /\ UNCHANGED <<python, hook, owner, imports, uninstalls, loadedAt, removed>>

-----------------------------------------------------------------------------
(* ensure_installed and uninstall. *)

\* Only with every SDK installed and patched is there nothing to do.
BeginEnsure(t) ==
    /\ Idle(t)
    /\ ~(hook /\ patched = Modules)
    /\ Push(t, Doing("ensure"))
    /\ UNCHANGED <<python, wrapped, patched, hook, owner, imports, uninstalls, loadedAt,
                   removed>>

EnsureLocks(t) ==
    /\ At(t, "ensure") /\ HasLock(t)
    /\ owner' = t
    /\ stack' = [stack EXCEPT ![t] = Front(@) \o <<Doing("install"), Looping(1)>>]
    /\ loadedAt' = [loadedAt EXCEPT ![t] = {m \in Modules : module[m] = "loaded"}]
    /\ UNCHANGED <<python, wrapped, patched, hook, imports, uninstalls, removed>>

EnsureReturns(t) ==
    /\ At(t, "install")
    /\ hook' = TRUE
    /\ owner' = None
    /\ Pop(t)
    /\ loadedAt' = [loadedAt EXCEPT ![t] = {}]
    /\ UNCHANGED <<python, wrapped, patched, imports, uninstalls, removed>>

Uninstall(t) ==
    /\ Idle(t) /\ HasLock(t) /\ uninstalls < MaxUninstalls
    /\ uninstalls' = uninstalls + 1
    /\ wrapped' = [m \in Modules |-> IF m \in patched THEN 0 ELSE wrapped[m]]
    /\ patched' = {}
    /\ hook' = FALSE
    /\ removed' = removed \union {m \in Modules : importer[m] # None}
    /\ UNCHANGED <<python, owner, stack, imports, loadedAt>>

-----------------------------------------------------------------------------

\* What a thread that is executing something does next.
Continue(t) ==
    \/ ImportHas(t) \/ ImportFinds(t) \/ ImportGivesUp(t)
    \/ BodyRuns(t) \/ ImportFails(t) \/ ImportEnds(t)
    \/ LoopTurns(t) \/ LoopEnds(t) \/ Patch(t)
    \/ EnsureLocks(t) \/ EnsureReturns(t)

Next ==
    \E t \in Threads :
        \/ Continue(t)
        \/ \E m \in Modules : BeginImport(t, m)
        \/ BeginEnsure(t)
        \/ Uninstall(t)

\* Threads run, and a lock that is released again and again is got at last.
Spec == Init /\ [][Next]_vars /\ \A t \in Threads : SF_vars(Continue(t))

-----------------------------------------------------------------------------
(* Properties. *)

TypeOK ==
    /\ module \in [Modules -> {"absent", "executing", "defined", "loaded"}]
    /\ \A m \in Modules : importer[m] # None <=> module[m] \in {"executing", "defined"}
    /\ \A m \in patched : module[m] \in {"defined", "loaded"}
    /\ owner = None \/ \E i \in DOMAIN stack[owner] : stack[owner][i].op = "install"

\* A call passes through one wrapper, however many threads instrument and import at
\* once and whatever uninstall takes away: two would send the request through the
\* pipeline twice.
WrappedOnce == \A m \in Modules : wrapped[m] = IF m \in patched THEN 1 ELSE 0

\* "Instrument already-imported SDKs": what was loaded when a thread got into
\* ensure_installed is instrumented when it returns, though other SDKs fail to import
\* and other threads import them at the same time.
EnsureCovers ==
    [][\A t \in Threads : EnsureReturns(t) => loadedAt[t] \subseteq patched']_vars

\* "... and watch for later imports": a module that Python found with the hook in place
\* is instrumented before the thread that imports it has it.
LaterImportsCovered ==
    [][\A t \in Threads : ImportEnds(t) =>
          LET m == Top(t).module IN m \in hooked \ removed => m \in patched']_vars

\* docs/how-it-works.md: SDKs "imported later" are instrumented "through an import
\* hook": an import that the hook is in comes to its end.
LaterImportsEnd ==
    \A m \in Modules : (module[m] = "defined" /\ m \in hooked) ~> module[m] = "loaded"
=============================================================================
