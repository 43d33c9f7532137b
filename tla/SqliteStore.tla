----------------------------- MODULE SqliteStore -----------------------------
(***************************************************************************)
(* SQLiteStorage (storage/sqlite.py): the cache table of one database file, *)
(* used by threads of several processes.                                   *)
(*                                                                         *)
(* An operation takes the lock of its process, checks the connection, and   *)
(* executes its statements.  The connection is in autocommit mode, so each  *)
(* statement is a transaction of its own, one action here, and statements   *)
(* of other processes come in between.                                     *)
(*                                                                         *)
(* fork() copies the memory of the process, its lock and its connection     *)
(* included, but of its threads only the one that forks.                   *)
(***************************************************************************)
EXTENDS Integers, FiniteSets

CONSTANTS
    Procs, Threads,   \* an agent is a thread of a process
    First,            \* the process that creates the storage
    Keys,
    Ttls,             \* time to live of new entries (None: for ever)
    Kinds,            \* the operations that are called
    MaxCacheEntries,  \* SQLiteStorage.max_cache_entries
    EvictEvery,       \* writes of a process between evictions (500 in the code)
    MaxOps, Weight,   \* bound: operations begun, each by its weight
    MaxFailures,      \* bound: statements that raise
    MaxTime,          \* bound: the clock
    None

Agents == Procs \X Threads

ASSUME StoreAssumption ==
    /\ First \in Procs
    /\ Kinds \subseteq {"get", "set", "evict", "record_hit", "delete", "clear", "close"}
    /\ IsFiniteSet(Keys) /\ IsFiniteSet(Procs)
    /\ Ttls \subseteq Nat \union {None}
    /\ None \notin Int \union Procs \union Threads \union Keys
    /\ MaxCacheEntries \in Nat /\ EvictEvery \in Nat \ {0}
    /\ {MaxOps, MaxFailures, MaxTime} \subseteq Nat
    /\ Weight \in [Kinds \X (Ttls \union {None}) -> Nat \ {0}]

VARIABLES
    table,       \* key -> its row, or None
    now,         \* the clock
    lock,        \* process -> the thread that holds its copy of _lock, or None
    conn,        \* process -> the process that opened its _conn, or None
    writes,      \* process -> its copy of _writes
    at,          \* agent -> the statement it executes next, or what it does else
    op,          \* agent -> its operation: kind, key, time, and what it has read
    ops, failures,
    alone        \* history: no process has been forked, read by properties only

store == <<lock, conn, writes>>
bounds == <<ops, failures>>
vars  == <<table, now, store, at, op, bounds, alone>>

-----------------------------------------------------------------------------
(* Helpers. *)

Present == {k \in Keys : table[k] # None}
Expired(row, time) == row.expires # None /\ row.expires <= time

Alive(p) == \E t \in Threads : at[<<p, t>>] # "absent"

Statements == {"get_select", "get_delete", "get_update", "set_upsert",
               "evict_expired", "evict_count", "evict_oldest",
               "record_hit_update", "delete_delete", "clear_delete", "close_close"}

FirstStatement ==
    [get |-> "get_select", set |-> "set_upsert", evict |-> "evict_expired",
     record_hit |-> "record_hit_update", delete |-> "delete_delete",
     clear |-> "clear_delete", close |-> "close_close"]

Inside(a) == at[a] \in Statements

NeverReconnects(p) == conn[p] = None  \* mutant

\* _db opens a connection: there is none, or the one inherited across fork().
Reconnects(p) == conn[p] = None \/ conn[p] # p

LockFreeAlways(p) == TRUE  \* mutant
LockFree(p) == lock[p] = None

HitsReset(old, new) == new  \* mutant

\* The hits of a row that is written again.
HitsKept(old, new) == IF old > new THEN old ELSE new

ExcessPlusOne(count) == count - MaxCacheEntries + 1  \* mutant
ExcessLessOne(count) == count - MaxCacheEntries - 1  \* mutant
Excess(count) == count - MaxCacheEntries

\* What an operation is called with.
KeysOf(kind) == IF kind \in {"get", "set", "record_hit", "delete"} THEN Keys ELSE {None}
TtlsOf(kind) == IF kind = "set" THEN Ttls ELSE {None}

Idle == [kind |-> None, key |-> None, time |-> 0, ttl |-> None, excess |-> 0]

Init ==
    /\ table = [k \in Keys |-> None]
    /\ now = 0
    /\ lock = [p \in Procs |-> None]
    /\ conn = [p \in Procs |-> IF p = First THEN First ELSE None]
    /\ writes = [p \in Procs |-> 0]
    /\ at = [a \in Agents |-> IF a[1] = First THEN "idle" ELSE "absent"]
    /\ op = [a \in Agents |-> Idle]
    /\ ops = 0
    /\ failures = 0
    /\ alone = TRUE

-----------------------------------------------------------------------------
(* Entering and leaving an operation. *)

\* The time of the operation, and of the entry it writes, is taken before the
\* lock is.
Begin(a, kind, k, ttl) ==
    /\ at[a] = "idle"
    /\ ops + Weight[<<kind, ttl>>] <= MaxOps
    /\ ops' = ops + Weight[<<kind, ttl>>]
    /\ at' = [at EXCEPT ![a] = "waiting"]
    /\ op' = [op EXCEPT ![a] = [Idle EXCEPT !.kind = kind, !.key = k, !.time = now,
                                            !.ttl = ttl]]
    /\ UNCHANGED <<table, now, store, failures, alone>>

Enter(a) ==
    LET p == a[1] IN
    /\ at[a] = "waiting"
    /\ LockFree(p)
    /\ lock' = [lock EXCEPT ![p] = a[2]]
    /\ conn' = [conn EXCEPT ![p] =
                   IF op[a].kind # "close" /\ Reconnects(p) THEN p ELSE @]
    /\ at' = [at EXCEPT ![a] = FirstStatement[op[a].kind]]
    /\ UNCHANGED <<table, now, writes, op, bounds, alone>>

GoOn(a, statement) ==
    /\ at' = [at EXCEPT ![a] = statement]
    /\ UNCHANGED <<lock, op>>

\* The with statement releases the lock.
Leave(a) ==
    /\ at' = [at EXCEPT ![a] = "idle"]
    /\ op' = [op EXCEPT ![a] = Idle]
    /\ lock' = [lock EXCEPT ![a[1]] = None]

-----------------------------------------------------------------------------
(* The statements. *)

Store(rows) == table' = rows /\ UNCHANGED <<now, conn, bounds, alone>>

GetSelect(a) ==
    /\ at[a] = "get_select"
    /\ LET row == table[op[a].key] IN
         IF row = None THEN Leave(a)
         ELSE GoOn(a, IF Expired(row, op[a].time) THEN "get_delete" ELSE "get_update")
    /\ Store(table)
    /\ UNCHANGED writes

\* The row read has expired; the statement deletes whatever row has the key now.
GetDelete(a) ==
    /\ at[a] = "get_delete"
    /\ Store([table EXCEPT ![op[a].key] = None])
    /\ Leave(a)
    /\ UNCHANGED writes

CountHit(k) ==
    IF table[k] = None THEN table ELSE [table EXCEPT ![k].hits = @ + 1]

GetUpdate(a) ==
    /\ at[a] = "get_update"
    /\ Store(CountHit(op[a].key))
    /\ Leave(a)
    /\ UNCHANGED writes

RecordHit(a) ==
    /\ at[a] = "record_hit_update"
    /\ Store(CountHit(op[a].key))
    /\ Leave(a)
    /\ UNCHANGED writes

\* set: insert or rewrite the row, and evict after every EvictEvery-th write.
Upsert(a) ==
    LET o   == op[a]
        p   == a[1]
        row == [created |-> o.time, hits |-> 0,
                expires |-> IF o.ttl = None THEN None ELSE o.time + o.ttl] IN
    /\ at[a] = "set_upsert"
    /\ Store([table EXCEPT ![o.key] =
                 IF @ = None THEN row
                 ELSE [row EXCEPT !.hits = HitsKept(table[o.key].hits, @)]])
    /\ writes' = [writes EXCEPT ![p] = (@ + 1) % EvictEvery]
    /\ IF writes'[p] = 0 THEN GoOn(a, "evict_expired") ELSE Leave(a)

EvictExpired(a) ==
    /\ at[a] = "evict_expired"
    /\ Store([k \in Keys |->
                 IF table[k] # None /\ Expired(table[k], now) THEN None ELSE table[k]])
    /\ GoOn(a, "evict_count")
    /\ UNCHANGED writes

EvictCountUnchecked(a) ==  \* mutant
    /\ at[a] = "evict_count"
    /\ at' = [at EXCEPT ![a] = "evict_oldest"]
    /\ op' = [op EXCEPT ![a].excess = Excess(Cardinality(Present))]
    /\ Store(table)
    /\ UNCHANGED <<lock, writes>>

EvictCount(a) ==
    /\ at[a] = "evict_count"
    /\ IF Excess(Cardinality(Present)) > 0
       THEN /\ at' = [at EXCEPT ![a] = "evict_oldest"]
            /\ op' = [op EXCEPT ![a].excess = Excess(Cardinality(Present))]
            /\ UNCHANGED lock
       ELSE Leave(a)
    /\ Store(table)
    /\ UNCHANGED writes

\* The oldest rows, in any order when they were created at the same time.
EvictOldest(a) ==
    /\ at[a] = "evict_oldest"
    /\ \E oldest \in SUBSET Present :
         /\ Cardinality(oldest) = op[a].excess \/ oldest = Present
         /\ Cardinality(oldest) <= op[a].excess
         /\ \A k \in oldest, l \in Present \ oldest : table[k].created <= table[l].created
         /\ Store([k \in Keys |-> IF k \in oldest THEN None ELSE table[k]])
    /\ Leave(a)
    /\ UNCHANGED writes

Delete(a) ==
    /\ at[a] = "delete_delete"
    /\ Store([table EXCEPT ![op[a].key] = None])
    /\ Leave(a)
    /\ UNCHANGED writes

Clear(a) ==
    /\ at[a] = "clear_delete"
    /\ Store([k \in Keys |-> None])
    /\ Leave(a)
    /\ UNCHANGED writes

Close(a) ==
    /\ at[a] = "close_close"
    /\ conn' = [conn EXCEPT ![a[1]] = None]
    /\ Leave(a)
    /\ UNCHANGED <<table, now, writes, bounds, alone>>

\* A statement raises: the file is locked for too long, or the disk is full.  A
\* close that raises forgets the connection all the same.
Fails(a) ==
    /\ Inside(a)
    /\ failures < MaxFailures
    /\ failures' = failures + 1
    /\ Leave(a)
    /\ conn' = IF at[a] = "close_close" THEN [conn EXCEPT ![a[1]] = None] ELSE conn
    /\ UNCHANGED <<table, now, writes, ops, alone>>

-----------------------------------------------------------------------------
(* The processes. *)

\* A thread that is not inside the store forks its process.
Fork(a, q) ==
    LET p == a[1] IN
    /\ at[a] = "idle"
    /\ q # p /\ ~Alive(q) /\ conn[q] = None
    /\ lock' = [lock EXCEPT ![q] = lock[p]]
    /\ conn' = [conn EXCEPT ![q] = conn[p]]
    /\ writes' = [writes EXCEPT ![q] = writes[p]]
    /\ at' = [at EXCEPT ![<<q, a[2]>>] = "idle"]
    /\ alone' = FALSE
    /\ UNCHANGED <<table, now, op, bounds>>

\* A process is killed, at any point of an operation.
Kill(p) ==
    /\ Alive(p)
    /\ failures < MaxFailures
    /\ failures' = failures + 1
    /\ at' = [a \in Agents |-> IF a[1] = p THEN "absent" ELSE at[a]]
    /\ op' = [a \in Agents |-> IF a[1] = p THEN Idle ELSE op[a]]
    /\ UNCHANGED <<table, now, store, ops, alone>>

Tick ==
    /\ now < MaxTime
    /\ now' = now + 1
    /\ UNCHANGED <<table, store, at, op, bounds, alone>>

\* No operation is left: the only way for the system to stop.
Finished ==
    /\ \A a \in Agents : at[a] \in {"absent", "idle"}
    /\ UNCHANGED vars

Statement(a) ==
    \/ GetSelect(a) \/ GetDelete(a) \/ GetUpdate(a) \/ RecordHit(a)
    \/ Upsert(a) \/ EvictExpired(a) \/ EvictCount(a) \/ EvictOldest(a)
    \/ Delete(a) \/ Clear(a) \/ Close(a)

Next ==
    \/ \E a \in Agents :
         \/ \E kind \in Kinds : \E k \in KeysOf(kind), ttl \in TtlsOf(kind) :
              Begin(a, kind, k, ttl)
         \/ Enter(a)
         \/ Statement(a)
         \/ Fails(a)
         \/ \E q \in Procs : Fork(a, q)
    \/ \E p \in Procs : Kill(p)
    \/ Tick
    \/ Finished

\* A statement ends, at the latest with the busy timeout of SQLite, and a thread
\* that waits for a lock that is released again and again gets it.
Fairness == \A a \in Agents : WF_vars(Statement(a)) /\ SF_vars(Enter(a))

Spec == Init /\ [][Next]_vars /\ Fairness

-----------------------------------------------------------------------------
(* Properties. *)

TypeOK ==
    /\ \A k \in Present : table[k].hits \in Nat /\ table[k].created \in 0..MaxTime
    /\ lock \in [Procs -> Threads \union {None}]
    /\ conn \in [Procs -> Procs \union {None}]
    /\ writes \in [Procs -> 0..(EvictEvery - 1)]
    /\ at \in [Agents -> Statements \union {"absent", "idle", "waiting"}]
    /\ \A a \in Agents : at[a] = "evict_oldest" => op[a].excess > 0

\* No statement is executed over a connection that was opened before the fork.  close
\* is left out: it does not go through _db, executes no statement, and in a child
\* closes what it finds, the inherited connection included, which _db keeps open so
\* that it is not closed "underneath the parent process" (sqlite.py).
OwnConnection ==
    \A a \in Agents : Inside(a) /\ op[a].kind # "close" => conn[a[1]] = a[1]

\* The table outgrows max_cache_entries by the writes between two evictions of each
\* process there is, and by as many for each statement that raised and each process
\* that was killed, which may have lost an eviction: and by no more.
Bounded ==
    LET writers == {p \in Procs : Alive(p)}
    IN  Cardinality(Present)
           <= MaxCacheEntries + EvictEvery * (Cardinality(writers) + failures)

\* A row that is written again keeps the hits it has counted.
RewriteKeepsHits ==
    [][\A k \in Keys : table[k] # None /\ table'[k] # None =>
          table'[k].hits >= table[k].hits]_vars

\* Within one process a lookup drops nothing but expired entries: no write comes
\* between its select and its delete.
LookupDropsExpired ==
    [][\A a \in Agents : alone /\ GetDelete(a) =>
          \A k \in Present : table'[k] = None => Expired(table[k], now)]_vars

\* Within one process an eviction drops entries that have expired, and beyond them
\* only as many as there are too many.
EvictsOnlyExcess ==
    [][\A a \in Agents : alone /\ EvictOldest(a) =>
          \/ Cardinality({k \in Keys : table'[k] # None}) >= MaxCacheEntries
          \/ table' = table]_vars

\* sqlite.py: "Thread-safe, fork-safe".  An operation that waits for the lock gets
\* it, unless its process is killed.
EveryoneEnters == \A a \in Agents : at[a] = "waiting" ~> at[a] # "waiting"
=============================================================================
