-------------------------- MODULE SqliteStoreProofs --------------------------
(***************************************************************************)
(* Proofs about SqliteStore, for any number of processes, threads, keys    *)
(* and failures, any eviction period and any table size.                   *)
(***************************************************************************)
EXTENDS SqliteStore, FiniteSetTheorems, TLAPS

-----------------------------------------------------------------------------
(* The inductive invariant. *)

Rows == [created : 0..MaxTime, hits : Nat, expires : Int \union {None}]

Operations ==
    [kind : Kinds \union {None}, key : Keys \union {None}, time : 0..MaxTime,
     ttl : Ttls \union {None}, excess : Int]

\* The statements of an operation of a kind; a write may go on with an eviction.
StatementsOf ==
    [get |-> {"get_select", "get_delete", "get_update"},
     set |-> {"set_upsert", "evict_expired", "evict_count", "evict_oldest"},
     evict |-> {"evict_expired", "evict_count", "evict_oldest"},
     record_hit |-> {"record_hit_update"}, delete |-> {"delete_delete"},
     clear |-> {"clear_delete"}, close |-> {"close_close"}]

KeyedKinds == {"get", "set", "record_hit", "delete"}

Shapes ==
    /\ table \in [Keys -> Rows \union {None}]
    /\ now \in 0..MaxTime
    /\ op \in [Agents -> Operations]
    /\ alone \in BOOLEAN

\* Threads inside the store hold the lock of their process: no two of one process are.
HoldsLock == \A a \in Agents : Inside(a) => lock[a[1]] = a[2]

\* An agent executes the statements of its operation, on a key if the operation has
\* one, and its time is not ahead of the clock.
DoesItsOperation ==
    \A a \in Agents :
        /\ at[a] \notin {"idle", "absent"} =>
              op[a].kind \in Kinds /\ (op[a].kind \in KeyedKinds => op[a].key \in Keys)
        /\ Inside(a) => at[a] \in StatementsOf[op[a].kind]
        /\ op[a].time <= now

\* Before the first fork there is only one process.
OnlyFirst == alone => \A a \in Agents : a[1] # First => at[a] = "absent"

\* What one process has read is still true when it deletes.
ReadStillTrue ==
    alone =>
        \A a \in Agents :
            /\ at[a] = "get_delete" =>
                  table[op[a].key] = None \/ Expired(table[op[a].key], op[a].time)
            /\ at[a] = "evict_oldest" => op[a].excess = Excess(Cardinality(Present))

Inv ==
    /\ TypeOK /\ Shapes /\ HoldsLock /\ DoesItsOperation /\ OwnConnection /\ OnlyFirst
    /\ ReadStillTrue

-----------------------------------------------------------------------------
(* What a statement does besides changing the table. *)

\* The table is as small as its keys are finite.
LEMMA PresentIsFinite == IsFiniteSet(Present) /\ Cardinality(Present) \in Nat
<1>1. Present \subseteq Keys /\ IsFiniteSet(Keys)
  BY StoreAssumption DEF Present
<1> QED BY <1>1, FS_Subset, FS_CardinalityType

\* A statement is the step of one thread inside the store: it goes on with another
\* statement of its operation, or leaves and releases the lock; only close touches the
\* connection.
LEMMA StatementIsLocal ==
    ASSUME TypeOK, Shapes, DoesItsOperation, NEW a \in Agents, Statement(a)
    PROVE  /\ Inside(a) /\ now' = now /\ alone' = alone
           /\ at' \in [Agents -> Statements \union {"absent", "idle", "waiting"}]
           /\ op' \in [Agents -> Operations]
           /\ \A b \in Agents : b # a => at'[b] = at[b] /\ op'[b] = op[b]
           /\ \/ at'[a] = "idle" /\ op'[a] = Idle /\ lock' = [lock EXCEPT ![a[1]] = None]
              \/ /\ at'[a] \in StatementsOf[op[a].kind] /\ at'[a] \in Statements
                 /\ op'[a].kind = op[a].kind /\ op'[a].key = op[a].key
                 /\ op'[a].time = op[a].time
                 /\ lock' = lock
           /\ conn' = conn \/ (at[a] = "close_close" /\ conn' = [conn EXCEPT ![a[1]] = None])
           /\ at'[a] # "get_delete" \/ (at[a] = "get_select" /\ GetSelect(a))
           /\ at'[a] # "evict_oldest" \/ (at[a] = "evict_count" /\ EvictCount(a))
<1> USE DEF Store
<1>1. Idle \in Operations
  BY StoreAssumption DEF Idle, Operations
<1>0. /\ at[a] = "get_select" => op[a].kind = "get"
      /\ at[a] = "set_upsert" => op[a].kind = "set"
      /\ at[a] \in {"evict_expired", "evict_count"} => op[a].kind \in {"set", "evict"}
  <2>1. CASE ~Inside(a)
    BY <2>1 DEF Inside, Statements
  <2>2. CASE Inside(a)
    <3>1. at[a] \notin {"idle", "absent"} /\ at[a] \in StatementsOf[op[a].kind]
      BY <2>2 DEF DoesItsOperation, Inside, Statements
    <3>2. op[a].kind \in {"get", "set", "evict", "record_hit", "delete", "clear", "close"}
      BY <3>1, StoreAssumption DEF DoesItsOperation
    <3> QED BY <3>1, <3>2 DEF StatementsOf
  <2> QED BY <2>1, <2>2
<1>2. CASE GetSelect(a)
  <2>1. \/ Leave(a)
        \/ \E st \in {"get_delete", "get_update"} : GoOn(a, st)
    BY <1>2 DEF GetSelect
  <2>2. at[a] = "get_select" /\ conn' = conn /\ now' = now /\ alone' = alone
    BY <1>2 DEF GetSelect
  <2>3. CASE Leave(a)
    BY <1>1, <2>2, <2>3 DEF Leave, Inside, Statements, TypeOK, Shapes
  <2>4. ASSUME NEW st \in {"get_delete", "get_update"}, GoOn(a, st)
        PROVE  /\ at'[a] \in StatementsOf[op[a].kind] /\ at'[a] \in Statements
               /\ op' = op /\ lock' = lock /\ at' = [at EXCEPT ![a] = st]
               /\ at' \in [Agents -> Statements \union {"absent", "idle", "waiting"}]
    BY <1>0, <2>2, <2>4 DEF GoOn, Statements, StatementsOf, TypeOK
  <2> QED BY <1>2, <2>1, <2>2, <2>3, <2>4 DEF Inside, Statements, Shapes
<1>3. CASE GetDelete(a)
  BY <1>1, <1>3 DEF GetDelete, Leave, Inside, Statements, TypeOK, Shapes
<1>4. CASE GetUpdate(a)
  BY <1>1, <1>4 DEF GetUpdate, Leave, Inside, Statements, TypeOK, Shapes
<1>5. CASE RecordHit(a)
  BY <1>1, <1>5 DEF RecordHit, Leave, Inside, Statements, TypeOK, Shapes
<1>6. CASE Upsert(a)
  <2>1. Leave(a) \/ GoOn(a, "evict_expired")
    BY <1>6 DEF Upsert
  <2>2. at[a] = "set_upsert" /\ conn' = conn /\ now' = now /\ alone' = alone
    BY <1>6 DEF Upsert
  <2>3. CASE Leave(a)
    BY <1>1, <2>2, <2>3 DEF Leave, Inside, Statements, TypeOK, Shapes
  <2>4. CASE GoOn(a, "evict_expired")
    <3>1. /\ at'[a] \in StatementsOf[op[a].kind] /\ at'[a] \in Statements
          /\ op' = op /\ lock' = lock /\ at' = [at EXCEPT ![a] = "evict_expired"]
          /\ at' \in [Agents -> Statements \union {"absent", "idle", "waiting"}]
      BY <1>0, <2>2, <2>4 DEF GoOn, Statements, StatementsOf, TypeOK
    <3> QED BY <2>2, <3>1 DEF Inside, Statements, Shapes
  <2> QED BY <2>1, <2>3, <2>4
<1>7. CASE EvictExpired(a)
  <2>1. at[a] = "evict_expired" /\ conn' = conn /\ now' = now /\ alone' = alone
    BY <1>7 DEF EvictExpired
  <2>2. /\ at'[a] \in StatementsOf[op[a].kind] /\ at'[a] \in Statements
        /\ op' = op /\ lock' = lock /\ at' = [at EXCEPT ![a] = "evict_count"]
        /\ at' \in [Agents -> Statements \union {"absent", "idle", "waiting"}]
    BY <1>0, <1>7, <2>1 DEF EvictExpired, GoOn, Statements, StatementsOf, TypeOK
  <2> QED BY <2>1, <2>2 DEF Inside, Statements, Shapes
<1>8. CASE EvictCount(a)
  <2>1. at[a] = "evict_count" /\ conn' = conn /\ now' = now /\ alone' = alone
    BY <1>8 DEF EvictCount
  <2>2. CASE Leave(a)
    BY <1>1, <2>1, <2>2 DEF Leave, Inside, Statements, TypeOK, Shapes
  <2>3. CASE ~Leave(a)
    <3> DEFINE o == [op[a] EXCEPT !.excess = Excess(Cardinality(Present))]
    <3>1. /\ at' = [at EXCEPT ![a] = "evict_oldest"] /\ lock' = lock
          /\ op' = [op EXCEPT ![a] = o]
      BY <1>8, <2>3 DEF EvictCount, Shapes
    <3>2. Excess(Cardinality(Present)) \in Int
      BY PresentIsFinite, StoreAssumption DEF Excess
    <3>3. /\ o \in Operations
          /\ o.kind = op[a].kind /\ o.key = op[a].key /\ o.time = op[a].time
      <4> HIDE DEF Excess
      <4> QED BY <3>2 DEF Shapes, Operations
    <3> HIDE DEF o
    <3>4. /\ at'[a] \in StatementsOf[op[a].kind] /\ at'[a] \in Statements
          /\ at' \in [Agents -> Statements \union {"absent", "idle", "waiting"}]
          /\ at'[a] # "get_delete"
      BY <1>0, <2>1, <3>1 DEF Statements, StatementsOf, TypeOK
    <3>5. op' \in [Agents -> Operations] /\ op'[a] = o
      BY <3>1, <3>3 DEF Shapes
    <3> QED BY <1>8, <2>1, <3>1, <3>3, <3>4, <3>5 DEF Inside, Statements, Shapes, TypeOK
  <2> QED BY <2>2, <2>3
<1>9. CASE EvictOldest(a)
  BY <1>1, <1>9 DEF EvictOldest, Leave, Inside, Statements, TypeOK, Shapes
<1>10. CASE Delete(a)
  BY <1>1, <1>10 DEF Delete, Leave, Inside, Statements, TypeOK, Shapes
<1>11. CASE Clear(a)
  BY <1>1, <1>11 DEF Clear, Leave, Inside, Statements, TypeOK, Shapes
<1>12. CASE Close(a)
  BY <1>1, <1>12 DEF Close, Leave, Inside, Statements, TypeOK, Shapes
<1> QED BY <1>2, <1>3, <1>4, <1>5, <1>6, <1>7, <1>8, <1>9, <1>10, <1>11, <1>12
        DEF Statement

\* Inside the store, an agent has an operation, is at one of its statements, and has the
\* key the statement is about.
LEMMA InsideIsAnOperation ==
    ASSUME DoesItsOperation, NEW a \in Agents, Inside(a)
    PROVE  /\ op[a].kind \in {"get", "set", "evict", "record_hit", "delete", "clear", "close"}
           /\ op[a].kind \in Kinds
           /\ at[a] \in StatementsOf[op[a].kind]
           /\ at[a] \in {"get_select", "get_delete", "get_update", "set_upsert",
                         "record_hit_update", "delete_delete"} => op[a].key \in Keys
           /\ at[a] = "close_close" => op[a].kind = "close"
<1>1. at[a] \notin {"idle", "absent"} /\ at[a] \in StatementsOf[op[a].kind]
  BY DEF DoesItsOperation, Inside, Statements
<1>2. op[a].kind \in {"get", "set", "evict", "record_hit", "delete", "clear", "close"}
  BY <1>1, StoreAssumption DEF DoesItsOperation
<1>3. op[a].kind \in KeyedKinds => op[a].key \in Keys
  BY <1>1 DEF DoesItsOperation
<1> QED BY <1>1, <1>2, <1>3 DEF StatementsOf, KeyedKinds, DoesItsOperation

\* Two agents inside the store belong to different processes, and before the first fork
\* there are not two.
LEMMA OneInsideAProcess ==
    ASSUME HoldsLock, OnlyFirst, NEW a \in Agents, NEW b \in Agents, Inside(a), Inside(b),
           alone \/ a[1] = b[1]
    PROVE  a = b
<1>1. lock[a[1]] = a[2] /\ lock[b[1]] = b[2]
  BY DEF HoldsLock
<1>2. a[1] = b[1]
  BY DEF OnlyFirst, Inside, Statements
<1> QED BY <1>1, <1>2 DEF Agents

\* A statement keeps the rows well formed, counts the writes of its process below the
\* eviction period, and never lowers the hits of a row that stays.
LEMMA StatementKeepsRows ==
    ASSUME TypeOK, Shapes, DoesItsOperation, NEW a \in Agents, Statement(a)
    PROVE  /\ table' \in [Keys -> Rows \union {None}]
           /\ writes' \in [Procs -> 0..(EvictEvery - 1)]
           /\ \A k \in Keys : table[k] # None /\ table'[k] # None =>
                 table'[k].hits >= table[k].hits
<1> USE DEF Store
<1>0. /\ Inside(a) /\ op[a] \in Operations
      /\ at[a] \in {"get_select", "get_delete", "get_update", "set_upsert",
                    "record_hit_update", "delete_delete"} => op[a].key \in Keys
      /\ at[a] = "set_upsert" => op[a].kind = "set"
  BY StatementIsLocal, InsideIsAnOperation DEF Shapes, StatementsOf
<1>1. ASSUME NEW k \in Keys, table[k] # None
      PROVE  table[k] \in Rows
  BY <1>1 DEF Shapes
<1>2. ASSUME table' = table, writes' = writes
      PROVE  /\ table' \in [Keys -> Rows \union {None}]
             /\ writes' \in [Procs -> 0..(EvictEvery - 1)]
             /\ \A k \in Keys : table[k] # None /\ table'[k] # None =>
                   table'[k].hits >= table[k].hits
  BY <1>1, <1>2 DEF Shapes, TypeOK, Rows
<1>3. ASSUME table' \in [Keys -> Rows \union {None}], writes' = writes,
             \A k \in Keys : table'[k] = table[k] \/ table'[k] = None
      PROVE  /\ writes' \in [Procs -> 0..(EvictEvery - 1)]
             /\ \A k \in Keys : table[k] # None /\ table'[k] # None =>
                   table'[k].hits >= table[k].hits
  BY <1>1, <1>3 DEF Shapes, TypeOK, Rows
<1>4. ASSUME NEW k \in Keys, table' = CountHit(k), writes' = writes
      PROVE  /\ table' \in [Keys -> Rows \union {None}]
             /\ writes' \in [Procs -> 0..(EvictEvery - 1)]
             /\ \A l \in Keys : table[l] # None /\ table'[l] # None =>
                   table'[l].hits >= table[l].hits
  <2>1. CASE table[k] = None
    BY <1>2, <1>4, <2>1 DEF CountHit
  <2>2. CASE table[k] # None
    <3> DEFINE r == [table[k] EXCEPT !.hits = table[k].hits + 1]
    <3>1. table[k] \in Rows /\ r \in Rows /\ r.hits > table[k].hits
      BY <1>1, <2>2 DEF Rows
    <3>2. table' = [table EXCEPT ![k] = r]
      BY <1>4, <2>2 DEF CountHit
    <3>3. \A l \in Keys : table[l] # None => table[l].hits \in Nat
      BY <1>1 DEF Rows
    <3>4. r.hits \in Nat
      BY <3>1 DEF Rows
    <3> HIDE DEF r
    <3> QED BY <1>4, <3>1, <3>2, <3>3, <3>4 DEF Shapes, TypeOK
  <2> QED BY <2>1, <2>2
<1>5. CASE Upsert(a)
  <2> DEFINE o == op[a]
             row == [created |-> o.time, hits |-> 0,
                     expires |-> IF o.ttl = None THEN None ELSE o.time + o.ttl]
             k == o.key
  <2>1. at[a] = "set_upsert" /\ k \in Keys
    BY <1>0, <1>5 DEF Upsert
  <2>2. row \in Rows
    <3>1. o.time \in 0..MaxTime /\ (o.ttl = None \/ o.ttl \in Nat)
      BY <1>0, StoreAssumption DEF Operations
    <3>2. (IF o.ttl = None THEN None ELSE o.time + o.ttl) \in Int \union {None}
      BY <3>1
    <3> HIDE DEF o
    <3> QED BY <3>1, <3>2 DEF Rows
  <2>3. table' = [table EXCEPT ![k] = IF table[k] = None THEN row
                                      ELSE [row EXCEPT !.hits = HitsKept(table[k].hits, 0)]]
    BY <1>5, <2>1 DEF Upsert, Shapes
  <2>4. table[k] # None =>
          /\ [row EXCEPT !.hits = HitsKept(table[k].hits, 0)] \in Rows
          /\ [row EXCEPT !.hits = HitsKept(table[k].hits, 0)].hits >= table[k].hits
    BY <1>1, <2>1, <2>2 DEF HitsKept, Rows
  <2>5. a[1] \in Procs
    BY DEF Agents
  <2>6. writes' = [writes EXCEPT ![a[1]] = (writes[a[1]] + 1) % EvictEvery]
    BY <1>5 DEF Upsert
  <2>7. (writes[a[1]] + 1) % EvictEvery \in 0..(EvictEvery - 1)
    BY <2>5, StoreAssumption DEF TypeOK
  <2>8. \A l \in Keys : table[l] # None => table[l].hits \in Nat
    BY <1>1 DEF Rows
  <2> HIDE DEF row
  <2>9. table' \in [Keys -> Rows \union {None}]
    BY <2>1, <2>2, <2>3, <2>4 DEF Shapes
  <2>10. \A l \in Keys : table[l] # None /\ table'[l] # None => table'[l].hits >= table[l].hits
    BY <2>1, <2>3, <2>4, <2>8 DEF Shapes
  <2> QED BY <2>5, <2>6, <2>7, <2>9, <2>10 DEF TypeOK
<1>6. CASE GetSelect(a)
  BY <1>2, <1>6 DEF GetSelect
<1>7. CASE GetDelete(a)
  BY <1>3, <1>7 DEF GetDelete, Shapes
<1>8. CASE GetUpdate(a)
  BY <1>0, <1>4, <1>8 DEF GetUpdate
<1>9. CASE RecordHit(a)
  BY <1>0, <1>4, <1>9 DEF RecordHit
<1>10. CASE EvictExpired(a)
  BY <1>3, <1>10 DEF EvictExpired, Shapes
<1>11. CASE EvictCount(a)
  BY <1>2, <1>11 DEF EvictCount
<1>12. CASE EvictOldest(a)
  BY <1>3, <1>12 DEF EvictOldest, Shapes
<1>13. CASE Delete(a)
  BY <1>3, <1>13 DEF Delete, Shapes
<1>14. CASE Clear(a)
  BY <1>3, <1>14 DEF Clear, Shapes
<1>15. CASE Close(a)
  BY <1>2, <1>15 DEF Close
<1> QED BY <1>5, <1>6, <1>7, <1>8, <1>9, <1>10, <1>11, <1>12, <1>13, <1>14, <1>15
        DEF Statement

-----------------------------------------------------------------------------
(* The invariant holds initially, and every step preserves it. *)

\* The invariant holds of a new storage.
LEMMA InvInit == Init => Inv
<1> SUFFICES ASSUME Init PROVE Inv
  OBVIOUS
<1> USE DEF Init
<1>1. 0 \in 0..MaxTime /\ 0 \in 0..(EvictEvery - 1) /\ Idle \in Operations
  BY StoreAssumption DEF Idle, Operations
<1>2. \A a \in Agents : /\ at[a] \in {"idle", "absent"} /\ ~Inside(a) /\ op[a] = Idle
                        /\ a[1] # First => at[a] = "absent"
  BY DEF Inside, Statements
<1>3. table \in [Keys -> {None}] /\ Present = {}
  BY DEF Present
<1>4. TypeOK
  BY <1>1, <1>2, <1>3, StoreAssumption DEF TypeOK
<1>5. Shapes
  BY <1>1, <1>3 DEF Shapes
<1>6. HoldsLock /\ OwnConnection /\ OnlyFirst /\ ReadStillTrue
  BY <1>2 DEF HoldsLock, OwnConnection, OnlyFirst, ReadStillTrue
<1>7. DoesItsOperation
  BY <1>2 DEF DoesItsOperation, Idle
<1> QED BY <1>4, <1>5, <1>6, <1>7 DEF Inv

\* A statement preserves the invariant.
LEMMA StatementKeepsInv ==
    ASSUME Inv, NEW a \in Agents, Statement(a)
    PROVE  Inv'
<1> USE DEF Inv
<1> DEFINE next == at'[a]
<1>1. /\ Inside(a) /\ now' = now /\ alone' = alone
      /\ at' \in [Agents -> Statements \union {"absent", "idle", "waiting"}]
      /\ op' \in [Agents -> Operations]
      /\ \A b \in Agents : b # a => at'[b] = at[b] /\ op'[b] = op[b]
  BY StatementIsLocal
<1>2. \/ at'[a] = "idle" /\ op'[a] = Idle /\ lock' = [lock EXCEPT ![a[1]] = None]
      \/ /\ at'[a] \in StatementsOf[op[a].kind] /\ at'[a] \in Statements
         /\ op'[a].kind = op[a].kind /\ op'[a].key = op[a].key
         /\ op'[a].time = op[a].time
         /\ lock' = lock
  BY StatementIsLocal
<1>3. conn' = conn \/ (at[a] = "close_close" /\ conn' = [conn EXCEPT ![a[1]] = None])
  BY StatementIsLocal
<1>4. /\ at'[a] # "get_delete" \/ (at[a] = "get_select" /\ GetSelect(a))
      /\ at'[a] # "evict_oldest" \/ (at[a] = "evict_count" /\ EvictCount(a))
  BY StatementIsLocal
<1>5. /\ table' \in [Keys -> Rows \union {None}]
      /\ writes' \in [Procs -> 0..(EvictEvery - 1)]
  BY StatementKeepsRows
<1>6. a[1] \in Procs /\ a[2] \in Threads /\ a = <<a[1], a[2]>>
  BY DEF Agents
<1>7. \A b \in Agents : Inside(b) /\ (alone \/ b[1] = a[1]) => b = a
  BY <1>1, OneInsideAProcess
<1>8. \A b \in Agents : b # a => (Inside(b)' <=> Inside(b))
  BY <1>1 DEF Inside
<1>9. op[a].kind \in Kinds /\ (op[a].kind \in KeyedKinds => op[a].key \in Keys)
      /\ (at[a] = "close_close" => op[a].kind = "close") /\ op[a].time <= now
  BY <1>1, InsideIsAnOperation DEF KeyedKinds, DoesItsOperation, StatementsOf, Inside, Statements
<1>10. TypeOK'
  <2>1. \A k \in Keys : table'[k] # None =>
           table'[k].hits \in Nat /\ table'[k].created \in 0..MaxTime
    BY <1>5 DEF Rows
  <2>2. lock' \in [Procs -> Threads \union {None}]
    BY <1>2, <1>6 DEF TypeOK
  <2>3. conn' \in [Procs -> Procs \union {None}]
    BY <1>3, <1>6 DEF TypeOK
  <2>4. at'[a] = "evict_oldest" => op'[a].excess > 0
    <3>1. SUFFICES ASSUME at'[a] = "evict_oldest" PROVE op'[a].excess > 0
      OBVIOUS
    <3>2. EvictCount(a) /\ at'[a] # "idle"
      BY <1>4, <3>1
    <3>3. /\ Excess(Cardinality(Present)) > 0
          /\ op' = [op EXCEPT ![a].excess = Excess(Cardinality(Present))]
      BY <3>2, StatementIsLocal DEF EvictCount, Leave, TypeOK
    <3> QED BY <3>3 DEF Shapes, Operations
  <2>5. \A b \in Agents : at'[b] = "evict_oldest" => op'[b].excess > 0
    BY <1>1, <2>4 DEF TypeOK
  <2> QED BY <1>1, <1>5, <2>1, <2>2, <2>3, <2>5 DEF TypeOK, Present
<1>11. Shapes'
  BY <1>1, <1>5 DEF Shapes
<1>12. HoldsLock'
  <2>1. ASSUME NEW b \in Agents, Inside(b)'
        PROVE  lock'[b[1]] = b[2]
    <3>1. CASE b = a
      BY <1>1, <1>2, <2>1, <3>1 DEF HoldsLock, Inside, Statements
    <3>2. CASE b # a
      <4>1. Inside(b) /\ lock[b[1]] = b[2] /\ b[1] # a[1] /\ b[1] \in Procs
        BY <1>7, <1>8, <2>1, <3>2 DEF HoldsLock, Agents
      <4> QED BY <1>2, <1>6, <4>1 DEF TypeOK
    <3> QED BY <3>1, <3>2
  <2> QED BY <2>1 DEF HoldsLock
<1>13. DoesItsOperation'
  <2>1. ASSUME NEW b \in Agents
        PROVE  /\ at'[b] \notin {"idle", "absent"} =>
                     /\ op'[b].kind \in Kinds
                     /\ op'[b].kind \in KeyedKinds => op'[b].key \in Keys
               /\ at'[b] \in Statements => at'[b] \in StatementsOf[op'[b].kind]
               /\ op'[b].time <= now'
    <3>1. CASE b # a
      BY <1>1, <3>1 DEF DoesItsOperation, Inside
    <3>2. CASE b = a /\ at'[a] = "idle" /\ op'[a] = Idle
      <4>1. Idle.time <= now' /\ "idle" \notin Statements
        BY <1>1 DEF Idle, Statements, Shapes
      <4> QED BY <3>2, <4>1
    <3>3. CASE b = a /\ ~(at'[a] = "idle" /\ op'[a] = Idle)
      BY <1>1, <1>2, <1>9, <3>3
    <3> QED BY <3>1, <3>2, <3>3
  <2> QED BY <2>1 DEF DoesItsOperation, Inside
<1>14. OwnConnection'
  <2>1. ASSUME NEW b \in Agents, at'[b] \in Statements, op'[b].kind # "close"
        PROVE  conn'[b[1]] = b[1]
    <3>1. at[b] \in Statements /\ op[b].kind # "close"
      BY <1>1, <1>2, <2>1 DEF Inside, Statements
    <3>2. conn[b[1]] = b[1]
      BY <3>1 DEF OwnConnection, Inside
    <3>3. CASE conn' = conn
      BY <3>2, <3>3
    <3>4. CASE conn' # conn
      <4>1. b # a /\ b[1] # a[1] /\ b[1] \in Procs
        BY <1>3, <1>7, <1>9, <3>1, <3>4 DEF Inside, Agents
      <4> QED BY <1>3, <1>6, <3>2, <3>4, <4>1 DEF TypeOK
    <3> QED BY <3>3, <3>4
  <2> QED BY <2>1 DEF OwnConnection, Inside
<1>15. OnlyFirst'
  BY <1>1, <1>2 DEF OnlyFirst, Inside, Statements
<1>16. ReadStillTrue'
  <2>0. SUFFICES ASSUME alone', NEW b \in Agents
        PROVE  /\ at'[b] = "get_delete" =>
                     table'[op'[b].key] = None \/ Expired(table'[op'[b].key], op'[b].time)
               /\ at'[b] = "evict_oldest" => op'[b].excess = Excess(Cardinality(Present'))
    BY DEF ReadStillTrue, Present, Excess, Expired
  <2>1. CASE b # a
    <3>1. ~Inside(b)
      BY <1>1, <1>7, <2>0, <2>1
    <3> QED BY <1>1, <2>1, <3>1 DEF Inside, Statements
  <2>2. CASE b = a
    <3>1. ASSUME at'[a] = "get_delete"
          PROVE  table'[op'[a].key] = None \/ Expired(table'[op'[a].key], op'[a].time)
      <4>1. GetSelect(a) /\ at'[a] # "idle"
        BY <1>4, <3>1
      <4>2. ~Leave(a)
        BY <4>1 DEF Leave, TypeOK
      <4>3. table' = table /\ op' = op
        BY <4>1, <4>2 DEF GetSelect, GoOn, Store
      <4>4. CASE Expired(table[op[a].key], op[a].time)
        BY <4>3, <4>4 DEF Expired
      <4>5. CASE ~Expired(table[op[a].key], op[a].time)
        <5>1. GoOn(a, "get_update")
          BY <4>1, <4>2, <4>5 DEF GetSelect
        <5> QED BY <3>1, <5>1 DEF GoOn, TypeOK
      <4> QED BY <4>4, <4>5
    <3>2. ASSUME at'[a] = "evict_oldest"
          PROVE  op'[a].excess = Excess(Cardinality(Present'))
      <4>1. EvictCount(a) /\ ~Leave(a)
        BY <1>4, <3>2 DEF Leave, TypeOK
      <4>2. table' = table /\ op' = [op EXCEPT ![a].excess = Excess(Cardinality(Present))]
        BY <4>1 DEF EvictCount, Store
      <4>3. Present' = Present
        BY <4>2 DEF Present
      <4> QED BY <4>2, <4>3 DEF Shapes, Operations
    <3> QED BY <2>2, <3>1, <3>2
  <2> QED BY <2>1, <2>2
<1> QED BY <1>10, <1>11, <1>12, <1>13, <1>14, <1>15, <1>16

\* Entering, forking and the other steps preserve the invariant.
LEMMA InvStep == Inv /\ [Next]_vars => Inv'
<1> SUFFICES ASSUME Inv, [Next]_vars PROVE Inv'
  OBVIOUS
<1> USE DEF Inv
<1>0. /\ Idle \in Operations /\ \A t \in 0..MaxTime : Idle.time <= t
      /\ Idle.kind = None
      /\ "idle" \notin Statements /\ "absent" \notin Statements /\ "waiting" \notin Statements
      /\ \A a \in Agents : a[1] \in Procs /\ a[2] \in Threads /\ a = <<a[1], a[2]>>
  BY StoreAssumption DEF Idle, Operations, Statements, Agents
<1>1. ASSUME NEW a \in Agents, NEW kind \in Kinds, NEW k \in KeysOf(kind),
             NEW ttl \in TtlsOf(kind), Begin(a, kind, k, ttl)
      PROVE  Inv'
  <2> DEFINE o == [Idle EXCEPT !.kind = kind, !.key = k, !.time = now, !.ttl = ttl]
  <2>1. /\ at[a] = "idle" /\ at' = [at EXCEPT ![a] = "waiting"] /\ op' = [op EXCEPT ![a] = o]
        /\ UNCHANGED <<table, now, lock, conn, writes, alone>>
    BY <1>1 DEF Begin, store
  <2>2. o \in Operations /\ (kind \in KeyedKinds => k \in Keys)
    BY <1>0 DEF Operations, KeysOf, TtlsOf, KeyedKinds, Shapes
  <2>3. /\ at'[a] = "waiting" /\ op'[a] = o
        /\ \A b \in Agents : b # a => at'[b] = at[b] /\ op'[b] = op[b]
        /\ at' \in [Agents -> Statements \union {"absent", "idle", "waiting"}]
        /\ op' \in [Agents -> Operations]
    BY <2>1, <2>2 DEF TypeOK, Shapes
  <2>4. o.kind = kind /\ o.key = k /\ o.time = now
    BY <1>0 DEF Operations
  <2> HIDE DEF o
  <2>5. \A b \in Agents : at'[b] \in Statements => b # a
    BY <1>0, <2>3
  <2>6. TypeOK'
    BY <2>1, <2>3 DEF TypeOK, Present
  <2>7. Shapes'
    BY <2>1, <2>3 DEF Shapes
  <2>8. HoldsLock' /\ OwnConnection'
    BY <2>1, <2>3, <2>5 DEF HoldsLock, OwnConnection, Inside
  <2>9. DoesItsOperation'
    BY <2>1, <2>2, <2>3, <2>4, <2>5 DEF DoesItsOperation, Inside, Shapes
  <2>10. OnlyFirst' /\ ReadStillTrue'
    BY <2>1, <2>3 DEF OnlyFirst, ReadStillTrue, Present
  <2> QED BY <2>6, <2>7, <2>8, <2>9, <2>10
<1>2. ASSUME NEW a \in Agents, Enter(a)
      PROVE  Inv'
  <2> DEFINE p == a[1]
             first == FirstStatement[op[a].kind]
  <2>1. /\ at[a] = "waiting" /\ lock[p] = None /\ lock' = [lock EXCEPT ![p] = a[2]]
        /\ conn' = [conn EXCEPT ![p] =
                       IF op[a].kind # "close" /\ Reconnects(p) THEN p ELSE conn[p]]
        /\ at' = [at EXCEPT ![a] = first]
        /\ UNCHANGED <<table, now, writes, op, alone>>
    BY <1>2 DEF Enter, LockFree
  <2>2. op[a].kind \in Kinds
    BY <2>1 DEF DoesItsOperation
  <2>3. /\ first \in Statements /\ first \in StatementsOf[op[a].kind]
        /\ first # "get_delete" /\ first # "evict_oldest"
    <3>1. op[a].kind \in {"get", "set", "evict", "record_hit", "delete", "clear", "close"}
      BY <2>2, StoreAssumption
    <3> QED BY <3>1 DEF FirstStatement, Statements, StatementsOf
  <2> HIDE DEF first
  <2>4. /\ at'[a] = first /\ \A b \in Agents : b # a => at'[b] = at[b]
        /\ at' \in [Agents -> Statements \union {"absent", "idle", "waiting"}]
    BY <2>1, <2>3 DEF TypeOK
  <2>5. \A b \in Agents : b # a /\ Inside(b)' => Inside(b) /\ b[1] # p
    BY <1>0, <2>1, <2>4, StoreAssumption DEF HoldsLock, Inside
  <2>6. /\ lock' \in [Procs -> Threads \union {None}]
        /\ conn' \in [Procs -> Procs \union {None}]
        /\ \A q \in Procs : q # p => lock'[q] = lock[q] /\ conn'[q] = conn[q]
        /\ lock'[p] = a[2] /\ (op[a].kind # "close" => conn'[p] = p)
    BY <1>0, <2>1 DEF TypeOK, Reconnects
  <2>7. TypeOK'
    BY <2>1, <2>3, <2>4, <2>6 DEF TypeOK, Present
  <2>8. Shapes'
    BY <2>1 DEF Shapes
  <2>9. HoldsLock' /\ OwnConnection'
    BY <1>0, <2>1, <2>4, <2>5, <2>6 DEF HoldsLock, OwnConnection, Inside
  <2>10. DoesItsOperation'
    BY <2>1, <2>2, <2>3, <2>4 DEF DoesItsOperation, Inside
  <2>11. OnlyFirst' /\ ReadStillTrue'
    BY <2>1, <2>3, <2>4 DEF OnlyFirst, ReadStillTrue, Present
  <2> QED BY <2>7, <2>8, <2>9, <2>10, <2>11
<1>3. ASSUME NEW a \in Agents, Statement(a)
      PROVE  Inv'
  BY <1>3, StatementKeepsInv
<1>4. ASSUME NEW a \in Agents, Fails(a)
      PROVE  Inv'
  <2>1. /\ Inside(a) /\ at' = [at EXCEPT ![a] = "idle"] /\ op' = [op EXCEPT ![a] = Idle]
        /\ lock' = [lock EXCEPT ![a[1]] = None]
        /\ conn' = IF at[a] = "close_close" THEN [conn EXCEPT ![a[1]] = None] ELSE conn
        /\ UNCHANGED <<table, now, writes, alone>>
    BY <1>4 DEF Fails, Leave
  <2>2. /\ at'[a] = "idle" /\ op'[a] = Idle
        /\ \A b \in Agents : b # a => at'[b] = at[b] /\ op'[b] = op[b]
        /\ at' \in [Agents -> Statements \union {"absent", "idle", "waiting"}]
        /\ op' \in [Agents -> Operations]
        /\ lock' \in [Procs -> Threads \union {None}]
        /\ conn' \in [Procs -> Procs \union {None}]
        /\ \A q \in Procs : q # a[1] => lock'[q] = lock[q] /\ conn'[q] = conn[q]
    BY <1>0, <2>1 DEF TypeOK, Shapes
  <2>3. \A b \in Agents : Inside(b)' => Inside(b) /\ b # a /\ b[1] # a[1]
    BY <1>0, <2>1, <2>2, OneInsideAProcess DEF Inside
  <2>4. TypeOK'
    BY <2>1, <2>2 DEF TypeOK, Present
  <2>5. Shapes'
    BY <2>1, <2>2 DEF Shapes
  <2>6. HoldsLock' /\ OwnConnection'
    BY <1>0, <2>1, <2>2, <2>3 DEF HoldsLock, OwnConnection, Inside
  <2>7. DoesItsOperation'
    BY <1>0, <2>1, <2>2 DEF DoesItsOperation, Inside, Shapes
  <2>8. OnlyFirst' /\ ReadStillTrue'
    BY <2>1, <2>2 DEF OnlyFirst, ReadStillTrue, Present, Inside, Statements
  <2> QED BY <2>4, <2>5, <2>6, <2>7, <2>8
<1>5. ASSUME NEW a \in Agents, NEW q \in Procs, Fork(a, q)
      PROVE  Inv'
  <2> DEFINE c == <<q, a[2]>>
  <2>1. /\ at[a] = "idle" /\ q # a[1] /\ ~Alive(q)
        /\ lock' = [lock EXCEPT ![q] = lock[a[1]]]
        /\ conn' = [conn EXCEPT ![q] = conn[a[1]]]
        /\ writes' = [writes EXCEPT ![q] = writes[a[1]]]
        /\ at' = [at EXCEPT ![c] = "idle"] /\ alone' = FALSE
        /\ UNCHANGED <<table, now, op>>
    BY <1>5 DEF Fork
  <2>2. c \in Agents
    BY <1>0 DEF Agents
  <2>3. \A b \in Agents : b[1] = q => at[b] = "absent"
    BY <1>0, <2>1 DEF Alive
  <2> HIDE DEF c
  <2>4. /\ at'[c] = "idle" /\ \A b \in Agents : b # c => at'[b] = at[b]
        /\ at' \in [Agents -> Statements \union {"absent", "idle", "waiting"}]
        /\ lock' \in [Procs -> Threads \union {None}]
        /\ conn' \in [Procs -> Procs \union {None}]
        /\ writes' \in [Procs -> 0..(EvictEvery - 1)]
        /\ \A p \in Procs : p # q => lock'[p] = lock[p] /\ conn'[p] = conn[p]
    BY <1>0, <2>1, <2>2 DEF TypeOK
  <2>5. \A b \in Agents : Inside(b)' => Inside(b) /\ b # c /\ b[1] # q
    BY <1>0, <2>3, <2>4 DEF Inside
  <2>6. TypeOK'
    BY <2>1, <2>4 DEF TypeOK, Present
  <2>7. Shapes'
    BY <2>1, <2>4 DEF Shapes
  <2>8. HoldsLock' /\ OwnConnection'
    BY <1>0, <2>1, <2>4, <2>5 DEF HoldsLock, OwnConnection, Inside
  <2>9. DoesItsOperation'
    BY <2>1, <2>4, <2>5 DEF DoesItsOperation, Inside
  <2>10. OnlyFirst' /\ ReadStillTrue'
    BY <2>1 DEF OnlyFirst, ReadStillTrue
  <2> QED BY <2>6, <2>7, <2>8, <2>9, <2>10
<1>6. ASSUME NEW p \in Procs, Kill(p)
      PROVE  Inv'
  <2>1. /\ at' = [a \in Agents |-> IF a[1] = p THEN "absent" ELSE at[a]]
        /\ op' = [a \in Agents |-> IF a[1] = p THEN Idle ELSE op[a]]
        /\ UNCHANGED <<table, now, lock, conn, writes, alone>>
    BY <1>6 DEF Kill, store
  <2>2. /\ \A b \in Agents : \/ at'[b] = "absent" /\ op'[b] = Idle
                             \/ at'[b] = at[b] /\ op'[b] = op[b]
        /\ at' \in [Agents -> Statements \union {"absent", "idle", "waiting"}]
        /\ op' \in [Agents -> Operations]
    BY <1>0, <2>1 DEF TypeOK, Shapes
  <2>3. TypeOK'
    BY <2>1, <2>2 DEF TypeOK, Present
  <2>4. Shapes'
    BY <2>1, <2>2 DEF Shapes
  <2>5. HoldsLock' /\ OwnConnection'
    BY <1>0, <2>1, <2>2 DEF HoldsLock, OwnConnection, Inside
  <2>6. DoesItsOperation'
    BY <1>0, <2>1, <2>2 DEF DoesItsOperation, Inside, Shapes
  <2>7. OnlyFirst' /\ ReadStillTrue'
    BY <2>1, <2>2 DEF OnlyFirst, ReadStillTrue, Present
  <2> QED BY <2>3, <2>4, <2>5, <2>6, <2>7
<1>7. CASE Tick
  <2>1. now' = now + 1 /\ now' \in 0..MaxTime
        /\ UNCHANGED <<table, lock, conn, writes, at, op, alone>>
    BY <1>7, StoreAssumption DEF Tick, Shapes, store
  <2>2. \A a \in Agents : op[a].time \in Int
    BY DEF Shapes, Operations
  <2>3. DoesItsOperation'
    BY <2>1, <2>2 DEF DoesItsOperation, Inside, Shapes
  <2> QED BY <2>1, <2>3 DEF TypeOK, Shapes, HoldsLock, OwnConnection, OnlyFirst, ReadStillTrue,
              Present, Inside
<1>8. CASE UNCHANGED vars
  <2>1. UNCHANGED <<table, now, lock, conn, writes, at, op, alone>>
    BY <1>8 DEF vars, store
  <2> QED BY <2>1 DEF TypeOK, Shapes, HoldsLock, DoesItsOperation, OwnConnection, OnlyFirst,
              ReadStillTrue, Present, Inside
<1> QED BY <1>1, <1>2, <1>3, <1>4, <1>5, <1>6, <1>7, <1>8 DEF Next, Finished

-----------------------------------------------------------------------------
(* Theorems. *)

\* The inductive invariant holds in every state the store reaches.
THEOREM Invariance == Spec => []Inv
BY InvInit, InvStep, PTL DEF Spec

\* Every variable keeps to its type, and an eviction that is under way has rows to drop.
THEOREM TypeCorrect == Spec => []TypeOK
<1>1. Inv => TypeOK
  BY DEF Inv
<1> QED BY <1>1, Invariance, PTL

\* However processes fork, die, close and call the store, a statement is executed over
\* a connection its own process opened.  That does not cover close itself, which may
\* close in a child the connection of its parent.
THEOREM ConnectionsAreOwn == Spec => []OwnConnection
<1>1. Inv => OwnConnection
  BY DEF Inv
<1> QED BY <1>1, Invariance, PTL

\* Threads inside the store are of different processes: the copies of the lock exclude
\* within each process, whatever is forked in whatever state.
THEOREM OneThreadInside ==
    Spec => [](\A a, b \in Agents : Inside(a) /\ Inside(b) /\ a[1] = b[1] => a = b)
<1>1. Inv => \A a, b \in Agents : Inside(a) /\ Inside(b) /\ a[1] = b[1] => a = b
  BY OneInsideAProcess DEF Inv
<1> QED BY <1>1, Invariance, PTL

\* No step lowers the hits of an entry that stays in the table.
THEOREM HitsAreKept == Spec => RewriteKeepsHits
<1>1. ASSUME Inv, [Next]_vars
      PROVE  [\A k \in Keys : table[k] # None /\ table'[k] # None =>
                 table'[k].hits >= table[k].hits]_vars
  <2>1. \A k \in Keys : table[k] # None => table[k].hits \in Nat
    BY <1>1 DEF Inv, Shapes, Rows
  <2>2. CASE \E a \in Agents : Statement(a)
    BY <1>1, <2>2, StatementKeepsRows DEF Inv
  <2>3. CASE ~ \E a \in Agents : Statement(a)
    <3>1. table' = table
      BY <1>1, <2>3 DEF Next, Begin, Enter, Fails, Fork, Kill, Tick, Finished, vars
    <3> QED BY <2>1, <3>1
  <2> QED BY <2>2, <2>3
<1> QED BY <1>1, Invariance, PTL DEF Spec, RewriteKeepsHits

\* Before the first fork, a lookup that found its entry expired deletes that entry and
\* not one written since.
THEOREM LookupsDropExpired == Spec => LookupDropsExpired
<1>1. ASSUME Inv, NEW a \in Agents, GetDelete(a), alone,
             NEW k \in Present, table'[k] = None
      PROVE  Expired(table[k], now)
  <2>1. Inside(a) /\ at[a] = "get_delete"
    BY <1>1 DEF GetDelete, Inside, Statements
  <2>2. op[a].key \in Keys
    BY <1>1, <2>1, InsideIsAnOperation DEF Inv
  <2>3. k \in Keys /\ table[k] # None /\ k = op[a].key
    BY <1>1, <2>2 DEF GetDelete, Store, Present, Inv, Shapes
  <2>4. Expired(table[k], op[a].time) /\ op[a].time <= now
    BY <1>1, <2>1, <2>3 DEF Inv, ReadStillTrue, DoesItsOperation
  <2>5. table[k] \in Rows /\ op[a].time \in Int /\ now \in Int
    BY <1>1, <2>3 DEF Inv, Shapes, Operations
  <2> QED BY <2>4, <2>5 DEF Expired, Rows
<1>2. Inv => [\A a \in Agents : alone /\ GetDelete(a) =>
                 \A k \in Present : table'[k] = None => Expired(table[k], now)]_vars
  BY <1>1
<1> QED BY <1>2, Invariance, PTL DEF Spec, LookupDropsExpired

\* Before the first fork, an eviction leaves the table full: it drops as many of the
\* oldest entries as there are too many, counted when they still were.
THEOREM EvictionsDropExcess == Spec => EvictsOnlyExcess
<1>1. ASSUME Inv, NEW a \in Agents, EvictOldest(a), alone
      PROVE  Cardinality({k \in Keys : table'[k] # None}) >= MaxCacheEntries
  <2>1. at[a] = "evict_oldest" /\ op[a].excess = Excess(Cardinality(Present))
    BY <1>1 DEF EvictOldest, Inv, ReadStillTrue
  <2>2. PICK oldest \in SUBSET Present :
          /\ Cardinality(oldest) <= op[a].excess
          /\ table' = [k \in Keys |-> IF k \in oldest THEN None ELSE table[k]]
    BY <1>1 DEF EvictOldest, Store
  <2>3. {k \in Keys : table'[k] # None} = Present \ oldest
    BY <2>2 DEF Present
  <2>4. /\ IsFiniteSet(Present) /\ IsFiniteSet(oldest)
        /\ Cardinality(Present) \in Nat /\ Cardinality(oldest) \in Nat
    BY <2>2, PresentIsFinite, FS_Subset, FS_CardinalityType
  <2>5. Cardinality(Present \ oldest) = Cardinality(Present) - Cardinality(Present \cap oldest)
    BY <2>4, FS_Difference
  <2>6. Present \cap oldest = oldest
    BY <2>2
  <2>7. Cardinality(oldest) <= Cardinality(Present) - MaxCacheEntries /\ MaxCacheEntries \in Nat
    BY <2>1, <2>2, StoreAssumption DEF Excess
  <2>8. Cardinality(Present \ oldest) = Cardinality(Present) - Cardinality(oldest)
    BY <2>5, <2>6
  <2>9. Cardinality(Present \ oldest) >= MaxCacheEntries
    BY <2>4, <2>7, <2>8
  <2> QED BY <2>3, <2>9
<1>2. Inv => [\A a \in Agents : alone /\ EvictOldest(a) =>
                 \/ Cardinality({k \in Keys : table'[k] # None}) >= MaxCacheEntries
                 \/ table' = table]_vars
  BY <1>1
<1> QED BY <1>2, Invariance, PTL DEF Spec, EvictsOnlyExcess

-----------------------------------------------------------------------------
(* How large the table becomes.                                            *)
(*                                                                         *)
(* A process answers for the writes it has done since it last evicted, and  *)
(* for a whole period of them while it evicts after its last write.  If     *)
(* some of the evictions that have counted their excess were finished now,  *)
(* each of their processes would answer for no more than its newer writes:  *)
(* so the table holds no more than max_cache_entries, what everyone answers *)
(* for, the excess those evictions drop, and a period of writes for each    *)
(* eviction that was lost.  This has to hold for every choice of evictions, *)
(* because a process can count before and drop after another one has.       *)

Evictions == {"evict_expired", "evict_count", "evict_oldest"}

\* The processes whose eviction has counted, and the excess it will drop.
Counted == {p \in Procs : \E t \in Threads : at[<<p, t>>] = "evict_oldest"}
Holder(p) == <<p, lock[p]>>

EvictsAfterWrite(p) ==
    \E t \in Threads : at[<<p, t>>] \in Evictions /\ op[<<p, t>>].kind = "set"

AnswersFor(p) ==
    IF ~Alive(p) THEN 0 ELSE IF EvictsAfterWrite(p) THEN EvictEvery ELSE writes[p]

Share(S, p) == IF p \in S THEN writes[p] + op[Holder(p)].excess ELSE AnswersFor(p)

\* The sum of the shares, as the size of a set of numbered pairs.
Limit == EvictEvery + Cardinality(Keys)
Pairs(r) == {x \in Procs \X (1..Limit) : x[2] <= r[x[1]]}
Total(r) == Cardinality(Pairs(r))
Shares(S) == [p \in Procs |-> Share(S, p)]

TableFits ==
    \A S \in SUBSET Counted :
        Cardinality(Present) <= MaxCacheEntries + Total(Shares(S)) + EvictEvery * failures

\* An eviction has counted rows of the table.
ExcessOfKeys ==
    \A a \in Agents : at[a] = "evict_oldest" => op[a].excess <= Cardinality(Keys)

Counts == Inv /\ ExcessOfKeys /\ failures \in Nat

\* Every share is a natural number: the totals are sizes of finite sets.
LEMMA TotalIsNatural ==
    ASSUME NEW r
    PROVE  IsFiniteSet(Pairs(r)) /\ Total(r) \in Nat
<1>1. IsFiniteSet(Procs \X (1..Limit))
  <2>1. Limit \in Nat
    BY StoreAssumption, FS_CardinalityType DEF Limit
  <2>2. IsFiniteSet(1..Limit) /\ IsFiniteSet(Procs)
    BY <2>1, FS_Interval, StoreAssumption
  <2> QED BY <2>2, FS_Product
<1>2. Pairs(r) \subseteq Procs \X (1..Limit)
  BY DEF Pairs
<1>3. IsFiniteSet(Pairs(r))
  BY <1>1, <1>2, FS_Subset
<1> QED BY <1>3, FS_CardinalityType DEF Total

\* Larger shares make a larger total.
LEMMA TotalIsMonotone ==
    ASSUME NEW r \in [Procs -> Nat], NEW s \in [Procs -> Nat], \A p \in Procs : r[p] <= s[p]
    PROVE  Total(r) <= Total(s)
<1>1. Limit \in Nat
  BY StoreAssumption, FS_CardinalityType DEF Limit
<1>2. Pairs(r) \subseteq Pairs(s)
  <2>1. ASSUME NEW x \in Procs \X (1..Limit), x[2] <= r[x[1]]
        PROVE  x[2] <= s[x[1]]
    <3>1. x[1] \in Procs /\ x[2] \in Nat /\ r[x[1]] <= s[x[1]]
      BY <1>1
    <3> QED BY <2>1, <3>1
  <2> QED BY <2>1 DEF Pairs
<1> QED BY <1>2, TotalIsNatural, FS_Subset DEF Total

\* Adding to one share adds as much to the total.
LEMMA TotalAdds ==
    ASSUME NEW r \in [Procs -> 0..Limit], NEW s \in [Procs -> 0..Limit], NEW p \in Procs,
           r[p] <= s[p], \A q \in Procs : q # p => s[q] = r[q]
    PROVE  Total(s) = Total(r) + (s[p] - r[p])
<1>1. Limit \in Nat
  BY StoreAssumption, FS_CardinalityType DEF Limit
<1> DEFINE T == (r[p] + 1)..s[p]
           New == {p} \X T
<1>2. r[p] \in 0..Limit /\ s[p] \in 0..Limit
  OBVIOUS
<1>3. IsFiniteSet(New) /\ Cardinality(New) = s[p] - r[p]
  <2>1. IsFiniteSet(T) /\ Cardinality(T) = s[p] - r[p]
    <3>1. /\ r[p] + 1 \in Int /\ s[p] \in Int
          /\ (IF r[p] + 1 > s[p] THEN 0 ELSE s[p] - (r[p] + 1) + 1) = s[p] - r[p]
      BY <1>1, <1>2
    <3> QED BY <3>1, FS_Interval
  <2>2. IsFiniteSet({p}) /\ Cardinality({p}) = 1
    BY FS_Singleton
  <2>3. IsFiniteSet(New) /\ Cardinality(New) = 1 * Cardinality(T)
    <3> HIDE DEF T
    <3> QED BY <2>1, <2>2, FS_Product
  <2>4. s[p] - r[p] \in Int
    BY <1>2
  <2> HIDE DEF New, T
  <2> QED BY <2>1, <2>3, <2>4
<1>4. Pairs(s) = Pairs(r) \union New
  <2>1. ASSUME NEW x \in Procs \X (1..Limit)
        PROVE  x[2] <= s[x[1]] <=> x[2] <= r[x[1]] \/ x \in New
    <3>1. x = <<x[1], x[2]>> /\ x[1] \in Procs /\ x[2] \in 1..Limit
      OBVIOUS
    <3>2. CASE x[1] = p
      <4>1. x \in New <=> x[2] \in T
        BY <3>1, <3>2
      <4>2. x[2] \in T <=> x[2] <= s[p] /\ ~(x[2] <= r[p])
        BY <1>1, <1>2, <3>1
      <4>3. x[2] <= r[p] => x[2] <= s[p]
        BY <1>1, <1>2, <3>1
      <4> HIDE DEF New, T
      <4> QED BY <3>2, <4>1, <4>2, <4>3
    <3>3. CASE x[1] # p
      <4>1. x \notin New /\ s[x[1]] = r[x[1]]
        BY <3>1, <3>3
      <4> QED BY <4>1
    <3> QED BY <3>2, <3>3
  <2>2. New \subseteq Procs \X (1..Limit)
    BY <1>1, <1>2
  <2> HIDE DEF New
  <2> QED BY <2>1, <2>2 DEF Pairs
<1>5. Pairs(r) \cap New = {}
  <2>1. ASSUME NEW x \in Pairs(r), x \in New PROVE FALSE
    <3>1. x[1] = p /\ x[2] \in T /\ x[2] <= r[p]
      BY <2>1 DEF Pairs
    <3> QED BY <1>2, <3>1
  <2> QED BY <2>1
<1>6. IsFiniteSet(Pairs(r)) /\ Total(r) \in Nat
  BY TotalIsNatural
<1> HIDE DEF New
<1>7. Cardinality(Pairs(s)) = Cardinality(Pairs(r)) + Cardinality(New) - Cardinality({})
  BY <1>3, <1>4, <1>5, <1>6, FS_Union
<1>8. Cardinality({}) = 0
  BY FS_EmptySet
<1> QED BY <1>2, <1>3, <1>6, <1>7, <1>8 DEF Total

\* A total is no less than one of its shares.
LEMMA TotalCovers ==
    ASSUME NEW r \in [Procs -> 0..Limit], NEW p \in Procs
    PROVE  r[p] <= Total(r)
<1> DEFINE T == 1..r[p]
           Own == {p} \X T
<1>1. Limit \in Nat /\ r[p] \in 0..Limit
  BY StoreAssumption, FS_CardinalityType DEF Limit
<1>2. IsFiniteSet(T) /\ Cardinality(T) = r[p]
  BY <1>1, FS_Interval
<1>3. IsFiniteSet({p}) /\ Cardinality({p}) = 1
  BY FS_Singleton
<1>4. Cardinality(Own) = 1 * Cardinality(T)
  <2> HIDE DEF T
  <2> QED BY <1>2, <1>3, FS_Product
<1>5. Own \subseteq Pairs(r)
  BY <1>1 DEF Pairs
<1> HIDE DEF Own, T
<1>6. Cardinality(Own) <= Cardinality(Pairs(r))
  BY <1>5, TotalIsNatural, FS_Subset
<1> QED BY <1>1, <1>2, <1>4, <1>6 DEF Total

\* When all shares are within a period, the total is within a period for each process
\* that has a share.
LEMMA TotalIsBounded ==
    ASSUME NEW r \in [Procs -> 0..EvictEvery], NEW P \in SUBSET Procs,
           \A q \in Procs : q \notin P => r[q] = 0
    PROVE  Total(r) <= Cardinality(P) * EvictEvery /\ Cardinality(P) \in Nat
<1>1. Limit \in Nat /\ EvictEvery \in Nat /\ IsFiniteSet(P) /\ Cardinality(P) \in Nat
  BY StoreAssumption, FS_Subset, FS_CardinalityType DEF Limit
<1>2. IsFiniteSet(1..EvictEvery) /\ Cardinality(1..EvictEvery) = EvictEvery
  BY <1>1, FS_Interval
<1>3. /\ IsFiniteSet(P \X (1..EvictEvery))
      /\ Cardinality(P \X (1..EvictEvery)) = Cardinality(P) * EvictEvery
  BY <1>1, <1>2, FS_Product
<1>4. Pairs(r) \subseteq P \X (1..EvictEvery)
  <2>1. ASSUME NEW x \in Procs \X (1..Limit), x[2] <= r[x[1]]
        PROVE  x \in P \X (1..EvictEvery)
    <3>1. x = <<x[1], x[2]>> /\ x[1] \in Procs /\ x[2] \in 1..Limit /\ r[x[1]] \in 0..EvictEvery
      OBVIOUS
    <3>2. x[2] \in 1..EvictEvery /\ x[1] \in P
      BY <1>1, <2>1, <3>1
    <3> QED BY <3>1, <3>2
  <2> QED BY <2>1 DEF Pairs
<1> QED BY <1>1, <1>3, <1>4, FS_Subset DEF Total

\* The share of a process whose thread is inside the store is that thread's.
HoldersAnswer ==
    \A a \in Agents : Inside(a) =>
        /\ a[1] \in Procs /\ Alive(a[1])
        /\ AnswersFor(a[1]) = IF at[a] \in Evictions /\ op[a].kind = "set"
                              THEN EvictEvery ELSE writes[a[1]]
        /\ a[1] \in Counted <=> at[a] = "evict_oldest"
        /\ Holder(a[1]) = a

\* Only one thread of a process is inside the store, so its state is the process's.
LEMMA ShareOfInside == Inv => HoldersAnswer
<1> SUFFICES ASSUME Inv, NEW a \in Agents, Inside(a)
    PROVE  /\ a[1] \in Procs /\ Alive(a[1])
           /\ AnswersFor(a[1]) = IF at[a] \in Evictions /\ op[a].kind = "set"
                                 THEN EvictEvery ELSE writes[a[1]]
           /\ a[1] \in Counted <=> at[a] = "evict_oldest"
           /\ Holder(a[1]) = a
  BY DEF HoldersAnswer
<1>1. a = <<a[1], a[2]>> /\ a[1] \in Procs /\ a[2] \in Threads
  BY DEF Agents
<1>2. ASSUME NEW t \in Threads, at[<<a[1], t>>] \in Statements
      PROVE  <<a[1], t>> = a
  <2>1. <<a[1], t>> \in Agents /\ Inside(<<a[1], t>>)
    BY <1>1, <1>2 DEF Agents, Inside
  <2> QED BY <2>1, OneInsideAProcess DEF Inv
<1>3. lock[a[1]] = a[2]
  BY DEF Inv, HoldsLock
<1>4. Alive(a[1])
  BY <1>1 DEF Alive, Inside, Statements
<1>5. Evictions \subseteq Statements /\ "evict_oldest" \in Statements
  BY DEF Evictions, Statements
<1>6. EvictsAfterWrite(a[1]) <=> at[a] \in Evictions /\ op[a].kind = "set"
  BY <1>1, <1>2, <1>5 DEF EvictsAfterWrite
<1>7. a[1] \in Counted <=> at[a] = "evict_oldest"
  BY <1>1, <1>2, <1>5 DEF Counted
<1> QED BY <1>1, <1>3, <1>4, <1>6, <1>7 DEF Holder, AnswersFor

\* The share of a process none of whose threads is inside the store.
LEMMA ShareOfOutside ==
    \A p \in Procs : (\A t \in Threads : at[<<p, t>>] \notin Statements) =>
        p \notin Counted /\ AnswersFor(p) = IF Alive(p) THEN writes[p] ELSE 0
BY DEF Counted, AnswersFor, EvictsAfterWrite, Evictions, Statements

\* What the shares amount to, whoever has counted.
BoundedShares ==
    /\ \A p \in Procs : AnswersFor(p) \in 0..EvictEvery
    /\ \A p \in Counted : op[Holder(p)].excess \in 1..Cardinality(Keys)
    /\ \A S \in SUBSET Counted : Shares(S) \in [Procs -> 0..Limit]

\* A process answers for a period of writes at most, and for an excess of rows at most.
LEMMA SharesAreBounded == Counts => BoundedShares
<1> SUFFICES ASSUME Counts
    PROVE  /\ \A p \in Procs : AnswersFor(p) \in 0..EvictEvery
           /\ \A p \in Counted : op[Holder(p)].excess \in 1..Cardinality(Keys)
           /\ \A S \in SUBSET Counted : Shares(S) \in [Procs -> 0..Limit]
  BY DEF BoundedShares
<1>1. /\ EvictEvery \in Nat \ {0} /\ Cardinality(Keys) \in Nat
      /\ \A p \in Procs : writes[p] \in 0..(EvictEvery - 1)
  BY StoreAssumption, FS_CardinalityType DEF Counts, Inv, TypeOK
<1>2. ASSUME NEW p \in Procs
      PROVE  AnswersFor(p) \in 0..EvictEvery
  BY <1>1 DEF AnswersFor
<1>3. ASSUME NEW p \in Counted
      PROVE  op[Holder(p)].excess \in 1..Cardinality(Keys)
  <2>1. PICK t \in Threads : at[<<p, t>>] = "evict_oldest"
    BY <1>3 DEF Counted
  <2> DEFINE a == <<p, t>>
  <2>2. a \in Agents /\ a[1] = p /\ Inside(a)
    BY <1>3, <2>1 DEF Agents, Counted, Inside, Statements
  <2>3. Holder(p) = a
    BY <2>2, ShareOfInside DEF Counts, HoldersAnswer
  <2>4. op[a].excess \in Int /\ op[a].excess > 0 /\ op[a].excess <= Cardinality(Keys)
    BY <2>1, <2>2 DEF Counts, ExcessOfKeys, Inv, TypeOK, Shapes, Operations
  <2> QED BY <1>1, <2>3, <2>4
<1>4. ASSUME NEW S \in SUBSET Counted
      PROVE  Shares(S) \in [Procs -> 0..Limit]
  <2>1. ASSUME NEW p \in Procs
        PROVE  Share(S, p) \in 0..Limit
    <3>1. CASE p \in S
      <4>1. op[Holder(p)].excess \in 1..Cardinality(Keys)
        BY <1>3, <3>1
      <4> QED BY <1>1, <3>1, <4>1 DEF Share, Limit
    <3>2. CASE p \notin S
      BY <1>1, <1>2, <3>2 DEF Share, Limit
    <3> QED BY <3>1, <3>2
  <2> QED BY <2>1 DEF Shares
<1> QED BY <1>2, <1>3, <1>4

\* A step that leaves a process alone leaves its share.
LEMMA UntouchedShare ==
    ASSUME Inv, NEW q \in Procs,
           \A t \in Threads : at'[<<q, t>>] = at[<<q, t>>] /\ op'[<<q, t>>] = op[<<q, t>>],
           lock'[q] = lock[q], writes'[q] = writes[q]
    PROVE  /\ AnswersFor(q)' = AnswersFor(q)
           /\ q \in Counted' <=> q \in Counted
           /\ \A S \in SUBSET Counted : Share(S, q)' = Share(S, q)
<1>1. (Alive(q)' <=> Alive(q)) /\ (EvictsAfterWrite(q)' <=> EvictsAfterWrite(q))
  BY DEF Alive, EvictsAfterWrite
<1>2. AnswersFor(q)' = AnswersFor(q)
  BY <1>1 DEF AnswersFor
<1>3. q \in Counted' <=> q \in Counted
  BY DEF Counted
<1>4. q \in Counted => lock[q] \in Threads
  <2>1. SUFFICES ASSUME NEW t \in Threads, at[<<q, t>>] = "evict_oldest"
        PROVE  lock[q] \in Threads
    BY DEF Counted
  <2>2. <<q, t>> \in Agents /\ Inside(<<q, t>>)
    BY <2>1 DEF Agents, Inside, Statements
  <2> QED BY <2>2 DEF Inv, HoldsLock
<1>5. q \in Counted => Holder(q)' = Holder(q) /\ op'[Holder(q)] = op[Holder(q)]
  BY <1>4 DEF Holder
<1> QED BY <1>2, <1>3, <1>5 DEF Share

\* A step that adds no row, loses no eviction and lowers no share keeps the table within
\* its bound.
LEMMA FitsWithLargerShares ==
    ASSUME Counts, TableFits, Counts', Present' \subseteq Present, failures' = failures,
           Counted' \subseteq Counted,
           \A S \in SUBSET Counted' : \A q \in Procs : Share(S, q) <= Share(S, q)'
    PROVE  TableFits'
<1>1. BoundedShares /\ BoundedShares'
  BY SharesAreBounded, PTL
<1>2. ASSUME NEW S \in SUBSET Counted'
      PROVE  Cardinality(Present') <= MaxCacheEntries + Total(Shares(S)') + EvictEvery * failures'
  <2>1. Limit \in Nat
    BY StoreAssumption, FS_CardinalityType DEF Limit
  <2>2. Shares(S) \in [Procs -> Nat] /\ Shares(S)' \in [Procs -> Nat]
    BY <1>1, <1>2, <2>1, SharesAreBounded DEF BoundedShares
  <2>3. \A q \in Procs : Shares(S)[q] <= Shares(S)'[q]
    BY <1>2 DEF Shares
  <2>4. Total(Shares(S)) <= Total(Shares(S)')
    BY <2>2, <2>3, TotalIsMonotone
  <2>5. Cardinality(Present) <= MaxCacheEntries + Total(Shares(S)) + EvictEvery * failures
    BY <1>2 DEF TableFits
  <2>6. Cardinality(Present') <= Cardinality(Present) /\ Cardinality(Present') \in Nat
    BY PresentIsFinite, FS_Subset, FS_CardinalityType
  <2>7. Total(Shares(S)) \in Nat /\ Total(Shares(S)') \in Nat /\ Cardinality(Present) \in Nat
    BY TotalIsNatural, PresentIsFinite
  <2>8. EvictEvery * failures \in Nat /\ MaxCacheEntries \in Nat
    BY StoreAssumption DEF Counts
  <2> QED BY <2>4, <2>5, <2>6, <2>7, <2>8
<1> QED BY <1>2 DEF TableFits, Total, Pairs, Limit

\* What is counted stays within bounds.
LEMMA CountsStep == Counts /\ [Next]_vars => Counts'
<1> SUFFICES ASSUME Counts, [Next]_vars PROVE Counts'
  OBVIOUS
<1> USE DEF Counts
<1>1. Inv'
  BY InvStep
<1>2. failures' \in Nat
  <2>1. ASSUME NEW a \in Agents, Statement(a)
        PROVE  failures' = failures
    BY <2>1 DEF Statement, GetSelect, GetDelete, GetUpdate, RecordHit, Upsert, EvictExpired,
                EvictCount, EvictOldest, Delete, Clear, Close, Store, bounds
  <2>2. CASE \E a \in Agents : Statement(a)
    BY <2>1, <2>2
  <2>3. CASE failures' = failures \/ failures' = failures + 1
    BY <2>3
  <2> QED BY <2>2, <2>3 DEF Next, Begin, Enter, Fails, Fork, Kill, Tick, Finished, vars, bounds
<1>3. ASSUME NEW b \in Agents, at'[b] = "evict_oldest"
      PROVE  op'[b].excess <= Cardinality(Keys)
  <2>1. CASE at[b] = "evict_oldest" /\ op'[b] = op[b]
    BY <2>1 DEF ExcessOfKeys
  <2>2. CASE EvictCount(b)
    <3>1. ~Leave(b)
      BY <1>3 DEF Leave, Inv, TypeOK
    <3>2. op'[b].excess = Cardinality(Present) - MaxCacheEntries
      BY <2>2, <3>1 DEF EvictCount, Excess, Inv, Shapes, Operations
    <3>3. Cardinality(Present) <= Cardinality(Keys)
      BY StoreAssumption, FS_Subset DEF Present
    <3>4. /\ Cardinality(Present) \in Nat /\ Cardinality(Keys) \in Nat
          /\ MaxCacheEntries \in Nat
      BY StoreAssumption, PresentIsFinite, FS_CardinalityType
    <3> QED BY <3>2, <3>3, <3>4
  <2>3. ASSUME NEW a \in Agents, Statement(a)
        PROVE  (at[b] = "evict_oldest" /\ op'[b] = op[b]) \/ EvictCount(b)
    BY <1>3, <2>3, StatementIsLocal DEF Inv
  <2>4. ASSUME NEW a \in Agents, NEW kind \in Kinds, NEW k \in KeysOf(kind),
               NEW ttl \in TtlsOf(kind), Begin(a, kind, k, ttl)
        PROVE  at[b] = "evict_oldest" /\ op'[b] = op[b]
    BY <1>3, <2>4 DEF Begin, Inv, TypeOK, Shapes
  <2>5. ASSUME NEW a \in Agents, Enter(a)
        PROVE  at[b] = "evict_oldest" /\ op'[b] = op[b]
    <3>1. op[a].kind \in {"get", "set", "evict", "record_hit", "delete", "clear", "close"}
      BY <2>5, StoreAssumption DEF Enter, Inv, DoesItsOperation
    <3>2. FirstStatement[op[a].kind] # "evict_oldest"
      BY <3>1 DEF FirstStatement
    <3> QED BY <1>3, <2>5, <3>2 DEF Enter, Inv, TypeOK
  <2>6. ASSUME NEW a \in Agents, Fails(a)
        PROVE  at[b] = "evict_oldest" /\ op'[b] = op[b]
    BY <1>3, <2>6 DEF Fails, Leave, Inv, TypeOK, Shapes
  <2>7. ASSUME NEW a \in Agents, NEW q \in Procs, Fork(a, q)
        PROVE  at[b] = "evict_oldest" /\ op'[b] = op[b]
    BY <1>3, <2>7 DEF Fork, Inv, TypeOK
  <2>8. ASSUME NEW p \in Procs, Kill(p)
        PROVE  at[b] = "evict_oldest" /\ op'[b] = op[b]
    BY <1>3, <2>8 DEF Kill
  <2>9. ASSUME Tick \/ UNCHANGED vars
        PROVE  at[b] = "evict_oldest" /\ op'[b] = op[b]
    BY <1>3, <2>9 DEF Tick, vars
  <2> QED BY <2>1, <2>2, <2>3, <2>4, <2>5, <2>6, <2>7, <2>8, <2>9 DEF Next, Finished
<1> QED BY <1>1, <1>2, <1>3 DEF ExcessOfKeys

\* A statement leaves the shares of other processes; only set counts a write.
LEMMA StatementLeavesOthers ==
    ASSUME Inv, NEW a \in Agents, Statement(a)
    PROVE  /\ failures' = failures
           /\ Upsert(a) \/ writes' = writes
           /\ \A q \in Procs : q # a[1] =>
                 /\ AnswersFor(q)' = AnswersFor(q)
                 /\ q \in Counted' <=> q \in Counted
                 /\ \A S \in SUBSET Counted : Share(S, q)' = Share(S, q)
<1>1. failures' = failures /\ (Upsert(a) \/ writes' = writes)
  BY DEF Statement, GetSelect, GetDelete, GetUpdate, RecordHit, Upsert, EvictExpired,
         EvictCount, EvictOldest, Delete, Clear, Close, Store, bounds
<1>2. ASSUME NEW q \in Procs, q # a[1]
      PROVE  /\ \A t \in Threads : /\ at'[<<q, t>>] = at[<<q, t>>]
                                   /\ op'[<<q, t>>] = op[<<q, t>>]
             /\ lock'[q] = lock[q] /\ writes'[q] = writes[q]
  <2>1. \A t \in Threads : <<q, t>> \in Agents /\ <<q, t>> # a
    BY <1>2 DEF Agents
  <2>2. \A b \in Agents : b # a => at'[b] = at[b] /\ op'[b] = op[b]
    BY StatementIsLocal DEF Inv
  <2>3. lock' = lock \/ lock' = [lock EXCEPT ![a[1]] = None]
    BY StatementIsLocal DEF Inv
  <2>4. writes'[q] = writes[q]
    BY <1>1, <1>2 DEF Upsert, Inv, TypeOK
  <2> QED BY <1>2, <2>1, <2>2, <2>3, <2>4 DEF Inv, TypeOK
<1> QED BY <1>1, <1>2, UntouchedShare

\* The share of the process that executes a statement, when the statement was its last
\* and when it was not.
LEMMA ShareAfterStatement ==
    ASSUME Inv, Inv', NEW a \in Agents, Statement(a)
    PROVE  /\ a[1] \in Procs
           /\ at'[a] = "idle" => a[1] \notin Counted' /\ AnswersFor(a[1])' = writes'[a[1]]
           /\ at'[a] # "idle" =>
                 /\ AnswersFor(a[1])' = IF at'[a] \in Evictions /\ op[a].kind = "set"
                                        THEN EvictEvery ELSE writes'[a[1]]
                 /\ a[1] \in Counted' <=> at'[a] = "evict_oldest"
                 /\ Holder(a[1])' = a
<1>0. a = <<a[1], a[2]>> /\ a[1] \in Procs /\ a[2] \in Threads
  BY DEF Agents
<1>1. ASSUME at'[a] = "idle"
      PROVE  a[1] \notin Counted' /\ AnswersFor(a[1])' = writes'[a[1]]
  <2>1. ASSUME NEW t \in Threads
        PROVE  at'[<<a[1], t>>] \notin Statements
    <3>1. CASE t = a[2]
      BY <1>0, <1>1, <3>1 DEF Statements
    <3>2. CASE t # a[2]
      <4>1. <<a[1], t>> \in Agents /\ <<a[1], t>> # a
        BY <1>0, <3>2 DEF Agents
      <4>2. Inside(a) /\ at'[<<a[1], t>>] = at[<<a[1], t>>]
        BY <4>1, StatementIsLocal DEF Inv
      <4>3. ~Inside(<<a[1], t>>)
        BY <4>1, <4>2, OneInsideAProcess DEF Inv
      <4> QED BY <4>2, <4>3 DEF Inside
    <3> QED BY <3>1, <3>2
  <2>2. (\A p \in Procs : (\A t \in Threads : at[<<p, t>>] \notin Statements) =>
           p \notin Counted /\ AnswersFor(p) = IF Alive(p) THEN writes[p] ELSE 0)'
    BY ShareOfOutside, PTL
  <2>3. Alive(a[1])'
    BY <1>0, <1>1 DEF Alive
  <2> QED BY <1>0, <2>1, <2>2, <2>3
<1>2. ASSUME at'[a] # "idle"
      PROVE  /\ AnswersFor(a[1])' = IF at'[a] \in Evictions /\ op[a].kind = "set"
                                    THEN EvictEvery ELSE writes'[a[1]]
             /\ a[1] \in Counted' <=> at'[a] = "evict_oldest"
             /\ Holder(a[1])' = a
  <2>1. at'[a] \in Statements /\ op'[a].kind = op[a].kind
    BY <1>2, StatementIsLocal DEF Inv
  <2>2. HoldersAnswer'
    BY ShareOfInside, PTL
  <2>3. Inside(a)'
    BY <2>1 DEF Inside
  <2> QED BY <2>1, <2>2, <2>3 DEF HoldersAnswer
<1> QED BY <1>0, <1>1, <1>2

\* A statement that is neither a write nor part of counting and dropping an excess adds no
\* row and changes nobody's share.
LEMMA PlainStatementFits ==
    ASSUME Counts, TableFits, Counts', NEW a \in Agents, Statement(a),
           ~Upsert(a), ~EvictCount(a), ~EvictOldest(a)
    PROVE  TableFits'
<1> USE DEF Store
<1>0. Inv /\ Inv' /\ Inside(a)
  BY StatementIsLocal DEF Counts, Inv
<1>1. Present' \subseteq Present
  <2>1. CASE table' = table
    BY <2>1 DEF Present
  <2>2. CASE \A k \in Keys : table'[k] = table[k] \/ table'[k] = None
    BY <2>2 DEF Present
  <2>3. ASSUME NEW k \in Keys, table' = CountHit(k)
        PROVE  Present' \subseteq Present
    BY <1>0, <2>3 DEF CountHit, Present, Inv, Shapes
  <2>4. at[a] \in {"get_update", "record_hit_update"} => op[a].key \in Keys
    BY <1>0, InsideIsAnOperation DEF Inv
  <2> QED BY <1>0, <2>1, <2>2, <2>3, <2>4 DEF Statement, GetSelect, GetDelete, GetUpdate,
              RecordHit, EvictExpired, Delete, Clear, Close, Inv, Shapes
<1>2. /\ at'[a] = "idle" => at[a] \notin Evictions
      /\ at'[a] # "idle" => /\ at'[a] \in Evictions <=> at[a] \in Evictions
                            /\ at'[a] # "evict_oldest"
      /\ at[a] # "evict_oldest"
  <2>1. CASE Leave(a)
    BY <1>0, <2>1 DEF Statement, GetSelect, GetDelete, GetUpdate, RecordHit, EvictExpired,
              Delete, Clear, Close, Leave, GoOn, Evictions, Inv, TypeOK
  <2>2. CASE ~Leave(a)
    <3>1. GetSelect(a) \/ EvictExpired(a)
      BY <2>2 DEF Statement, GetDelete, GetUpdate, RecordHit, Delete, Clear, Close
    <3>2. CASE GetSelect(a)
      <4>1. GoOn(a, "get_delete") \/ GoOn(a, "get_update")
        BY <2>2, <3>2 DEF GetSelect
      <4>2. at[a] = "get_select" /\ at'[a] \in {"get_delete", "get_update"}
        BY <1>0, <3>2, <4>1 DEF GetSelect, GoOn, Inv, TypeOK
      <4> QED BY <4>2 DEF Evictions
    <3>3. CASE EvictExpired(a)
      BY <1>0, <3>3 DEF EvictExpired, GoOn, Evictions, Inv, TypeOK
    <3> QED BY <3>1, <3>2, <3>3
  <2> QED BY <2>1, <2>2
<1>3. failures' = failures /\ writes' = writes
  BY <1>0, StatementLeavesOthers
<1>4. AnswersFor(a[1])' = AnswersFor(a[1]) /\ a[1] \notin Counted /\ a[1] \notin Counted'
  BY <1>0, <1>2, <1>3, ShareOfInside, ShareAfterStatement DEF HoldersAnswer
<1>5. \A q \in Procs : q \in Counted' <=> q \in Counted
  BY <1>0, <1>4, StatementLeavesOthers
<1>6. Counted' \subseteq Counted
  BY <1>5 DEF Counted
<1>7. ASSUME NEW S \in SUBSET Counted', NEW q \in Procs
      PROVE  Share(S, q) <= Share(S, q)'
  <2>1. Share(S, q)' = Share(S, q)
    <3>1. CASE q = a[1]
      BY <1>4, <1>7, <3>1 DEF Share
    <3>2. CASE q # a[1]
      BY <1>0, <1>6, <1>7, <3>2, StatementLeavesOthers
    <3> QED BY <3>1, <3>2
  <2>2. Share(S, q) \in Int
    <3>1. Shares(S) \in [Procs -> 0..Limit]
      BY <1>6, <1>7, SharesAreBounded DEF BoundedShares
    <3> QED BY <3>1 DEF Shares
  <2> QED BY <2>1, <2>2
<1> QED BY <1>1, <1>3, <1>6, <1>7, FitsWithLargerShares

\* A write adds at most one row, and its process answers for one more.
LEMMA UpsertFits ==
    ASSUME Counts, TableFits, Counts', NEW a \in Agents, Upsert(a)
    PROVE  TableFits'
<1> DEFINE p == a[1]
<1>0. Inv /\ Inv' /\ Inside(a) /\ Statement(a) /\ p \in Procs
  BY DEF Statement, Upsert, Inside, Statements, Counts, Agents
<1>1. PICK k \in Keys : Present' \subseteq Present \union {k}
  <2>1. op[a].key \in Keys
    BY <1>0, InsideIsAnOperation DEF Inv, Upsert
  <2>2. \A l \in Keys : l # op[a].key => table'[l] = table[l]
    BY <1>0 DEF Upsert, Store, Inv, Shapes
  <2> QED BY <2>1, <2>2 DEF Present
<1>2. Cardinality(Present') <= Cardinality(Present) + 1 /\ Cardinality(Present') \in Nat
  <2>1. /\ IsFiniteSet(Present \union {k})
        /\ Cardinality(Present \union {k}) = IF k \in Present THEN Cardinality(Present)
                                             ELSE Cardinality(Present) + 1
    BY PresentIsFinite, FS_AddElement
  <2>2. Cardinality(Present') <= Cardinality(Present \union {k}) /\ IsFiniteSet(Present')
    BY <1>1, <2>1, FS_Subset
  <2>3. Cardinality(Present') \in Nat
    BY <2>2, FS_CardinalityType
  <2> QED BY <2>1, <2>2, <2>3, PresentIsFinite
<1>3. /\ writes[p] \in 0..(EvictEvery - 1) /\ EvictEvery \in Nat \ {0}
      /\ writes'[p] = (writes[p] + 1) % EvictEvery
  BY <1>0, StoreAssumption DEF Upsert, Inv, TypeOK
<1>4. writes'[p] = IF writes[p] + 1 = EvictEvery THEN 0 ELSE writes[p] + 1
  BY <1>3
<1>5. at[a] = "set_upsert" /\ op[a].kind = "set"
  <2>1. at[a] = "set_upsert"
    BY DEF Upsert
  <2> QED BY <1>0, <2>1, InsideIsAnOperation DEF Inv, StatementsOf
<1>6. at'[a] = IF writes[p] + 1 = EvictEvery THEN "evict_expired" ELSE "idle"
  BY <1>0, <1>3, <1>4 DEF Upsert, GoOn, Leave, Inv, TypeOK
<1>7. /\ AnswersFor(p) = writes[p] /\ AnswersFor(p)' = writes[p] + 1
      /\ p \notin Counted /\ p \notin Counted'
  <2>1. AnswersFor(p) = writes[p] /\ p \notin Counted
    BY <1>0, <1>5, ShareOfInside DEF HoldersAnswer, Evictions
  <2>2. CASE writes[p] + 1 = EvictEvery
    <3>1. at'[a] = "evict_expired"
      BY <1>6, <2>2
    <3> QED BY <1>0, <1>5, <2>1, <2>2, <3>1, ShareAfterStatement DEF Evictions
  <2>3. CASE writes[p] + 1 # EvictEvery
    BY <1>0, <1>4, <1>6, <2>1, <2>3, ShareAfterStatement
  <2> QED BY <2>2, <2>3
<1>8. \A q \in Procs : q \in Counted' <=> q \in Counted
  BY <1>0, <1>7, StatementLeavesOthers
<1>9. Counted' \subseteq Counted
  BY <1>8 DEF Counted
<1>10. BoundedShares /\ BoundedShares'
  BY SharesAreBounded, PTL
<1>11. ASSUME NEW S \in SUBSET Counted'
       PROVE  Cardinality(Present') <= MaxCacheEntries + Total(Shares(S)') + EvictEvery * failures'
  <2>1. Shares(S) \in [Procs -> 0..Limit] /\ Shares(S)' \in [Procs -> 0..Limit]
    BY <1>9, <1>10, <1>11, SharesAreBounded DEF BoundedShares
  <2>2. \A q \in Procs : q # p => Shares(S)'[q] = Shares(S)[q]
    BY <1>0, <1>9, <1>11, StatementLeavesOthers DEF Shares
  <2>3. Shares(S)[p] = writes[p] /\ Shares(S)'[p] = writes[p] + 1
    BY <1>0, <1>7, <1>11 DEF Shares, Share
  <2>4. Total(Shares(S)') = Total(Shares(S)) + (Shares(S)'[p] - Shares(S)[p])
    <3>1. Shares(S)[p] <= Shares(S)'[p]
      BY <1>3, <2>3
    <3> HIDE DEF p
    <3> QED BY <1>0, <2>1, <2>2, <3>1, TotalAdds
  <2>5. Total(Shares(S)') = Total(Shares(S)) + 1
    BY <1>3, <2>3, <2>4
  <2>6. Cardinality(Present) <= MaxCacheEntries + Total(Shares(S)) + EvictEvery * failures
    BY <1>9, <1>11 DEF TableFits
  <2>7. Total(Shares(S)) \in Nat /\ Cardinality(Present) \in Nat
    BY TotalIsNatural, PresentIsFinite
  <2>8. EvictEvery * failures \in Nat /\ MaxCacheEntries \in Nat /\ failures' = failures
    BY <1>0, StoreAssumption, StatementLeavesOthers DEF Counts
  <2> QED BY <1>2, <2>5, <2>6, <2>7, <2>8
<1> QED BY <1>11 DEF TableFits, Total, Pairs, Limit

\* An eviction that finds no excess finds the table within its size; one that finds an
\* excess answers for it.
LEMMA EvictCountFits ==
    ASSUME Counts, TableFits, Counts', NEW a \in Agents, EvictCount(a)
    PROVE  TableFits'
<1> DEFINE p == a[1]
           e == Cardinality(Present) - MaxCacheEntries
<1>0. /\ Inv /\ Inv' /\ Inside(a) /\ Statement(a) /\ p \in Procs
      /\ at[a] = "evict_count"
  BY DEF Statement, EvictCount, Inside, Statements, Counts, Agents
<1>1. Present' = Present /\ failures' = failures /\ writes' = writes
  BY DEF EvictCount, Store, Present, bounds
<1>2. BoundedShares /\ BoundedShares'
  BY SharesAreBounded, PTL
<1>3. /\ Cardinality(Present) \in Nat /\ MaxCacheEntries \in Nat
      /\ EvictEvery * failures \in Nat
  BY PresentIsFinite, StoreAssumption DEF Counts
<1>4. CASE Excess(Cardinality(Present)) > 0
  <2>1. /\ at' = [at EXCEPT ![a] = "evict_oldest"]
        /\ op' = [op EXCEPT ![a].excess = e]
    BY <1>4 DEF EvictCount, Excess
  <2>2. at'[a] = "evict_oldest" /\ op'[a].excess = e
    BY <1>0, <2>1 DEF Inv, TypeOK, Shapes, Operations
  <2>3. AnswersFor(p)' = AnswersFor(p) /\ p \in Counted' /\ p \notin Counted /\ Holder(p)' = a
    BY <1>0, <1>1, <2>2, ShareOfInside, ShareAfterStatement DEF HoldersAnswer, Evictions
  <2>4. ASSUME NEW S \in SUBSET Counted'
        PROVE  Cardinality(Present') <= MaxCacheEntries + Total(Shares(S)') + EvictEvery * failures'
    <3>1. Shares(S)' \in [Procs -> 0..Limit]
      BY <1>2, <2>4 DEF BoundedShares
    <3>2. CASE p \in S
      <4>1. Shares(S)'[p] = writes[p] + e
        BY <1>0, <1>1, <2>2, <2>3, <3>2 DEF Shares, Share
      <4>2. Shares(S)'[p] <= Total(Shares(S)')
        <5> HIDE DEF p
        <5> QED BY <1>0, <3>1, TotalCovers
      <4>3. writes[p] \in Nat
        BY <1>0, StoreAssumption DEF Inv, TypeOK
      <4>4. Total(Shares(S)') \in Nat
        BY TotalIsNatural
      <4> QED BY <1>1, <1>3, <4>1, <4>2, <4>3, <4>4
    <3>3. CASE p \notin S
      <4>1. S \in SUBSET Counted
        BY <1>0, <2>4, <3>3, StatementLeavesOthers DEF Counted
      <4>2. \A q \in Procs : Share(S, q)' = Share(S, q)
        BY <1>0, <2>3, <3>3, <4>1, StatementLeavesOthers DEF Share
      <4>3. Shares(S)' = Shares(S)
        BY <4>2 DEF Shares
      <4> QED BY <1>1, <4>1, <4>3 DEF TableFits
    <3> QED BY <3>2, <3>3
  <2> QED BY <2>4 DEF TableFits, Total, Pairs, Limit
<1>5. CASE ~(Excess(Cardinality(Present)) > 0)
  <2>1. Cardinality(Present) <= MaxCacheEntries
    BY <1>3, <1>5 DEF Excess
  <2>2. ASSUME NEW S \in SUBSET Counted'
        PROVE  Cardinality(Present') <= MaxCacheEntries + Total(Shares(S)') + EvictEvery * failures'
    <3>1. Total(Shares(S)') \in Nat
      BY TotalIsNatural
    <3> QED BY <1>1, <1>3, <2>1, <3>1
  <2> QED BY <2>2 DEF TableFits, Total, Pairs, Limit
<1> QED BY <1>4, <1>5

\* An eviction that drops its excess takes the excess from its share, or empties the table.
LEMMA EvictOldestFits ==
    ASSUME Counts, TableFits, Counts', NEW a \in Agents, EvictOldest(a)
    PROVE  TableFits'
<1> DEFINE p == a[1]
           e == op[a].excess
<1>0. /\ Inv /\ Inv' /\ Inside(a) /\ Statement(a) /\ p \in Procs
      /\ at[a] = "evict_oldest"
  BY DEF Statement, EvictOldest, Inside, Statements, Counts, Agents
<1>1. failures' = failures /\ writes' = writes /\ at'[a] = "idle"
  BY <1>0 DEF EvictOldest, Store, Leave, bounds, Inv, TypeOK
<1>2. p \in Counted /\ Holder(p) = a
  BY <1>0, ShareOfInside DEF HoldersAnswer
<1>3. p \notin Counted' /\ AnswersFor(p)' = writes[p] /\ writes[p] \in Nat
  BY <1>0, <1>1, ShareAfterStatement, StoreAssumption DEF Inv, TypeOK
<1>4. \A q \in Procs : q # p => (q \in Counted' <=> q \in Counted)
  BY <1>0, StatementLeavesOthers
<1>5. PICK oldest \in SUBSET Present :
          /\ Cardinality(oldest) = e \/ oldest = Present
          /\ table' = [k \in Keys |-> IF k \in oldest THEN None ELSE table[k]]
  BY DEF EvictOldest, Store
<1>6. Present' = Present \ oldest
  BY <1>5 DEF Present
<1>7. /\ Cardinality(Present') = Cardinality(Present) - Cardinality(oldest)
      /\ Cardinality(Present') \in Nat /\ Cardinality(Present) \in Nat
  <2>1. Present \cap oldest = oldest
    BY <1>5
  <2>2. /\ IsFiniteSet(Present \ oldest)
        /\ Cardinality(Present \ oldest) = Cardinality(Present) - Cardinality(Present \cap oldest)
    BY PresentIsFinite, FS_Difference
  <2>3. Cardinality(Present \ oldest) \in Nat
    BY <2>2, FS_CardinalityType
  <2> QED BY <1>6, <2>1, <2>2, <2>3, PresentIsFinite
<1>8. MaxCacheEntries \in Nat /\ EvictEvery * failures \in Nat /\ e \in Nat
  BY <1>0, StoreAssumption DEF Counts, Inv, TypeOK, Shapes, Operations
<1>9. BoundedShares /\ BoundedShares'
  BY SharesAreBounded, PTL
<1>10. ASSUME NEW S \in SUBSET Counted'
       PROVE  Cardinality(Present') <= MaxCacheEntries + Total(Shares(S)') + EvictEvery * failures'
  <2> DEFINE T == S \union {p}
  <2>0. Total(Shares(S)') \in Nat
    BY TotalIsNatural
  <2>1. p \notin S /\ T \in SUBSET Counted
    BY <1>2, <1>3, <1>4, <1>10 DEF Counted
  <2>2. Shares(T) \in [Procs -> 0..Limit] /\ Shares(S)' \in [Procs -> 0..Limit]
    BY <1>9, <1>10, <2>1, SharesAreBounded DEF BoundedShares
  <2>3. \A q \in Procs : q # p => Shares(T)[q] = Shares(S)'[q]
    <3>1. ASSUME NEW q \in Procs, q # p
          PROVE  Share(T, q) = Share(S, q)'
      <4>1. S \in SUBSET Counted
        BY <2>1
      <4>2. Share(S, q)' = Share(S, q)
        BY <1>0, <3>1, <4>1, StatementLeavesOthers
      <4>3. q \in T <=> q \in S
        BY <3>1
      <4> QED BY <4>2, <4>3 DEF Share
    <3> QED BY <3>1 DEF Shares
  <2>4. Shares(S)'[p] = writes[p] /\ Shares(T)[p] = writes[p] + e
    BY <1>0, <1>1, <1>2, <1>3, <2>1 DEF Shares, Share
  <2>5. Total(Shares(T)) = Total(Shares(S)') + (Shares(T)[p] - Shares(S)'[p])
    <3>1. Shares(S)'[p] <= Shares(T)[p]
      BY <1>3, <1>8, <2>4
    <3> HIDE DEF p, T
    <3> QED BY <1>0, <2>2, <2>3, <3>1, TotalAdds
  <2>6. Total(Shares(T)) = Total(Shares(S)') + e
    BY <1>3, <1>8, <2>4, <2>5, <2>0
  <2>7. Cardinality(Present) <= MaxCacheEntries + Total(Shares(T)) + EvictEvery * failures
    BY <2>1 DEF TableFits
  <2>8. CASE Cardinality(oldest) = e
    BY <1>1, <1>7, <1>8, <2>0, <2>6, <2>7, <2>8
  <2>9. CASE oldest = Present
    <3>1. Cardinality(Present') = 0
      BY <1>7, <2>9
    <3> QED BY <1>1, <1>8, <2>0, <3>1
  <2> QED BY <1>5, <2>8, <2>9
<1> QED BY <1>10 DEF TableFits, Total, Pairs, Limit

\* A step that loses what one process answered for, and counts as a failure, keeps the
\* table within its bound.
LEMMA FitsAfterLoss ==
    ASSUME Counts, TableFits, Counts', NEW p \in Procs, Present' = Present,
           failures' = failures + 1, p \notin Counted',
           \A q \in Procs : q # p =>
               /\ q \in Counted' <=> q \in Counted
               /\ \A S \in SUBSET Counted : Share(S, q)' = Share(S, q)
    PROVE  TableFits'
<1>1. Counted' \subseteq Counted
  BY DEF Counted
<1>2. BoundedShares /\ BoundedShares'
  BY SharesAreBounded, PTL
<1>3. EvictEvery \in Nat /\ MaxCacheEntries \in Nat /\ failures \in Nat /\ Limit \in Nat
  BY StoreAssumption, FS_CardinalityType DEF Counts, Limit
<1>4. EvictEvery * failures \in Nat /\ EvictEvery * (failures + 1) = EvictEvery * failures + EvictEvery
  BY <1>3
<1>5. ASSUME NEW S \in SUBSET Counted'
      PROVE  Cardinality(Present') <= MaxCacheEntries + Total(Shares(S)') + EvictEvery * failures'
  <2>1. Shares(S) \in [Procs -> 0..Limit] /\ Shares(S)' \in [Procs -> 0..Limit]
    BY <1>1, <1>2, <1>5, SharesAreBounded DEF BoundedShares
  <2>2. \A q \in Procs : q # p => Shares(S)'[q] = Shares(S)[q]
    BY <1>1, <1>5 DEF Shares
  <2>3. Shares(S)[p] \in 0..EvictEvery /\ Shares(S)'[p] \in 0..EvictEvery
    BY <1>2, <1>5, SharesAreBounded DEF Shares, Share, BoundedShares
  <2>4. Total(Shares(S)) \in Nat /\ Total(Shares(S)') \in Nat /\ Cardinality(Present) \in Nat
    BY TotalIsNatural, PresentIsFinite
  <2>5. Total(Shares(S)) <= Total(Shares(S)') + EvictEvery
    <3>1. CASE Shares(S)'[p] <= Shares(S)[p]
      <4>1. Total(Shares(S)) = Total(Shares(S)') + (Shares(S)[p] - Shares(S)'[p])
        BY <2>1, <2>2, <3>1, TotalAdds
      <4> QED BY <1>3, <2>3, <2>4, <4>1
    <3>2. CASE ~(Shares(S)'[p] <= Shares(S)[p])
      <4>1. \A q \in Procs : Shares(S)[q] <= Shares(S)'[q]
        <5>1. Shares(S)[p] <= Shares(S)'[p]
          BY <1>3, <2>3, <3>2
        <5>2. \A q \in Procs : Shares(S)[q] \in Nat
          BY <1>3, <2>1
        <5> QED BY <2>2, <5>1, <5>2
      <4>2. Shares(S) \in [Procs -> Nat] /\ Shares(S)' \in [Procs -> Nat]
        BY <1>3, <2>1
      <4>3. Total(Shares(S)) <= Total(Shares(S)')
        BY <4>1, <4>2, TotalIsMonotone
      <4> QED BY <1>3, <2>4, <4>3
    <3> QED BY <3>1, <3>2
  <2>6. Cardinality(Present) <= MaxCacheEntries + Total(Shares(S)) + EvictEvery * failures
    BY <1>1, <1>5 DEF TableFits
  <2> QED BY <1>3, <1>4, <2>4, <2>5, <2>6
<1> QED BY <1>5 DEF TableFits, Total, Pairs, Limit

\* Every step keeps the table within its bound.
LEMMA TableFitsStep == Counts /\ TableFits /\ [Next]_vars => TableFits'
<1> SUFFICES ASSUME Counts, TableFits, [Next]_vars PROVE TableFits'
  OBVIOUS
<1>0. Counts' /\ Inv /\ Inv' /\ failures \in Nat
  BY CountsStep DEF Counts
<1>1. \A S \in SUBSET Counted : \A q \in Procs : Share(S, q) \in Nat
  <2>1. Limit \in Nat
    BY StoreAssumption, FS_CardinalityType DEF Limit
  <2>2. \A S \in SUBSET Counted : Shares(S) \in [Procs -> 0..Limit]
    BY SharesAreBounded DEF BoundedShares
  <2> QED BY <2>1, <2>2 DEF Shares
<1>2. ASSUME NEW a \in Agents, Statement(a)
      PROVE  TableFits'
  BY <1>0, <1>2, PlainStatementFits, UpsertFits, EvictCountFits, EvictOldestFits
<1>3. ASSUME NEW p \in Procs,
             \A b \in Agents : b[1] # p => at'[b] = at[b] /\ op'[b] = op[b],
             \A q \in Procs : q # p => lock'[q] = lock[q] /\ writes'[q] = writes[q]
      PROVE  \A q \in Procs : q # p =>
                 /\ q \in Counted' <=> q \in Counted
                 /\ \A S \in SUBSET Counted : Share(S, q)' = Share(S, q)
  <2>1. ASSUME NEW q \in Procs, q # p
        PROVE  \A t \in Threads : at'[<<q, t>>] = at[<<q, t>>] /\ op'[<<q, t>>] = op[<<q, t>>]
    BY <1>3, <2>1 DEF Agents
  <2> QED BY <1>0, <1>3, <2>1, UntouchedShare
<1>4. ASSUME NEW a \in Agents, NEW kind \in Kinds, NEW k \in KeysOf(kind),
             NEW ttl \in TtlsOf(kind), Begin(a, kind, k, ttl)
      PROVE  TableFits'
  <2> DEFINE p == a[1]
  <2>1. /\ at[a] = "idle" /\ at'[a] = "waiting" /\ a = <<p, a[2]>> /\ p \in Procs
        /\ \A b \in Agents : b # a => at'[b] = at[b] /\ op'[b] = op[b]
        /\ UNCHANGED <<table, lock, writes, failures>>
    BY <1>0, <1>4 DEF Begin, Inv, TypeOK, Shapes, store, Agents
  <2>2. Alive(p) /\ Alive(p)'
    BY <1>4, <2>1 DEF Alive, Agents
  <2>3. ASSUME NEW t \in Threads
        PROVE  /\ at'[<<p, t>>] \in Evictions <=> at[<<p, t>>] \in Evictions
               /\ at'[<<p, t>>] = "evict_oldest" <=> at[<<p, t>>] = "evict_oldest"
               /\ at[<<p, t>>] \in Evictions => op'[<<p, t>>] = op[<<p, t>>]
    <3>1. <<p, t>> \in Agents
      BY <2>1 DEF Agents
    <3> QED BY <2>1, <3>1 DEF Evictions
  <2>4. AnswersFor(p)' = AnswersFor(p) /\ (p \in Counted' <=> p \in Counted)
    BY <2>1, <2>2, <2>3 DEF AnswersFor, EvictsAfterWrite, Counted
  <2>5. ASSUME p \in Counted
        PROVE  op'[Holder(p)'].excess = op[Holder(p)].excess
    <3>1. PICK t \in Threads : at[<<p, t>>] = "evict_oldest"
      BY <2>5 DEF Counted
    <3>2. <<p, t>> \in Agents /\ Inside(<<p, t>>)
      BY <2>1, <3>1 DEF Agents, Inside, Statements
    <3>3. Holder(p) = <<p, t>>
      BY <1>0, <3>2, ShareOfInside DEF HoldersAnswer
    <3> QED BY <2>1, <2>3, <3>1, <3>3 DEF Holder, Evictions
  <2>6. \A b \in Agents : b[1] # p => b # a
    OBVIOUS
  <2>7. \A q \in Procs : q # p =>
            /\ q \in Counted' <=> q \in Counted
            /\ \A S \in SUBSET Counted : Share(S, q)' = Share(S, q)
    BY <1>3, <2>1, <2>6
  <2>8. Counted' \subseteq Counted
    BY <2>4, <2>7 DEF Counted
  <2>9. \A S \in SUBSET Counted : Share(S, p)' = Share(S, p)
    BY <2>1, <2>4, <2>5 DEF Share
  <2>10. \A S \in SUBSET Counted' : \A q \in Procs : Share(S, q) <= Share(S, q)'
    BY <1>1, <2>7, <2>8, <2>9
  <2> QED BY <1>0, <2>1, <2>8, <2>10, FitsWithLargerShares DEF Present
<1>5. ASSUME NEW a \in Agents, Enter(a)
      PROVE  TableFits'
  <2> DEFINE p == a[1]
             first == FirstStatement[op[a].kind]
  <2>1. /\ at[a] = "waiting" /\ lock[p] = None /\ at' = [at EXCEPT ![a] = first]
        /\ lock' = [lock EXCEPT ![p] = a[2]]
        /\ UNCHANGED <<table, writes, op, failures>>
        /\ p \in Procs /\ a = <<p, a[2]>> /\ a[2] \in Threads
    BY <1>5 DEF Enter, LockFree, bounds, Agents
  <2>2. op[a].kind \in {"get", "set", "evict", "record_hit", "delete", "clear", "close"}
    BY <1>0, <2>1, StoreAssumption DEF Inv, DoesItsOperation
  <2>3. first # "evict_oldest" /\ first # "idle" /\ first # "absent"
    BY <2>2 DEF FirstStatement
  <2> HIDE DEF first
  <2>4. /\ at'[a] = first /\ \A b \in Agents : b # a => at'[b] = at[b]
        /\ \A q \in Procs : q # p => lock'[q] = lock[q]
    BY <1>0, <2>1 DEF Inv, TypeOK
  <2>5. ASSUME NEW t \in Threads
        PROVE  at[<<p, t>>] \notin Statements
    <3>1. <<p, t>> \in Agents
      BY <2>1 DEF Agents
    <3>2. Inside(<<p, t>>) => lock[p] = t
      BY <1>0, <3>1 DEF Inv, HoldsLock
    <3> QED BY <2>1, <3>2, StoreAssumption DEF Inside
  <2>6. p \notin Counted /\ AnswersFor(p) = writes[p]
    <3>1. Alive(p)
      BY <2>1 DEF Alive
    <3> QED BY <2>1, <2>5, <3>1, ShareOfOutside
  <2>7. p \notin Counted'
    <3>1. ASSUME NEW t \in Threads
          PROVE  at'[<<p, t>>] # "evict_oldest"
      <4>1. <<p, t>> \in Agents /\ (<<p, t>> # a => at'[<<p, t>>] = at[<<p, t>>])
        BY <2>1, <2>4 DEF Agents
      <4> QED BY <2>3, <2>4, <2>5, <4>1 DEF Statements
    <3> QED BY <3>1 DEF Counted
  <2>8. AnswersFor(p)' >= writes[p]
    <3>1. Alive(p)'
      BY <2>1, <2>3, <2>4 DEF Alive
    <3>2. writes'[p] = writes[p] /\ writes[p] \in 0..(EvictEvery - 1) /\ EvictEvery \in Nat
      BY <1>0, <2>1, StoreAssumption DEF Inv, TypeOK
    <3> QED BY <3>1, <3>2 DEF AnswersFor
  <2>9. \A q \in Procs : q # p =>
            /\ q \in Counted' <=> q \in Counted
            /\ \A S \in SUBSET Counted : Share(S, q)' = Share(S, q)
    <3>1. \A b \in Agents : b[1] # p => b # a
      OBVIOUS
    <3> QED BY <1>3, <2>1, <2>4, <3>1
  <2>10. Counted' \subseteq Counted
    BY <2>7, <2>9 DEF Counted
  <2>11. ASSUME NEW S \in SUBSET Counted', NEW q \in Procs
         PROVE  Share(S, q) <= Share(S, q)'
    <3>1. S \in SUBSET Counted /\ p \notin S
      BY <2>7, <2>10, <2>11
    <3>2. CASE q = p
      BY <2>6, <2>8, <3>1, <3>2 DEF Share
    <3>3. CASE q # p
      BY <1>1, <2>9, <3>1, <3>3
    <3> QED BY <3>2, <3>3
  <2> QED BY <1>0, <2>1, <2>10, <2>11, FitsWithLargerShares DEF Present
<1>6. ASSUME NEW a \in Agents, Fails(a)
      PROVE  TableFits'
  <2> DEFINE p == a[1]
  <2>1. /\ Inside(a) /\ at'[a] = "idle" /\ failures' = failures + 1 /\ table' = table
        /\ \A b \in Agents : b # a => at'[b] = at[b] /\ op'[b] = op[b]
        /\ \A q \in Procs : q # p => lock'[q] = lock[q] /\ writes'[q] = writes[q]
        /\ p \in Procs /\ a = <<p, a[2]>>
    BY <1>0, <1>6 DEF Fails, Leave, Inv, TypeOK, Shapes, Agents
  <2>2. p \notin Counted'
    <3>1. ASSUME NEW t \in Threads
          PROVE  at'[<<p, t>>] # "evict_oldest"
      <4>1. <<p, t>> \in Agents
        BY <2>1 DEF Agents
      <4>2. CASE <<p, t>> = a
        BY <2>1, <4>2
      <4>3. CASE <<p, t>> # a
        <5>1. at'[<<p, t>>] = at[<<p, t>>] /\ ~Inside(<<p, t>>)
          BY <1>0, <2>1, <4>1, <4>3, OneInsideAProcess DEF Inv
        <5> QED BY <5>1 DEF Inside, Statements
      <4> QED BY <4>2, <4>3
    <3> QED BY <3>1 DEF Counted
  <2>3. \A b \in Agents : b[1] # p => b # a
    OBVIOUS
  <2>4. \A q \in Procs : q # p =>
            /\ q \in Counted' <=> q \in Counted
            /\ \A S \in SUBSET Counted : Share(S, q)' = Share(S, q)
    BY <1>3, <2>1, <2>3
  <2>5. Present' = Present
    BY <2>1 DEF Present
  <2> HIDE DEF p
  <2> QED BY <1>0, <2>1, <2>2, <2>4, <2>5, FitsAfterLoss
<1>7. ASSUME NEW a \in Agents, NEW q \in Procs, Fork(a, q)
      PROVE  TableFits'
  <2>1. /\ ~Alive(q) /\ q # a[1]
        /\ \A b \in Agents : b[1] # q => at'[b] = at[b]
        /\ \A p \in Procs : p # q => lock'[p] = lock[p] /\ writes'[p] = writes[p]
        /\ \A b \in Agents : b[1] = q /\ b # <<q, a[2]>> => at'[b] = at[b]
        /\ <<q, a[2]>> \in Agents /\ at'[<<q, a[2]>>] = "idle"
        /\ op' = op /\ table' = table /\ failures' = failures
    BY <1>0, <1>7 DEF Fork, Inv, TypeOK, bounds, Agents
  <2>2. \A t \in Threads : at[<<q, t>>] = "absent" /\ at'[<<q, t>>] # "evict_oldest"
    <3>1. \A t \in Threads : <<q, t>> \in Agents
      BY DEF Agents
    <3> QED BY <2>1, <3>1 DEF Alive
  <2>3. q \notin Counted /\ q \notin Counted'
    BY <2>2 DEF Counted
  <2>4. AnswersFor(q) = 0 /\ AnswersFor(q)' \in Nat
    <3>1. BoundedShares'
      BY <1>0, SharesAreBounded, PTL
    <3>2. AnswersFor(q)' \in Nat
      BY <3>1, StoreAssumption DEF BoundedShares
    <3> QED BY <2>1, <3>2 DEF AnswersFor
  <2>5. \A p \in Procs : p # q =>
            /\ p \in Counted' <=> p \in Counted
            /\ \A S \in SUBSET Counted : Share(S, p)' = Share(S, p)
    BY <1>3, <2>1
  <2>6. Counted' \subseteq Counted
    BY <2>3, <2>5 DEF Counted
  <2>7. ASSUME NEW S \in SUBSET Counted', NEW p \in Procs
        PROVE  Share(S, p) <= Share(S, p)'
    <3>1. S \in SUBSET Counted /\ q \notin S
      BY <2>3, <2>6, <2>7
    <3>2. CASE p = q
      BY <2>4, <3>1, <3>2 DEF Share
    <3>3. CASE p # q
      BY <1>1, <2>5, <3>1, <3>3
    <3> QED BY <3>2, <3>3
  <2> QED BY <1>0, <2>1, <2>6, <2>7, FitsWithLargerShares DEF Present
<1>8. ASSUME NEW p \in Procs, Kill(p)
      PROVE  TableFits'
  <2>1. /\ \A b \in Agents : b[1] # p => at'[b] = at[b] /\ op'[b] = op[b]
        /\ \A b \in Agents : b[1] = p => at'[b] = "absent"
        /\ failures' = failures + 1
        /\ UNCHANGED <<table, lock, writes>>
    BY <1>8 DEF Kill, store
  <2>2. p \notin Counted'
    <3>1. \A t \in Threads : <<p, t>> \in Agents /\ at'[<<p, t>>] = "absent"
      BY <2>1 DEF Agents
    <3> QED BY <3>1 DEF Counted
  <2>3. \A q \in Procs : q # p =>
            /\ q \in Counted' <=> q \in Counted
            /\ \A S \in SUBSET Counted : Share(S, q)' = Share(S, q)
    BY <1>3, <2>1
  <2>4. Present' = Present
    BY <2>1 DEF Present
  <2> QED BY <1>0, <2>1, <2>2, <2>3, <2>4, FitsAfterLoss
<1>9. CASE Tick \/ UNCHANGED vars
  <2>1. UNCHANGED <<table, lock, writes, at, op, failures>>
    BY <1>9 DEF Tick, vars, store, bounds
  <2>2. /\ \A q \in Procs : q \in Counted' <=> q \in Counted
        /\ \A S \in SUBSET Counted : \A q \in Procs : Share(S, q)' = Share(S, q)
    BY <1>0, <2>1, UntouchedShare
  <2>3. Counted' \subseteq Counted
    BY <2>2 DEF Counted
  <2>4. \A S \in SUBSET Counted' : \A q \in Procs : Share(S, q) <= Share(S, q)'
    BY <1>1, <2>2, <2>3
  <2> QED BY <1>0, <2>1, <2>3, <2>4, FitsWithLargerShares DEF Present
<1> QED BY <1>2, <1>4, <1>5, <1>6, <1>7, <1>8, <1>9 DEF Next, Finished

\* The table outgrows its size by no more than the writes of the processes between two of
\* their evictions and the evictions that were lost: concurrent evictions, each dropping
\* an excess it has counted earlier, never make it worse.
THEOREM TableStaysBounded == Spec => []Bounded
<1>1. Init => Counts /\ TableFits
  <2> SUFFICES ASSUME Init PROVE Counts /\ TableFits
    OBVIOUS
  <2>1. Counts
    BY InvInit DEF Counts, Init, ExcessOfKeys
  <2>2. Present = {} /\ failures = 0
    BY DEF Init, Present
  <2>3. \A S \in SUBSET Counted : Total(Shares(S)) \in Nat
    BY TotalIsNatural
  <2>4. Cardinality(Present) = 0 /\ EvictEvery * failures = 0 /\ MaxCacheEntries \in Nat
    BY <2>2, StoreAssumption, FS_EmptySet
  <2> QED BY <2>1, <2>3, <2>4 DEF TableFits
<1>2. Counts /\ TableFits /\ [Next]_vars => (Counts /\ TableFits)'
  BY CountsStep, TableFitsStep
<1>3. Counts /\ TableFits => Bounded
  <2> SUFFICES ASSUME Counts, TableFits PROVE Bounded
    OBVIOUS
  <2> DEFINE P == {p \in Procs : Alive(p)}
             r == Shares({})
             n == Cardinality(P)
  <2>1. r \in [Procs -> 0..EvictEvery] /\ \A q \in Procs : r[q] = AnswersFor(q)
    BY SharesAreBounded DEF Shares, Share, BoundedShares
  <2>2. P \in SUBSET Procs
    OBVIOUS
  <2>3. \A q \in Procs : q \notin P => r[q] = 0
    BY <2>1 DEF AnswersFor
  <2>4. Total(r) <= n * EvictEvery /\ n \in Nat
    <3> HIDE DEF P, r
    <3> QED BY <2>1, <2>2, <2>3, TotalIsBounded
  <2>5. Cardinality(Present) <= MaxCacheEntries + Total(r) + EvictEvery * failures
    BY DEF TableFits
  <2>6. /\ EvictEvery \in Nat /\ failures \in Nat /\ MaxCacheEntries \in Nat
        /\ Total(r) \in Nat /\ Cardinality(Present) \in Nat
    BY StoreAssumption, TotalIsNatural, PresentIsFinite DEF Counts
  <2>7. n * EvictEvery + EvictEvery * failures = EvictEvery * (n + failures)
    <3> HIDE DEF n
    <3> QED BY <2>4, <2>6
  <2>8. n * EvictEvery \in Int /\ EvictEvery * failures \in Int
    <3> HIDE DEF n
    <3> QED BY <2>4, <2>6
  <2>9. Cardinality(Present) <= MaxCacheEntries + EvictEvery * (n + failures)
    <3> HIDE DEF n, r
    <3>1. Cardinality(Present) <= MaxCacheEntries + (n * EvictEvery + EvictEvery * failures)
      BY <2>4, <2>5, <2>6, <2>8
    <3> QED BY <2>7, <3>1
  <2> QED BY <2>9 DEF Bounded
<1> QED BY <1>1, <1>2, <1>3, PTL DEF Spec
=============================================================================
