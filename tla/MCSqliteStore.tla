---------------------------- MODULE MCSqliteStore ----------------------------
(* Instances of SqliteStore for TLC. *)
EXTENDS SqliteStore, TLC

CONSTANTS p1, p2, t1, t2, k1, k2, k3, k4, k5, k6

Symmetry == Permutations(Threads)

AllKinds == {"get", "set", "evict", "record_hit", "delete", "clear", "close"}

\* With MaxOps = 6: six writes of entries with a time to live, or three and another
\* operation, or two others.
Weights ==
    [x \in Kinds \X (Ttls \union {None}) |-> IF x[1] = "set" /\ x[2] # None THEN 1 ELSE 3]

\* A VIEW: keys differ in nothing but their names, so that a state is known by how
\* many keys have which row and which agents at work on them.  That is symmetry over
\* the keys, without the 6! permutations of them for each state.  (The comparisons
\* say nothing more, but make TLC evaluate the functions before it stores a state.)
UpToKeys ==
    LET onKey == [k \in Keys |-> <<table[k], {a \in Agents : op[a].key = k}>>]
    IN  <<[x \in {onKey[k] : k \in Keys} |-> Cardinality({k \in Keys : onKey[k] = x})],
          [a \in Agents |-> <<op[a].kind, op[a].time, op[a].ttl, op[a].excess>>],
          at, now, store, bounds, alone,
          table = [k \in Keys |-> None], op = [a \in Agents |-> Idle]>>
=============================================================================
