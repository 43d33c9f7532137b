------------------------------ MODULE RedisCache ------------------------------
(***************************************************************************)
(* The cache layer over a RedisCacheStore (storage/redis.py), which several *)
(* processes and hosts share, beside the MemoryCacheStore of ResponseCache. *)
(*                                                                         *)
(* The server executes one command, or one transaction of a pipeline, at a *)
(* time; each is an action, and those of other clients come in between.    *)
(* cache holds the keys <prefix>:entry:*, index the sorted sets            *)
(* <prefix>:group:*.  The numbers of hits have no consequences; the commands *)
(* that count are steps without an effect here.                            *)
(* The server drops a key whose time is over, late by the delay with which *)
(* it was told.                                                            *)
(***************************************************************************)
EXTENDS ResponseCache

CONSTANTS
    Stores,         \* the stores considered: "memory", "redis"
    Groups,         \* the groups of Prompts
    MaxGroupSize    \* RedisCacheStore.max_group_size

ASSUME RedisAssumption ==
    /\ Stores \subseteq {"memory", "redis"}
    /\ None \notin Groups
    /\ \A p \in Prompts : p.group \in Groups \union {None}
    /\ MaxGroupSize \in Nat
    /\ \A s \in Earlier, g \in Groups :
         Cardinality({e \in ToSet(s) : e.group = g}) <= MaxGroupSize

VARIABLES
    store,      \* the store all calls use
    index,      \* group -> its sorted set: keys with the time of their entry
    held,       \* call -> what it has read for its next command
    removal     \* the delete or clear of the application that is under way, or None

redis   == <<index, held, removal>>
allVars == <<vars, store, redis>>

SharedInit ==
    /\ Init
    /\ store \in Stores
    /\ index = [g \in Groups |-> {[key |-> e.key, created |-> e.created] :
                                    e \in {x \in ToSet(cache) : store = "redis" /\ x.group = g}}]
    /\ held = [c \in Calls |-> {}]
    /\ removal = None

Hold(c, what) == held' = [held EXCEPT ![c] = what]

-----------------------------------------------------------------------------
(* Commands. *)

\* The n members with the highest times; the order of equal times is not known.
IsNewest(newest, members, n) ==
    /\ newest \subseteq members
    /\ Cardinality(newest) = IF Cardinality(members) < n THEN Cardinality(members) ELSE n
    /\ \A m \in newest, o \in members \ newest : o.created <= m.created

UnlistedAt(group, keys) ==
    IF group = None THEN index
    ELSE [index EXCEPT ![group] = {m \in @ : m.key \notin keys}]

\* The group that delete() reads off the entry of p, before its transaction.
GroupOf(p) == IF p \in Keys THEN EntryOf(p).group ELSE None

\* The transaction of delete(): DEL, HDEL and ZREM.
Removed(p, group) ==
    /\ cache' = Without(p)
    /\ index' = UnlistedAt(group, {p})

-----------------------------------------------------------------------------
(* The operations of a call. *)

\* get(): GET.
Get(c) ==
    /\ phase[c] = "read"
    /\ lookedAt' = [lookedAt EXCEPT ![c] = now]
    /\ LET p == prompt[c] IN
         IF p \notin Keys THEN Missed(c)
         ELSE IF Expired(EntryOf(p)) THEN Goto(c, "drop") /\ UNCHANGED entry
         ELSE Goto(c, "count") /\ entry' = [entry EXCEPT ![c] = EntryOf(p)]
    /\ UNCHANGED <<cache, now, prompt, config, embedding, removals, recent, redis>>

\* get() of a live entry: HINCRBY.
CountHit(c) ==
    /\ phase[c] = "count"
    /\ Goto(c, "served")
    /\ UNCHANGED <<cache, now, prompt, config, embedding, entry, removals, history,
                   index, held, removal>>

\* get() of an expired entry deletes it: GET of delete().
DropExpired(c) ==
    /\ phase[c] = "drop"
    /\ Hold(c, {GroupOf(prompt[c])})
    /\ Goto(c, "remove")
    /\ UNCHANGED <<cache, now, prompt, config, embedding, entry, removals, history,
                   index, removal>>

\* The transaction of that delete(), whatever is stored under the key by now.
RemoveExpired(c) ==
    /\ phase[c] = "remove"
    /\ \E group \in held[c] : Removed(prompt[c], group)
    /\ Hold(c, {})
    /\ Missed(c)
    /\ UNCHANGED <<now, prompt, config, embedding, removals, history, removal>>

\* An error of the server in the middle of get() is a miss.
GetFails(c) ==
    /\ phase[c] \in {"count", "drop", "remove"}
    /\ Hold(c, {})
    /\ Missed(c)
    /\ UNCHANGED <<cache, now, prompt, config, embedding, removals, history, index,
                   removal>>

\* candidates(): ZREVRANGE.
ListNewest(c) ==
    /\ phase[c] = "match"
    /\ \E newest \in SUBSET index[prompt[c].group] :
         /\ IsNewest(newest, index[prompt[c].group], config[c].max_candidates)
         /\ Hold(c, newest)
         /\ Goto(c, IF newest = {} THEN "call" ELSE "fetch")
    /\ UNCHANGED <<cache, now, prompt, config, embedding, entry, removals, history,
                   index, removal>>

\* The candidates the search may settle on: of those with the highest score the first.
Matches(c, members) ==
    LET scored == {m \in members : EntryOf(m.key).embedding # None}
        score(m) == Score(c, EntryOf(m.key))
        best == {m \in scored : /\ score(m) >= config[c].threshold
                                /\ \A o \in scored : score(o) <= score(m)}
    IN {EntryOf(m.key) : m \in {n \in best : \A o \in best : o.created <= n.created}}

\* MGET: members without a live entry are stale.
Fetch(c) ==
    /\ phase[c] = "fetch"
    /\ lookedAt' = [lookedAt EXCEPT ![c] = now]
    /\ LET live    == {m \in held[c] : m.key \in Keys /\ ~Expired(EntryOf(m.key))}
           stale   == held[c] \ live
           matches == Matches(c, live)
       IN /\ \E match \in IF matches = {} THEN {None} ELSE matches :
               /\ entry' = [entry EXCEPT ![c] = match]
               /\ Goto(c, IF stale # {} THEN "prune"
                          ELSE IF match = None THEN "call" ELSE "hit")
          /\ Hold(c, {m.key : m \in stale})
    /\ UNCHANGED <<cache, now, prompt, config, embedding, removals, recent, index,
                   removal>>

\* ZREM and HDEL of the stale ones, which may be in use again by now.
Prune(c) ==
    /\ phase[c] = "prune"
    /\ index' = UnlistedAt(prompt[c].group, held[c])
    /\ Hold(c, {})
    /\ Goto(c, IF entry[c] = None THEN "call" ELSE "hit")
    /\ UNCHANGED <<cache, now, prompt, config, embedding, entry, removals, history,
                   removal>>

\* An error in the middle of candidates(): no candidates.
CandidatesFail(c) ==
    /\ phase[c] \in {"fetch", "prune"}
    /\ entry' = [entry EXCEPT ![c] = None]
    /\ Hold(c, {})
    /\ Goto(c, "call")
    /\ UNCHANGED <<cache, now, prompt, config, embedding, removals, history, index,
                   removal>>

\* record_hit(): HINCRBY.
CountSimilar(c) ==
    /\ phase[c] = "hit"
    /\ Goto(c, "served")
    /\ UNCHANGED <<cache, now, prompt, config, embedding, entry, removals, history,
                   index, held, removal>>

TrimmedLate(newest, members) == IsNewest(newest, members, MaxGroupSize + 1)  \* mutant
Trimmed(newest, members) == IsNewest(newest, members, MaxGroupSize)

\* set(): one transaction of SET, ZADD and ZREMRANGEBYRANK.
Put(c) ==
    /\ phase[c] = "write"
    /\ LET e == entry[c] IN
         /\ cache' = Append(Without(e.key), e)
         /\ IF e.group = None THEN UNCHANGED index
            ELSE LET members == {m \in index[e.group] : m.key # e.key}
                                  \union {[key |-> e.key, created |-> e.created]}
                 IN \E newest \in SUBSET members :
                      /\ Trimmed(newest, members)
                      /\ index' = [index EXCEPT ![e.group] = newest]
    /\ Goto(c, "answered")
    /\ UNCHANGED <<now, prompt, config, embedding, entry, removals, history,
                   held, removal>>

-----------------------------------------------------------------------------
(* The application and the server. *)

\* delete(): GET, then the transaction.  Nobody deletes a key that was never used.
BeginDelete(p) ==
    /\ removal = None /\ removals < MaxRemovals
    /\ p \in Keys \/ \E c \in Calls : prompt[c] = p
    /\ removals' = removals + 1
    /\ removal' = [op |-> "delete", key |-> p, group |-> GroupOf(p)]
    /\ UNCHANGED <<cache, now, local, history, index, held>>

EndDelete ==
    /\ removal # None /\ removal.op = "delete"
    /\ Removed(removal.key, removal.group)
    /\ removal' = None
    /\ UNCHANGED <<now, local, removals, history, held>>

\* clear(): SCAN of the entries, SCAN of the groups, DEL of what they found.
ScanEntries ==
    /\ removal = None /\ removals < MaxRemovals
    /\ removals' = removals + 1
    /\ removal' = [op |-> "scan", keys |-> Keys]
    /\ UNCHANGED <<cache, now, local, history, index, held>>

ScanGroups ==
    /\ removal # None /\ removal.op = "scan"
    /\ removal' = [op |-> "clear", keys |-> removal.keys,
                   groups |-> {g \in Groups : index[g] # {}}]
    /\ UNCHANGED <<vars, index, held>>

EndClear ==
    /\ removal # None /\ removal.op = "clear"
    /\ cache' = Kept(cache, {e \in ToSet(cache) : e.key \notin removal.keys})
    /\ index' = [g \in Groups |-> IF g \in removal.groups THEN {} ELSE index[g]]
    /\ removal' = None
    /\ UNCHANGED <<now, local, removals, history, held>>

\* The server drops a key whose time is over.
Vanish(p) ==
    /\ p \in Keys /\ Expired(EntryOf(p))
    /\ cache' = Without(p)
    /\ UNCHANGED <<now, local, removals, history, redis>>

\* What the layer does is the same for every store.
LayerStep(c) ==
    /\ \/ ReadFails(c)
       \/ EmbedText(c) \/ EmbedFails(c) \/ EmbedderMissing(c)
       \/ MatchFails(c) \/ RecordHitFails(c)
       \/ \E answer \in Answers : Answer(c, answer)
       \/ Fail(c)
       \/ WriteFails(c)
    /\ UNCHANGED redis

RedisStep(c) ==
    \/ Get(c) \/ CountHit(c) \/ DropExpired(c) \/ RemoveExpired(c) \/ GetFails(c)
    \/ ListNewest(c) \/ Fetch(c) \/ Prune(c) \/ CandidatesFail(c)
    \/ CountSimilar(c)
    \/ Put(c)
    \/ LayerStep(c)

RedisNext ==
    \/ \E c \in Calls : \/ RedisStep(c)
                        \/ \E p \in Prompts, conf \in Configs :
                              Begin(c, p, conf) /\ UNCHANGED redis
    \/ \E p \in Prompts : BeginDelete(p) \/ Vanish(p)
    \/ EndDelete
    \/ ScanEntries \/ ScanGroups \/ EndClear
    \/ Tick /\ UNCHANGED redis
    \/ Finished /\ UNCHANGED redis

SharedNext ==
    /\ \/ store = "memory" /\ Next /\ UNCHANGED redis
       \/ store = "redis" /\ RedisNext
    /\ UNCHANGED store

SharedSpec == SharedInit /\ [][SharedNext]_allVars

-----------------------------------------------------------------------------
(* Properties; those of ResponseCache are about both stores. *)

\* However reads, writes, evictions and the commands of other clients interleave, a
\* store has at most one entry of a key; the memory store has at most max_entries of
\* them, and no sorted set in Redis lists more than max_group_size keys.
StoresBounded ==
    IF store = "memory" THEN Bounded
    ELSE /\ \A i, j \in DOMAIN cache : cache[i].key = cache[j].key => i = j
         /\ \A g \in Groups : /\ Cardinality(index[g]) <= MaxGroupSize
                              /\ \A m, n \in index[g] : m.key = n.key => m = n
=============================================================================
