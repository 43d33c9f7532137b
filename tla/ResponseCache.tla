---------------------------- MODULE ResponseCache ----------------------------
(***************************************************************************)
(* The response cache: CacheMiddleware (middleware/cache.py) for calls that *)
(* run concurrently over one MemoryCacheStore (storage/memory.py).         *)
(*                                                                         *)
(* A store operation holds the store's lock and is one action; a call looks *)
(* the prompt up, may embed it and search similar prompts, sends it when    *)
(* that found nothing, and writes the answer.  Between two of these steps   *)
(* other calls read, write and evict, entries expire, and the caller may    *)
(* delete or clear them.                                                   *)
(*                                                                         *)
(* A prompt stands for everything cache_keys digests, its text for the last *)
(* user message, its group for all the rest; digests do not collide.        *)
(***************************************************************************)
EXTENDS Integers, SequencesExt

CONSTANTS
    Calls,            \* calls, each made once
    Prompts,          \* prompts: records with a group and a text
    Configs,          \* the cache configurations a call may have
    Answers,          \* what a model may answer: records with a refused flag
    Similarity,       \* cosine similarity of two vectors, in percent
    Earlier,          \* what earlier calls may have left in the store
    MaxEntries,       \* MemoryCacheStore.max_entries
    MaxTime,          \* bound: the clock
    MaxRemovals,      \* bound: deletes and clears by the application
    None

\* A vector is known by its embedder and the text.
Vectors == {<<conf.embedder, p.text>> : conf \in Configs, p \in Prompts}

LeftEntries == UNION {ToSet(s) : s \in Earlier}

Entries ==
    [key : Prompts, response : Answers \union {e.response : e \in LeftEntries},
     embedding : Vectors \union {None}, group : {p.group : p \in Prompts} \union {None},
     created : Nat, expires : Nat \union {None}, hits : Nat]

ASSUME CacheAssumption ==
    /\ \A p \in Prompts : p.group = None <=> p.text = None
    /\ MaxEntries \in Nat \ {0}
    /\ MaxTime \in Nat /\ MaxRemovals \in Nat
    /\ Earlier \subseteq Seq(Entries)
    /\ \A s \in Earlier :
         /\ Len(s) <= MaxEntries
         /\ \A i, j \in DOMAIN s : s[i].key = s[j].key => i = j
    /\ \A e \in LeftEntries :
         /\ ~e.response.refused
         /\ e.group \in {e.key.group, None}
         /\ e.embedding = None \/ e.embedding[2] = e.key.text
    /\ \A conf \in Configs :
         /\ conf.threshold \in Nat \ {0} /\ conf.max_candidates \in Nat \ {0}
         /\ conf.ttl \in Nat \union {None}
    /\ \A v, w \in Vectors : Similarity[<<v, w>>] \in Int
    /\ None \notin Prompts \union Configs \union Entries \union Nat

VARIABLES
    cache,       \* MemoryCacheStore._entries, least recently used first
    now,         \* the clock
    phase,       \* call -> the step it is at
    prompt,      \* call -> what it asks
    config,      \* call -> its CacheConfig
    embedding,   \* call -> the vector of its prompt, or None
    entry,       \* call -> the entry it is served from, or writes, or None
    removals,    \* deletes and clears so far
    (* History, read by the properties only. *)
    lookedAt,    \* call -> when it last looked into the store
    recent       \* the prompts used so far, the last used last

local   == <<phase, prompt, config, embedding, entry>>
history == <<lookedAt, recent>>
vars    == <<cache, now, local, removals, history>>

-----------------------------------------------------------------------------
(* The store. *)

Entry(p, answer, vector, ttl) ==
    [key |-> p, response |-> answer, embedding |-> vector,
     group |-> IF vector = None THEN None ELSE p.group, created |-> now,
     expires |-> IF ttl = None THEN None ELSE now + ttl, hits |-> 0]

Expired(e) == e.expires # None /\ now >= e.expires

\* The members of s that are in S, in their order.
Kept(s, S) ==
    LET kept[n \in 0..Len(s)] ==
            IF n = 0 THEN <<>>
            ELSE IF s[n] \in S THEN Append(kept[n - 1], s[n]) ELSE kept[n - 1]
    IN  kept[Len(s)]

Keys == {cache[i].key : i \in DOMAIN cache}
EntryOf(p) == CHOOSE e \in ToSet(cache) : e.key = p
Without(p) == Kept(cache, {e \in ToSet(cache) : e.key # p})

TouchedInPlace(e) ==  \* mutant
    [i \in DOMAIN cache |->
        IF cache[i].key = e.key THEN [cache[i] EXCEPT !.hits = @ + 1] ELSE cache[i]]

\* One more hit for e, which becomes the most recently used.
Touched(e) == Append(Without(e.key), [e EXCEPT !.hits = @ + 1])

Newest(s) == SubSeq(s, IF Len(s) > MaxEntries THEN Len(s) - MaxEntries + 1 ELSE 1, Len(s))

\* e in the place of the entry of the same key, and the oldest ones dropped.
With(e) == Newest(Append(Without(e.key), e))

CandidatesUnchecked(group, limit) ==  \* mutant
    Kept(Reverse(cache), {e \in ToSet(cache) : e.group = group /\ e.embedding # None})
CandidatesOfAll(group, limit) ==  \* mutant
    Kept(Reverse(cache), {e \in ToSet(cache) : e.embedding # None /\ ~Expired(e)})

\* The live entries of a group with a vector, most recently used first.
Candidates(group, limit) ==
    LET found == Kept(Reverse(cache), {e \in ToSet(cache) :
                     e.group = group /\ e.embedding # None /\ ~Expired(e)})
    IN  SubSeq(found, 1, IF Len(found) < limit THEN Len(found) ELSE limit)

-----------------------------------------------------------------------------
(* The cache layer. *)

\* The second row are steps within an operation of a store that takes several.
Phases == {"new", "read", "embed", "match", "hit", "call", "write", "served",
           "count", "drop", "remove", "fetch", "prune",
           "answered", "failed"}

Score(c, e) == Similarity[<<embedding[c], e.embedding>>]

\* The candidate with the highest score, the first of them on a tie.
Best(c, candidates) ==
    LET scores == [i \in DOMAIN candidates |-> Score(c, candidates[i])]
        best   == CHOOSE i \in DOMAIN scores :
                     /\ \A j \in DOMAIN scores : scores[j] <= scores[i]
                     /\ \A j \in 1..(i - 1) : scores[j] < scores[i]
    IN  candidates[best]

SemanticMatch(c, candidates) ==
    IF candidates # <<>> /\ Score(c, Best(c, candidates)) >= config[c].threshold
    THEN Best(c, candidates) ELSE None

CacheableAlways(answer) == TRUE  \* mutant
Cacheable(answer) == ~answer.refused

Init ==
    /\ cache \in Earlier
    /\ now = 0
    /\ phase = [c \in Calls |-> "new"]
    /\ prompt = [c \in Calls |-> None]
    /\ config = [c \in Calls |-> None]
    /\ embedding = [c \in Calls |-> None]
    /\ entry = [c \in Calls |-> None]
    /\ removals = 0
    /\ lookedAt = [c \in Calls |-> 0]
    /\ recent = [i \in DOMAIN cache |-> cache[i].key]

Goto(c, p) == phase' = [phase EXCEPT ![c] = p]

Use(p) == recent' = Append(Kept(recent, Prompts \ {p}), p)

\* A request that may not be cached (a stream, n > 1) passes the layer by, and
\* so does one without a cache configuration: neither is a call here.
Begin(c, p, conf) ==
    /\ phase[c] = "new"
    /\ prompt' = [prompt EXCEPT ![c] = p]
    /\ config' = [config EXCEPT ![c] = conf]
    /\ Goto(c, "read")
    /\ UNCHANGED <<cache, now, embedding, entry, removals, history>>

\* The exact lookup found nothing.
Missed(c) ==
    /\ Goto(c, IF config[c].semantic /\ prompt[c].group # None THEN "embed" ELSE "call")
    /\ entry' = [entry EXCEPT ![c] = None]

\* store.get, which drops the entry when it has expired.
Read(c) ==
    /\ phase[c] = "read"
    /\ lookedAt' = [lookedAt EXCEPT ![c] = now]
    /\ LET p == prompt[c] IN
         IF p \in Keys /\ ~Expired(EntryOf(p))
         THEN /\ cache' = Touched(EntryOf(p))
              /\ entry' = [entry EXCEPT ![c] = EntryOf(p)]
              /\ Use(p)
              /\ Goto(c, "served")
         ELSE /\ cache' = Without(p)
              /\ Missed(c)
              /\ UNCHANGED recent
    /\ UNCHANGED <<now, prompt, config, embedding, removals>>

\* The store is broken: logged, and treated as a miss.
ReadFails(c) ==
    /\ phase[c] = "read"
    /\ Missed(c)
    /\ UNCHANGED <<cache, now, prompt, config, embedding, removals, history>>

\* The embedder runs, possibly in a worker thread.
EmbedText(c) ==
    /\ phase[c] = "embed"
    /\ embedding' = [embedding EXCEPT ![c] = <<config[c].embedder, prompt[c].text>>]
    /\ Goto(c, "match")
    /\ UNCHANGED <<cache, now, prompt, config, entry, removals, history>>

EmbedFails(c) ==
    /\ phase[c] = "embed"
    /\ Goto(c, "call")
    /\ UNCHANGED <<cache, now, prompt, config, embedding, entry, removals, history>>

\* The embedder is not installed: the one failure of the cache that is raised.
EmbedderMissing(c) ==
    /\ phase[c] = "embed"
    /\ Goto(c, "failed")
    /\ UNCHANGED <<cache, now, prompt, config, embedding, entry, removals, history>>

\* store.candidates and the search among them; the store keeps nothing locked.
Match(c) ==
    /\ phase[c] = "match"
    /\ lookedAt' = [lookedAt EXCEPT ![c] = now]
    /\ LET match == SemanticMatch(c, Candidates(prompt[c].group,
                                               config[c].max_candidates)) IN
         /\ entry' = [entry EXCEPT ![c] = match]
         /\ Goto(c, IF match = None THEN "call" ELSE "hit")
    /\ UNCHANGED <<cache, now, prompt, config, embedding, removals, recent>>

MatchFails(c) ==
    /\ phase[c] = "match"
    /\ Goto(c, "call")
    /\ UNCHANGED <<cache, now, prompt, config, embedding, entry, removals, history>>

\* store.record_hit: the entry may be gone or another one by now.  It is served
\* all the same.
RecordHit(c) ==
    /\ phase[c] = "hit"
    /\ Goto(c, "served")
    /\ LET p == entry[c].key IN
         IF p \in Keys
         THEN cache' = Touched(EntryOf(p)) /\ Use(p)
         ELSE UNCHANGED <<cache, recent>>
    /\ UNCHANGED <<now, prompt, config, embedding, entry, removals, lookedAt>>

RecordHitFails(c) ==
    /\ phase[c] = "hit"
    /\ Goto(c, "served")
    /\ UNCHANGED <<cache, now, prompt, config, embedding, entry, removals, history>>

\* The rest of the pipeline answers.
Answer(c, answer) ==
    /\ phase[c] = "call"
    /\ entry' = [entry EXCEPT ![c] =
                    Entry(prompt[c], answer, embedding[c], config[c].ttl)]
    /\ Goto(c, IF Cacheable(answer) THEN "write" ELSE "answered")
    /\ UNCHANGED <<cache, now, prompt, config, embedding, removals, history>>

\* Mutant: the error is kept as an entry.
FailWithEntry(c) ==
    /\ phase[c] = "call"
    /\ entry' = [entry EXCEPT ![c] = Entry(prompt[c], [refused |-> TRUE], None, None)]
    /\ Goto(c, "failed")
    /\ UNCHANGED <<cache, now, prompt, config, embedding, removals, history>>

\* The rest of the pipeline raises, a response that failed validation included.
Fail(c) ==
    /\ phase[c] = "call"
    /\ Goto(c, "failed")
    /\ UNCHANGED <<cache, now, prompt, config, embedding, entry, removals, history>>

\* store.set, which may replace what another call wrote since the lookup.
Write(c) ==
    /\ phase[c] = "write"
    /\ cache' = With(entry[c])
    /\ Use(entry[c].key)
    /\ Goto(c, "answered")
    /\ UNCHANGED <<now, prompt, config, embedding, entry, removals, lookedAt>>

WriteFails(c) ==
    /\ phase[c] = "write"
    /\ Goto(c, "answered")
    /\ UNCHANGED <<cache, now, prompt, config, embedding, entry, removals, history>>

-----------------------------------------------------------------------------
(* The application and the clock. *)

Delete(p) ==
    /\ removals < MaxRemovals
    /\ removals' = removals + 1
    /\ cache' = Without(p)
    /\ UNCHANGED <<now, local, history>>

Clear ==
    /\ removals < MaxRemovals
    /\ removals' = removals + 1
    /\ cache' = <<>>
    /\ UNCHANGED <<now, local, history>>

Tick ==
    /\ now < MaxTime
    /\ now' = now + 1
    /\ UNCHANGED <<cache, local, removals, history>>

Step(c) ==
    \/ Read(c) \/ ReadFails(c)
    \/ EmbedText(c) \/ EmbedFails(c) \/ EmbedderMissing(c)
    \/ Match(c) \/ MatchFails(c)
    \/ RecordHit(c) \/ RecordHitFails(c)
    \/ \E answer \in Answers : Answer(c, answer)
    \/ Fail(c)
    \/ Write(c) \/ WriteFails(c)

\* Every call has returned: the only way for the system to stop.
Finished ==
    /\ \A c \in Calls : phase[c] \in {"served", "answered", "failed"}
    /\ UNCHANGED vars

Next ==
    \/ \E c \in Calls : Step(c) \/ \E p \in Prompts, conf \in Configs : Begin(c, p, conf)
    \/ \E p \in Prompts : Delete(p)
    \/ Clear
    \/ Tick
    \/ Finished

\* A call that has begun runs on, and the provider answers, fails or times out.
Spec == Init /\ [][Next]_vars /\ \A c \in Calls : WF_vars(Step(c))

-----------------------------------------------------------------------------
(* Properties. *)

TypeOK ==
    /\ \A i \in DOMAIN cache : cache[i].key \in Prompts /\ cache[i].hits \in Nat
    /\ now \in 0..MaxTime
    /\ phase \in [Calls -> Phases]
    /\ \A c \in Calls : prompt[c] \in Prompts \union {None}
    /\ \A c \in Calls :
          /\ phase[c] \in {"count", "hit", "write", "served", "answered"} => entry[c] # None
          /\ phase[c] \in {"new", "read", "embed", "match", "call", "failed"} => entry[c] = None

\* However reads, writes and evictions interleave, the store has at most
\* max_entries entries, and at most one of a key.
Bounded ==
    /\ Len(cache) <= MaxEntries
    /\ \A i, j \in DOMAIN cache : cache[i].key = cache[j].key => i = j

\* A write evicts an entry only when every one that stays was used more
\* recently: exact and similar hits and writes all count as a use.
EvictsLeastRecent ==
    [][\A c \in Calls : Write(c) =>
          \A p \in Keys \ Keys', q \in Keys' :
             \E i, j \in DOMAIN recent' : i < j /\ recent'[i] = p /\ recent'[j] = q]_vars

\* The text of the entry of c, as v tells it, is similar enough to that of its prompt.
LooksSimilar(c, v) ==
    /\ v[2] = entry[c].key.text
    /\ Similarity[<< <<config[c].embedder, prompt[c].text>>, v >>] >= config[c].threshold

\* A cached answer is the answer to the same prompt or, with semantic matching, to one of
\* the same group whose text is similar enough, as some embedder tells it: that of the
\* call that wrote the answer.  A group does not name its embedder, and the search
\* compares any two vectors of one length; of two embedders, their score means nothing.
SameQuestion ==
    \A c \in Calls : phase[c] = "served" =>
        \/ entry[c].key = prompt[c]
        \/ /\ config[c].semantic
           /\ entry[c].key.group = prompt[c].group
           /\ \E v \in Vectors : LooksSimilar(c, v)

\* What a call is served had not expired when the call looked, however long the
\* embedder took.
ServedAlive ==
    \A c \in Calls : phase[c] = "served" =>
        entry[c].expires = None \/ lookedAt[c] < entry[c].expires

\* Everything in the cache is an answer that a call got for that very prompt, in
\* its own group, and no refusal.
HoldsAnswers ==
    \A e \in ToSet(cache) :
        /\ ~e.response.refused
        /\ e.group \in {e.key.group, None}
        /\ \/ \E c \in Calls : /\ phase[c] = "answered"
                               /\ prompt[c] = e.key
                               /\ entry[c].response = e.response
           \/ \E s \in Earlier : \E i \in DOMAIN s :
                 s[i].key = e.key /\ s[i].response = e.response
=============================================================================
