--------------------------- MODULE MCResponseCache ---------------------------
(* Instances of RedisCache, and with it ResponseCache, for TLC. *)
EXTENDS RedisCache, TLC

CONSTANTS g1, g2, e1, e2, c1, c2

\* Calls differ in nothing but their names.
Symmetry == Permutations(Calls)

Texts == 1..3

\* Two prompts that are similar, one that is not, and the same text in another group.
Similar   == [group |-> g1, text |-> 1]
Alike     == [group |-> g1, text |-> 2]
Unlike    == [group |-> g1, text |-> 3]
Elsewhere == [group |-> g2, text |-> 1]
AllPrompts == {Similar, Alike, Unlike, Elsewhere}

\* The vectors of e1 and e2 have the same length and nothing else in common: what e2
\* makes of text 3 comes near to what e1 makes of text 1.
Percent ==
    [pair \in ({e1, e2} \X Texts) \X ({e1, e2} \X Texts) |->
        IF pair[1] = pair[2] THEN 100
        ELSE IF {pair[1], pair[2]} = {<<e1, 1>>, <<e2, 3>>} THEN 97
        ELSE IF pair[1][1] # pair[2][1] THEN 10
        ELSE IF {pair[1][2], pair[2][2]} = {1, 2} THEN 96 ELSE 20]

Ask(semantic, ttl, embedder) ==
    [semantic |-> semantic, threshold |-> 95, ttl |-> ttl, embedder |-> embedder,
     max_candidates |-> 2]
AllConfigs == {Ask(TRUE, 1, e1), Ask(TRUE, None, e2), Ask(FALSE, None, e1)}

Reply(refused) == [refused |-> refused]
BothReplies == {Reply(TRUE), Reply(FALSE)}

\* The store is empty, or full of two answers that were given before.
Left(p, at) ==
    [key |-> p, response |-> [refused |-> FALSE, left |-> TRUE],
     embedding |-> <<e1, p.text>>, group |-> p.group, created |-> 0, expires |-> at,
     hits |-> 0]
EmptyOrFull == {<<>>, <<Left(Elsewhere, None), Left(Similar, 1)>>}
=============================================================================
