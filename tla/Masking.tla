------------------------------- MODULE Masking -------------------------------
(***************************************************************************)
(* The security layer (middleware/security.py, security/*.py): scoring of  *)
(* prompt injection, and masking of personal data with placeholders that   *)
(* are numbered through all the messages of a request.                     *)
(*                                                                         *)
(* Words <<"pii", "email", n>> and <<"pii", "digits", n>> stand for what   *)
(* the patterns find: a group of digits is a phone number, two in a row a  *)
(* card number.  A word <<"attack", name, w>> matches an injection pattern *)
(* of weight w (in hundredths), a word <<"mask", entity, n>> is [ENTITY_n]. *)
(***************************************************************************)
EXTENDS Messages

-----------------------------------------------------------------------------
(* PIIRedactor *)

\* _ORDER, as far as the words tell entities apart.
Order == <<"email", "credit_card", "phone">>

IsWord(text, i, name) == i \in DOMAIN text /\ text[i][1] = "pii" /\ text[i][2] = name

\* The spans (first word, number of words) a detector yields, left to right and not
\* overlapping.
Detected(entity, text) ==
    CASE entity = "email" -> {<<i, 1>> : i \in {j \in DOMAIN text : IsWord(text, j, "email")}}
      [] entity = "phone" -> {<<i, 1>> : i \in {j \in DOMAIN text : IsWord(text, j, "digits")}}
      [] entity = "credit_card" ->
           {<<i, 2>> : i \in {j \in DOMAIN text : /\ IsWord(text, j, "digits")
                                                  /\ IsWord(text, j + 1, "digits")
                                                  /\ ~IsWord(text, j - 1, "digits")}}

Finding(entity, span, text) ==
    [entity |-> entity, start |-> span[1], end |-> span[1] + span[2],
     value |-> SubSeq(text, span[1], span[1] + span[2] - 1)]

\* PIIRedactor.find: a span claimed by an earlier entity is not available to a later one.
Findings(text, entities) ==
    LET claim(found, entity) ==
            LET free(span) == \A f \in found : ~(span[1] < f.end /\ span[1] + span[2] > f.start)
            IN IF entity \notin entities THEN found
               ELSE found \union {Finding(entity, span, text) :
                                    span \in {s \in Detected(entity, text) : free(s)}}
    IN FoldLeft(claim, {}, Order)

\* What is found in a sequence of texts: the finding and the number of its text.
FoundIn(texts, entities) ==
    UNION {{[at |-> i, finding |-> f] : f \in Findings(texts[i], entities)} : i \in DOMAIN texts}

IsBefore(g, h) == g.at < h.at \/ (g.at = h.at /\ g.finding.start < h.finding.start)

\* The registry of redact, once it has seen all the texts: each value that was found has
\* the number of its placeholder, those of one entity in the order of their first finding.
Registry(found) ==
    LET firsts == {h \in found : ~ \E g \in found :
                      /\ g.finding.entity = h.finding.entity
                      /\ g.finding.value = h.finding.value
                      /\ IsBefore(g, h)}
    IN {[entity |-> h.finding.entity, value |-> h.finding.value,
         index  |-> 1 + Cardinality({g \in firsts : /\ g.finding.entity = h.finding.entity
                                                    /\ IsBefore(g, h)})] : h \in firsts}

\* PIIRedactor.redact: the text with each finding replaced by its placeholder.
Redact(text, entities, registry) ==
    LET found == Findings(text, entities)
        piece(i) ==
            LET covering == {f \in found : f.start <= i /\ i < f.end} IN
            IF covering = {} THEN <<text[i]>>
            ELSE LET f == CHOOSE g \in covering : TRUE
                     r == CHOOSE s \in registry : s.entity = f.entity /\ s.value = f.value
                 IN IF i = f.start THEN << <<"mask", f.entity, r.index>> >> ELSE <<>>
    IN Joined([i \in DOMAIN text |-> piece(i)])

\* Message.map_text with the redactor: the visible parts, then the arguments of the
\* tool calls; the parts that are not visible stay as they are.
RedactMessage(message, entities, registry) ==
    [message EXCEPT
        !.content.parts = [i \in DOMAIN @ |->
            IF IsVisible(@[i]) THEN Part(@[i].kind, Redact(@[i].text, entities, registry))
            ELSE @[i]],
        !.item.calls = [i \in DOMAIN @ |-> Redact(@[i], entities, registry)]]

\* The texts of the messages whose role is one of roles.
TextsFrom(messages, roles) ==
    LET scanned == Only(messages, {m \in ToSet(messages) : m.role \in roles}) IN
    Joined([i \in DOMAIN scanned |-> IterTexts(scanned[i])])

\* redact_request: one registry for all messages of the roles configured.
RegistryOf(request, pii) ==
    Registry(FoundIn(TextsFrom(request.messages, pii.roles), pii.entities))

RedactRequest(request, pii, registry) ==
    IF registry = {} THEN request
    ELSE [request EXCEPT !.messages = [i \in DOMAIN @ |->
             IF @[i].role \in pii.roles THEN RedactMessage(@[i], pii.entities, registry)
             ELSE @[i]]]

-----------------------------------------------------------------------------
(* Prompt injection *)

\* HeuristicInjectionDetector.score, in ten-thousandths: each pattern that matches
\* counts once, and the weights combine as independent pieces of evidence.
Score(text) ==
    LET matches == {word \in ToSet(text) : word[1] = "attack"} IN
    10000 - FoldSet(LAMBDA word, rest : (rest * (100 - word[3])) \div 100, 10000, matches)

\* score_injection: the highest score of any text of the roles configured.
InjectionScore(request, injection) ==
    LET texts  == ToSet(TextsFrom(request.messages, injection.roles))
        scores == {0} \union {Score(text) : text \in texts}
    IN CHOOSE s \in scores : \A t \in scores : t <= s

=============================================================================
