------------------------------- MODULE Exchange -------------------------------
(***************************************************************************)
(* What one call says to the models and what it hands back: the data that  *)
(* travels through the layers whose control is module Pipeline.            *)
(*                                                                         *)
(* A call arrives through an intercepted SDK (via = "sdk") or complete().  *)
(* Its request is made canonical, screened and masked, sent to one target  *)
(* after the other, re-asked when the answer does not validate, and the    *)
(* answer, possibly one recalled from the cache, is handed back in the form *)
(* of the SDK that was called.  What the providers do is open.             *)
(***************************************************************************)
EXTENDS Adapters, Masking, Replies, Classification, Prices

CONSTANT
    Calls    \* the calls considered, each with the answers and errors it may meet

VARIABLES
    call,        \* the call: arguments, configuration, targets
    pc,          \* where it stands
    request,     \* state.request
    index,       \* Fallback: position in call.targets
    tries,       \* Retry: retries of this target
    attempt,     \* Validator: attempt
    spent,       \* Validator: _Spend, usage and cost
    response,    \* the canonical response
    handed,      \* what the caller gets
    (* History, read by the properties only. *)
    sent,        \* the last request sent: provider and arguments
    registry,    \* the placeholders of the masked request
    asks,        \* the turns added by re-asking
    answer,      \* the provider's last answer
    billed,      \* tokens and money the providers' answers came to
    waits        \* waits before retries, each with its error

Providers == {"openai", "openai-responses", "anthropic", "google"}
Bills == [input : Nat, output : Nat, read : Nat, write : Nat, reported : BOOLEAN]

\* A call has a target, its own, and one attempt more than validation_retries, which
\* config.py requires not to be negative.
ASSUME CallsAssumption ==
    \A c \in Calls :
        /\ c.targets \in Seq([provider : Providers, model : ModelNames])
        /\ c.targets # <<>>
        /\ c.caller \in Providers
        /\ c.targets[1].provider = c.caller
        /\ c.attempts \in Nat \ {0}
        /\ c.retry.retries \in Nat /\ c.retry.longest \in Int
        /\ \A e \in c.errors : IsError(e)
        /\ \A a \in c.answers :
              /\ a.bill \in Bills
              /\ a.outcome \in {"done", "truncated", "refused"}
              /\ a.parts \in Seq(ContentParts)

-----------------------------------------------------------------------------
(* What the security layer covers of a call's arguments. *)

RoleOf(item) == IF item.kind \in {"message", "content", "bare"} THEN Canonical(item.role)
                ELSE item.kind

\* The texts of a content that detectors see, and those of the calls beside it.
Visible(content, calls) ==
    {part.text : part \in {p \in ToSet(content.parts) : IsVisible(p)}} \union ToSet(calls)

\* Whose words an item has.  A function_call and the other items of the Responses API have
\* no role a configuration names.
SpeakerOf(item) == IF item.kind = "function_call_output" THEN "tool" ELSE RoleOf(item)

\* The texts said by one of roles.
Covered(kwargs, roles) ==
    LET items == {item \in ToSet(kwargs.turns) : SpeakerOf(item) \in roles}
    IN (IF kwargs.system # None /\ "system" \in roles THEN Visible(kwargs.system, <<>>) ELSE {})
         \union UNION {Visible(item.content, item.calls) : item \in items}

WordsIn(texts) == UNION {ToSet(text) : text \in texts}

\* What is found of each entity.
PersonalData(kwargs, pii) ==
    {<<f.entity, f.value>> :
        f \in UNION {Findings(text, pii.entities) : text \in Covered(kwargs, pii.roles)}}

\* complete() is given messages with a text each, in the form of OpenAI's, not all of
\* them the system's, and no extra_body.  The Responses API has no stop sequences.
ASSUME AskedAssumption ==
    \A c \in Calls :
        /\ IsArgs(IF c.via = "complete" THEN "openai" ELSE c.caller, c.asked)
        /\ c.via = "complete" =>
             /\ \A i \in DOMAIN c.asked.turns :
                   LET item == c.asked.turns[i] IN
                   /\ item.role \in PortableRoles /\ item.calls = <<>>
                   /\ Len(item.content.parts) = 1 /\ IsTextPart(item.content.parts[1])
             /\ \E i \in DOMAIN c.asked.turns : c.asked.turns[i].role # "system"
             /\ c.asked.settings.body = None
        /\ c.via # "complete" /\ c.caller = "openai-responses" => c.asked.settings.stop = <<>>

\* The roles of a configuration are those of messages.  Who has card numbers masked also
\* has groups of digits masked: the words have card numbers of two groups, and no line
\* break between texts that are joined, so halves that no detector finds could meet.  A
\* model that is sent placeholders invents other data than the data they stand for, and no
\* attack in a role that is filtered.
ASSUME SecurityAssumption ==
    \A c \in Calls :
        LET invented == UNION {WordsIn(Visible(Parts(a.parts), <<>>)) : a \in c.answers} IN
        /\ c.pii # None =>
             /\ c.pii.roles \subseteq Roles
             /\ "credit_card" \in c.pii.entities => "phone" \in c.pii.entities
             /\ \A word \in invented \intersect WordsIn(Covered(c.asked, c.pii.roles)) :
                   word[1] # "pii"
        /\ c.injection # None =>
             /\ c.injection.roles \subseteq Roles
             /\ c.injection.threshold \in Int
             /\ "assistant" \in c.injection.roles => \A word \in invented : word[1] # "attack"

-----------------------------------------------------------------------------
history == <<sent, registry, asks, answer, billed, waits>>
vars == <<call, pc, request, index, tries, attempt, spent, response, handed, history>>

Target == call.targets[index]

NoSpending == [usage |-> Usage(0, 0, 0, 0, TRUE), cost |-> 0]

PlusCost(sum, cost) == IF sum = None \/ cost = None THEN None ELSE sum + cost

-----------------------------------------------------------------------------
(* The providers: how an answer appears in the reply of each SDK. *)

\* What a provider bills: OpenAI's and Google's counters have no cache writes.
BilledUsage(q, bill) ==
    IF ~bill.reported THEN Usage(0, 0, 0, 0, FALSE)
    ELSE IF q \in {"openai", "google"}
    THEN Usage(bill.input + bill.write, bill.output, bill.read, 0, TRUE) ELSE bill

NativeCounters(q, bill) ==
    LET u == BilledUsage(q, bill)
        prompt == u.input + u.read + u.write
    IN IF ~bill.reported THEN None
       ELSE CASE q = "anthropic" -> Counters(u.input, u.output, u.read, u.write, 0, TotalTokens(u))
              [] q = "google" -> Counters(prompt, u.output - 1, u.read, 0, 1, TotalTokens(u))
              [] OTHER -> Counters(prompt, u.output, u.read, u.write, 0, TotalTokens(u))

\* The finish reasons that say how an answer ended; Gemini says why it refused.
NativeFinish == [
    openai    |-> [done |-> {"stop"}, truncated |-> {"length"}, refused |-> {"content_filter"}],
    anthropic |-> [done |-> {"end_turn"}, truncated |-> {"max_tokens"}, refused |-> {"refusal"}],
    google    |-> [done |-> {"STOP"}, truncated |-> {"MAX_TOKENS"},
                   refused |-> {"SAFETY", "RECITATION", "BLOCKLIST", "PROHIBITED_CONTENT",
                                "SPII"}],
    responses |-> [done |-> {"completed"}, truncated |-> {"max_output_tokens"},
                   refused |-> {"content_filter"}]]

FinishesOf(q) == NativeFinish[IF q = "openai-responses" THEN "responses" ELSE q]

\* The model that answers, which may be a dated version of the one asked.
Answering(target, a) == IF a.dated THEN Append(target.model, "dated") ELSE target.model

NativeReply(target, a, finish) ==
    Reply(target.provider, IF a.dated THEN Answering(target, a) ELSE None, a.parts, finish,
          FALSE, NativeCounters(target.provider, a.bill))

-----------------------------------------------------------------------------
(* complete() *)

\* build_request: the canonical arguments translated to the provider's own.  The
\* sampling parameters of a call to Anthropic go into the body of the request, and the
\* provider's other arguments are added.
BuildKwargs(q, asked) ==
    LET params    == [limit |-> asked.settings.limit, temp |-> asked.settings.temp,
                      stop |-> asked.settings.stop]
        messages  == [i \in DOMAIN asked.turns |->
                         Turn(asked.turns[i].role, asked.turns[i].content.parts[1].text)]
        kwargs    == ToKwargsTranslated(q, Request(q, asked.model, messages, params, None, None))
        body      == IF q = "anthropic" THEN params.temp ELSE None
    IN [kwargs EXCEPT !.settings.opts = asked.settings.opts, !.settings.body = body]

Init ==
    /\ call \in Calls
    /\ pc = "called"
    /\ request = None
    /\ index = 1 /\ tries = 0 /\ attempt = 0
    /\ spent = NoSpending
    /\ response = None /\ handed = None
    /\ sent = None /\ registry = {} /\ asks = <<>> /\ answer = None
    /\ billed = [tokens |-> 0, cost |-> 0] /\ waits = {}

\* The wrapper of an SDK method, or complete(), makes the request.
Receive ==
    /\ pc = "called"
    /\ request' = ParseNativeRequest(call.caller,
                      IF call.via = "complete" THEN BuildKwargs(call.caller, call.asked)
                      ELSE call.asked)
    /\ pc' = "screen"
    /\ UNCHANGED <<call, index, tries, attempt, spent, response, handed, history>>

-----------------------------------------------------------------------------
(* SecurityMiddleware *)

Flagged == /\ call.injection # None
           /\ InjectionScore(request, call.injection) >= call.injection.threshold

\* PromptInjectionError, or PIIDetectedError: nothing is sent.
Block ==
    /\ pc = "screen"
    /\ \/ Flagged /\ call.injection.block
       \/ /\ call.pii # None
          /\ call.pii.block
          /\ RegistryOf(request, call.pii) # {}
    /\ pc' = "raised"
    /\ UNCHANGED <<call, request, index, tries, attempt, spent, response, handed, history>>

Screen ==
    /\ pc = "screen"
    /\ ~(Flagged /\ call.injection.block)
    /\ IF call.pii = None THEN UNCHANGED <<request, registry>>
       ELSE /\ registry' = RegistryOf(request, call.pii)
            /\ call.pii.block => registry' = {}
            /\ request' = RedactRequest(request, call.pii, registry')
    /\ pc' = "pick"
    /\ UNCHANGED <<call, index, tries, attempt, spent, response, handed, sent, asks, answer,
                   billed, waits>>

-----------------------------------------------------------------------------
(* FallbackMiddleware and transport *)

NextTargetPastTheEnd ==  \* mutant
    /\ tries' = 0
    /\ IF index <= Len(call.targets) THEN index' = index + 1 /\ pc' = "pick"
       ELSE index' = index /\ pc' = "raised"

NextTarget ==
    /\ tries' = 0
    /\ IF index < Len(call.targets) THEN index' = index + 1 /\ pc' = "pick"
       ELSE index' = index /\ pc' = "raised"

\* fallback_blocker: a fallback the request cannot be translated for.
IsBlocked == Target.provider # request.origin /\ ~Portable(request)

SkipTarget ==
    /\ pc = "pick"
    /\ index > 1 /\ IsBlocked
    /\ NextTarget
    /\ UNCHANGED <<call, request, attempt, spent, response, handed, history>>

\* transport: the request in the form of the target.
Send ==
    /\ pc \in {"pick", "retry"}
    /\ index > 1 => ~IsBlocked
    /\ sent' = [to |-> Target.provider,
                kwargs |-> ToKwargs(Target.provider, Retarget(request, Target))]
    /\ pc' = "sent"
    /\ UNCHANGED <<call, request, index, tries, attempt, spent, response, handed, registry,
                   asks, answer, billed, waits>>

\* transport: the reply parsed and priced.
Answer ==
    /\ pc = "sent"
    /\ \E a \in call.answers : \E finish \in FinishesOf(Target.provider)[a.outcome] :
          LET parsed == ParseResponse(Target.provider, NativeReply(Target, a, finish),
                                      Target.model, a.dumps)
              used   == BilledUsage(Target.provider, a.bill)
              rate   == PriceInForce(Target.provider, Answering(Target, a))
          IN /\ response' = [parsed EXCEPT !.cost = CostOfResponse(Target, parsed)]
             /\ answer' = a
             /\ billed' = [tokens |-> billed.tokens + TotalTokens(used),
                           cost   |-> PlusCost(billed.cost, IF ~a.bill.reported \/ rate = None
                                                            THEN None ELSE CostAt(rate, used))]
    /\ pc' = "answered"
    /\ UNCHANGED <<call, request, index, tries, attempt, spent, handed, sent, registry, asks,
                   waits>>

\* The request fails: it is sent again after a wait, or the next target has its turn.
Fail ==
    /\ pc = "sent"
    /\ \E e \in call.errors :
          LET delays == Delays(tries, e, call.retry)
              again  == ShouldRetry(e, call.retry) /\ tries < call.retry.retries /\ delays # {}
          IN \/ /\ again
                /\ \E d \in delays : waits' = waits \union {[error |-> e, wait |-> d]}
                /\ tries' = tries + 1
                /\ pc' = "retry"
                /\ UNCHANGED index
             \/ /\ ~again
                /\ IF ~e.control /\ Len(call.targets) > 1 /\ (index = 1 => IsTransient(e))
                   THEN NextTarget
                   ELSE pc' = "raised" /\ UNCHANGED <<index, tries>>
                /\ UNCHANGED waits
    /\ UNCHANGED <<call, request, attempt, spent, response, handed, sent, registry, asks,
                   answer, billed>>

-----------------------------------------------------------------------------
(* ValidatorMiddleware *)

\* _Spend.add
Spending == [usage |-> PlusUsage(spent.usage, response.usage),
             cost  |-> PlusCost(spent.cost, response.cost)]

Feedback == << <<"feedback", "", attempt>> >>

\* The answer does not match the schema: the model is told, if attempts are left.
Reask ==
    /\ pc = "answered" /\ call.attempts > 1
    /\ spent' = Spending
    /\ IF attempt + 1 >= call.attempts
       THEN pc' = "raised" /\ UNCHANGED <<request, asks, attempt, index, tries>>
       ELSE LET said == IF response.text = <<>> THEN << <<"empty", "", 0>> >>
                        ELSE response.text
            IN /\ request' = AppendMessages(request, <<Turn("assistant", said),
                                                       Turn("user", Feedback)>>)
               /\ asks' = asks \o <<Item("message", "assistant", Str(said), <<>>),
                                    Item("message", "user", Str(Feedback), <<>>)>>
               /\ attempt' = attempt + 1
               /\ index' = 1 /\ tries' = 0
               /\ pc' = "pick"
    /\ UNCHANGED <<call, response, handed, sent, registry, answer, billed, waits>>

\* The answer matches, or there is no schema.  Several attempts are reported as one.
Accept ==
    /\ pc = "answered"
    /\ response' = IF attempt = 0 THEN response
                   ELSE [response EXCEPT !.usage = Spending.usage, !.cost = Spending.cost]
    /\ pc' = "accepted"
    /\ UNCHANGED <<call, request, index, tries, attempt, spent, handed, history>>

-----------------------------------------------------------------------------
(* The way back *)

\* Finish reasons with which an answer is never kept in the cache.
UncacheableFinish == {"refusal", "content_filter", "SAFETY", "RECITATION", "BLOCKLIST",
                      "PROHIBITED_CONTENT", "SPII", "MALFORMED_FUNCTION_CALL"}

\* Another call with the same request is answered from the cache, and costs nothing.
Recall ==
    /\ pc = "accepted"
    /\ response.finish \notin UncacheableFinish
    /\ response' = [Recalled(response) EXCEPT !.cost = 0]
    /\ pc' = "recalled"
    /\ UNCHANGED <<call, request, index, tries, attempt, spent, handed, history>>

\* The wrapper converts the response for the SDK that was called; _finalize gives the
\* response of complete() a raw object of the provider that answered.
HandBack ==
    /\ pc \in {"accepted", "recalled"}
    /\ handed' = NativeFor(IF call.via = "complete" THEN response.provider ELSE call.caller,
                           response)
    /\ pc' = "returned"
    /\ UNCHANGED <<call, request, index, tries, attempt, spent, response, history>>

Next ==
    \/ Receive \/ Block \/ Screen
    \/ SkipTarget \/ Send \/ Answer \/ Fail
    \/ Reask \/ Accept \/ Recall \/ HandBack

Spec == Init /\ [][Next]_vars

-----------------------------------------------------------------------------
(* What a provider is told by the arguments of a call: the words of the system *)
(* prompt, the turns (those of one role in a row are one), the parameters, and *)
(* the options that change the task.                                          *)

TaskOptions == {"n2", "tools", "format", "body"}

\* A text with the placeholders of entries resolved.
Resolved(text, entries) ==
    Joined([i \in DOMAIN text |->
        LET known == {r \in entries : r.entity = text[i][2] /\ r.index = text[i][3]}
        IN IF text[i][1] # "mask" \/ known = {} THEN <<text[i]>>
           ELSE (CHOOSE r \in known : TRUE).value])

Says(part, entries) ==
    LET text == Resolved(part.text, entries)
    IN IF part.kind = "text" THEN [i \in DOMAIN text |-> <<"word", text[i]>>]
       ELSE << <<part.kind, text>> >>

Uttered(content, calls, entries) ==
    Joined([i \in DOMAIN content.parts |-> Says(content.parts[i], entries)])
      \o [i \in DOMAIN calls |-> <<"call", Resolved(calls[i], entries)>>]

Reading(role, content, calls, entries) ==
    [role |-> role, says |-> Uttered(content, calls, entries)]

\* Not counted is the output of a function that is a list: the adapter of the Responses
\* API reads it as "" and sends that (openai_responses.py:45-49, 57-58), against its own
\* "kept verbatim" (line 48).
Counted(item) == IF item.kind = "function_call_output" /\ item.content.form # "str"
                 THEN Str(<<>>) ELSE item.content

ReadingOf(item, entries) == Reading(SpeakerOf(item), Counted(item), item.calls, entries)

Readings(kwargs, entries) ==
    (IF kwargs.system = None THEN <<>>
     ELSE <<Reading("system", kwargs.system, <<>>, entries)>>)
      \o [i \in DOMAIN kwargs.turns |-> ReadingOf(kwargs.turns[i], entries)]

SystemSaid(readings) ==
    Joined([i \in DOMAIN readings |-> IF readings[i].role = "system" THEN readings[i].says
                                      ELSE <<>>])

WithReading(turns, reading) ==
    IF reading.role = "system" THEN turns
    ELSE IF turns # <<>> /\ Last(turns).role = reading.role
    THEN [turns EXCEPT ![Len(turns)].says = @ \o reading.says]
    ELSE Append(turns, reading)

TurnsSaid(readings) ==
    LET turns[n \in 0 .. Len(readings)] ==
            IF n = 0 THEN <<>> ELSE WithReading(turns[n - 1], readings[n])
    IN turns[Len(readings)]

Said(kwargs, entries) ==
    [system |-> SystemSaid(Readings(kwargs, entries)),
     turns  |-> TurnsSaid(Readings(kwargs, entries)),
     limit  |-> kwargs.settings.limit,
     temp   |-> IF kwargs.settings.temp # None THEN kwargs.settings.temp ELSE kwargs.settings.body,
     stop   |-> kwargs.settings.stop,
     opts   |-> kwargs.settings.opts \intersect TaskOptions]

\* What a translation to q leaves of what was said.  The OpenAI adapter sends the first
\* four stop sequences, that of the Responses API none (openai.py:127, openai_responses.py:160),
\* which docs/how-it-works.md:71 and docs/guides/fallback.md:76 do not mention where they
\* list stop sequences as translated.  Anthropic's adapter sends no temperature (keep: but
\* for the caller's own, of complete), a limit where none is given, and a user turn first.
InTranslation(q, said, keep) ==
    CASE q = "openai" -> [said EXCEPT !.stop = SubSeq(@, 1, IF Len(@) < 4 THEN Len(@) ELSE 4)]
      [] q = "openai-responses" -> [said EXCEPT !.stop = <<>>]
      [] q = "google" -> said
      [] q = "anthropic" ->
           [said EXCEPT
              !.limit = IF @ = None THEN DefaultMaxTokens ELSE @,
              !.temp  = IF keep THEN @ ELSE None,
              !.turns = IF @ # <<>> /\ Head(@).role = "assistant"
                        THEN <<ReadingOf(Continued, {})>> \o @ ELSE @]

\* A temperature set in extra_body is lost in a translation unless Anthropic's adapter has
\* read it: portability_issue lets it pass (base.py:196-197) as "translated via params"
\* (base.py:153), but the other adapters have no such parameter.
Moved(said) ==
    IF call.caller # "anthropic" /\ call.asked.settings.temp = None
    THEN [said EXCEPT !.temp = None] ELSE said

Asked == LET asked == call.asked IN
         Said(Kwargs(asked.model, asked.system, asked.turns \o asks, asked.shape, asked.settings),
              registry)

\* Whatever target a request is sent to, in whatever form, after masking, re-asking
\* and fallbacks, it says to the model what the caller asked: the same system prompt and
\* the same turns in the same order, and the same tools, formats and number of
\* alternatives; in the form of the caller's SDK also the same limit, temperature and stop
\* sequences, and in that of another what InTranslation and Moved leave of them.  Outside
\* of it: outputs of functions that are lists (Counted).
SentSaysTheSame ==
    pc = "sent" =>
        LET first == IF call.via = "complete" THEN InTranslation(call.caller, Asked, TRUE) ELSE Asked
        IN Said(sent.kwargs, registry) =
             IF sent.to = call.caller THEN first
             ELSE InTranslation(sent.to, Moved(first), FALSE)

\* Personal data found in what the caller's messages say in one of the roles configured
\* reaches no target in one of these roles, in no form of the request (also not through
\* what Gemini's adapter re-sends verbatim), and each placeholder stands for one value and
\* each value for one placeholder through the whole request.  Nothing that the injection
\* filter blocks is sent.  Outside of it: the arguments of a function_call of the
\* Responses API have no such role and are sent as they are (openai_responses.py:48-49),
\* though docs/guides/security.md:46-49 has the arguments of tool calls masked.
MaskedFaithfully ==
    /\ \A r, s \in registry : r.entity = s.entity => (r.index = s.index <=> r.value = s.value)
    /\ pc = "sent" /\ call.pii # None =>
         PersonalData(sent.kwargs, call.pii) \intersect PersonalData(call.asked, call.pii) = {}
    /\ pc = "sent" /\ call.injection # None /\ call.injection.block =>
         \A word \in WordsIn(Covered(sent.kwargs, call.injection.roles)) :
             word[1] = "attack" => 100 * word[3] < call.injection.threshold

\* How code that calls the SDK of q reads a reply.
OutcomeOf(q, finish) ==
    CHOOSE outcome \in DOMAIN FinishesOf(q) : finish \in FinishesOf(q)[outcome]

\* The refusals that a reply built for code of q does not show: build_native of the
\* Responses adapter makes every refusal "completed" (openai_responses.py:235-243), though
\* the API has a form for it, which parse_response reads (line 23); the tables of OpenAI's
\* and Anthropic's adapters know SAFETY, and none of Gemini's other reasons (openai.py:14-27).
LosesRefusal(q, finish) ==
    \/ q = "openai-responses"
    \/ q \in {"openai", "anthropic"} /\ finish \notin {"content_filter", "refusal", "SAFETY"}

\* Code written for one SDK reads in what it is handed what the model of any other
\* provider answered, live or from the cache: its words, whether it was done, cut off or
\* refused, and the tokens all attempts took.  Some refusals it reads as done, those of
\* LosesRefusal, and no others.
ReplyReadsTheSame ==
    pc = "returned" =>
        LET built == \/ handed.q # response.provider
                     \/ response.raw = None /\ response.dump = None
            lost  == /\ built /\ answer.outcome = "refused"
                     /\ LosesRefusal(handed.q, response.finish)
        IN
        /\ call.via = "sdk" => handed.q = call.caller
        /\ TextOfParts(handed.parts) = TextOfParts(answer.parts)
        /\ OutcomeOf(handed.q, handed.finish) = IF lost THEN "done" ELSE answer.outcome
        /\ built => handed.counters.total = billed.tokens

\* The cost of a call is that of its attempts, each token once, whichever counters the
\* provider reports it with, at the price that is in force for the model that answered:
\* what the overrides of its provider, or else those of any provider, or else the table
\* say of it by the longest name.  So an override for "gpt" hides the table's "gpt-4o"
\* (pricing.py:171-181).  The cost is unknown as soon as one attempt's is.
EveryTokenPricedOnce == pc = "accepted" => response.cost = billed.cost

Readable(value) == value.form \in {"number", "units", "date"}

\* The resets the server shows in a form that can be read.
Limits(e) == {r \in e.resets : Readable(r.value)}

\* The waits an error asks for, in the order in which clients are told to look: a
\* retry-after, the rate limits of a 429 that are used up, the delay of a Google error.
Wanted(e) ==
    IF e.ms.form = "number" THEN {Total(e.ms.pieces)}
    ELSE IF Readable(e.after) THEN {Total(e.after.pieces)}
    ELSE IF StatusOf(e) = 429 /\ Limits(e) # {}
    THEN {Total(r.value.pieces) : r \in {s \in Limits(e) : s.remaining = 0}}
    ELSE IF e.delay.form \in {"number", "units"} THEN {Total(e.delay.pieces)}
    ELSE {}

\* A request is repeated no sooner than the server asked: after the retry-after, which
\* decides alone where there is one, otherwise once every rate limit shown as used up has
\* been reset, otherwise after the delay of a Google error.  It is not repeated if that is
\* more than the wait configured as the longest.
RetriedOnceReset ==
    \A w \in waits : call.retry.respect =>
        /\ \A t \in Wanted(w.error) : t <= w.wait
        /\ w.wait <= call.retry.longest \/ Wanted(w.error) = {}

\* Each layer is given a request, or a response, of the form it expects.
TypeOK ==
    /\ pc \in {"called", "screen", "pick", "sent", "retry", "answered", "accepted",
               "recalled", "returned", "raised"}
    /\ index \in DOMAIN call.targets
    /\ tries \in 0 .. call.retry.retries
    /\ attempt \in 0 .. call.attempts - 1
    /\ pc # "called" => request.origin = call.caller
    /\ pc \in {"answered", "accepted", "recalled", "returned"} =>
         response.provider = Target.provider

=============================================================================
