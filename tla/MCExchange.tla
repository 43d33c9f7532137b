------------------------------ MODULE MCExchange ------------------------------
(* Instances of Exchange for TLC: calls of every SDK and of complete(), in four *)
(* groups that each vary one side of the exchange.                              *)
EXTENDS Exchange

W(n) == <<"say", "", n>>
Email(n) == <<"pii", "email", n>>
Digits(n) == <<"pii", "digits", n>>
Attack(name, weight) == <<"attack", name, weight>>

SDKs == {"openai", "openai-responses", "anthropic", "google"}

Model == [q \in SDKs |-> CASE q = "openai"           -> <<"gpt", "4o">>
                           [] q = "openai-responses" -> <<"gpt", "5">>
                           [] q = "anthropic"        -> <<"claude">>
                           [] q = "google"           -> <<"gemini", "flash", "lite">>]

At(q, model) == [provider |-> q, model |-> model]

\* The caller's provider, the others, and another model of the caller's.
Chain(q) == <<At(q, Model[q])>> \o
            SelectSeq(<<At("anthropic", Model["anthropic"]), At("google", Model["google"]),
                        At("openai", Model["openai"]),
                        At("openai-responses", Model["openai-responses"])>>,
                      LAMBDA t : t.provider # q)
            \o <<At(q, Append(Model[q], "mini"))>>

\* The table knows an old price of gpt-4o-mini, which is overridden, and one of a dated
\* version of gpt-4o.  The override for "gemini" hides the table's longer names.
MCPriceTable == [
    openai    |-> (<<"gpt", "4o">> :> Price(5, 20, 2, None)) @@
                  (<<"gpt", "4o", "mini">> :> Price(2, 8, 2, None)) @@
                  (<<"gpt", "4o", "dated">> :> Price(6, 24, 3, None)) @@
                  (<<"gpt", "5">> :> Price(7, 30, 1, 9)),
    anthropic |-> (<<"claude">> :> Price(4, 16, 1, 5)),
    google    |-> (<<"gemini", "flash">> :> Price(3, 9, 1, None)) @@
                  (<<"gemini", "flash", "lite">> :> Price(2, 6, None, None))]
MCOverrides == ("openai" :> (<<"gpt", "4o", "mini">> :> Price(1, 4, 1, None))) @@
               ("*" :> ((<<"llama">> :> Price(1, 1, None, None)) @@
                        (<<"gemini">> :> Price(3, 10, None, None))))

-----------------------------------------------------------------------------
(* Conversations, in the form of each SDK. *)

Says1(role, text) == [role |-> role, parts |-> <<Part("text", text)>>, calls |-> <<>>]

\* form: whether a text is given as a string or as a list of parts.
Native(q, system, turns, form) ==
    LET Content(parts) == IF form = "str" /\ q # "google" /\ Len(parts) = 1
                             /\ parts[1].kind = "text" THEN Str(parts[1].text) ELSE Parts(parts)
        item(t) == Item(IF q = "google" THEN "content" ELSE "message",
                        IF q = "google" /\ t.role = "assistant" THEN "model" ELSE t.role,
                        Content(t.parts), t.calls)
        items == [i \in DOMAIN turns |-> item(turns[i])]
        prompt == Item("message", IF form = "str" THEN "system" ELSE "developer",
                       Str(system), <<>>)
    IN [system |-> IF system = <<>> \/ q = "openai" THEN None
                   ELSE IF form = "str" \/ q = "openai-responses" THEN Str(system)
                   ELSE Parts(<<Part("text", system)>>),
        turns  |-> IF q = "openai" /\ system # <<>> THEN <<prompt>> \o items ELSE items,
        shape  |-> "list"]

OneString(q, system, text) ==
    [system |-> IF system = <<>> THEN None ELSE Str(system), shape |-> "str",
     turns |-> <<Item(IF q = "google" THEN "bare" ELSE "message", "user", Str(text), <<>>)>>]

Bare(part) == Item("bare", "user", Parts(<<part>>), <<>>)

Calling == [role |-> "assistant", parts |-> <<>>, calls |-> <<<<W(6), Email(1)>>>>]
Result  == [role |-> "tool", parts |-> <<Part("tool", <<Email(1), W(7)>>)>>, calls |-> <<>>]
Picture == [role |-> "user", parts |-> <<Part("text", <<W(2)>>), Part("media", <<>>)>>,
            calls |-> <<>>]

Talks == {<<Says1("user", <<W(1)>>)>>,
          <<Says1("user", <<W(1)>>), Says1("assistant", <<W(2)>>), Says1("user", <<W(3), W(4)>>)>>,
          <<Says1("assistant", <<W(1)>>), Says1("user", <<W(2)>>), Says1("user", <<W(3)>>)>>,
          <<Picture>>}

Inputs(q) ==
    {Native(q, system, talk, form) : system \in {<<>>, <<W(9)>>}, talk \in Talks,
                                     form \in {"str", "parts"}}
    \union (IF q \in {"google", "openai-responses"}
            THEN {OneString(q, <<W(9)>>, <<W(1)>>)} ELSE {})
    \union (IF q = "google"
            THEN {[system |-> None, shape |-> "list",
                   turns |-> <<Bare(Part("text", <<W(1)>>)), Bare(Part("text", <<W(2)>>)),
                               Item("content", "model", Parts(<<Part("text", <<W(3)>>)>>), <<>>),
                               Bare(Part("text", <<W(4)>>))>>]} ELSE {})
    \union (IF q = "openai"
            THEN {[system |-> None, shape |-> "list",
                   turns |-> <<Item("message", "user", Str(<<W(1)>>), <<>>),
                               Item("message", "system", Str(<<W(8)>>), <<>>),
                               Item("message", "user", Str(<<W(2)>>), <<>>)>>],
                  [system |-> None, shape |-> "list",
                   turns |-> <<Item("message", "user", Str(<<W(1)>>), <<>>),
                               Item("message", "assistant", [form |-> "null", parts |-> <<>>],
                                    <<<<W(2)>>>>),
                               Item("message", "tool", Str(<<W(3)>>), <<>>)>>]} ELSE {})

AllSettings == {Settings({}, 50, None, <<>>, None),
                Settings({"user", "n1"}, 50, 7, <<1, 2, 3, 4, 5>>, None),
                Settings({"user"}, 50, None, <<1>>, 3),
                Settings({"tools"}, 50, 7, <<>>, None), Settings({"format"}, 50, None, <<>>, None),
                Settings({"n2"}, 50, None, <<>>, None), Settings({"body"}, 50, None, <<>>, None)}
               \union {Settings({}, None, 7, <<>>, None)}

\* What each SDK accepts.
Accepted(q, settings) ==
    /\ q = "anthropic" => settings.limit # None /\ (settings.body # None => settings.temp = None)
    /\ q = "openai-responses" => settings.stop = <<>>
    /\ q = "google" => settings.body = None /\ "body" \notin settings.opts

Args(q, input, settings) == Kwargs(Model[q], input.system, input.turns, input.shape, settings)

-----------------------------------------------------------------------------
(* Answers, errors, configurations. *)

Bill(input, output, read, write) == Usage(input, output, read, write, TRUE)
Ans(parts, outcome, bill, dated, dumps) ==
    [parts |-> parts, outcome |-> outcome, bill |-> bill, dated |-> dated, dumps |-> dumps]

Fine == Ans(<<Part("text", <<W(20)>>)>>, "done", Bill(4, 2, 0, 0), TRUE, TRUE)
Answers == {Fine,
            Ans(<<Part("thought", <<W(30)>>), Part("text", <<W(21)>>), Part("text", <<W(22)>>)>>,
                "truncated", Bill(4, 3, 2, 1), FALSE, FALSE),
            Ans(<<>>, "refused", Bill(3, 1, 0, 0), TRUE, FALSE),
            Ans(<<Part("text", <<W(23)>>)>>, "done", Usage(0, 0, 0, 0, FALSE), FALSE, TRUE)}

Plainly(status) == Error(FALSE, <<status>>, FALSE, FALSE, NoValue, NoValue, {}, NoValue)
Overloaded == Plainly(503)

Seconds(n) == Value("units", << <<n, "s">> >>)
Limit(header, value, remaining) == [header |-> header, value |-> value, remaining |-> remaining]

Limited(ms, after, resets, delay) ==
    Error(FALSE, <<None, 429>>, FALSE, FALSE, ms, after, resets, delay)

Errors == {
    Plainly(400), Overloaded, Plainly(42),
    Error(FALSE, <<>>, TRUE, FALSE, NoValue, NoValue, {}, NoValue),
    Error(FALSE, <<404>>, FALSE, TRUE, NoValue, NoValue, {}, NoValue),
    Error(FALSE, <<>>, FALSE, TRUE, NoValue, NoValue, {}, NoValue),
    Error(TRUE, <<>>, FALSE, FALSE, NoValue, NoValue, {}, NoValue),
    Limited(Value("number", << <<1500, "ms">> >>), Seconds(1), {}, NoValue),
    Limited(Value("bad", <<>>), Value("number", << <<2, "s">> >>), {}, NoValue),
    Limited(NoValue, Value("date", << <<3, "s">> >>), {}, NoValue),
    Limited(NoValue, Value("date", << <<-3, "s">> >>), {}, NoValue),
    Limited(NoValue, Seconds(120), {}, NoValue),
    Limited(NoValue, NoValue,
            {Limit("x-ratelimit", Value("units", << <<1, "m">>, <<5, "s">> >>), 0),
             Limit("x-ratelimit", Value("units", << <<20, "ms">> >>), 7)}, NoValue),
    Limited(NoValue, NoValue,
            {Limit("x-ratelimit", Seconds(6), 0), Limit("x-ratelimit", Seconds(2), 0),
             Limit("x-ratelimit", Seconds(1), 3)}, NoValue),
    Limited(NoValue, NoValue,
            {Limit("anthropic", Value("date", << <<4, "s">> >>), 0),
             Limit("anthropic", Value("date", << <<9, "s">> >>), 1)}, NoValue),
    Limited(NoValue, NoValue, {Limit("x-ratelimit", Seconds(8), 2),
                               Limit("x-ratelimit", Seconds(5), 2)}, NoValue),
    Limited(NoValue, NoValue, {}, Seconds(7)),
    Error(FALSE, <<503>>, FALSE, FALSE, NoValue, NoValue,
          {Limit("x-ratelimit", Seconds(6), 0)}, NoValue)}

Retry(retries, respect, jitter) ==
    [retries |-> retries, respect |-> respect, jitter |-> jitter, longest |-> 60000,
     base |-> 500, max |-> 800, statuses |-> {429, 503}, timeouts |-> TRUE,
     connections |-> TRUE]

Call(via, q, asked, targets, pii, injection, retry, attempts, answers, errors) ==
    [via |-> via, caller |-> q, asked |-> asked, targets |-> targets, pii |-> pii,
     injection |-> injection, retry |-> retry, attempts |-> attempts, answers |-> answers,
     errors |-> errors]

\* Every form of request, sent along the whole chain, with one re-ask.
Requests ==
    {Call("sdk", q, Args(q, input, settings), Chain(q), None, None, Retry(0, TRUE, TRUE), 2,
          {Fine}, {Overloaded}) :
        q \in SDKs, input \in UNION {Inputs(p) : p \in SDKs}, settings \in AllSettings}
RequestCalls == {c \in Requests :
    /\ [system |-> c.asked.system, turns |-> c.asked.turns, shape |-> c.asked.shape]
         \in Inputs(c.caller)
    /\ Accepted(c.caller, c.asked.settings)}

\* complete(): the canonical arguments, with strings as contents.
CompleteCalls ==
    {Call("complete", q, Args(q, Native("openai", system, talk, "str"), settings), Chain(q), None,
          None, Retry(0, TRUE, TRUE), 2, {Fine}, {Overloaded}) :
        q \in SDKs, system \in {<<>>, <<W(9)>>}, talk \in {t \in Talks : Picture \notin ToSet(t)},
        settings \in {s \in AllSettings : s.body = None /\ s.opts \subseteq {"user", "n1"}}}

\* Personal data and attacks in every place a request has for text.
AllRoles == {"system", "user", "assistant", "tool"}
Pii(entities, roles, block) == [entities |-> entities, roles |-> roles, block |-> block]
PiiConfigs == {None, Pii({"email", "credit_card", "phone"}, AllRoles, FALSE),
               Pii({"email", "credit_card", "phone"}, AllRoles, TRUE),
               Pii({"email", "phone"}, {"user"}, FALSE)}
InjectionConfigs == {None, [roles |-> {"user", "tool"}, threshold |-> 5000, block |-> FALSE],
                     [roles |-> {"user", "tool"}, threshold |-> 5000, block |-> TRUE]}

Private == {
    <<Says1("user", <<Email(1), W(1), Email(2), Digits(1), Digits(2)>>),
      Says1("assistant", <<Email(2), Digits(1)>>), Says1("user", <<Email(1), Digits(2)>>)>>,
    <<Says1("user", <<W(1)>>), Calling, Result>>,
    <<Says1("user", <<Attack("fake_role_header", 35), Email(3), Attack("system_tag", 30)>>)>>,
    <<Says1("assistant", <<Attack("new_instructions", 60)>>),
      Says1("user", <<Attack("fake_role_header", 35)>>)>>,
    <<Says1("user", <<Attack("new_instructions", 60)>>)>>}
Invents == Ans(<<Part("text", <<W(20), Digits(5)>>)>>, "done", Bill(4, 2, 0, 0), TRUE, TRUE)

\* A conversation with a function in the form of the Responses API: its call, and its
\* output, one string or a list of parts.
Functions ==
    {[system |-> None, shape |-> "list",
      turns  |-> <<Item("message", "user", Str(<<W(1)>>), <<>>),
                   Item("function_call", "assistant", Parts(<<>>), <<<<W(6), Email(1)>>>>),
                   Item("function_call_output", "tool", output, <<>>),
                   Item("message", "user", Str(<<Email(1), W(2)>>), <<>>)>>] :
        output \in {Str(<<Email(1), W(7)>>), Parts(<<Part("text", <<Email(2), W(7)>>)>>),
                    Str(<<Attack("new_instructions", 60)>>)}}

PrivateCalls ==
    {Call("sdk", q, Args(q, input, Settings({}, 50, None, <<>>, None)), Chain(q), pii, injection,
          Retry(0, TRUE, TRUE), 2, {Invents}, {Overloaded}) :
        q \in SDKs, pii \in PiiConfigs, injection \in InjectionConfigs,
        input \in UNION {{Native(p, system, talk, form) : system \in {<<>>, <<W(9), Email(4)>>},
                          talk \in Private, form \in {"str", "parts"}} : p \in SDKs}
                  \union {OneString("google", <<Email(4)>>, <<Email(1), W(1)>>),
                          OneString("openai-responses", <<Email(4)>>, <<Email(1), W(1)>>)}
                  \union Functions}

\* The input is in the form of the SDK called.
WellFormed(c) ==
    /\ c.caller = "openai" => c.asked.system = None
    /\ \A i \in DOMAIN c.asked.turns :
          LET item == c.asked.turns[i] IN
          /\ c.caller = "google" <=> item.kind \in {"content", "bare"}
          /\ c.caller # "openai" => item.role \notin {"system", "developer"}
          /\ item.kind \in {"function_call", "function_call_output"} =>
               c.caller = "openai-responses"
          /\ item.calls # <<>> /\ item.kind # "function_call" => c.caller = "openai"

\* Answers of every kind to callers of every SDK.
AnswerCalls ==
    {Call("sdk", q, Args(q, Native(q, <<>>, <<Says1("user", <<W(1)>>)>>, "str"),
                         Settings({}, 50, None, <<>>, None)),
          Chain(q), None, None, Retry(0, TRUE, TRUE), 2, Answers, {Overloaded}) : q \in SDKs}
    \union {Call("sdk", "openai", [Args("openai", Native("openai", <<>>, <<Says1("user", <<W(1)>>)>>,
                                                         "str"), Settings({}, 50, None, <<>>, None))
                                     EXCEPT !.model = model],
                 <<At("openai", model), At("anthropic", <<"claude">>)>>, None, None,
                 Retry(0, TRUE, TRUE), 2, Answers, {Overloaded}) :
               model \in {<<"llama">>, <<"other">>, <<"gpt", "4o", "mini">>}}

\* Errors of every kind.
ErrorCalls ==
    {Call("sdk", "openai", Args("openai", Native("openai", <<>>, <<Says1("user", <<W(1)>>)>>, "str"),
                                Settings({}, 50, None, <<>>, None)),
          <<At("openai", <<"gpt", "4o">>), At("anthropic", <<"claude">>)>>, None, None,
          Retry(2, respect, jitter), 1, {Fine}, {e}) :
        e \in Errors, respect \in BOOLEAN, jitter \in BOOLEAN}

MCCalls == RequestCalls \union CompleteCalls \union {c \in PrivateCalls : WellFormed(c)}
             \union AnswerCalls \union ErrorCalls

=============================================================================
