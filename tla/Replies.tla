------------------------------- MODULE Replies -------------------------------
(***************************************************************************)
(* What the adapters make of an SDK's reply (parse_response), and the reply *)
(* they make for a caller of their SDK out of a canonical response         *)
(* (build_native, native_for).                                             *)
(*                                                                         *)
(* A reply has parts, a finish reason, whether it calls a function, the    *)
(* model that answered and counters of tokens: prompt, completion, cached, *)
(* written to the cache, thoughts, total (None where it reports none).     *)
(* What a counter includes differs between the providers.                  *)
(***************************************************************************)
EXTENDS Messages

Reply(q, model, parts, finish, calls, counters) ==
    [q |-> q, model |-> model, parts |-> parts, finish |-> finish, calls |-> calls,
     counters |-> counters]

Counters(prompt, completion, cached, written, thoughts, total) ==
    [prompt |-> prompt, completion |-> completion, cached |-> cached,
     written |-> written, thoughts |-> thoughts, total |-> total]

ASSUME CountersAssumption ==
    None \notin [prompt : Int, completion : Int, cached : Int, written : Int, thoughts : Int,
                 total : Int]

AtLeastZero(n) == IF n < 0 THEN 0 ELSE n

\* Usage.input_tokens counts only what was not read from or written to the cache.
UsageOf(q, c) ==
    IF c = None THEN Usage(0, 0, 0, 0, FALSE)
    ELSE CASE q = "openai" ->
           Usage(AtLeastZero(c.prompt - c.cached), c.completion, c.cached, 0, TRUE)
      [] q = "openai-responses" ->
           Usage(AtLeastZero(c.prompt - c.cached - c.written), c.completion, c.cached,
                 c.written, TRUE)
      [] q = "anthropic" -> Usage(c.prompt, c.completion, c.cached, c.written, TRUE)
      [] q = "google" ->
           Usage(AtLeastZero(c.prompt - c.cached), c.completion + c.thoughts, c.cached, 0,
                 TRUE)

\* The Responses API has a status, and a reason where that is "incomplete"; here the
\* reason stands for both.
FinishOf(q, reply) ==
    IF q # "openai-responses" THEN reply.finish
    ELSE IF reply.finish = "max_output_tokens" THEN "length"
    ELSE IF reply.finish = "content_filter" THEN "content_filter"
    ELSE IF reply.calls THEN "tool_calls"
    ELSE IF reply.finish = "completed" THEN "stop"
    ELSE reply.finish

\* Text blocks only: no thoughts, no calls.
ReplyText(reply) == TextOfParts(reply.parts)

\* dumps: whether model_dump can turn the reply into JSON.
ParseResponse(q, reply, model, dumps) ==
    Response(ReplyText(reply), q, IF reply.model = None THEN model ELSE reply.model,
             UsageOf(q, reply.counters), FinishOf(q, reply), reply,
             IF dumps THEN reply ELSE None)

-----------------------------------------------------------------------------
(* build_native *)

\* _FINISH_TO_OPENAI, _FINISH_TO_ANTHROPIC, _FINISH_TO_GOOGLE.
FinishToOpenAI(finish) ==
    CASE finish \in {"length", "max_tokens", "MAX_TOKENS"}    -> "length"
      [] finish \in {"tool_calls", "tool_use"}                -> "tool_calls"
      [] finish \in {"content_filter", "refusal", "SAFETY"}   -> "content_filter"
      [] OTHER                                                -> "stop"

FinishToAnthropic(finish) ==
    CASE finish \in {"end_turn", "max_tokens", "stop_sequence", "tool_use", "pause_turn",
                     "refusal"}                -> finish
      [] finish \in {"length", "MAX_TOKENS"}   -> "max_tokens"
      [] finish = "tool_calls"                 -> "tool_use"
      [] finish \in {"content_filter", "SAFETY"} -> "refusal"
      [] OTHER                                 -> "end_turn"

\* Gemini's reasons; build_native lets any in capital letters pass.
GoogleReasons == {"STOP", "MAX_TOKENS", "SAFETY", "RECITATION", "BLOCKLIST",
                  "PROHIBITED_CONTENT", "SPII", "MALFORMED_FUNCTION_CALL"}

NotTruncated(finish) ==  \* mutant: Anthropic's name is not in the table
    IF finish \in GoogleReasons THEN finish
    ELSE IF finish = "length" THEN "MAX_TOKENS" ELSE "STOP"

FinishToGoogle(finish) ==
    CASE finish \in GoogleReasons                 -> finish
      [] finish \in {"length", "max_tokens"}      -> "MAX_TOKENS"
      [] finish \in {"content_filter", "refusal"} -> "SAFETY"
      [] OTHER                                    -> "STOP"

FinishToResponses(finish) ==
    IF finish \in {"length", "max_tokens", "MAX_TOKENS"} THEN "max_output_tokens"
    ELSE "completed"

CountersOf(q, u) ==
    LET input == u.input + u.read + u.write IN
    CASE q = "openai" ->
           Counters(input, u.output, u.read, 0, 0, input + u.output)
      [] q = "openai-responses" ->
           Counters(input, u.output, u.read, u.write, 0, input + u.output)
      [] q = "anthropic" ->
           Counters(u.input, u.output, u.read, u.write, 0, TotalTokens(u))
      [] q = "google" ->
           Counters(u.input + u.read, u.output, u.read, 0, 0, TotalTokens(u))

BuildNative(q, response) ==
    Reply(q, response.model, <<Part("text", response.text)>>,
          CASE q = "openai"           -> FinishToOpenAI(response.finish)
            [] q = "openai-responses" -> FinishToResponses(response.finish)
            [] q = "anthropic"        -> FinishToAnthropic(response.finish)
            [] q = "google"           -> FinishToGoogle(response.finish),
          FALSE, CountersOf(q, response.usage))

\* native_for: the SDK's own object where there is one.
NativeFor(q, response) ==
    IF response.provider = q /\ response.raw # None THEN response.raw
    ELSE IF response.provider = q /\ response.dump # None THEN response.dump
    ELSE BuildNative(q, response)

=============================================================================
