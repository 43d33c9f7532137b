------------------------------ MODULE Adapters ------------------------------
(***************************************************************************)
(* The provider adapters (providers/*.py): the arguments of a call of an   *)
(* SDK to the canonical request and back, and the SDK's reply to the       *)
(* canonical response and back.                                            *)
(*                                                                         *)
(* The SDKs' calls have one form here.  Arguments: the system prompt kept  *)
(* outside of the list of messages (Anthropic system, Gemini               *)
(* system_instruction, Responses instructions), the list of items or, where *)
(* shape is "str", the one string given instead, and the settings.  Replies: *)
(* parts of content, a finish reason and counters of tokens.  A provider   *)
(* registered as OpenAI-compatible (Ollama) is the "openai" adapter.       *)
(***************************************************************************)
EXTENDS Messages

CONSTANT DefaultMaxTokens   \* DEFAULT_MAX_TOKENS of the Anthropic adapter

\* opts are the remaining arguments: "n1" and "n2" (alternatives asked for), "tools",
\* "format", "body" (extra_body, keys other than sampling), "user" for one that does
\* not change the task.  body is a temperature set in extra_body.
Settings(opts, limit, temp, stop, body) ==
    [opts |-> opts, limit |-> limit, temp |-> temp, stop |-> stop, body |-> body]

Kwargs(model, system, turns, shape, settings) ==
    [model |-> model, system |-> system, turns |-> turns, shape |-> shape,
     settings |-> settings]

\* native_extra: the settings, and the input as the caller gave it where the adapter
\* keeps that (Gemini's __contents__, the Responses API's __string_input__).
Extra(kwargs) ==
    [settings |-> kwargs.settings, turns |-> kwargs.turns, shape |-> kwargs.shape,
     system |-> kwargs.system]

-----------------------------------------------------------------------------
(* parse_native_request *)

Canonical(role) == IF role = "developer" THEN "system"
                   ELSE IF role = "model" THEN "assistant" ELSE role

ContentOf(item) == IF item.content.form = "null" THEN Str(<<>>) ELSE item.content

OfItem(item) == Message(Canonical(item.role), ContentOf(item), "item", item)

\* _item_to_message of the Responses adapter.  Of the outputs of functions it reads the
\* strings only.
OfInputItem(item) ==
    CASE item.kind = "message" -> OfItem(item)
      [] item.kind = "function_call_output" /\ item.content.form = "str" ->
           Message("tool", item.content, "item", item)
      [] OTHER -> Message(item.kind, Str(<<>>), "item", item)

SystemMessages(system, mark) ==
    IF system = None THEN <<>> ELSE <<Message("system", system, mark, NoItem)>>

\* Consecutive bare parts and strings of Gemini's contents form one user turn.
Grouped(items) ==
    LET bare(item) == Message("user", Parts(item.content.parts), "item",
                              Item("content", "user", Parts(<<>>), <<>>))
        add(done, item) ==
            IF item.kind # "bare"
            THEN [open |-> FALSE, messages |-> Append(done.messages, OfItem(item))]
            ELSE IF ~done.open
            THEN [open |-> TRUE, messages |-> Append(done.messages, bare(item))]
            ELSE [done EXCEPT !.messages[Len(done.messages)].content.parts =
                      @ \o item.content.parts]
    IN FoldLeft(add, [open |-> FALSE, messages |-> <<>>], items).messages

ParamsOf(q, settings) ==
    [limit |-> settings.limit,
     temp  |-> IF q = "anthropic" /\ settings.temp = None THEN settings.body
               ELSE settings.temp,
     stop  |-> IF q = "openai-responses" THEN <<>> ELSE settings.stop]

MessagesOf(q, kwargs) ==
    CASE q = "openai"    -> [i \in DOMAIN kwargs.turns |-> OfItem(kwargs.turns[i])]
      [] q = "anthropic" -> SystemMessages(kwargs.system, "system")
                              \o [i \in DOMAIN kwargs.turns |-> OfItem(kwargs.turns[i])]
      [] q = "google"    -> SystemMessages(kwargs.system, "system") \o Grouped(kwargs.turns)
      [] q = "openai-responses" ->
           SystemMessages(kwargs.system, "instructions") \o
             IF kwargs.shape = "str"
             THEN <<Message("user", kwargs.turns[1].content, "string", NoItem)>>
             ELSE [i \in DOMAIN kwargs.turns |-> OfInputItem(kwargs.turns[i])]

ParseNativeRequest(q, kwargs) ==
    Request(q, kwargs.model, MessagesOf(q, kwargs), ParamsOf(q, kwargs.settings),
            Extra(kwargs), q)

\* What an SDK accepts, as far as the adapters rely on it: a system prompt is text, and
\* among the messages of Chat Completions; one string is one item, the user's; the
\* items of Gemini have no system role, its bare parts and strings are the user's; a
\* function_call of the Responses API has its arguments where other items have their tool
\* calls, a function_call_output has an output and no calls.
IsArgs(q, kwargs) ==
    /\ kwargs.system \in Contents \union {None}
    /\ q = "openai" => kwargs.system = None
    /\ kwargs.system # None =>
         \A i \in DOMAIN kwargs.system.parts : IsTextPart(kwargs.system.parts[i])
    /\ kwargs.turns \in Seq(Items)
    /\ q = "openai-responses" /\ kwargs.shape = "str" =>
         /\ Len(kwargs.turns) = 1
         /\ LET item == kwargs.turns[1] IN
            item.kind = "message" /\ item.role = "user" /\ item.calls = <<>>
    /\ \A i \in DOMAIN kwargs.turns :
          LET item == kwargs.turns[i] IN
          /\ item.content.form = "null" \/ item.kind \in {"function_call", "other"} =>
               item.content.parts = <<>>
          /\ item.kind = "function_call_output" => item.calls = <<>> /\ item.content.form # "null"
          /\ CASE q = "google" -> /\ item.kind \in {"message", "content", "bare"}
                                  /\ Canonical(item.role) # "system"
                                  /\ item.kind = "bare" => item.role = "user" /\ item.calls = <<>>
               [] q = "openai-responses" -> item.kind \in {"message", "function_call",
                                                           "function_call_output", "other"}
               [] OTHER -> item.kind = "message"

-----------------------------------------------------------------------------
(* to_kwargs, to the provider the request came from: native arguments are kept. *)

\* _serialize and _message_to_item, and the same steps in the other two adapters.  Calls
\* of functions and other items keep everything, the output of a function becomes the
\* message's content, whatever it was.  A null content is null again, or empty.
Restored(message) ==
    LET item == message.item IN
    CASE message.mark # "item" -> Item("message", message.role, message.content, <<>>)
      [] item.content.form = "null" /\ message.content = Str(<<>>) -> item
      [] item.kind \in {"function_call", "other"} -> item
      [] OTHER -> [item EXCEPT !.content = message.content]

RestoredAll(messages) == [i \in DOMAIN messages |-> Restored(messages[i])]

IsSystem(message) ==
    message.mark = "system" \/ (message.mark = "none" /\ message.role = "system")

\* The system prompt that was given apart from the list, as it was if it is still the
\* only one.
SystemOf(messages) ==
    CASE messages = <<>> -> None
      [] Len(messages) = 1 /\ messages[1].mark = "system" -> messages[1].content
      [] OTHER -> Paragraphs(messages)

ToAnthropicNative(request) ==
    LET system == {m \in ToSet(request.messages) : IsSystem(m)}
        body   == ToSet(request.messages) \ system
    IN Kwargs(request.model, SystemOf(Only(request.messages, system)),
              RestoredAll(Only(request.messages, body)), "list", request.extra.settings)

\* Gemini's roles; parts replace the content, whatever its form.
ToContent(message) ==
    Item("content", CASE message.role = "assistant" -> "model"
                      [] message.role \in {"user", "system"} -> "user"
                      [] OTHER -> message.role,
         Parts(message.content.parts), message.item.calls)

\* The config keeps its system_instruction unless the system messages have changed.
ToGoogleNative(request) ==
    LET marked(ms)  == {m \in ToSet(ms) : m.mark = "system"}
        system      == Only(request.messages, marked(request.messages))
        body        == Only(request.messages, ToSet(request.messages) \ ToSet(system))
        extra       == request.extra
    IN IF MessagesUnchanged(request)
       THEN Kwargs(request.model, extra.system, extra.turns, extra.shape, extra.settings)
       ELSE Kwargs(request.model,
                   IF system = Only(request.pristine, marked(request.pristine)) THEN extra.system
                   ELSE IF system = <<>> THEN None ELSE Paragraphs(system),
                   [i \in DOMAIN body |-> ToContent(body[i])], "list", extra.settings)

\* The input is one string again if it still is one message with one.
ToResponsesNative(request) ==
    LET ms      == request.messages
        leading == ms # <<>> /\ Head(ms).mark = "instructions"
        rest    == IF leading THEN Tail(ms) ELSE ms
        asStr   == /\ request.extra.shape = "str"
                   /\ Len(rest) = 1
                   /\ rest[1].role = "user"
                   /\ rest[1].content.form = "str"
    IN Kwargs(request.model, IF leading THEN Str(TextOf(Head(ms))) ELSE None,
              RestoredAll(rest), IF asStr THEN "str" ELSE "list", request.extra.settings)

ToKwargsNative(q, request) ==
    CASE q = "openai" -> Kwargs(request.model, None, RestoredAll(request.messages), "list",
                                request.extra.settings)
      [] q = "anthropic"        -> ToAnthropicNative(request)
      [] q = "google"           -> ToGoogleNative(request)
      [] q = "openai-responses" -> ToResponsesNative(request)

-----------------------------------------------------------------------------
(* to_kwargs, to another provider: translated from the canonical form. *)

Spoken(message) == IF message.role \in PortableRoles THEN message.role ELSE "user"

Translated(message) == Item("message", Spoken(message), Str(TextOf(message)), <<>>)

TranslatedAll(messages) == [i \in DOMAIN messages |-> Translated(messages[i])]

NotSystem(messages) == Only(messages, {m \in ToSet(messages) : m.role # "system"})

\* The words of every system message, None without any.
SystemText(messages) ==
    LET system == Only(messages, {m \in ToSet(messages) : m.role = "system" /\ TextOf(m) # <<>>})
    IN IF system = <<>> THEN None ELSE Paragraphs(system)

\* Turns of one role that follow each other become one: the two APIs want the roles
\* to alternate.  other is the provider's name of the assistant.
Merged(messages, other) ==
    LET role(m) == IF m.role = "assistant" THEN other ELSE "user"
        form    == IF other = "model" THEN "parts" ELSE "str"
        said(m) == Part("text", TextOf(m))
        add(turns, m) ==
            IF turns # <<>> /\ Last(turns).role = role(m)
            THEN [turns EXCEPT ![Len(turns)].content.parts = Append(@, said(m))]
            ELSE Append(turns, Item("message", role(m),
                                    [form |-> form, parts |-> <<said(m)>>], <<>>))
    IN FoldLeft(add, <<>>, NotSystem(messages))

\* "(continued conversation)": the Messages API requires a user turn first.
Continued == Item("message", "user", Str(<< <<"continued", "", 0>> >>), <<>>)

ToAnthropic(request) ==
    LET body == Merged(request.messages, "assistant") IN
    Kwargs(request.model, SystemText(request.messages),
           IF body # <<>> /\ Head(body).role = "assistant" THEN <<Continued>> \o body
           ELSE body,
           "list",
           Settings({}, IF request.params.limit = None THEN DefaultMaxTokens
                        ELSE request.params.limit, None, request.params.stop, None))

ToKwargsTranslated(q, request) ==
    LET params == request.params
        settings(stop) == Settings({}, params.limit, params.temp, stop, None)
        system == SystemText(request.messages)
    IN CASE q = "openai" ->
              Kwargs(request.model, None, TranslatedAll(request.messages), "list",
                     settings(SubSeq(params.stop, 1, IF Len(params.stop) < 4
                                                     THEN Len(params.stop) ELSE 4)))
         [] q = "openai-responses" ->
              Kwargs(request.model, system,
                     TranslatedAll(NotSystem(request.messages)), "list",
                     settings(<<>>))
         [] q = "anthropic" -> ToAnthropic(request)
         [] q = "google" ->
              Kwargs(request.model, system, Merged(request.messages, "model"), "list",
                     settings(params.stop))

ToKwargs(q, request) ==
    IF request.origin = q THEN ToKwargsNative(q, request)
    ELSE ToKwargsTranslated(q, request)

-----------------------------------------------------------------------------
(* Whether a request can move to another provider. *)

PortableOpts == {"user", "n1"}

PortableButForm(request) ==  \* mutant: response formats are forgotten
    /\ \A i \in DOMAIN request.messages :
          LET m == request.messages[i] IN
          m.role \in PortableRoles /\ IsTextOnly(m) /\ m.item.calls = <<>>
    /\ request.extra.settings.opts \subseteq PortableOpts \union {"format"}

\* portability_issue returns None.
Portable(request) ==
    /\ \A i \in DOMAIN request.messages :
          LET m == request.messages[i] IN
          m.role \in PortableRoles /\ IsTextOnly(m) /\ m.item.calls = <<>>
    /\ request.extra.settings.opts \subseteq PortableOpts

=============================================================================
