------------------------------ MODULE Messages ------------------------------
(***************************************************************************)
(* The provider-neutral request and response (types.py): what the layers   *)
(* of the pipeline pass to each other and the adapters translate.          *)
(*                                                                         *)
(* A text is a sequence of words, a word a tuple <<kind, name, n>>; joining *)
(* texts with a separator is concatenation.  A content part has a kind:    *)
(* "text", "tool" (tool calls and results, text documents: structures with *)
(* text inside), "thought" and "media".                                    *)
(***************************************************************************)
EXTENDS Integers, FiniteSets, SequencesExt

CONSTANTS
    None,
    Patterns   \* the names of the patterns of prompt injection

ASSUME NoneAssumption == None \notin Int

Part(kind, text) == [kind |-> kind, text |-> text]

\* The two forms of a content: a string (its paragraphs), or a list of parts.
Str(text) == [form |-> "str", parts |-> <<Part("text", text)>>]
Parts(parts) == [form |-> "parts", parts |-> parts]

\* A word has a kind, a name and a number; that of an attack is its weight.
Words ==
    LET kinds == {"say", "pii", "attack", "mask", "feedback", "empty", "continued"}
        names == {"", "email", "digits", "credit_card", "phone"} \union Patterns
    IN {w \in kinds \X names \X Int : w[1] = "attack" => w[3] \in 0 .. 100}

Text == Seq(Words)

ContentParts == [kind : {"text", "tool", "thought", "media"}, text : Text]

Contents == [form : {"str", "parts", "null"}, parts : Seq(ContentParts)]

ASSUME ContentsAssumption == None \notin Contents

Joined(texts) ==
    LET joined[n \in 0 .. Len(texts)] == IF n = 0 THEN <<>> ELSE joined[n - 1] \o texts[n]
    IN joined[Len(texts)]

\* The elements of s that are in S.
Only(s, S) ==
    LET only[n \in 0 .. Len(s)] ==
            IF n = 0 THEN <<>> ELSE IF s[n] \in S THEN Append(only[n - 1], s[n]) ELSE only[n - 1]
    IN only[Len(s)]

TextsOf(parts) == [i \in DOMAIN parts |-> parts[i].text]

-----------------------------------------------------------------------------
(* Message *)

\* mark says where a message comes from: an item of the caller's list ("item"),
\* a system prompt outside of that list ("system", "instructions"), an input that
\* was one string ("string"), or callm itself ("none", where native is None).
Message(role, content, mark, item) ==
    [role |-> role, content |-> content, mark |-> mark, item |-> item]

\* An item of a native list of messages.  calls are the arguments of the tool
\* calls it carries beside its content.
Item(kind, role, content, calls) ==
    [kind |-> kind, role |-> role, content |-> content, calls |-> calls]

ItemKinds == {"none", "message", "content", "bare", "function_call", "function_call_output",
              "other"}

Roles == {"system", "developer", "user", "assistant", "model", "tool", "function"}

Items == [kind : ItemKinds, role : Roles, content : Contents, calls : Seq(Text)]

NoItem == Item("none", "user", Str(<<>>), <<>>)

Turn(role, text) == Message(role, Str(text), "none", NoItem)

PortableRoles == {"system", "user", "assistant"}

IsTextPart(part) == part.kind = "text"

TextOfParts(parts) ==
    Joined([i \in DOMAIN parts |-> IF IsTextPart(parts[i]) THEN parts[i].text ELSE <<>>])

\* Message.text
TextOf(message) == TextOfParts(message.content.parts)

\* One string, the texts of the messages joined by blank lines.
Paragraphs(messages) ==
    [form |-> "str", parts |-> [i \in DOMAIN messages |-> Part("text", TextOf(messages[i]))]]

\* Message.is_text_only
IsTextOnly(message) == \A i \in DOMAIN message.content.parts :
                           IsTextPart(message.content.parts[i])

\* _map_part: text parts, and the strings inside structured parts.
IsVisible(part) == part.kind \in {"text", "tool"}

\* Message.iter_texts
IterTexts(message) ==
    LET parts == message.content.parts
    IN TextsOf(Only(parts, {p \in ToSet(parts) : IsVisible(p)})) \o message.item.calls

-----------------------------------------------------------------------------
(* LLMRequest *)

\* extra is native_extra: the caller's other arguments, None when there are none to
\* re-use.  pristine is what snapshot() remembers.
Request(provider, model, messages, params, extra, origin) ==
    [provider |-> provider, model |-> model, messages |-> messages, params |-> params,
     extra |-> extra, origin |-> origin, pristine |-> messages]

NeverChanged(request) == TRUE  \* mutant

MessagesUnchanged(request) == request.messages = request.pristine

\* LLMRequest.retarget
Retarget(request, target) ==
    [request EXCEPT !.provider = target.provider,
                    !.model    = target.model,
                    !.extra    = IF target.provider = request.origin THEN @ ELSE None]

\* LLMRequest.append
AppendMessages(request, messages) == [request EXCEPT !.messages = @ \o messages]

-----------------------------------------------------------------------------
(* Usage and LLMResponse *)

Usage(input, output, read, write, reported) ==
    [input |-> input, output |-> output, read |-> read, write |-> write,
     reported |-> reported]

TotalTokens(usage) == usage.input + usage.output + usage.read + usage.write

\* _Spend.add of the validator: the usage of two attempts.
PlusUsage(u, v) == Usage(u.input + v.input, u.output + v.output, u.read + v.read,
                         u.write + v.write, u.reported /\ v.reported)

\* raw is the SDK's object, dump its native_dump.
Response(text, provider, model, usage, finish, native, dump) ==
    [text |-> text, provider |-> provider, model |-> model, usage |-> usage,
     finish |-> finish, cost |-> None, raw |-> native, dump |-> dump]

\* What from_dict makes of to_dict's dictionary: no raw object, usage as if it had
\* been reported.
Recalled(response) == [response EXCEPT !.raw = None, !.usage.reported = TRUE]

=============================================================================
