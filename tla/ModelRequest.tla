------------------------------ MODULE ModelRequest ------------------------------
(***************************************************************************)
(* How the three provider adapters put a transcript on the wire            *)
(* (encode_messages and encode_content of provider.rs, encode_input of     *)
(* responses.rs, encode_messages and encode_parts of anthropic.rs).        *)
(*                                                                         *)
(* A message is [role, parts, calls]: the kinds of its content parts and   *)
(* how many tool calls it makes.  A body is a sequence of turns            *)
(* [role, blocks]; a block says which part of which message it carries and *)
(* in what form.                                                           *)
(***************************************************************************)
EXTENDS Naturals, Sequences, SequencesExt

Kinds == {"text", "image", "audio", "transcribed", "video", "document", "extracted"}
ChatMessage ==
    [role : {"system", "user", "assistant", "tool"}, parts : Seq(Kinds), calls : Nat]
\* What the constructors of a message make: the system and a tool say text, and only
\* the assistant calls.
Sayable(message) ==
    /\ message.role # "assistant" => message.calls = 0
    /\ message.role \in {"system", "tool"} =>
            \A j \in DOMAIN message.parts : message.parts[j] = "text"

Block(m, part, form) == [message |-> m, part |-> part, form |-> form]
Turn(role, blocks) == [role |-> role, blocks |-> blocks]

\* What an adapter has a field for.  Transcripts and extracted text are sent as text.
Encodable(protocol) ==
    {"text", "image", "extracted"} \cup
    (IF protocol = "anthropic" THEN {"document"} ELSE {"audio", "transcribed"})
Form(kind) == IF kind \in {"transcribed", "extracted"} THEN "text" ELSE kind

Content(m, message) ==
    [j \in DOMAIN message.parts |-> Block(m, j, Form(message.parts[j]))]
\* MessageContent::plain_text: only the text parts.
PlainText(m, message) ==
    FlattenSeq([j \in DOMAIN message.parts |->
        IF message.parts[j] = "text" THEN <<Content(m, message)[j]>> ELSE <<>>])
Calls(m, message) ==
    [k \in 1..message.calls |-> Block(m, Len(message.parts) + k, "call")]

\* Messages whose media the adapter looks at; the others go through plain_text.
LooksAtParts(protocol, message) ==
    CASE protocol = "chat" -> TRUE
      [] protocol = "responses" -> message.role # "tool"
      [] protocol = "anthropic" -> message.role \notin {"tool", "system"}
Refused(protocol, messages) ==
    \E m \in DOMAIN messages :
        /\ LooksAtParts(protocol, messages[m])
        /\ \E j \in DOMAIN messages[m].parts : messages[m].parts[j] \notin Encodable(protocol)

ChatTurns(m, message) == <<Turn(message.role, Content(m, message) \o Calls(m, message))>>

ResponsesTurns(m, message) ==
    LET calls == [k \in 1..message.calls |-> Turn("call", <<Calls(m, message)[k]>>)] IN
    CASE message.role = "tool" -> <<Turn("output", PlainText(m, message))>>
      [] message.role = "assistant" /\ message.calls > 0 ->
            (IF message.parts = <<>> THEN <<>> ELSE <<Turn("assistant", Content(m, message))>>) \o calls
      [] OTHER -> <<Turn(message.role, Content(m, message))>>

\* A turn of the same role as the one before it is merged into it.  The result of a
\* tool always starts a turn of its own.
Merge(turns, turn) ==
    IF turns # <<>> /\ Last(turns).role = turn.role
    THEN [turns EXCEPT ![Len(turns)].blocks = @ \o turn.blocks]
    ELSE Append(turns, turn)
\* Variant for the sensitivity of NothingIsDropped: the merged turn replaces the content.
AppendTurnReplacing(turns, m, message) ==
    LET role == IF message.role = "assistant" THEN "assistant" ELSE "user"
        blocks == Content(m, message) \o (IF role = "assistant" THEN Calls(m, message) ELSE <<>>) IN
    CASE message.role = "system" -> turns
      [] message.role = "tool" -> Append(turns, Turn("user", PlainText(m, message)))
      [] turns # <<>> /\ Last(turns).role = role -> [turns EXCEPT ![Len(turns)].blocks = blocks]
      [] OTHER -> Append(turns, Turn(role, blocks))
AppendTurn(turns, m, message) ==
    LET role == IF message.role = "assistant" THEN "assistant" ELSE "user"
        blocks == Content(m, message) \o (IF role = "assistant" THEN Calls(m, message) ELSE <<>>) IN
    CASE message.role = "system" -> turns
      [] message.role = "tool" -> Append(turns, Turn("user", PlainText(m, message)))
      [] message.role # "tool" /\ blocks = <<>> -> turns
      [] OTHER -> Merge(turns, Turn(role, blocks))

\* The system messages become one field of their own, in front.
AnthropicBody(messages) ==
    LET system == FlattenSeq([m \in DOMAIN messages |->
            IF messages[m].role = "system" THEN PlainText(m, messages[m]) ELSE <<>>])
        turns[m \in 0..Len(messages)] ==
            IF m = 0 THEN <<>> ELSE AppendTurn(turns[m - 1], m, messages[m]) IN
    (IF system = <<>> THEN <<>> ELSE <<Turn("system", system)>>) \o turns[Len(messages)]

Encode(protocol, messages) ==
    CASE protocol = "chat" -> FlattenSeq([m \in DOMAIN messages |-> ChatTurns(m, messages[m])])
      [] protocol = "responses" -> FlattenSeq([m \in DOMAIN messages |-> ResponsesTurns(m, messages[m])])
      [] protocol = "anthropic" -> AnthropicBody(messages)
===============================================================================
