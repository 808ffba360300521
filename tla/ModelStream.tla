------------------------------ MODULE ModelStream ------------------------------
(***************************************************************************)
(* One model request, from the transcript to the reply: the adapters of    *)
(* the three protocols (provider.rs, responses.rs, anthropic.rs), with the *)
(* part of the model node (agent.rs) that shows the text as it arrives.    *)
(*                                                                         *)
(* The provider says a reply bit by bit: pieces of text and of reasoning,  *)
(* tool calls whose arguments come in fragments.  As a stream, each event  *)
(* is a line, and a line crosses the wire as two symbols and a newline;    *)
(* what arrives together is a chunk, cut anywhere.  Every chunk is decoded *)
(* alone, so a character that the end of a chunk cuts is lost: where that  *)
(* end is within a line, whatever words the line holds may be damaged, a   *)
(* tool's name and arguments as well as text.  Damaged words are not other *)
(* lines, and damaged arguments are as well formed as they were: numbers,  *)
(* identities and the marks of JSON are ASCII.                             *)
(***************************************************************************)
EXTENDS ModelRequest, FiniteSets

CONSTANTS
    Protocols,  \* a subset of {"chat", "responses", "anthropic"}
    Requests,   \* transcripts: sequences of messages
    Ids,        \* identities of tool calls, in the order of their names
    MaxPieces,  \* bound: pieces of text and calls, together
    WholeArgs,  \* fragments that make well-formed arguments
    MaxInFlight \* bound: symbols on the wire

ASSUME ModelStreamAssumption ==
    /\ Protocols \subseteq {"chat", "responses", "anthropic"} /\ Ids \subseteq Nat \ {0}
    /\ MaxPieces \in Nat /\ WholeArgs \in Nat \ {0} /\ MaxInFlight \in Nat

ASSUME RequestsAssumption ==
    \A messages \in Requests :
        /\ messages \in Seq(ChatMessage)
        /\ \A m \in DOMAIN messages : Sayable(messages[m])

VARIABLES
    protocol, stream,
    request,    \* the transcript; the adapter gives it up when the request is sent
    body,       \* what was sent; the adapter gives it up when the response starts
    status,     \* "new", "asked", "streaming", "reading", "replied", "failed"
    said,       \* history: what the provider said
    stage,      \* of the provider: "opening", "talking", "closing", "over", "cut"
    wire,       \* symbols sent and not received
    buffer,     \* symbols received and not yet a line
    reader,     \* what the adapter gathered so far
    harmed,     \* the calls in it, by their keys, whose name or arguments may be damaged
    pending,    \* text the model node holds back
    shown,      \* text of the model.delta events
    reply,      \* the ChatResponse
    hurt        \* history: the words that the end of a chunk fell into

call == <<protocol, stream, harmed, hurt>>
outgoing == <<request, body>>
provider == <<said, stage>>
page == <<pending, shown>>
streamVars == <<call, outgoing, status, provider, wire, buffer, reader, page, reply>>

Counted(prompt, completion) ==
    [prompt |-> prompt, completion |-> completion, total |-> prompt + completion]
Ended == status \in {"replied", "failed"}
Arriving == status \in {"streaming", "reading"}

(***************************************************************************)
(* The wire.                                                               *)
(***************************************************************************)
Newline == [event |-> [kind |-> "newline"], half |-> 0, torn |-> FALSE]
Line(event) == <<[event |-> event, half |-> 1, torn |-> FALSE],
                 [event |-> event, half |-> 2, torn |-> FALSE], Newline>>
Piece(n) == [n |-> n, intact |-> TRUE]
Numbers(pieces) == [i \in DOMAIN pieces |-> pieces[i].n]

\* Variant for the sensitivity of OnlyCutsAlter: the words of a chunk that does not end a
\* line are kept as far as they are ASCII.
LossyToAscii(chunk) ==
    IF chunk # <<>> /\ Last(chunk) # Newline
    THEN [i \in DOMAIN chunk |-> [chunk[i] EXCEPT !.torn = chunk[i].half # 0]] ELSE chunk
\* from_utf8_lossy of a chunk that ends inside a line.
Lossy(chunk) ==
    IF chunk # <<>> /\ Last(chunk).half = 1 THEN [chunk EXCEPT ![Len(chunk)].torn = TRUE] ELSE chunk
\* The event of a line.  A line that does not begin as data is passed over; one whose
\* data is no JSON ends the call.  Words that were cut are still JSON: a piece is marked
\* here, the name and the arguments of a call by Harm.
Decode(line) ==
    CASE line = <<>> \/ line[1].half # 1 -> [kind |-> "comment"]
      [] Len(line) # 2 -> [kind |-> "garbage"]
      [] line[1].torn /\ line[1].event.kind \in {"text", "thought"} ->
            [line[1].event EXCEPT !.piece.intact = FALSE]
      [] OTHER -> line[1].event
\* What such an end damages for good: a piece, a call or, in the Responses protocol, which
\* repeats them at the end, all of its calls.
Cuts(e) ==
    CASE e.kind \in {"text", "thought"} -> {<<e.kind, e.piece.n>>}
      [] e.kind \in {"call", "args"} /\ protocol # "responses" -> {<<"call", e.index>>}
      [] e.kind = "done" /\ protocol = "responses" -> {<<"calls", 0>>}
      [] OTHER -> {}

(***************************************************************************)
(* The reader of each protocol: what one event does to what was gathered.  *)
(***************************************************************************)
\* TokenUsage: prompt, completion and total.  Chat takes the total from the provider.
NoUsage == <<0, 0, 0>>
ChatUsage(usage) == <<usage.prompt, usage.completion, usage.total>>
SummedUsage(usage) == <<usage.prompt, usage.completion, usage.prompt + usage.completion>>
NewCall == [id |-> <<>>, args |-> <<>>, named |-> FALSE]
Empty == [text |-> <<>>, thought |-> <<>>, calls |-> <<>>, callOf |-> <<>>,
          usage |-> NoUsage, complete |-> FALSE, failed |-> FALSE]
At(f, key, default) == IF key \in DOMAIN f THEN f[key] ELSE default
Put(f, key, value) == [k \in DOMAIN f \cup {key} |-> IF k = key THEN value ELSE f[k]]

ChatEvent(r, e) ==
    CASE e.kind = "done" -> [r EXCEPT !.complete = TRUE]
      [] e.kind = "usage" -> [r EXCEPT !.usage = ChatUsage(e.usage)]
      [] e.kind = "text" -> [r EXCEPT !.text = Append(@, e.piece)]
      \* The parts of a call are appended to the call of that index.
      [] e.kind = "call" ->
            LET old == At(r.calls, e.index, NewCall) IN
            [r EXCEPT !.calls = Put(@, e.index,
                [id |-> old.id \o e.id, args |-> old.args \o e.args, named |-> old.named \/ e.id # <<>>])]
      [] e.kind = "args" ->
            LET old == At(r.calls, e.index, NewCall) IN
            [r EXCEPT !.calls = Put(@, e.index, [old EXCEPT !.args = @ \o e.args])]
      [] OTHER -> r

\* A call is kept under its call_id; fragments name the item.
Item(id, args) == [id |-> id, args |-> args, named |-> TRUE]
WithItem(r, e) == [r EXCEPT !.callOf = Put(@, e.index, e.id[1]),
                            !.calls = Put(@, e.id[1], Item(e.id, e.args))]
\* The completion repeats every item; of one identity the last counts.
PutAll(f, output) ==
    LET places(id) == {i \in DOMAIN output : output[i].id = id} IN
    [id \in DOMAIN f \cup {output[i].id : i \in DOMAIN output} |->
        IF places(id) = {} THEN f[id] ELSE Item(<<id>>, output[Max(places(id))].args)]
ResponsesEvent(r, e) ==
    CASE e.kind = "text" -> [r EXCEPT !.text = Append(@, e.piece)]
      [] e.kind = "thought" -> [r EXCEPT !.thought = Append(@, e.piece)]
      [] e.kind = "call" -> WithItem(r, e)
      [] e.kind = "args" ->
            LET key == At(r.callOf, e.index, 0)
                old == At(r.calls, key, NewCall) IN
            [r EXCEPT !.calls = Put(@, key, [old EXCEPT !.args = @ \o e.args])]
      [] e.kind = "done" ->
            [r EXCEPT !.complete = TRUE, !.usage = SummedUsage(e.usage),
                      !.calls = PutAll(@, e.output)]
      [] OTHER -> r

AnthropicEvent(r, e) ==
    CASE e.kind = "start" -> [r EXCEPT !.usage = SummedUsage(e.usage)]
      [] e.kind = "call" -> [r EXCEPT !.calls = Put(@, e.index, Item(e.id, <<>>))]
      [] e.kind = "text" -> [r EXCEPT !.text = Append(@, e.piece)]
      [] e.kind = "thought" -> [r EXCEPT !.thought = Append(@, e.piece)]
      [] e.kind = "args" ->
            LET old == At(r.calls, e.index, NewCall) IN
            [r EXCEPT !.calls = Put(@, e.index, [old EXCEPT !.args = @ \o e.args])]
      [] e.kind = "usage" -> 
            [r EXCEPT !.usage = <<@[1], e.usage.completion, @[1] + e.usage.completion>>]
      [] e.kind = "done" -> [r EXCEPT !.complete = TRUE]
      [] OTHER -> r

Accept(r, e) ==
    CASE e.kind \in {"garbage", "error"} -> [r EXCEPT !.failed = TRUE]
      [] e.kind = "comment" -> r
      [] OTHER -> CASE protocol = "chat" -> ChatEvent(r, e)
                    [] protocol = "responses" -> ResponsesEvent(r, e)
                    [] protocol = "anthropic" -> AnthropicEvent(r, e)

\* The calls an event writes to; all but Chat's fragments replace what was there.
Touched(r, e) ==
    CASE e.kind \in {"call", "args"} /\ protocol # "responses" -> {e.index}
      [] e.kind = "call" /\ protocol = "responses" -> {e.id[1]}
      [] e.kind = "args" /\ protocol = "responses" -> {At(r.callOf, e.index, 0)}
      [] e.kind = "done" /\ protocol = "responses" -> {e.output[i].id : i \in DOMAIN e.output}
      [] OTHER -> {}
Replaced(r, e) == IF protocol # "chat" /\ e.kind # "args" THEN Touched(r, e) ELSE {}
Harm(h, r, e, torn) == (h \ Replaced(r, e)) \cup (IF torn THEN Touched(r, e) ELSE {})

\* Variant for the sensitivity of ReplyIsWhatWasSaid: what is no line yet is thrown away.
ReadLineAndClear(at) ==
    IF at.reader.failed \/ Newline \notin ToSet(at.buffer) THEN [at EXCEPT !.buffer = <<>>]
    ELSE LET end == Min({i \in DOMAIN at.buffer : at.buffer[i] = Newline})
             line == SubSeq(at.buffer, 1, end - 1) IN
         [reader |-> Accept(at.reader, Decode(line)),
          buffer |-> SubSeq(at.buffer, end + 1, Len(at.buffer)),
          harmed |-> Harm(at.harmed, at.reader, Decode(line), line # <<>> /\ line[1].torn)]
\* The next line of the buffer, unless there is none or an earlier one has ended the call.
ReadLine(at) ==
    IF at.reader.failed \/ Newline \notin ToSet(at.buffer) THEN at
    ELSE LET end == Min({i \in DOMAIN at.buffer : at.buffer[i] = Newline})
             line == SubSeq(at.buffer, 1, end - 1) IN
         [reader |-> Accept(at.reader, Decode(line)),
          buffer |-> SubSeq(at.buffer, end + 1, Len(at.buffer)),
          harmed |-> Harm(at.harmed, at.reader, Decode(line), line # <<>> /\ line[1].torn)]
\* All of its lines; there are fewer than symbols.
Drain(r, h, symbols) ==
    LET read[n \in 0..Len(symbols)] ==
            IF n = 0 THEN [reader |-> r, buffer |-> symbols, harmed |-> h] ELSE ReadLine(read[n - 1])
    IN read[Len(symbols)]

(***************************************************************************)
(* The reply.                                                              *)
(***************************************************************************)
WellFormed(args) == args = [i \in 1..WholeArgs |-> i]
Parsable(args) == args = <<>> \/ WellFormed(args)
Arguments(args) == IF WellFormed(args) THEN "whole" ELSE "none"
\* A BTreeMap gives its values in the order of its keys.
InOrder(calls, keys) ==
    [i \in 1..Cardinality(keys) |->
        calls[CHOOSE key \in keys : Cardinality({k \in keys : k <= key}) = i]]
\* ToolCallBuilder::finish: a call whose arguments do not parse is left out.
ChatCalls(calls) ==
    InOrder(calls, {key \in DOMAIN calls : calls[key].named /\ Parsable(calls[key].args)})
\* The others call it without arguments.
ResponsesCalls(calls) == InOrder(calls, {key \in DOMAIN calls : calls[key].named})
AnthropicCalls(calls) == InOrder(calls, {key \in DOMAIN calls : calls[key].named})
ReplyOf(r) ==
    LET calls == CASE protocol = "chat" -> ChatCalls(r.calls)
                   [] protocol = "responses" -> ResponsesCalls(r.calls)
                   [] protocol = "anthropic" -> AnthropicCalls(r.calls) IN
    [text |-> r.text, thought |-> r.thought, usage |-> r.usage,
     calls |-> [i \in DOMAIN calls |-> [id |-> calls[i].id[1], args |-> Arguments(calls[i].args)]],
     harmed |-> {r.calls[key].id[1] : key \in {k \in harmed : r.calls[k].named}}]
NoReply == [text |-> <<>>, thought |-> <<>>, usage |-> NoUsage, calls |-> <<>>, harmed |-> {}]

\* A response in one piece.  Chat refuses all of it when the arguments of a call do not
\* parse, be it because there are none.
Whole(thought, usage) ==
    [text |-> [i \in DOMAIN said.text |-> Piece(said.text[i])], thought |-> thought, usage |-> usage,
     calls |-> [i \in DOMAIN said.calls |->
                  [id |-> said.calls[i].id, args |-> Arguments(said.calls[i].args)]],
     harmed |-> {}]
Thoughts == [i \in DOMAIN said.thought |-> Piece(said.thought[i])]
ParseCompletion ==
    IF \E i \in DOMAIN said.calls : ~WellFormed(said.calls[i].args) THEN NoReply
    ELSE Whole(<<>>, ChatUsage(said.usage))
ParseResponse == Whole(Thoughts, SummedUsage(said.usage))
ParseMessage == Whole(Thoughts, SummedUsage(said.usage))
WholeReply ==
    CASE protocol = "chat" -> ParseCompletion
      [] protocol = "responses" -> ParseResponse
      [] protocol = "anthropic" -> ParseMessage

(***************************************************************************)
(* The request.                                                            *)
(***************************************************************************)
\* The adapter returns an error: what it gathered and its connection are dropped, and
\* the model node does not show what it holds back.
Drop == wire' = <<>> /\ buffer' = <<>> /\ reader' = Empty /\ pending' = <<>>
Fail == status' = "failed" /\ Drop /\ UNCHANGED shown

StreamInit ==
    /\ protocol \in Protocols /\ stream \in BOOLEAN
    /\ request \in Requests /\ body = <<>>
    /\ status = "new"
    /\ said = [text |-> <<>>, thought |-> <<>>, calls |-> <<>>, usage |-> Counted(0, 0), ended |-> FALSE]
    /\ stage = "opening"
    /\ wire = <<>> /\ buffer = <<>>
    /\ reader = Empty
    /\ pending = <<>> /\ shown = <<>>
    /\ reply = NoReply
    /\ harmed = {} /\ hurt = {}

Ask ==
    /\ status = "new"
    /\ IF Refused(protocol, request)
       THEN status' = "failed" /\ UNCHANGED body
       ELSE status' = "asked" /\ body' = Encode(protocol, request)
    /\ UNCHANGED <<call, request, provider, wire, buffer, reader, page, reply>>

\* The response starts; any status that is no success ends the call.
Respond ==
    /\ status = "asked"
    /\ status' \in {IF stream THEN "streaming" ELSE "reading", "failed"}
    /\ request' = <<>> /\ body' = <<>>
    /\ UNCHANGED <<call, provider, wire, buffer, reader, page, reply>>

\* Losing the connection; the time limit, which covers the request and its response; the
\* user's cancellation, which nothing looks at while a response in one piece is read.
Break ==
    /\ status \in {"asked", "streaming", "reading"}
    /\ Fail
    /\ UNCHANGED <<call, outgoing, provider, reply>>

(***************************************************************************)
(* The provider.                                                           *)
(***************************************************************************)
Emit(event) ==
    /\ Arriving
    /\ Len(wire) + 3 <= MaxInFlight
    /\ wire' = IF stream THEN wire \o Line(event) ELSE wire
    /\ UNCHANGED <<call, outgoing, status, buffer, reader, page, reply>>

Talking == stage = "talking" /\ UNCHANGED stage
Open ==
    /\ stage = "opening" /\ stage' = "talking"
    /\ said' = [said EXCEPT !.usage = Counted(1, 0)]
    /\ Emit(IF protocol = "anthropic" THEN [kind |-> "start", usage |-> Counted(1, 0)] ELSE [kind |-> "comment"])
SayText ==
    /\ Talking /\ Len(said.text) + Len(said.calls) < MaxPieces
    /\ said' = [said EXCEPT !.text = Append(@, Len(@) + 1), !.usage = Counted(1, @.completion + 1)]
    /\ Emit([kind |-> "text", piece |-> Piece(Len(said.text) + 1)])
\* Reasoning comes before the answer.
SayThought ==
    /\ Talking /\ protocol # "chat"
    /\ said.thought = <<>> /\ said.text = <<>> /\ said.calls = <<>>
    /\ said' = [said EXCEPT !.thought = <<1>>, !.usage = Counted(1, @.completion + 1)]
    /\ Emit([kind |-> "thought", piece |-> Piece(1)])
OpenCall(id) ==
    /\ Talking /\ Len(said.text) + Len(said.calls) < MaxPieces
    /\ \A i \in DOMAIN said.calls : said.calls[i].id # id
    /\ said' = [said EXCEPT !.calls = Append(@, [id |-> id, args |-> <<>>, open |-> TRUE])]
    /\ Emit([kind |-> "call", index |-> Len(said.calls) + 1, id |-> <<id>>, args |-> <<>>])
SayArgs(i) ==
    /\ Talking /\ said.calls[i].open /\ Len(said.calls[i].args) < WholeArgs
    /\ said' = [said EXCEPT !.calls[i].args = Append(@, Len(@) + 1)]
    /\ Emit([kind |-> "args", index |-> i, args |-> <<Len(said.calls[i].args) + 1>>])
\* response.output_item.done repeats the item, and no fragment follows it.
CloseCall(i) ==
    /\ Talking /\ protocol = "responses" /\ said.calls[i].open
    /\ said' = [said EXCEPT !.calls[i].open = FALSE]
    /\ Emit([kind |-> "call", index |-> i, id |-> <<said.calls[i].id>>, args |-> said.calls[i].args])
\* The usage comes at the end, and with the completion itself in the Responses protocol.
Close ==
    /\ stage = "talking" /\ protocol # "responses" /\ stage' = "closing"
    /\ UNCHANGED said
    /\ Emit([kind |-> "usage", usage |-> said.usage])
Finish ==
    /\ stage = IF protocol = "responses" THEN "talking" ELSE "closing"
    /\ stage' = "over"
    /\ said' = [said EXCEPT !.ended = TRUE]
    /\ Emit([kind |-> "done", usage |-> said.usage, output |-> said.calls])
ReportError ==
    /\ stage \in {"talking", "closing"} /\ stage' = "over"
    /\ UNCHANGED said
    /\ Emit([kind |-> "error"])
\* The connection is closed, perhaps within a line.
Cut ==
    /\ Arriving /\ stage # "cut"
    /\ stage' = "cut"
    /\ \E n \in 0..Len(wire) : wire' = SubSeq(wire, 1, n)
    /\ UNCHANGED <<call, outgoing, status, said, buffer, reader, page, reply>>

Speak ==
    \/ Open \/ SayText \/ SayThought \/ Close \/ Finish \/ ReportError \/ Cut
    \/ \E id \in Ids : OpenCall(id)
    \/ \E i \in DOMAIN said.calls : SayArgs(i) \/ CloseCall(i)

(***************************************************************************)
(* The adapter reads.                                                      *)
(***************************************************************************)
\* Text of a chunk goes to the model node, which shows what it holds back whenever
\* 200 ms have gone by: after none or after the j-th of the new pieces.
Show(pieces, j) == shown' = IF j = 0 THEN shown ELSE shown \o pending \o SubSeq(pieces, 1, j)
Keep(pieces, j) == pending' = IF j = 0 THEN pending \o pieces ELSE SubSeq(pieces, j + 1, Len(pieces))
Chunk ==
    /\ status = "streaming"
    /\ \E n \in 1..Len(wire) :
        \E after \in {Drain(reader, harmed, buffer \o Lossy(SubSeq(wire, 1, n)))} :
        \E pieces \in {SubSeq(after.reader.text, Len(reader.text) + 1, Len(after.reader.text))} :
        \E j \in 0..Len(pieces) :
            /\ Show(pieces, j)
            /\ harmed' = after.harmed
            /\ hurt' = IF wire[n].half = 1 THEN hurt \cup Cuts(wire[n].event) ELSE hurt
            /\ IF after.reader.failed
               THEN status' = "failed" /\ Drop
               ELSE /\ wire' = SubSeq(wire, n + 1, Len(wire))
                    /\ reader' = after.reader /\ buffer' = after.buffer
                    /\ Keep(pieces, j)
                    /\ UNCHANGED status
    /\ UNCHANGED <<protocol, stream, outgoing, provider, reply>>

\* Variant for the sensitivity of PageFollowsReply: what is held back is not shown.
ConcludeUnshown(response) ==
    /\ pending' = <<>> /\ UNCHANGED shown
    /\ reply' = response
    /\ status' = IF response.text = <<>> /\ response.calls = <<>> THEN "failed" ELSE "replied"
\* The model node shows the rest of the text, and refuses a reply with nothing in it.
Conclude(response) ==
    /\ shown' = shown \o pending /\ pending' = <<>>
    /\ reply' = response
    /\ status' = IF response.text = <<>> /\ response.calls = <<>> THEN "failed" ELSE "replied"

\* Variant for the sensitivity of OnlyCompleteReplies: the marker is not looked for.
EndOfStreamUnmarked ==
    /\ status = "streaming" /\ stage \in {"over", "cut"} /\ wire = <<>>
    /\ Conclude(ReplyOf(reader)) /\ UNCHANGED <<wire, buffer, reader>>
    /\ UNCHANGED <<call, outgoing, provider>>
\* A last line without a newline stays in the buffer.
EndOfStream ==
    /\ status = "streaming" /\ stage \in {"over", "cut"} /\ wire = <<>>
    /\ IF reader.complete
       THEN Conclude(ReplyOf(reader)) /\ UNCHANGED <<wire, buffer, reader>>
       ELSE Fail /\ UNCHANGED reply
    /\ UNCHANGED <<call, outgoing, provider>>

ReadWhole ==
    /\ status = "reading" /\ stage \in {"over", "cut"}
    /\ IF said.ended /\ WholeReply # NoReply
       THEN Conclude(WholeReply) /\ UNCHANGED <<wire, buffer, reader>>
       ELSE Fail /\ UNCHANGED reply
    /\ UNCHANGED <<call, outgoing, provider>>

Read == Chunk \/ EndOfStream \/ ReadWhole
StreamNext == Ask \/ Respond \/ Break \/ Speak \/ Read

StreamSpec == StreamInit /\ [][StreamNext]_streamVars
-------------------------------------------------------------------------------
(* What is sent holds every part of the transcript, in order and in its own form; a *)
(* part the protocol has no field for ends the request instead ("never dropped      *)
(* silently").                                                                      *)
PartsOf(m, message) ==
    [j \in 1..Len(message.parts) + message.calls |->
        Block(m, j, IF j > Len(message.parts) THEN "call" ELSE Form(message.parts[j]))]
Sent(wanted(_)) ==
    FlattenSeq([t \in DOMAIN body |-> IF wanted(body[t].role) THEN body[t].blocks ELSE <<>>])
Meant(wanted(_)) ==
    FlattenSeq([m \in DOMAIN request |-> IF wanted(request[m].role) THEN PartsOf(m, request[m]) ELSE <<>>])
IsSystem(role) == role = "system"
IsTurn(role) == role # "system"
NothingIsDropped ==
    body # <<>> => Sent(IsSystem) = Meant(IsSystem) /\ Sent(IsTurn) = Meant(IsTurn)

(* The comment in anthropic.rs: "Merge consecutive turns of the same role. The       *)
(* Messages API requires alternation".                                               *)
TurnsAlternate ==
    protocol = "anthropic" =>
        \A t \in 1..Len(body) - 1 : body[t].role # body[t + 1].role

(* However the bytes were cut into chunks and the fragments of several calls were    *)
(* mixed, a reply holds what the provider said, but for characters that the end of a *)
(* chunk cut: every piece of text and of reasoning in order and apart, the usage, and*)
(* each call once with its own fragments.  A call with malformed arguments is left   *)
(* out by Chat and called without any by the others; Responses orders the calls of a *)
(* stream by their identities.                                                       *)
Expected ==
    LET known == {i \in DOMAIN said.calls : protocol = "chat" => Parsable(said.calls[i].args)}
        calls == InOrder(said.calls, known)
    IN  [i \in DOMAIN calls |-> [id |-> calls[i].id, args |-> Arguments(calls[i].args)]]
ReplyIsWhatWasSaid ==
    status = "replied" =>
        /\ Numbers(reply.text) = said.text /\ Numbers(reply.thought) = said.thought
        /\ reply.usage = SummedUsage(said.usage)
        /\ ToSet(reply.calls) = ToSet(Expected) /\ Len(reply.calls) = Len(Expected)
        /\ ~(protocol = "responses" /\ stream) => reply.calls = Expected

(* Decoding damages no more than it must (provider.rs:507, responses.rs:297,          *)
(* anthropic.rs:329): a piece of the reply is as it was said unless the end of a chunk*)
(* fell into it, and so are the name and the arguments of a call; in the Responses   *)
(* protocol they are even then, for the completion repeats them, unless it was cut   *)
(* itself.                                                                           *)
OnlyCutsAlter ==
    status = "replied" =>
        /\ \A i \in DOMAIN reply.text : reply.text[i].intact \/ <<"text", reply.text[i].n>> \in hurt
        /\ \A i \in DOMAIN reply.thought :
              reply.thought[i].intact \/ <<"thought", reply.thought[i].n>> \in hurt
        /\ \A i \in DOMAIN said.calls :
              said.calls[i].id \in reply.harmed =>
                  IF protocol = "responses" THEN <<"calls", 0>> \in hurt ELSE <<"call", i>> \in hurt

(* A connection that breaks at any point, within a line or just before the marker,   *)
(* yields no reply: a reply was finished by its provider.                            *)
OnlyCompleteReplies == status = "replied" => said.ended

(* The page shows a prefix of the reply's text at any time, and all of it when the   *)
(* model node returns, whenever the throttle let text through.                       *)
PageFollowsReply ==
    /\ IsPrefix(Numbers(shown), said.text)
    /\ (status = "replied" /\ stream) => shown = reply.text
===============================================================================
