------------------------------ MODULE Conversation ------------------------------
(***************************************************************************)
(* One loop of the standard agent (agent_template.rs) with its memory: the *)
(* Model node (agent.rs), the Tool Dispatcher and the Context node, whose  *)
(* store (conversation.rs) trims what exceeds its limits, and the session  *)
(* of the Responses protocol (services.rs), by which the model node sends  *)
(* only what the server does not hold yet.                                 *)
(*                                                                         *)
(* A message is [role, text, id]: its text is what a fingerprint sees, its *)
(* id tells apart messages that look alike.  An assistant's message also   *)
(* says how many tools it calls.                                           *)
(***************************************************************************)
EXTENDS Naturals, Sequences, SequencesExt

CONSTANTS
    Configs,        \* records: prompt, maxMessages, maxTokens, overflow, responses, maxCalls, maxTotalTokens
    Texts,          \* texts of replies; "" among them
    MaxTools,       \* bound: tool calls of one reply
    Usages,         \* tokens a reply may cost
    MaxIterations,  \* of the loop gate
    Weight(_)       \* tokens that conversation.rs estimates for a message

\* What a prompt holds, and every message there can be.
Prompts == UNION {ToSet(c.prompt) : c \in Configs}
Messages ==
    Prompts \cup [role : {"assistant", "tool"}, text : Texts \cup {"value", "error"},
                 id : (1..MaxIterations) \X (0..MaxTools), calls : 0..MaxTools]

\* A prompt calls nothing, and only its first message can be the system's.  One whose two
\* texts are blank has no message at all: nothing is said then, and it is left out.
ASSUME ConversationAssumption ==
    /\ MaxTools \in Nat /\ MaxIterations \in Nat \ {0} /\ Usages \subseteq Nat
    /\ \A c \in Configs :
          /\ c.overflow \in {"trim_oldest", "error"}
          /\ {c.maxMessages, c.maxTokens, c.maxCalls} \subseteq Nat \ {0}   \* the nodes raise 0 to 1
          /\ c.prompt \in Seq(Prompts) /\ c.prompt # <<>>
          /\ \A i \in DOMAIN c.prompt :
                c.prompt[i].calls = 0 /\ (c.prompt[i].role = "system" => i = 1)
ASSUME WeightAssumption == \A m \in Messages : Weight(m) \in Nat

VARIABLES
    config,     \* parameters of the nodes
    phase,      \* "ready" (the gate continues), "asking", "dispatching", "answered", "failed"
    stored,     \* whether the Context node has an entry
    context,    \* messages of the entry
    request,    \* [previous, messages] of the last request to the model
    remote,     \* transcripts the server keeps, by response id 1, 2, ...
    session,    \* ResponseSession, or NoSession
    reply, results, \* the assistant's message and the results of the tools so far
    calls, tokens,  \* UsageRecord
    said        \* history: everything said since the prompt

memory == <<stored, context, said>>
usage == <<calls, tokens>>
turn == <<reply, results>>
conversationVars == <<config, phase, memory, request, remote, session, turn, usage>>

NoSession == [id |-> 0, count |-> 0, first |-> <<>>]
Message(role, text, id) == [role |-> role, text |-> text, id |-> id, calls |-> 0]

ConversationInit ==
    /\ config \in Configs
    /\ phase = "ready" /\ stored = FALSE /\ context = <<>> /\ said = config.prompt
    /\ request = [previous |-> 0, messages |-> <<>>]
    /\ remote = <<>> /\ session = NoSession
    /\ reply = <<>> /\ results = <<>>
    /\ calls = 0 /\ tokens = 0

(***************************************************************************)
(* The Model node.                                                         *)
(***************************************************************************)
History == IF stored THEN context ELSE config.prompt
\* message_fingerprint of the first message; nothing at all for an empty list.
First(messages) == IF messages = <<>> THEN <<>> ELSE <<messages[1].role, messages[1].text>>
Continues ==
    /\ config.responses /\ session # NoSession
    /\ Len(History) >= session.count /\ First(History) = session.first
\* Variant for the sensitivity of UntrimmedIsTold: only what is new is sent, without the id it follows.
OutgoingUnlinked ==
    [previous |-> 0,
     messages |-> IF Continues THEN SubSeq(History, session.count + 1, Len(History)) ELSE History]
Outgoing ==
    [previous |-> IF Continues THEN session.id ELSE 0,
     messages |-> IF Continues THEN SubSeq(History, session.count + 1, Len(History)) ELSE History]

\* Up to the request: the session is checked first, then the budget of calls.
Ask ==
    /\ phase = "ready" /\ calls < config.maxCalls
    /\ phase' = "asking" /\ calls' = calls + 1
    /\ request' = Outgoing
    /\ session' = IF config.responses /\ ~Continues THEN NoSession ELSE session
    /\ UNCHANGED <<config, memory, remote, turn, tokens>>

CallsExhausted ==
    /\ phase = "ready" /\ calls >= config.maxCalls
    /\ phase' = "failed"
    /\ session' = IF config.responses /\ ~Continues THEN NoSession ELSE session
    /\ UNCHANGED <<config, memory, request, remote, turn, usage>>

\* The reply arrives whole; an empty one and one over the budget of tokens fail the node
\* after the session has been noted.  Condition and loop gate follow at once.
Reply(text, n, cost, named) ==
    /\ phase = "asking"
    /\ LET message == [Message("assistant", text, <<calls, 0>>) EXCEPT !.calls = n]
           held == IF request.previous = 0 THEN <<>> ELSE remote[request.previous]
           empty == text = "" /\ n = 0
           overspent == config.maxTotalTokens > 0 /\ tokens + cost > config.maxTotalTokens
       IN /\ remote' = Append(remote, held \o Append(request.messages, message))
          /\ session' = IF ~named THEN session
                        ELSE [id |-> Len(remote'), count |-> Len(request.messages),
                              first |-> First(request.messages)]
          /\ reply' = <<message>> /\ results' = <<>>
          /\ tokens' = IF empty THEN tokens ELSE tokens + cost
          /\ phase' = IF empty \/ overspent THEN "failed" ELSE IF n = 0 THEN "answered" ELSE "dispatching"
    /\ UNCHANGED <<config, memory, request, calls>>

\* The provider or the user refuses, time runs out, or the run is cancelled.
GiveUp ==
    /\ phase \in {"asking", "dispatching"} /\ phase' = "failed"
    /\ UNCHANGED <<config, memory, request, remote, session, turn, usage>>

(***************************************************************************)
(* The Tool Dispatcher: one call after the other; an unknown tool, bad     *)
(* arguments, a refusal, a time-out or a failure is a result too.          *)
(***************************************************************************)
Result(ok) == Message("tool", IF ok THEN "value" ELSE "error", <<calls, Len(results) + 1>>)
Dispatch(ok) ==
    /\ phase = "dispatching" /\ Len(results) < reply[1].calls
    /\ results' = Append(results, Result(ok))
    /\ UNCHANGED <<config, phase, memory, request, remote, session, reply, usage>>

\* Variant for the sensitivity of CallsAreAnswered: a failed call ends the batch.
DispatchedOrFailed == Len(results) = reply[1].calls \/ (results # <<>> /\ Last(results).text = "error")
Dispatched == Len(results) = reply[1].calls

(***************************************************************************)
(* The Context node.                                                       *)
(***************************************************************************)
Estimate(messages) ==
    LET sum[i \in 0..Len(messages)] == IF i = 0 THEN 0 ELSE sum[i - 1] + Weight(messages[i])
    IN sum[Len(messages)]
Fits(messages) == Len(messages) <= config.maxMessages /\ Estimate(messages) <= config.maxTokens
\* One turn of the loop of enforce_limits: the oldest message that is not the system's goes.
\* Variant for the sensitivity of ContextIsRecent: the oldest goes, whoever said it.
DropOldest(messages) == IF Fits(messages) THEN messages ELSE Tail(messages)
Drop(messages) ==
    LET removable == {i \in DOMAIN messages : messages[i].role # "system"}
    IN IF Fits(messages) \/ removable = {} THEN messages ELSE RemoveAt(messages, Min(removable))
EnforceLimits(messages) ==
    LET kept[i \in 0..Len(messages)] == IF i = 0 THEN messages ELSE Drop(kept[i - 1])
    IN kept[Len(messages)]
Push(messages, m) ==
    IF config.overflow = "error" THEN Append(messages, m) ELSE EnforceLimits(Append(messages, m))
\* The first activation stores the prompt as well.  What does not fit at some push
\* under "error", or is all the system's, does not fit at the end either.
Pushed == (IF stored THEN <<>> ELSE config.prompt) \o reply \o results
Updated ==
    LET entry[i \in 0..Len(Pushed)] == IF i = 0 THEN context ELSE Push(entry[i - 1], Pushed[i])
    IN entry[Len(Pushed)]

Store ==
    /\ phase = "dispatching" /\ Dispatched
    /\ stored' = Fits(Updated)      \* a failing update takes the entry out
    /\ IF Fits(Updated) THEN context' = Updated /\ said' = said \o reply \o results
                        ELSE context' = <<>> /\ UNCHANGED said
    /\ phase' = IF Fits(Updated) /\ calls < MaxIterations THEN "ready" ELSE "failed"
    /\ UNCHANGED <<config, request, remote, session, turn, usage>>

ConversationNext ==
    \/ Ask \/ CallsExhausted \/ GiveUp \/ Store
    \/ \E text \in Texts, n \in 0..MaxTools, cost \in Usages, named \in BOOLEAN :
          (named => config.responses) /\ Reply(text, n, cost, named)
    \/ \E ok \in BOOLEAN : Dispatch(ok)

ConversationSpec == ConversationInit /\ [][ConversationNext]_conversationVars

-------------------------------------------------------------------------------
ConversationTypeOK ==
    /\ config \in Configs /\ stored \in BOOLEAN
    /\ phase \in {"ready", "asking", "dispatching", "answered", "failed"}
    /\ calls \in 0..MaxIterations /\ tokens \in Nat
    /\ request.previous \in 0..Len(remote) /\ session.id \in 0..Len(remote)
    /\ request.messages \in Seq(Messages) /\ remote \in Seq(Seq(Messages))
    /\ reply \in Seq(Messages) /\ Len(reply) <= 1
    /\ results \in Seq(Messages) /\ Len(results) <= MaxTools
    /\ context \in Seq(Messages) /\ said \in Seq(Messages) /\ Len(context) <= Len(said)

\* The transcript that the model answers on.
Told == (IF request.previous = 0 THEN <<>> ELSE remote[request.previous]) \o request.messages
\* How many messages trimming spares: the system's, which only a prompt begins with.
Pinned(messages) == IF messages # <<>> /\ messages[1].role = "system" THEN 1 ELSE 0
\* What is left of the messages without the k oldest that it does not spare.
Recent(messages, k) ==
    SubSeq(messages, 1, Pinned(messages)) \o SubSeq(messages, Pinned(messages) + k + 1, Len(messages))

\* Trimming forgets the oldest and nothing else: what the context keeps is the system's
\* message and the longest run of last messages that fits beside it, although it is
\* trimmed greedily, message by message, in the middle of a turn
\* (conversation.rs:150-183; Docs/phase-1.4/01-design.md:108).
ContextIsRecent ==
    stored =>
        LET fitting == {k \in 0..(Len(said) - Pinned(said)) : Fits(Recent(said, k))}
        IN fitting # {} /\ context = Recent(said, Min(fitting))

\* A request never holds a call of the assistant without the result of that call, which
\* every protocol refuses: each message that calls n tools is followed in the local
\* history by its n results, in the order of the calls, whatever became of them
\* (agent.rs:1150-1255, and the order in which trimming takes a turn apart).
CallsAreAnswered ==
    phase = "asking" =>
        \A i \in DOMAIN History : \A k \in 1..History[i].calls :
            i + k \in DOMAIN History /\ History[i + k].id = <<History[i].id[1], k>>

\* Until the first message is trimmed, the model is told everything: whichever way the
\* session is continued, dropped or begun anew, each message of the history is in the
\* transcript it answers on, and the newest is its last (agent.rs:541-557).
UntrimmedIsTold ==
    phase = "asking" /\ Len(History) = Len(said) =>
        ToSet(said) \subseteq ToSet(Told) /\ Told # <<>> /\ Last(Told) = Last(said)

\* agent.rs:552, "Local history was trimmed or replaced; server state no longer lines up,
\* so send the complete local transcript": whatever was trimmed, the model is told all
\* of the history that is left.  It is not: the same count and the same pinned first
\* message pass for the same history.
NothingUnsaid == phase = "asking" => ToSet(History) \subseteq ToSet(Told)
===============================================================================
