------------------------------ MODULE MessageBus ------------------------------
(***************************************************************************)
(* The message half of crates/lingxi-runtime/src/agent_bus.rs: what the    *)
(* run-scoped bus does with an envelope from the moment a caller sends it. *)
(* Every public method takes the one `state` mutex for its whole body, so  *)
(* each method is one action.  The activation half of the same type is the *)
(* module AgentLifecycle; the only handler both describe is                *)
(* finish_activation, whose effect on the message map is FinishMessage.    *)
(*                                                                         *)
(* An envelope is its message id; sender, recipient and idempotency key    *)
(* are functions of the id (the constructor draws a fresh uuid for it).    *)
(* Payloads, artifacts, timestamps and the text of errors are left out.    *)
(***************************************************************************)
EXTENDS Integers, Sequences, FiniteSets

CONSTANTS
    Agents,        \* instance ids; numbers, for BTreeMap iterates them in order
    User, Workflow, Broadcast,   \* the endpoints that are not agents
    Ids,           \* message ids
    Keys,          \* idempotency keys
    NoId,          \* no message: the value of an unused key
    Sender,        \* [Ids -> who sends the envelope]
    Recipient,     \* [Ids -> whom it is addressed to]
    Key,           \* [Ids -> its idempotency key]
    QueueLimit,    \* capacity of one inbox (128 in the program)
    MessageLimit   \* length of the transcript (4096 in the program)

Endpoints == {User, Workflow, Broadcast}

ASSUME AgentsAssumption == Agents \subseteq Nat /\ Agents \cap Endpoints = {}
ASSUME EndpointsAssumption == User # Broadcast /\ Workflow # Broadcast /\ User # Workflow
ASSUME EnvelopeAssumption ==
    /\ NoId \notin Ids
    /\ Sender \in [Ids -> Agents \cup Endpoints]
    /\ Recipient \in [Ids -> Agents \cup Endpoints]
    /\ Key \in [Ids -> Keys]
ASSUME LimitsAssumption == QueueLimit \in Nat \ {0} /\ MessageLimit \in Nat \ {0}

VARIABLES
    registered,    \* session.agents: the members of the task session
    messages,      \* status of each message in the bus map, or Absent
    transcript,    \* session.messages, oldest first
    stored,        \* status of each message in session.messages, or Absent
    idempotency,   \* idempotency key -> message id
    inbox,         \* one FIFO of message ids for each agent
    got,           \* history: the ids each agent has been handed by receive
    earlier,       \* history: the pairs <<m, k>> of them such that m was handed over before k
    accepted       \* history: the ids send accepted, in order

vars == <<registered, messages, transcript, stored, idempotency, inbox, got, earlier, accepted>>

Acks == {"acknowledged", "completed", "failed", "rejected"}
Statuses == {"queued", "delivered"} \cup Acks
Absent == "absent"

\* BusState.delivered, which the code writes and never reads.
delivered == UNION {got[a] : a \in Agents}

Direct == {m \in Ids : Recipient[m] \in Agents}
Elements(q) == {q[i] : i \in 1..Len(q)}

Init ==
    /\ registered = {}
    /\ messages = [m \in Ids |-> Absent]
    /\ transcript = <<>>
    /\ stored = [m \in Ids |-> Absent]
    /\ idempotency = [k \in Keys |-> NoId]
    /\ inbox = [a \in Agents |-> <<>>]
    /\ got = [a \in Agents |-> {}]
    /\ earlier = [a \in Agents |-> {}]
    /\ accepted = <<>>

(***************************************************************************)
(* register_instance: a second registration only refreshes display data.   *)
(***************************************************************************)
RegisterInstance(a) ==
    /\ registered' = registered \cup {a}
    /\ UNCHANGED <<messages, transcript, stored, idempotency, inbox, got, earlier, accepted>>

(***************************************************************************)
(* send.                                                                   *)
(***************************************************************************)
KnownSender(m) == Sender[m] \in {User, Workflow} \cup registered
KnownRecipient(m) == Recipient[m] \in {User, Broadcast} \cup registered

\* Variant for the sensitivity of AcceptedOncePerKey, DirectAtMostOnce: a key is forgotten with its message.
VerdictByMessage(m) ==
    IF idempotency[Key[m]] # NoId /\ messages[idempotency[Key[m]]] # Absent THEN "existing"
    ELSE IF messages[m] # Absent THEN "id_duplicate"
    ELSE IF ~KnownSender(m) THEN "forbidden"
    ELSE IF ~KnownRecipient(m) THEN "unknown_recipient"
    ELSE "deliver"

\* The answer of send before any inbox is touched, in the order of its returns.
Verdict(m) ==
    IF idempotency[Key[m]] # NoId
    THEN IF messages[idempotency[Key[m]]] # Absent THEN "existing" ELSE "key_duplicate"
    ELSE IF messages[m] # Absent THEN "id_duplicate"
    ELSE IF ~KnownSender(m) THEN "forbidden"
    ELSE IF ~KnownRecipient(m) THEN "unknown_recipient"
    ELSE "deliver"

Recipients(m) ==
    IF Recipient[m] = Broadcast THEN registered \ {Sender[m]}
    ELSE IF Recipient[m] = User THEN {}
    ELSE {Recipient[m]}

\* Variant for the sensitivity of TypeOK: the limit is tested one too late.
OverFull(a) == Len(inbox[a]) > QueueLimit

Full(a) == Len(inbox[a]) >= QueueLimit
FullRecipients(m) == {a \in Recipients(m) : Full(a)}

\* enqueue is called for the recipients in key order and stops at the first error.
Enqueued(m, who) ==
    inbox' = [a \in Agents |-> IF a \in who THEN Append(inbox[a], m) ELSE inbox[a]]

\* drain(..excess): one message arrives at a time, so at most one is excess.
Excess == Len(transcript) + 1 > MessageLimit
Evicted == IF Excess /\ transcript # <<>> THEN {Head(transcript)} ELSE {}
Trimmed(m) == IF Evicted # {} THEN Append(Tail(transcript), m) ELSE Append(transcript, m)
\* Variant for the sensitivity of TranscriptIsRecent: an evicted message stays in the map.
WithEvicted(f, m) == [f EXCEPT ![m] = "queued"]

WithoutEvicted(f, m) ==
    [x \in Ids |-> IF x = m THEN "queued" ELSE IF x \in Evicted THEN Absent ELSE f[x]]

SendAccepted(m) ==
    /\ Verdict(m) = "deliver"
    /\ FullRecipients(m) = {}
    /\ Enqueued(m, Recipients(m))
    /\ idempotency' = [idempotency EXCEPT ![Key[m]] = m]
    /\ messages' = WithoutEvicted(messages, m)
    /\ stored' = WithoutEvicted(stored, m)
    /\ transcript' = Trimmed(m)
    /\ accepted' = Append(accepted, m)
    /\ UNCHANGED <<registered, got, earlier>>

\* bus.queue_full: the recipients before the first full one keep the id.
SendQueueFull(m) ==
    /\ Verdict(m) = "deliver"
    /\ FullRecipients(m) # {}
    /\ Enqueued(m, {a \in Recipients(m) : \A f \in FullRecipients(m) : a < f})
    /\ UNCHANGED <<registered, messages, transcript, stored, idempotency, got, earlier, accepted>>

\* A repeated key or id, a stranger: an answer and no change.
SendAnswered(m) ==
    /\ Verdict(m) # "deliver"
    /\ UNCHANGED vars

(***************************************************************************)
(* receive(recipient, limit): pops n = min(limit, queue length) ids, skips *)
(* the evicted ones, and turns queued into delivered on both copies.       *)
(***************************************************************************)
Popped(a, n) == {inbox[a][i] : i \in 1..n}
\* Variant for the sensitivity of AcceptedReachesRecipient: what was acknowledged early is dropped.
ReturnedQueued(a, n) == {m \in Popped(a, n) : messages[m] = "queued"}

Returned(a, n) == {m \in Popped(a, n) : messages[m] # Absent}
\* Variant for the sensitivity of AcknowledgementSticks: the earlier status is not looked at.
DeliveredAlways(st) == "delivered"

Delivered(st) == IF st = "queued" THEN "delivered" ELSE st

HandedOver(a, ms) == [got EXCEPT ![a] = @ \cup ms]
\* The pairs of one answer: it lists the ids in the order of the queue.
Together(a, ms, range) ==
    {pair \in ms \X ms : \E i, j \in range : i < j /\ pair = <<inbox[a][i], inbox[a][j]>>}

\* Variant for the sensitivity of DirectFifo: the ids are popped from the back.
ReceiveNewest(a, n) ==
    LET len == Len(inbox[a])
        ms == {inbox[a][i] : i \in len - n + 1..len} \ {m \in Ids : messages[m] = Absent}
    IN  /\ n \in 1..len
        /\ inbox' = [inbox EXCEPT ![a] = SubSeq(@, 1, len - n)]
        /\ messages' = [m \in Ids |-> IF m \in ms THEN Delivered(messages[m]) ELSE messages[m]]
        /\ stored' = [m \in Ids |-> IF m \in ms THEN Delivered(messages[m]) ELSE stored[m]]
        /\ got' = HandedOver(a, ms)
        /\ earlier' = [earlier EXCEPT ![a] = @ \cup (got[a] \X ms) \cup Together(a, ms, len - n + 1..len)]
        /\ UNCHANGED <<registered, transcript, idempotency, accepted>>

Receive(a, n) ==
    /\ n \in 1..Len(inbox[a])
    /\ inbox' = [inbox EXCEPT ![a] = SubSeq(@, n + 1, Len(@))]
    /\ messages' = [m \in Ids |->
          IF m \in Returned(a, n) THEN Delivered(messages[m]) ELSE messages[m]]
    /\ stored' = [m \in Ids |->
          IF m \in Returned(a, n) THEN Delivered(messages[m]) ELSE stored[m]]
    /\ got' = HandedOver(a, Returned(a, n))
    /\ earlier' = [earlier EXCEPT ![a] =
          @ \cup (got[a] \X Returned(a, n)) \cup Together(a, Returned(a, n), 1..n)]
    /\ UNCHANGED <<registered, transcript, idempotency, accepted>>

(***************************************************************************)
(* acknowledge(message_id, status): any known message, at any time; the    *)
(* inboxes are left alone.                                                 *)
(***************************************************************************)
Acknowledge(m, st) ==
    /\ messages[m] # Absent
    /\ messages' = [messages EXCEPT ![m] = st]
    /\ stored' = [stored EXCEPT ![m] = st]
    /\ UNCHANGED <<registered, transcript, idempotency, inbox, got, earlier, accepted>>

\* finish_activation with the id of the activation's result message: only the
\* bus map is updated.
FinishMessage(m) ==
    /\ Sender[m] \in registered
    /\ messages[m] # Absent
    /\ messages' = [messages EXCEPT ![m] = "completed"]
    /\ UNCHANGED <<registered, transcript, stored, idempotency, inbox, got, earlier, accepted>>

Next ==
    \/ \E a \in Agents : RegisterInstance(a)
    \/ \E m \in Ids : SendAccepted(m) \/ SendQueueFull(m) \/ SendAnswered(m)
    \/ \E a \in Agents : \E n \in 1..QueueLimit : Receive(a, n)
    \/ \E m \in Ids : \E st \in Acks : Acknowledge(m, st)
    \/ \E m \in Ids : FinishMessage(m)

Spec == Init /\ [][Next]_vars

-------------------------------------------------------------------------------
(* Properties *)

TypeOK ==
    /\ registered \subseteq Agents
    /\ messages \in [Ids -> Statuses \cup {Absent}]
    /\ transcript \in Seq(Ids)
    /\ stored \in [Ids -> Statuses \cup {Absent}]
    /\ idempotency \in [Keys -> Ids \cup {NoId}]
    /\ inbox \in [Agents -> Seq(Ids)]
    /\ \A a \in Agents : Len(inbox[a]) <= QueueLimit
    /\ got \in [Agents -> SUBSET Ids]
    /\ earlier \in [Agents -> SUBSET (Ids \X Ids)]
    /\ accepted \in Seq(Ids)

\* An idempotency key is spent for the life of the run: of all the envelopes
\* that carry it send accepts at most one, however often the callers retry and
\* whatever the transcript has forgotten meanwhile.
AcceptedOncePerKey ==
    \A i, j \in 1..Len(accepted) : Key[accepted[i]] = Key[accepted[j]] => i = j

\* A message addressed to one agent sits in its inbox at most once, and never
\* again once receive has handed it over (no retry delivers it twice).
DirectAtMostOnce ==
    \A a \in Agents :
        /\ \A i, j \in 1..Len(inbox[a]) :
              inbox[a][i] \in Direct /\ inbox[a][i] = inbox[a][j] => i = j
        /\ Direct \cap Elements(inbox[a]) \cap got[a] = {}

\* No accepted direct message disappears while the transcript still holds it:
\* it waits in its recipient's inbox or the recipient has had it.
AcceptedReachesRecipient ==
    \A i \in 1..Len(accepted) :
        LET m == accepted[i]
        IN m \in Direct /\ messages[m] # Absent =>
              m \in Elements(inbox[Recipient[m]]) \cup got[Recipient[m]]

Before(s, m, k) == \E p, q \in 1..Len(s) : p < q /\ s[p] = m /\ s[q] = k

\* An agent is handed its direct messages in the order in which send accepted
\* them, within one answer of receive and from one to the next, whatever was
\* refused, retried or evicted in between.
DirectFifo ==
    \A a \in Agents : \A pair \in earlier[a] :
        {pair[1], pair[2]} \subseteq Direct => Before(accepted, pair[1], pair[2])

\* The bus map and the transcript hold the same messages, and the transcript is
\* the most recent part of what was accepted, never more than MessageLimit long.
TranscriptIsRecent ==
    /\ {m \in Ids : messages[m] # Absent} = Elements(transcript)
    /\ {m \in Ids : stored[m] # Absent} = Elements(transcript)
    /\ Len(transcript) <= MessageLimit
    /\ Len(transcript) <= Len(accepted)
    /\ \A i \in 1..Len(transcript) :
          transcript[i] = accepted[Len(accepted) - Len(transcript) + i]

\* A late receive never takes back an acknowledgement: once a message has a
\* final status it keeps one until it is evicted.
AcknowledgementSticks ==
    [][\A m \in Ids : messages[m] \in Acks => messages'[m] \in Acks \cup {Absent}]_vars

-------------------------------------------------------------------------------
(* What the repository says of the bus and the code does not do *)

\* The comment on receive: "A message is never returned twice".  A broadcast
\* that met a full inbox left its id in the earlier ones; the retry adds it again.
NeverReturnedTwice ==
    \A a \in Agents :
        /\ Elements(inbox[a]) \cap got[a] = {}
        /\ \A i, j \in 1..Len(inbox[a]) : inbox[a][i] = inbox[a][j] => i = j
===============================================================================
