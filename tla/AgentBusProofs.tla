---------------------------- MODULE AgentBusProofs ----------------------------
(***************************************************************************)
(* Theorems about what agent_bus.rs keeps for the agents of a run, for any *)
(* number of agents, messages, keys, configurations, revisions and         *)
(* directives and any limits.  The two parts share no state.               *)
(*                                                                         *)
(* MessageBus:                                                             *)
(*   TypeCorrect         Spec => []TypeOK                                  *)
(*   KeysAreSpent        Spec => []AcceptedOncePerKey                      *)
(*   NoSecondDelivery    Spec => []DirectAtMostOnce                        *)
(*   AckIsKept           Spec => AcknowledgementSticks                     *)
(*   AcceptedArrives     Spec => []AcceptedReachesRecipient                *)
(*   InOrder             Spec => []DirectFifo                              *)
(*   RecentTranscript    Spec => []TranscriptIsRecent                      *)
(* AgentIntervention:                                                      *)
(*   InterventionTypeCorrect   InterventionSpec => []InterventionTypeOK    *)
(*   NewestPending             InterventionSpec => []OnlyNewestPending     *)
(*   KnownOnItsWay             InterventionSpec => []OnItsWayIsKnown       *)
(*   NoFallBack                InterventionSpec => NeverFallsBack          *)
(*                                                                         *)
(* No safety invariant of MessageBus is inductive.  The first two rest on  *)
(* what send keeps about the idempotency map: an accepted message, and a   *)
(* direct message that was ever enqueued, still owns its key (KeyInv).     *)
(* Arrival is inductive together with KeyInv.  The order rests on that of  *)
(* the inbox: what waits is in order and behind all that was handed over   *)
(* (OrderInv), for send appends and receive takes from the front.  The     *)
(* last is inductive with KeyInv: no message is in the transcript twice,   *)
(* hence the one that is taken out of it may leave the maps as well.       *)
(***************************************************************************)
EXTENDS MessageBus, AgentIntervention, SequenceTheorems, FiniteSetTheorems, TLAPS

\* Every accepted message owns its key: no later send has taken it over.
AcceptedOwnsKey ==
    \A i \in 1..Len(accepted) : idempotency[Key[accepted[i]]] = accepted[i]

\* So does every direct message that waits or was handed over: the refused
\* ones left nothing behind.
InFlightOwnsKey ==
    \A a \in Agents : \A m \in Direct :
        m \in Elements(inbox[a]) \cup got[a] => idempotency[Key[m]] = m

\* The inductive invariant.
KeyInv ==
    /\ TypeOK
    /\ AcceptedOwnsKey
    /\ AcceptedOncePerKey
    /\ InFlightOwnsKey
    /\ DirectAtMostOnce

\* The same for what is in the inboxes and in the transcript.
DeliveryInv == KeyInv /\ AcceptedReachesRecipient

\* What DirectFifo rests on: a direct message waits or was handed over only if it was
\* accepted, ...
DirectWasAccepted ==
    \A a \in Agents : Direct \cap (Elements(inbox[a]) \cup got[a]) \subseteq Elements(accepted)

\* ... those that wait are in order ...
InboxOrder ==
    \A a \in Agents : \A i, j \in 1..Len(inbox[a]) :
        i < j /\ inbox[a][i] \in Direct /\ inbox[a][j] \in Direct =>
            Before(accepted, inbox[a][i], inbox[a][j])

\* ... and behind all that were handed over.
HandedFirst ==
    \A a \in Agents : \A m \in Direct \cap got[a], k \in Direct \cap Elements(inbox[a]) :
        Before(accepted, m, k)

OrderInv == TypeOK /\ DirectWasAccepted /\ InboxOrder /\ HandedFirst /\ DirectFifo

-------------------------------------------------------------------------------
(* Sequences *)

\* The elements of a sequence after one more is appended.
LEMMA AppendElements ==
    ASSUME NEW S, NEW q \in Seq(S), NEW e \in S
    PROVE  /\ Append(q, e) \in Seq(S)
           /\ Len(Append(q, e)) = Len(q) + 1
           /\ \A i \in 1..Len(q) : Append(q, e)[i] = q[i]
           /\ Append(q, e)[Len(q) + 1] = e
           /\ Elements(Append(q, e)) = Elements(q) \cup {e}
  <1>1. /\ Append(q, e) \in Seq(S)
        /\ Len(Append(q, e)) = Len(q) + 1
        /\ \A i \in 1..Len(q) : Append(q, e)[i] = q[i]
        /\ Append(q, e)[Len(q) + 1] = e
    BY AppendProperties
  <1>2. Len(q) \in Nat
    BY LenProperties
  <1>3. 1..(Len(q) + 1) = (1..Len(q)) \cup {Len(q) + 1}
    BY <1>2
  <1>4. Elements(Append(q, e)) = Elements(q) \cup {e}
    BY <1>1, <1>2, <1>3 DEF Elements
  <1> QED BY <1>1, <1>4

\* What stays of a sequence after n elements are taken from its front.
LEMMA DropElements ==
    ASSUME NEW S, NEW q \in Seq(S), NEW n \in 1..Len(q)
    PROVE  /\ SubSeq(q, n + 1, Len(q)) \in Seq(S)
           /\ Len(SubSeq(q, n + 1, Len(q))) = Len(q) - n
           /\ \A i \in 1..(Len(q) - n) : SubSeq(q, n + 1, Len(q))[i] = q[n + i]
           /\ Elements(SubSeq(q, n + 1, Len(q))) \subseteq Elements(q)
  <1> DEFINE rest == SubSeq(q, n + 1, Len(q))
  <1>1. Len(q) \in Nat
    BY LenProperties
  <1>2. \A i \in (n + 1)..Len(q) : q[i] \in S
    BY <1>1, ElementOfSeq
  <1>3. rest \in Seq(S) /\ Len(rest) = Len(q) - n
    BY <1>1, <1>2, SubSeqProperties
  <1>4. \A i \in 1..(Len(q) - n) : rest[i] = q[n + i]
    BY <1>1, <1>2, SubSeqProperties
  <1>5. Elements(rest) \subseteq Elements(q)
    BY <1>1, <1>3, <1>4 DEF Elements
  <1> QED BY <1>3, <1>4, <1>5

-------------------------------------------------------------------------------
(* Type correctness *)

\* An inbox whose capacity send tests before it appends stays within it.
LEMMA EnqueuedTyped ==
    ASSUME TypeOK, NEW m \in Ids, NEW who \in SUBSET Agents,
           \A a \in who : ~Full(a), Enqueued(m, who)
    PROVE  /\ inbox' \in [Agents -> Seq(Ids)]
           /\ \A a \in Agents : Len(inbox'[a]) <= QueueLimit
  <1>1. ASSUME NEW a \in Agents
        PROVE  inbox'[a] \in Seq(Ids) /\ Len(inbox'[a]) <= QueueLimit
    <2>1. inbox[a] \in Seq(Ids) /\ Len(inbox[a]) \in Nat /\ Len(inbox[a]) <= QueueLimit
      BY LenProperties DEF TypeOK
    <2>2. CASE a \in who
      <3>1. inbox'[a] = Append(inbox[a], m)
        BY <2>2 DEF Enqueued
      <3>2. Len(inbox[a]) < QueueLimit
        BY <2>1, <2>2, LimitsAssumption DEF Full
      <3> QED BY <2>1, <3>1, <3>2, AppendElements, LimitsAssumption
    <2>3. CASE a \notin who
      BY <2>1, <2>3 DEF Enqueued
    <2> QED BY <2>2, <2>3
  <1>2. inbox' = [a \in Agents |-> inbox'[a]]
    BY DEF Enqueued
  <1> QED BY <1>1, <1>2

\* The recipients of a deliverable message are agents.
LEMMA RecipientsAreAgents ==
    ASSUME TypeOK, NEW m \in Ids, Verdict(m) = "deliver"
    PROVE  Recipients(m) \in SUBSET Agents
  <1>1. registered \subseteq Agents /\ KnownRecipient(m)
    BY DEF TypeOK, Verdict
  <1> QED BY <1>1 DEF KnownRecipient, Recipients

\* Init and every action keep the type invariant.
LEMMA TypeInductive ==
    /\ Init => TypeOK
    /\ TypeOK /\ [Next]_vars => TypeOK'
  <1>1. Init => TypeOK
    <2>1. SUFFICES ASSUME Init PROVE TypeOK
      OBVIOUS
    <2>2. <<>> \in Seq(Ids) /\ Len(<<>>) = 0
      BY EmptySeq
    <2>3. \A a \in Agents : inbox[a] = <<>>
      BY <2>1 DEF Init
    <2>4. inbox \in [Agents -> Seq(Ids)]
      BY <2>1, <2>2 DEF Init
    <2> QED BY <2>1, <2>2, <2>3, <2>4, LimitsAssumption DEF Init, TypeOK
  <1>2. ASSUME TypeOK, [Next]_vars
        PROVE  TypeOK'
    <2> USE <1>2 DEF TypeOK
    <2>1. ASSUME NEW a \in Agents, RegisterInstance(a)
          PROVE  TypeOK'
      BY <2>1 DEF RegisterInstance
    <2>2. ASSUME NEW m \in Ids, SendAccepted(m)
          PROVE  TypeOK'
      <3>1. /\ inbox' \in [Agents -> Seq(Ids)]
            /\ \A a \in Agents : Len(inbox'[a]) <= QueueLimit
        <4>1. \A a \in Recipients(m) : ~Full(a)
          BY <2>2 DEF SendAccepted, FullRecipients
        <4>2. Recipients(m) \in SUBSET Agents
          BY <2>2, RecipientsAreAgents DEF SendAccepted
        <4> QED BY <2>2, <4>1, <4>2, EnqueuedTyped DEF SendAccepted
      <3>2. /\ messages' \in [Ids -> Statuses \cup {Absent}]
            /\ stored' \in [Ids -> Statuses \cup {Absent}]
        BY <2>2 DEF SendAccepted, WithoutEvicted, Statuses
      <3>3. transcript' \in Seq(Ids)
        <4>1. transcript # <<>> => Tail(transcript) \in Seq(Ids)
          BY HeadTailProperties
        <4> QED BY <2>2, <4>1, AppendElements DEF SendAccepted, Trimmed, Evicted
      <3>4. accepted' \in Seq(Ids)
        BY <2>2, AppendElements DEF SendAccepted
      <3>5. idempotency' \in [Keys -> Ids \cup {NoId}]
        BY <2>2, EnvelopeAssumption DEF SendAccepted
      <3>6. /\ registered' \subseteq Agents /\ got' \in [Agents -> SUBSET Ids]
            /\ earlier' \in [Agents -> SUBSET (Ids \X Ids)]
        BY <2>2 DEF SendAccepted
      <3> QED BY <3>1, <3>2, <3>3, <3>4, <3>5, <3>6
    <2>3. ASSUME NEW m \in Ids, SendQueueFull(m)
          PROVE  TypeOK'
      <3> DEFINE who == {a \in Recipients(m) : \A f \in FullRecipients(m) : a < f}
      <3>1. who \in SUBSET Agents
        BY <2>3, RecipientsAreAgents DEF SendQueueFull
      <3>2. \A a \in who : ~Full(a)
        <4>1. ASSUME NEW a \in who, Full(a)
              PROVE  FALSE
          <5>1. a \in FullRecipients(m)
            BY <4>1 DEF FullRecipients
          <5>2. a < a /\ a \in Nat
            BY <3>1, <5>1, AgentsAssumption
          <5> QED BY <5>2
        <4> QED BY <4>1
      <3>3. Enqueued(m, who)
        BY <2>3 DEF SendQueueFull
      <3>4. /\ inbox' \in [Agents -> Seq(Ids)]
            /\ \A a \in Agents : Len(inbox'[a]) <= QueueLimit
        BY <3>1, <3>2, <3>3, EnqueuedTyped
      <3> QED BY <2>3, <3>4 DEF SendQueueFull
    <2>4. ASSUME NEW m \in Ids, SendAnswered(m)
          PROVE  TypeOK'
      BY <2>4 DEF SendAnswered, vars
    <2>5. ASSUME NEW a \in Agents, NEW n \in 1..QueueLimit, Receive(a, n)
          PROVE  TypeOK'
      <3>1. n \in 1..Len(inbox[a]) /\ inbox[a] \in Seq(Ids) /\ Len(inbox[a]) \in Nat
        BY <2>5, LenProperties DEF Receive
      <3> DEFINE rest == SubSeq(inbox[a], n + 1, Len(inbox[a]))
      <3>2. rest \in Seq(Ids) /\ Len(rest) <= QueueLimit
        BY <3>1, DropElements, LimitsAssumption
      <3>3. inbox' = [inbox EXCEPT ![a] = rest]
        BY <2>5 DEF Receive
      <3>4. /\ inbox' \in [Agents -> Seq(Ids)]
            /\ \A b \in Agents : Len(inbox'[b]) <= QueueLimit
        BY <3>2, <3>3
      <3>5. Returned(a, n) \in SUBSET Ids
        BY <3>1, ElementOfSeq DEF Returned, Popped
      <3>6. /\ messages' \in [Ids -> Statuses \cup {Absent}]
            /\ stored' \in [Ids -> Statuses \cup {Absent}]
        BY <2>5 DEF Receive, Delivered, Statuses
      <3>7. got' \in [Agents -> SUBSET Ids]
        BY <2>5, <3>5 DEF Receive, HandedOver
      <3>8. earlier' \in [Agents -> SUBSET (Ids \X Ids)]
        <4>1. (got[a] \X Returned(a, n)) \cup Together(a, Returned(a, n), 1..n) \subseteq Ids \X Ids
          BY <3>5 DEF Together
        <4> QED BY <2>5, <4>1 DEF Receive
      <3> QED BY <2>5, <3>4, <3>6, <3>7, <3>8 DEF Receive
    <2>6. ASSUME NEW m \in Ids, NEW st \in Acks, Acknowledge(m, st)
          PROVE  TypeOK'
      BY <2>6 DEF Acknowledge, Statuses
    <2>7. ASSUME NEW m \in Ids, FinishMessage(m)
          PROVE  TypeOK'
      BY <2>7 DEF FinishMessage, Statuses, Acks
    <2>8. CASE UNCHANGED vars
      BY <2>8 DEF vars
    <2> QED BY <2>1, <2>2, <2>3, <2>4, <2>5, <2>6, <2>7, <2>8 DEF Next
  <1> QED BY <1>1, <1>2

\* The variables of the bus keep their types; in particular no inbox ever holds
\* more than QueueLimit messages.
THEOREM TypeCorrect == Spec => []TypeOK
  <1> QED BY TypeInductive, PTL DEF Spec

-------------------------------------------------------------------------------
(* Acknowledgements *)

\* receive leaves every status alone but "queued".
THEOREM AckIsKept == Spec => AcknowledgementSticks
  <1> DEFINE Sticks == \A m \in Ids : messages[m] \in Acks => messages'[m] \in Acks \cup {Absent}
  <1>1. ASSUME TypeOK, [Next]_vars
        PROVE  [Sticks]_vars
    <2> SUFFICES ASSUME NEW x \in Ids, messages[x] \in Acks
                 PROVE  messages'[x] \in Acks \cup {Absent} \/ UNCHANGED vars
      OBVIOUS
    <2> USE <1>1 DEF TypeOK
    <2>1. ASSUME NEW a \in Agents, RegisterInstance(a)
          PROVE  messages'[x] \in Acks
      BY <2>1 DEF RegisterInstance
    <2>2. ASSUME NEW m \in Ids, SendAccepted(m)
          PROVE  messages'[x] \in Acks \cup {Absent}
      <3>1. messages[m] = Absent /\ Absent \notin Acks
        BY <2>2 DEF SendAccepted, Verdict, Absent, Acks
      <3>2. messages' = WithoutEvicted(messages, m) /\ x # m
        BY <2>2, <3>1 DEF SendAccepted
      <3> QED BY <3>2 DEF WithoutEvicted
    <2>3. ASSUME NEW m \in Ids, SendQueueFull(m) \/ SendAnswered(m)
          PROVE  messages'[x] \in Acks
      BY <2>3 DEF SendQueueFull, SendAnswered, vars
    <2>4. ASSUME NEW a \in Agents, NEW n \in 1..QueueLimit, Receive(a, n)
          PROVE  messages'[x] \in Acks
      BY <2>4 DEF Receive, Delivered, Acks
    <2>5. ASSUME NEW m \in Ids, NEW st \in Acks, Acknowledge(m, st)
          PROVE  messages'[x] \in Acks
      BY <2>5 DEF Acknowledge
    <2>6. ASSUME NEW m \in Ids, FinishMessage(m)
          PROVE  messages'[x] \in Acks
      BY <2>6 DEF FinishMessage, Acks
    <2> QED BY <1>1, <2>1, <2>2, <2>3, <2>4, <2>5, <2>6 DEF Next
  <1> QED BY <1>1, TypeCorrect, PTL DEF Spec, AcknowledgementSticks

-------------------------------------------------------------------------------
(* Keys and deliveries *)

\* What a deliverable message tells: its key is free, so neither an accepted
\* message carries that key nor has the message itself been enqueued before.
LEMMA FreshMessage ==
    ASSUME KeyInv, NEW m \in Ids, Verdict(m) = "deliver"
    PROVE  /\ idempotency[Key[m]] = NoId
           /\ \A i \in 1..Len(accepted) : Key[accepted[i]] # Key[m]
           /\ m \in Direct => \A a \in Agents : m \notin Elements(inbox[a]) \cup got[a]
  <1>1. idempotency[Key[m]] = NoId
    BY DEF Verdict
  <1>2. \A i \in 1..Len(accepted) : accepted[i] \in Ids
    BY ElementOfSeq DEF KeyInv, TypeOK
  <1>3. \A i \in 1..Len(accepted) : Key[accepted[i]] # Key[m]
    BY <1>1, <1>2, EnvelopeAssumption DEF KeyInv, AcceptedOwnsKey
  <1>4. ASSUME m \in Direct, NEW a \in Agents, m \in Elements(inbox[a]) \cup got[a]
        PROVE  FALSE
    BY <1>1, <1>4, EnvelopeAssumption DEF KeyInv, InFlightOwnsKey
  <1> QED BY <1>1, <1>3, <1>4

\* An action that leaves the inboxes, the history and the keys alone keeps KeyInv.
LEMMA KeyInvFrame ==
    ASSUME KeyInv, TypeOK', UNCHANGED <<idempotency, inbox, got, accepted>>
    PROVE  KeyInv'
  BY DEF KeyInv, AcceptedOwnsKey, AcceptedOncePerKey, InFlightOwnsKey, DirectAtMostOnce

\* A message that is accepted takes its free key, and reaches its inbox first.
LEMMA KeyInvAccepted ==
    ASSUME KeyInv, TypeOK', NEW m \in Ids, SendAccepted(m)
    PROVE  KeyInv'
  <1> DEFINE n == Len(accepted)
  <1>1. /\ idempotency[Key[m]] = NoId
        /\ \A i \in 1..n : Key[accepted[i]] # Key[m]
        /\ m \in Direct => \A a \in Agents : m \notin Elements(inbox[a]) \cup got[a]
    BY FreshMessage DEF SendAccepted
  <1>2. /\ n \in Nat
        /\ Len(accepted') = n + 1
        /\ \A i \in 1..n : accepted'[i] = accepted[i] /\ accepted[i] \in Ids
        /\ accepted'[n + 1] = m
    BY AppendElements, LenProperties, ElementOfSeq DEF SendAccepted, KeyInv, TypeOK
  <1>3. \A i \in 1..(n + 1) : i \in 1..n \/ i = n + 1
    BY <1>2
  <1>4. \A k \in Keys : idempotency'[k] = IF k = Key[m] THEN m ELSE idempotency[k]
    BY DEF SendAccepted, KeyInv, TypeOK
  <1>5. \A x \in Ids : Key[x] \in Keys
    BY EnvelopeAssumption
  <1>6. AcceptedOwnsKey'
    BY <1>1, <1>2, <1>3, <1>4, <1>5 DEF KeyInv, AcceptedOwnsKey
  <1>7. AcceptedOncePerKey'
    BY <1>1, <1>2, <1>3 DEF KeyInv, AcceptedOncePerKey
  <1>8. ASSUME NEW a \in Agents
        PROVE  \/ inbox'[a] = inbox[a]
               \/ /\ inbox'[a] = Append(inbox[a], m)
                  /\ Elements(inbox'[a]) = Elements(inbox[a]) \cup {m}
    BY AppendElements DEF SendAccepted, Enqueued, KeyInv, TypeOK
  <1>9. got' = got
    BY DEF SendAccepted
  <1>10. InFlightOwnsKey'
    <2> SUFFICES ASSUME NEW a \in Agents, NEW x \in Direct,
                        x \in Elements(inbox'[a]) \cup got'[a]
                 PROVE  idempotency'[Key[x]] = x
      BY DEF InFlightOwnsKey
    <2>1. x \in Ids
      BY DEF Direct
    <2>2. CASE x = m
      BY <1>4, <1>5, <2>1, <2>2
    <2>3. CASE x # m
      <3>1. x \in Elements(inbox[a]) \cup got[a]
        BY <1>8, <1>9, <2>3
      <3>2. idempotency[Key[x]] = x
        BY <3>1 DEF KeyInv, InFlightOwnsKey
      <3> QED BY <1>1, <1>4, <1>5, <2>1, <3>2, EnvelopeAssumption
    <2> QED BY <2>2, <2>3
  <1>11. DirectAtMostOnce'
    <2> SUFFICES ASSUME NEW a \in Agents
                 PROVE  /\ \A i, j \in 1..Len(inbox'[a]) :
                              inbox'[a][i] \in Direct /\ inbox'[a][i] = inbox'[a][j] => i = j
                        /\ Direct \cap Elements(inbox'[a]) \cap got'[a] = {}
      BY DEF DirectAtMostOnce
    <2>1. /\ \A i, j \in 1..Len(inbox[a]) :
                inbox[a][i] \in Direct /\ inbox[a][i] = inbox[a][j] => i = j
          /\ Direct \cap Elements(inbox[a]) \cap got[a] = {}
      BY DEF KeyInv, DirectAtMostOnce
    <2>2. CASE inbox'[a] = inbox[a]
      BY <1>9, <2>1, <2>2
    <2>3. CASE inbox'[a] = Append(inbox[a], m)
      <3>1. inbox[a] \in Seq(Ids) /\ Len(inbox[a]) \in Nat
        BY LenProperties DEF KeyInv, TypeOK
      <3>2. /\ Len(inbox'[a]) = Len(inbox[a]) + 1
            /\ \A i \in 1..Len(inbox[a]) : inbox'[a][i] = inbox[a][i]
            /\ inbox'[a][Len(inbox[a]) + 1] = m
            /\ Elements(inbox'[a]) = Elements(inbox[a]) \cup {m}
        BY <2>3, <3>1, AppendElements
      <3>3. m \in Direct => \A i \in 1..Len(inbox[a]) : inbox[a][i] # m
        BY <1>1 DEF Elements
      <3>4. \A i \in 1..Len(inbox'[a]) : i \in 1..Len(inbox[a]) \/ i = Len(inbox[a]) + 1
        BY <3>1, <3>2
      <3>5. \A i, j \in 1..Len(inbox'[a]) :
               inbox'[a][i] \in Direct /\ inbox'[a][i] = inbox'[a][j] => i = j
        BY <2>1, <3>2, <3>3, <3>4
      <3>6. Direct \cap Elements(inbox'[a]) \cap got'[a] = {}
        BY <1>1, <1>9, <2>1, <3>2
      <3> QED BY <3>5, <3>6
    <2> QED BY <1>8, <2>2, <2>3
  <1> QED BY <1>6, <1>7, <1>10, <1>11 DEF KeyInv

\* A refused direct message has one recipient, the full one, and so is left in
\* no inbox; only a broadcast can be.
LEMMA KeyInvQueueFull ==
    ASSUME KeyInv, TypeOK', NEW m \in Ids, SendQueueFull(m)
    PROVE  KeyInv'
  <1> DEFINE who == {a \in Recipients(m) : \A f \in FullRecipients(m) : a < f}
  <1>1. who \in SUBSET Agents /\ FullRecipients(m) # {} /\ FullRecipients(m) \subseteq Recipients(m)
    BY RecipientsAreAgents DEF SendQueueFull, FullRecipients, KeyInv
  <1>2. m \in Direct => who = {}
    <2>1. SUFFICES ASSUME m \in Direct PROVE who = {}
      OBVIOUS
    <2>2. Recipients(m) = {Recipient[m]} /\ Recipient[m] \in Nat
      BY <2>1, AgentsAssumption DEF Direct, Recipients, Endpoints
    <2>3. FullRecipients(m) = {Recipient[m]}
      BY <1>1, <2>2
    <2> QED BY <2>2, <2>3
  <1>3. ASSUME NEW a \in Agents
        PROVE  \/ inbox'[a] = inbox[a]
               \/ /\ m \notin Direct
                  /\ inbox'[a] = Append(inbox[a], m)
                  /\ Elements(inbox'[a]) = Elements(inbox[a]) \cup {m}
    BY <1>2, AppendElements DEF SendQueueFull, Enqueued, KeyInv, TypeOK
  <1>4. idempotency' = idempotency /\ got' = got /\ accepted' = accepted
    BY DEF SendQueueFull
  <1>5. AcceptedOwnsKey' /\ AcceptedOncePerKey'
    BY <1>4 DEF KeyInv, AcceptedOwnsKey, AcceptedOncePerKey
  <1>6. InFlightOwnsKey'
    BY <1>3, <1>4 DEF KeyInv, InFlightOwnsKey
  <1>7. DirectAtMostOnce'
    <2> SUFFICES ASSUME NEW a \in Agents
                 PROVE  /\ \A i, j \in 1..Len(inbox'[a]) :
                              inbox'[a][i] \in Direct /\ inbox'[a][i] = inbox'[a][j] => i = j
                        /\ Direct \cap Elements(inbox'[a]) \cap got'[a] = {}
      BY DEF DirectAtMostOnce
    <2>1. /\ \A i, j \in 1..Len(inbox[a]) :
                inbox[a][i] \in Direct /\ inbox[a][i] = inbox[a][j] => i = j
          /\ Direct \cap Elements(inbox[a]) \cap got[a] = {}
      BY DEF KeyInv, DirectAtMostOnce
    <2>2. CASE inbox'[a] = inbox[a]
      BY <1>4, <2>1, <2>2
    <2>3. CASE m \notin Direct /\ inbox'[a] = Append(inbox[a], m)
      <3>1. inbox[a] \in Seq(Ids) /\ Len(inbox[a]) \in Nat
        BY LenProperties DEF KeyInv, TypeOK
      <3>2. /\ Len(inbox'[a]) = Len(inbox[a]) + 1
            /\ \A i \in 1..Len(inbox[a]) : inbox'[a][i] = inbox[a][i]
            /\ inbox'[a][Len(inbox[a]) + 1] = m
            /\ Elements(inbox'[a]) = Elements(inbox[a]) \cup {m}
        BY <2>3, <3>1, AppendElements
      <3>3. \A i \in 1..Len(inbox'[a]) : i \in 1..Len(inbox[a]) \/ i = Len(inbox[a]) + 1
        BY <3>1, <3>2
      <3> QED BY <1>4, <2>1, <2>3, <3>2, <3>3
    <2> QED BY <1>3, <2>2, <2>3
  <1> QED BY <1>5, <1>6, <1>7 DEF KeyInv

\* receive moves what it hands over from the inbox to the history.
LEMMA KeyInvReceive ==
    ASSUME KeyInv, TypeOK', NEW a \in Agents, NEW n \in 1..QueueLimit, Receive(a, n)
    PROVE  KeyInv'
  <1> DEFINE q == inbox[a]
             rest == SubSeq(q, n + 1, Len(q))
  <1>1. n \in 1..Len(q) /\ q \in Seq(Ids) /\ Len(q) \in Nat
    BY LenProperties DEF Receive, KeyInv, TypeOK
  <1>2. /\ Len(rest) = Len(q) - n
        /\ \A i \in 1..(Len(q) - n) : rest[i] = q[n + i]
        /\ Elements(rest) \subseteq Elements(q)
    BY <1>1, DropElements
  <1>3. /\ inbox'[a] = rest
        /\ \A b \in Agents : b # a => inbox'[b] = inbox[b]
        /\ got'[a] = got[a] \cup Returned(a, n)
        /\ \A b \in Agents : b # a => got'[b] = got[b]
        /\ idempotency' = idempotency /\ accepted' = accepted
    BY DEF Receive, HandedOver, KeyInv, TypeOK
  <1>4. Returned(a, n) \subseteq Popped(a, n) /\ Popped(a, n) \subseteq Elements(q)
    BY <1>1 DEF Returned, Popped, Elements
  <1>5. AcceptedOwnsKey' /\ AcceptedOncePerKey'
    BY <1>3 DEF KeyInv, AcceptedOwnsKey, AcceptedOncePerKey
  <1>6. InFlightOwnsKey'
    <2> SUFFICES ASSUME NEW b \in Agents, NEW x \in Direct,
                        x \in Elements(inbox'[b]) \cup got'[b]
                 PROVE  idempotency[Key[x]] = x
      BY <1>3 DEF InFlightOwnsKey
    <2>1. x \in Elements(inbox[b]) \cup got[b]
      BY <1>2, <1>3, <1>4
    <2> QED BY <2>1 DEF KeyInv, InFlightOwnsKey
  <1>7. DirectAtMostOnce'
    <2>1. ASSUME NEW b \in Agents
          PROVE  /\ \A i, j \in 1..Len(inbox[b]) :
                       inbox[b][i] \in Direct /\ inbox[b][i] = inbox[b][j] => i = j
                 /\ Direct \cap Elements(inbox[b]) \cap got[b] = {}
      BY DEF KeyInv, DirectAtMostOnce
    <2>2. \A i, j \in 1..Len(rest) : rest[i] \in Direct /\ rest[i] = rest[j] => i = j
      <3> SUFFICES ASSUME NEW i \in 1..Len(rest), NEW j \in 1..Len(rest),
                          rest[i] \in Direct, rest[i] = rest[j]
                   PROVE  i = j
        OBVIOUS
      <3>1. n + i \in 1..Len(q) /\ n + j \in 1..Len(q) /\ q[n + i] = q[n + j]
        BY <1>1, <1>2
      <3>2. n + i = n + j
        BY <1>2, <2>1, <3>1
      <3> QED BY <1>1, <3>2
    <2>3. Direct \cap Elements(rest) \cap Popped(a, n) = {}
      <3> SUFFICES ASSUME NEW x \in Direct, x \in Elements(rest), x \in Popped(a, n)
                   PROVE  FALSE
        OBVIOUS
      <3>1. PICK i \in 1..Len(rest) : rest[i] = x
        BY DEF Elements
      <3>2. PICK j \in 1..n : q[j] = x
        BY DEF Popped
      <3>3. n + i \in 1..Len(q) /\ q[n + i] = x /\ j \in 1..Len(q)
        <4>1. i \in 1..(Len(q) - n)
          BY <1>2, <3>1
        <4>2. q[n + i] = x
          BY <1>2, <3>1, <4>1
        <4>3. n + i \in 1..Len(q) /\ j \in 1..Len(q)
          BY <1>1, <4>1
        <4> QED BY <4>2, <4>3
      <3>4. n + i = j
        BY <2>1, <3>2, <3>3
      <3> QED BY <1>1, <3>1, <3>2, <3>4
    <2>4. Direct \cap Elements(rest) \cap got'[a] = {}
      BY <1>2, <1>3, <1>4, <2>1, <2>3
    <2> QED BY <1>3, <2>1, <2>2, <2>4 DEF DirectAtMostOnce
  <1> QED BY <1>5, <1>6, <1>7 DEF KeyInv

\* Init establishes KeyInv and every action keeps it.
LEMMA KeyInvInductive ==
    /\ Init => KeyInv
    /\ KeyInv /\ [Next]_vars => KeyInv'
  <1>1. Init => KeyInv
    <2> SUFFICES ASSUME Init PROVE KeyInv
      OBVIOUS
    <2>1. TypeOK
      BY TypeInductive
    <2>2. /\ Len(accepted) = 0
          /\ \A a \in Agents : Len(inbox[a]) = 0 /\ got[a] = {}
      BY DEF Init
    <2> QED
      BY <2>1, <2>2
      DEF KeyInv, AcceptedOwnsKey, AcceptedOncePerKey, InFlightOwnsKey, DirectAtMostOnce, Elements
  <1>2. ASSUME KeyInv, [Next]_vars
        PROVE  KeyInv'
    <2>1. TypeOK'
      BY <1>2, TypeInductive DEF KeyInv
    <2> USE <1>2, <2>1
    <2>2. ASSUME NEW a \in Agents, RegisterInstance(a)
          PROVE  KeyInv'
      BY <2>2, KeyInvFrame DEF RegisterInstance
    <2>3. ASSUME NEW m \in Ids, SendAccepted(m)
          PROVE  KeyInv'
      BY <2>3, KeyInvAccepted
    <2>4. ASSUME NEW m \in Ids, SendQueueFull(m)
          PROVE  KeyInv'
      BY <2>4, KeyInvQueueFull
    <2>5. ASSUME NEW m \in Ids, SendAnswered(m)
          PROVE  KeyInv'
      BY <2>5, KeyInvFrame DEF SendAnswered, vars
    <2>6. ASSUME NEW a \in Agents, NEW n \in 1..QueueLimit, Receive(a, n)
          PROVE  KeyInv'
      BY <2>6, KeyInvReceive
    <2>7. ASSUME NEW m \in Ids, NEW st \in Acks, Acknowledge(m, st)
          PROVE  KeyInv'
      BY <2>7, KeyInvFrame DEF Acknowledge
    <2>8. ASSUME NEW m \in Ids, FinishMessage(m)
          PROVE  KeyInv'
      BY <2>8, KeyInvFrame DEF FinishMessage
    <2>9. CASE UNCHANGED vars
      BY <2>9, KeyInvFrame DEF vars
    <2> QED BY <2>2, <2>3, <2>4, <2>5, <2>6, <2>7, <2>8, <2>9 DEF Next
  <1> QED BY <1>1, <1>2

\* However often callers retry, send accepts one message for each key.
THEOREM KeysAreSpent == Spec => []AcceptedOncePerKey
  <1>1. KeyInv => AcceptedOncePerKey
    BY DEF KeyInv
  <1> QED BY <1>1, KeyInvInductive, PTL DEF Spec

\* No retry puts a direct message in an inbox twice, or back after receive.
THEOREM NoSecondDelivery == Spec => []DirectAtMostOnce
  <1>1. KeyInv => DirectAtMostOnce
    BY DEF KeyInv
  <1> QED BY <1>1, KeyInvInductive, PTL DEF Spec

-------------------------------------------------------------------------------
(* Inboxes *)

\* A message that is refused is direct and left nowhere, or goes to the end of some
\* inboxes.
LEMMA RefusedGoesNowhere ==
    ASSUME TypeOK, NEW m \in Ids, SendQueueFull(m), m \in Direct
    PROVE  inbox' = inbox
  <1> DEFINE who == {a \in Recipients(m) : \A f \in FullRecipients(m) : a < f}
  <1>1. Recipients(m) = {Recipient[m]} /\ Recipient[m] \in Nat
    BY AgentsAssumption DEF Direct, Recipients, Endpoints
  <1>2. FullRecipients(m) # {} /\ FullRecipients(m) \subseteq Recipients(m)
    BY DEF SendQueueFull, FullRecipients
  <1>3. FullRecipients(m) = {Recipient[m]}
    BY <1>1, <1>2
  <1>4. who = {}
    BY <1>1, <1>3
  <1>5. inbox' = [a \in Agents |-> inbox[a]]
    BY <1>4 DEF SendQueueFull, Enqueued
  <1> QED BY <1>5 DEF TypeOK

-------------------------------------------------------------------------------
(* Arrival *)

\* Messages stay where they are, or go on; none comes back to the map.
LEMMA ArrivalKept ==
    ASSUME DeliveryInv, accepted' = accepted,
           \A m \in Ids : messages'[m] # Absent => messages[m] # Absent,
           \A a \in Agents, m \in Ids : messages[m] # Absent /\ m \in Elements(inbox[a]) \cup got[a] =>
               m \in Elements(inbox'[a]) \cup got'[a]
    PROVE  AcceptedReachesRecipient'
  <1> SUFFICES ASSUME NEW i \in 1..Len(accepted),
                      accepted[i] \in Direct, messages'[accepted[i]] # Absent
               PROVE  accepted[i] \in Elements(inbox'[Recipient[accepted[i]]]) \cup got'[Recipient[accepted[i]]]
    BY DEF AcceptedReachesRecipient
  <1>1. accepted[i] \in Ids /\ Recipient[accepted[i]] \in Agents
    BY DEF Direct
  <1>2. messages[accepted[i]] # Absent
    BY <1>1
  <1>3. accepted[i] \in Elements(inbox[Recipient[accepted[i]]]) \cup got[Recipient[accepted[i]]]
    BY <1>2 DEF DeliveryInv, AcceptedReachesRecipient
  <1> QED BY <1>1, <1>2, <1>3

LEMMA DeliveryFrame ==
    ASSUME DeliveryInv, KeyInv', UNCHANGED <<inbox, got, accepted>>,
           \A m \in Ids : messages'[m] # Absent => messages[m] # Absent
    PROVE  DeliveryInv'
  BY ArrivalKept DEF DeliveryInv

-------------------------------------------------------------------------------
(* Steps *)

LEMMA DeliveryAccepted ==
    ASSUME DeliveryInv, KeyInv', NEW m \in Ids, SendAccepted(m)
    PROVE  DeliveryInv'
  <1> DEFINE n == Len(accepted)
  <1>1. /\ \A i \in 1..n : Key[accepted[i]] # Key[m]
        /\ m \in Direct => \A a \in Agents : m \notin Elements(inbox[a]) \cup got[a]
    BY FreshMessage DEF SendAccepted, DeliveryInv
  <1>2. /\ n \in Nat /\ Len(accepted') = n + 1
        /\ \A i \in 1..n : accepted'[i] = accepted[i] /\ accepted[i] \in Ids /\ accepted[i] # m
        /\ accepted'[n + 1] = m
        /\ \A i \in 1..Len(accepted') : i \in 1..n \/ i = n + 1
    BY <1>1, AppendElements, LenProperties, ElementOfSeq DEF SendAccepted, DeliveryInv, KeyInv, TypeOK
  <1>3. \A a \in Agents :
            /\ inbox[a] \in Seq(Ids)
            /\ inbox'[a] = IF a \in Recipients(m) THEN Append(inbox[a], m) ELSE inbox[a]
    BY DEF SendAccepted, Enqueued, DeliveryInv, KeyInv, TypeOK
  <1>4. got' = got
    BY DEF SendAccepted
  <1>5. AcceptedReachesRecipient'
    <2> SUFFICES ASSUME NEW i \in 1..Len(accepted'),
                        accepted'[i] \in Direct, messages'[accepted'[i]] # Absent
                 PROVE  LET x == accepted'[i]
                        IN x \in Elements(inbox'[Recipient[x]]) \cup got'[Recipient[x]]
      BY DEF AcceptedReachesRecipient
    <2>1. CASE i = n + 1
      <3>1. accepted'[i] = m /\ Recipient[m] \in Agents /\ Recipient[m] \in Recipients(m)
        BY <1>2, <2>1, AgentsAssumption DEF Direct, Recipients, Endpoints
      <3>2. inbox'[Recipient[m]] = Append(inbox[Recipient[m]], m)
        BY <1>3, <3>1
      <3> QED BY <1>3, <3>1, <3>2, AppendElements
    <2>2. CASE i \in 1..n
      <3> DEFINE x == accepted[i]
      <3>1. accepted'[i] = x /\ x \in Ids /\ x # m /\ x \in Direct /\ Recipient[x] \in Agents
        BY <1>2, <2>2 DEF Direct
      <3>2. messages[x] # Absent
        BY <3>1 DEF SendAccepted, WithoutEvicted
      <3>3. x \in Elements(inbox[Recipient[x]]) \cup got[Recipient[x]]
        BY <2>2, <3>1, <3>2 DEF DeliveryInv, AcceptedReachesRecipient
      <3>4. Elements(inbox[Recipient[x]]) \subseteq Elements(inbox'[Recipient[x]])
        BY <1>3, <3>1, AppendElements
      <3> QED BY <1>4, <3>1, <3>3, <3>4
    <2> QED BY <1>2, <2>1, <2>2
  <1> QED BY <1>5 DEF DeliveryInv

LEMMA DeliveryQueueFull ==
    ASSUME DeliveryInv, KeyInv', NEW m \in Ids, SendQueueFull(m)
    PROVE  DeliveryInv'
  <1>1. UNCHANGED <<messages, got, accepted>>
    BY DEF SendQueueFull
  <1>2. CASE m \in Direct
    BY <1>1, <1>2, RefusedGoesNowhere, DeliveryFrame DEF DeliveryInv, KeyInv
  <1>3. CASE m \notin Direct
    <2>1. \A a \in Agents : inbox'[a] \in {inbox[a], Append(inbox[a], m)} /\ inbox[a] \in Seq(Ids)
      BY DEF SendQueueFull, Enqueued, DeliveryInv, KeyInv, TypeOK
    <2>2. ASSUME NEW a \in Agents
          PROVE  Elements(inbox[a]) \subseteq Elements(inbox'[a])
      <3>1. CASE inbox'[a] = Append(inbox[a], m)
        BY <2>1, <3>1, AppendElements
      <3>2. CASE inbox'[a] = inbox[a]
        BY <3>2
      <3> QED BY <2>1, <3>1, <3>2
    <2>3. AcceptedReachesRecipient'
      BY <1>1, <2>2, ArrivalKept
    <2> QED BY <2>3 DEF DeliveryInv
  <1> QED BY <1>2, <1>3

\* receive hands over the front of the inbox, and of what goes nothing is lost but what
\* the transcript has forgotten.
LEMMA DeliveryReceive ==
    ASSUME DeliveryInv, KeyInv', NEW a \in Agents, NEW n \in 1..QueueLimit, Receive(a, n)
    PROVE  DeliveryInv'
  <1> DEFINE s == inbox[a]
             rest == SubSeq(s, n + 1, Len(s))
  <1>1. n \in 1..Len(s) /\ s \in Seq(Ids) /\ Len(s) \in Nat
    BY LenProperties DEF Receive, DeliveryInv, KeyInv, TypeOK
  <1>2. /\ Len(rest) = Len(s) - n
        /\ \A i \in 1..(Len(s) - n) : rest[i] = s[n + i]
    BY <1>1, DropElements
  <1>3. /\ inbox'[a] = rest
        /\ \A b \in Agents : b # a => inbox'[b] = inbox[b]
        /\ got'[a] = got[a] \cup Returned(a, n)
        /\ \A b \in Agents : b # a => got'[b] = got[b]
        /\ accepted' = accepted
    BY DEF Receive, HandedOver, DeliveryInv, KeyInv, TypeOK
  <1>4. \A m \in Ids : messages'[m] # Absent => messages[m] # Absent
    BY DEF Receive, Returned
  <1>5. ASSUME NEW b \in Agents, NEW m \in Ids,
               messages[m] # Absent, m \in Elements(inbox[b]) \cup got[b]
        PROVE  m \in Elements(inbox'[b]) \cup got'[b]
    <2>1. CASE b # a \/ m \in got[b]
      BY <1>3, <1>5, <2>1
    <2>2. CASE b = a /\ m \in Elements(s)
      <3>1. PICK i \in 1..Len(s) : s[i] = m
        BY <2>2 DEF Elements
      <3>2. CASE i \in 1..n
        <4>1. m \in Returned(a, n)
          BY <1>5, <3>1, <3>2 DEF Returned, Popped
        <4> QED BY <1>3, <2>2, <4>1
      <3>3. CASE i \notin 1..n
        <4>1. i - n \in 1..(Len(s) - n) /\ n + (i - n) = i
          BY <1>1, <3>1, <3>3
        <4>2. i - n \in 1..Len(rest) /\ rest[i - n] = m
          BY <1>2, <3>1, <4>1
        <4> HIDE DEF rest
        <4> QED BY <1>3, <2>2, <4>2 DEF Elements
      <3> QED BY <3>2, <3>3
    <2> QED BY <1>5, <2>1, <2>2
  <1>6. AcceptedReachesRecipient'
    BY <1>3, <1>4, <1>5, ArrivalKept
  <1> QED BY <1>6 DEF DeliveryInv

LEMMA DeliveryInductive ==
    /\ Init => DeliveryInv
    /\ DeliveryInv /\ [Next]_vars => DeliveryInv'
  <1>1. Init => DeliveryInv
    <2> SUFFICES ASSUME Init PROVE DeliveryInv
      OBVIOUS
    <2>1. KeyInv
      BY KeyInvInductive
    <2>2. Len(accepted) = 0 /\ \A a \in Agents : Len(inbox[a]) = 0
      BY DEF Init
    <2> QED BY <2>1, <2>2 DEF DeliveryInv, AcceptedReachesRecipient
  <1>2. ASSUME DeliveryInv, [Next]_vars
        PROVE  DeliveryInv'
    <2>1. KeyInv'
      BY <1>2, KeyInvInductive DEF DeliveryInv
    <2> USE <1>2, <2>1
    <2>2. ASSUME NEW a \in Agents, RegisterInstance(a)
          PROVE  DeliveryInv'
      BY <2>2, DeliveryFrame DEF RegisterInstance
    <2>3. ASSUME NEW m \in Ids, SendAccepted(m)
          PROVE  DeliveryInv'
      BY <2>3, DeliveryAccepted
    <2>4. ASSUME NEW m \in Ids, SendQueueFull(m)
          PROVE  DeliveryInv'
      BY <2>4, DeliveryQueueFull
    <2>5. ASSUME NEW m \in Ids, SendAnswered(m)
          PROVE  DeliveryInv'
      BY <2>5, DeliveryFrame DEF SendAnswered, vars
    <2>6. ASSUME NEW a \in Agents, NEW n \in 1..QueueLimit, Receive(a, n)
          PROVE  DeliveryInv'
      BY <2>6, DeliveryReceive
    <2>7. ASSUME NEW m \in Ids, NEW st \in Acks, Acknowledge(m, st)
          PROVE  DeliveryInv'
      BY <2>7, DeliveryFrame DEF Acknowledge, DeliveryInv, KeyInv, TypeOK
    <2>8. ASSUME NEW m \in Ids, FinishMessage(m)
          PROVE  DeliveryInv'
      BY <2>8, DeliveryFrame DEF FinishMessage, DeliveryInv, KeyInv, TypeOK
    <2>9. CASE UNCHANGED vars
      BY <2>9, DeliveryFrame DEF vars
    <2> QED BY <2>2, <2>3, <2>4, <2>5, <2>6, <2>7, <2>8, <2>9 DEF Next
  <1> QED BY <1>1, <1>2

-------------------------------------------------------------------------------
(* No accepted direct message is lost while the transcript holds it, for any number of    *)
(* agents, whatever is refused, evicted or acknowledged early (agent_bus.rs:466-574).     *)
THEOREM AcceptedArrives == Spec => []AcceptedReachesRecipient
  <1>1. DeliveryInv => AcceptedReachesRecipient
    BY DEF DeliveryInv
  <1> QED BY <1>1, DeliveryInductive, PTL DEF Spec

-------------------------------------------------------------------------------
(* Order *)

\* An action that leaves the inboxes and the histories alone keeps the order.
LEMMA OrderFrame ==
    ASSUME OrderInv, TypeOK', UNCHANGED <<inbox, got, earlier, accepted>>
    PROVE  OrderInv'
  <1>1. DirectWasAccepted'
    BY DEF OrderInv, DirectWasAccepted, Elements
  <1>2. InboxOrder'
    BY DEF OrderInv, InboxOrder, Before
  <1>3. HandedFirst'
    BY DEF OrderInv, HandedFirst, Before, Elements
  <1>4. DirectFifo'
    BY DEF OrderInv, DirectFifo, Before
  <1> QED BY <1>1, <1>2, <1>3, <1>4 DEF OrderInv

\* A broadcast that is refused is appended to some inboxes: no direct message moves.
LEMMA OrderQueueFull ==
    ASSUME OrderInv, TypeOK', NEW m \in Ids, SendQueueFull(m)
    PROVE  OrderInv'
  <1>1. UNCHANGED <<got, earlier, accepted>>
    BY DEF SendQueueFull
  <1>2. CASE m \in Direct
    BY <1>1, <1>2, RefusedGoesNowhere, OrderFrame DEF OrderInv
  <1>3. CASE m \notin Direct
    <2>1. ASSUME NEW a \in Agents
          PROVE  /\ \A i \in 1..Len(inbox'[a]) : inbox'[a][i] \in Direct =>
                        i \in 1..Len(inbox[a]) /\ inbox'[a][i] = inbox[a][i]
                 /\ Direct \cap Elements(inbox'[a]) \subseteq Elements(inbox[a])
      <3>1. inbox[a] \in Seq(Ids) /\ Len(inbox[a]) \in Nat
        BY LenProperties DEF OrderInv, TypeOK
      <3>2. inbox'[a] = inbox[a] \/ inbox'[a] = Append(inbox[a], m)
        BY DEF SendQueueFull, Enqueued
      <3>3. CASE inbox'[a] = Append(inbox[a], m)
        <4>1. /\ Len(inbox'[a]) = Len(inbox[a]) + 1
              /\ \A i \in 1..Len(inbox[a]) : inbox'[a][i] = inbox[a][i]
              /\ inbox'[a][Len(inbox[a]) + 1] = m
              /\ Elements(inbox'[a]) = Elements(inbox[a]) \cup {m}
          BY <3>1, <3>3, AppendElements
        <4>2. \A i \in 1..Len(inbox'[a]) : i \in 1..Len(inbox[a]) \/ i = Len(inbox[a]) + 1
          BY <3>1, <4>1
        <4> QED BY <1>3, <4>1, <4>2
      <3> QED BY <3>2, <3>3
    <2>2. DirectWasAccepted'
      BY <1>1, <2>1 DEF OrderInv, DirectWasAccepted
    <2>3. InboxOrder'
      BY <1>1, <2>1 DEF OrderInv, InboxOrder, Before
    <2>4. HandedFirst'
      BY <1>1, <2>1 DEF OrderInv, HandedFirst, Before
    <2>5. DirectFifo'
      BY <1>1 DEF OrderInv, DirectFifo, Before
    <2> QED BY <2>2, <2>3, <2>4, <2>5 DEF OrderInv
  <1> QED BY <1>2, <1>3

\* A message that is accepted comes behind all that were.
LEMMA OrderAccepted ==
    ASSUME OrderInv, TypeOK', NEW m \in Ids, SendAccepted(m)
    PROVE  OrderInv'
  <1> DEFINE n == Len(accepted)
  <1>1. /\ n \in Nat /\ Len(accepted') = n + 1
        /\ \A i \in 1..n : accepted'[i] = accepted[i]
        /\ accepted'[n + 1] = m
        /\ Elements(accepted') = Elements(accepted) \cup {m}
    BY AppendElements, LenProperties DEF SendAccepted, OrderInv, TypeOK
  <1>2. UNCHANGED <<got, earlier>>
    BY DEF SendAccepted
  <1>3. ASSUME NEW x, NEW y, Before(accepted, x, y)
        PROVE  Before(accepted', x, y)
    <2>1. PICK p \in 1..n, q \in 1..n : p < q /\ accepted[p] = x /\ accepted[q] = y
      BY <1>3 DEF Before
    <2>2. p \in 1..(n + 1) /\ q \in 1..(n + 1) /\ accepted'[p] = x /\ accepted'[q] = y
      BY <1>1, <2>1
    <2> QED BY <1>1, <2>1, <2>2 DEF Before
  <1>4. ASSUME NEW x \in Elements(accepted)
        PROVE  Before(accepted', x, m)
    <2>1. PICK p \in 1..n : accepted[p] = x
      BY DEF Elements
    <2>2. p < n + 1 /\ p \in 1..(n + 1) /\ n + 1 \in 1..(n + 1) /\ accepted'[p] = x
      BY <1>1, <2>1
    <2> QED BY <1>1, <2>2 DEF Before
  <1>5. ASSUME NEW a \in Agents
        PROVE  /\ \A i \in 1..Len(inbox'[a]) :
                     \/ i \in 1..Len(inbox[a]) /\ inbox'[a][i] = inbox[a][i]
                     \/ i = Len(inbox[a]) + 1 /\ inbox'[a][i] = m
               /\ Elements(inbox'[a]) \subseteq Elements(inbox[a]) \cup {m}
               /\ Len(inbox[a]) \in Nat
    <2>1. inbox[a] \in Seq(Ids) /\ Len(inbox[a]) \in Nat
      BY LenProperties DEF OrderInv, TypeOK
    <2>2. inbox'[a] = inbox[a] \/ inbox'[a] = Append(inbox[a], m)
      BY DEF SendAccepted, Enqueued
    <2>3. CASE inbox'[a] = Append(inbox[a], m)
      <3>1. /\ Len(inbox'[a]) = Len(inbox[a]) + 1
            /\ \A i \in 1..Len(inbox[a]) : inbox'[a][i] = inbox[a][i]
            /\ inbox'[a][Len(inbox[a]) + 1] = m
            /\ Elements(inbox'[a]) = Elements(inbox[a]) \cup {m}
        BY <2>1, <2>3, AppendElements
      <3>2. \A i \in 1..Len(inbox'[a]) : i \in 1..Len(inbox[a]) \/ i = Len(inbox[a]) + 1
        BY <2>1, <3>1
      <3> QED BY <2>1, <3>1, <3>2
    <2> QED BY <2>1, <2>2, <2>3
  <1>6. DirectWasAccepted'
    BY <1>1, <1>2, <1>5 DEF OrderInv, DirectWasAccepted
  <1>7. InboxOrder'
    <2> SUFFICES ASSUME NEW a \in Agents, NEW i \in 1..Len(inbox'[a]), NEW j \in 1..Len(inbox'[a]),
                        i < j, inbox'[a][i] \in Direct, inbox'[a][j] \in Direct
                 PROVE  Before(accepted', inbox'[a][i], inbox'[a][j])
      BY DEF InboxOrder
    <2>1. i \in 1..Len(inbox[a]) /\ inbox'[a][i] = inbox[a][i]
      BY <1>5
    <2>2. CASE j \in 1..Len(inbox[a]) /\ inbox'[a][j] = inbox[a][j]
      <3>1. Before(accepted, inbox[a][i], inbox[a][j])
        BY <2>1, <2>2 DEF OrderInv, InboxOrder
      <3> QED BY <1>3, <2>1, <2>2, <3>1
    <2>3. CASE inbox'[a][j] = m
      <3>1. inbox[a][i] \in Elements(accepted)
        BY <2>1 DEF OrderInv, DirectWasAccepted, Elements
      <3> QED BY <1>4, <2>1, <2>3, <3>1
    <2> QED BY <1>5, <2>2, <2>3
  <1>8. HandedFirst'
    <2> SUFFICES ASSUME NEW a \in Agents, NEW x \in Direct \cap got[a],
                        NEW y \in Direct \cap Elements(inbox'[a])
                 PROVE  Before(accepted', x, y)
      BY <1>2 DEF HandedFirst
    <2>1. CASE y \in Elements(inbox[a])
      BY <1>3, <2>1 DEF OrderInv, HandedFirst
    <2>2. CASE y = m
      BY <1>4, <2>2 DEF OrderInv, DirectWasAccepted
    <2> QED BY <1>5, <2>1, <2>2
  <1>9. DirectFifo'
    BY <1>2, <1>3 DEF OrderInv, DirectFifo
  <1> QED BY <1>6, <1>7, <1>8, <1>9 DEF OrderInv

\* receive takes the front of the inbox: what it hands over comes behind what was handed
\* over before and ahead of what stays.
LEMMA OrderReceive ==
    ASSUME OrderInv, TypeOK', NEW a \in Agents, NEW n \in 1..QueueLimit, Receive(a, n)
    PROVE  OrderInv'
  <1> DEFINE s == inbox[a]
             rest == SubSeq(s, n + 1, Len(s))
             ms == Returned(a, n)
  <1>1. n \in 1..Len(s) /\ s \in Seq(Ids) /\ Len(s) \in Nat
    BY LenProperties DEF Receive, OrderInv, TypeOK
  <1>2. /\ Len(rest) = Len(s) - n
        /\ \A i \in 1..(Len(s) - n) : rest[i] = s[n + i]
        /\ Elements(rest) \subseteq Elements(s)
    BY <1>1, DropElements
  <1>3. /\ inbox'[a] = rest
        /\ \A b \in Agents : b # a => inbox'[b] = inbox[b]
        /\ got'[a] = got[a] \cup ms
        /\ \A b \in Agents : b # a => got'[b] = got[b]
        /\ earlier'[a] = earlier[a] \cup (got[a] \X ms) \cup Together(a, ms, 1..n)
        /\ \A b \in Agents : b # a => earlier'[b] = earlier[b]
        /\ accepted' = accepted
    BY DEF Receive, HandedOver, OrderInv, TypeOK
  <1>4. ms \subseteq Elements(s) /\ \A x \in ms : \E i \in 1..n : s[i] = x
    BY <1>1 DEF Returned, Popped, Elements
  <1>5. \A x, y : Before(accepted, x, y) => Before(accepted', x, y)
    BY <1>3 DEF Before
  \* What stays of the inbox, with its place in it before.
  <1>6. ASSUME NEW j \in 1..Len(rest)
        PROVE  n + j \in 1..Len(s) /\ rest[j] = s[n + j] /\ n + j \in Nat
    BY <1>1, <1>2
  <1>7. \A i, j \in 1..Len(s) : i < j /\ s[i] \in Direct /\ s[j] \in Direct =>
            Before(accepted, s[i], s[j])
    BY DEF OrderInv, InboxOrder
  <1>8. DirectWasAccepted'
    BY <1>2, <1>3, <1>4 DEF OrderInv, DirectWasAccepted
  <1>9. InboxOrder'
    <2> SUFFICES ASSUME NEW b \in Agents, NEW i \in 1..Len(inbox'[b]), NEW j \in 1..Len(inbox'[b]),
                        i < j, inbox'[b][i] \in Direct, inbox'[b][j] \in Direct
                 PROVE  Before(accepted', inbox'[b][i], inbox'[b][j])
      BY DEF InboxOrder
    <2>1. CASE b # a
      <3>1. Before(accepted, inbox[b][i], inbox[b][j])
        BY <1>3, <2>1 DEF OrderInv, InboxOrder
      <3> QED BY <1>3, <2>1, <3>1 DEF Before
    <2>2. CASE b = a
      <3>1. i \in 1..Len(rest) /\ j \in 1..Len(rest)
        BY <1>3, <2>2
      <3> DEFINE u == n + i
                 v == n + j
      <3>2. u \in 1..Len(s) /\ v \in 1..Len(s) /\ u < v /\ rest[i] = s[u] /\ rest[j] = s[v]
        BY <1>1, <1>6, <3>1
      <3>3. s[u] \in Direct /\ s[v] \in Direct
        BY <1>3, <2>2, <3>2
      <3>4. Before(accepted, s[u], s[v])
        BY <1>7, <3>2, <3>3
      <3>5. inbox'[b][i] = s[u] /\ inbox'[b][j] = s[v]
        BY <1>3, <2>2, <3>2
      <3> HIDE DEF u, v
      <3> QED BY <1>3, <3>4, <3>5 DEF Before
    <2> QED BY <2>1, <2>2
  <1>10. HandedFirst'
    <2> SUFFICES ASSUME NEW b \in Agents, NEW x \in Direct \cap got'[b],
                        NEW y \in Direct \cap Elements(inbox'[b])
                 PROVE  Before(accepted, x, y)
      BY <1>5 DEF HandedFirst
    <2>1. CASE x \in got[b]
      <3>1. y \in Elements(inbox[b])
        BY <1>2, <1>3
      <3> QED BY <2>1, <3>1 DEF OrderInv, HandedFirst
    <2>2. CASE b = a /\ x \in ms
      <3>1. PICK i \in 1..n : s[i] = x
        BY <1>4, <2>2
      <3>2. PICK j \in 1..Len(rest) : rest[j] = y
        BY <1>3, <2>2 DEF Elements
      <3> DEFINE v == n + j
      <3>3. v \in 1..Len(s) /\ s[v] = y
        BY <1>6, <3>2
      <3>4. i \in 1..Len(s) /\ i < v
        <4>1. j \in Nat /\ j >= 1
          BY <1>1, <1>2, <3>2
        <4> QED BY <1>1, <3>1, <4>1
      <3> HIDE DEF v
      <3> QED BY <1>7, <3>1, <3>3, <3>4
    <2> QED BY <1>3, <2>1, <2>2
  <1>11. DirectFifo'
    <2> SUFFICES ASSUME NEW b \in Agents, NEW pair \in earlier'[b],
                        pair[1] \in Direct, pair[2] \in Direct
                 PROVE  Before(accepted, pair[1], pair[2])
      BY <1>3 DEF DirectFifo, Before
    <2>1. CASE pair \in earlier[b]
      BY <2>1 DEF OrderInv, DirectFifo
    <2>2. CASE b = a /\ pair \in got[a] \X ms
      <3>1. pair[1] \in Direct \cap got[a] /\ pair[2] \in Direct \cap Elements(s)
        BY <1>4, <2>2
      <3> QED BY <3>1 DEF OrderInv, HandedFirst
    <2>3. CASE b = a /\ pair \in Together(a, ms, 1..n)
      <3>1. PICK i \in 1..n, j \in 1..n : i < j /\ pair = <<s[i], s[j]>>
        BY <2>3 DEF Together
      <3>2. i \in 1..Len(s) /\ j \in 1..Len(s) /\ pair[1] = s[i] /\ pair[2] = s[j]
        BY <1>1, <3>1
      <3> QED BY <1>7, <3>1, <3>2
    <2> QED BY <1>3, <2>1, <2>2, <2>3
  <1> QED BY <1>8, <1>9, <1>10, <1>11 DEF OrderInv

LEMMA OrderInductive ==
    /\ Init => OrderInv
    /\ OrderInv /\ [Next]_vars => OrderInv'
  <1>1. Init => OrderInv
    <2> SUFFICES ASSUME Init PROVE OrderInv
      OBVIOUS
    <2>1. TypeOK
      BY TypeInductive
    <2>2. \A a \in Agents : Len(inbox[a]) = 0 /\ got[a] = {} /\ earlier[a] = {}
      BY DEF Init
    <2>3. \A a \in Agents : Elements(inbox[a]) = {}
      BY <2>2 DEF Elements
    <2>4. DirectWasAccepted /\ HandedFirst
      BY <2>2, <2>3 DEF DirectWasAccepted, HandedFirst
    <2>5. InboxOrder /\ DirectFifo
      BY <2>2 DEF InboxOrder, DirectFifo
    <2> QED BY <2>1, <2>4, <2>5 DEF OrderInv
  <1>2. ASSUME OrderInv, [Next]_vars
        PROVE  OrderInv'
    <2>1. TypeOK'
      BY <1>2, TypeInductive DEF OrderInv
    <2> USE <1>2, <2>1
    <2>2. ASSUME NEW a \in Agents, RegisterInstance(a)
          PROVE  OrderInv'
      BY <2>2, OrderFrame DEF RegisterInstance
    <2>3. ASSUME NEW m \in Ids, SendAccepted(m)
          PROVE  OrderInv'
      BY <2>3, OrderAccepted
    <2>4. ASSUME NEW m \in Ids, SendQueueFull(m)
          PROVE  OrderInv'
      BY <2>4, OrderQueueFull
    <2>5. ASSUME NEW m \in Ids, SendAnswered(m)
          PROVE  OrderInv'
      BY <2>5, OrderFrame DEF SendAnswered, vars
    <2>6. ASSUME NEW a \in Agents, NEW n \in 1..QueueLimit, Receive(a, n)
          PROVE  OrderInv'
      BY <2>6, OrderReceive
    <2>7. ASSUME NEW m \in Ids, NEW st \in Acks, Acknowledge(m, st)
          PROVE  OrderInv'
      BY <2>7, OrderFrame DEF Acknowledge
    <2>8. ASSUME NEW m \in Ids, FinishMessage(m)
          PROVE  OrderInv'
      BY <2>8, OrderFrame DEF FinishMessage
    <2>9. CASE UNCHANGED vars
      BY <2>9, OrderFrame DEF vars
    <2> QED BY <2>2, <2>3, <2>4, <2>5, <2>6, <2>7, <2>8, <2>9 DEF Next
  <1> QED BY <1>1, <1>2

\* receive hands an agent its direct messages in the order in which send accepted them,
\* across retries, refusals and evictions (agent_bus.rs:507-547).
THEOREM InOrder == Spec => []DirectFifo
  <1>1. OrderInv => DirectFifo
    BY DEF OrderInv
  <1> QED BY <1>1, OrderInductive, PTL DEF Spec

-------------------------------------------------------------------------------
(* The transcript *)

\* What TranscriptIsRecent says of one step of another method: nothing that it speaks
\* of changes, but for the status of a message that is present.
LEMMA TranscriptFrame ==
    ASSUME TranscriptIsRecent, UNCHANGED <<transcript, accepted>>,
           \A x \in Ids : messages'[x] # Absent <=> messages[x] # Absent,
           \A x \in Ids : stored'[x] # Absent <=> stored[x] # Absent
    PROVE  TranscriptIsRecent'
  <1>1. /\ {x \in Ids : messages'[x] # Absent} = {x \in Ids : messages[x] # Absent}
        /\ {x \in Ids : stored'[x] # Absent} = {x \in Ids : stored[x] # Absent}
    OBVIOUS
  <1> QED BY <1>1 DEF TranscriptIsRecent, Elements

\* The transcript is a part of what was accepted, so no message is in it twice.
LEMMA TranscriptIsDistinct ==
    ASSUME KeyInv, TranscriptIsRecent
    PROVE  /\ Len(transcript) \in Nat /\ Len(accepted) \in Nat
           /\ \A i, j \in 1..Len(transcript) : transcript[i] = transcript[j] => i = j
  <1>1. Len(transcript) \in Nat /\ Len(accepted) \in Nat
    BY LenProperties DEF KeyInv, TypeOK
  <1>2. ASSUME NEW i \in 1..Len(transcript), NEW j \in 1..Len(transcript), transcript[i] = transcript[j]
        PROVE  i = j
    <2> DEFINE p == Len(accepted) - Len(transcript) + i
               q == Len(accepted) - Len(transcript) + j
    <2>1. p \in 1..Len(accepted) /\ q \in 1..Len(accepted)
      BY <1>1 DEF TranscriptIsRecent
    <2>2. accepted[p] = transcript[i] /\ accepted[q] = transcript[j]
      BY DEF TranscriptIsRecent
    <2>3. p = q
      BY <1>2, <2>1, <2>2 DEF KeyInv, AcceptedOncePerKey
    <2> QED BY <1>1, <2>3
  <1> QED BY <1>1, <1>2

\* Accepting a message puts it last, and takes out the first one, which is the oldest,
\* exactly when the transcript is at its limit; the two maps follow.
LEMMA TranscriptAccepted ==
    ASSUME KeyInv, TranscriptIsRecent, NEW m \in Ids, SendAccepted(m)
    PROVE  TranscriptIsRecent'
  <1> DEFINE T == Len(transcript)
             A == Len(accepted)
             kept == IF Evicted = {} THEN transcript ELSE Tail(transcript)
  <1>1. transcript \in Seq(Ids) /\ accepted \in Seq(Ids)
    BY DEF KeyInv, TypeOK
  <1>2. /\ T \in Nat /\ A \in Nat /\ T <= A /\ T <= MessageLimit
        /\ \A i, j \in 1..T : transcript[i] = transcript[j] => i = j
    BY TranscriptIsDistinct DEF TranscriptIsRecent
  <1>3. /\ kept \in Seq(Ids) /\ Len(kept) + 1 <= MessageLimit /\ Len(kept) <= T
        /\ \A i \in 1..Len(kept) : kept[i] = transcript[T - Len(kept) + i]
        /\ Elements(kept) = Elements(transcript) \ Evicted
    <2>1. CASE Excess
      <3>1. T = MessageLimit /\ transcript # <<>>
        BY <1>1, <1>2, <2>1, LimitsAssumption, EmptySeq DEF Excess
      <3>2. Evicted = {transcript[1]} /\ kept = Tail(transcript)
        BY <1>1, <2>1, <3>1, HeadTailProperties DEF Evicted
      <3>3. /\ kept \in Seq(Ids) /\ Len(kept) = T - 1
            /\ \A i \in 1..(T - 1) : kept[i] = transcript[i + 1]
        BY <1>1, <1>2, <3>1, <3>2, HeadTailProperties
      <3>4. Elements(kept) = Elements(transcript) \ {transcript[1]}
        <4>1. ASSUME NEW x \in Elements(kept)
              PROVE  x \in Elements(transcript) \ {transcript[1]}
          <5>1. PICK i \in 1..(T - 1) : x = kept[i]
            BY <3>3 DEF Elements
          <5>2. x = transcript[i + 1] /\ i + 1 \in 1..T /\ i + 1 # 1 /\ 1 \in 1..T
            BY <1>2, <3>3, <5>1
          <5> QED BY <1>2, <5>2 DEF Elements
        <4>2. ASSUME NEW x \in Elements(transcript), x # transcript[1]
              PROVE  x \in Elements(kept)
          <5>1. PICK j \in 1..T : x = transcript[j]
            BY DEF Elements
          <5>2. j - 1 \in 1..(T - 1) /\ kept[j - 1] = transcript[(j - 1) + 1]
            BY <1>2, <3>3, <4>2, <5>1
          <5>3. (j - 1) + 1 = j
            BY <1>2
          <5>4. kept[j - 1] = x
            BY <5>1, <5>2, <5>3
          <5> QED BY <3>3, <5>2, <5>4 DEF Elements
        <4> QED BY <4>1, <4>2
      <3> HIDE DEF kept
      <3>5. \A i \in 1..Len(kept) : i \in 1..(T - 1) /\ T - Len(kept) + i = i + 1
        BY <1>2, <3>3
      <3>6. \A i \in 1..Len(kept) : kept[i] = transcript[T - Len(kept) + i]
        BY <3>3, <3>5
      <3>7. Len(kept) + 1 <= MessageLimit /\ Len(kept) <= T
        BY <1>2, <3>1, <3>3
      <3>8. Elements(kept) = Elements(transcript) \ Evicted
        BY <3>2, <3>4
      <3> QED BY <3>3, <3>6, <3>7, <3>8
    <2>2. CASE ~Excess
      <3>1. Evicted = {} /\ kept = transcript
        BY <2>2 DEF Evicted
      <3> QED BY <1>1, <1>2, <2>2, <3>1, LimitsAssumption DEF Excess
    <2> QED BY <2>1, <2>2
  <1>4. transcript' = Append(kept, m) /\ accepted' = Append(accepted, m)
    BY DEF SendAccepted, Trimmed
  <1> HIDE DEF kept
  <1>5. /\ Len(transcript') = Len(kept) + 1
        /\ \A i \in 1..Len(kept) : transcript'[i] = kept[i]
        /\ transcript'[Len(kept) + 1] = m
        /\ Elements(transcript') = Elements(kept) \cup {m}
    BY <1>3, <1>4, AppendElements
  <1>6. /\ Len(accepted') = A + 1
        /\ \A i \in 1..A : accepted'[i] = accepted[i]
        /\ accepted'[A + 1] = m
    BY <1>1, <1>4, AppendElements
  <1>7. Len(kept) \in Nat
    BY <1>3, LenProperties
  <1>8. \A i \in 1..Len(transcript') : transcript'[i] = accepted'[Len(accepted') - Len(transcript') + i]
    <2> SUFFICES ASSUME NEW i \in 1..Len(transcript')
                 PROVE  transcript'[i] = accepted'[Len(accepted') - Len(transcript') + i]
      OBVIOUS
    <2>1. Len(accepted') - Len(transcript') + i = A - Len(kept) + i
      BY <1>2, <1>5, <1>6, <1>7
    <2>2. CASE i = Len(kept) + 1
      BY <1>2, <1>5, <1>6, <1>7, <2>1, <2>2
    <2>3. CASE i # Len(kept) + 1
      <3>1. i \in 1..Len(kept)
        BY <1>5, <1>7, <2>3
      <3>2. T - Len(kept) + i \in 1..T /\ A - Len(kept) + i \in 1..A
        BY <1>2, <1>3, <1>7, <3>1
      <3>3. transcript'[i] = transcript[T - Len(kept) + i]
        BY <1>3, <1>5, <3>1
      <3>4. transcript[T - Len(kept) + i] = accepted[A - T + (T - Len(kept) + i)]
        BY <3>2 DEF TranscriptIsRecent
      <3>5. A - T + (T - Len(kept) + i) = A - Len(kept) + i
        BY <1>2, <1>7
      <3> QED BY <1>6, <2>1, <3>2, <3>3, <3>4, <3>5
    <2> QED BY <2>2, <2>3
  <1>9. ASSUME NEW f \in [Ids -> Statuses \cup {Absent}],
               {x \in Ids : f[x] # Absent} = Elements(transcript)
        PROVE  {x \in Ids : WithoutEvicted(f, m)[x] # Absent} = Elements(transcript')
    <2>1. \A x \in Ids : WithoutEvicted(f, m)[x] # Absent
                             <=> x = m \/ (x \notin Evicted /\ f[x] # Absent)
      BY DEF WithoutEvicted, Absent
    <2>2. Elements(transcript') \subseteq Ids
      BY <1>5, <1>3, <1>9
    <2> QED BY <1>3, <1>5, <1>9, <2>1, <2>2
  <1>10. /\ messages \in [Ids -> Statuses \cup {Absent}] /\ stored \in [Ids -> Statuses \cup {Absent}]
         /\ messages' = WithoutEvicted(messages, m) /\ stored' = WithoutEvicted(stored, m)
    BY DEF KeyInv, TypeOK, SendAccepted
  <1>11. /\ {x \in Ids : messages'[x] # Absent} = Elements(transcript')
         /\ {x \in Ids : stored'[x] # Absent} = Elements(transcript')
    BY <1>9, <1>10 DEF TranscriptIsRecent
  <1>12. Len(transcript') <= MessageLimit /\ Len(transcript') <= Len(accepted')
    BY <1>2, <1>3, <1>5, <1>6, <1>7, LimitsAssumption
  <1> QED BY <1>8, <1>11, <1>12 DEF TranscriptIsRecent

\* Together with KeyInv the statement is inductive.
LEMMA TranscriptInductive ==
    /\ Init => TranscriptIsRecent
    /\ KeyInv /\ TranscriptIsRecent /\ [Next]_vars => TranscriptIsRecent'
  <1>1. Init => TranscriptIsRecent
    <2> SUFFICES ASSUME Init PROVE TranscriptIsRecent
      OBVIOUS
    <2>1. Len(transcript) = 0 /\ Len(accepted) = 0 /\ Elements(transcript) = {}
      BY DEF Init, Elements
    <2> QED BY <2>1, LimitsAssumption DEF Init, TranscriptIsRecent
  <1>2. ASSUME KeyInv, TranscriptIsRecent, [Next]_vars
        PROVE  TranscriptIsRecent'
    <2> USE <1>2
    <2>1. /\ messages \in [Ids -> Statuses \cup {Absent}]
          /\ stored \in [Ids -> Statuses \cup {Absent}]
          /\ \A x \in Ids : messages[x] # Absent <=> stored[x] # Absent
      BY DEF KeyInv, TypeOK, TranscriptIsRecent
    <2>2. ASSUME NEW a \in Agents, RegisterInstance(a)
          PROVE  TranscriptIsRecent'
      BY <2>2, TranscriptFrame DEF RegisterInstance
    <2>3. ASSUME NEW m \in Ids, SendAccepted(m)
          PROVE  TranscriptIsRecent'
      BY <2>3, TranscriptAccepted
    <2>4. ASSUME NEW m \in Ids, SendQueueFull(m) \/ SendAnswered(m)
          PROVE  TranscriptIsRecent'
      BY <2>4, TranscriptFrame DEF SendQueueFull, SendAnswered, vars
    <2>5. ASSUME NEW a \in Agents, NEW n \in 1..QueueLimit, Receive(a, n)
          PROVE  TranscriptIsRecent'
      <3>1. UNCHANGED <<transcript, accepted>>
        BY <2>5 DEF Receive
      <3>2. \A x \in Ids : messages'[x] # Absent <=> messages[x] # Absent
        BY <2>1, <2>5 DEF Receive, Delivered, Absent
      <3>3. \A x \in Ids : stored'[x] # Absent <=> stored[x] # Absent
        BY <2>1, <2>5 DEF Receive, Delivered, Returned, Absent
      <3> QED BY <3>1, <3>2, <3>3, TranscriptFrame
    <2>6. ASSUME NEW m \in Ids, NEW st \in Acks, Acknowledge(m, st)
          PROVE  TranscriptIsRecent'
      BY <2>1, <2>6, TranscriptFrame DEF Acknowledge, Acks, Absent
    <2>7. ASSUME NEW m \in Ids, FinishMessage(m)
          PROVE  TranscriptIsRecent'
      BY <2>1, <2>7, TranscriptFrame DEF FinishMessage, Absent
    <2>8. CASE UNCHANGED vars
      BY <2>8, TranscriptFrame DEF vars
    <2> QED BY <2>2, <2>3, <2>4, <2>5, <2>6, <2>7, <2>8 DEF Next
  <1> QED BY <1>1, <1>2

(* The transcript is the last part of what send accepted, never above its limit, and the  *)
(* two maps of the bus hold exactly its messages (agent_bus.rs:481-505).                  *)
THEOREM RecentTranscript == Spec => []TranscriptIsRecent
  <1> QED BY TranscriptInductive, KeyInvInductive, PTL DEF Spec

-------------------------------------------------------------------------------
(* AgentIntervention: configuration revisions and directives *)

\* A non-empty set of natural numbers has a least element: of the intervals
\* 0..i, for i in the set and below some element t, one is minimal.
LEMMA LeastNatural ==
    ASSUME NEW T \in SUBSET Nat, T # {}
    PROVE  \E i \in T : \A j \in T : i <= j
  <1>1. PICK t \in T : TRUE
    OBVIOUS
  <1> DEFINE Below == {i \in T : i <= t}
             Up == 0..t
             Intervals == {0..i : i \in Below}
  <1>2. FiniteSubsetsOf(Up) = SUBSET Up
    <2>1. t \in Int
      OBVIOUS
    <2>2. IsFiniteSet(Up)
      BY <2>1, FS_Interval
    <2> QED BY <2>2, FS_FiniteSubsetsOfFinite
  <1>3. Intervals \subseteq SUBSET Up /\ Intervals # {}
    <2>1. t \in Below
      OBVIOUS
    <2>2. ASSUME NEW i \in Below PROVE 0..i \subseteq Up
      OBVIOUS
    <2> QED BY <2>1, <2>2
  <1>4. IsWellFoundedOn(StrictSubsetOrdering(Up), SUBSET Up)
    BY <1>2, FS_StrictSubsetOrderingWellFounded
  <1> HIDE DEF Intervals, Up
  <1>5. PICK x \in Intervals : \A y \in Intervals : ~(<<y, x>> \in StrictSubsetOrdering(Up))
    BY <1>3, <1>4, WFMin
  <1>6. PICK i \in Below : x = 0..i
    BY DEF Intervals
  <1>7. ASSUME NEW j \in T, j < i
        PROVE  FALSE
    <2>1. j \in Below /\ 0..j \in Intervals
      BY <1>7 DEF Intervals
    <2>2. 0..j \subseteq 0..i /\ i \in 0..i /\ i \notin 0..j
      BY <1>7
    <2>3. <<0..j, 0..i>> \in StrictSubsetOrdering(Up)
      BY <1>3, <1>6, <2>1, <2>2 DEF StrictSubsetOrdering
    <2> QED BY <1>5, <1>6, <2>1, <2>3
  <1> QED BY <1>7

-------------------------------------------------------------------------------
(* Revisions *)

Records == [rev : Nat, body : Bodies, status : RevisionStatus]

\* What the runner will take later is no older than what it takes now, and none
\* of it is older than the configuration in force: the three slots between
\* apply_config and mark_config_applied keep the order of the applications.
SlotsInOrder ==
    /\ \A c \in {offer, pending, taken} : c # NoConfig => config.rev <= c.rev
    /\ taken # NoConfig /\ pending # NoConfig => taken.rev <= pending.rev
    /\ taken # NoConfig /\ offer # NoConfig => taken.rev <= offer.rev
    /\ pending # NoConfig /\ offer # NoConfig => pending.rev <= offer.rev

\* The inductive invariant.
RevisionInv == InterventionTypeOK /\ OnItsWayIsKnown /\ SlotsInOrder

\* The lookup by number returns an entry of the history with that number.
LEMMA FirstIsKnown ==
    ASSUME InterventionTypeOK, NEW n, Known(n)
    PROVE  /\ First(n) \in 1..Len(revisions)
           /\ revisions[First(n)] \in Records
           /\ revisions[First(n)].rev = n
  <1> DEFINE T == {i \in 1..Len(revisions) : revisions[i].rev = n}
  <1>1. Len(revisions) \in Nat /\ \A i \in 1..Len(revisions) : revisions[i] \in Records
    BY LenProperties, ElementOfSeq DEF InterventionTypeOK, Records
  <1>2. T \in SUBSET Nat /\ T # {}
    BY <1>1 DEF Known
  <1>3. PICK i \in T : \A j \in T : i <= j
    BY <1>2, LeastNatural
  <1>4. \A j \in 1..(i - 1) : revisions[j].rev # n
    BY <1>1, <1>3
  <1>5. \E k \in 1..Len(revisions) :
           revisions[k].rev = n /\ \A j \in 1..(k - 1) : revisions[j].rev # n
    BY <1>3, <1>4
  <1>6. First(n) \in 1..Len(revisions) /\ revisions[First(n)].rev = n
    BY <1>5 DEF First
  <1> QED BY <1>1, <1>6

\* Changing the status of one entry keeps its number, the others, and the length.
LEMMA StatusChange ==
    ASSUME InterventionTypeOK, NEW i \in 1..Len(revisions), NEW st \in RevisionStatus,
           revisions' = [revisions EXCEPT ![i].status = st]
    PROVE  /\ revisions' \in Seq(Records)
           /\ Len(revisions') = Len(revisions)
           /\ \A j \in 1..Len(revisions) : revisions'[j].rev = revisions[j].rev
           /\ \A j \in 1..Len(revisions) :
                 revisions'[j].status = IF j = i THEN st ELSE revisions[j].status
  <1>1. revisions \in Seq(Records) /\ \A j \in 1..Len(revisions) : revisions[j] \in Records
    BY ElementOfSeq DEF InterventionTypeOK, Records
  <1> DEFINE e == [revisions[i] EXCEPT !.status = st]
  <1>2. e \in Records /\ e.rev = revisions[i].rev /\ e.status = st
    BY <1>1 DEF Records
  <1>3. revisions' = [revisions EXCEPT ![i] = e]
    OBVIOUS
  <1> HIDE DEF e
  <1>4. /\ [revisions EXCEPT ![i] = e] \in Seq(Records)
        /\ Len([revisions EXCEPT ![i] = e]) = Len(revisions)
        /\ \A j \in 1..Len(revisions) :
              [revisions EXCEPT ![i] = e][j] = IF j = i THEN e ELSE revisions[j]
    BY <1>1, <1>2, ExceptSeq
  <1> QED BY <1>2, <1>3, <1>4

\* A status change disturbs none of the claims about numbers.
LEMMA KnownAfterStatus ==
    ASSUME OnItsWayIsKnown, Len(revisions') = Len(revisions),
           \A j \in 1..Len(revisions) : revisions'[j].rev = revisions[j].rev
    PROVE  /\ \A n : Known(n)' <=> Known(n)
           /\ \A i, j \in 1..Len(revisions') : i < j => revisions'[i].rev <= revisions'[j].rev
           /\ \A i \in 1..Len(revisions') : revisions'[i].rev \in 1..(config.rev + 1)
  BY DEF OnItsWayIsKnown, Known

\* apply_config: the history after a new revision.
LEMMA Appended ==
    ASSUME InterventionTypeOK, NEW body, NEW expected, body \in Bodies, ApplyConfig(body, expected)
    PROVE  /\ revisions' \in Seq(Records)
           /\ Len(revisions') = Len(revisions) + 1
           /\ \A j \in 1..Len(revisions) :
                 /\ revisions'[j].rev = revisions[j].rev
                 /\ revisions'[j].status # "pending"
           /\ revisions'[Len(revisions) + 1].rev = config.rev + 1
           /\ offer' = [rev |-> config.rev + 1, body |-> body]
           /\ offer' \in Configs
  <1> DEFINE old == [i \in 1..Len(revisions) |-> Superseded(revisions[i])]
             new == [rev |-> config.rev + 1, body |-> body, status |-> "pending"]
  <1>1. /\ Len(revisions) \in Nat
        /\ \A j \in 1..Len(revisions) : revisions[j] \in Records
        /\ config.rev \in Nat
    BY LenProperties, ElementOfSeq DEF InterventionTypeOK, Records, Configs
  <1>2. \A j \in 1..Len(revisions) :
           /\ Superseded(revisions[j]) \in Records
           /\ Superseded(revisions[j]).rev = revisions[j].rev
           /\ Superseded(revisions[j]).status # "pending"
    BY <1>1 DEF Superseded, Records, RevisionStatus
  <1>3. old \in Seq(Records) /\ Len(old) = Len(revisions)
    BY <1>1, <1>2
  <1>4. new \in Records /\ new.rev = config.rev + 1
    BY <1>1 DEF Records, RevisionStatus
  <1>5. revisions' = Append(old, new) /\ offer' = [rev |-> config.rev + 1, body |-> body]
    BY DEF ApplyConfig, NextRevision
  <1>6. \A j \in 1..Len(revisions) : old[j] = Superseded(revisions[j])
    OBVIOUS
  <1> HIDE DEF old, new
  <1>7. /\ Append(old, new) \in Seq(Records)
        /\ Len(Append(old, new)) = Len(old) + 1
        /\ \A j \in 1..Len(old) : Append(old, new)[j] = old[j]
        /\ Append(old, new)[Len(old) + 1] = new
    BY <1>3, <1>4, AppendProperties
  <1>8. offer' \in Configs
    BY <1>1, <1>5 DEF Configs
  <1> QED BY <1>2, <1>3, <1>4, <1>5, <1>6, <1>7, <1>8

-------------------------------------------------------------------------------
(* Type correctness *)

\* InterventionInit and every action keep the type invariant.
LEMMA InterventionTypeInductive ==
    /\ InterventionInit => InterventionTypeOK
    /\ InterventionTypeOK /\ [InterventionNext]_interventionVars => InterventionTypeOK'
  <1>1. ASSUME InterventionInit PROVE InterventionTypeOK
    <2>1. <<>> \in Seq(Records)
      BY EmptySeq
    <2> QED BY <1>1, <2>1, InterventionAssumption DEF InterventionInit, InterventionTypeOK, Configs, Records
  <1>2. ASSUME InterventionTypeOK, [InterventionNext]_interventionVars
        PROVE  InterventionTypeOK'
    <2> USE <1>2
    <2>1. CASE StartActivation
      BY <2>1, InterventionAssumption DEF StartActivation, InterventionTypeOK, registry, Configs
    <2>2. CASE TakePending
      BY <2>2 DEF TakePending, InterventionTypeOK, registry
    <2>3. CASE MarkConfigApplied
      <3> DEFINE i == First(taken.rev)
      <3>1. i \in 1..Len(revisions) /\ revisions[i] \in Records
        BY <2>3, FirstIsKnown DEF MarkConfigApplied
      <3>2. revisions' \in Seq(Records)
        BY <2>3, <3>1, StatusChange DEF MarkConfigApplied, RevisionStatus
      <3>3. config' \in Configs /\ running' \in Configs
        BY <2>3, <3>1 DEF MarkConfigApplied, Configs, Records
      <3> QED BY <2>3, <3>2, <3>3 DEF MarkConfigApplied, InterventionTypeOK, Records
    <2>4. CASE DrainDirectives
      BY <2>4, InterventionAssumption DEF DrainDirectives, InterventionTypeOK, registry
    <2>5. CASE ModelAnswers \/ ActOnAnswer \/ NextIteration \/ EndActivation
      BY <2>5 DEF ModelAnswers, ActOnAnswer, NextIteration, EndActivation, InterventionTypeOK, registry
    <2>6. ASSUME NEW body \in Bodies, NEW n \in 0..MaxRevisions, ApplyConfig(body, n)
          PROVE  InterventionTypeOK'
      <3>1. revisions' \in Seq(Records) /\ offer' \in Configs
        BY <2>6, Appended
      <3> QED BY <2>6, <3>1 DEF ApplyConfig, InterventionTypeOK, Records, runner
    <2>7. CASE SetPendingConfig
      BY <2>7 DEF SetPendingConfig, InterventionTypeOK, registry, runner
    <2>8. ASSUME NEW n \in 1..MaxRevisions, RejectConfig(n)
          PROVE  InterventionTypeOK'
      <3>1. revisions' \in Seq(Records)
        BY <2>8, FirstIsKnown, StatusChange DEF RejectConfig, RevisionStatus
      <3> QED BY <2>8, <3>1 DEF RejectConfig, InterventionTypeOK, Records, runner
    <2>9. CASE QueueDirective
      BY <2>9, InterventionAssumption DEF QueueDirective, InterventionTypeOK, registry, runner
    <2>10. CASE UNCHANGED interventionVars
      BY <2>10 DEF interventionVars, InterventionTypeOK, registry, runner
    <2>11. ASSUME NEW body \in Bodies, NEW n \in 0..MaxRevisions, RefuseConfig(body, n)
           PROVE  InterventionTypeOK'
      BY <2>10, <2>11 DEF RefuseConfig
    <2> QED
      BY <2>1, <2>2, <2>3, <2>4, <2>5, <2>6, <2>7, <2>8, <2>9, <2>10, <2>11
      DEF InterventionNext, Runner, Commands
  <1> QED BY <1>1, <1>2

\* The variables keep their types; in particular the runner never starts to apply
\* an empty slot.
THEOREM InterventionTypeCorrect == InterventionSpec => []InterventionTypeOK
  <1> QED BY InterventionTypeInductive, PTL DEF InterventionSpec

-------------------------------------------------------------------------------
(* One pending revision *)

\* Only apply_config makes a revision pending, and it supersedes the others.
LEMMA NewestInductive ==
    /\ InterventionInit => OnlyNewestPending
    /\ InterventionTypeOK /\ OnlyNewestPending /\ [InterventionNext]_interventionVars => OnlyNewestPending'
  <1>1. InterventionInit => OnlyNewestPending
    BY DEF InterventionInit, OnlyNewestPending
  <1>2. ASSUME InterventionTypeOK, OnlyNewestPending, [InterventionNext]_interventionVars
        PROVE  OnlyNewestPending'
    <2> USE <1>2
    <2>1. ASSUME NEW i \in 1..Len(revisions), NEW st \in RevisionStatus \ {"pending"},
                 revisions' = [revisions EXCEPT ![i].status = st]
          PROVE  OnlyNewestPending'
      <3>1. /\ Len(revisions') = Len(revisions)
            /\ \A j \in 1..Len(revisions) :
                  revisions'[j].status = IF j = i THEN st ELSE revisions[j].status
        BY <2>1, StatusChange
      <3> QED BY <3>1 DEF OnlyNewestPending
    <2>2. CASE MarkConfigApplied
      <3>1. First(taken.rev) \in 1..Len(revisions)
        BY <2>2, FirstIsKnown DEF MarkConfigApplied
      <3>2. revisions' = [revisions EXCEPT ![First(taken.rev)].status = "applied"]
        BY <2>2 DEF MarkConfigApplied
      <3>3. "applied" \in RevisionStatus \ {"pending"}
        BY DEF RevisionStatus
      <3> QED BY <2>1, <3>1, <3>2, <3>3
    <2>3. ASSUME NEW n \in 1..MaxRevisions, RejectConfig(n)
          PROVE  OnlyNewestPending'
      <3>1. First(n) \in 1..Len(revisions)
        BY <2>3, FirstIsKnown DEF RejectConfig
      <3> QED BY <2>1, <2>3, <3>1 DEF RejectConfig, RevisionStatus
    <2>4. ASSUME NEW body \in Bodies, NEW n \in 0..MaxRevisions, ApplyConfig(body, n)
          PROVE  OnlyNewestPending'
      <3>1. /\ Len(revisions') = Len(revisions) + 1
            /\ \A j \in 1..Len(revisions) : revisions'[j].status # "pending"
            /\ Len(revisions) \in Nat
        BY <2>4, Appended, LenProperties DEF InterventionTypeOK
      <3>2. \A j \in 1..Len(revisions') : j \in 1..Len(revisions) \/ j = Len(revisions')
        BY <3>1
      <3> QED BY <3>1, <3>2 DEF OnlyNewestPending
    <2>5. CASE UNCHANGED revisions
      BY <2>5 DEF OnlyNewestPending
    <2> QED
      BY <2>2, <2>3, <2>4, <2>5
      DEF InterventionNext, Runner, Commands, StartActivation, TakePending, DrainDirectives, ModelAnswers,
          ActOnAnswer, NextIteration, EndActivation, SetPendingConfig, RefuseConfig,
          QueueDirective, registry, interventionVars
  <1> QED BY <1>1, <1>2

\* Whatever is applied, rejected and taken, and in any order, at most the newest
\* revision is pending.
THEOREM NewestPending == InterventionSpec => []OnlyNewestPending
  <1> QED BY InterventionTypeInductive, NewestInductive, PTL DEF InterventionSpec

-------------------------------------------------------------------------------
(* Numbers *)

\* InterventionInit establishes RevisionInv and every action keeps it.
LEMMA RevisionInductive ==
    /\ InterventionInit => RevisionInv
    /\ RevisionInv /\ [InterventionNext]_interventionVars => RevisionInv'
  <1>1. ASSUME InterventionInit PROVE RevisionInv
    <2>1. InterventionTypeOK
      BY <1>1, InterventionTypeInductive
    <2> QED BY <1>1, <2>1 DEF InterventionInit, RevisionInv, OnItsWayIsKnown, SlotsInOrder
  <1>2. ASSUME RevisionInv, [InterventionNext]_interventionVars
        PROVE  RevisionInv'
    <2>1. InterventionTypeOK /\ InterventionTypeOK'
      BY <1>2, InterventionTypeInductive DEF RevisionInv
    <2>2. config.rev \in Nat /\ Len(revisions) \in Nat
      BY <2>1, LenProperties DEF InterventionTypeOK, Configs
    <2>3. \A c \in {offer, pending, taken} : c # NoConfig => c.rev \in Nat
      BY <2>1 DEF InterventionTypeOK, Configs
    <2> USE <1>2 DEF RevisionInv
    <2>4. CASE MarkConfigApplied
      <3> DEFINE i == First(taken.rev)
      <3>1. i \in 1..Len(revisions) /\ revisions[i].rev = taken.rev /\ taken # NoConfig
        BY <2>1, <2>4, FirstIsKnown DEF MarkConfigApplied, InterventionTypeOK
      <3>2. revisions' = [revisions EXCEPT ![i].status = "applied"]
        BY <2>4 DEF MarkConfigApplied
      <3>3. /\ Len(revisions') = Len(revisions)
            /\ \A j \in 1..Len(revisions) : revisions'[j].rev = revisions[j].rev
        BY <2>1, <3>1, <3>2, StatusChange DEF RevisionStatus
      <3>4. /\ config'.rev = taken.rev /\ taken.rev \in Nat /\ config.rev <= taken.rev
            /\ taken' = NoConfig /\ UNCHANGED <<pending, offer>>
        BY <2>3, <2>4, <3>1 DEF MarkConfigApplied, SlotsInOrder
      <3>5. SlotsInOrder'
        BY <2>3, <3>1, <3>4 DEF SlotsInOrder
      <3>6. OnItsWayIsKnown'
        <4>1. \A n : Known(n)' <=> Known(n)
          BY <3>3, KnownAfterStatus
        <4>2. \A c \in {offer', pending', taken'} : c # NoConfig => Known(c.rev)'
          BY <3>4, <4>1 DEF OnItsWayIsKnown
        <4>3. \A j, k \in 1..Len(revisions') : j < k => revisions'[j].rev <= revisions'[k].rev
          BY <3>3, KnownAfterStatus
        <4>4. \A j \in 1..Len(revisions') : revisions'[j].rev \in 1..(config'.rev + 1)
          BY <2>2, <3>3, <3>4, KnownAfterStatus
        <4> QED BY <4>2, <4>3, <4>4 DEF OnItsWayIsKnown
      <3> QED BY <2>1, <3>5, <3>6
    <2>5. ASSUME NEW n \in 1..MaxRevisions, RejectConfig(n)
          PROVE  RevisionInv'
      <3>1. First(n) \in 1..Len(revisions)
        BY <2>1, <2>5, FirstIsKnown DEF RejectConfig
      <3>2. /\ Len(revisions') = Len(revisions)
            /\ \A j \in 1..Len(revisions) : revisions'[j].rev = revisions[j].rev
        BY <2>1, <2>5, <3>1, StatusChange DEF RejectConfig, RevisionStatus
      <3>3. UNCHANGED <<config, pending, offer, taken>>
        BY <2>5 DEF RejectConfig, runner
      <3>4. OnItsWayIsKnown'
        BY <3>2, <3>3, KnownAfterStatus DEF OnItsWayIsKnown
      <3> QED BY <2>1, <3>3, <3>4 DEF SlotsInOrder
    <2>6. ASSUME NEW body \in Bodies, NEW n \in 0..MaxRevisions, ApplyConfig(body, n)
          PROVE  RevisionInv'
      <3>1. /\ Len(revisions') = Len(revisions) + 1
            /\ \A j \in 1..Len(revisions) : revisions'[j].rev = revisions[j].rev
            /\ revisions'[Len(revisions) + 1].rev = config.rev + 1
            /\ offer'.rev = config.rev + 1
        BY <2>1, <2>6, Appended
      <3>2. offer = NoConfig /\ UNCHANGED <<config, pending, taken>>
        BY <2>6 DEF ApplyConfig, runner
      <3>3. \A j \in 1..Len(revisions') : j \in 1..Len(revisions) \/ j = Len(revisions) + 1
        BY <2>2, <3>1
      <3>4. \A m : Known(m) => Known(m)'
        BY <2>2, <3>1 DEF Known
      <3>5. \A j \in 1..Len(revisions) : revisions[j].rev \in 1..(config.rev + 1)
        BY DEF OnItsWayIsKnown
      <3>6. \A c \in {pending, taken} : c # NoConfig => c.rev <= config.rev + 1
        BY <3>5 DEF OnItsWayIsKnown, Known
      <3>7. SlotsInOrder'
        BY <2>2, <2>3, <3>1, <3>2, <3>6 DEF SlotsInOrder
      <3>8. \A c \in {offer', pending', taken'} : c # NoConfig => Known(c.rev)'
        <4>1. Known(config.rev + 1)'
          BY <2>2, <3>1, <3>2 DEF Known
        <4> QED BY <3>1, <3>2, <3>4, <4>1 DEF OnItsWayIsKnown
      <3>9. \A j, k \in 1..Len(revisions') : j < k => revisions'[j].rev <= revisions'[k].rev
        BY <2>2, <3>1, <3>3, <3>5 DEF OnItsWayIsKnown
      <3>10. \A j \in 1..Len(revisions') : revisions'[j].rev \in 1..(config'.rev + 1)
        BY <2>2, <3>1, <3>2, <3>3, <3>5
      <3> QED BY <2>1, <3>7, <3>8, <3>9, <3>10 DEF OnItsWayIsKnown
    <2>7. CASE TakePending
      <3>1. UNCHANGED <<config, revisions, offer>> /\ taken' = pending /\ pending' = NoConfig
        BY <2>7 DEF TakePending, registry
      <3>2. OnItsWayIsKnown'
        BY <3>1 DEF OnItsWayIsKnown, Known
      <3> QED BY <2>1, <3>1, <3>2 DEF SlotsInOrder
    <2>8. CASE SetPendingConfig
      <3>1. UNCHANGED <<config, revisions, taken>> /\ pending' = offer /\ offer' = NoConfig
        BY <2>8 DEF SetPendingConfig, registry, runner
      <3>2. OnItsWayIsKnown'
        BY <3>1 DEF OnItsWayIsKnown, Known
      <3> QED BY <2>1, <3>1, <3>2 DEF SlotsInOrder
    <2>9. CASE UNCHANGED <<config, revisions, pending, taken, offer>>
      BY <2>1, <2>9 DEF OnItsWayIsKnown, Known, SlotsInOrder
    <2> QED
      BY <2>4, <2>5, <2>6, <2>7, <2>8, <2>9
      DEF InterventionNext, Runner, Commands, StartActivation, DrainDirectives, ModelAnswers, ActOnAnswer,
          NextIteration, EndActivation, RefuseConfig, QueueDirective, registry, runner, interventionVars
  <1> QED BY <1>1, <1>2

\* mark_config_applied always finds the number it is given, and the numbers of the
\* history are in order.
THEOREM KnownOnItsWay == InterventionSpec => []OnItsWayIsKnown
  <1>1. RevisionInv => OnItsWayIsKnown
    BY DEF RevisionInv
  <1> QED BY <1>1, RevisionInductive, PTL DEF InterventionSpec

\* The configuration in force never gets an older number.
THEOREM NoFallBack == InterventionSpec => NeverFallsBack
  <1>1. ASSUME RevisionInv, [InterventionNext]_interventionVars
        PROVE  [config'.rev >= config.rev]_interventionVars
    <2>1. InterventionTypeOK /\ config.rev \in Nat
      BY <1>1 DEF RevisionInv, InterventionTypeOK, Configs
    <2>2. CASE MarkConfigApplied
      <3>1. revisions[First(taken.rev)].rev = taken.rev /\ taken # NoConfig
        BY <2>1, <2>2, FirstIsKnown DEF MarkConfigApplied, InterventionTypeOK
      <3>2. config'.rev = taken.rev /\ taken.rev \in Nat /\ config.rev <= taken.rev
        BY <1>1, <2>1, <2>2, <3>1
        DEF MarkConfigApplied, RevisionInv, SlotsInOrder, InterventionTypeOK, Configs
      <3> QED BY <2>1, <3>2
    <2>3. CASE UNCHANGED config
      BY <2>1, <2>3
    <2> QED
      BY <1>1, <2>2, <2>3
      DEF InterventionNext, Runner, Commands, StartActivation, TakePending, DrainDirectives, ModelAnswers,
          ActOnAnswer, NextIteration, EndActivation, ApplyConfig, SetPendingConfig, RejectConfig,
          RefuseConfig, QueueDirective, registry, interventionVars
  <1> QED BY <1>1, RevisionInductive, PTL DEF InterventionSpec, NeverFallsBack
===============================================================================
