---------------------------- MODULE AgentTurnProofs ----------------------------
(***************************************************************************)
(* Theorems about a turn of the standard agent: about Permissions, which   *)
(* asks before a tool runs, for any nodes, calls, targets and bounds, and  *)
(* about Conversation, which remembers what was said, for any prompts,     *)
(* limits, weights and numbers of calls and iterations.                    *)
(*                                                                         *)
(*   TypeCorrect              Spec => []TypeOK                             *)
(*   BrokerIsExact            Spec => []PendingIsAwaited                   *)
(*   GrantsAreFollowed        Spec => []GrantsFollowSwitch                 *)
(*   AgentsOnlyTighten        Spec => WidensOnlyAcrossSwitch               *)
(*   ConversationTyped        ConversationSpec => []ConversationTypeOK     *)
(*   TrimmingForgetsTheOldest ConversationSpec => []ContextIsRecent        *)
(*   CallsKeepTheirResults    ConversationSpec => []CallsAreAnswered       *)
(*   UntrimmedModelKnowsAll   ConversationSpec => []UntrimmedIsTold        *)
(***************************************************************************)
EXTENDS Permissions, Conversation, SequenceTheorems, WellFoundedInduction, TLAPS

-------------------------------------------------------------------------------
(* PERMISSIONS                                                             *)

\* A call that asks has numbered its prompt, and asks for something.
Asking == \A c \in Calls :
    /\ stage[c] # "idle" => target[c] \in Targets
    /\ stage[c] \in {"announced", "waiting"} => prompts[c] >= 1
    /\ stage[c] = "checking" => prompts[c] < MaxPrompts

\* The inductive invariant of the prompts.
BrokerInv == TypeOK /\ Asking /\ PendingIsAwaited

\* What is granted, or will be when a call wakes up.
Granted ==
    /\ approved \subseteq given \cup inFlight
    /\ \A c \in Calls : answer[c] = "approved" => Grant(c) \in given \cup inFlight
GrantInv == ~clearing => Granted

\* What an activation is about to store is no wider than what is in force, unless the user
\* switched since it was read.
Tighter(n) ==
    starting[n] # NotStarting =>
        /\ starting[n].at <= switches
        /\ starting[n].at = switches => Rank[starting[n].effective] <= Rank[ModeFor(n)]
StartInv == \A n \in Nodes : Tighter(n)

-------------------------------------------------------------------------------
(* The wait of a call *)

LEMMA InitHolds == Init => BrokerInv
  <1> SUFFICES ASSUME Init PROVE BrokerInv
    OBVIOUS
  <1>1. 0 \in 0..MaxPrompts /\ 0 \in 0..MaxSwitches
    BY CallsAssumption
  <1>2. /\ nodeMode \in [Nodes -> Modes \cup {NoMode}]
        /\ starting \in [Nodes -> {NotStarting}]
        /\ stage \in [Calls -> {"idle", "checking", "announced", "waiting"}]
        /\ target \in [Calls -> Targets \cup {NoTarget}]
        /\ judged \in [Calls -> Modes \cup {NoMode}]
        /\ prompts \in [Calls -> 0..MaxPrompts]
        /\ answer \in [Calls -> Decisions \cup {NoAnswer}]
    BY <1>1 DEF Init
  <1>3. TypeOK
    BY <1>1, <1>2 DEF Init, TypeOK
  <1>4. Asking /\ PendingIsAwaited
    BY DEF Init, Asking, PendingIsAwaited
  <1> QED BY <1>3, <1>4 DEF BrokerInv

\* A call is entered, or its prompt announced: nothing is pending for it before or after.
LEMMA ApproachKeeps ==
    ASSUME BrokerInv, NEW c \in Calls, stage[c] \in {"idle", "checking"},
           stage'[c] \in {"checking", "announced"},
           \A d \in Calls \ {c} : stage'[d] = stage[d] /\ prompts'[d] = prompts[d],
           UNCHANGED <<pending, answer>>
    PROVE  PendingIsAwaited'
  <1>1. answer[c] = NoAnswer
    BY DEF BrokerInv, PendingIsAwaited
  <1> QED BY <1>1 DEF BrokerInv, PendingIsAwaited

LEMMA EnterKeeps ==
    ASSUME BrokerInv, NEW c \in Calls, NEW t \in Targets, Enter(c, t)
    PROVE  BrokerInv'
  <1>1. ModeFor(NodeOfCall[c]) \in Modes
    BY CallsAssumption DEF BrokerInv, TypeOK, ModeFor
  <1>2. /\ stage[c] = "idle" /\ stage'[c] = "checking" /\ target'[c] = t
        /\ \A d \in Calls \ {c} : stage'[d] = stage[d] /\ target'[d] = target[d]
        /\ UNCHANGED <<prompts, pending, answer>> /\ prompts[c] < MaxPrompts
    BY DEF Enter, BrokerInv, TypeOK
  <1>3. TypeOK'
    BY <1>1 DEF Enter, BrokerInv, TypeOK, modes, history
  <1>4. Asking'
    BY <1>2 DEF BrokerInv, Asking
  <1>5. PendingIsAwaited'
    BY <1>2, ApproachKeeps
  <1> QED BY <1>3, <1>4, <1>5 DEF BrokerInv

\* A call leaves, and takes its request with it.
LEMMA LeavingKeeps ==
    ASSUME BrokerInv, NEW c \in Calls, stage[c] # "idle", Settle(c),
           pending' = pending \ {Request(c)}, approved' \subseteq Nodes \X Targets,
           UNCHANGED <<modes, prompts, open, cancelled, history>>
    PROVE  BrokerInv'
  <1>1. /\ stage'[c] = "idle" /\ answer'[c] = NoAnswer
        /\ \A d \in Calls \ {c} :
              stage'[d] = stage[d] /\ answer'[d] = answer[d] /\ target'[d] = target[d]
    BY DEF Settle, BrokerInv, TypeOK
  <1>2. TypeOK'
    BY DEF Settle, BrokerInv, TypeOK, modes, history
  <1>3. Asking'
    BY <1>1 DEF BrokerInv, Asking
  <1>4. PendingIsAwaited'
    <2>1. ASSUME NEW d \in Calls, NEW k \in 1..MaxPrompts
          PROVE  <<d, k>> \in pending' <=> stage'[d] = "waiting" /\ k = prompts'[d] /\ answer'[d] = NoAnswer
      <3>1. CASE d = c
        BY <1>1, <2>1, <3>1 DEF BrokerInv, PendingIsAwaited, Request
      <3>2. CASE d # c
        BY <1>1, <2>1, <3>2 DEF BrokerInv, PendingIsAwaited, Request
      <3> QED BY <3>1, <3>2
    <2>2. \A d \in Calls : answer'[d] # NoAnswer => stage'[d] = "waiting"
      BY <1>1 DEF BrokerInv, PendingIsAwaited
    <2> QED BY <2>1, <2>2 DEF PendingIsAwaited
  <1> QED BY <1>2, <1>3, <1>4 DEF BrokerInv

\* What is not waiting for an answer is not pending.
LEMMA NotPending ==
    ASSUME BrokerInv, NEW c \in Calls, stage[c] # "waiting" \/ answer[c] # NoAnswer
    PROVE  Request(c) \notin pending
  <1>1. prompts[c] \in 0..MaxPrompts /\ MaxPrompts \in Nat
    BY CallsAssumption DEF BrokerInv, TypeOK
  <1>2. Request(c) \in pending => prompts[c] \in 1..MaxPrompts
    BY DEF Request, BrokerInv, TypeOK
  <1> QED BY <1>1, <1>2 DEF Request, BrokerInv, PendingIsAwaited

LEMMA ServeKeeps ==
    ASSUME BrokerInv, NEW c \in Calls, Serve(c)
    PROVE  BrokerInv'
  <1>1. pending' = pending \ {Request(c)}
    BY NotPending DEF Serve
  <1>2. approved' \subseteq Nodes \X Targets
    BY DEF Serve, BrokerInv, TypeOK
  <1> QED BY <1>1, <1>2, LeavingKeeps DEF Serve

LEMMA AnnounceKeeps ==
    ASSUME BrokerInv, NEW c \in Calls, Announce(c)
    PROVE  BrokerInv'
  <1>1. /\ stage[c] = "checking" /\ stage'[c] = "announced" /\ prompts'[c] = prompts[c] + 1
        /\ prompts[c] \in Nat /\ prompts'[c] \in 1..MaxPrompts
        /\ UNCHANGED <<target, pending, answer>>
        /\ \A d \in Calls \ {c} : stage'[d] = stage[d] /\ prompts'[d] = prompts[d]
    BY CallsAssumption DEF Announce, BrokerInv, TypeOK, Asking
  <1>2. TypeOK'
    BY <1>1 DEF Announce, BrokerInv, TypeOK, modes, history
  <1>3. Asking'
    BY <1>1 DEF BrokerInv, Asking
  <1>4. PendingIsAwaited'
    BY <1>1, ApproachKeeps
  <1> QED BY <1>2, <1>3, <1>4 DEF BrokerInv

LEMMA EnrolKeeps ==
    ASSUME BrokerInv, NEW c \in Calls, Enrol(c)
    PROVE  BrokerInv'
  <1>1. /\ stage[c] = "announced" /\ stage'[c] = "waiting" /\ answer[c] = NoAnswer
        /\ prompts[c] \in 1..MaxPrompts
        /\ \A d \in Calls \ {c} : stage'[d] = stage[d]
    BY DEF Enrol, BrokerInv, TypeOK, Asking, PendingIsAwaited
  <1>2. TypeOK'
    BY <1>1 DEF Enrol, BrokerInv, TypeOK, modes, Request, history
  <1>3. Asking'
    BY <1>1 DEF Enrol, BrokerInv, Asking
  <1>4. PendingIsAwaited'
    <2>1. ASSUME NEW d \in Calls, NEW k \in 1..MaxPrompts
          PROVE  <<d, k>> \in pending' <=> stage'[d] = "waiting" /\ k = prompts'[d] /\ answer'[d] = NoAnswer
      <3>1. CASE d = c
        BY <1>1, <2>1, <3>1 DEF Enrol, BrokerInv, PendingIsAwaited, Request
      <3>2. CASE d # c
        BY <1>1, <2>1, <3>2 DEF Enrol, BrokerInv, PendingIsAwaited, Request
      <3> QED BY <3>1, <3>2
    <2>2. \A d \in Calls : answer'[d] # NoAnswer => stage'[d] = "waiting"
      BY <1>1 DEF Enrol, BrokerInv, PendingIsAwaited
    <2> QED BY <2>1, <2>2 DEF PendingIsAwaited
  <1> QED BY <1>2, <1>3, <1>4 DEF BrokerInv

\* An answer is heard only by the call that waits for it, and settles its request.
LEMMA RespondKeeps ==
    ASSUME BrokerInv, NEW c \in Calls, NEW k \in 1..MaxPrompts, NEW decision \in Decisions,
           Respond(c, k, decision)
    PROVE  BrokerInv'
  <1>1. decision # NoAnswer
    BY CallsAssumption
  <1>2. TypeOK'
    <2>1. stage[c] = "waiting" \/ <<c, k>> \notin pending
      BY DEF BrokerInv, PendingIsAwaited
    <2>2. <<c, k>> \in pending => Grant(c) \in Nodes \X Targets
      BY <2>1, CallsAssumption DEF Grant, BrokerInv, Asking
    <2> QED BY <2>2 DEF Respond, BrokerInv, TypeOK, modes
  <1>3. Asking'
    BY DEF Respond, BrokerInv, Asking
  <1>4. CASE <<c, k>> \notin pending
    <2>1. pending' = pending /\ UNCHANGED <<stage, prompts, answer>>
      BY <1>4 DEF Respond
    <2> QED BY <1>2, <1>3, <2>1 DEF BrokerInv, PendingIsAwaited
  <1>5. CASE <<c, k>> \in pending
    <2>1. stage[c] = "waiting" /\ k = prompts[c]
      BY <1>5 DEF BrokerInv, PendingIsAwaited
    <2>2. answer'[c] = decision /\ \A d \in Calls \ {c} : answer'[d] = answer[d]
      BY <1>5 DEF Respond, BrokerInv, TypeOK
    <2>3. pending' = pending \ {<<c, k>>} /\ UNCHANGED <<stage, prompts>>
      BY DEF Respond
    <2>4. ASSUME NEW d \in Calls, NEW j \in 1..MaxPrompts
          PROVE  <<d, j>> \in pending' <=> stage'[d] = "waiting" /\ j = prompts'[d] /\ answer'[d] = NoAnswer
      <3>1. CASE d = c
        BY <1>1, <2>1, <2>2, <2>3, <2>4, <3>1 DEF BrokerInv, PendingIsAwaited
      <3>2. CASE d # c
        BY <2>2, <2>3, <2>4, <3>2 DEF BrokerInv, PendingIsAwaited
      <3> QED BY <3>1, <3>2
    <2>5. \A d \in Calls : answer'[d] # NoAnswer => stage'[d] = "waiting"
      BY <2>1, <2>2, <2>3 DEF BrokerInv, PendingIsAwaited
    <2> QED BY <1>2, <1>3, <2>4, <2>5 DEF BrokerInv, PendingIsAwaited
  <1> QED BY <1>4, <1>5

\* An approval joins the cache for the node of the call that asked.
LEMMA TakeKeeps ==
    ASSUME BrokerInv, NEW c \in Calls, Take(c)
    PROVE  BrokerInv'
  <1>1. Request(c) \notin pending
    BY NotPending DEF Take
  <1>2. approved' \subseteq Nodes \X Targets
    BY CallsAssumption DEF Take, Grant, BrokerInv, TypeOK, Asking
  <1>3. pending' = pending \ {Request(c)}
    BY <1>1 DEF Take
  <1> QED BY <1>2, <1>3, LeavingKeeps DEF Take

-------------------------------------------------------------------------------
(* The modes, and the whole step *)

LEMMA ModeIsAMode == ASSUME TypeOK, NEW n \in Nodes PROVE ModeFor(n) \in Modes
  BY DEF TypeOK, ModeFor

LEMMA RanksAreNumbers == \A m \in Modes : Rank[m] \in Nat
  BY DEF Modes, Rank

\* What leaves the calls alone leaves their prompts in order.
LEMMA AskStays ==
    ASSUME BrokerInv, UNCHANGED ask, TypeOK'
    PROVE  BrokerInv'
  BY DEF ask, BrokerInv, Asking, PendingIsAwaited

LEMMA SetModeKeeps ==
    ASSUME BrokerInv, NEW m \in Modes, SetMode(m)
    PROVE  BrokerInv'
  <1>1. TypeOK'
    BY CallsAssumption DEF SetMode, ask, BrokerInv, TypeOK
  <1> QED BY <1>1, AskStays DEF SetMode

LEMMA ClearApprovalsKeeps ==
    ASSUME BrokerInv, ClearApprovals
    PROVE  BrokerInv'
  <1>1. \A c \in Calls : answer[c] = "approved" => Grant(c) \in Nodes \X Targets
    BY CallsAssumption DEF Decisions, Grant, BrokerInv, Asking, PendingIsAwaited
  <1>2. inFlight' \subseteq Nodes \X Targets
    BY <1>1 DEF ClearApprovals
  <1>3. TypeOK'
    BY <1>2 DEF ClearApprovals, ask, BrokerInv, TypeOK
  <1> QED BY <1>3, AskStays DEF ClearApprovals

\* What set_agent_mode has found when it has read.
Found(n, m) ==
    [effective |-> IF Rank[m] > Rank[ModeFor(n)] THEN ModeFor(n) ELSE m,
     tightened |-> (IF Rank[m] > Rank[ModeFor(n)] THEN ModeFor(n) ELSE m) # ModeFor(n),
     at |-> switches]

LEMMA FoundIs ==
    ASSUME BrokerInv, NEW n \in Nodes, NEW m \in Modes, ReadMode(n, m)
    PROVE  /\ starting' = [starting EXCEPT ![n] = Found(n, m)]
           /\ Found(n, m) \in [effective : Modes, tightened : BOOLEAN, at : 0..MaxSwitches]
           /\ Rank[Found(n, m).effective] <= Rank[ModeFor(n)]
  <1>1. ModeFor(n) \in Modes
    BY ModeIsAMode DEF BrokerInv
  <1>2. starting' = [starting EXCEPT ![n] = Found(n, m)]
    BY DEF ReadMode, Found
  <1>3. Found(n, m) \in [effective : Modes, tightened : BOOLEAN, at : 0..MaxSwitches]
    BY <1>1 DEF Found, BrokerInv, TypeOK
  <1>4. Rank[Found(n, m).effective] <= Rank[ModeFor(n)]
    BY <1>1, RanksAreNumbers DEF Found
  <1> QED BY <1>2, <1>3, <1>4

LEMMA ReadModeKeeps ==
    ASSUME BrokerInv, NEW n \in Nodes, NEW m \in Modes, ReadMode(n, m)
    PROVE  BrokerInv'
  <1>1. starting' \in [Nodes -> {NotStarting} \cup
                                [effective : Modes, tightened : BOOLEAN, at : 0..MaxSwitches]]
    BY FoundIs DEF BrokerInv, TypeOK
  <1>2. UNCHANGED <<mode, nodeMode, switches, clearing, approved, ask, cancelled, history>>
    BY DEF ReadMode
  <1>3. TypeOK'
    BY <1>1, <1>2 DEF ask, history, BrokerInv, TypeOK
  <1> QED BY <1>2, <1>3, AskStays

\* What is stored is one of the modes.
LEMMA StoredIs ==
    ASSUME BrokerInv, NEW n \in Nodes, StoreMode(n)
    PROVE  starting[n].effective \in Modes
  <1>1. starting[n] \in [effective : Modes, tightened : BOOLEAN, at : 0..MaxSwitches]
    BY DEF StoreMode, BrokerInv, TypeOK
  <1> QED BY <1>1

LEMMA StoreModeKeeps ==
    ASSUME BrokerInv, NEW n \in Nodes, StoreMode(n)
    PROVE  BrokerInv'
  <1>1. nodeMode' \in [Nodes -> Modes \cup {NoMode}]
    BY StoredIs DEF StoreMode, BrokerInv, TypeOK
  <1>2. approved' \subseteq approved
    BY DEF StoreMode
  <1>3. starting' \in [Nodes -> {NotStarting} \cup
                                [effective : Modes, tightened : BOOLEAN, at : 0..MaxSwitches]]
    BY DEF StoreMode, BrokerInv, TypeOK
  <1>4. UNCHANGED <<mode, switches, clearing, ask, cancelled, history>>
    BY DEF StoreMode
  <1>5. TypeOK'
    BY <1>1, <1>2, <1>3, <1>4 DEF ask, history, BrokerInv, TypeOK
  <1> QED BY <1>4, <1>5, AskStays

LEMMA StepKeeps == BrokerInv /\ [Next]_vars => BrokerInv'
  <1> SUFFICES ASSUME BrokerInv, [Next]_vars PROVE BrokerInv'
    OBVIOUS
  <1>1. ASSUME NEW c \in Calls, NEW t \in Targets, Enter(c, t) PROVE BrokerInv'
    BY <1>1, EnterKeeps
  <1>2. ASSUME NEW c \in Calls, Wake(c) PROVE BrokerInv'
    <2>1. CASE Enrol(c)
      BY <2>1, EnrolKeeps
    <2>2. CASE Take(c)
      BY <2>2, TakeKeeps
    <2>3. CASE TimeOut(c) \/ Abandon(c)
      <3>1. /\ stage[c] # "idle" /\ Settle(c) /\ pending' = pending \ {Request(c)}
            /\ UNCHANGED <<modes, approved, prompts, open, cancelled, history>>
        BY <2>3 DEF TimeOut, Abandon
      <3>2. approved' \subseteq Nodes \X Targets
        BY <3>1 DEF BrokerInv, TypeOK
      <3> QED BY <3>1, <3>2, LeavingKeeps
    <2>4. CASE Serve(c)
      BY <2>4, ServeKeeps
    <2>5. CASE Announce(c)
      BY <2>5, AnnounceKeeps
    <2> QED BY <1>2, <2>1, <2>2, <2>3, <2>4, <2>5 DEF Wake
  <1>3. ASSUME NEW n \in Nodes, NEW m \in Modes, ReadMode(n, m) PROVE BrokerInv'
    BY <1>3, ReadModeKeeps
  <1>4. ASSUME NEW n \in Nodes, StoreMode(n) PROVE BrokerInv'
    BY <1>4, StoreModeKeeps
  <1>5. CASE User
    <2>1. ASSUME NEW c \in Calls, NEW k \in 1..MaxPrompts, NEW decision \in Decisions,
                 Respond(c, k, decision)
          PROVE  BrokerInv'
      BY <2>1, RespondKeeps
    <2>2. ASSUME NEW m \in Modes, SetMode(m) PROVE BrokerInv'
      BY <2>2, SetModeKeeps
    <2>3. CASE ClearApprovals
      BY <2>3, ClearApprovalsKeeps
    <2>4. CASE Cancel
      <3>1. TypeOK'
        BY <2>4 DEF Cancel, modes, ask, history, BrokerInv, TypeOK
      <3> QED BY <2>4, <3>1, AskStays DEF Cancel
    <2> QED BY <1>5, <2>1, <2>2, <2>3, <2>4 DEF User
  <1>6. CASE UNCHANGED vars
    <2>1. TypeOK'
      BY <1>6 DEF vars, modes, ask, history, BrokerInv, TypeOK
    <2> QED BY <1>6, <2>1, AskStays DEF vars
  <1> QED BY <1>1, <1>2, <1>3, <1>4, <1>5, <1>6 DEF Next

LEMMA Reachable == Spec => []BrokerInv
  BY InitHolds, StepKeeps, PTL DEF Spec

-------------------------------------------------------------------------------
(* Grants *)

\* What changes no grant and no answer, and takes back nothing given.
LEMMA GrantsStay ==
    ASSUME GrantInv, clearing' = clearing, approved' \subseteq approved,
           given \subseteq given', inFlight' = inFlight,
           \A c \in Calls : answer'[c] = "approved" => answer[c] = "approved" /\ target'[c] = target[c]
    PROVE  GrantInv'
  BY DEF GrantInv, Granted, Grant

LEMMA GrantsSettle ==
    ASSUME BrokerInv, GrantInv, NEW c \in Calls, Settle(c), UNCHANGED <<modes, history>>,
           approved' \subseteq approved \cup (IF answer[c] = "approved" THEN {Grant(c)} ELSE {})
    PROVE  GrantInv'
  <1>1. /\ answer'[c] = NoAnswer
        /\ \A d \in Calls \ {c} : answer'[d] = answer[d] /\ target'[d] = target[d]
    BY DEF Settle, BrokerInv, TypeOK
  <1>2. NoAnswer # "approved"
    BY CallsAssumption DEF Decisions
  <1>3. UNCHANGED <<clearing, given, inFlight>>
    BY DEF modes, history
  <1> SUFFICES ASSUME ~clearing PROVE Granted'
    BY <1>3 DEF GrantInv
  <1>4. approved' \subseteq given \cup inFlight
    BY DEF GrantInv, Granted
  <1>5. \A d \in Calls : answer'[d] = "approved" => Grant(d)' \in given \cup inFlight
    BY <1>1, <1>2 DEF GrantInv, Granted, Grant
  <1> QED BY <1>3, <1>4, <1>5 DEF Granted

LEMMA GrantStep == BrokerInv /\ GrantInv /\ [Next]_vars => GrantInv'
  <1> SUFFICES ASSUME BrokerInv, GrantInv, [Next]_vars PROVE GrantInv'
    OBVIOUS
  <1>1. ASSUME NEW c \in Calls, NEW t \in Targets, Enter(c, t) PROVE GrantInv'
    <2>1. answer[c] = NoAnswer /\ NoAnswer # "approved"
      BY <1>1, CallsAssumption DEF Enter, Decisions, BrokerInv, PendingIsAwaited
    <2>2. \A d \in Calls \ {c} : target'[d] = target[d]
      BY <1>1 DEF Enter, BrokerInv, TypeOK
    <2>3. UNCHANGED <<clearing, approved, answer, given, inFlight>>
      BY <1>1 DEF Enter, modes, history
    <2> QED BY <2>1, <2>2, <2>3, GrantsStay
  <1>2. ASSUME NEW c \in Calls, Wake(c) PROVE GrantInv'
    <2>1. CASE Enrol(c) \/ Announce(c)
      BY <2>1, GrantsStay DEF Enrol, Announce, modes, history
    <2>2. CASE Take(c)
      BY <2>2, GrantsSettle DEF Take
    <2>3. CASE TimeOut(c) \/ Abandon(c) \/ Serve(c)
      BY <2>3, GrantsSettle DEF TimeOut, Abandon, Serve
    <2> QED BY <1>2, <2>1, <2>2, <2>3 DEF Wake
  <1>3. ASSUME NEW n \in Nodes, NEW m \in Modes, ReadMode(n, m) PROVE GrantInv'
    BY <1>3, GrantsStay DEF ReadMode, ask, history
  <1>4. ASSUME NEW n \in Nodes, StoreMode(n) PROVE GrantInv'
    BY <1>4, GrantsStay DEF StoreMode, ask, history
  <1>5. ASSUME NEW c \in Calls, NEW k \in 1..MaxPrompts, NEW decision \in Decisions,
               Respond(c, k, decision)
        PROVE  GrantInv'
    <2>1. UNCHANGED <<clearing, approved, target, inFlight>> /\ given \subseteq given'
      BY <1>5 DEF Respond, modes
    <2>2. CASE <<c, k>> \in pending /\ decision = "approved"
      <3>1. given' = given \cup {Grant(c)}
        BY <1>5, <2>2 DEF Respond
      <3>2. \A d \in Calls \ {c} : answer'[d] = answer[d]
        BY <1>5 DEF Respond, BrokerInv, TypeOK
      <3>3. ~clearing /\ Granted
        BY <1>5 DEF Respond, GrantInv
      <3> QED BY <2>1, <3>1, <3>2, <3>3 DEF GrantInv, Granted, Grant
    <2>3. CASE ~(<<c, k>> \in pending /\ decision = "approved")
      <3>1. \A d \in Calls : answer'[d] = "approved" => answer[d] = "approved"
        BY <1>5, <2>3 DEF Respond, BrokerInv, TypeOK
      <3> QED BY <2>1, <3>1, GrantsStay
    <2> QED BY <2>2, <2>3
  <1>6. ASSUME NEW m \in Modes, SetMode(m) PROVE GrantInv'
    BY <1>6 DEF SetMode, ask, GrantInv, Granted, Grant
  <1>7. CASE ClearApprovals
    <2>1. approved' = {} /\ answer' = answer /\ target' = target
      BY <1>7 DEF ClearApprovals, ask
    <2>2. \A c \in Calls : answer[c] = "approved" => Grant(c) \in inFlight'
      BY <1>7 DEF ClearApprovals
    <2> QED BY <2>1, <2>2 DEF GrantInv, Granted, Grant
  <1>8. CASE Cancel \/ UNCHANGED vars
    BY <1>8, GrantsStay DEF Cancel, vars, modes, ask, history
  <1> QED BY <1>1, <1>2, <1>3, <1>4, <1>5, <1>6, <1>7, <1>8 DEF Next, User

-------------------------------------------------------------------------------
(* Modes *)

\* A step that leaves the modes alone.
LEMMA ModesStay ==
    ASSUME BrokerInv, StartInv, UNCHANGED <<mode, nodeMode, switches, starting>>
    PROVE  StartInv' /\ \A n \in Nodes : ~Widens(n)
  <1>1. \A n \in Nodes : ModeFor(n)' = ModeFor(n) /\ Rank[ModeFor(n)] \in Nat
    BY ModeIsAMode, RanksAreNumbers DEF ModeFor, BrokerInv
  <1>2. UNCHANGED <<switches, starting>> /\ NotStarting' = NotStarting
    BY DEF NotStarting
  <1>3. StartInv'
    BY <1>1, <1>2 DEF StartInv, Tighter
  <1>4. \A n \in Nodes : ~Widens(n)
    BY <1>1 DEF Widens
  <1> QED BY <1>3, <1>4

\* No step widens what an agent may do, but a switch, or one whose activation read before it.
LEMMA ModeStep ==
    ASSUME BrokerInv, StartInv, Next
    PROVE  /\ StartInv'
           /\ \A n \in Nodes : Widens(n) =>
                  switches' = switches + 1 \/ (starting[n] # NotStarting /\ starting[n].at < switches)
  <1> DEFINE Allowed == \A n \in Nodes : Widens(n) =>
                  switches' = switches + 1 \/ (starting[n] # NotStarting /\ starting[n].at < switches)
  <1>0. /\ \A n \in Nodes : ModeFor(n) \in Modes /\ Rank[ModeFor(n)] \in Nat
        /\ switches \in Nat
        /\ \A n \in Nodes : starting[n] # NotStarting =>
              /\ starting[n] \in [effective : Modes, tightened : BOOLEAN, at : 0..MaxSwitches]
              /\ starting[n].at \in Nat /\ Rank[starting[n].effective] \in Nat
    BY ModeIsAMode, RanksAreNumbers, CallsAssumption DEF BrokerInv, TypeOK
  <1>1. ASSUME NEW m \in Modes, SetMode(m) PROVE StartInv' /\ Allowed
    <2>1. switches' = switches + 1 /\ starting' = starting
      BY <1>1 DEF SetMode
    <2>2. \A n \in Nodes : starting[n] # NotStarting => starting[n].at <= switches
      BY DEF StartInv, Tighter
    <2> QED BY <1>0, <2>1, <2>2 DEF StartInv, Tighter
  <1>2. ASSUME NEW a \in Nodes, NEW m \in Modes, ReadMode(a, m) PROVE StartInv' /\ Allowed
    <2>1. UNCHANGED <<mode, nodeMode, switches>>
      BY <1>2 DEF ReadMode
    <2>2. \A n \in Nodes : ModeFor(n)' = ModeFor(n)
      BY <2>1 DEF ModeFor
    <2>3. starting'[a] = Found(a, m) /\ \A n \in Nodes \ {a} : starting'[n] = starting[n]
      BY <1>2, FoundIs DEF BrokerInv, TypeOK
    <2>4. Found(a, m).at = switches /\ Rank[Found(a, m).effective] <= Rank[ModeFor(a)]
      BY <1>2, FoundIs DEF Found
    <2>5. NotStarting' = NotStarting
      BY DEF NotStarting
    <2> QED BY <1>0, <2>1, <2>2, <2>3, <2>4, <2>5 DEF StartInv, Tighter, Widens
  <1>3. ASSUME NEW a \in Nodes, StoreMode(a) PROVE StartInv' /\ Allowed
    <2>1. starting[a].effective \in Modes /\ starting[a] # NotStarting
      BY <1>3, StoredIs DEF StoreMode
    <2>2. UNCHANGED <<mode, switches>> /\ nodeMode' = [nodeMode EXCEPT ![a] = starting[a].effective]
      BY <1>3 DEF StoreMode
    <2>3. starting'[a] = NotStarting /\ \A n \in Nodes \ {a} : starting'[n] = starting[n]
      BY <1>3 DEF StoreMode, BrokerInv, TypeOK
    <2>4. ModeFor(a)' = starting[a].effective
      BY <2>1, <2>2, CallsAssumption DEF ModeFor, BrokerInv, TypeOK
    <2>5. \A n \in Nodes \ {a} : ModeFor(n)' = ModeFor(n)
      BY <2>2 DEF ModeFor, BrokerInv, TypeOK
    <2>6. starting[a].at <= switches /\ (starting[a].at = switches =>
                                            Rank[starting[a].effective] <= Rank[ModeFor(a)])
      BY <2>1 DEF StartInv, Tighter
    <2>7. NotStarting' = NotStarting
      BY DEF NotStarting
    <2>8. StartInv'
      BY <2>2, <2>3, <2>5, <2>7 DEF StartInv, Tighter
    <2>9. Widens(a) => starting[a].at < switches
      BY <1>0, <2>1, <2>4, <2>6 DEF Widens
    <2>10. \A n \in Nodes \ {a} : ~Widens(n)
      BY <1>0, <2>5 DEF Widens
    <2> QED BY <2>1, <2>8, <2>9, <2>10
  <1>4. ASSUME NEW c \in Calls, NEW t \in Targets, Enter(c, t) PROVE UNCHANGED modes
    BY <1>4 DEF Enter
  <1>5. ASSUME NEW c \in Calls, Wake(c) PROVE UNCHANGED modes
    BY <1>5 DEF Wake, Serve, Announce, Enrol, Take, TimeOut, Abandon
  <1>6. ASSUME NEW c \in Calls, NEW k \in 1..MaxPrompts, NEW decision \in Decisions,
               Respond(c, k, decision)
        PROVE  UNCHANGED modes
    BY <1>6 DEF Respond
  <1>7. ASSUME ClearApprovals PROVE UNCHANGED <<mode, nodeMode, switches, starting>>
    BY <1>7 DEF ClearApprovals
  <1>8. ASSUME Cancel PROVE UNCHANGED modes
    BY <1>8 DEF Cancel
  <1>9. UNCHANGED <<mode, nodeMode, switches, starting>> => StartInv' /\ Allowed
    BY ModesStay
  <1>10. UNCHANGED modes => UNCHANGED <<mode, nodeMode, switches, starting>>
    BY DEF modes
  <1> HIDE DEF Allowed
  <1>11. StartInv' /\ Allowed
    BY <1>1, <1>2, <1>3, <1>4, <1>5, <1>6, <1>7, <1>8, <1>9, <1>10 DEF Next, User
  <1> QED BY <1>11 DEF Allowed

-------------------------------------------------------------------------------
(* Every reachable state is well typed: no request is numbered twice, and what is granted *)
(* is a target of a node (permissions.rs, interaction.rs).                                *)
THEOREM TypeCorrect == Spec => []TypeOK
  <1>1. BrokerInv => TypeOK
    BY DEF BrokerInv
  <1> QED BY <1>1, Reachable, PTL

(* The broker holds exactly the requests whose answer somebody still waits for, for any   *)
(* number of calls that time out, are cancelled and are answered late                     *)
(* (interaction.rs:75-86).                                                                *)
THEOREM BrokerIsExact == Spec => []PendingIsAwaited
  <1>1. BrokerInv => PendingIsAwaited
    BY DEF BrokerInv
  <1> QED BY <1>1, Reachable, PTL

(* A grant that outlives a change of the run's mode is that of an answer which was under  *)
(* way as the cache was cleared; every other was given by the user since, for any number  *)
(* of nodes, calls and switches (permissions.rs:196-213, 441-447).                        *)
THEOREM GrantsAreFollowed == Spec => []GrantsFollowSwitch
  <1>1. Init => GrantInv
    BY CallsAssumption DEF Init, GrantInv, Granted, Decisions
  <1>2. GrantInv => GrantsFollowSwitch
    BY DEF GrantInv, Granted, GrantsFollowSwitch
  <1> QED BY <1>1, <1>2, GrantStep, Reachable, PTL DEF Spec

(* The mode that judges a node's calls rises only with the user's switch, or by a store   *)
(* that a switch overtook, however often its agent is activated and whatever mode it asks *)
(* for (permissions.rs:217-247).                                                          *)
THEOREM AgentsOnlyTighten == Spec => WidensOnlyAcrossSwitch
  <1> DEFINE Allowed == \A n \in Nodes : Widens(n) =>
                          \/ switches' = switches + 1
                          \/ starting[n] # NotStarting /\ starting[n].at < switches
  <1>1. Init => StartInv
    BY DEF Init, StartInv, Tighter
  <1>2. BrokerInv /\ StartInv /\ [Next]_vars => StartInv' /\ [Allowed]_vars
    <2>1. ASSUME BrokerInv, StartInv, Next PROVE StartInv' /\ Allowed
      BY <2>1, ModeStep
    <2>2. ASSUME BrokerInv, StartInv, UNCHANGED vars PROVE StartInv'
      BY <2>2, ModesStay DEF vars, modes
    <2> HIDE DEF Allowed
    <2> SUFFICES ASSUME BrokerInv, StartInv, [Next]_vars PROVE StartInv' /\ [Allowed]_vars
      OBVIOUS
    <2>3. CASE Next
      BY <2>1, <2>3
    <2>4. CASE UNCHANGED vars
      BY <2>2, <2>4
    <2> QED BY <2>3, <2>4
  <1> QED BY <1>1, <1>2, Reachable, PTL DEF Spec, WidensOnlyAcrossSwitch

-------------------------------------------------------------------------------
(* CONVERSATION                                                            *)

-------------------------------------------------------------------------------
(* Recursions along a sequence *)

\* A set of natural numbers that is not empty has a least element: the form in
\* which induction is used here.
LEMMA Least ==
    ASSUME NEW T \in SUBSET Nat, T # {}
    PROVE  \E x \in T : \A y \in T : x <= y
  <1> DEFINE R == {p \in Nat \X Nat : p[1] < p[2]}
  <1>1. IsWellFoundedOn(R, Nat)
    BY NatLessThanWellFounded, Zenon DEF OpToRel
  <1>2. PICK x \in T : \A y \in T : <<y, x>> \notin R
    <2> HIDE DEF R
    <2> QED BY <1>1, WFMin, Zenon
  <1>3. \A y \in T : x <= y
    <2>1. SUFFICES ASSUME NEW y \in T, ~(x <= y) PROVE FALSE
      OBVIOUS
    <2>2. x \in Nat /\ y \in Nat /\ y < x
      BY <2>1
    <2>3. <<y, x>> \in R
      BY <2>2
    <2> QED BY <1>2, <2>3
  <1> QED BY <1>3

\* What is true of 0 and handed on from each number to the next is true up to the bound.
LEMMA Climb ==
    ASSUME NEW N \in Nat, NEW Good, 0 \in Good, \A i \in 1..N : i - 1 \in Good => i \in Good
    PROVE  0..N \subseteq Good
  <1> DEFINE T == {i \in 0..N : i \notin Good}
  <1>1. SUFFICES ASSUME T # {} PROVE FALSE
    OBVIOUS
  <1>2. PICK x \in T : \A y \in T : x <= y
    <2>1. T \in SUBSET Nat
      OBVIOUS
    <2> HIDE DEF T
    <2> QED BY <1>1, <2>1, Least
  <1>3. x \in 0..N /\ x \notin Good /\ x \in 1..N /\ x - 1 \in 0..N
    OBVIOUS
  <1>4. x - 1 \notin T
    BY <1>2, <1>3
  <1> QED BY <1>3, <1>4

\* A value is carried from 0 to N by the steps F[1], ..., F[N].
Carries(g, F, N, b) == g[0] = b /\ \A i \in 1..N : g[i] = F[i][g[i - 1]]

LEMMA Carrier ==
    ASSUME NEW V, NEW b \in V, NEW N \in Nat, NEW F \in [1..N -> [V -> V]]
    PROVE  \E g \in [0..N -> V] : Carries(g, F, N, b)
  <1> DEFINE Good == {n \in 0..N : \E g \in [0..n -> V] : Carries(g, F, n, b)}
  <1>1. 0 \in Good
    <2>1. [i \in 0..0 |-> b] \in [0..0 -> V] /\ Carries([i \in 0..0 |-> b], F, 0, b)
      BY DEF Carries
    <2> QED BY <2>1
  <1>2. ASSUME NEW n \in 1..N, n - 1 \in Good PROVE n \in Good
    <2>1. PICK g \in [0..(n - 1) -> V] : Carries(g, F, n - 1, b)
      BY <1>2
    <2> DEFINE h == [i \in 0..n |-> IF i = n THEN F[n][g[n - 1]] ELSE g[i]]
    <2>2. F[n][g[n - 1]] \in V
      OBVIOUS
    <2>3. h \in [0..n -> V]
      BY <2>2
    <2>4. \A i \in 1..n : h[i] = F[i][h[i - 1]]
      BY <2>1 DEF Carries
    <2>5. h[0] = b
      BY <2>1 DEF Carries
    <2> HIDE DEF h
    <2>6. Carries(h, F, n, b)
      BY <2>4, <2>5 DEF Carries
    <2> QED BY <2>3, <2>6
  <1>3. 0..N \subseteq Good
    <2> HIDE DEF Good
    <2> QED BY <1>1, <1>2, Climb
  <1>4. N \in Good
    BY <1>3
  <1> QED BY <1>4

-------------------------------------------------------------------------------
(* The operators of the Context node *)

\* The sum of Estimate.
Sums(q, sum) ==
    /\ sum[0] = 0
    /\ \A i \in 1..Len(q) : sum[i] = sum[i - 1] + Weight(q[i])
    /\ \A i \in 0..Len(q) : sum[i] \in Nat

LEMMA Estimates ==
    ASSUME NEW q \in Seq(Messages)
    PROVE  \E sum : Sums(q, sum) /\ Estimate(q) = sum[Len(q)]
  <1> DEFINE N == Len(q)
             F == [i \in 1..N |-> [x \in Nat |-> x + Weight(q[i])]]
             W(g) == [i \in 0..N |-> IF i = 0 THEN 0 ELSE g[i - 1] + Weight(q[i])]
             sum == CHOOSE sum : sum = W(sum)
  <1>0. Estimate(q) = sum[N]
    BY DEF Estimate
  <1>1. N \in Nat /\ \A i \in 1..N : q[i] \in Messages /\ Weight(q[i]) \in Nat
    BY WeightAssumption
  <1>2. PICK g \in [0..N -> Nat] : Carries(g, F, N, 0)
    <2>1. F \in [1..N -> [Nat -> Nat]]
      BY <1>1
    <2> HIDE DEF F
    <2> QED BY <1>1, <2>1, Carrier
  <1>3. g = W(g)
    <2>1. g[0] = 0 /\ \A i \in 1..N : g[i] = F[i][g[i - 1]]
      BY <1>2 DEF Carries
    <2>2. \A i \in 1..N : g[i] = g[i - 1] + Weight(q[i])
      <3>1. \A i \in 1..N : g[i - 1] \in Nat
        BY <1>1
      <3> QED BY <2>1, <3>1
    <2>3. \A i \in 0..N : g[i] = W(g)[i]
      <3> HIDE DEF F
      <3> QED BY <1>1, <2>1, <2>2
    <2> QED BY <2>3
  <1>4. sum = W(sum)
    <2> HIDE DEF W
    <2> QED BY <1>3
  <1> HIDE DEF sum
  <1>5. sum[0] = 0 /\ \A i \in 1..N : sum[i] = sum[i - 1] + Weight(q[i])
    BY <1>1, <1>4
  <1>6. \A i \in 0..N : sum[i] \in Nat
    <2> DEFINE Good == {i \in 0..N : sum[i] \in Nat}
    <2>1. 0 \in Good /\ \A i \in 1..N : i - 1 \in Good => i \in Good
      BY <1>1, <1>5
    <2>2. 0..N \subseteq Good
      <3> HIDE DEF Good, N
      <3> QED BY <1>1, <2>1, Climb
    <2> QED BY <2>2
  <1> QED BY <1>0, <1>5, <1>6 DEF Sums

LEMMA EstimateIsNat ==
    ASSUME NEW q \in Seq(Messages)
    PROVE  Estimate(q) \in Nat
  <1>1. PICK sum : Sums(q, sum) /\ Estimate(q) = sum[Len(q)]
    BY Estimates
  <1> QED BY <1>1 DEF Sums

\* A message more weighs no less.
LEMMA EstimateAppend ==
    ASSUME NEW q \in Seq(Messages), NEW m \in Messages
    PROVE  Estimate(Append(q, m)) = Estimate(q) + Weight(m)
  <1> DEFINE r == Append(q, m)
             N == Len(q)
  <1>1. r \in Seq(Messages) /\ Len(r) = N + 1 /\ r[N + 1] = m /\ N \in Nat /\ \A i \in 1..N : r[i] = q[i]
    BY AppendProperties
  <1>2. PICK sum : Sums(q, sum) /\ Estimate(q) = sum[N]
    BY Estimates
  <1>3. PICK all : Sums(r, all) /\ Estimate(r) = all[N + 1]
    <2> HIDE DEF r
    <2> QED BY <1>1, Estimates
  <1> DEFINE Good == {i \in 0..N : all[i] = sum[i]}
  <1>4. 0 \in Good /\ \A i \in 1..N : i - 1 \in Good => i \in Good
    <2> HIDE DEF r
    <2> QED BY <1>1, <1>2, <1>3 DEF Sums
  <1>5. 0..N \subseteq Good
    <2> HIDE DEF Good, N, r
    <2> QED BY <1>1, <1>4, Climb
  <1>6. all[N] = sum[N]
    BY <1>1, <1>5
  <1>7. all[N + 1] = all[N] + Weight(m)
    <2> HIDE DEF r
    <2> QED BY <1>1, <1>3 DEF Sums
  <1> QED BY <1>2, <1>3, <1>6, <1>7

LEMMA FitsAppend ==
    ASSUME ConversationTypeOK, NEW q \in Seq(Messages), NEW m \in Messages, Fits(Append(q, m))
    PROVE  Fits(q)
  <1>1. Estimate(q) \in Nat /\ Weight(m) \in Nat /\ config \in Configs
    BY EstimateIsNat, WeightAssumption DEF ConversationTypeOK
  <1>2. config.maxMessages \in Nat /\ config.maxTokens \in Nat
    BY <1>1, ConversationAssumption
  <1>3. Len(Append(q, m)) = Len(q) + 1 /\ Len(q) \in Nat
    BY AppendProperties
  <1> QED BY <1>1, <1>2, <1>3, EstimateAppend DEF Fits

-------------------------------------------------------------------------------
(* What trimming leaves *)

\* Only the first message can be the system's.
Led(q) == q \in Seq(Messages) /\ \A i \in DOMAIN q : q[i].role = "system" => i = 1

\* How much trimming can remove.
Spare(q) == Len(q) - Pinned(q)

LEMMA PinnedIs ==
    ASSUME NEW q \in Seq(Messages)
    PROVE  /\ Pinned(q) \in 0..1 /\ Pinned(q) <= Len(q) /\ Spare(q) \in Nat
           /\ Len(q) \in Nat
           /\ Pinned(q) = 1 => q[1].role = "system"
           /\ q # <<>> /\ Pinned(q) = 0 => q[1].role # "system"
  BY EmptySeq, LenProperties DEF Pinned, Spare

\* Recent by position.
LEMMA RecentIs ==
    ASSUME NEW q \in Seq(Messages), NEW k \in 0..Spare(q)
    PROVE  /\ Recent(q, k) \in Seq(Messages)
           /\ Len(Recent(q, k)) = Len(q) - k
           /\ Len(q) - k \in Nat /\ Pinned(q) <= Len(q) - k
           /\ \A i \in 1..(Len(q) - k) : Recent(q, k)[i] = IF i <= Pinned(q) THEN q[i] ELSE q[i + k]
  <1> DEFINE p == Pinned(q)
             head == SubSeq(q, 1, p)
             tail == SubSeq(q, p + k + 1, Len(q))
  <1>1. p \in Nat /\ p <= Len(q) /\ Len(q) \in Nat /\ k \in Nat /\ p + k <= Len(q)
    BY PinnedIs DEF Spare
  <1> HIDE DEF p
  <1>2. \A i \in 1..p : q[i] \in Messages
    BY <1>1, ElementOfSeq
  <1>3. \A i \in (p + k + 1)..Len(q) : q[i] \in Messages
    BY <1>1, ElementOfSeq
  <1>4. head \in Seq(Messages) /\ Len(head) = p /\ \A i \in 1..p : head[i] = q[i]
    <2>1. /\ head \in Seq(Messages) /\ Len(head) = IF 1 <= p THEN p - 1 + 1 ELSE 0
          /\ \A i \in 1..(p - 1 + 1) : head[i] = q[1 + i - 1]
      BY <1>1, <1>2, SubSeqProperties
    <2> HIDE DEF head
    <2> QED BY <1>1, <2>1
  <1>5. tail \in Seq(Messages) /\ Len(tail) = Len(q) - p - k
        /\ \A i \in 1..(Len(q) - p - k) : tail[i] = q[p + k + i]
    <2>1. /\ tail \in Seq(Messages)
          /\ Len(tail) = IF p + k + 1 <= Len(q) THEN Len(q) - (p + k + 1) + 1 ELSE 0
          /\ \A i \in 1..(Len(q) - (p + k + 1) + 1) : tail[i] = q[p + k + 1 + i - 1]
      <3> DEFINE a == p + k + 1
      <3>1. a \in Int /\ Len(q) \in Int /\ \A i \in a..Len(q) : q[i] \in Messages
        BY <1>1, <1>3
      <3> HIDE DEF a
      <3>2. /\ SubSeq(q, a, Len(q)) \in Seq(Messages)
            /\ Len(SubSeq(q, a, Len(q))) = IF a <= Len(q) THEN Len(q) - a + 1 ELSE 0
            /\ \A i \in 1..(Len(q) - a + 1) : SubSeq(q, a, Len(q))[i] = q[a + i - 1]
        BY <3>1, SubSeqProperties
      <3> QED BY <3>2 DEF a
    <2> HIDE DEF tail
    <2>2. Len(q) - (p + k + 1) + 1 = Len(q) - p - k
      BY <1>1
    <2>3. Len(tail) = Len(q) - p - k
      BY <1>1, <2>1
    <2>4. ASSUME NEW i \in 1..(Len(q) - p - k) PROVE tail[i] = q[p + k + i]
      <3>1. tail[i] = q[p + k + 1 + i - 1] /\ i \in Int
        BY <2>1, <2>2, <2>4
      <3>2. p + k + 1 + i - 1 = p + k + i
        BY <1>1, <3>1
      <3> QED BY <3>1, <3>2
    <2> QED BY <2>1, <2>3, <2>4
  <1> HIDE DEF head, tail
  <1>6. /\ head \o tail \in Seq(Messages) /\ Len(head \o tail) = Len(q) - k
        /\ \A i \in 1..(Len(q) - k) : (head \o tail)[i] = IF i <= p THEN q[i] ELSE q[i + k]
    <2>1. /\ head \o tail \in Seq(Messages) /\ Len(head \o tail) = p + (Len(q) - p - k)
          /\ \A i \in 1..(p + (Len(q) - p - k)) :
                (head \o tail)[i] = IF i <= p THEN head[i] ELSE tail[i - p]
      <3>1. /\ head \o tail \in Seq(Messages) /\ Len(head \o tail) = Len(head) + Len(tail)
            /\ \A i \in 1..(Len(head) + Len(tail)) :
                  (head \o tail)[i] = IF i <= Len(head) THEN head[i] ELSE tail[i - Len(head)]
        BY <1>4, <1>5, ConcatProperties
      <3>2. Len(head) = p /\ Len(tail) = Len(q) - p - k
        BY <1>4, <1>5
      <3> QED BY <3>1, <3>2
    <2> QED BY <1>1, <1>4, <1>5, <2>1
  <1>7. Recent(q, k) = head \o tail /\ Pinned(q) = p
    BY DEF Recent, p, head, tail
  <1> QED BY <1>1, <1>6, <1>7

LEMMA RecentNone ==
    ASSUME NEW q \in Seq(Messages)
    PROVE  0 \in 0..Spare(q) /\ Recent(q, 0) = q
  <1>1. 0 \in 0..Spare(q) /\ Len(q) \in Nat
    BY PinnedIs
  <1>2. /\ Recent(q, 0) \in Seq(Messages) /\ Len(Recent(q, 0)) = Len(q)
        /\ \A i \in 1..Len(q) : Recent(q, 0)[i] = q[i]
    <2>1. /\ Recent(q, 0) \in Seq(Messages) /\ Len(Recent(q, 0)) = Len(q) - 0
          /\ \A i \in 1..(Len(q) - 0) : Recent(q, 0)[i] = IF i <= Pinned(q) THEN q[i] ELSE q[i + 0]
      BY <1>1, RecentIs
    <2> QED BY <1>1, <2>1
  <1> QED BY <1>1, <1>2, SeqEqual

\* What is left grows with what was said.
LEMMA RecentAppend ==
    ASSUME NEW q \in Seq(Messages), NEW m \in Messages, NEW k \in 0..Spare(q)
    PROVE  k \in 0..Spare(Append(q, m)) /\ Recent(Append(q, m), k) = Append(Recent(q, k), m)
  <1> DEFINE r == Append(q, m)
  <1>1. /\ r \in Seq(Messages) /\ r # <<>> /\ Len(r) = Len(q) + 1
        /\ r[Len(q) + 1] = m /\ \A i \in 1..Len(q) : r[i] = q[i]
    BY AppendProperties
  <1>2. /\ Len(q) \in Nat /\ Pinned(q) \in 0..1 /\ Pinned(q) <= Len(q) /\ k \in Nat
        /\ Pinned(r) \in 0..1 /\ Pinned(r) <= Len(r) /\ k + Pinned(q) <= Len(q) /\ Spare(r) \in Nat
    <2>1. Pinned(r) \in 0..1 /\ Pinned(r) <= Len(r) /\ Spare(r) \in Nat
      <3> HIDE DEF r
      <3> QED BY <1>1, PinnedIs
    <2>2. Len(q) \in Nat /\ Pinned(q) \in 0..1 /\ Pinned(q) <= Len(q)
      BY PinnedIs
    <2> HIDE DEF r
    <2> QED BY <2>1, <2>2 DEF Spare
  <1>3. CASE q = <<>>
    <2>1. k = 0 /\ 0 \in 0..Spare(r)
      <3>1. Len(q) = 0
        BY <1>3, EmptySeq
      <3> HIDE DEF r
      <3> QED BY <1>2, <3>1
    <2> QED BY <1>1, <2>1, RecentNone
  <1>4. CASE q # <<>>
    <2>1. Pinned(r) = Pinned(q)
      <3>1. r[1] = q[1]
        BY <1>1, <1>4, EmptySeq
      <3> QED BY <1>1, <1>4, <3>1 DEF Pinned
    <2>2. k \in 0..Spare(r)
      BY <1>1, <1>2, <2>1 DEF Spare
    <2> DEFINE s == Recent(q, k)  t == Recent(r, k)  u == Append(s, m)
    <2>3. /\ s \in Seq(Messages) /\ Len(s) = Len(q) - k
          /\ \A i \in 1..(Len(q) - k) : s[i] = IF i <= Pinned(q) THEN q[i] ELSE q[i + k]
      BY RecentIs
    <2>4. /\ t \in Seq(Messages) /\ Len(t) = Len(r) - k
          /\ \A i \in 1..(Len(r) - k) : t[i] = IF i <= Pinned(r) THEN r[i] ELSE r[i + k]
      <3> HIDE DEF r
      <3> QED BY <1>1, <2>2, RecentIs
    <2> HIDE DEF r, s, t
    <2>5. u \in Seq(Messages) /\ Len(u) = Len(s) + 1 /\ u[Len(s) + 1] = m /\ \A i \in 1..Len(s) : u[i] = s[i]
      BY <2>3, AppendProperties
    <2> HIDE DEF u
    <2>6. Len(t) = Len(u) /\ Len(u) = Len(q) - k + 1
      BY <1>1, <1>2, <2>3, <2>4, <2>5
    <2>7. ASSUME NEW i \in 1..Len(t) PROVE t[i] = u[i]
      <3>1. i \in 1..(Len(q) - k + 1) /\ i \in Int
        BY <2>6
      <3>2. t[i] = IF i <= Pinned(q) THEN r[i] ELSE r[i + k]
        BY <1>1, <1>2, <2>1, <2>4, <3>1
      <3>3. CASE i = Len(q) - k + 1
        <4>1. u[i] = m /\ i + k = Len(q) + 1 /\ ~(i <= Pinned(q))
          BY <1>2, <2>3, <2>5, <3>3
        <4> QED BY <1>1, <3>2, <4>1
      <3>4. CASE i # Len(q) - k + 1
        <4>1. i \in 1..(Len(q) - k)
          BY <1>2, <3>1, <3>4
        <4>2. u[i] = IF i <= Pinned(q) THEN q[i] ELSE q[i + k]
          <5>1. i \in 1..Len(s)
            BY <2>3, <4>1
          <5> QED BY <2>3, <2>5, <4>1, <5>1
        <4>3. i \in 1..Len(q) /\ i + k \in 1..Len(q)
          BY <1>2, <4>1
        <4> QED BY <1>1, <3>2, <4>2, <4>3
      <3> QED BY <3>3, <3>4
    <2>8. t = u
      BY <2>4, <2>5, <2>6, <2>7, SeqEqual
    <2> QED BY <2>2, <2>8 DEF t, u, s, r
  <1> QED BY <1>3, <1>4

-------------------------------------------------------------------------------
(* Trimming *)

Removable(q) == {i \in DOMAIN q : q[i].role # "system"}

LEMMA LeastRemovable ==
    ASSUME NEW q \in Seq(Messages), Removable(q) # {}
    PROVE  /\ Min(Removable(q)) \in Removable(q) /\ Min(Removable(q)) \in 1..Len(q)
           /\ \A i \in Removable(q) : Min(Removable(q)) <= i
  <1>1. Removable(q) \in SUBSET Nat /\ Removable(q) \subseteq 1..Len(q)
    BY LenProperties DEF Removable
  <1>2. \E x \in Removable(q) : \A y \in Removable(q) : x <= y
    BY <1>1, Least
  <1> QED BY <1>1, <1>2 DEF Min

LEMMA RemoveAtIs ==
    ASSUME NEW q \in Seq(Messages), NEW n \in 1..Len(q)
    PROVE  /\ RemoveAt(q, n) \in Seq(Messages) /\ Len(RemoveAt(q, n)) = Len(q) - 1
           /\ \A i \in 1..(Len(q) - 1) : RemoveAt(q, n)[i] = IF i < n THEN q[i] ELSE q[i + 1]
  <1> DEFINE a == n - 1  b == n + 1  head == SubSeq(q, 1, a)  tail == SubSeq(q, b, Len(q))
  <1>1. Len(q) \in Nat /\ n \in Nat /\ 1 <= n /\ n <= Len(q) /\ a \in Int /\ b \in Int
    BY LenProperties
  <1>2. (\A i \in 1..a : q[i] \in Messages) /\ (\A i \in b..Len(q) : q[i] \in Messages)
    BY <1>1, ElementOfSeq
  <1> HIDE DEF a, b
  <1>3. head \in Seq(Messages) /\ Len(head) = n - 1 /\ \A i \in 1..(n - 1) : head[i] = q[i]
    <2>1. /\ head \in Seq(Messages) /\ Len(head) = IF 1 <= a THEN a - 1 + 1 ELSE 0
          /\ \A i \in 1..(a - 1 + 1) : head[i] = q[1 + i - 1]
      BY <1>1, <1>2, SubSeqProperties
    <2> HIDE DEF head
    <2> QED BY <1>1, <2>1 DEF a
  <1>4. tail \in Seq(Messages) /\ Len(tail) = Len(q) - n /\ \A i \in 1..(Len(q) - n) : tail[i] = q[n + i]
    <2>1. /\ tail \in Seq(Messages) /\ Len(tail) = IF b <= Len(q) THEN Len(q) - b + 1 ELSE 0
          /\ \A i \in 1..(Len(q) - b + 1) : tail[i] = q[b + i - 1]
      BY <1>1, <1>2, SubSeqProperties
    <2> HIDE DEF tail
    <2>2. Len(q) - b + 1 = Len(q) - n /\ Len(tail) = Len(q) - n
      BY <1>1, <2>1 DEF b
    <2>3. ASSUME NEW i \in 1..(Len(q) - n) PROVE tail[i] = q[n + i]
      <3>1. b + i - 1 = n + i
        BY <1>1 DEF b
      <3> QED BY <2>1, <2>2, <3>1
    <2> QED BY <2>1, <2>2, <2>3
  <1> HIDE DEF head, tail
  <1>5. /\ head \o tail \in Seq(Messages) /\ Len(head \o tail) = Len(head) + Len(tail)
        /\ \A i \in 1..(Len(head) + Len(tail)) :
              (head \o tail)[i] = IF i <= Len(head) THEN head[i] ELSE tail[i - Len(head)]
    BY <1>3, <1>4, ConcatProperties
  <1>6. Len(head \o tail) = Len(q) - 1 /\ Len(head) + Len(tail) = Len(q) - 1
    BY <1>1, <1>3, <1>4, <1>5
  <1>7. ASSUME NEW i \in 1..(Len(q) - 1) PROVE (head \o tail)[i] = IF i < n THEN q[i] ELSE q[i + 1]
    <2>1. (head \o tail)[i] = IF i <= n - 1 THEN head[i] ELSE tail[i - (n - 1)]
      BY <1>3, <1>5, <1>6
    <2>2. CASE i < n
      <3>1. i \in 1..(n - 1)
        BY <1>1, <2>2
      <3> QED BY <1>3, <2>1, <2>2, <3>1
    <2>3. CASE ~(i < n)
      <3>1. i - (n - 1) \in 1..(Len(q) - n) /\ n + (i - (n - 1)) = i + 1 /\ ~(i <= n - 1)
        BY <1>1, <2>3
      <3>2. tail[i - (n - 1)] = q[n + (i - (n - 1))]
        BY <1>4, <3>1
      <3> QED BY <2>1, <2>3, <3>1, <3>2
    <2> QED BY <2>2, <2>3
  <1>8. RemoveAt(q, n) = head \o tail
    BY DEF RemoveAt, head, tail, a, b
  <1> QED BY <1>5, <1>6, <1>7, <1>8

LEMMA DropType ==
    ASSUME NEW q \in Seq(Messages)
    PROVE  Drop(q) \in Seq(Messages)
  <1>1. Drop(q) = IF Fits(q) \/ Removable(q) = {} THEN q ELSE RemoveAt(q, Min(Removable(q)))
    BY DEF Drop, Removable
  <1> QED BY <1>1, LeastRemovable, RemoveAtIs

\* One turn of the loop forgets one message more, as long as there is need and choice.
LEMMA DropRecent ==
    ASSUME NEW q \in Seq(Messages), Led(q), NEW k \in 0..Spare(q)
    PROVE  Drop(Recent(q, k)) = IF Fits(Recent(q, k)) \/ k = Spare(q) THEN Recent(q, k) ELSE Recent(q, k + 1)
  <1> DEFINE r == Recent(q, k)  p == Pinned(q)
  <1>1. /\ p \in 0..1 /\ p <= Len(q) /\ Len(q) \in Nat /\ k \in Nat /\ p + k <= Len(q) /\ Spare(q) = Len(q) - p
    BY PinnedIs DEF Spare
  <1>2. /\ r \in Seq(Messages) /\ Len(r) = Len(q) - k
        /\ \A i \in 1..(Len(q) - k) : r[i] = IF i <= p THEN q[i] ELSE q[i + k]
    BY RecentIs
  <1>3. Removable(r) = (p + 1)..(Len(q) - k)
    <2> HIDE DEF r
    <2>1. DOMAIN r = 1..(Len(q) - k)
      BY <1>2, LenProperties
    <2>2. ASSUME NEW i \in 1..(Len(q) - k) PROVE r[i].role # "system" <=> i > p
      <3>1. CASE i <= p
        <4>1. i = 1 /\ p = 1 /\ r[i] = q[1]
          BY <1>1, <1>2, <3>1
        <4>2. q[1].role = "system"
          BY <4>1, PinnedIs
        <4> QED BY <1>1, <4>1, <4>2
      <3>2. CASE i > p
        <4>1. r[i] = q[i + k] /\ i + k \in 1..Len(q) /\ i + k > p /\ q # <<>>
          <5>1. i + k \in 1..Len(q) /\ ~(i <= p) /\ i + k > p
            BY <1>1, <3>2
          <5>2. q # <<>>
            BY <1>1, <5>1, EmptySeq
          <5> QED BY <1>2, <5>1, <5>2
        <4>2. i + k \in DOMAIN q
          BY <4>1, LenProperties
        <4>3. CASE p = 0
          <5>1. q[1].role # "system"
            BY <4>1, <4>3, PinnedIs
          <5> QED BY <3>2, <4>1, <4>2, <5>1 DEF Led
        <4>4. CASE p = 1
          <5>1. i + k # 1
            BY <1>1, <4>1, <4>4
          <5> QED BY <3>2, <4>1, <4>2, <5>1 DEF Led
        <4> QED BY <1>1, <4>3, <4>4
      <3> QED BY <1>1, <3>1, <3>2
    <2> HIDE DEF p
    <2>3. \A i : i \in Removable(r) <=> i \in 1..(Len(q) - k) /\ i > p
      BY <2>1, <2>2 DEF Removable
    <2>4. \A i : i \in (p + 1)..(Len(q) - k) <=> i \in 1..(Len(q) - k) /\ i > p
      BY <1>1
    <2> QED BY <2>3, <2>4
  <1>4. Drop(r) = IF Fits(r) \/ Removable(r) = {} THEN r ELSE RemoveAt(r, Min(Removable(r)))
    BY DEF Drop, Removable
  <1>5. Removable(r) = {} <=> k = Spare(q)
    <2> HIDE DEF r, p
    <2>1. (p + 1)..(Len(q) - k) = {} <=> ~(p + 1 <= Len(q) - k)
      <3>1. p + 1 \in Int /\ Len(q) - k \in Int
        BY <1>1
      <3>2. \A a, b \in Int : a <= b => a \in a..b
        OBVIOUS
      <3>3. \A a, b \in Int : ~(a <= b) => a..b = {}
        OBVIOUS
      <3> QED BY <3>1, <3>2, <3>3
    <2>2. ~(p + 1 <= Len(q) - k) <=> k = Len(q) - p
      BY <1>1
    <2> QED BY <1>1, <1>3, <2>1, <2>2
  <1>6. ASSUME k # Spare(q) PROVE RemoveAt(r, Min(Removable(r))) = Recent(q, k + 1)
    <2> DEFINE n == Min(Removable(r))  t == Recent(q, k + 1)  u == RemoveAt(r, n)
    <2> HIDE DEF r, p
    <2>1. k + 1 \in 0..Spare(q)
      BY <1>1, <1>6
    <2>2. n = p + 1 /\ n \in 1..Len(r)
      <3>1. Removable(r) # {} /\ p + 1 \in Removable(r)
        <4>1. p + 1 \in (p + 1)..(Len(q) - k)
          BY <1>1, <1>6
        <4> QED BY <1>3, <4>1
      <3>2. n \in Removable(r) /\ n \in 1..Len(r) /\ n <= p + 1
        BY <1>2, <3>1, LeastRemovable
      <3> HIDE DEF n
      <3> QED BY <1>1, <1>3, <3>2
    <2>3. /\ t \in Seq(Messages) /\ Len(t) = Len(q) - (k + 1)
          /\ \A i \in 1..(Len(q) - (k + 1)) : t[i] = IF i <= p THEN q[i] ELSE q[i + (k + 1)]
      BY <2>1, RecentIs DEF p
    <2> HIDE DEF n, t
    <2>4. /\ u \in Seq(Messages) /\ Len(u) = Len(r) - 1
          /\ \A i \in 1..(Len(r) - 1) : u[i] = IF i < n THEN r[i] ELSE r[i + 1]
      BY <1>2, <2>2, RemoveAtIs
    <2> HIDE DEF u
    <2>5. Len(u) = Len(t) /\ Len(u) = Len(q) - k - 1
      BY <1>1, <1>2, <2>3, <2>4
    <2>6. ASSUME NEW i \in 1..Len(u) PROVE u[i] = t[i]
      <3>1. i \in 1..(Len(q) - k - 1) /\ i \in 1..(Len(r) - 1) /\ i \in 1..(Len(q) - (k + 1)) /\ i \in Int
        BY <1>1, <1>2, <2>4, <2>5
      <3>2. i \in 1..(Len(q) - k) /\ i + 1 \in 1..(Len(q) - k) /\ (i < n <=> i <= p) /\ ~(i <= p) => ~(i + 1 <= p)
        BY <1>1, <2>2, <3>1
      <3>3. u[i] = IF i <= p THEN r[i] ELSE r[i + 1]
        <4>1. i < n <=> i <= p
          BY <1>1, <2>2, <3>1
        <4> QED BY <2>4, <3>1, <4>1
      <3>4. CASE i <= p
        BY <1>2, <2>3, <3>1, <3>3, <3>4, <1>1
      <3>5. CASE ~(i <= p)
        <4>1. r[i + 1] = q[i + 1 + k] /\ i + 1 + k = i + (k + 1)
          <5>1. i + 1 \in 1..(Len(q) - k) /\ ~(i + 1 <= p) /\ i + 1 + k = i + (k + 1)
            BY <1>1, <3>1, <3>5
          <5> QED BY <1>2, <5>1
        <4> QED BY <2>3, <3>1, <3>3, <3>5, <4>1
      <3> QED BY <3>4, <3>5
    <2>7. u = t
      BY <2>3, <2>4, <2>5, <2>6, SeqEqual
    <2> QED BY <2>7 DEF u, t, n
  <1> HIDE DEF r
  <1>7. Drop(r) = IF Fits(r) \/ k = Spare(q) THEN r ELSE Recent(q, k + 1)
    BY <1>4, <1>5, <1>6
  <1> QED BY <1>7 DEF r

\* Where greedy trimming has come to, k messages on: none that keeps more would fit,
\* and it fits itself, or nothing is left to remove.
Settled(q, k) ==
    /\ k \in 0..Spare(q)
    /\ \A e \in 0..(k - 1) : ~Fits(Recent(q, e))
    /\ Fits(Recent(q, k)) \/ k = Spare(q)

\* The loop of enforce_limits settles.
LEMMA EnforceType ==
    ASSUME NEW q \in Seq(Messages)
    PROVE  \E kept \in [0..Len(q) -> Seq(Messages)] :
              /\ kept[0] = q
              /\ \A i \in 1..Len(q) : kept[i] = Drop(kept[i - 1])
              /\ EnforceLimits(q) = kept[Len(q)]
  <1> DEFINE N == Len(q)
             V == Seq(Messages)
             F == [i \in 1..N |-> [x \in V |-> Drop(x)]]
             W(g) == [i \in 0..N |-> IF i = 0 THEN q ELSE Drop(g[i - 1])]
             kept == CHOOSE kept : kept = W(kept)
  <1>0. EnforceLimits(q) = kept[N]
    BY DEF EnforceLimits
  <1>1. N \in Nat
    BY LenProperties
  <1>2. PICK g \in [0..N -> V] : Carries(g, F, N, q)
    <2>1. F \in [1..N -> [V -> V]]
      <3> HIDE DEF N
      <3> QED BY DropType
    <2> HIDE DEF F, N
    <2> QED BY <1>1, <2>1, Carrier
  <1>3. g = W(g)
    <2>1. g[0] = q /\ \A i \in 1..N : g[i] = F[i][g[i - 1]]
      BY <1>2 DEF Carries
    <2>2. \A i \in 1..N : g[i] = Drop(g[i - 1])
      <3>1. \A i \in 1..N : g[i - 1] \in V
        BY <1>1
      <3> QED BY <2>1, <3>1
    <2>3. \A i \in 0..N : g[i] = W(g)[i]
      <3> HIDE DEF F
      <3> QED BY <1>1, <2>1, <2>2
    <2> QED BY <2>3
  <1>4. kept = W(kept)
    <2> HIDE DEF W
    <2> QED BY <1>3
  <1> HIDE DEF kept
  <1>5. kept[0] = q /\ \A i \in 1..N : kept[i] = Drop(kept[i - 1])
    BY <1>1, <1>4
  <1>6. \A i \in 0..N : kept[i] \in V
    <2> DEFINE Good == {i \in 0..N : kept[i] \in V}
    <2>1. 0 \in Good /\ \A i \in 1..N : i - 1 \in Good => i \in Good
      <3> HIDE DEF N, V
      <3> QED BY <1>1, <1>5, DropType DEF V
    <2>2. 0..N \subseteq Good
      <3> HIDE DEF Good, N
      <3> QED BY <1>1, <2>1, Climb
    <2> QED BY <2>2
  <1>7. kept \in [0..N -> V]
    BY <1>4, <1>6
  <1> QED BY <1>0, <1>5, <1>7

LEMMA EnforceSettles ==
    ASSUME NEW q \in Seq(Messages), Led(q), NEW k \in 0..Spare(q), \A e \in 0..(k - 1) : ~Fits(Recent(q, e))
    PROVE  \E j \in k..Spare(q) : Settled(q, j) /\ EnforceLimits(Recent(q, k)) = Recent(q, j)
  <1> DEFINE r == Recent(q, k)  N == Len(r)
  <1>1. /\ r \in Seq(Messages) /\ N = Len(q) - k /\ N \in Nat /\ Len(q) \in Nat /\ k \in Nat
        /\ Spare(q) \in Nat /\ Spare(q) <= Len(q)
    <2>1. Spare(q) \in Nat /\ Spare(q) <= Len(q) /\ Len(q) \in Nat
      BY PinnedIs DEF Spare
    <2>2. r \in Seq(Messages) /\ N = Len(q) - k /\ Len(q) - k \in Nat
      BY RecentIs
    <2> QED BY <2>1, <2>2
  <1> HIDE DEF r, N
  <1>2. PICK kept \in [0..N -> Seq(Messages)] :
              /\ kept[0] = r
              /\ \A i \in 1..N : kept[i] = Drop(kept[i - 1])
              /\ EnforceLimits(r) = kept[N]
    BY <1>1, EnforceType DEF N
  <1> DEFINE Reached(i, j) ==
                /\ kept[i] = Recent(q, j)
                /\ \A e \in 0..(j - 1) : ~Fits(Recent(q, e))
                /\ j = k + i \/ Fits(Recent(q, j)) \/ j = Spare(q)
             Good == {i \in 0..N : \E j \in k..Spare(q) : Reached(i, j)}
  <1>3. 0 \in Good
    <2>1. k \in k..Spare(q) /\ Reached(0, k)
      BY <1>1, <1>2 DEF r
    <2> QED BY <1>1, <2>1
  <1>4. ASSUME NEW i \in 1..N, i - 1 \in Good PROVE i \in Good
    <2>1. PICK j \in k..Spare(q) : Reached(i - 1, j)
      BY <1>4
    <2>2. kept[i] = IF Fits(Recent(q, j)) \/ j = Spare(q) THEN Recent(q, j) ELSE Recent(q, j + 1)
      <3>1. j \in 0..Spare(q) /\ kept[i] = Drop(Recent(q, j))
        BY <1>1, <1>2, <2>1
      <3> QED BY <3>1, DropRecent
    <2>3. CASE Fits(Recent(q, j)) \/ j = Spare(q)
      <3>1. Reached(i, j)
        BY <2>1, <2>2, <2>3
      <3> HIDE DEF Reached
      <3> QED BY <3>1
    <2>4. CASE ~(Fits(Recent(q, j)) \/ j = Spare(q))
      <3>1. j + 1 \in k..Spare(q) /\ j = k + (i - 1) /\ j + 1 = k + i /\ j \in Int
        BY <1>1, <2>1, <2>4
      <3>2. \A e \in 0..(j + 1 - 1) : ~Fits(Recent(q, e))
        <4>1. \A e \in 0..(j + 1 - 1) : e \in 0..(j - 1) \/ e = j
          BY <3>1
        <4> QED BY <2>1, <2>4, <4>1
      <3>3. Reached(i, j + 1)
        BY <2>2, <2>4, <3>1, <3>2
      <3> HIDE DEF Reached
      <3> QED BY <3>1, <3>3
    <2> QED BY <2>3, <2>4
  <1>5. N \in Good
    <2>1. 0..N \subseteq Good
      <3> HIDE DEF Good
      <3> QED BY <1>1, <1>3, <1>4, Climb
    <2> HIDE DEF Good
    <2> QED BY <1>1, <2>1
  <1>6. PICK j \in k..Spare(q) : Reached(N, j)
    BY <1>5
  <1>7. Fits(Recent(q, j)) \/ j = Spare(q)
    <2>1. j = k + N => j = Len(q)
      BY <1>1
    <2>2. j <= Spare(q) /\ j \in Int
      BY <1>1
    <2>3. j = Len(q) => j = Spare(q)
      BY <1>1, <2>2
    <2> QED BY <1>6, <2>1, <2>3
  <1>8. Settled(q, j)
    <2>1. j \in 0..Spare(q)
      BY <1>1
    <2> QED BY <1>6, <1>7, <2>1 DEF Settled
  <1> QED BY <1>2, <1>6, <1>8 DEF r

\* Where the pushes have come to: under "error" nothing is ever removed.
At(q, k) == IF config.overflow = "error" THEN k = 0 ELSE Settled(q, k)

LEMMA AtIsSpare ==
    ASSUME NEW q \in Seq(Messages), NEW k, At(q, k)
    PROVE  k \in 0..Spare(q)
  BY RecentNone DEF At, Settled

LEMMA PushSettles ==
    ASSUME ConversationTypeOK, NEW q \in Seq(Messages), NEW m \in Messages, Led(Append(q, m)),
           NEW k, At(q, k)
    PROVE  \E j \in k..Spare(Append(q, m)) :
              At(Append(q, m), j) /\ Push(Recent(q, k), m) = Recent(Append(q, m), j)
  <1> DEFINE r == Append(q, m)
  <1>1. k \in 0..Spare(q) /\ k \in 0..Spare(r) /\ Recent(r, k) = Append(Recent(q, k), m) /\ r \in Seq(Messages)
    BY AtIsSpare, RecentAppend, AppendProperties
  <1>2. k \in k..Spare(r)
    <2>1. Spare(r) \in Nat
      <3> HIDE DEF r
      <3> QED BY <1>1, PinnedIs
    <2> HIDE DEF r
    <2> QED BY <1>1, <2>1
  <1>3. CASE config.overflow = "error"
    <2>1. Push(Recent(q, k), m) = Recent(r, k) /\ At(r, k)
      BY <1>1, <1>3 DEF At, Push
    <2> QED BY <1>2, <2>1
  <1>4. CASE config.overflow # "error"
    <2>1. Push(Recent(q, k), m) = EnforceLimits(Recent(r, k)) /\ Settled(q, k)
      BY <1>1, <1>4 DEF At, Push
    <2>2. ASSUME NEW e \in 0..(k - 1) PROVE ~Fits(Recent(r, e))
      <3>1. e \in 0..Spare(q)
        <4>1. Spare(q) \in Nat
          BY PinnedIs
        <4> QED BY <1>1, <4>1
      <3>2. Recent(r, e) = Append(Recent(q, e), m) /\ Recent(q, e) \in Seq(Messages)
        BY <3>1, RecentAppend, RecentIs
      <3>3. ~Fits(Recent(q, e))
        BY <2>1 DEF Settled
      <3> HIDE DEF r
      <3> QED BY <3>2, <3>3, FitsAppend
    <2>3. PICK j \in k..Spare(r) : Settled(r, j) /\ EnforceLimits(Recent(r, k)) = Recent(r, j)
      <3>1. Led(r)
        OBVIOUS
      <3> HIDE DEF r
      <3> QED BY <1>1, <2>2, <3>1, EnforceSettles
    <2>4. At(r, j)
      BY <1>4, <2>3 DEF At
    <2> QED BY <2>1, <2>3, <2>4
  <1> QED BY <1>3, <1>4

LEMMA PushType ==
    ASSUME NEW q \in Seq(Messages), NEW m \in Messages
    PROVE  Push(q, m) \in Seq(Messages)
  <1>1. Append(q, m) \in Seq(Messages) /\ Len(Append(q, m)) \in Nat
    BY AppendProperties, LenProperties
  <1>2. EnforceLimits(Append(q, m)) \in Seq(Messages)
    <2>1. PICK kept \in [0..Len(Append(q, m)) -> Seq(Messages)] :
              EnforceLimits(Append(q, m)) = kept[Len(Append(q, m))]
      BY <1>1, EnforceType
    <2> QED BY <1>1, <2>1
  <1> QED BY <1>1, <1>2 DEF Push

LEMMA UpdatedType ==
    ASSUME context \in Seq(Messages), Pushed \in Seq(Messages)
    PROVE  \E entry \in [0..Len(Pushed) -> Seq(Messages)] :
              /\ entry[0] = context
              /\ \A i \in 1..Len(Pushed) : entry[i] = Push(entry[i - 1], Pushed[i])
              /\ Updated = entry[Len(Pushed)]
  <1> DEFINE all == Pushed
             N == Len(all)
             V == Seq(Messages)
             F == [i \in 1..N |-> [x \in V |-> Push(x, all[i])]]
             W(g) == [i \in 0..N |-> IF i = 0 THEN context ELSE Push(g[i - 1], all[i])]
             entry == CHOOSE entry : entry = W(entry)
  <1>0. Updated = entry[N]
    BY DEF Updated
  <1>1. N \in Nat /\ \A i \in 1..N : all[i] \in Messages
    BY LenProperties, ElementOfSeq
  <1> HIDE DEF all
  <1>2. PICK g \in [0..N -> V] : Carries(g, F, N, context)
    <2>1. F \in [1..N -> [V -> V]]
      <3> HIDE DEF N
      <3> QED BY <1>1, PushType
    <2> HIDE DEF F, N
    <2> QED BY <1>1, <2>1, Carrier
  <1>3. g = W(g)
    <2>1. g[0] = context /\ \A i \in 1..N : g[i] = F[i][g[i - 1]]
      BY <1>2 DEF Carries
    <2>2. \A i \in 1..N : g[i] = Push(g[i - 1], all[i])
      <3>1. \A i \in 1..N : g[i - 1] \in V
        <4>1. \A i \in 1..N : i - 1 \in 0..N
          BY <1>1
        <4> HIDE DEF N, V, F
        <4> QED BY <4>1
      <3> QED BY <2>1, <3>1
    <2>3. \A i \in 0..N : g[i] = W(g)[i]
      <3> HIDE DEF F
      <3> QED BY <1>1, <2>1, <2>2
    <2> QED BY <2>3
  <1>4. entry = W(entry)
    <2> HIDE DEF W
    <2> QED BY <1>3
  <1> HIDE DEF entry
  <1>5. entry[0] = context /\ \A i \in 1..N : entry[i] = Push(entry[i - 1], all[i])
    BY <1>1, <1>4
  <1>6. \A i \in 0..N : entry[i] \in V
    <2> DEFINE Good == {i \in 0..N : entry[i] \in V}
    <2> HIDE DEF N
    <2>0. ASSUME NEW i \in 1..N, i - 1 \in Good PROVE i \in Good
      <3>1. entry[i - 1] \in Seq(Messages) /\ all[i] \in Messages /\ i \in 0..N
        BY <1>1, <2>0
      <3> QED BY <1>5, <3>1, PushType
    <2>1. 0 \in Good /\ \A i \in 1..N : i - 1 \in Good => i \in Good
      <3>1. 0 \in Good
        BY <1>1, <1>5
      <3> HIDE DEF Good
      <3> QED BY <2>0, <3>1
    <2>2. 0..N \subseteq Good
      <3> HIDE DEF Good, N
      <3> QED BY <1>1, <2>1, Climb
    <2> QED BY <2>2
  <1>7. entry \in [0..N -> V]
    BY <1>4, <1>6
  <1> QED BY <1>0, <1>5, <1>7 DEF all

\* What the entry holds after all that is pushed to what was said.
LEMMA UpdatedSettles ==
    ASSUME ConversationTypeOK, Pushed \in Seq(Messages), NEW q \in Seq(Messages), Led(q \o Pushed),
           NEW k, At(q, k), context = Recent(q, k)
    PROVE  \E j \in k..Spare(q \o Pushed) :
              At(q \o Pushed, j) /\ Updated = Recent(q \o Pushed, j)
  <1> DEFINE all == Pushed
             N == Len(all)
             whole == q \o all
             S(i) == SubSeq(whole, 1, Len(q) + i)
  <1>1. PICK entry \in [0..N -> Seq(Messages)] :
              /\ entry[0] = context
              /\ \A i \in 1..N : entry[i] = Push(entry[i - 1], all[i])
              /\ Updated = entry[N]
    BY UpdatedType DEF ConversationTypeOK
  <1>2. /\ whole \in Seq(Messages) /\ Len(whole) = Len(q) + N /\ N \in Nat /\ Len(q) \in Nat
        /\ \A i \in 1..N : whole[Len(q) + i] = all[i] /\ all[i] \in Messages
        /\ \A i \in 1..Len(q) : whole[i] = q[i]
    <2>1. N \in Nat /\ Len(q) \in Nat /\ \A i \in 1..N : all[i] \in Messages
      BY LenProperties, ElementOfSeq
    <2>2. /\ whole \in Seq(Messages) /\ Len(whole) = Len(q) + N
          /\ \A i \in 1..(Len(q) + N) : whole[i] = IF i <= Len(q) THEN q[i] ELSE all[i - Len(q)]
      BY ConcatProperties
    <2> HIDE DEF whole, all
    <2>3. ASSUME NEW i \in 1..N PROVE whole[Len(q) + i] = all[i]
      <3>1. Len(q) + i \in 1..(Len(q) + N) /\ ~(Len(q) + i <= Len(q)) /\ Len(q) + i - Len(q) = i
        BY <2>1
      <3> QED BY <2>2, <3>1
    <2>4. \A i \in 1..Len(q) : whole[i] = q[i]
      BY <2>1, <2>2
    <2> QED BY <2>1, <2>2, <2>3, <2>4
  <1>3. k \in 0..Spare(q) /\ k \in Nat
    BY AtIsSpare
  <1>4. Led(whole)
    OBVIOUS
  <1> HIDE DEF whole, all
  <1>5. \A i \in 0..N : /\ S(i) \in Seq(Messages) /\ Len(S(i)) = Len(q) + i
                        /\ \A n \in 1..(Len(q) + i) : S(i)[n] = whole[n]
    <2> SUFFICES ASSUME NEW i \in 0..N
                 PROVE  /\ S(i) \in Seq(Messages) /\ Len(S(i)) = Len(q) + i
                        /\ \A n \in 1..(Len(q) + i) : S(i)[n] = whole[n]
      OBVIOUS
    <2> DEFINE b == Len(q) + i
    <2>1. b \in Int /\ b \in Nat /\ b <= Len(whole) /\ 1 \in Int
      BY <1>2
    <2>2. \A n \in 1..b : whole[n] \in Messages
      <3>1. \A n \in 1..b : n \in 1..Len(whole)
        BY <1>2, <2>1
      <3> QED BY <1>2, <3>1, ElementOfSeq
    <2> HIDE DEF b
    <2>3. /\ SubSeq(whole, 1, b) \in Seq(Messages) /\ Len(SubSeq(whole, 1, b)) = IF 1 <= b THEN b - 1 + 1 ELSE 0
          /\ \A n \in 1..(b - 1 + 1) : SubSeq(whole, 1, b)[n] = whole[1 + n - 1]
      BY <2>1, <2>2, SubSeqProperties
    <2>4. Len(SubSeq(whole, 1, b)) = b /\ \A n \in 1..b : SubSeq(whole, 1, b)[n] = whole[n]
      BY <2>1, <2>3
    <2> QED BY <2>3, <2>4 DEF b
  <1> HIDE DEF S
  <1>6. S(0) = q
    <2>1. S(0) \in Seq(Messages) /\ Len(S(0)) = Len(q) /\ \A n \in 1..Len(q) : S(0)[n] = q[n]
      BY <1>2, <1>5
    <2> QED BY <2>1, SeqEqual
  <1>7. S(N) = whole
    <2>1. S(N) \in Seq(Messages) /\ Len(S(N)) = Len(whole) /\ \A n \in 1..Len(whole) : S(N)[n] = whole[n]
      BY <1>2, <1>5
    <2> QED BY <1>2, <2>1, SeqEqual
  <1>8. ASSUME NEW i \in 1..N PROVE S(i) = Append(S(i - 1), all[i]) /\ Led(S(i)) /\ S(i - 1) \in Seq(Messages)
    <2> DEFINE t == Append(S(i - 1), all[i])
    <2>1. i - 1 \in 0..N /\ i \in 0..N /\ i \in Int /\ Len(q) + (i - 1) = Len(q) + i - 1
      BY <1>2
    <2>2. /\ S(i - 1) \in Seq(Messages) /\ Len(S(i - 1)) = Len(q) + (i - 1)
          /\ \A n \in 1..(Len(q) + (i - 1)) : S(i - 1)[n] = whole[n]
      BY <1>5, <2>1
    <2>3. /\ S(i) \in Seq(Messages) /\ Len(S(i)) = Len(q) + i
          /\ \A n \in 1..(Len(q) + i) : S(i)[n] = whole[n]
      BY <1>5, <2>1
    <2>4. all[i] \in Messages /\ whole[Len(q) + i] = all[i]
      BY <1>2
    <2>5. /\ t \in Seq(Messages) /\ Len(t) = Len(S(i - 1)) + 1 /\ t[Len(S(i - 1)) + 1] = all[i]
          /\ \A n \in 1..Len(S(i - 1)) : t[n] = S(i - 1)[n]
      BY <2>2, <2>4, AppendProperties
    <2> HIDE DEF t
    <2>6. Len(t) = Len(S(i)) /\ Len(t) = Len(q) + i /\ Len(S(i - 1)) + 1 = Len(q) + i
      BY <1>2, <2>1, <2>2, <2>3, <2>5
    <2>7. ASSUME NEW n \in 1..Len(S(i)) PROVE S(i)[n] = t[n]
      <3>1. n \in 1..(Len(q) + i)
        BY <2>3, <2>7
      <3>2. S(i)[n] = whole[n]
        BY <2>3, <3>1
      <3>3. CASE n = Len(q) + i
        BY <2>4, <2>5, <2>6, <3>2, <3>3
      <3>4. CASE n # Len(q) + i
        <4>1. n \in 1..(Len(q) + (i - 1))
          <5>1. Len(q) \in Int /\ i \in Int
            BY <1>2, <2>1
          <5>2. \A a, b \in Int : \A c \in 1..(a + b) : c # a + b => c \in 1..(a + (b - 1))
            OBVIOUS
          <5> QED BY <3>1, <3>4, <5>1, <5>2
        <4>2. n \in 1..Len(S(i - 1))
          BY <2>2, <4>1
        <4> QED BY <2>2, <2>5, <3>2, <4>1, <4>2
      <3> QED BY <3>3, <3>4
    <2>8. S(i) = t
      BY <2>3, <2>5, <2>6, <2>7, SeqEqual
    <2>9. Led(S(i))
      <3>1. DOMAIN S(i) = 1..Len(S(i)) /\ DOMAIN whole = 1..Len(whole)
        BY <1>2, <2>3, LenProperties
      <3>2. ASSUME NEW n \in DOMAIN S(i) PROVE n \in DOMAIN whole /\ S(i)[n] = whole[n]
        <4>1. n \in 1..(Len(q) + i)
          BY <2>3, <3>1
        <4>2. n \in 1..Len(whole)
          BY <1>2, <4>1
        <4> QED BY <2>3, <3>1, <4>1, <4>2
      <3> QED BY <1>4, <2>3, <3>2 DEF Led
    <2> QED BY <2>2, <2>8, <2>9 DEF t
  <1> DEFINE Reached(i, j) == j \in k..Spare(S(i)) /\ At(S(i), j) /\ entry[i] = Recent(S(i), j)
             Good == {i \in 0..N : \E j \in Nat : Reached(i, j)}
  <1>9. 0 \in Good
    <2>1. k \in k..Spare(q)
      <3>1. Spare(q) \in Nat
        BY PinnedIs
      <3> QED BY <1>3, <3>1
    <2>2. Reached(0, k)
      BY <1>1, <1>6, <2>1
    <2> HIDE DEF Reached
    <2> QED BY <1>2, <1>3, <2>2
  <1>10. ASSUME NEW i \in 1..N, i - 1 \in Good PROVE i \in Good
    <2>1. PICK j \in Nat : Reached(i - 1, j)
      BY <1>10
    <2>2. PICK n \in j..Spare(S(i)) : At(S(i), n) /\ Push(Recent(S(i - 1), j), all[i]) = Recent(S(i), n)
      <3>1. Led(Append(S(i - 1), all[i])) /\ S(i) = Append(S(i - 1), all[i]) /\ S(i - 1) \in Seq(Messages)
        BY <1>8
      <3>2. all[i] \in Messages /\ At(S(i - 1), j)
        BY <1>2, <2>1
      <3> QED BY <3>1, <3>2, PushSettles
    <2>3. entry[i] = Recent(S(i), n)
      BY <1>1, <2>1, <2>2
    <2>4. n \in k..Spare(S(i)) /\ n \in Nat
      <3>1. k <= j /\ j \in Nat
        BY <1>3, <2>1
      <3> QED BY <1>3, <3>1
    <2>5. Reached(i, n)
      BY <2>2, <2>3, <2>4
    <2> HIDE DEF Reached
    <2> QED BY <2>4, <2>5
  <1>11. N \in Good
    <2>1. 0..N \subseteq Good
      <3> HIDE DEF Good
      <3> QED BY <1>2, <1>9, <1>10, Climb
    <2> HIDE DEF Good
    <2>2. N \in 0..N
      <3>1. N \in Nat
        BY <1>2
      <3> HIDE DEF N
      <3> QED BY <3>1
    <2> QED BY <2>1, <2>2
  <1>12. PICK j \in Nat : Reached(N, j)
    BY <1>11
  <1> QED BY <1>1, <1>7, <1>12 DEF whole, all

-------------------------------------------------------------------------------
(* The inductive invariant *)

\* Every call in the messages is followed by its results.
Answered(q) ==
    \A i \in DOMAIN q : \A k \in 1..q[i].calls :
        i + k \in DOMAIN q /\ q[i + k].id = <<q[i].id[1], k>>

\* Of the entry and what was said.
MemoryInv ==
    /\ Led(said) /\ said # <<>> /\ Answered(said)
    /\ ~stored => context = <<>> /\ (phase # "failed" => said = config.prompt)
    /\ stored /\ config.overflow = "error" => context = said
    /\ ContextIsRecent

\* Of the turn: the results so far are those of the reply.
TurnInv ==
    /\ phase = "ready" => calls < MaxIterations
    /\ phase \in {"asking", "dispatching"} => calls >= 1
    /\ phase = "dispatching" =>
          /\ Len(reply) = 1 /\ reply[1].id = <<calls, 0>> /\ reply[1].role = "assistant"
          /\ reply[1].calls \in 0..MaxTools /\ Len(results) <= reply[1].calls
          /\ \A k \in DOMAIN results :
                results[k].id = <<calls, k>> /\ results[k].role = "tool" /\ results[k].calls = 0

\* Of the session: while nothing is trimmed the server holds what was said before it.
SessionInv ==
    /\ session.count \in 0..Len(said)
    /\ session # NoSession => session.id >= 1 /\ (phase = "ready" => session.count < Len(said))
    /\ session # NoSession /\ phase # "failed" /\ Len(History) = Len(said) =>
          \A i \in 1..session.count : said[i] \in ToSet(remote[session.id])
    /\ phase = "asking" => Len(request.messages) <= Len(said)
    /\ UntrimmedIsTold

ConversationInv == ConversationTypeOK /\ MemoryInv /\ TurnInv /\ SessionInv

LEMMA MessagesAre ==
    ASSUME NEW m \in Messages
    PROVE  m.calls \in Nat
  <1>1. CASE m \in Prompts
    <2>1. PICK c \in Configs : m \in ToSet(c.prompt)
      BY <1>1 DEF Prompts
    <2>2. PICK i \in DOMAIN c.prompt : m = c.prompt[i]
      BY <2>1 DEF ToSet
    <2> QED BY <2>2, ConversationAssumption
  <1>2. CASE m \notin Prompts
    BY <1>2, ConversationAssumption DEF Messages
  <1> QED BY <1>1, <1>2

LEMMA PromptIs ==
    ASSUME NEW c \in Configs
    PROVE  c.prompt \in Seq(Messages) /\ c.prompt # <<>> /\ Led(c.prompt) /\ Answered(c.prompt)
  <1>1. c.prompt \in Seq(Messages)
    BY ConversationAssumption, SeqMonotonic DEF Messages
  <1>2. \A i \in DOMAIN c.prompt : 1..c.prompt[i].calls = {}
    BY ConversationAssumption
  <1> QED BY <1>1, <1>2, ConversationAssumption DEF Led, Answered

\* A context that is recent, as the trimming left it.
LEMMA ContextSettled ==
    ASSUME ConversationTypeOK, MemoryInv, stored
    PROVE  \E k \in 0..Spare(said) : At(said, k) /\ context = Recent(said, k)
  <1> DEFINE fitting == {k \in 0..Spare(said) : Fits(Recent(said, k))}
  <1>1. said \in Seq(Messages) /\ Spare(said) \in Nat
    BY PinnedIs DEF ConversationTypeOK
  <1>2. fitting # {} /\ context = Recent(said, Min(fitting))
    BY DEF MemoryInv, ContextIsRecent, Spare
  <1>3. CASE config.overflow = "error"
    <2>1. context = Recent(said, 0) /\ 0 \in 0..Spare(said)
      BY <1>1, <1>3, RecentNone DEF MemoryInv
    <2> QED BY <1>3, <2>1 DEF At
  <1>4. CASE config.overflow # "error"
    <2>1. PICK k \in fitting : (\A e \in fitting : k <= e) /\ k = Min(fitting)
      <3>1. fitting \in SUBSET Nat
        BY <1>1
      <3>2. \E x \in fitting : \A y \in fitting : x <= y
        <4> HIDE DEF fitting
        <4> QED BY <1>2, <3>1, Least
      <3> HIDE DEF fitting
      <3> QED BY <3>2 DEF Min
    <2>2. k \in 0..Spare(said) /\ Fits(Recent(said, k))
      OBVIOUS
    <2>3. ASSUME NEW e \in 0..(k - 1) PROVE ~Fits(Recent(said, e))
      <3>1. e \in 0..Spare(said) /\ ~(k <= e)
        BY <1>1, <2>2
      <3> QED BY <2>1, <3>1
    <2>4. At(said, k)
      BY <1>4, <2>2, <2>3 DEF At, Settled
    <2> HIDE DEF fitting
    <2> QED BY <1>2, <2>1, <2>2, <2>4
  <1> QED BY <1>3, <1>4

\* And the other way round: what was trimmed so is recent.
LEMMA SettledIsRecent ==
    ASSUME NEW q \in Seq(Messages), NEW k, At(q, k), Fits(Recent(q, k))
    PROVE  LET fitting == {e \in 0..Spare(q) : Fits(Recent(q, e))}
           IN fitting # {} /\ Min(fitting) = k
  <1> DEFINE fitting == {e \in 0..Spare(q) : Fits(Recent(q, e))}
  <1>1. k \in 0..Spare(q) /\ Spare(q) \in Nat
    BY AtIsSpare, PinnedIs
  <1>2. k \in fitting
    BY <1>1
  <1>3. ASSUME NEW e \in fitting PROVE k <= e
    <2>1. CASE config.overflow = "error"
      BY <1>1, <2>1 DEF At
    <2>2. CASE config.overflow # "error"
      <3>1. ~(e \in 0..(k - 1))
        BY <2>2 DEF At, Settled
      <3> QED BY <1>1, <3>1
    <2> QED BY <2>1, <2>2
  <1>4. fitting \subseteq Nat
    BY <1>1
  <1> HIDE DEF fitting
  <1>5. \A x \in fitting : (\A y \in fitting : x <= y) => x = k
    BY <1>2, <1>3, <1>4
  <1>6. Min(fitting) = k
    BY <1>2, <1>3, <1>5 DEF Min
  <1> QED BY <1>2, <1>6 DEF fitting

-------------------------------------------------------------------------------
(* What a turn adds *)

\* What was said with the turn that is about to be stored.
Grown == said \o reply \o results

LEMMA GrownIs ==
    ASSUME ConversationInv, phase = "dispatching"
    PROVE  /\ Grown \in Seq(Messages) /\ Grown # <<>>
           /\ Len(Grown) = Len(said) + 1 + Len(results)
           /\ Len(said) \in Nat /\ Len(results) \in Nat /\ Len(said) >= 1
           /\ \A i \in 1..Len(said) : Grown[i] = said[i]
           /\ Grown[Len(said) + 1] = reply[1]
           /\ \A k \in 1..Len(results) : Grown[Len(said) + 1 + k] = results[k]
  <1> DEFINE front == said \o reply  L == Len(said)  R == Len(results)
  <1>1. /\ said \in Seq(Messages) /\ reply \in Seq(Messages) /\ results \in Seq(Messages)
        /\ Len(reply) = 1 /\ said # <<>>
    BY DEF ConversationInv, ConversationTypeOK, MemoryInv, TurnInv
  <1>2. L \in Nat /\ R \in Nat /\ L >= 1
    <2>1. L \in Nat /\ R \in Nat
      BY <1>1, LenProperties
    <2>2. L \in Nat \ {0}
      BY <1>1, EmptySeq
    <2> HIDE DEF L, R
    <2> QED BY <2>1, <2>2
  <1>3. /\ front \in Seq(Messages) /\ Len(front) = L + Len(reply)
        /\ \A i \in 1..(L + Len(reply)) : front[i] = IF i <= L THEN said[i] ELSE reply[i - L]
    BY <1>1, ConcatProperties
  <1> HIDE DEF front
  <1>4. Len(front) = L + 1 /\ (\A i \in 1..L : front[i] = said[i]) /\ front[L + 1] = reply[1]
    <2>1. \A i \in 1..L : i \in 1..(L + Len(reply)) /\ i <= L
      BY <1>1, <1>2
    <2>2. L + 1 \in 1..(L + Len(reply)) /\ ~(L + 1 <= L) /\ L + 1 - L = 1
      BY <1>1, <1>2
    <2> HIDE DEF L
    <2>3. \A i \in 1..L : front[i] = said[i]
      BY <1>3, <2>1
    <2>4. front[L + 1] = reply[L + 1 - L]
      <3>1. \A i : i \in 1..(L + Len(reply)) /\ ~(i <= L) => front[i] = reply[i - L]
        BY <1>3
      <3>2. L \in Int /\ Len(reply) \in Int
        BY <1>1, <1>2
      <3> QED BY <2>2, <3>1, <3>2
    <2>5. front[L + 1] = reply[1]
      BY <2>2, <2>4
    <2>6. Len(front) = L + 1
      BY <1>1, <1>3
    <2> QED BY <2>3, <2>5, <2>6
  <1>5. /\ front \o results \in Seq(Messages) /\ Len(front \o results) = Len(front) + R
        /\ \A i \in 1..(Len(front) + R) :
              (front \o results)[i] = IF i <= Len(front) THEN front[i] ELSE results[i - Len(front)]
    <2>1. front \in Seq(Messages) /\ results \in Seq(Messages)
      BY <1>1, <1>3
    <2> QED BY <2>1, ConcatProperties
  <1>6. Grown = front \o results
    BY DEF Grown, front
  <1>7. Len(Grown) = L + 1 + R /\ Grown \in Seq(Messages)
    BY <1>4, <1>5, <1>6
  <1> HIDE DEF L, R
  <1>8. \A i \in 1..(L + 1) : Grown[i] = front[i]
    <2>1. \A i \in 1..(L + 1) : i \in 1..(L + 1 + R) /\ i <= L + 1
      BY <1>2
    <2> QED BY <1>4, <1>5, <1>6, <2>1
  <1>9. \A k \in 1..R : Grown[L + 1 + k] = results[k]
    <2>1. \A k \in 1..R : L + 1 + k \in 1..(L + 1 + R) /\ ~(L + 1 + k <= L + 1) /\ L + 1 + k - (L + 1) = k
      BY <1>2
    <2> QED BY <1>4, <1>5, <1>6, <2>1
  <1>10. Grown # <<>>
    BY <1>2, <1>7, EmptySeq
  <1>11. (\A i \in 1..L : Grown[i] = said[i]) /\ Grown[L + 1] = reply[1]
    <2>1. \A i \in 1..L : i \in 1..(L + 1)
      BY <1>2
    <2>2. L + 1 \in 1..(L + 1)
      BY <1>2
    <2> QED BY <1>4, <1>8, <2>1, <2>2
  <1> QED BY <1>2, <1>7, <1>9, <1>10, <1>11 DEF L, R

LEMMA GrownKeeps ==
    ASSUME ConversationInv, phase = "dispatching", Dispatched
    PROVE  Led(Grown) /\ Answered(Grown)
  <1> DEFINE L == Len(said)  R == Len(results)
  <1>1. /\ Grown \in Seq(Messages) /\ Len(Grown) = L + 1 + R
        /\ L \in Nat /\ R \in Nat /\ L >= 1
        /\ \A i \in 1..L : Grown[i] = said[i]
        /\ Grown[L + 1] = reply[1]
        /\ \A k \in 1..R : Grown[L + 1 + k] = results[k]
    BY GrownIs
  <1>2. /\ Led(said) /\ Answered(said) /\ DOMAIN said = 1..L /\ DOMAIN results = 1..R
        /\ reply[1].id = <<calls, 0>> /\ reply[1].role = "assistant" /\ reply[1].calls = R
        /\ \A k \in 1..R : results[k].id = <<calls, k>> /\ results[k].role = "tool" /\ results[k].calls = 0
    <2>1. DOMAIN said = 1..L /\ DOMAIN results = 1..R
      BY LenProperties DEF ConversationInv, ConversationTypeOK
    <2> QED BY <2>1 DEF ConversationInv, MemoryInv, TurnInv, Dispatched
  <1>3. DOMAIN Grown = 1..(L + 1 + R)
    BY <1>1, LenProperties
  <1> HIDE DEF L, R
  <1>4. ASSUME NEW i \in 1..(L + 1 + R)
        PROVE  i \in 1..L \/ i = L + 1 \/ (\E k \in 1..R : i = L + 1 + k)
    <2>1. CASE i > L + 1
      <3>1. i - (L + 1) \in 1..R /\ i = L + 1 + (i - (L + 1))
        BY <1>1, <2>1
      <3> QED BY <3>1
    <2>2. CASE ~(i > L + 1)
      BY <1>1, <2>2
    <2> QED BY <2>1, <2>2
  <1>5. Led(Grown)
    <2>1. ASSUME NEW i \in 1..(L + 1 + R), Grown[i].role = "system" PROVE i = 1
      <3>1. CASE i \in 1..L
        BY <1>1, <1>2, <2>1, <3>1 DEF Led
      <3>2. CASE i = L + 1
        BY <1>1, <1>2, <2>1, <3>2
      <3>3. ASSUME NEW k \in 1..R, i = L + 1 + k PROVE FALSE
        BY <1>1, <1>2, <2>1, <3>3
      <3> QED BY <1>4, <3>1, <3>2, <3>3
    <2> QED BY <1>1, <1>3, <2>1 DEF Led
  <1>6. Answered(Grown)
    <2>1. ASSUME NEW i \in 1..(L + 1 + R), NEW k \in 1..Grown[i].calls
          PROVE  i + k \in 1..(L + 1 + R) /\ Grown[i + k].id = <<Grown[i].id[1], k>>
      <3>1. CASE i \in 1..L
        <4>1. Grown[i] = said[i]
          BY <1>1, <3>1
        <4>2. i + k \in 1..L /\ said[i + k].id = <<said[i].id[1], k>>
          BY <1>2, <2>1, <3>1, <4>1 DEF Answered
        <4>3. \A n \in 1..L : n \in 1..(L + 1 + R)
          BY <1>1
        <4> QED BY <1>1, <4>1, <4>2, <4>3
      <3>2. CASE i = L + 1
        <4>1. k \in 1..R /\ Grown[i + k] = results[k]
          BY <1>1, <1>2, <2>1, <3>2
        <4>2. i + k \in 1..(L + 1 + R)
          BY <1>1, <3>2, <4>1
        <4>3. Grown[i].id[1] = calls
          BY <1>1, <1>2, <3>2
        <4> QED BY <1>2, <4>1, <4>2, <4>3
      <3>3. ASSUME NEW n \in 1..R, i = L + 1 + n PROVE FALSE
        <4>1. Grown[i].calls = 0
          BY <1>1, <1>2, <3>3
        <4> QED BY <2>1, <4>1
      <3> QED BY <1>4, <3>1, <3>2, <3>3
    <2> QED BY <1>3, <2>1 DEF Answered
  <1> QED BY <1>5, <1>6

LEMMA PushedIs ==
    ASSUME ConversationInv, phase = "dispatching"
    PROVE  /\ Pushed \in Seq(Messages)
           /\ (IF stored THEN said ELSE <<>>) \o Pushed = Grown
  <1>1. said \in Seq(Messages) /\ reply \in Seq(Messages) /\ results \in Seq(Messages)
    BY DEF ConversationInv, ConversationTypeOK
  <1>2. CASE stored
    <2>1. Pushed = <<>> \o reply \o results
      BY <1>2 DEF Pushed
    <2>2. <<>> \o reply = reply
      BY <1>1, ConcatEmptySeq
    <2>3. Pushed = reply \o results /\ reply \o results \in Seq(Messages)
      BY <1>1, <2>1, <2>2, ConcatProperties
    <2>4. said \o (reply \o results) = (said \o reply) \o results
      BY <1>1, ConcatAssociative
    <2> QED BY <1>2, <2>3, <2>4 DEF Grown
  <1>3. CASE ~stored
    <2>1. said = config.prompt
      BY <1>3 DEF ConversationInv, MemoryInv
    <2>2. Pushed = Grown
      BY <1>3, <2>1 DEF Pushed, Grown
    <2>3. Grown \in Seq(Messages)
      BY GrownIs
    <2>4. <<>> \o Grown = Grown
      BY <2>3, ConcatEmptySeq
    <2> QED BY <1>3, <2>2, <2>3, <2>4
  <1> QED BY <1>2, <1>3

-------------------------------------------------------------------------------
(* Every step keeps the invariant *)

LEMMA ConversationInitHolds == ConversationInit => ConversationInv
  <1> SUFFICES ASSUME ConversationInit PROVE ConversationInv
    OBVIOUS
  <1>1. /\ config.prompt \in Seq(Messages) /\ config.prompt # <<>>
        /\ Led(config.prompt) /\ Answered(config.prompt)
    BY PromptIs DEF ConversationInit
  <1>2. <<>> \in Seq(Messages) /\ Len(<<>>) = 0 /\ remote \in Seq(Seq(Messages)) /\ Len(said) \in Nat
    <2>1. <<>> \in Seq(Messages) /\ Len(<<>>) = 0
      BY EmptySeq
    <2>2. Len(config.prompt) \in Nat
      BY <1>1, LenProperties
    <2>3. <<>> \in Seq(Seq(Messages))
      BY EmptySeq
    <2> QED BY <2>1, <2>2, <2>3 DEF ConversationInit
  <1>3. ConversationTypeOK
    <2>1. 0 \in 0..MaxIterations /\ 0 <= MaxTools /\ 0 <= 1 /\ 0 <= Len(said) /\ 0 \in 0..0 /\ 0 \in Nat
      BY <1>2, ConversationAssumption
    <2>2. config \in Configs /\ stored \in BOOLEAN /\ calls \in 0..MaxIterations /\ tokens \in Nat
      BY <2>1 DEF ConversationInit
    <2>3. request.previous \in 0..Len(remote) /\ session.id \in 0..Len(remote) /\ request.messages \in Seq(Messages)
      BY <1>2, <2>1 DEF ConversationInit, NoSession
    <2>4. /\ reply \in Seq(Messages) /\ Len(reply) <= 1 /\ results \in Seq(Messages) /\ Len(results) <= MaxTools
          /\ context \in Seq(Messages) /\ said \in Seq(Messages) /\ Len(context) <= Len(said)
      BY <1>1, <1>2, <2>1 DEF ConversationInit
    <2> QED BY <1>2, <2>2, <2>3, <2>4 DEF ConversationInit, ConversationTypeOK
  <1>4. MemoryInv
    BY <1>1 DEF ConversationInit, MemoryInv, ContextIsRecent
  <1>5. TurnInv
    BY ConversationAssumption DEF ConversationInit, TurnInv
  <1>6. SessionInv
    BY <1>2 DEF ConversationInit, SessionInv, NoSession, UntrimmedIsTold
  <1> QED BY <1>3, <1>4, <1>5, <1>6 DEF ConversationInv

\* Steps that leave the memory alone.
LEMMA MemoryStays ==
    ASSUME MemoryInv, UNCHANGED <<config, memory>>, phase' # phase => phase # "failed"
    PROVE  MemoryInv' /\ History' = History
  <1>1. config' = config /\ stored' = stored /\ context' = context /\ said' = said
    BY DEF memory
  <1>2. ContextIsRecent'
    BY <1>1 DEF MemoryInv, ContextIsRecent, Fits
  <1>3. History' = History
    BY <1>1 DEF History
  <1> QED BY <1>1, <1>2, <1>3 DEF MemoryInv

\* The history of a turn, against what was said.
LEMMA HistoryIs ==
    ASSUME ConversationInv, phase # "failed"
    PROVE  /\ History \in Seq(Messages) /\ Len(History) \in Nat /\ Len(said) \in Nat
           /\ Len(History) <= Len(said)
           /\ Len(History) = Len(said) => History = said
  <1>1. said \in Seq(Messages) /\ Len(said) \in Nat /\ config \in Configs
    BY LenProperties DEF ConversationInv, ConversationTypeOK
  <1>2. CASE stored
    <2>1. PICK k \in 0..Spare(said) : At(said, k) /\ context = Recent(said, k)
      BY <1>2, ContextSettled DEF ConversationInv
    <2>2. /\ Recent(said, k) \in Seq(Messages) /\ Len(Recent(said, k)) = Len(said) - k
          /\ Len(said) - k \in Nat /\ k \in Nat
      <3>1. Spare(said) \in Nat
        BY <1>1, PinnedIs
      <3> QED BY <1>1, <3>1, RecentIs
    <2>3. History = Recent(said, k)
      BY <1>2, <2>1 DEF History
    <2>4. k = 0 => History = said
      BY <1>1, <2>3, RecentNone
    <2>5. Len(said) - k = Len(said) => k = 0
      BY <1>1, <2>2
    <2>6. Len(said) - k <= Len(said)
      BY <1>1, <2>2
    <2> QED BY <1>1, <2>2, <2>3, <2>4, <2>5, <2>6
  <1>3. CASE ~stored
    BY <1>1, <1>3 DEF ConversationInv, MemoryInv, History
  <1> QED BY <1>2, <1>3

\* What the model node sends, and what it leaves to the session.
LEMMA OutgoingIs ==
    ASSUME ConversationInv, phase # "failed"
    PROVE  /\ Outgoing.messages \in Seq(Messages) /\ Len(Outgoing.messages) <= Len(said)
           /\ Continues => /\ Outgoing.previous = session.id /\ session.count <= Len(History)
                           /\ Len(Outgoing.messages) = Len(History) - session.count
                           /\ \A i \in 1..(Len(History) - session.count) :
                                 Outgoing.messages[i] = History[session.count + i]
           /\ ~Continues => Outgoing = [previous |-> 0, messages |-> History]
  <1> DEFINE n == session.count  rest == SubSeq(History, n + 1, Len(History))
  <1>1. History \in Seq(Messages) /\ Len(History) \in Nat /\ Len(said) \in Nat /\ Len(History) <= Len(said)
    BY HistoryIs
  <1>2. n \in Nat
    BY <1>1 DEF ConversationInv, SessionInv
  <1>3. CASE Continues
    <2> DEFINE a == n + 1
    <2>1. n <= Len(History) /\ Outgoing = [previous |-> session.id, messages |-> rest]
      BY <1>1, <1>2, <1>3 DEF Continues, Outgoing
    <2>2. a \in Int /\ Len(History) \in Int /\ \A i \in a..Len(History) : History[i] \in Messages
      BY <1>1, <1>2, ElementOfSeq
    <2> HIDE DEF a
    <2>3. /\ SubSeq(History, a, Len(History)) \in Seq(Messages)
          /\ Len(SubSeq(History, a, Len(History))) = IF a <= Len(History) THEN Len(History) - a + 1 ELSE 0
          /\ \A i \in 1..(Len(History) - a + 1) : SubSeq(History, a, Len(History))[i] = History[a + i - 1]
      BY <2>2, SubSeqProperties
    <2>4. rest = SubSeq(History, a, Len(History))
      BY DEF a
    <2> HIDE DEF rest
    <2>5. Len(History) - a + 1 = Len(History) - n /\ Len(rest) = Len(History) - n
      BY <1>1, <1>2, <2>1, <2>3, <2>4 DEF a
    <2>6. ASSUME NEW i \in 1..(Len(History) - n) PROVE rest[i] = History[n + i]
      <3>1. a + i - 1 = n + i
        BY <1>2 DEF a
      <3> QED BY <2>3, <2>4, <2>5, <3>1
    <2>7. Len(rest) <= Len(said) /\ rest \in Seq(Messages)
      BY <1>1, <1>2, <2>3, <2>4, <2>5
    <2> QED BY <1>3, <2>1, <2>5, <2>6, <2>7
  <1>4. CASE ~Continues
    <2>1. Outgoing = [previous |-> 0, messages |-> History]
      BY <1>4 DEF Outgoing
    <2> QED BY <1>1, <1>4, <2>1
  <1> QED BY <1>3, <1>4

LEMMA AskKeeps ==
    ASSUME ConversationInv, Ask
    PROVE  ConversationInv'
  <1>1. /\ phase = "ready" /\ phase' = "asking" /\ calls' = calls + 1 /\ request' = Outgoing
        /\ config' = config /\ memory' = memory /\ remote' = remote /\ reply' = reply /\ results' = results
        /\ tokens' = tokens
        /\ session' = IF config.responses /\ ~Continues THEN NoSession ELSE session
    BY DEF Ask, turn
  <1>2. MemoryInv' /\ History' = History
    BY <1>1, MemoryStays DEF ConversationInv
  <1>3. /\ History \in Seq(Messages) /\ Len(History) \in Nat /\ Len(said) \in Nat /\ Len(History) <= Len(said)
        /\ Len(History) = Len(said) => History = said
    BY <1>1, HistoryIs
  <1>4. /\ Outgoing.messages \in Seq(Messages) /\ Len(Outgoing.messages) <= Len(said)
        /\ Continues => /\ Outgoing.previous = session.id /\ session.count <= Len(History)
                        /\ Len(Outgoing.messages) = Len(History) - session.count
                        /\ \A i \in 1..(Len(History) - session.count) :
                              Outgoing.messages[i] = History[session.count + i]
        /\ ~Continues => Outgoing = [previous |-> 0, messages |-> History]
    BY <1>1, OutgoingIs
  <1>5. said' = said /\ stored' = stored /\ context' = context
    BY <1>1 DEF memory
  <1>6. calls \in 0..MaxIterations /\ calls < MaxIterations /\ calls + 1 \in 0..MaxIterations /\ calls + 1 >= 1
    BY <1>1, ConversationAssumption DEF ConversationInv, ConversationTypeOK, TurnInv
  <1>7. Outgoing.previous \in 0..Len(remote)
    <2>1. 0 \in 0..Len(remote) /\ session.id \in 0..Len(remote)
      BY DEF ConversationInv, ConversationTypeOK
    <2> QED BY <1>4, <2>1
  <1>8. session' = session \/ session' = NoSession
    BY <1>1
  <1>9. ConversationTypeOK'
    <2>1. session'.id \in 0..Len(remote)
      BY <1>7, <1>8 DEF ConversationInv, ConversationTypeOK, NoSession
    <2> QED BY <1>1, <1>4, <1>5, <1>6, <1>7, <2>1 DEF ConversationInv, ConversationTypeOK
  <1>10. TurnInv'
    BY <1>1, <1>6 DEF TurnInv
  <1>11. UntrimmedIsTold'
    <2> SUFFICES ASSUME Len(History) = Len(said)
                 PROVE  ToSet(said) \subseteq ToSet(Told)' /\ Told' # <<>> /\ Last(Told)' = Last(said)
      BY <1>2, <1>5 DEF UntrimmedIsTold
    <2>1. History = said /\ said # <<>> /\ said \in Seq(Messages) /\ Len(said) \in Nat \ {0}
      BY <1>3, EmptySeq DEF ConversationInv, MemoryInv
    <2>2. DOMAIN said = 1..Len(said)
      BY <2>1, LenProperties
    <2>3. CASE Continues
      <3> DEFINE n == session.count  held == remote[session.id]  sent == Outgoing.messages
      <3>1. session # NoSession /\ session.id \in 1..Len(remote) /\ n \in 0..Len(said) /\ n < Len(said)
        BY <1>1, <1>3, <2>3 DEF Continues, ConversationInv, SessionInv, ConversationTypeOK
      <3>2. held \in Seq(Messages) /\ \A i \in 1..n : said[i] \in ToSet(held)
        <4>1. held \in Seq(Messages)
          BY <3>1, ElementOfSeq DEF ConversationInv, ConversationTypeOK
        <4> QED BY <1>1, <3>1, <4>1 DEF ConversationInv, SessionInv
      <3>3. Told' = held \o sent
        <4>1. Outgoing.previous = session.id /\ session.id # 0
          BY <1>4, <2>3, <3>1
        <4> QED BY <1>1, <4>1 DEF Told
      <3>4. /\ sent \in Seq(Messages) /\ Len(sent) = Len(said) - n
            /\ \A i \in 1..(Len(said) - n) : sent[i] = said[n + i]
        BY <1>4, <2>1, <2>3
      <3> HIDE DEF n, held, sent
      <3>5. /\ held \o sent \in Seq(Messages) /\ Len(held \o sent) = Len(held) + Len(sent)
            /\ \A i \in 1..(Len(held) + Len(sent)) :
                  (held \o sent)[i] = IF i <= Len(held) THEN held[i] ELSE sent[i - Len(held)]
        <4>1. held \in Seq(Messages) /\ sent \in Seq(Messages)
          BY <3>2, <3>4
        <4> QED BY <4>1, ConcatProperties
      <3>6. Len(held) \in Nat /\ DOMAIN held = 1..Len(held) /\ DOMAIN (held \o sent) = 1..(Len(held) + Len(sent))
        BY <3>2, <3>5, LenProperties
      <3>7. \A i \in 1..Len(held) : held[i] \in ToSet(held \o sent)
        <4>1. \A i \in 1..Len(held) : i \in 1..(Len(held) + Len(sent)) /\ i <= Len(held)
          BY <2>1, <3>1, <3>4, <3>6
        <4>2. \A i \in 1..Len(held) : (held \o sent)[i] = held[i] /\ i \in DOMAIN (held \o sent)
          BY <3>5, <3>6, <4>1
        <4> QED BY <4>2 DEF ToSet
      <3>8. \A i \in 1..(Len(said) - n) : /\ (held \o sent)[Len(held) + i] = said[n + i]
                                          /\ Len(held) + i \in DOMAIN (held \o sent)
        <4>1. \A i \in 1..(Len(said) - n) :
                 /\ Len(held) + i \in 1..(Len(held) + Len(sent))
                 /\ ~(Len(held) + i <= Len(held)) /\ Len(held) + i - Len(held) = i
          BY <2>1, <3>1, <3>4, <3>6
        <4> QED BY <3>4, <3>5, <3>6, <4>1
      <3>9. ASSUME NEW i \in 1..Len(said) PROVE said[i] \in ToSet(held \o sent)
        <4>1. CASE i <= n
          <5>1. i \in 1..n
            BY <3>1, <4>1
          <5>2. PICK j \in 1..Len(held) : held[j] = said[i]
            BY <3>2, <3>6, <5>1 DEF ToSet
          <5> QED BY <3>7, <5>2
        <4>2. CASE ~(i <= n)
          <5>1. i - n \in 1..(Len(said) - n) /\ n + (i - n) = i
            BY <2>1, <3>1, <4>2
          <5>2. (held \o sent)[Len(held) + (i - n)] = said[i] /\ Len(held) + (i - n) \in DOMAIN (held \o sent)
            BY <3>8, <5>1
          <5> QED BY <5>2 DEF ToSet
        <4> QED BY <4>1, <4>2
      <3>10. ToSet(said) \subseteq ToSet(held \o sent)
        BY <2>2, <3>9 DEF ToSet
      <3>11. held \o sent # <<>> /\ Last(held \o sent) = Last(said)
        <4>1. /\ Len(said) - n \in 1..(Len(said) - n) /\ n + (Len(said) - n) = Len(said)
              /\ Len(held) + (Len(said) - n) = Len(held \o sent) /\ Len(held \o sent) # 0
          BY <2>1, <3>1, <3>4, <3>5, <3>6
        <4>2. (held \o sent)[Len(held \o sent)] = said[Len(said)]
          BY <3>8, <4>1
        <4>3. held \o sent # <<>>
          BY <4>1, EmptySeq
        <4> QED BY <4>2, <4>3 DEF Last
      <3> QED BY <3>3, <3>10, <3>11
    <2>4. CASE ~Continues
      <3>1. Told' = <<>> \o said
        BY <1>1, <1>4, <2>1, <2>4 DEF Told
      <3>2. Told' = said
        BY <2>1, <3>1, ConcatEmptySeq
      <3> QED BY <2>1, <3>2
    <2> QED BY <2>3, <2>4
  <1>12. SessionInv'
    <2>1. 0 \in 0..Len(said)
      BY <1>3
    <2>2. session'.count \in 0..Len(said)
      BY <1>8, <2>1 DEF ConversationInv, SessionInv, NoSession
    <2>3. session' # NoSession => session'.id >= 1
      BY <1>8 DEF ConversationInv, SessionInv
    <2>4. session' # NoSession /\ Len(History) = Len(said) =>
             \A i \in 1..session'.count : said[i] \in ToSet(remote[session'.id])
      BY <1>1, <1>8 DEF ConversationInv, SessionInv
    <2> QED BY <1>1, <1>2, <1>4, <1>5, <1>11, <2>2, <2>3, <2>4 DEF SessionInv
  <1> QED BY <1>2, <1>9, <1>10, <1>12 DEF ConversationInv

\* Steps that end the turn and change nothing else but the session.
LEMMA EndingKeeps ==
    ASSUME ConversationInv, phase # "failed", phase' = "failed",
           UNCHANGED <<config, memory, request, remote, turn, usage>>,
           session' = session \/ session' = NoSession
    PROVE  ConversationInv'
  <1>1. /\ config' = config /\ stored' = stored /\ context' = context /\ said' = said
        /\ request' = request /\ remote' = remote /\ reply' = reply /\ results' = results
        /\ calls' = calls /\ tokens' = tokens
    BY DEF memory, turn, usage
  <1>2. MemoryInv'
    BY <1>1, MemoryStays DEF ConversationInv, memory
  <1>3. session'.id \in 0..Len(remote) /\ session'.count \in 0..Len(said)
        /\ (session' # NoSession => session'.id >= 1)
    <2>1. 0 \in 0..Len(said) /\ 0 \in 0..Len(remote) /\ NoSession.id = 0 /\ NoSession.count = 0
      <3>1. Len(said) \in Nat
        BY LenProperties DEF ConversationInv, ConversationTypeOK
      <3>2. session.id \in 0..Len(remote)
        BY DEF ConversationInv, ConversationTypeOK
      <3> QED BY <3>1, <3>2 DEF NoSession
    <2> QED BY <2>1 DEF ConversationInv, ConversationTypeOK, SessionInv
  <1>4. ConversationTypeOK'
    BY <1>1, <1>3 DEF ConversationInv, ConversationTypeOK
  <1>5. TurnInv'
    BY DEF TurnInv
  <1>6. SessionInv'
    BY <1>1, <1>3 DEF SessionInv, UntrimmedIsTold
  <1> QED BY <1>2, <1>4, <1>5, <1>6 DEF ConversationInv

LEMMA ReplyKeeps ==
    ASSUME ConversationInv, NEW text \in Texts, NEW n \in 0..MaxTools, NEW cost \in Usages,
           NEW named \in BOOLEAN, Reply(text, n, cost, named)
    PROVE  ConversationInv'
  <1> DEFINE message == [Message("assistant", text, <<calls, 0>>) EXCEPT !.calls = n]
             held == IF request.previous = 0 THEN <<>> ELSE remote[request.previous]
             sent == request.messages
             full == held \o Append(sent, message)
             noted == [id |-> Len(remote'), count |-> Len(sent), first |-> First(sent)]
             L == Len(remote)
  <1>1. /\ phase = "asking" /\ phase' \in {"failed", "answered", "dispatching"}
        /\ config' = config /\ memory' = memory /\ request' = request /\ calls' = calls
        /\ remote' = Append(remote, full)
        /\ session' = IF ~named THEN session ELSE noted
        /\ reply' = <<message>> /\ results' = <<>>
        /\ tokens' \in {tokens, tokens + cost}
    BY DEF Reply
  <1>2. MemoryInv' /\ History' = History
    BY <1>1, MemoryStays DEF ConversationInv
  <1>3. said' = said /\ stored' = stored /\ context' = context
    BY <1>1 DEF memory
  <1>4. /\ message \in Messages /\ message.id = <<calls, 0>> /\ message.role = "assistant"
        /\ message.calls = n
    <2>1. calls \in 1..MaxIterations /\ 0 \in 0..MaxTools
      BY <1>1, ConversationAssumption DEF ConversationInv, ConversationTypeOK, TurnInv
    <2>2. message = [role |-> "assistant", text |-> text, id |-> <<calls, 0>>, calls |-> n]
      BY DEF Message
    <2> QED BY <2>1, <2>2 DEF Messages
  <1> HIDE DEF message
  <1>5. /\ held \in Seq(Messages) /\ sent \in Seq(Messages) /\ full \in Seq(Messages)
        /\ full = Append(Told, message)
    <2>1. held \in Seq(Messages) /\ sent \in Seq(Messages)
      <3>1. sent \in Seq(Messages) /\ request.previous \in 0..Len(remote)
            /\ remote \in Seq(Seq(Messages)) /\ L \in Nat
        BY LenProperties DEF ConversationInv, ConversationTypeOK
      <3>2. \A r \in 1..L : remote[r] \in Seq(Messages)
        BY <3>1, ElementOfSeq
      <3>3. request.previous # 0 => request.previous \in 1..L
        BY <3>1
      <3> QED BY <3>1, <3>2, <3>3, EmptySeq
    <2> HIDE DEF held, sent
    <2>2. Append(sent, message) = sent \o <<message>> /\ <<message>> \in Seq(Messages)
      BY <1>4, <2>1, AppendIsConcat
    <2>3. full = (held \o sent) \o <<message>> /\ held \o sent \in Seq(Messages)
      BY <2>1, <2>2, ConcatAssociative, ConcatProperties
    <2>4. full \in Seq(Messages) /\ full = Append(held \o sent, message)
      BY <1>4, <2>2, <2>3, AppendIsConcat, ConcatProperties
    <2>5. Told = held \o sent
      BY DEF Told, held, sent
    <2> QED BY <2>1, <2>4, <2>5
  <1> HIDE DEF full
  <1>6. /\ remote \in Seq(Seq(Messages)) /\ L \in Nat /\ remote' \in Seq(Seq(Messages))
        /\ Len(remote') = L + 1 /\ remote'[L + 1] = full
        /\ \A r \in 1..L : remote'[r] = remote[r]
    <2>1. remote \in Seq(Seq(Messages)) /\ L \in Nat
      BY LenProperties DEF ConversationInv, ConversationTypeOK
    <2> QED BY <1>1, <1>5, <2>1, AppendProperties
  <1>7. /\ said \in Seq(Messages) /\ Len(said) \in Nat /\ Len(sent) \in Nat /\ Len(sent) <= Len(said)
        /\ DOMAIN said = 1..Len(said)
        /\ request.previous \in 0..L /\ session.id \in 0..L /\ session.count \in 0..Len(said)
    <2>1. said \in Seq(Messages) /\ sent \in Seq(Messages)
      BY DEF ConversationInv, ConversationTypeOK
    <2> HIDE DEF sent
    <2>2. Len(said) \in Nat /\ Len(sent) \in Nat /\ DOMAIN said = 1..Len(said)
      BY <2>1, LenProperties
    <2> QED BY <1>1, <2>1, <2>2 DEF ConversationInv, ConversationTypeOK, SessionInv, sent
  <1>8. session'.id \in 0..Len(remote') /\ session'.count \in 0..Len(said) /\ (session' # NoSession => session'.id >= 1)
    <2>1. CASE named
      <3>1. session'.id = L + 1 /\ session'.count = Len(sent)
        BY <1>1, <1>6, <2>1
      <3> QED BY <1>6, <1>7, <3>1
    <2>2. CASE ~named
      BY <1>1, <1>6, <1>7, <2>2 DEF ConversationInv, SessionInv
    <2> QED BY <2>1, <2>2
  <1>9. ConversationTypeOK'
    <2>1. <<message>> \in Seq(Messages) /\ Len(<<message>>) <= 1 /\ <<>> \in Seq(Messages) /\ Len(<<>>) <= MaxTools
      BY <1>4, EmptySeq, ConversationAssumption
    <2>2. tokens' \in Nat
      BY <1>1, ConversationAssumption DEF ConversationInv, ConversationTypeOK
    <2>3. request'.previous \in 0..Len(remote')
      BY <1>1, <1>6, <1>7
    <2>4. /\ config' \in Configs /\ stored' \in BOOLEAN /\ calls' \in 0..MaxIterations
          /\ request'.messages \in Seq(Messages) /\ context' \in Seq(Messages) /\ said' \in Seq(Messages)
          /\ Len(context') <= Len(said')
      BY <1>1, <1>3 DEF ConversationInv, ConversationTypeOK
    <2> QED BY <1>1, <1>6, <1>8, <2>1, <2>2, <2>3, <2>4 DEF ConversationTypeOK
  <1>10. TurnInv'
    <2>1. <<message>>[1] = message /\ Len(<<message>>) = 1 /\ Len(<<>>) = 0 /\ DOMAIN <<>> = {} /\ 0 <= n
      OBVIOUS
    <2> QED BY <1>1, <1>4, <2>1 DEF ConversationInv, TurnInv
  <1>11. ASSUME session' # NoSession, Len(History) = Len(said), NEW i \in 1..session'.count
         PROVE  said[i] \in ToSet(remote'[session'.id])
    <2>1. CASE named
      <3>1. session'.id = L + 1 /\ session'.count = Len(sent) /\ remote'[session'.id] = full
        BY <1>1, <1>6, <2>1
      <3>2. said[i] \in ToSet(Told)
        <4>1. ToSet(said) \subseteq ToSet(Told)
          BY <1>1, <1>11 DEF ConversationInv, SessionInv, UntrimmedIsTold
        <4>2. i \in DOMAIN said
          BY <1>7, <1>8, <1>11
        <4> QED BY <4>1, <4>2 DEF ToSet
      <3>3. Told \in Seq(Messages)
        <4>1. Told = held \o sent
          BY DEF Told
        <4> HIDE DEF held, sent
        <4> QED BY <1>5, <4>1, ConcatProperties
      <3>4. PICK j \in DOMAIN Told : Told[j] = said[i]
        BY <3>2 DEF ToSet
      <3>5. j \in DOMAIN full /\ full[j] = Told[j]
        <4>1. /\ DOMAIN Told = 1..Len(Told) /\ Len(Told) \in Nat
              /\ DOMAIN full = 1..Len(full) /\ Len(full) = Len(Told) + 1
              /\ \A k \in 1..Len(Told) : full[k] = Told[k]
          BY <1>4, <1>5, <3>3, AppendProperties, LenProperties
        <4> QED BY <3>4, <4>1
      <3> QED BY <3>1, <3>4, <3>5 DEF ToSet
    <2>2. CASE ~named
      <3>1. session' = session /\ session.id \in 1..L
        BY <1>1, <1>7, <1>11, <2>2 DEF ConversationInv, SessionInv
      <3>2. said[i] \in ToSet(remote[session.id])
        BY <1>1, <1>11, <3>1 DEF ConversationInv, SessionInv
      <3> QED BY <1>6, <3>1, <3>2
    <2> QED BY <2>1, <2>2
  <1>12. SessionInv'
    <2>1. phase' # "asking" /\ phase' # "ready"
      BY <1>1
    <2> QED BY <1>2, <1>3, <1>8, <1>11, <2>1 DEF SessionInv, UntrimmedIsTold
  <1> QED BY <1>2, <1>9, <1>10, <1>12 DEF ConversationInv

LEMMA DispatchKeeps ==
    ASSUME ConversationInv, NEW ok \in BOOLEAN, Dispatch(ok)
    PROVE  ConversationInv'
  <1> DEFINE r == Result(ok)  R == Len(results)
  <1>1. /\ phase = "dispatching" /\ phase' = phase /\ R < reply[1].calls /\ results' = Append(results, r)
        /\ config' = config /\ memory' = memory /\ request' = request /\ remote' = remote
        /\ session' = session /\ reply' = reply /\ calls' = calls /\ tokens' = tokens
    BY DEF Dispatch, usage
  <1>2. said' = said /\ stored' = stored /\ context' = context
    BY <1>1 DEF memory
  <1>3. MemoryInv' /\ History' = History
    BY <1>1, MemoryStays DEF ConversationInv
  <1>4. /\ results \in Seq(Messages) /\ R \in Nat /\ DOMAIN results = 1..R
        /\ calls \in 1..MaxIterations /\ reply[1].calls \in 0..MaxTools /\ MaxTools \in Nat
        /\ \A k \in 1..R : results[k].id = <<calls, k>> /\ results[k].role = "tool" /\ results[k].calls = 0
    <2>1. results \in Seq(Messages)
      BY DEF ConversationInv, ConversationTypeOK
    <2>2. R \in Nat /\ DOMAIN results = 1..R
      BY <2>1, LenProperties
    <2>3. calls \in 1..MaxIterations /\ MaxTools \in Nat
      BY <1>1, ConversationAssumption DEF ConversationInv, ConversationTypeOK, TurnInv
    <2>4. /\ reply[1].calls \in 0..MaxTools
          /\ \A k \in DOMAIN results : results[k].id = <<calls, k>> /\ results[k].role = "tool" /\ results[k].calls = 0
      BY <1>1 DEF ConversationInv, TurnInv
    <2> QED BY <2>1, <2>2, <2>3, <2>4
  <1>5. /\ r \in Messages /\ r.id = <<calls, R + 1>> /\ r.role = "tool" /\ r.calls = 0
    <2>1. R + 1 \in 0..MaxTools /\ 0 \in 0..MaxTools
      BY <1>1, <1>4
    <2>2. r = [role |-> "tool", text |-> IF ok THEN "value" ELSE "error", id |-> <<calls, R + 1>>, calls |-> 0]
      BY DEF Result, Message
    <2> QED BY <1>4, <2>1, <2>2 DEF Messages
  <1> HIDE DEF r
  <1>6. /\ results' \in Seq(Messages) /\ Len(results') = R + 1 /\ DOMAIN results' = 1..(R + 1)
        /\ results'[R + 1] = r /\ \A k \in 1..R : results'[k] = results[k]
    BY <1>1, <1>4, <1>5, AppendProperties, LenProperties
  <1>7. R + 1 <= reply[1].calls /\ R + 1 <= MaxTools
    BY <1>1, <1>4
  <1>8. ConversationTypeOK'
    BY <1>1, <1>2, <1>6, <1>7 DEF ConversationInv, ConversationTypeOK
  <1>9. TurnInv'
    <2>1. ASSUME NEW k \in 1..(R + 1)
          PROVE  results'[k].id = <<calls, k>> /\ results'[k].role = "tool" /\ results'[k].calls = 0
      <3>1. k = R + 1 \/ k \in 1..R
        BY <1>4
      <3> QED BY <1>4, <1>5, <1>6, <3>1
    <2> QED BY <1>1, <1>6, <1>7, <2>1 DEF ConversationInv, TurnInv
  <1>10. SessionInv'
    BY <1>1, <1>2, <1>3 DEF ConversationInv, SessionInv, UntrimmedIsTold
  <1> QED BY <1>3, <1>8, <1>9, <1>10 DEF ConversationInv

LEMMA StoreKeeps ==
    ASSUME ConversationInv, Store
    PROVE  ConversationInv'
  <1> DEFINE q == IF stored THEN said ELSE <<>>  L == Len(said)
  <1>1. /\ phase = "dispatching" /\ Dispatched /\ stored' = Fits(Updated)
        /\ Fits(Updated) => context' = Updated /\ said' = Grown
        /\ ~Fits(Updated) => context' = <<>> /\ said' = said
        /\ phase' = IF Fits(Updated) /\ calls < MaxIterations THEN "ready" ELSE "failed"
        /\ config' = config /\ request' = request /\ remote' = remote /\ session' = session
        /\ reply' = reply /\ results' = results /\ calls' = calls /\ tokens' = tokens
    BY DEF Store, Grown, turn, usage
  <1>2. Pushed \in Seq(Messages) /\ q \o Pushed = Grown
    BY <1>1, PushedIs
  <1>3. /\ Grown \in Seq(Messages) /\ Grown # <<>> /\ Led(Grown) /\ Answered(Grown)
        /\ Len(Grown) \in Nat /\ L \in Nat /\ L < Len(Grown)
        /\ \A i \in 1..L : Grown[i] = said[i]
    <2>1. /\ Grown \in Seq(Messages) /\ Grown # <<>> /\ Len(Grown) = L + 1 + Len(results)
          /\ L \in Nat /\ Len(results) \in Nat
          /\ \A i \in 1..L : Grown[i] = said[i]
      BY <1>1, GrownIs
    <2>2. Len(Grown) \in Nat /\ L < Len(Grown)
      BY <2>1
    <2> QED BY <1>1, <2>1, <2>2, GrownKeeps
  <1>4. /\ said \in Seq(Messages) /\ context \in Seq(Messages) /\ <<>> \in Seq(Messages)
        /\ q \in Seq(Messages) /\ Len(<<>>) = 0
    <2>1. said \in Seq(Messages) /\ context \in Seq(Messages)
      BY DEF ConversationInv, ConversationTypeOK
    <2> QED BY <2>1, EmptySeq
  <1>5. PICK k \in 0..Spare(q) : At(q, k) /\ context = Recent(q, k)
    <2>1. CASE stored
      <3>1. q = said
        BY <2>1
      <3> QED BY <2>1, <3>1, ContextSettled DEF ConversationInv
    <2>2. CASE ~stored
      <3>1. q = <<>> /\ context = <<>>
        BY <2>2 DEF ConversationInv, MemoryInv
      <3>2. Recent(q, 0) = q /\ 0 \in 0..Spare(q) /\ Spare(q) = 0
        <4>1. Recent(q, 0) = q /\ 0 \in 0..Spare(q)
          BY <1>4, RecentNone
        <4>2. Spare(q) = 0
          BY <1>4, <3>1 DEF Spare, Pinned
        <4> QED BY <4>1, <4>2
      <3>3. At(q, 0)
        BY <3>2 DEF At, Settled
      <3> QED BY <3>1, <3>2, <3>3
    <2> QED BY <2>1, <2>2
  <1> HIDE DEF q
  <1>6. PICK j \in k..Spare(Grown) : At(Grown, j) /\ Updated = Recent(Grown, j)
    <2>1. ConversationTypeOK /\ Led(q \o Pushed)
      BY <1>2, <1>3 DEF ConversationInv
    <2>2. \E j \in k..Spare(q \o Pushed) : At(q \o Pushed, j) /\ Updated = Recent(q \o Pushed, j)
      BY <1>2, <1>4, <1>5, <2>1, UpdatedSettles
    <2> QED BY <1>2, <2>2
  <1>7. /\ j \in 0..Spare(Grown) /\ j \in Nat /\ k \in Nat /\ k <= j
        /\ Updated \in Seq(Messages) /\ Len(Updated) = Len(Grown) - j /\ Len(Updated) \in Nat
        /\ Len(Updated) <= Len(Grown)
    <2>1. Spare(Grown) \in Nat /\ Spare(q) \in Nat
      BY <1>3, <1>4, PinnedIs
    <2>2. j \in 0..Spare(Grown) /\ j \in Nat /\ k \in Nat /\ k <= j
      BY <1>5, <1>6, <2>1
    <2>3. Updated \in Seq(Messages) /\ Len(Updated) = Len(Grown) - j /\ Len(Grown) - j \in Nat
      BY <1>3, <1>6, <2>2, RecentIs
    <2>4. Len(Grown) - j <= Len(Grown)
      BY <1>3, <2>2
    <2> QED BY <2>2, <2>3, <2>4
  <1>8. ConversationTypeOK'
    <2>1. context' \in Seq(Messages) /\ said' \in Seq(Messages) /\ Len(context') <= Len(said')
      <3>1. CASE Fits(Updated)
        <4>1. context' = Updated /\ said' = Grown
          BY <1>1, <3>1
        <4> QED BY <1>3, <1>7, <4>1
      <3>2. CASE ~Fits(Updated)
        <4>1. context' = <<>> /\ said' = said
          BY <1>1, <3>2
        <4> QED BY <1>3, <1>4, <4>1
      <3> QED BY <3>1, <3>2
    <2>2. stored' \in BOOLEAN
      <3>1. Fits(Updated) \in BOOLEAN
        BY DEF Fits
      <3> QED BY <1>1, <3>1
    <2> QED BY <1>1, <2>1, <2>2 DEF ConversationInv, ConversationTypeOK
  <1>9. MemoryInv'
    <2>1. CASE Fits(Updated)
      <3>1. stored' /\ context' = Updated /\ said' = Grown
        BY <1>1, <2>1
      <3>2. config.overflow = "error" => Updated = Grown
        <4>1. config.overflow = "error" => j = 0
          BY <1>6 DEF At
        <4> QED BY <1>3, <1>6, <4>1, RecentNone
      <3>3. ContextIsRecent'
        <4> DEFINE fitting == {e \in 0..(Len(Grown) - Pinned(Grown)) : Fits(Recent(Grown, e))}
        <4>1. fitting # {} /\ Min(fitting) = j
          BY <1>3, <1>6, <2>1, SettledIsRecent DEF Spare
        <4>2. \A q1 : Fits(q1)' = (Len(q1) <= config.maxMessages /\ Estimate(q1) <= config.maxTokens)
          BY <1>1 DEF Fits
        <4> QED BY <1>1, <1>6, <3>1, <4>1 DEF ContextIsRecent, Fits
      <3> QED BY <1>1, <1>3, <3>1, <3>2, <3>3 DEF MemoryInv
    <2>2. CASE ~Fits(Updated)
      <3>1. ~stored' /\ context' = <<>> /\ said' = said /\ phase' = "failed"
        BY <1>1, <2>2
      <3> QED BY <1>1, <3>1 DEF ConversationInv, MemoryInv, ContextIsRecent
    <2> QED BY <2>1, <2>2
  <1>10. TurnInv'
    BY <1>1 DEF TurnInv
  <1>11. ASSUME session # NoSession, phase' # "failed", Len(History') = Len(said'), NEW i \in 1..session.count
         PROVE  said'[i] \in ToSet(remote[session.id])
    <2>1. Fits(Updated) /\ said' = Grown /\ History' = Updated
      BY <1>1, <1>11 DEF History
    <2>2. j = 0 /\ k = 0
      BY <1>3, <1>7, <1>11, <2>1
    <2>3. Len(History) = Len(said)
      <3>1. CASE stored
        <4>1. q = said /\ History = context
          BY <3>1 DEF q, History
        <4> QED BY <1>4, <1>5, <2>2, <4>1, RecentNone
      <3>2. CASE ~stored
        BY <1>1, <3>2 DEF ConversationInv, MemoryInv, History
      <3> QED BY <3>1, <3>2
    <2>4. said[i] \in ToSet(remote[session.id]) /\ session.count \in 0..L
      BY <1>1, <1>11, <2>3 DEF ConversationInv, SessionInv
    <2>5. i \in 1..L
      BY <1>3, <1>11, <2>4
    <2> QED BY <1>3, <2>1, <2>4, <2>5
  <1>12. SessionInv'
    <2>1. session.count \in 0..L /\ (session # NoSession => session.id >= 1)
      BY DEF ConversationInv, SessionInv
    <2>2. session.count \in 0..Len(said') /\ (phase' = "ready" => session.count < Len(said'))
      BY <1>1, <1>3, <2>1
    <2>3. phase' # "asking"
      BY <1>1
    <2> QED BY <1>1, <1>11, <2>1, <2>2, <2>3 DEF SessionInv, UntrimmedIsTold
  <1> QED BY <1>8, <1>9, <1>10, <1>12 DEF ConversationInv

LEMMA ConversationStepKeeps == ConversationInv /\ [ConversationNext]_conversationVars => ConversationInv'
  <1> SUFFICES ASSUME ConversationInv, [ConversationNext]_conversationVars PROVE ConversationInv'
    OBVIOUS
  <1>1. CASE Ask
    BY <1>1, AskKeeps
  <1>2. CASE CallsExhausted
    <2>1. session' = session \/ session' = NoSession
      BY <1>2 DEF CallsExhausted
    <2> QED BY <1>2, <2>1, EndingKeeps DEF CallsExhausted
  <1>3. CASE GiveUp
    BY <1>3, EndingKeeps DEF GiveUp
  <1>4. CASE Store
    BY <1>4, StoreKeeps
  <1>5. ASSUME NEW text \in Texts, NEW n \in 0..MaxTools, NEW cost \in Usages, NEW named \in BOOLEAN,
               Reply(text, n, cost, named)
        PROVE  ConversationInv'
    BY <1>5, ReplyKeeps
  <1>6. ASSUME NEW ok \in BOOLEAN, Dispatch(ok) PROVE ConversationInv'
    BY <1>6, DispatchKeeps
  <1>7. CASE UNCHANGED conversationVars
    <2>1. /\ config' = config /\ phase' = phase /\ memory' = memory /\ request' = request
          /\ remote' = remote /\ session' = session /\ reply' = reply /\ results' = results
          /\ calls' = calls /\ tokens' = tokens
      BY <1>7 DEF conversationVars, turn, usage
    <2>2. said' = said /\ stored' = stored /\ context' = context
      BY <2>1 DEF memory
    <2>3. MemoryInv' /\ History' = History
      BY <2>1, MemoryStays DEF ConversationInv
    <2>4. Told' = Told
      BY <2>1 DEF Told
    <2>5. UntrimmedIsTold'
      BY <2>1, <2>2, <2>3, <2>4 DEF ConversationInv, SessionInv, UntrimmedIsTold
    <2>6. SessionInv'
      BY <2>1, <2>2, <2>3, <2>5 DEF ConversationInv, SessionInv
    <2>7. ConversationTypeOK' /\ TurnInv'
      BY <2>1, <2>2 DEF ConversationInv, ConversationTypeOK, TurnInv
    <2> QED BY <2>3, <2>6, <2>7 DEF ConversationInv
  <1> QED BY <1>1, <1>2, <1>3, <1>4, <1>5, <1>6, <1>7 DEF ConversationNext

LEMMA ConversationReachable == ConversationSpec => []ConversationInv
  <1> QED BY ConversationInitHolds, ConversationStepKeeps, PTL DEF ConversationSpec

-------------------------------------------------------------------------------
(* The theorems *)

\* What trimming leaves still has the results of its calls: they come after the call,
\* and what goes goes from the front.
LEMMA RecentAnswered ==
    ASSUME NEW q \in Seq(Messages), Answered(q), NEW d \in 0..Spare(q)
    PROVE  Answered(Recent(q, d))
  <1> DEFINE r == Recent(q, d)  p == Pinned(q)
  <1>1. /\ r \in Seq(Messages) /\ Len(r) = Len(q) - d /\ Len(q) - d \in Nat
        /\ \A i \in 1..(Len(q) - d) : r[i] = IF i <= p THEN q[i] ELSE q[i + d]
    BY RecentIs
  <1>2. p \in 0..1 /\ p <= Len(q) /\ Len(q) \in Nat /\ d \in Nat
    BY PinnedIs
  <1>3. DOMAIN r = 1..(Len(q) - d) /\ DOMAIN q = 1..Len(q)
    BY <1>1, LenProperties
  <1>4. p = 1 => q[1].role = "system" /\ q[1] \in Messages
    <2>1. p = 1 => 1 \in 1..Len(q)
      BY <1>2
    <2> QED BY <2>1, PinnedIs, ElementOfSeq
  <1> HIDE DEF r, p
  <1>5. ASSUME NEW i \in 1..(Len(q) - d), NEW k \in 1..r[i].calls
        PROVE  i + k \in 1..(Len(q) - d) /\ r[i + k].id = <<r[i].id[1], k>>
    <2>1. CASE i <= p
      <3>1. p = 1 /\ i = 1 /\ r[i] = q[1]
        BY <1>1, <1>2, <2>1
      <3>2. q[1].calls = 0
        <4>1. q[1] \in Prompts
          BY <1>4, <3>1 DEF Messages
        <4>2. PICK c \in Configs : \E n \in DOMAIN c.prompt : q[1] = c.prompt[n]
          BY <4>1 DEF Prompts, ToSet
        <4> QED BY <4>2, ConversationAssumption
      <3> QED BY <1>5, <3>1, <3>2
    <2>2. CASE ~(i <= p)
      <3>1. r[i] = q[i + d] /\ i + d \in 1..Len(q)
        BY <1>1, <1>2, <2>2
      <3>2. i + d + k \in 1..Len(q) /\ q[i + d + k].id = <<q[i + d].id[1], k>>
        BY <1>3, <1>5, <3>1 DEF Answered
      <3>3. q[i + d] \in Messages /\ k \in Nat
        <4>1. q[i + d] \in Messages
          BY <3>1, ElementOfSeq
        <4> QED BY <1>5, <3>1, <4>1, MessagesAre
      <3>4. i + k \in 1..(Len(q) - d) /\ ~(i + k <= p) /\ i + k + d = i + d + k
        BY <1>2, <1>5, <2>2, <3>2, <3>3
      <3>5. r[i + k] = q[i + k + d]
        BY <1>1, <3>4
      <3> QED BY <3>1, <3>2, <3>4, <3>5
    <2> QED BY <2>1, <2>2
  <1>6. Answered(r)
    BY <1>3, <1>5 DEF Answered
  <1> QED BY <1>6 DEF r

\* Every reachable state has a request, a reply, results and a context of the right types:
\* no number of iterations leaves the bounds of the loop gate (agent_template.rs) or more
\* results than calls (agent.rs:1150-1255).
THEOREM ConversationTyped == ConversationSpec => []ConversationTypeOK
  <1>1. ConversationInv => ConversationTypeOK
    BY DEF ConversationInv
  <1> QED BY <1>1, ConversationReachable, PTL

\* For any limits, any weights of messages, any prompt and any number of calls in a reply,
\* the greedy loop of enforce_limits keeps the longest run of last messages that fits
\* beside the system's (conversation.rs:150-183).
THEOREM TrimmingForgetsTheOldest == ConversationSpec => []ContextIsRecent
  <1>1. ConversationInv => ContextIsRecent
    BY DEF ConversationInv, MemoryInv
  <1> QED BY <1>1, ConversationReachable, PTL

\* No request holds a call of the assistant without its result, whatever trimming has
\* taken away (agent.rs:1150-1255 and conversation.rs:150-183).
THEOREM CallsKeepTheirResults == ConversationSpec => []CallsAreAnswered
  <1>1. ConversationInv => CallsAreAnswered
    <2> SUFFICES ASSUME ConversationInv, phase = "asking" PROVE Answered(History)
      BY DEF CallsAreAnswered, Answered
    <2>1. Answered(said) /\ said \in Seq(Messages)
      BY DEF ConversationInv, ConversationTypeOK, MemoryInv
    <2>2. CASE stored
      <3>1. PICK k \in 0..Spare(said) : At(said, k) /\ context = Recent(said, k)
        BY <2>2, ContextSettled DEF ConversationInv
      <3>2. Answered(Recent(said, k))
        BY <2>1, RecentAnswered
      <3>3. History = Recent(said, k)
        BY <2>2, <3>1 DEF History
      <3> QED BY <3>2, <3>3
    <2>3. CASE ~stored
      BY <2>1, <2>3 DEF History, ConversationInv, MemoryInv
    <2> QED BY <2>2, <2>3
  <1> QED BY <1>1, ConversationReachable, PTL

\* As long as nothing is trimmed, the model answers on a transcript that holds everything
\* that was said and ends with the newest message, however its sessions are continued,
\* dropped and begun anew (agent.rs:541-557).
THEOREM UntrimmedModelKnowsAll == ConversationSpec => []UntrimmedIsTold
  <1>1. ConversationInv => UntrimmedIsTold
    BY DEF ConversationInv, SessionInv
  <1> QED BY <1>1, ConversationReachable, PTL
================================================================================
