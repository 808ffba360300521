------------------------------ MODULE Permissions ------------------------------
(***************************************************************************)
(* crates/lingxi-runtime/src/permissions.rs (PermissionManager) with the   *)
(* prompt it raises: context.rs (request_interaction) and interaction.rs   *)
(* (PendingInteractions).  A call of an agent asks leave for one target;   *)
(* it is settled by the cache, by the mode, or by the user, who may at the *)
(* same time switch the mode of the run, cancel it, or answer late.        *)
(*                                                                         *)
(* One run; the desktop gives its policy neither a scope nor an expiry     *)
(* (commands.rs:285), and grants nothing to all of its nodes.  The user's  *)
(* commands are handled one after the other by the main thread, the calls  *)
(* and activations of agents by others.  No lock is held from one read or  *)
(* write of a table to the next.                                           *)
(***************************************************************************)
EXTENDS Naturals, FiniteSets

CONSTANTS
    Nodes,          \* agent nodes
    Calls,          \* tool calls that may wait at the same time
    NodeOfCall,     \* [Calls -> Nodes]
    Targets,        \* records: see AutoAllowed
    NoTarget, NoMode, NoAnswer,
    MaxPrompts,     \* bound: prompts each call raises
    Repeating,      \* bound: calls that raise more than one
    MaxSwitches     \* bound: live switches of the mode

Modes == {"ask", "workspace", "yolo"}
Rank == [ask |-> 0, workspace |-> 1, yolo |-> 2]
Decisions == {"approved", "approved_once", "rejected"}

ASSUME CallsAssumption ==
    /\ NodeOfCall \in [Calls -> Nodes]
    /\ NoMode \notin Modes /\ NoAnswer \notin Decisions /\ NoTarget \notin Targets
    /\ MaxPrompts \in Nat /\ Repeating \subseteq Calls /\ MaxSwitches \in Nat

VARIABLES
    mode,           \* mode of the run's policy
    nodeMode,       \* agent_modes: [Nodes -> mode or NoMode]
    approved,       \* the cache: <<node, target>>
    switches,       \* revision of the policy, less one
    clearing,       \* set_mode has changed the mode, and not yet cleared the cache
    starting,       \* [Nodes -> what set_agent_mode has found, to be stored]
    stage,          \* [Calls -> where the call is]
    target,         \* [Calls -> what it asks for]
    judged,         \* [Calls -> the mode it read]
    prompts,        \* [Calls -> number of its last prompt]; the request id
    open,           \* prompts on the user's screen, <<call, number>>
    pending,        \* PendingInteractions.pending
    answer,         \* [Calls -> what the channel holds]
    cancelled,      \* RunControl
    given, inFlight \* history: the grants the user gave since the mode last changed, and
                    \* those given before that were not yet taken as the cache was cleared

modes == <<mode, nodeMode, switches, clearing, starting>>
ask == <<stage, target, judged, prompts, open, pending, answer>>
history == <<given, inFlight>>
vars == <<modes, approved, ask, cancelled, history>>

\* auto_allowed, from what it looks at: the class, a path that stays inside the project,
\* names that are sensitive or risky, whether a command is known or a build.
AutoAllowed(m, t) ==
    /\ ~t.sensitive
    /\ CASE m = "ask" -> t.class = "filesystem" /\ t.readOnly /\ t.relative
         [] m = "workspace" -> \/ t.class = "filesystem" /\ t.relative
                               \/ t.class = "process" /\ t.command = "build" /\ ~t.highRisk
         [] m = "yolo" -> /\ ~t.highRisk
                          /\ t.class = "filesystem" => t.relative
                          /\ t.class = "process" => t.command \in {"build", "known"}

NotStarting == [effective |-> NoMode, tightened |-> FALSE, at |-> 0]

ModeFor(n) == IF nodeMode[n] # NoMode THEN nodeMode[n] ELSE mode

Init ==
    /\ mode \in Modes /\ nodeMode = [n \in Nodes |-> NoMode] /\ switches = 0
    /\ clearing = FALSE /\ starting = [n \in Nodes |-> NotStarting]
    /\ approved = {}
    /\ stage = [c \in Calls |-> "idle"] /\ target = [c \in Calls |-> NoTarget]
    /\ judged = [c \in Calls |-> NoMode]
    /\ prompts = [c \in Calls |-> 0] /\ open = {} /\ pending = {}
    /\ answer = [c \in Calls |-> NoAnswer]
    /\ cancelled = FALSE
    /\ given = {} /\ inFlight = {}

Request(c) == <<c, prompts[c]>>
Grant(c) == <<NodeOfCall[c], target[c]>>
Settle(c) ==
    /\ stage' = [stage EXCEPT ![c] = "idle"]
    /\ target' = [target EXCEPT ![c] = NoTarget]
    /\ judged' = [judged EXCEPT ![c] = NoMode]
    /\ answer' = [answer EXCEPT ![c] = NoAnswer]

(***************************************************************************)
(* authorize_with up to its wait: the mode is read, then the cache.        *)
(***************************************************************************)
Enter(c, t) ==
    /\ stage[c] = "idle" /\ ~cancelled /\ starting[NodeOfCall[c]] = NotStarting
    /\ prompts[c] < MaxPrompts /\ (prompts[c] = 0 \/ c \in Repeating)
    /\ stage' = [stage EXCEPT ![c] = "checking"] /\ target' = [target EXCEPT ![c] = t]
    /\ judged' = [judged EXCEPT ![c] = ModeFor(NodeOfCall[c])]
    /\ UNCHANGED <<modes, approved, prompts, open, pending, answer, cancelled, history>>

Unasked(c) == Grant(c) \in approved \/ AutoAllowed(judged[c], target[c])

\* A call that needs no leave goes on.
Serve(c) ==
    /\ stage[c] = "checking" /\ Unasked(c)
    /\ Settle(c)
    /\ UNCHANGED <<modes, approved, prompts, open, pending, cancelled, history>>
\* InteractionRequested is emitted before the broker knows the request.
Announce(c) ==
    /\ stage[c] = "checking" /\ ~Unasked(c)
    /\ prompts' = [prompts EXCEPT ![c] = @ + 1]
    /\ stage' = [stage EXCEPT ![c] = "announced"] /\ judged' = [judged EXCEPT ![c] = NoMode]
    /\ open' = open \cup {<<c, prompts[c] + 1>>}
    /\ UNCHANGED <<modes, approved, target, pending, answer, cancelled, history>>

\* PendingInteractions::request, unless the biased select sees the cancellation first.
Enrol(c) ==
    /\ stage[c] = "announced" /\ ~cancelled
    /\ stage' = [stage EXCEPT ![c] = "waiting"]
    /\ pending' = pending \cup {Request(c)}
    /\ UNCHANGED <<modes, approved, target, judged, prompts, open, answer, cancelled, history>>

\* The user answers a prompt, once: its window closes whether the answer is taken or not.
Respond(c, k, decision) ==
    /\ ~clearing /\ <<c, k>> \in open
    /\ open' = open \ {<<c, k>>}
    /\ pending' = pending \ {<<c, k>>}
    /\ answer' = IF <<c, k>> \in pending THEN [answer EXCEPT ![c] = decision] ELSE answer
    /\ given' = IF <<c, k>> \in pending /\ decision = "approved" THEN given \cup {Grant(c)} ELSE given
    /\ UNCHANGED <<modes, approved, stage, target, judged, prompts, cancelled, inFlight>>

\* authorize_with after its wait.
Take(c) ==
    /\ stage[c] = "waiting" /\ answer[c] # NoAnswer /\ ~cancelled
    /\ Settle(c)
    /\ approved' = IF answer[c] = "approved" THEN approved \cup {Grant(c)} ELSE approved
    /\ UNCHANGED <<modes, prompts, open, pending, cancelled, history>>

\* The RequestGuard takes the request out when the wait is dropped.
\* Variant for the sensitivity of PendingIsAwaited: the guard is missing.
TimeOutUnguarded(c) ==
    /\ stage[c] = "waiting" /\ answer[c] = NoAnswer /\ ~cancelled
    /\ Settle(c)
    /\ UNCHANGED <<modes, approved, prompts, open, pending, cancelled, history>>
TimeOut(c) ==
    /\ stage[c] = "waiting" /\ answer[c] = NoAnswer /\ ~cancelled
    /\ Settle(c) /\ pending' = pending \ {Request(c)}
    /\ UNCHANGED <<modes, approved, prompts, open, cancelled, history>>

\* Variant for the sensitivity of PromptSettles: an enrolled call waits for its answer only.
AbandonAnnounced(c) ==
    /\ stage[c] = "announced" /\ cancelled
    /\ Settle(c) /\ pending' = pending \ {Request(c)}
    /\ UNCHANGED <<modes, approved, prompts, open, cancelled, history>>
Abandon(c) ==
    /\ stage[c] \in {"announced", "waiting"} /\ cancelled
    /\ Settle(c) /\ pending' = pending \ {Request(c)}
    /\ UNCHANGED <<modes, approved, prompts, open, cancelled, history>>

(***************************************************************************)
(* The modes.                                                              *)
(***************************************************************************)
\* set_mode, of the command set_permission_mode: the mode is changed under its own lock;
\* the cache is cleared under another, later.
\* Variant for the sensitivity of GrantsFollowSwitch: only a tighter mode clears the cache.
SetModeClearingDownwards(m) ==
    /\ ~clearing /\ switches < MaxSwitches
    /\ mode' = m /\ switches' = switches + 1
    /\ clearing' = (Rank[m] < Rank[mode])
    /\ given' = IF m # mode THEN {} ELSE given
    /\ UNCHANGED <<nodeMode, starting, approved, ask, cancelled, inFlight>>
SetMode(m) ==
    /\ ~clearing /\ switches < MaxSwitches
    /\ mode' = m /\ switches' = switches + 1
    /\ clearing' = (m # mode)
    /\ given' = IF m # mode THEN {} ELSE given
    /\ UNCHANGED <<nodeMode, starting, approved, ask, cancelled, inFlight>>
ClearApprovals ==
    /\ clearing /\ clearing' = FALSE
    /\ approved' = {}
    /\ inFlight' = {Grant(c) : c \in {d \in Calls : answer[d] = "approved"}}
    /\ UNCHANGED <<mode, nodeMode, switches, starting, ask, cancelled, given>>

\* set_agent_mode, as an activation of the node begins with the mode of its parameter.
\* What is in force is read first; the tighter of the two is stored later.
\* Variant for the sensitivity of WidensOnlyAcrossSwitch: the parameter is taken as given.
ReadModeAsGiven(n, m) ==
    /\ ~cancelled /\ starting[n] = NotStarting
    /\ \A c \in Calls : NodeOfCall[c] = n => stage[c] = "idle"
    /\ starting' = [starting EXCEPT ![n] =
                       [effective |-> m, tightened |-> m # ModeFor(n), at |-> switches]]
    /\ UNCHANGED <<mode, nodeMode, switches, clearing, approved, ask, cancelled, history>>
ReadMode(n, m) ==
    /\ ~cancelled /\ starting[n] = NotStarting
    /\ \A c \in Calls : NodeOfCall[c] = n => stage[c] = "idle"
    /\ LET effective == IF Rank[m] > Rank[ModeFor(n)] THEN ModeFor(n) ELSE m IN
       starting' = [starting EXCEPT ![n] =
                      [effective |-> effective, tightened |-> effective # ModeFor(n), at |-> switches]]
    /\ UNCHANGED <<mode, nodeMode, switches, clearing, approved, ask, cancelled, history>>
StoreMode(n) ==
    /\ starting[n] # NotStarting
    /\ nodeMode' = [nodeMode EXCEPT ![n] = starting[n].effective]
    /\ approved' = IF starting[n].tightened THEN {g \in approved : g[1] # n} ELSE approved
    /\ starting' = [starting EXCEPT ![n] = NotStarting]
    /\ UNCHANGED <<mode, switches, clearing, ask, cancelled, history>>

Cancel ==
    /\ ~clearing /\ ~cancelled /\ cancelled' = TRUE
    /\ UNCHANGED <<modes, approved, ask, history>>

Wake(c) == Serve(c) \/ Announce(c) \/ Enrol(c) \/ Take(c) \/ TimeOut(c) \/ Abandon(c)
User ==
    \/ \E c \in Calls, k \in 1..MaxPrompts, decision \in Decisions : Respond(c, k, decision)
    \/ (\E m \in Modes : SetMode(m)) \/ ClearApprovals
    \/ Cancel

Next ==
    \/ \E c \in Calls : Wake(c) \/ \E t \in Targets : Enter(c, t)
    \/ \E n \in Nodes : StoreMode(n) \/ \E m \in Modes : ReadMode(n, m)
    \/ User

\* A call that was entered goes on, and is woken where it waits by its answer, by the
\* cancellation or by its timer.
Spec == Init /\ [][Next]_vars /\ \A c \in Calls : WF_vars(Wake(c))

-------------------------------------------------------------------------------
TypeOK ==
    /\ mode \in Modes /\ nodeMode \in [Nodes -> Modes \cup {NoMode}] /\ switches \in 0..MaxSwitches
    /\ clearing \in BOOLEAN
    /\ starting \in [Nodes -> {NotStarting} \cup
                             [effective : Modes, tightened : BOOLEAN, at : 0..MaxSwitches]]
    /\ approved \subseteq Nodes \X Targets
    /\ stage \in [Calls -> {"idle", "checking", "announced", "waiting"}]
    /\ target \in [Calls -> Targets \cup {NoTarget}]
    /\ judged \in [Calls -> Modes \cup {NoMode}]
    /\ prompts \in [Calls -> 0..MaxPrompts]
    /\ open \subseteq Calls \X (1..MaxPrompts) /\ pending \subseteq Calls \X (1..MaxPrompts)
    /\ answer \in [Calls -> Decisions \cup {NoAnswer}]
    /\ cancelled \in BOOLEAN
    /\ given \subseteq Nodes \X Targets /\ inFlight \subseteq Nodes \X Targets

\* The broker knows exactly the requests whose answer would still be heard: a request is
\* pending if and only if its own call waits for it and holds no answer yet.  So an answer
\* that is late, or meant for an earlier prompt of the same call, is refused and
\* settles nothing (interaction.rs:75-86, the guard against every way out of the wait).
PendingIsAwaited ==
    /\ \A c \in Calls, k \in 1..MaxPrompts :
          <<c, k>> \in pending <=> stage[c] = "waiting" /\ k = prompts[c] /\ answer[c] = NoAnswer
    /\ \A c \in Calls : answer[c] # NoAnswer => stage[c] = "waiting"

\* Once a switch of the mode has cleared the cache, all that is in it was given by the user
\* since that switch, to the node that holds it and for that target; but an approval given
\* before the switch whose call had not woken up as the cache was cleared is cached after
\* it (permissions.rs:196-213, 441-447).
GrantsFollowSwitch == ~clearing => approved \subseteq given \cup inFlight

\* The comment of set_mode (permissions.rs:209): "A live switch must make the next operation
\* follow the new policy instead of a stale grant."
NoStaleGrant == ~clearing => approved \subseteq given

Widens(n) == Rank[ModeFor(n)'] > Rank[ModeFor(n)]
\* The mode that judges an agent's calls rises when the user switches the mode of the run,
\* and when an activation stores what it read before a switch that came between its two
\* steps (permissions.rs:226-234); at no other step, whatever mode its parameter names.
WidensOnlyAcrossSwitch ==
    [][\A n \in Nodes : Widens(n) =>
          \/ switches' = switches + 1
          \/ starting[n] # NotStarting /\ starting[n].at < switches]_vars

\* The comment of set_agent_mode (permissions.rs:225): "An Agent node may tighten the run
\* policy but cannot silently widen it."
OnlyTheUserWidens == [][\A n \in Nodes : Widens(n) => switches' = switches + 1]_vars

\* Every prompt ends: answered, timed out, or given up with the run; an answer that came
\* before the broker knew the request is lost, but not the call (context.rs:273-300).
PromptSettles == \A c \in Calls : stage[c] # "idle" ~> stage[c] = "idle"

\* Docs/phase-1.7/01-project-workspace.md:119, of a live switch: the next operation is
\* judged by the new mode, or by a tighter one of its agent.  The wider mode that an agent
\* stored at its activation still decides (permissions.rs:249).
NextOperationFollowsSwitch ==
    [][\A c \in Calls : stage'[c] = "checking" /\ stage[c] = "idle" => Rank[judged'[c]] <= Rank[mode]]_vars
===============================================================================
