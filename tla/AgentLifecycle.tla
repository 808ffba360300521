---------------------------- MODULE AgentLifecycle ----------------------------
(***************************************************************************)
(* The activation half of crates/lingxi-runtime/src/agent_bus.rs together  *)
(* with the two programs that drive it: the runner task (agent_node.rs     *)
(* execute, agent_runner.rs run_agent), which the scheduler activates for  *)
(* one agent at a time, and the desktop commands pause_agent, resume_agent,*)
(* cancel_agent and stop_workflow, which Tauri runs one after another on   *)
(* the main thread, concurrently with the runner.                          *)
(*                                                                         *)
(* A step is what one thread does between two points where the other can   *)
(* see it: a critical section of the bus mutex, an atomic flag, an await.  *)
(* What the model says, what a tool returns and how long anything takes    *)
(* are nondeterministic.  Messages are in MessageBus; configuration        *)
(* revisions and directives are in AgentIntervention.                      *)
(***************************************************************************)
EXTENDS Integers, Sequences, Functions

CONSTANTS
    Agents,          \* instance ids of the run
    MaxActivations,  \* bound: activations of all agents in a run
    MaxIterations,   \* config.max_iterations
    MaxToolCalls     \* config.max_tool_calls

ASSUME BudgetAssumption ==
    MaxActivations \in Nat /\ MaxIterations \in Nat \ {0} /\ MaxToolCalls \in Nat \ {0}

VARIABLES
    state,         \* session.agents[a].state, or "unregistered"
    records,       \* the state of each activation record of a, oldest first
    session,       \* session.state
    paused,        \* AgentRuntime.paused
    cancelled,     \* AgentRuntime.cancelled
    runCancelled,  \* RunControl.cancelled
    agent,         \* the agent the runner works for
    pc,            \* where the runner is
    at,            \* which of the three safe points: "top", "model", "tool"
    answer,        \* what is left of the model's answer: "prose", "calls", "rest"
    verdict,       \* the error state a failing activation will be given
    iterations,    \* usage.iterations
    calls,         \* tool_calls_total
    repairs,       \* repair_attempts
    invalid,       \* invalid_submissions
    command,       \* the command in progress on the main thread
    held,          \* history: paused since before the model answered or the tool's turn came,
                   \* and not resumed
    dropped        \* history: "parked" or "approval" if a's last activation was dropped there,
                   \* or else "none"

Counters == <<iterations, calls, repairs, invalid>>
runner == <<agent, pc, at, answer, verdict, Counters>>
flags == <<paused, cancelled, runCancelled>>
registry == <<state, records, session>>
vars == <<registry, flags, runner, command, held, dropped>>

Active == {"running", "pausing", "paused", "waiting_approval"}
Terminal == {"completed", "failed", "cancelled"}
States == Active \cup Terminal \cup {"pending"}
NoCommand == [op |-> "none"]

\* update_session_state: PRIORITY, most actionable first ("blocked" and
\* "interrupted" are never given to an instance while it runs).
Priority == <<"running", "waiting_approval", "paused", "pending", "failed", "cancelled">>
SessionOf(st) ==
    LET Present == {i \in 1..Len(Priority) : \E a \in Agents : st[a] = Priority[i]}
    IN IF Present = {} THEN "completed"
       ELSE Priority[CHOOSE i \in Present : \A j \in Present : i <= j]

\* start_activation makes the new record current and nothing ever clears it, so
\* the current activation of an agent is its last record.
SetRecord(a, st) ==
    IF records[a] = <<>> THEN records ELSE [records EXCEPT ![a][Len(records[a])] = st]

\* set_instance_state and finish_activation: instance, current record, session.
SetState(a, st) ==
    /\ state' = [state EXCEPT ![a] = st]
    /\ records' = SetRecord(a, st)
    /\ session' = SessionOf(state')

Goto(label) == pc' = label
Keep(these) == UNCHANGED these

\* The variables of run_agent as it begins; they die with its future.
FreshLocals ==
    /\ at' = "top" /\ answer' = "rest" /\ verdict' = "failed"
    /\ iterations' = 0 /\ calls' = 0 /\ repairs' = 0 /\ invalid' = 0
    /\ held' = FALSE

Init ==
    /\ state = [a \in Agents |-> "unregistered"]
    /\ records = [a \in Agents |-> <<>>]
    /\ session = "pending"
    /\ paused = [a \in Agents |-> FALSE]
    /\ cancelled = [a \in Agents |-> FALSE]
    /\ runCancelled = FALSE
    /\ agent \in Agents
    /\ pc = "idle"
    /\ at = "top" /\ answer = "rest" /\ verdict = "failed"
    /\ iterations = 0 /\ calls = 0 /\ repairs = 0 /\ invalid = 0
    /\ held = FALSE
    /\ dropped = [a \in Agents |-> "none"]
    /\ command = NoCommand

(***************************************************************************)
(* The scheduler and agent_node.rs execute.                                *)
(***************************************************************************)
\* One for each record that start_activation has appended.
Activations == FoldFunction(LAMBDA r, n : n + Len(r), 0, records)

RegisterInstance(a) ==
    /\ pc = "idle" /\ ~runCancelled
    /\ Activations < MaxActivations
    /\ agent' = a
    /\ state' = [state EXCEPT ![a] = IF @ = "unregistered" THEN "pending" ELSE @]
    /\ Goto("registered")
    /\ Keep(<<records, session, flags, at, answer, verdict, Counters, command, held, dropped>>)

StartActivation ==
    /\ pc = "registered"
    /\ records' = [records EXCEPT ![agent] = Append(@, "running")]
    /\ state' = [state EXCEPT ![agent] = "running"]
    /\ session' = SessionOf(state')
    /\ dropped' = [dropped EXCEPT ![agent] = "none"]
    /\ Goto("input")
    /\ Keep(<<flags, agent, at, answer, verdict, Counters, command, held>>)

\* build_input(...)? : the error leaves execute before finish_activation.
BuildInput ==
    /\ pc = "input"
    /\ pc' \in {"setup", "idle"}
    /\ Keep(<<registry, flags, agent, at, answer, verdict, Counters, command, held, dropped>>)

FailWith(st) == verdict' = st /\ Goto("failing")

\* Permission for the provider, its credential, the language server, the budget.
Setup ==
    /\ pc = "setup"
    /\ \/ FailWith("failed")
       \/ runCancelled /\ FailWith("cancelled")
       \/ Goto("top") /\ UNCHANGED verdict
    /\ Keep(<<registry, flags, agent, at, answer, Counters, command, held, dropped>>)

FinishActivation ==
    /\ \/ pc = "publish" /\ SetState(agent, "completed")
       \/ pc = "failing" /\ SetState(agent, verdict)
    /\ Goto("idle")
    /\ FreshLocals
    /\ Keep(<<flags, agent, command, dropped>>)

(***************************************************************************)
(* agent_runner.rs run_agent.                                              *)
(***************************************************************************)
\* Variant for the sensitivity of CancelReleasesParked: the agent's own flag is forgotten.
StoppedByRun == runCancelled

Stopped == cancelled[agent] \/ runCancelled

\* ensure_active at the top of the loop.
EnsureActive ==
    /\ pc = "top"
    /\ IF Stopped THEN FailWith("cancelled") /\ UNCHANGED at
       ELSE Goto("safe") /\ at' = "top" /\ UNCHANGED verdict
    /\ Keep(<<registry, flags, agent, answer, Counters, command, held, dropped>>)

AfterSafePoint == CASE at = "top" -> "budget" [] at = "model" -> "act" [] OTHER -> "authorize"

\* Variant for the sensitivity of PauseBeforeActing: the pause is looked at before a request only.
PassLaterSafePoints ==
    /\ pc = "safe" /\ (~paused[agent] \/ at # "top")
    /\ Goto(AfterSafePoint)
    /\ Keep(<<registry, flags, agent, at, answer, verdict, Counters, command, held, dropped>>)

\* wait_for_safe_point: only this agent's pause flag is looked at.
PassSafePoint ==
    /\ pc = "safe" /\ ~paused[agent]
    /\ Goto(AfterSafePoint)
    /\ Keep(<<registry, flags, agent, at, answer, verdict, Counters, command, held, dropped>>)

Seen == /\ pc = "safe" /\ paused[agent]
        /\ Goto("parking")
        /\ Keep(<<registry, flags, agent, at, answer, verdict, Counters, command, held, dropped>>)

Park ==
    /\ pc = "parking"
    /\ SetState(agent, "paused")
    /\ Goto("parked")
    /\ Keep(<<flags, agent, at, answer, verdict, Counters, command, held, dropped>>)

\* wait_until_resumed returns.
Wake ==
    /\ pc = "parked"
    /\ ~paused[agent] \/ Stopped
    /\ Goto("woken")
    /\ Keep(<<registry, flags, agent, at, answer, verdict, Counters, command, held, dropped>>)

\* Variant for the sensitivity of ShownStateIsReal: the running state is not written back.
LeaveUnannounced ==
    /\ pc = "woken"
    /\ IF Stopped THEN FailWith("cancelled") ELSE Goto(AfterSafePoint) /\ UNCHANGED verdict
    /\ Keep(<<registry, flags, agent, at, answer, Counters, command, held, dropped>>)

LeaveSafePoint ==
    /\ pc = "woken"
    /\ IF Stopped
       THEN FailWith("cancelled") /\ UNCHANGED registry
       ELSE Goto(AfterSafePoint) /\ SetState(agent, "running") /\ UNCHANGED verdict
    /\ Keep(<<flags, agent, at, answer, Counters, command, held, dropped>>)

\* The deadline, then the iteration budget.
CheckBudget ==
    /\ pc = "budget"
    /\ \/ FailWith("failed") /\ UNCHANGED iterations
       \/ /\ iterations < MaxIterations
          /\ iterations' = iterations + 1
          /\ Goto("model") /\ UNCHANGED verdict
    /\ Keep(<<registry, flags, agent, at, answer, calls, repairs, invalid, command, held, dropped>>)

\* provider.complete: an answer, an error, or more tokens than the budget allows.
ModelAnswers ==
    /\ pc = "model"
    /\ \/ /\ answer' \in {"prose", "calls"}
          /\ Goto("safe") /\ at' = "model" /\ held' = paused[agent]
          /\ UNCHANGED verdict
       \/ /\ FailWith(IF runCancelled THEN "cancelled" ELSE "failed")
          /\ UNCHANGED <<at, answer, held>>
    /\ Keep(<<registry, flags, agent, Counters, command, dropped>>)

\* No tool call: one repair request, then (or for an empty answer) an error.
ActOnProse ==
    /\ pc = "act" /\ answer = "prose"
    /\ \/ repairs = 0 /\ repairs' = 1 /\ Goto("top") /\ UNCHANGED verdict
       \/ FailWith("failed") /\ UNCHANGED repairs
    /\ at' = "top" /\ answer' = "rest"
    /\ Keep(<<registry, flags, agent, iterations, calls, invalid, command, held, dropped>>)

\* submit_result: a valid result ends the activation, one invalid is forgiven.
SubmitResult ==
    /\ pc = "act" /\ answer \in {"calls", "rest"}
    /\ \/ Goto("publish") /\ UNCHANGED <<answer, verdict, invalid>>
       \/ invalid = 0 /\ invalid' = 1 /\ answer' = "rest" /\ UNCHANGED <<pc, verdict>>
       \/ invalid = 1 /\ FailWith("failed") /\ UNCHANGED <<answer, invalid>>
    /\ Keep(<<registry, flags, agent, at, iterations, calls, repairs, command, held, dropped>>)

\* Any other tool: budget, ensure_active, then the third safe point.
CallTool ==
    /\ pc = "act" /\ answer \in {"calls", "rest"}
    /\ answer' = "rest"
    /\ \/ calls >= MaxToolCalls /\ FailWith("failed") /\ UNCHANGED <<at, held>>
       \/ calls < MaxToolCalls /\ Stopped /\ FailWith("cancelled") /\ UNCHANGED <<at, held>>
       \/ /\ calls < MaxToolCalls /\ ~Stopped
          /\ Goto("safe") /\ at' = "tool" /\ held' = paused[agent]
          /\ UNCHANGED verdict
    /\ Keep(<<registry, flags, agent, Counters, command, dropped>>)

NoMoreCalls ==
    /\ pc = "act" /\ answer = "rest"
    /\ Goto("top") /\ at' = "top"
    /\ Keep(<<registry, flags, agent, answer, verdict, Counters, command, held, dropped>>)

\* Variant for the sensitivity of TypeOK: a call is counted twice.
AuthorizeCountingTwice ==
    /\ pc = "authorize"
    /\ calls' = calls + 2
    /\ Goto("tool")
    /\ Keep(<<registry, verdict, flags, agent, at, answer, iterations, repairs, invalid,
              command, held, dropped>>)

\* An unknown tool or bad arguments fail; authorize_tool shows waiting_approval
\* unless the target is approved already.
AuthorizeTool ==
    /\ pc = "authorize"
    /\ calls' = calls + 1
    /\ \/ FailWith("failed") /\ UNCHANGED registry
       \/ Goto("tool") /\ UNCHANGED <<registry, verdict>>
       \/ Goto("approval") /\ SetState(agent, "waiting_approval") /\ UNCHANGED verdict
    /\ Keep(<<flags, agent, at, answer, iterations, repairs, invalid, command, held, dropped>>)

\* The interaction ends: granted, refused or timed out, or the run is cancelled,
\* perhaps just after the decision came; then the state stays as it is.
ApprovalResolved ==
    /\ pc = "approval"
    /\ IF runCancelled THEN UNCHANGED registry ELSE SetState(agent, "running")
    /\ \/ Goto("tool") /\ UNCHANGED verdict
       \/ FailWith("failed")
       \/ runCancelled /\ FailWith("cancelled")
    /\ Keep(<<flags, agent, at, answer, Counters, command, held, dropped>>)

\* A tool error is told to the model; only a cancelled tool ends the activation.
ToolFinishes ==
    /\ pc = "tool"
    /\ \/ Goto("act") /\ UNCHANGED verdict
       \/ runCancelled /\ FailWith("cancelled")
    /\ Keep(<<registry, flags, agent, at, answer, Counters, command, held, dropped>>)

(***************************************************************************)
(* The end of the run, or of a part of it.  The scheduler's biased select  *)
(* drops the executor's future at its await when the run is cancelled or   *)
(* the loop it belongs to times out: nothing of execute runs any more, and *)
(* the bus keeps what the agent showed.  A cancellation ends the run; a    *)
(* time-out ends the scheduler it happens in, which is the run's own or    *)
(* that of a composite: then the composite has failed and the run goes on  *)
(* with other agents.  At "publish" the wait is for the language server to *)
(* shut down.                                                              *)
(***************************************************************************)
Awaiting == {"setup", "parked", "model", "approval", "tool", "publish"}

Drop ==
    /\ dropped' = [dropped EXCEPT ![agent] = IF pc \in {"parked", "approval"} THEN pc ELSE "none"]
    /\ FreshLocals
    /\ Keep(<<registry, flags, agent, command>>)

\* Variant for the sensitivity of StopEndsRun: the executor is not raced against the cancellation.
DropParked == runCancelled /\ pc = "parked" /\ Goto("over") /\ Drop

DropCancelled == runCancelled /\ pc \in Awaiting /\ Goto("over") /\ Drop

DropTimedOut == pc \in Awaiting /\ pc' \in {"over", "idle"} /\ Drop

EndRun ==
    /\ pc = "idle"
    /\ Goto("over")
    /\ Keep(<<registry, flags, agent, at, answer, verdict, Counters, command, held, dropped>>)

(***************************************************************************)
(* The main thread.  run_control finds a run that has not ended; the later *)
(* steps of a command go on whatever the runner does meanwhile.            *)
(***************************************************************************)
Ready(a) == command = NoCommand /\ pc # "over" /\ state[a] # "unregistered"

\* pause_agent: the flag, then the instance state.
PauseAgent(a) ==
    /\ Ready(a)
    /\ paused' = [paused EXCEPT ![a] = TRUE]
    /\ command' = [op |-> "pausing", on |-> a]
    /\ Keep(<<registry, cancelled, runCancelled, runner, held, dropped>>)

ShowPausing ==
    /\ command.op = "pausing"
    /\ SetState(command.on, "pausing")
    /\ command' = NoCommand
    /\ Keep(<<flags, runner, held, dropped>>)

\* resume_agent: the flag, a read of the state, and a write that trusts it.
ResumeAgent(a) ==
    /\ Ready(a)
    /\ paused' = [paused EXCEPT ![a] = FALSE]
    /\ command' = [op |-> "resuming", on |-> a]
    /\ held' = (held /\ a # agent)
    /\ Keep(<<registry, cancelled, runCancelled, runner, dropped>>)

ReadState ==
    /\ command.op = "resuming"
    /\ command' = IF state[command.on] \in {"paused", "pausing"}
                  THEN [op |-> "resumed", on |-> command.on] ELSE NoCommand
    /\ Keep(<<registry, flags, runner, held, dropped>>)

ShowRunning ==
    /\ command.op = "resumed"
    /\ SetState(command.on, "running")
    /\ command' = NoCommand
    /\ Keep(<<flags, runner, held, dropped>>)

CancelAgent(a) ==
    /\ Ready(a)
    /\ cancelled' = [cancelled EXCEPT ![a] = TRUE]
    /\ Keep(<<registry, paused, runCancelled, runner, command, held, dropped>>)

StopWorkflow ==
    /\ command = NoCommand /\ pc # "over"
    /\ runCancelled' = TRUE
    /\ Keep(<<registry, paused, cancelled, runner, command, held, dropped>>)

Commands ==
    \/ \E a \in Agents : PauseAgent(a) \/ ResumeAgent(a) \/ CancelAgent(a)
    \/ ShowPausing \/ ReadState \/ ShowRunning
    \/ StopWorkflow

\* What the runner does on its own, without waiting for anybody.
Computes ==
    \/ StartActivation \/ BuildInput \/ FinishActivation \/ EnsureActive
    \/ PassSafePoint \/ Seen \/ Park \/ Wake \/ LeaveSafePoint \/ CheckBudget
    \/ ActOnProse \/ SubmitResult \/ CallTool \/ NoMoreCalls \/ AuthorizeTool

\* What depends on a provider, a tool, a user or a clock.
Awaits ==
    Setup \/ ModelAnswers \/ ApprovalResolved \/ ToolFinishes \/ DropTimedOut

Schedules == (\E a \in Agents : RegisterInstance(a)) \/ EndRun

Next == Commands \/ Computes \/ Awaits \/ Schedules \/ DropCancelled

Spec == Init /\ [][Next]_vars

\* The runner is a task of a runtime that polls what is ready, so its own steps
\* are weakly fair, and so are the steps of a command once it has begun; a
\* provider, a tool or a user may never answer, and no command need be given.
FairSpec ==
    /\ Spec
    /\ WF_vars(Computes \/ DropCancelled \/ Schedules)
    /\ WF_vars(ShowPausing \/ ReadState \/ ShowRunning)

-------------------------------------------------------------------------------
(* Properties *)

Labels == {"idle", "registered", "input", "setup", "top", "safe", "parking", "parked", "woken",
           "budget", "model", "act", "authorize", "approval", "tool", "publish", "failing",
           "over"}

TypeOK ==
    /\ state \in [Agents -> States \cup {"unregistered"}]
    /\ records \in [Agents -> Seq(Active \cup Terminal)]
    /\ session \in States
    /\ paused \in [Agents -> BOOLEAN]
    /\ cancelled \in [Agents -> BOOLEAN]
    /\ runCancelled \in BOOLEAN
    /\ agent \in Agents
    /\ pc \in Labels
    /\ at \in {"top", "model", "tool"}
    /\ answer \in {"prose", "calls", "rest"}
    /\ verdict \in {"failed", "cancelled"}
    /\ iterations \in 0..MaxIterations
    /\ calls \in 0..MaxToolCalls
    /\ repairs \in 0..1
    /\ invalid \in 0..1
    /\ command \in {NoCommand} \cup [op : {"pausing", "resuming", "resumed"}, on : Agents]
    /\ held \in BOOLEAN
    /\ dropped \in [Agents -> {"parked", "approval", "none"}]

\* "A pause requested while the model request was in flight must take effect
\* before any tool call or structured result is acted on": unless somebody
\* resumes the agent, the runner does not act on that answer, nor on a call of it
\* whose turn comes while the agent is paused.
PauseBeforeActing ==
    held => pc \notin {"act", "authorize", "approval", "tool", "publish"}

\* The workbench shows an agent as paused, or as waiting for an approval, only
\* while its runner really stands there (or was about to fail there), or because
\* its last activation was dropped while it stood there, and then it may stay shown
\* so while the run goes on with other agents: no late command and no earlier
\* activation leaves such a state on an agent that works.  Only a cancelled run
\* may still show the approval it was waiting for.
ShownStateIsReal ==
    \A a \in Agents :
        /\ state[a] = "paused" =>
              \/ agent = a /\ pc \in {"parked", "woken", "failing"}
              \/ dropped[a] = "parked"
        /\ state[a] = "waiting_approval" =>
              \/ agent = a /\ (pc \in {"approval", "failing"} \/ runCancelled)
              \/ dropped[a] = "approval"

\* stop_workflow ends the run even when the provider, the tool or the user it
\* is waiting for never answers and even when every agent is paused.
StopEndsRun == runCancelled ~> pc = "over"

\* A runner parked at a safe point is released by cancel_agent.
CancelReleasesParked == (pc = "parked" /\ cancelled[agent]) ~> pc # "parked"

-------------------------------------------------------------------------------
(* What the repository says and the code does not do *)

\* The comment in update_session_state: the session never looks completed while
\* one member is still running.  "pausing" is missing from its PRIORITY.
NeverLooksCompleted ==
    session = "completed" =>
        \A a \in Agents : agent = a => pc \notin {"top", "safe", "budget", "model", "act", "tool"}

\* The phase 1.6 design, section 5.7: the end of an activation writes its terminal
\* state, which is then final.
TerminalRecordStays ==
    [][\A a \in Agents : \A i \in 1..Len(records[a]) :
          records[a][i] \in Terminal => records'[a][i] = records[a][i]]_vars
===============================================================================
