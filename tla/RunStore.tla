------------------------------- MODULE RunStore -------------------------------
(***************************************************************************)
(* The run database of apps/desktop/src-tauri/src/runs.rs and the programs *)
(* that write it: run_workflow, the sink of the engine's events (TauriSink *)
(* ::emit) and the guard of the run's task, on a thread of the runtime;    *)
(* the commands that checkpoint a session, on the main thread; and the two *)
(* recovery passes of AppState::new.  The process may die between any two  *)
(* steps.  SQLite runs each transaction whole, or fails it.                *)
(*                                                                         *)
(* One run, and of its session one agent that is activated once: its       *)
(* state, that of its activation record, whether a tool call is in its     *)
(* usage, the reviews recovery asked for.  What an agent does is           *)
(* AgentLifecycle's subject; it is cut down here to what changes that      *)
(* document.  Events that change nothing but the log, such as the usage of *)
(* a model's answer, are left out.                                         *)
(***************************************************************************)
EXTENDS Integers, Sequences

CONSTANT Bound  \* bounds: how often the things in Budgets may happen, the first two in one process

Budgets == {"calls", "commands", "failures", "crashes"}

ASSUME BoundAssumption == Bound \in [Budgets -> Nat]

VARIABLES
    \* The database: runs.status, run_events, runs.last_seq, task_sessions.
    status, log, lastSeq, saved,
    \* The process.
    proc,          \* "down", "recovering" (between the two passes of start-up), "up"
    listed,        \* AppState.runs holds the control of the run
    runCancelled,  \* RunControl.cancelled
    agentCancelled, paused,  \* the flags of AgentRuntime
    live,          \* the session of the agent bus
    pc,            \* where the run's task is, or run_workflow before it is spawned
    sending,       \* the event in TauriSink::emit
    command,       \* the checkpoint in progress on the main thread
    \* History.
    emitted,       \* the events the runtime has numbered: the n-th has number n - 1
    lost,          \* an append failed
    acted,         \* a tool of the activation has taken effect
    spent          \* how much of each bound is used

durable == <<status, log, lastSeq, saved>>
control == <<listed, runCancelled, agentCancelled, paused>>
task == <<live, pc, sending, emitted, acted>>
vars == <<durable, proc, control, task, command, lost, spent>>

Active == {"running", "pausing", "paused", "waiting_approval"}
Final == {"completed", "failed", "cancelled"}
Over == Final \cup {"interrupted"}

NoSession == [agent |-> "unregistered"]
NoEvent == [stage |-> "none"]
NoCommand == [stage |-> "none"]

Keep(these) == UNCHANGED these

May(what) == spent[what] < Bound[what]
Spend(what) == May(what) /\ spent' = [spent EXCEPT ![what] = @ + 1]

\* update_session_state, for one agent: "pausing" is not in PRIORITY.
\* Variant for the sensitivity of TypeOK: the session takes the state of its agent.
SessionAsAgent(st) == st

SessionOf(st) == IF st = "pausing" THEN "completed" ELSE st

\* What save_task_session writes for the session s of the bus.
Doc(s) == [session |-> SessionOf(s.agent), agent |-> s.agent, record |-> s.record,
           tools |-> s.tools, reviews |-> 0]

\* set_instance_state: the instance and its current activation, if it has one.
WithState(s, st) ==
    [s EXCEPT !.agent = st, !.record = IF @ = "none" THEN @ ELSE st]

Init ==
    /\ status = "absent" /\ log = <<>> /\ lastSeq = -1 /\ saved = NoSession
    /\ proc = "up"
    /\ listed = FALSE /\ runCancelled = FALSE /\ agentCancelled = FALSE /\ paused = FALSE
    /\ live = NoSession /\ pc = "absent" /\ sending = NoEvent
    /\ command = NoCommand
    /\ emitted = <<>> /\ lost = FALSE /\ acted = FALSE
    /\ spent = [b \in Budgets |-> 0]

(***************************************************************************)
(* run_workflow.                                                           *)
(***************************************************************************)
CreateRun ==
    /\ proc = "up" /\ pc = "absent" /\ status = "absent"
    /\ status' = "running"
    /\ pc' = "created"
    /\ Keep(<<log, lastSeq, saved, proc, control, live, sending, emitted, acted, command, lost, spent>>)

\* link_conversation_run(...)? or add_conversation_message(...)? : the command
\* fails, and nothing takes the row back.
Refuse ==
    /\ pc = "created"
    /\ Spend("failures")
    /\ pc' = "refused"
    /\ Keep(<<durable, proc, control, live, sending, emitted, acted, command, lost>>)

Spawn ==
    /\ pc = "created"
    /\ listed' = TRUE
    /\ pc' = "begin"
    /\ Keep(<<durable, proc, runCancelled, agentCancelled, paused, live, sending, emitted, acted, command, lost, spent>>)

(***************************************************************************)
(* The task.  EventEmitter numbers an event and calls the sink, which      *)
(* returns before the task goes on.                                        *)
(***************************************************************************)
At(label) == pc = label /\ sending = NoEvent

Emit(what, next) ==
    /\ sending' = [stage |-> "append", seq |-> Len(emitted), what |-> what]
    /\ emitted' = Append(emitted, what)
    /\ pc' = next

\* A change of the session and the agent event that announces it.
Announce(s, next) == live' = s /\ Emit("agent", next)

Begin ==
    /\ At("begin")
    /\ Emit("started", "ready")
    /\ Keep(<<durable, proc, control, live, acted, command, lost, spent>>)

RegisterAgent ==
    /\ At("ready") /\ live = NoSession /\ ~runCancelled
    /\ Announce([agent |-> "pending", record |-> "none", tools |-> FALSE], "activate")
    /\ Keep(<<durable, proc, control, acted, command, lost, spent>>)

StartActivation ==
    /\ At("activate")
    /\ Announce([agent |-> "running", record |-> "running", tools |-> FALSE], "working")
    /\ Keep(<<durable, proc, control, acted, command, lost, spent>>)

\* wait_for_safe_point.  A pause that comes after the last one does not stop a
\* call or the end of the activation: "working" is before and after it.
Park ==
    /\ At("working") /\ paused
    /\ Announce(WithState(live, "paused"), "parked")
    /\ Keep(<<durable, proc, control, acted, command, lost, spent>>)

Wake ==
    /\ At("parked")
    /\ IF runCancelled \/ agentCancelled
       THEN pc' = "failing" /\ UNCHANGED <<live, sending, emitted>>
       ELSE ~paused /\ Announce(WithState(live, "running"), "working")
    /\ Keep(<<durable, proc, control, acted, command, lost, spent>>)

\* A tool call: its target is approved already, or the user is asked.
CallTool ==
    /\ At("working") /\ ~runCancelled /\ ~agentCancelled
    /\ Spend("calls")
    /\ \/ pc' = "tool" /\ UNCHANGED <<live, sending, emitted>>
       \/ Announce(WithState(live, "waiting_approval"), "approval")
    /\ Keep(<<durable, proc, control, acted, command, lost>>)

\* The answer, or the end of the wait: granted or not.
ApprovalResolved ==
    /\ At("approval")
    /\ \E next \in {"tool", "failing"} :
           IF runCancelled
           THEN pc' = next /\ UNCHANGED <<live, sending, emitted>>
           ELSE Announce(WithState(live, "running"), next)
    /\ Keep(<<durable, proc, control, acted, command, lost, spent>>)

StartTool ==
    /\ At("tool")
    /\ Emit("agent", "acting")
    /\ Keep(<<durable, proc, control, live, acted, command, lost, spent>>)

\* execute_with_workspace: write_file does not look at the cancellation, and
\* run_command starts its child before it does.
TakeEffect ==
    /\ At("acting")
    /\ acted' = TRUE
    /\ Keep(<<durable, proc, control, live, pc, sending, emitted, command, lost, spent>>)

ToolReturns ==
    /\ At("acting")
    /\ \/ pc' = "acted"
       \/ runCancelled /\ pc' = "failing"
    /\ Keep(<<durable, proc, control, live, sending, emitted, acted, command, lost, spent>>)

FinishTool ==
    /\ At("acted")
    /\ Emit("agent", "counting")
    /\ Keep(<<durable, proc, control, live, acted, command, lost, spent>>)

\* record_usage, then the event Usage.
RecordUsage ==
    /\ At("counting")
    /\ Announce([live EXCEPT !.tools = TRUE], "working")
    /\ Keep(<<durable, proc, control, acted, command, lost, spent>>)

\* ensure_active, or any error of run_agent.
Fail ==
    /\ At("working")
    /\ pc' = "failing"
    /\ Keep(<<durable, proc, control, live, sending, emitted, acted, command, lost, spent>>)

\* finish_activation; after an error the usage is that of no work at all.
FinishActivation ==
    /\ \/ At("working") /\ Announce(WithState(live, "completed"), "ready")
       \/ At("failing") /\ \E st \in {"failed", "cancelled"} :
              /\ st = "cancelled" => runCancelled \/ agentCancelled
              /\ Announce([WithState(live, st) EXCEPT !.tools = FALSE], "ready")
    /\ Keep(<<durable, proc, control, acted, command, lost, spent>>)

\* The scheduler drops the executor at an await when the run is cancelled.  Of the
\* events that carry no session, run.started and this node.cancelled are here.
DropCancelled ==
    /\ runCancelled /\ pc \in {"working", "parked", "approval", "acting"} /\ sending = NoEvent
    /\ Emit("node", "dropped")
    /\ Keep(<<durable, proc, control, live, acted, command, lost, spent>>)

\* The agent's node is the one that may fail, and the run with it; a stop that
\* comes after the last node may still be seen, or not.
Ends(st) ==
    \/ st = "cancelled" /\ runCancelled
    \/ st = "failed" /\ live.agent # "completed"
    \/ st = "completed" /\ live.agent \notin {"failed", "cancelled"}

Finish ==
    /\ \/ At("ready") /\ \E st \in Final : Ends(st) /\ Emit(st, "ending")
       \/ At("dropped") /\ Emit("cancelled", "ending")
    /\ Keep(<<durable, proc, control, live, acted, command, lost, spent>>)

Running == {"begin", "ready", "activate", "working", "parked", "approval", "tool", "acting",
            "acted", "counting", "failing", "dropped"}

Panic ==
    /\ pc \in Running /\ sending = NoEvent
    /\ Spend("failures")
    /\ pc' = "ending"
    /\ Keep(<<durable, proc, control, live, sending, emitted, acted, command, lost>>)

Works ==
    \/ Begin \/ RegisterAgent \/ StartActivation
    \/ Park \/ Wake \/ CallTool \/ ApprovalResolved
    \/ StartTool \/ TakeEffect \/ ToolReturns \/ FinishTool \/ RecordUsage \/ Fail
    \/ FinishActivation \/ DropCancelled \/ Finish \/ Panic

(***************************************************************************)
(* TauriSink::emit, on the task's thread.                                  *)
(***************************************************************************)
Sent(stage) == sending.stage = stage

\* Only these carry the session to the database, once there is a bus.
AfterAppend ==
    IF sending.what \in Final \cup {"agent"} /\ live # NoSession
    THEN [stage |-> "snapshot"] ELSE NoEvent

\* append_event: numbers the database has already are ignored, the next one is
\* stored, and a terminal event sets the status in the same transaction.
\* Variant for the sensitivity of LogIsFaithful: the gap is not looked for.
StoreAnyLater ==
    /\ Sent("append")
    /\ sending.seq > lastSeq
    /\ log' = Append(log, [seq |-> sending.seq, what |-> sending.what])
    /\ lastSeq' = sending.seq
    /\ status' = IF sending.what \in Final THEN sending.what ELSE status
    /\ sending' = AfterAppend
    /\ Keep(<<saved, proc, control, live, pc, emitted, acted, command, lost, spent>>)

Store ==
    /\ Sent("append")
    /\ sending.seq = lastSeq + 1
    /\ log' = Append(log, [seq |-> sending.seq, what |-> sending.what])
    /\ lastSeq' = sending.seq
    /\ status' = IF sending.what \in Final THEN sending.what ELSE status
    /\ sending' = AfterAppend
    /\ Keep(<<saved, proc, control, live, pc, emitted, acted, command, lost, spent>>)

\* The transaction fails, or the number leaves a gap; the run is cancelled.
\* Variant for the sensitivity of LossIsShown: the failure is only reported.
LoseQuietly ==
    /\ Sent("append")
    /\ \/ sending.seq > lastSeq + 1 /\ UNCHANGED spent
       \/ Spend("failures")
    /\ lost' = TRUE
    /\ sending' = AfterAppend
    /\ Keep(<<durable, proc, control, live, pc, emitted, acted, command>>)

Lose ==
    /\ Sent("append")
    /\ \/ sending.seq > lastSeq + 1 /\ UNCHANGED spent
       \/ Spend("failures")
    /\ lost' = TRUE
    /\ runCancelled' = TRUE
    /\ sending' = AfterAppend
    /\ Keep(<<durable, proc, listed, agentCancelled, paused, live, pc, emitted, acted, command>>)

\* bus.session(), then save_task_session: what the main thread does in between
\* is not in the copy.
CopySession ==
    /\ Sent("snapshot")
    /\ sending' = [stage |-> "save", doc |-> Doc(live)]
    /\ Keep(<<durable, proc, control, live, pc, emitted, acted, command, lost, spent>>)

SaveSession ==
    /\ Sent("save")
    /\ \/ saved' = sending.doc /\ UNCHANGED <<runCancelled, spent>>
       \/ Spend("failures") /\ runCancelled' = TRUE /\ UNCHANGED saved
    /\ sending' = NoEvent
    /\ Keep(<<status, log, lastSeq, proc, listed, agentCancelled, paused, live, pc, emitted, acted, command, lost>>)

Sinks == Store \/ Lose \/ CopySession \/ SaveSession

(***************************************************************************)
(* RunTaskGuard, when the engine's future is done or has unwound.          *)
(***************************************************************************)
Unlist ==
    /\ At("ending")
    /\ listed' = FALSE
    /\ pc' = "unlisted"
    /\ Keep(<<durable, proc, runCancelled, agentCancelled, paused, live, sending, emitted, acted, command, lost, spent>>)

\* interrupt_run: a run that is still running gets a terminal event of its own.
\* Variant for the sensitivity of HistoryIsFinal: whatever the status is.
InterruptAny ==
    /\ status' = "interrupted"
    /\ log' = Append(log, [seq |-> lastSeq + 1, what |-> "interrupted"])
    /\ lastSeq' = lastSeq + 1

\* Variant for the sensitivity of StatusIsTheLog: the status alone.
InterruptStatus ==
    /\ status' = IF status = "running" THEN "interrupted" ELSE status
    /\ UNCHANGED <<log, lastSeq>>

Interrupt ==
    IF status = "running"
    THEN /\ status' = "interrupted"
         /\ log' = Append(log, [seq |-> lastSeq + 1, what |-> "interrupted"])
         /\ lastSeq' = lastSeq + 1
    ELSE UNCHANGED <<status, log, lastSeq>>

MarkInterrupted ==
    /\ At("unlisted")
    /\ \/ Interrupt /\ pc' = "settled" /\ UNCHANGED spent
       \/ Spend("failures") /\ pc' = "unsettled" /\ UNCHANGED <<status, log, lastSeq>>
    /\ Keep(<<saved, proc, control, live, sending, emitted, acted, command, lost>>)

Guards == Unlist \/ MarkInterrupted

(***************************************************************************)
(* The main thread.  run_bus finds a listed run that has a session; what   *)
(* the task does afterwards does not stop the command.  AgentLifecycle     *)
(* takes the first step of pause and resume apart.                         *)
(***************************************************************************)
Stop ==
    /\ listed /\ command = NoCommand
    /\ Spend("commands")
    /\ runCancelled' = TRUE
    /\ Keep(<<durable, proc, listed, agentCancelled, paused, task, command, lost>>)

Commanded == listed /\ live # NoSession /\ command = NoCommand

\* Bound: a command that ends the pause of an agent is not counted.
SpendUnless(endsPause) == IF endsPause THEN UNCHANGED spent ELSE Spend("commands")

PauseAgent ==
    /\ Commanded /\ Spend("commands")
    /\ paused' = TRUE
    /\ live' = WithState(live, "pausing")
    /\ command' = [stage |-> "snapshot"]
    /\ Keep(<<durable, proc, listed, runCancelled, agentCancelled, pc, sending, emitted, acted, lost>>)

ResumeAgent ==
    /\ Commanded /\ SpendUnless(paused)
    /\ paused' = FALSE
    /\ live' = IF live.agent \in {"paused", "pausing"} THEN WithState(live, "running") ELSE live
    /\ command' = [stage |-> "snapshot"]
    /\ Keep(<<durable, proc, listed, runCancelled, agentCancelled, pc, sending, emitted, acted, lost>>)

CancelAgent ==
    /\ Commanded /\ SpendUnless(paused /\ ~agentCancelled)
    /\ agentCancelled' = TRUE
    /\ command' = [stage |-> "snapshot"]
    /\ Keep(<<durable, proc, listed, runCancelled, paused, task, lost>>)

\* send_agent_directive, apply_agent_config, reject_agent_config.
Intervene ==
    /\ Commanded /\ Spend("commands")
    /\ command' = [stage |-> "snapshot"]
    /\ Keep(<<durable, proc, control, task, lost>>)

\* checkpoint_session: a failure is the command's answer, the run goes on.
CheckpointCopy ==
    /\ command.stage = "snapshot"
    /\ command' = [stage |-> "save", doc |-> Doc(live)]
    /\ Keep(<<durable, proc, control, task, lost, spent>>)

CheckpointSave ==
    /\ command.stage = "save"
    /\ \/ saved' = command.doc /\ UNCHANGED spent
       \/ Spend("failures") /\ UNCHANGED saved
    /\ command' = NoCommand
    /\ Keep(<<status, log, lastSeq, proc, control, task, lost>>)

Commands ==
    \/ Stop \/ PauseAgent \/ ResumeAgent \/ CancelAgent \/ Intervene
    \/ CheckpointCopy \/ CheckpointSave

(***************************************************************************)
(* The process.  The instance lock keeps a second one from starting up.    *)
(***************************************************************************)
Crash ==
    /\ proc # "down"
    /\ May("crashes")
    /\ spent' = [spent EXCEPT !["crashes"] = @ + 1, !["calls"] = 0, !["commands"] = 0]
    /\ proc' = "down"
    /\ listed' = FALSE /\ runCancelled' = FALSE /\ agentCancelled' = FALSE /\ paused' = FALSE
    /\ live' = NoSession /\ pc' = "absent" /\ sending' = NoEvent
    /\ command' = NoCommand
    /\ Keep(<<durable, emitted, acted, lost>>)

\* mark_interrupted_at_startup; an error ends the process.
MarkAtStartup ==
    /\ proc = "down"
    /\ \/ Interrupt /\ proc' = "recovering" /\ UNCHANGED spent
       \/ Spend("failures") /\ UNCHANGED <<proc, status, log, lastSeq>>
    /\ Keep(<<saved, control, task, command, lost>>)

Interrupted(d) ==
    [d EXCEPT !.session = "interrupted", !.agent = "interrupted",
              !.record = IF @ = "running" THEN "interrupted" ELSE @,
              !.reviews = IF d.record = "running" /\ d.tools THEN @ + 1 ELSE @]

\* What recover_task_sessions makes of a stored session.
\* Variant for the sensitivity of NothingLooksAlive: a waiting agent is left alone.
RecoverRunning(d) ==
    IF d = NoSession THEN d
    ELSE IF d.session \in Final \/ d.agent # "running" THEN d
    ELSE Interrupted(d)

Recovered(d) ==
    IF d = NoSession THEN d
    ELSE IF d.session \in Final \/ d.agent \notin Active THEN d
    ELSE Interrupted(d)

RecoverSessions ==
    /\ proc = "recovering"
    /\ \/ saved' = Recovered(saved) /\ proc' = "up" /\ UNCHANGED spent
       \/ Spend("failures") /\ proc' = "down" /\ UNCHANGED saved
    /\ Keep(<<status, log, lastSeq, control, task, command, lost>>)

Process == Crash \/ MarkAtStartup \/ RecoverSessions

Next == CreateRun \/ Refuse \/ Spawn \/ Works \/ Sinks \/ Guards \/ Commands \/ Process

Spec == Init /\ [][Next]_vars

\* A task whose thread lives is polled, tools return, and an approval that is not
\* given times out; a pause lasts as long as the user likes.
FairSpec == Spec /\ WF_vars(Works \/ Sinks \/ Guards)

-------------------------------------------------------------------------------
(* Properties *)

Events == Final \cup {"started", "node", "agent"}
Labels == Running \cup {"absent", "created", "refused", "ending", "unlisted", "settled", "unsettled"}

LiveStates == Active \cup Final \cup {"pending"}
Docs == [session : (LiveStates \cup {"interrupted"}) \ {"pausing"},
         agent : LiveStates \cup {"interrupted"},
         record : LiveStates \cup {"none", "interrupted"},
         tools : BOOLEAN, reviews : 0..1]

TypeOK ==
    /\ status \in Over \cup {"absent", "running"}
    /\ log \in Seq([seq : Nat, what : Events \cup {"interrupted"}])
    /\ lastSeq \in Nat \cup {-1}
    /\ saved \in Docs \cup {NoSession}
    /\ proc \in {"down", "recovering", "up"}
    /\ listed \in BOOLEAN /\ runCancelled \in BOOLEAN /\ agentCancelled \in BOOLEAN /\ paused \in BOOLEAN
    /\ live \in {NoSession} \cup [agent : LiveStates, record : LiveStates \cup {"none"}, tools : BOOLEAN]
    /\ pc \in Labels
    /\ sending \in {NoEvent, [stage |-> "snapshot"]} \cup [stage : {"append"}, seq : Nat, what : Events]
                  \cup [stage : {"save"}, doc : Docs]
    /\ command \in {NoCommand, [stage |-> "snapshot"]} \cup [stage : {"save"}, doc : Docs]
    /\ emitted \in Seq(Events)
    /\ lost \in BOOLEAN /\ acted \in BOOLEAN
    /\ spent \in [Budgets -> Nat]

\* The stored log is what the runtime emitted, event by event and number by number,
\* from the first on without a gap; only an interruption may follow that nobody
\* emitted.  (append_event's sequence check, interrupt_run.)
LogIsFaithful ==
    /\ lastSeq = Len(log) - 1
    /\ \A i \in 1..Len(log) :
           /\ log[i].seq = i - 1
           /\ \/ i <= Len(emitted) /\ log[i].what = emitted[i]
              \/ i = Len(log) /\ log[i].what = "interrupted"

\* The status a run is listed with and its log agree whatever failed in between:
\* it is over exactly when the last event says so, and no earlier event does.
StatusIsTheLog ==
    /\ status \in Over => log # <<>> /\ log[Len(log)].what = status
    /\ \A i \in 1..Len(log) : log[i].what \in Over => i = Len(log) /\ status = log[i].what

\* A run that is over stays as it ended: no late event, no guard and no restart
\* changes its status or its log.
HistoryIsFinal == [][(status \in Over) => UNCHANGED <<status, log>>]_vars

\* Once start-up is through, nothing an earlier process left behind looks alive:
\* the run is over and no session claims to run or to wait for anybody.
NothingLooksAlive ==
    proc = "up" /\ pc = "absent" =>
        /\ status # "running"
        /\ saved # NoSession => saved.session \notin Active

\* A run that lost an event is stopped and shown as interrupted, unless its process
\* dies or the guard cannot write either; it is never left waiting for a user.
LossIsShown == lost ~> (status = "interrupted" \/ pc \in {"unsettled", "absent"})

\* The comment on recover_task_sessions: an interrupted activation whose tool has
\* taken effect is up for review.
EffectIsReviewed ==
    proc = "up" /\ pc = "absent" /\ saved # NoSession /\ acted /\ spent["failures"] = 0 =>
        (saved.agent = "interrupted" => saved.reviews > 0)

\* "Stop producing new work instead of pretending durable state": no tool takes
\* effect after an event of the run was lost.
NoWorkAfterLoss == [][lost /\ acted' => acted]_vars
===============================================================================
