# LingXiAgent in TLA+

LingXiAgent is a desktop application that edits and runs workflows of nodes, some of
which are agents that call models and tools. This directory holds TLA+ models of the
part that decides what runs when, of what agents say, read, write and are allowed to
do, and of what the user can do to it meanwhile, with the TLC configurations that check
them and proofs for TLAPS. Paths are relative to
`src/`; `rt/` stands for `crates/lingxi-runtime/src/` and `app/` for
`apps/desktop/src-tauri/src/`.

    tlc -config MCMessageBus.cfg MCMessageBus      # and the other .cfg files alike
    tlapm AgentBusProofs.tla                       # and the other *Proofs.tla

## 1. Inventory

| component | state it keeps | operations | hard behaviour |
|---|---|---|---|
| message bus, `rt/agent_bus.rs` | members, messages, transcript, idempotency keys, one inbox per agent | register, send, receive, acknowledge | retries, partial broadcast, eviction while ids are still queued |
| activation lifecycle, `rt/agent_bus.rs` `rt/agent_node.rs` `rt/agent_runner.rs` | instance state, activation records, session state, pause and cancel flags, the runner's position and budgets | activate, loop of model, tools and result, finish; pause, resume, cancel, stop | commands of the main thread between any two steps of the runner; waits that never end |
| interventions, same files | configuration in force, revision history, pending slot, directives | apply, reject, take, mark applied, drain | a slot filled outside the mutex, numbers that repeat |
| control-flow scheduler, `rt/control_flow.rs` | tokens, dead edges, ready queue, loop, settled nodes | prepare, evaluate, run, propagate, skip, fail, gates, finish | loops and joins, absent outputs, deadlines, dropped futures |
| acyclic engine, `rt/engine.rs` | outputs of finished nodes, failed, skipped and unavailable nodes | execute in topological order | cancellation and pause between nodes and within one |
| run control, `rt/control.rs` | cancelled, paused, two notifiers | cancel, pause, resume and the waits | a notification between the test and the wait |
| workflow model and validation, `crates/lingxi-spec/src` | the document | validate | cycles with and without gates, definitions that refer to each other |
| permission broker, `rt/permissions.rs` `rt/interaction.rs` `rt/context.rs` | policy, node modes, cache of approvals, pending interactions | authorize, set mode, respond, time out, cancel | mode and cache under two locks; what was read before a wait or a switch and is used after it; answers early and late |
| model node and its memory, `rt/agent.rs` `rt/conversation.rs` `rt/services.rs` | context entries, usage, the server-side session | ask, dispatch tools, store, trim | a history trimmed while the server keeps its own |
| model providers, `rt/provider.rs` `rt/responses.rs` `rt/anthropic.rs` | one request, its stream and what was gathered of it | encode, read chunks, assemble, fail | chunks cut anywhere, a stream that breaks or falls silent |
| MCP and LSP clients, `rt/mcp.rs` `rt/lsp.rs` | a child process, request numbers, diagnostics | connect, call, read, give up, shut down | late answers, half messages, timers that begin again with every line, a server that does anything |
| workspace files, `rt/workspace.rs` `rt/workspace_tools.rs` `app/projects.rs` | the files themselves | read, list, write with a version, delete, run a command | agents, commands and the editor on one file without a lock |
| run database, `app/runs.rs` `app/commands.rs` | runs, event log, session checkpoints | create, append, save, interrupt, recover | crashes between transactions, sequence gaps |
| built-in nodes, tool catalogue, skills, projects, assets, media, templates, credentials, redaction, frontend | values, files, views | functions of their inputs | outside this project: input and output, or text |

**Interaction.** `run_workflow` (`app/commands.rs:194`) creates a `RunControl` and
spawns one task, which validates and executes the workflow. A workflow with control
edges, composites or gates goes to the control-flow scheduler, any other to the acyclic
engine; either awaits one node executor at a time, and a composite runs a nested
scheduler. The executor of an agent node registers the instance on the run's
`AgentBus`, starts an activation and runs `run_agent`, which awaits the provider, the
user (through the permission broker) and tools; the nodes of the standard agent
template (Model, Tool Dispatcher, Context, gate) do the same as a loop of the
scheduler. Tools reach files through `Workspace` and servers through the MCP and LSP
clients. Commands run one after another on the main thread; they see the run through
the bus mutex, the atomic flags of `RunControl` and `AgentRuntime`, the pending slot,
the broker's map and the files. Every event goes through `TauriSink` to the database,
then to the frontend.

**What makes each part correct.** The bus loses, repeats and reorders nothing it accepted.
A pause takes effect before anything is acted on, a stop or cancel ends every wait, and
what the workbench shows is so. Exactly the newest pending configuration takes effect.
Only documents whose cycles are counted by a gate are executed; the schedulers run what
can run, skip only what never can, respect budgets and deadlines, and end. An agent does
what its mode or an answer of the user allows, and what the user takes back is not allowed
any longer (two gaps in that are in section 4). The model is told what was said, in order,
and its reply is taken whole or not at all. Work on a file is overwritten only by who has
seen it. An answer of a server reaches the call it belongs to. The database holds a
gap-free log and, after a crash, no run that looks alive. `PROJECT.json` lists the hazards
line by line with the properties that watch them.

## 2. Modules

| module | what it is |
|---|---|
| `MessageBus` | the message half of the bus |
| `AgentLifecycle` | the activation half of the bus, composed with the runner and the commands |
| `AgentIntervention` | configuration revisions and directives, one agent |
| `NodeProgress` | abstract contract of a run: what may be reported of its nodes |
| `ControlFlow` | the token scheduler, which implements `NodeProgress` |
| `Validation` | the validation of a document, as operators |
| `Engine` | a run from validation to its end on the acyclic path, which implements `NodeProgress` |
| `Permissions` | the permission broker with its prompts |
| `Conversation` | the standard agent's loop, its memory and the server-side session |
| `ModelRequest`, `ModelStream` | a transcript on the wire, and one model request from transcript to reply |
| `Workspace` | files and those who work on them |
| `ToolServer` | the clients of MCP and language servers, and the servers |
| `RunStore` | the run database, those who write it, crashes and recovery |
| `MC*` | constants for TLC |
| `AgentBusProofs` (of `MessageBus` and `AgentIntervention`), `AgentLifecycleProofs`, `ControlFlowProofs`, `EngineProofs` (with `Validation`), `AgentTurnProofs` (of `Permissions` and `Conversation`), `WorkspaceProofs`, `WireProofs` (of `ToolServer` and `ModelStream`), `RunStoreProofs` | theorems and proofs |

Definitions whose comment begins with "Variant for the sensitivity of" are faulty
forms of the definition that follows. They are never used by a specification; put in
place of that definition, they make the named property fail, which shows that the
property depends on it.

### MessageBus

Every public method of `AgentBus` holds one mutex for its whole body, so each is one
action: `RegisterInstance`, `Receive`, `Acknowledge`, `FinishMessage`, and `send` in three
disjuncts by its answer: `SendAccepted`, `SendQueueFull` (the recipients before the first
full inbox keep the id and nothing else is recorded) and `SendAnswered` (a repeated key or
id, a stranger: no change). `Verdict` gives the order of the early returns. An envelope is
its id; `Sender`, `Recipient` and `Key` are constants. A broadcast is delivered in key
order, hence agents are numbers. The bus keeps two copies of each message, the map
(`messages`) and the session's transcript (`transcript`, `stored`), which
`finish_activation` lets diverge. `got`, `earlier` and `accepted` are history: what
`receive` handed to an agent, in what order it did so (the pairs of messages of which one
was handed over before the other, in one answer or in two), and the order of acceptance.
`DirectFifo` relates the last two, so it speaks of what agents were given and not of what
is still queued. In the program as it stands only `send` and `finish_activation` are
called by production code; `receive` and `acknowledge` are public and exercised by tests,
so they are modelled as the API allows.

### AgentLifecycle

Two threads. The runner's position is `pc`, one label for each place where the other
thread can see it: a critical section of the bus, an atomic flag, an `await`. The
actions follow `execute` and `run_agent` top to bottom:

    idle -> registered -> input -> setup -> top -> [safe point "top"] -> budget ->
    model -> [safe point "model"] -> act -> {repair, submit, next tool}
    tool call: [safe point "tool"] -> authorize -> (approval) -> tool -> act
    submit -> publish -> idle            any error -> failing -> idle
    safe point: safe -> (parking -> parked -> woken) -> onward

`DropCancelled` and `DropTimedOut` are the scheduler's `select!`, which drops the
executor's future at whatever it awaits (`Awaiting`): nothing of `execute` runs any
more, so the record stays as it was. A cancellation ends the run. A deadline ends
the innermost scheduler that has one: the whole run's, and the run is over; or the scope
of a composite, which then fails while the run goes on with other agents or with a later
activation of the same. The agent that was dropped stays shown as it was, paused or
waiting for an approval, until its next activation; `dropped` is the history of that, and
`ShownStateIsReal` allows this and no other state that is not so. The commands are split
where the code unlocks:
`PauseAgent` then `ShowPausing`; `ResumeAgent`, `ReadState`, `ShowRunning`.
`SetState` is `set_instance_state`: instance, current record and the session state
folded by `SessionOf` from the code's `PRIORITY`. What the model or a tool returns,
and how long it takes, is nondeterministic; token budgets and deadlines appear as
"may fail". `held` is a history flag: the agent was paused when the answer came, or when
the turn of one of its tools came, and has not been resumed.

### AgentIntervention

The main thread's `ApplyConfig` (under the mutex) and `SetPendingConfig` (after
it), `RefuseConfig`, `RejectConfig`, `QueueDirective`; the runner's `TakePending`,
`MarkConfigApplied`, `DrainDirectives`, then the model, the action on its answer and
the next iteration. An activation starts from the node's own configuration
(`StartActivation`) and may end at any place where the code can. A configuration is
a revision number and a body from a small set; the body is what `diff` compares.
The numbering is the code's: the configuration in force plus one. The names of `Init`,
`Next`, `vars` and the type invariant carry a prefix, so that one module can be about
both halves of `agent_bus.rs`.

### ControlFlow and NodeProgress

`workflow` is chosen among the constant `Workflows` and never changes. Edges are
numbered; `tokens` are the edges that hold a value (control edges are one-shot, data
is latched), `fresh` the data written since it was last read, `inactive` the dead
ones. `Evaluate` is `evaluate`: go, wait or blocked. The mutual recursion of
`skip_node` and `deactivate_edge` is the list `work`, processed in the order of the
recursion before anything else goes on. The main loop is `StopCancelled`,
`StopExpired`, `BeginPass`, then `EnqueueReady` node by node, then `Pop` with what is
done to the head: `PassOver`, `StartNode`, `MissingInput` or a gate action. While
an executor runs (`pc = "execute"`) the select may see the answer, the cancellation
or the deadline. `SettleUnreached` and `Finish` end the run. Commands and clocks are
the `Environment`. A scope inside a composite is the same module with
`nested`, a parent deadline and inputs from outside.

`NodeProgress` keeps for each node whether it is unreached, running, ran, failed or
skipped, and whether the run is over: at most one node runs, a failure is final, a
skipped node never ran and never will, and the run ends only when each node is
accounted for. `KeepsContract` is the refinement under the mapping `progress`.

### Validation and Engine

`Validation` has one operator for each function of `validation.rs`; it yields the codes
of the errors that function reports, and a document is `Accepted` if there are none.
The graph algorithms are the code's: Kosaraju's components with the order of the
explicit stack, the removal of sources in `has_cycle_without`, the walk along
references, written as recursive functions. A node's
parameter is a type and a value; positions, texts and warnings are left out.

`Engine` composes it with `execute`. `Admit` validates and decides where the document
goes; `HandOver` leaves it to `ControlFlow`. On the acyclic path one turn of the loop
is `SkipNode`, `RefuseNode` or `StartNode`; an executor that is awaited ends by
`FinishNode`, `FailNode` or, since the select is biased towards the cancellation,
`CancelNode`. `Cancel` and `PauseOrResume` come from other threads. `KeepsContract` is
the refinement of `NodeProgress` with its `Abandon`, since a cancelled run leaves nodes
unreached. `AcceptedCyclesAreGated` and `ExpansionEnds` compare the algorithms of the
validation with definitions of cycles and reachability by closed sets, over everything
that was admitted.

### Permissions

No lock is held from one table of the broker to the next, so `authorize_with` is cut
between them and where it waits: `Enter` reads the mode that judges the call, then the
cache and that mode decide (`Serve`, or `Announce`, where `InteractionRequested` is
emitted), then `Enrol` (the broker inserts the request, unless the cancellation is seen
first), then `Take`, `TimeOut` or `Abandon`, of which each leaves through the guard that
removes the request. The user answers a prompt once, before it is enrolled or after it
was given up (`Respond`).

A switch of the run's mode is two steps, `SetMode` under the lock of the policy and
`ClearApprovals` under that of the cache; between the two a call may still be served from
the old cache under the new mode. Both are steps of one command, so the main thread
handles no other command in between (`clearing`). An activation sets its node's mode in
two steps as well, `ReadMode` and `StoreMode`, on the thread of the run, with whatever the
user does in between; the node makes no call until that is done. `AutoAllowed` is
`auto_allowed` on what it looks at in a command line or path.

`given` and `inFlight` are history: the grants the user has given since the mode last
changed, and those given before which the calls waiting for them had not yet taken as the
cache was cleared. In the program a boolean answers a prompt, so `approved_once` never
comes from the desktop; the type allows it and so does the model.

### Conversation

One iteration of the template's loop: `Ask` (the session is checked, the budget of
calls, then the request goes out), `Reply`, `Dispatch` for each call, `Store` with the
limits of the Context node, and the gate. `CallsExhausted` and `GiveUp` are the ways
out. A message is its role, its text (what a fingerprint sees) and an identity. The
server keeps a transcript for each response id (`remote`); `Outgoing` is what the model
node sends of the history. `EnforceLimits` drops messages one at a time, as the code's
loop does. `stored` says whether the Context node has an entry: one from which everything
was trimmed is still an entry, and the model is then asked with an empty list and not with
the prompt again. `said` is history. The names begin with `Conversation` because the
module is proved about together with `Permissions`.

### ModelRequest and ModelStream

`ModelRequest` says how each adapter encodes a transcript of messages (`ChatMessage`, as
their constructors make them: `Sayable`): turns of blocks, a block being a part of a
message in some form. `ModelStream` is one request: `Ask`, `Respond`,
then the provider's `Speak` (text, reasoning, calls with fragments of arguments, the
usage, the end, an error, a connection cut anywhere) against the adapter's `Chunk`,
`EndOfStream` and `ReadWhole`. An event is a line of two symbols and a newline; a chunk
is any prefix of what is on the wire. `ReadLine` takes the next line of the buffer and
`Drain` does so until there is none, `ChatEvent`, `ResponsesEvent` and `AnthropicEvent`
are what each adapter does with an event, `ReplyOf` how it puts the calls together;
`Conclude` is what the model node does when the adapter returns a reply. The model
node's throttled display is `pending` and `shown`; when 200 ms have gone by is
nondeterministic.

Every chunk is decoded alone, so a character cut by the end of a chunk is lost (`Lossy`):
the words of that line are not as they were said. That may hit any line, the arguments and
the name of a tool as well as text, and the altered JSON is still valid, so the call is
made with altered arguments. A piece that was hit is no longer `intact`; a call that was
hit is `harmed`, by what its line writes to (`Touched`). Only Responses says a call twice,
and its completion replaces what the lines before it have gathered (`Replaced`). `hurt` is
history: the words such an end fell into (`Cuts`). `ReplyIsWhatWasSaid` compares pieces
and fragments by number (`Numbers`), and leaves open what became of their bytes;
`OnlyCutsAlter` says that: whatever is not in `hurt` arrives as it was said. Identities,
indices and the marks of JSON are ASCII and one byte each, so no cut damages them.
`ParseCompletion` refuses a call with empty arguments, which a streamed reply may have
(`Parsable`). `Break` is a lost connection, a cancellation or the time limit of
the request, at any time. The names begin with
`Stream` and `Request` where `ToolServer` has the same, because both modules are proved
about together: both read lines from a wire.

### Workspace

An actor is a run or the editor; nothing in the code locks a file, so every pair of
their system calls interleaves. `Write` makes the parent directory and compares the
version, `Stage` writes the temporary file, `Commit` renames it; `Delete` compares and
`Remove` removes; `temps` are the calls whose temporary file is there. `Run`
and `Finish` are a command; while it runs its processes do what they like with the files:
they write, which makes directories (`ProcessWrites`), delete files (`ProcessDeletes`),
delete temporary files, those of others too (`ProcessCleans`), and remove directories that
are empty (`ProcessRemovesDir`), which is how whole trees go. So a directory may vanish
under a call that is staging, whose rename then fails. A command that deletes the root of
the project is left out. Each may fail where
the system call may, `Crash` ends all calls and leaves temporary files. A version is
the digest of a content, so the content stands for it. `known` and `overtaken` are
history: the version an actor was last given, and who was overtaken after comparing.

### ToolServer

`link` says which client it is. `Spawn` and the answers to it make the connection, whose
writes may block as well (`greet`, `announce`, between them the waits `initialize` and
`list`); `Call` and `Diagnose` begin a call, whose write may block (`Write`); `Receive`
reads the next message and is, by what it is and where the client stands, an end of the
wait (`Complete`), something passed over (`PassOver`) or a failure (`FailReading`).
`TimeOut` is any of the timers around a call. `TimeOutConnecting` is the one of an MCP
handshake, which begins again with every line and therefore needs a server that says
nothing; nothing bounds the handshake as a whole, nor its writes. A timer of a call may
drop a read in the middle of a message (`CutRead`) and a write likewise (`spoiled`). The
server (`Answer`, `Chat`, `Die`) is not assumed to do anything. A request carries the call
it is of as history, which nothing on the wire tells (`AnswerIsOwn`).

### RunStore

One run and one agent that is activated once. The database is `status`, `log`,
`lastSeq` and `saved`; it alone survives `Crash`. Three parties write it. The *task*:
the runner of `AgentLifecycle`, cut down to the steps that change the session or
announce a change; each event gets the next number (`Emit`) and goes through
`TauriSink::emit`, which holds the task up while it stores the event (`Store`, `Lose`)
and then copies and saves the session (`CopySession`, `SaveSession`). When the engine
is done, or has panicked, `RunTaskGuard` takes the run off the list (`Unlist`) and
marks it interrupted if it is still running (`MarkInterrupted`). The *main thread*:
`Stop` and the commands on an agent, which change the bus, then copy the session
(`CheckpointCopy`), then save it (`CheckpointSave`). The *start-up*: `MarkAtStartup`
and `RecoverSessions`, of which each may fail and end the process. A transaction
happens whole or fails; the instance lock is the assumption that there is one
process. `emitted`, `lost` and `acted` are history: what was numbered, that an event
could not be stored, that the tool took effect. A session is the state of its agent,
of the activation record, and whether the usage counts a tool call; that is all
recovery looks at. Events that change nothing but the log (a model's usage, the nodes'
own events other than the cancellation) are left out.

The stored session may lag behind: a command that copied it before the task's last
checkpoint may save it after. A session whose agent is `pausing` is stored as
`completed` (`SessionOf`), so recovery passes over it and the agent inside keeps its
state; `NothingLooksAlive` speaks of the session and not of that agent. A run whose
start failed after `create_run` (`Refuse`) stays `running` until the next start-up.

## 3. Runs

| run | bounds | states | what it shows |
|---|---|---|---|
| `MCMessageBus` | 3 agents, 4 envelopes, 2 of them with one key, inboxes and transcript of 2 | 14 293 | `AcceptedOncePerKey`, `AcceptedReachesRecipient`, `DirectFifo` |
| `MCAgentLifecycle` | 2 agents, 2 activations in all, 2 iterations, 1 tool call | 1 142 804 | `PauseBeforeActing`, `ShownStateIsReal`, `StopEndsRun` |
| `MCAgentIntervention` | 3 bodies, 3 revisions, 1 waiting directive | 14 192 | `OnlyNewestPending`, `PendingIsTaken` |
| `MCControlFlow` | 5 workflows of up to 8 nodes, 2 iterations | 77 212 | `CascadeIsComplete`, `BudgetBoundsBody`, `KeepsContract`, `DeadlineEndsLoop`, `EveryRunEnds` |
| `MCEngine` | about 1 400 documents in six families, of up to 6 nodes and 3 definitions | 5 083 | `AcceptedCyclesAreGated`, `ExpansionEnds`, `FailureIsContained`, `CancelEndsRun`, `KeepsContract` |
| `MCPermissions` | 2 nodes with a call each, 2 targets, 2 prompts of one call and 1 of the other, 1 switch | 791 509 | `PendingIsAwaited`, `GrantsFollowSwitch`, `WidensOnlyAcrossSwitch`, `PromptSettles` |
| `MCConversation` | 8 settings, 3 iterations, up to 2 tool calls a reply | 202 722 | `ContextIsRecent`, `CallsAreAnswered`, `UntrimmedIsTold` |
| `MCConversationUnsaid` | the same | to the violation | `NothingUnsaid` is violated |
| `MCModelStream` | 3 protocols, 7 transcripts, 3 pieces of text or calls, of these at most 2 calls, 4 symbols on the wire | 1 141 471 | `NothingIsDropped`, `OnlyCompleteReplies`, `ReplyIsWhatWasSaid`, `OnlyCutsAlter`, `PageFollowsReply` |
| `MCWorkspace` | 2 actors, 2 files, 2 directories, 2 contents | 303 136 | `OverwritesOnlyWhenOvertaken`, `FilesHaveDirectories` |
| `MCToolServer` | 3 calls, 2 files, a pipe of 2, 2 messages unasked | 359 482 | `AnswerIsOwn`, `SpoilersAreSpent`, `CallEnds` |
| `MCRunStore` | 1 tool call, 1 command besides those that end a pause, 1 failure, 1 crash | 843 356 | `LogIsFaithful`, `StatusIsTheLog`, `NothingLooksAlive`, `HistoryIsFinal`, `LossIsShown` |

Each property is stated in words above its definition. The modules define more
properties than the runs check: the type invariants and a few others, most of them
proved (section 5), and those that the code refutes (section 4).

*Why these bounds are enough for the interesting cases.* Three agents let a broadcast
serve one inbox before it meets a full one; a queue and a transcript of two let four
envelopes overflow both, so that keys outlive messages and inboxes hold evicted ids. Two
activations of two agents reach a second activation of the same agent as well as a change
of agent while a command is in progress; two iterations allow a repair and a second pass
over each safe point; one tool call reaches the tool budget. Three revisions give a
superseded, a pending and an applied entry with equal numbers. Two iterations reach both a
granted and a refused `next`. The five workflows are a counter loop, the same with a
composite as its body, a loop used against its gate (accepted by the validation, yet
`start`, `next` and a control token on the value port come when the gate cannot use them),
a branch whose arms meet with a disabled node and a trigger that overtakes its data, and a
nested scope seeded from outside. The documents of `MCEngine` are every subset of a pool
of edges over a line of nodes (with a cycle, a self loop, conflicts, wrong types and
dangling ends), over a loop of two agents with one and with two gates, every way in which
three definitions refer to each other and to a missing one, boxes whose ports are bound
well and badly, and good documents with one fault in a node. The two targets of the broker
tell each pair of modes apart, and two prompts let an answer come for the one before; the
other call, which asks once, is there to be served or given up meanwhile. One switch can fall
between any two steps of a call and of an activation. Three iterations trim a history
twice, once in the middle of a turn, and a second reply follows a trimmed one. Two symbols
a line let a chunk end within a line and before a newline; two calls mix their fragments
and leave room for a piece of text before, between or after them, and a cut may damage
any of them. Two actors and two versions reach every order of comparison and rename, ABA
included; a third would repeat them. Three calls let the answers of two that were given up
wait for the third. One failing transaction leaves the gap that refuses every later event,
or meets one of the recovery passes; one crash reaches every step of the task, the sink,
the guard and the commands, since they are all interleaved with it; a pause with what ends
it, or one other command, is enough for a checkpoint of the main thread to overtake or
follow each of the sink's.

Deadlock is checked for the bus, the interventions and the files: they never stop. A
run of agents, of a scheduler, of a loop, of a request, of the database, of a server
connection ends, and so do the prompts within their bound; those configurations switch
the deadlock check off, and liveness properties say instead, where something has to
happen, that the end is reached.

### Fairness

`AgentLifecycle`: what the runner does without waiting, the drop on cancellation and the
scheduler's next activation are weakly fair, because the runner is a task of a runtime
that polls whatever is ready; a command, once begun, finishes. No fairness is assumed of
the provider, tools, the user, timers or the giving of commands. `AgentIntervention`: only
the runner's own steps are fair; `PendingIsTaken` takes as a premise that what the runner
waits for comes. `ControlFlow`: the scheduler's steps and its select on cancellation and
timer are weakly fair; executors are not, except as the stated premise of `EveryRunEnds`,
and a paused run is assumed resumed where a property says `<>[]~paused`. `Engine`: the
loop is weakly fair, the executors and the user are not. `Permissions`: a call that was
entered goes on, and is woken where it waits by its answer, the cancellation or its timer;
nobody has to answer, and no activation and no command has to go on. `ToolServer`: what has arrived is read and the timers of calls elapse, that of the
handshake need not; the server does what it likes. `Conversation`, `ModelStream`
and `Workspace` state safety only: that a request to a provider ends rests on one timer,
which covers the response as well, and on nothing the model could add. `RunStore`: the task, its sink and its guard are weakly fair together, as one
thread: a tool returns (commands time out after a fixed time) and an approval that nobody
gives expires. A pause may last for ever, commands and start-up need not come, and a crash
is never required.

## 4. Disagreements between the repository's words and its code

One run ends in a counterexample on purpose; `PROJECT.json` quotes the sentences it
refutes. `MCConversationUnsaid`: the model node continues a server-side session if the
local history is at least as long as the one it sent last and begins with the same
message. With a pinned system message and a store that trims back to its limit both hold
for a history that was trimmed, and the model never hears the newest messages.

The following properties state what a comment or a design document says; each is defined
in its module and is refuted by TLC when it is put into the module's configuration in
place of the others (`TerminalRecordStays`, `AppliesWhatItTook`, `NoWorkAfterLoss`,
`OnlyTheUserWidens`, `NextOperationFollowsSwitch` and `NoSilentOverwrite` as a PROPERTY,
the others as an INVARIANT).

* `NeverReturnedTwice` (`MessageBus`, `rt/agent_bus.rs:525`): a broadcast refused with
  `bus.queue_full` has already been queued for the agents before the full one and is
  queued again by the retry.
* `NeverLooksCompleted` (`AgentLifecycle`, `rt/agent_bus.rs:797`): `PRIORITY` lacks
  `pausing`, so a session with an agent on its way to a pause looks completed.
* `TerminalRecordStays` (`AgentLifecycle`, `Docs/phase-1.6/01-design.md:121`):
  `pause_agent` and `resume_agent` write the state in a second critical section and may
  overwrite a terminal one.
* `AppliesWhatItTook` (`AgentIntervention`, `Docs/phase-1.6/01-design.md:219`): two
  revisions made before the next safe point share a number and the superseded one is put
  into force.
* `ReadyHasItsData` (`ControlFlow`, `Docs/phase-1.1/01-design.md:76`): a control token
  alone makes a node ready; required data still on its way makes it fail.
* `EffectIsReviewed` (`RunStore`, `app/runs.rs:787`): the call of a tool reaches the
  stored usage only after the tool has returned; a crash during the first call leaves an
  interrupted activation without review.
* `NoWorkAfterLoss` (`RunStore`, `app/commands.rs:59`): if the event that announces a
  tool call cannot be stored, the run is cancelled, yet that tool still runs before
  anybody looks at the flag.
* `NoStaleGrant` (`Permissions`, `rt/permissions.rs:209`, "A live switch must make the next
  operation follow the new policy instead of a stale grant"): a call whose prompt was
  answered before the switch, and which wakes up after the cache was cleared, puts its
  approval into it, where it serves later calls under the new mode. `GrantsFollowSwitch`
  shows that no other approval outlives the switch.
* `OnlyTheUserWidens` (`Permissions`, `rt/permissions.rs:225`, "cannot silently widen it"):
  an activation that read the mode before a switch to a tighter one stores it after, and
  the agent is judged by what was stored. `WidensOnlyAcrossSwitch` shows that only this
  and the user's own switch can.
* `NextOperationFollowsSwitch` (`Permissions`,
  `Docs/phase-1.7/01-project-workspace.md:119`, "下一次操作按新模式判断"): an agent that
  stored a mode at its activation, long before, is judged by it after the user has
  tightened the run's.
* `TurnsAlternate` (`ModelStream`, `rt/anthropic.rs:202`, "The Messages API requires
  alternation"): a tool's result is pushed as a turn of the user before that test, so two
  results, or a result and a prompt, are two turns of the user in a row.
* `NoSilentOverwrite` (`Workspace`, header of `rt/workspace.rs`, "instead of silently
  overwriting another Agent's work"): another write between comparison and rename is
  lost. `OverwritesOnlyWhenOvertaken` shows that this is the only way.
* `QuestionsAreIgnored` (`ToolServer`, `rt/mcp.rs:214`): a request of the server that has
  the number of the waiting request is taken for its answer.

Seen while modelling, without a property of their own:

* *Runs.* The comment that running agents observe a workflow-level pause
  (`rt/control_flow.rs:186`), while `wait_for_safe_point` looks at the agent's flag only;
  a cancellation seen only by the engine (`rt/engine.rs:459`) may follow a scheduler that
  counts the run as completed; `RunServices::cleanup` (`rt/services.rs:400`) is called
  nowhere, against `Docs/phase-1.4/01-design.md:41`.
* *Bus.* `Delivery.duplicate` promises the existing message for a repeated key, but a key
  whose message was evicted yields an error (`rt/agent_bus.rs:414`); the queue-full
  error advises a retry after acknowledgement, which frees no slot; `finish_activation`
  updates the message map and not the transcript; an error of `build_input`, or a
  dropped future, leaves an activation record running; an agent in a composite whose
  deadline passed stays shown as paused or waiting for an approval while the run goes on.
* *Permissions.* A prompt is answered by a boolean (`app/commands.rs:647`), so an approval
  for one call, which `Docs/phase-1.7/03-testing-and-acceptance.md:106` speaks of, cannot
  be given. An answer that comes between `InteractionRequested` and the broker's entry is
  lost, and the call waits for its timer. Between the change of the mode and the clearing
  of the cache a call is served by an old approval under the new mode. `auto_allowed` is
  not monotone in the mode: the free mode alone looks for risky words in file names.
  `is_approved` looks at the wildcard node only, so `agent_runner` shows
  `waiting_approval` for calls that need no answer. Nothing calls `revoke_run`, or sets a
  scope or an expiry.
* *Memory.* Trimming takes a turn apart, so a result may stay whose call was trimmed.
  The delta of a Responses session begins with the assistant's own reply, which the
  server has already (`rt/responses.rs:18` says "never silently duplicated").
  A `messages` input is ignored once the context holds something
  (`Docs/phase-1.4/01-design.md` speaks of replacing).
* *Providers.* Each chunk is decoded by `from_utf8_lossy` alone, which damages a character
  cut by its end (`rt/provider.rs:507`, `rt/responses.rs:297`, `rt/anthropic.rs:329`), in
  the arguments of a tool as in text; with Chat and Anthropic the tool is called with
  them.
  Malformed tool arguments drop the call, refuse the reply, or become an empty object,
  by protocol and by streaming. A last line without a newline is not processed. Reading
  a response in one piece ignores the cancellation. Responses orders the calls of a
  stream by their ids. Text is shown every 200 ms, the document says 250.
* *Files.* A failing `fs::write` leaves its temporary file; a refused write still makes
  the parent directory; listings and conflicts give a version to who has not seen the
  content, and a write with it is accepted.
* *Servers.* The timer of an MCP handshake begins again with every line
  (`rt/mcp.rs:185`), its writes have none (`rt/mcp.rs:168`, `rt/mcp.rs:228`), and neither
  `McpServerNode` (`rt/agent.rs:1373`) nor `finish_connect` (`rt/mcp.rs:452`) puts one around
  it: a server that says something every few seconds, or does not read, holds the node up
  until the run is cancelled. `initialize` and `shutdown` of the language server have no timer
  (`rt/lsp.rs:209`, against "关闭 2 秒" in `Docs/phase-1.6/01-design.md:281`); a wait for
  diagnostics that ends within a message leaves the stream without its framing, and every
  later call fails; `diagnostics` is never cleared, so old ones are handed out; while it
  waits for diagnostics the client answers no question of the server; answers over HTTP
  are not compared by number.

## 5. Proofs

TLAPS proves, for every value of the constants that satisfies the modules'
assumptions:

* `AgentBusProofs`, about the messages: `TypeCorrect`, `AckIsKept`, `KeysAreSpent`,
  `NoSecondDelivery`, `AcceptedArrives`, `InOrder`, `RecentTranscript`. "A key is accepted
  once" is not inductive: the argument is that `accepted` only ever grows by an envelope
  whose key is unused, and that the key then names it forever. `KeyInv` therefore adds
  `AcceptedOwnsKey` (the key of an accepted envelope points to it) and `InFlightOwnsKey`
  (a direct message in an inbox, or received, was accepted under its own key), which also
  excludes a second delivery of a direct message: `send` refuses an envelope whose key is
  taken. A refused direct send touches no inbox, since its only recipient is the full one.
  `AcceptedArrives` and `InOrder` are inductive together with `KeyInv`: an envelope is
  accepted only if its key was free, so it is in no inbox yet and no earlier entry of
  `accepted` is it; it joins its inbox behind all others, and `receive` takes from the
  front: what was handed over was accepted before all that is still queued, so every pair
  `receive` adds to `earlier` is in the order of acceptance. `RecentTranscript` is
  inductive with `KeyInv` as well: since no envelope is accepted twice none is twice in
  the transcript, and the one that is drained may leave the map.
* `AgentLifecycleProofs`: `TypeCorrect` with `CallAllowed` (who has passed the tool
  budget still has a call left); `PauseIsHonoured`, whose `PauseInv` says that while
  `held` the flag is still set and the runner stands at a safe point or is about to
  fail, and that one which leaves the wait with the flag set was stopped, which
  `StoppedIsFinal` shows is permanent; `ShownStatesAreReal`, inductive
  together with the type invariant, by cases on who writes a state and on where an
  activation is dropped.
* `AgentBusProofs`, about the interventions: `InterventionTypeCorrect`, `NewestPending`,
  `KnownOnItsWay`, `NoFallBack`. `RevisionInv` adds `SlotsInOrder` to what is known of
  numbers, so that the entry found for a snapshot is never older than the configuration in
  force. `LeastNatural` gives the first entry that `find` returns.
* `ControlFlowProofs`: `TypeCorrect`, `CascadeEnds`, `ExitIsPending`, `RunKeepsContract`,
  all from `SchedulerInv`. "No unreachable node is left waiting" speaks of the moments
  between two steps of the main loop; what is inductive is that no such node exists even
  half way through a cascade (`NeverBlocked`), which needs to know what the edges still
  to be treated may become: a data edge and every edge of a gate die only with their
  source (`LastingDiesWithSource`), and the work list fits that (`WorkFits`). The
  contract allows a skip only of a node that never ran, while `pass_over` skips whatever
  is blocked: that a node which ran is never found so (`QueuedIsAlive`) rests on the
  order of the queue, since the value it was queued for can be taken back only by a
  source that comes after it. The steps are first put into kinds by what becomes of nodes
  and edges; each part of the invariant is then carried over each kind. The edges that
  leave a node are a recursive function, of which two facts are needed; they are shown by
  least counterexample (`Least`), and a solution of the recursion is built (`Recursion`).
* `EngineProofs`: `TypeCorrect`, `CyclesAreCounted`, `AdmittedExpands`,
  `OrderCoversTheRun`, `FailureTakesDescendants`, `RunKeepsContract`, in two parts. The
  first is about the algorithms, for graphs of any size. Each recursion is given its
  equation first (`FinishOrder` as a walk that descends in visited nodes, edges left and
  stack; the others by what they have left). Of Kosaraju's two passes only two things
  matter. The first lists every node (`FinishOrderCovers`); its order decides how fine
  the components are, and no rule about gates needs that. The second, which gathers
  whatever reaches its root and is still free, puts the nodes on levels such that no edge
  leads to a later level (`Levelled`), so a cycle, which cannot rise, stays in one
  component (`CycleOnLevel`). The component has then one gate (`ComponentGated`), and what
  `has_cycle_without` peels off is in no cycle (`PeelKeepsCycles`): no cycle avoids the
  gate, and two gates on one way round would be two in one component. A recursive
  reference is met on the path of every definition in its circle (`CycleIsMet`), and
  Kahn's order is complete because nodes that wait for each other would be such a cycle
  (`SomethingIsReady`). The second part is the run, from `EngineInv`: `Grounded` (types,
  and where an admitted document comes from), `Apart` (a node has one fate, and one that
  is still to be visited has none) and, while the run was not given up, `Accounts`: what
  is still to be visited is in order, the sources of a settled node are settled, and it
  was passed over exactly if it is disabled or one of them is unavailable. At the end
  everything is settled, and the set of what was passed over is closed under the steps
  from any unfinished node, which gives the descendants.
* `AgentTurnProofs`, about the broker: `TypeCorrect`, `BrokerIsExact`, from `BrokerInv`,
  which adds that a call that asks has numbered its prompt: two requests are then never
  the same. `GrantsAreFollowed` rests on `GrantInv`: unless a switch has still to clear
  the cache, what is cached, and what will be when a call that holds an approval wakes up,
  was given since the switch or was in flight. `AgentsOnlyTighten` rests on `StartInv`:
  what an activation is about to store is no wider than the mode in force, or a switch has
  come since it was read.
* `AgentTurnProofs`, about the conversation: `ConversationTyped`,
  `TrimmingForgetsTheOldest`, `CallsKeepTheirResults`, `UntrimmedModelKnowsAll`, from
  `ConversationInv`. That greedy trimming, one message at a time and again after every
  push, ends where a single look at everything said would is the heart of it: `Settled`
  says that so many of the oldest were dropped and that with fewer the rest would not
  fit. Pushing keeps it (`PushSettles`), because what did not fit does not fit with one
  message more, so a trimmed message never has to come back; `Updated` keeps it for a
  whole turn (`UpdatedSettles`). `MemoryInv` adds that the prompt alone begins with the
  system's message, so that `Pinned` does not change, and that everything said is
  answered. A call keeps its results since what is left of a history is a tail of it
  beside the system's message, which calls nothing (`RecentAnswered`). For what the model
  is told, `SessionInv` says that the server holds what was said before
  `session.count`; that needs `count` to be smaller than the history when the model is
  asked, which holds because a turn adds at least the reply.
* `WorkspaceProofs`: `TypeCorrect`, `LostUpdatesAreRaces`, `VersionsStayFresh`,
  `DirectoriesStay` from one invariant. The actions fall into few kinds (somebody is
  told, enters a stage, leaves one, changes a file, a directory goes); a lemma says what
  each kind preserves.
* `WireProofs`, about the servers: `TypeCorrect`, `AnswersComeHome`, `SpoilersCostOnce`.
  The last treats the pipe as an account: what is written adds what it spoils, a call that
  fails takes out what it read. `AnswerInv` says of everything that may still be answered
  (read by the server, or its answer in the pipe) that its number is below the next one
  and that, if it has the number waited for, it is of the current call.
* `WireProofs`, about the stream of a reply: `BrokenStreamsFail`, `RepliesAreFaithful`,
  `PageIsAPrefix`, from `WireInv`. None is inductive, because between what was said and
  what was gathered there are lines under way, cut anywhere. `OnWire` says what they hold:
  read to the end (`Gathers`), they make of what the adapter has gathered all that was
  said, and if the marker is there, it comes last (`Promised`). It is stated by the
  lines' events and not by the symbols, so that a chunk, which reads the lines of a
  beginning and leaves the rest, keeps it however it is cut, and a connection that is
  cut keeps it because what is left has no marker or is whole. When the provider speaks,
  the promise grows by what the adapter will make of that line, event by event and
  protocol by protocol. Damaged pieces do not matter to it: `View` looks at numbers
  only. `Piped` says that a buffer holds less than a line, that a reader that goes on
  has met no error, and that until the connection is cut there are whole lines. A
  BTreeMap's values come in the order of its keys because a key's rank (how many keys are
  not above it) is different for every key and counts from one, so that `InOrder` is
  well defined; its calls are then those said, each once with its own fragments. The page
  shows what was gathered in two parts, shown and held back (`Joined`).
* `WireProofs`, about what is sent: `NothingIsLost`, for every transcript that can be
  said. Inductive is only that the body is what the adapter makes of the transcript
  (`BodyInv`); the work is in the encoders. Each is an induction over messages: the
  blocks of turns add up (`BlocksJoin`), also when a turn is merged into the one before
  it (`MergeIs`), and every message adds its own parts and calls to those of its kind,
  the system's or all others (`ChatParts`, `ResponsesParts`, `AnthropicParts`).
* `RunStoreProofs`: `FaithfulLog`, `AgreeingStatus`, `FinalHistory` from `LogInv`. None
  of the three is inductive: `SendingLast` adds that the event in the sink is the last
  one numbered and that the run is still running, `TaskFits` that a run whose task works
  is running and that nothing is sent without a task; with them an interruption can only
  be the last entry. `NothingIsAlive` from `RestInv`: every stored or copied session has
  the state that follows from its agent (`DocsFollow`), so recovery sees whoever looks
  alive, and without a task nobody writes (`NobodyWrites`). `TypeCorrect` from `TypeInv`:
  whoever works on the session or copies it has one (`HasSession`), and a document that
  is up for review is of an interrupted agent (`AskedOnce`), whom recovery leaves alone
  when it runs again.

Each proof has the same layout: the initial states, one step per action, one
temporal step at the end. The inductive invariants were checked by TLC first.

Assumed: agents are numbers different from the endpoints, `NoId` is no message, the limits
are positive; budgets are natural numbers, positive where the code refuses zero; the
node's own configuration is one of the bodies. Of documents: their definitions are
finitely many and nodes and edges are lists (`DocumentAssumption`, the maps and vectors of
`model.rs`); `Ports` has the names of all output ports of the registry
(`PortsAssumption`); the kind of composites and the missing name are no kinds of the
registry (`RegistryAssumption`); and the documents of one instance that the engine
executes itself have the same positions `Nodes` (`NodesAssumption`), which only fixes what
the states of the contract are a function of: any document satisfies it alone. Of
conversations: a prompt is what `PromptNode` makes, any number of messages but none, of
which only the first can be the system's and none calls a tool; one whose two texts are
blank is left out (`ConversationAssumption`); a message weighs a natural number of tokens
(`WeightAssumption`), whatever the estimate is. TLC evaluates the assumptions in every
run.

Of a request, a transcript is a list of messages as their constructors make them: the
system and a tool say text, and only the assistant calls (`RequestsAssumption`,
`provider.rs:54-76`); a list of messages that a workflow writes by hand is not covered.

Only model-checked: all liveness properties, since `ENABLED` and fairness are out of the
prover's reach; `BudgetBoundsBody` of `ControlFlow`, which is a statement about loops
whose gate nobody starts again and not about every workflow; and `OnlyCutsAlter` of
`ModelStream`, which follows the bytes where the proofs follow numbers. Every other
invariant and action property of the passing runs is a theorem. The library's induction
theorems take an operator as a parameter and cannot be used here; where a recursion or an
induction over data is needed it is done by hand, from the least counterexample (`Least`,
`Climb`), and a recursive function gets its equation by building the solution from those
on smaller arguments (`Recursion`, `Reading`, `Flattening`).

## 6. Not modelled, and what is left

Not modelled, because it keeps no state that several actors share, or is input and
output: headers, profiles and credentials of providers, the HTTP transport of MCP, the
refusal of paths that leave the root, search, git and instruction files of a workspace,
media and assets, skills, templates, redaction, the built-in nodes and the user
interface. The handshake of `tokio`'s `Notify` is the library's. Validation's warnings
and a node position that is no number do not matter to a run. Of the broker the list of
audits and the scopes, expiries and revocations that the program never uses are left
out; of the database conversations, projects and audit rows.

What would add most:

1. `RunStore` with a second run and a second agent, and the event log folded into a
   view by `eventReplay.ts`.
2. `ToolServer` shared by two activations: today each has its own client, and only a
   dispatcher within one run shares the MCP manager.
3. A proof of `BudgetBoundsBody` for workflows in which nobody starts a gate again.
