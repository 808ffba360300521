------------------------------ MODULE ControlFlow ------------------------------
(***************************************************************************)
(* crates/lingxi-runtime/src/control_flow.rs: the token scheduler that     *)
(* executes one workflow scope with branches, loop gates and composites.   *)
(*                                                                         *)
(* The scheduler is one task.  It looks at the run's control (cancel,      *)
(* pause) and at the clock between nodes and races them against a running  *)
(* executor; a step is what it does for one node of a `for` loop or for    *)
(* one edge.  The recursion skip_node -> deactivate_outgoing ->            *)
(* deactivate_edge -> skip_node is the list `work` of what is still to be  *)
(* done to edges, in the order the recursion would do it.                  *)
(*                                                                         *)
(* A value is only there or not there.  Events, labels, durations and the  *)
(* text of errors are left out; a scope inside a composite is this module  *)
(* again, with a nested workflow.                                          *)
(***************************************************************************)
EXTENDS Integers, Sequences

CONSTANTS
    NodeCount,      \* nodes are numbered in the order of workflow.nodes
    Workflows,      \* the workflows the scheduler may be given
    MaxIterations,  \* the gates' parameter
    NoLoop, NoNode

Nodes == 1..NodeCount

\* One connection, and what the scheduler reads of a workflow: its edges in order,
\* the nodes that are enabled, that are loop gates, that run a subgraph, and the
\* sets of output ports an execution of a node may fill.  A nested scope belongs
\* to a composite: it has a parent deadline and nodes fed from outside.
Connection == [from : Nodes, port : STRING, to : Nodes, into : STRING,
               kind : {"control", "data"}, required : BOOLEAN]
Workflow == [edges : Seq(Connection), enabled : SUBSET Nodes, gates : SUBSET Nodes,
             composites : SUBSET Nodes, emits : [Nodes -> SUBSET SUBSET STRING],
             nested : BOOLEAN, seededData : SUBSET Nodes, seededControl : SUBSET Nodes]

ASSUME WorkflowAssumption ==
    /\ NodeCount \in Nat
    /\ Workflows \subseteq Workflow
    /\ \A w \in Workflows : w.gates \cap w.composites = {}
    /\ MaxIterations \in Nat \ {0}
    /\ NoLoop \notin [gate : Nodes, iteration : Nat]
    /\ NoNode \notin Nodes

VARIABLES
    workflow,       \* what the scheduler executes
    runCancelled,   \* RunControl.cancelled
    paused,         \* RunControl.paused
    loopExpired,    \* the clock has passed loop_state.deadline
    parentExpired,  \* the clock has passed parent_deadline
    pc,             \* where the scheduler is
    cursor,         \* the node a `for` loop over all nodes has reached
    current,        \* the node whose executor runs
    work,           \* what is still to be done to edges: [edge, to]
    tokens,         \* edges (data: latched) that hold a value
    fresh,          \* fresh_data: data edges written since they were last read
    inactive,       \* edges that will not carry a value any more
    triggers,       \* nodes with an unread bound control input
    queue,          \* nodes to be looked at, first in first out
    failed,         \* failed, a set
    skipped,        \* skipped, a set
    activations,    \* [Nodes -> how often the node was activated]
    loop,           \* loop_state: the gate and its iteration
    cancelled,      \* self.cancelled
    timedOut        \* self.timed_out

control == <<workflow, runCancelled, paused>>
clock == <<loopExpired, parentExpired>>
flow == <<tokens, fresh, inactive, triggers>>
outcome == <<failed, skipped, activations>>
ending == <<cancelled, timedOut>>
vars == <<control, clock, pc, cursor, current, work, flow, queue, outcome, loop, ending>>

Edge == workflow.edges
Edges == 1..Len(Edge)
Gates == workflow.gates

\* `settled` holds what failed and what was skipped, `queued` what is in `queue`.
Settled == failed \cup skipped
Queued == {queue[i] : i \in 1..Len(queue)}
Ran == {n \in Nodes : activations[n] > 0}
\* Variant for the sensitivity of DeadlineEndsLoop: the loop's own deadline is forgotten.
OnlyParentExpired == parentExpired

Expired == parentExpired \/ (loop # NoLoop /\ loopExpired)

In(n) == {e \in Edges : Edge[e].to = n}
ControlIn(n) == {e \in In(n) : Edge[e].kind = "control"}
DataIn(n) == In(n) \ ControlIn(n)
RequiredIn(n) == {e \in DataIn(n) : Edge[e].required}

(***************************************************************************)
(* evaluate, with `off` for the edges that are inactive.                   *)
(***************************************************************************)
HasControl(n) == ControlIn(n) # {} \/ n \in triggers
Triggered(n) == ControlIn(n) \cap tokens # {} \/ n \in triggers
DataPending(n, off) == DataIn(n) \ (tokens \cup off) # {}

\* Control edges are one-shot; data is latched, and only a node without control
\* inputs runs on data alone, again whenever a fresh value arrives.
CanGo(n, off) ==
    IF HasControl(n) THEN Triggered(n)
    ELSE /\ ~DataPending(n, off)
         /\ IF n \notin Ran THEN DataIn(n) \cap tokens # {} \/ n \in workflow.seededData
            ELSE DataIn(n) \cap fresh # {}

\* Variant for the sensitivity of CompletedIsDone: a node that ran is never ready again.
EvaluateOnce(n, off) ==
    IF n \in Ran THEN "wait"
    ELSE IF In(n) = {} \/ CanGo(n, off) THEN "go"
    ELSE IF In(n) \subseteq off THEN "blocked" ELSE "wait"

Evaluate(n, off) ==
    IF In(n) = {} THEN IF n \in Ran THEN "wait" ELSE "go"
    ELSE IF RequiredIn(n) \cap off # {} THEN IF n \in Ran THEN "wait" ELSE "blocked"
    ELSE IF CanGo(n, off) THEN "go"
    ELSE IF In(n) \subseteq off /\ ~(n \in Ran /\ HasControl(n)) THEN "blocked"
    ELSE "wait"

(***************************************************************************)
(* What happens to edges.                                                  *)
(***************************************************************************)
\* The edges that leave a node, in the order of workflow.edges.
OutEdges(n) ==
    LET out[k \in 0..Len(Edge)] ==
            IF k = 0 THEN <<>>
            ELSE IF Edge[k].from = n THEN Append(out[k - 1], k) ELSE out[k - 1]
    IN out[Len(Edge)]
All(n, what) == LET out == OutEdges(n) IN [i \in 1..Len(out) |-> [edge |-> out[i], to |-> what]]

\* Variant for the sensitivity of ExitStaysPending: a gate is treated like any other node.
ChangeEagerly(n, ports, e) ==
    IF Edge[e].port \in ports THEN "emit"
    ELSE IF Edge[e].kind = "data" THEN "clear" ELSE "deactivate"

\* propagate_outputs: a gate's absent output means "not yet".
Change(n, ports, e) ==
    IF Edge[e].port \in ports THEN "emit"
    ELSE IF n \in Gates THEN "keep"
    ELSE IF Edge[e].kind = "data" THEN "clear"
    ELSE "deactivate"

Outputs(n, ports) ==
    LET out == OutEdges(n)
    IN [i \in 1..Len(out) |-> [edge |-> out[i], to |-> Change(n, ports, out[i])]]

Init ==
    /\ workflow \in Workflows
    /\ runCancelled = FALSE /\ paused = FALSE
    /\ loopExpired = FALSE /\ parentExpired = FALSE
    /\ pc = "prepare" /\ cursor = 1 /\ current = NoNode /\ work = <<>>
    /\ tokens = {} /\ fresh = {} /\ inactive = {} /\ triggers = workflow.seededControl
    /\ queue = <<>>
    /\ failed = {} /\ skipped = {} /\ activations = [n \in Nodes |-> 0]
    /\ loop = NoLoop
    /\ cancelled = FALSE /\ timedOut = FALSE

EmitOn ==
    /\ work # <<>> /\ Head(work).to = "emit"
    /\ LET e == Head(work).edge
       IN /\ inactive' = inactive \ {e}
          /\ tokens' = tokens \cup {e}
          /\ fresh' = IF Edge[e].kind = "data" THEN fresh \cup {e} ELSE fresh
    /\ work' = Tail(work)
    /\ UNCHANGED <<control, clock, pc, cursor, current, triggers, queue, outcome, loop, ending>>

\* An absent data output clears the latch and leaves the edge open.
ClearLatch ==
    /\ work # <<>> /\ Head(work).to \in {"clear", "keep"}
    /\ IF Head(work).to = "clear"
       THEN tokens' = tokens \ {Head(work).edge} /\ fresh' = fresh \ {Head(work).edge}
       ELSE UNCHANGED <<tokens, fresh>>
    /\ work' = Tail(work)
    /\ UNCHANGED <<control, clock, pc, cursor, current, inactive, triggers, queue, outcome,
                   loop, ending>>

\* Variant for the sensitivity of CascadeIsComplete: only a dead required input stops a node.
UnreachableRequired(n, e) == n \notin Settled \cup Ran /\ e \in RequiredIn(n)

\* Variant for the sensitivity of KeepsContract: the test for an earlier activation is dropped.
UnreachableThoughRan(n, e) ==
    n \notin Settled /\ In(n) \subseteq inactive \cup {e}

\* The target of an edge that goes dead can never run now.
Unreachable(n, e) == n \notin Settled \cup Ran /\ Evaluate(n, inactive \cup {e}) = "blocked"

\* deactivate_edge, and skip_node for a target that can never run now.
Deactivate ==
    /\ work # <<>> /\ Head(work).to = "deactivate"
    /\ LET e == Head(work).edge
           n == Edge[e].to
           dead == e \notin inactive /\ Unreachable(n, e)
       IN /\ inactive' = inactive \cup {e}
          /\ skipped' = IF dead THEN skipped \cup {n} ELSE skipped
          /\ work' = IF dead THEN All(n, "deactivate") \o Tail(work) ELSE Tail(work)
    /\ UNCHANGED <<control, clock, pc, cursor, current, tokens, fresh, triggers, queue,
                   failed, activations, loop, ending>>

\* skip_node and fail_started, at the head of what they do to edges.
Skip(n) == skipped' = skipped \cup {n} /\ work' = All(n, "deactivate")
Fail(n) == failed' = failed \cup {n} /\ work' = All(n, "deactivate")

At(label) == pc = label /\ work = <<>>
Goto(label) == pc' = label /\ cursor' = 1

(***************************************************************************)
(* prepare: disabled nodes are skipped before anything runs.               *)
(***************************************************************************)
Prepare ==
    /\ At("prepare")
    /\ IF cursor > NodeCount
       THEN Goto("top") /\ UNCHANGED <<skipped, work>>
       ELSE /\ IF cursor \in workflow.enabled \cup Settled THEN UNCHANGED <<skipped, work>>
               ELSE Skip(cursor)
            /\ cursor' = cursor + 1 /\ UNCHANGED pc
    /\ UNCHANGED <<control, clock, current, flow, queue, failed, activations, loop, ending>>

(***************************************************************************)
(* The main loop of run: cancellation, pause, deadline, in that order.     *)
(***************************************************************************)
\* Variant for the sensitivity of CancelEndsRun: a paused run does not look at the cancellation.
StopCancelledUnpaused ==
    /\ At("top") /\ runCancelled /\ ~paused
    /\ cancelled' = TRUE
    /\ Goto("settle")
    /\ UNCHANGED <<control, clock, current, work, flow, queue, outcome, loop, timedOut>>

StopCancelled ==
    /\ At("top") /\ runCancelled
    /\ cancelled' = TRUE
    /\ Goto("settle")
    /\ UNCHANGED <<control, clock, current, work, flow, queue, outcome, loop, timedOut>>

Released == ~runCancelled /\ ~paused

\* fail_loop_timeout activates the gate once more to fail it.
StopExpired ==
    /\ At("top") /\ Released /\ Expired
    /\ IF loop = NoLoop
       THEN timedOut' = TRUE /\ UNCHANGED <<failed, work, activations>>
       ELSE /\ Fail(loop.gate)
            /\ activations' = [activations EXCEPT ![loop.gate] = @ + 1]
            /\ UNCHANGED timedOut
    /\ loop' = NoLoop
    /\ Goto("settle")
    /\ UNCHANGED <<control, clock, current, flow, queue, skipped, cancelled>>

BeginPass ==
    /\ At("top") /\ Released /\ ~Expired
    /\ Goto("scan")
    /\ UNCHANGED <<control, clock, current, work, flow, queue, outcome, loop, ending>>

\* enqueue_ready, one node: a node that already ran is dormant, not unreachable.
EnqueueReady ==
    /\ At("scan") /\ cursor <= NodeCount
    /\ LET n == cursor
           verdict == IF n \in Settled \cup Queued THEN "wait" ELSE Evaluate(n, inactive)
       IN /\ queue' = IF verdict = "go" THEN Append(queue, n) ELSE queue
          /\ IF verdict = "blocked" /\ n \notin Ran THEN Skip(n) ELSE UNCHANGED <<skipped, work>>
    /\ cursor' = cursor + 1
    /\ UNCHANGED <<control, clock, pc, current, flow, failed, activations, loop, ending>>

NothingLeft ==
    /\ At("scan") /\ cursor > NodeCount /\ queue = <<>>
    /\ Goto("settle")
    /\ UNCHANGED <<control, clock, current, work, flow, queue, outcome, loop, ending>>

\* Variant for the sensitivity of EveryRunEnds: the head of the queue is read and not removed.
Peek == At("scan") /\ cursor > NodeCount /\ queue # <<>> /\ queue' = queue

\* What is popped is looked at once more before it may run.
Pop == At("scan") /\ cursor > NodeCount /\ queue # <<>> /\ queue' = Tail(queue)

PassOver ==
    /\ Pop
    /\ LET n == Head(queue)
           verdict == IF n \in Settled THEN "wait" ELSE Evaluate(n, inactive)
       IN /\ verdict # "go"
          /\ IF verdict = "blocked" THEN Skip(n) ELSE UNCHANGED <<skipped, work>>
    /\ Goto("top")
    /\ UNCHANGED <<control, clock, current, flow, failed, activations, loop, ending>>

Goes(n) == n \notin Settled /\ Evaluate(n, inactive) = "go"

\* Variant for the sensitivity of TriggerNotOverwritten: control tokens are read and not spent.
ConsumeData(n) ==
    /\ fresh' = fresh \ DataIn(n)
    /\ triggers' = triggers \ {n}
    /\ activations' = [activations EXCEPT ![n] = @ + 1]
    /\ UNCHANGED tokens

\* consume_inputs: tokens on control edges are spent, data stays latched.
Consume(n) ==
    /\ tokens' = tokens \ ControlIn(n)
    /\ fresh' = fresh \ DataIn(n)
    /\ triggers' = triggers \ {n}
    /\ activations' = [activations EXCEPT ![n] = @ + 1]

InputPorts(n) ==
    {Edge[e].into : e \in In(n) \cap tokens} \cup (IF n \in triggers THEN {"start"} ELSE {})

Complete(n) == \A e \in RequiredIn(n) : Edge[e].into \in InputPorts(n)

\* run_node, run_composite: NodeStarted, then the wait for the executor.
StartNode ==
    /\ Pop
    /\ LET n == Head(queue)
       IN /\ n \notin Gates /\ Goes(n) /\ Complete(n)
          /\ Consume(n)
          /\ current' = n
    /\ Goto("execute")
    /\ UNCHANGED <<control, clock, work, inactive, failed, skipped, loop, ending>>

\* node.missing_input: a trigger can arrive before the data it needs.
MissingInput ==
    /\ Pop
    /\ LET n == Head(queue)
       IN /\ n \notin Gates /\ Goes(n) /\ ~Complete(n)
          /\ Consume(n)
          /\ Fail(n)
    /\ Goto("top")
    /\ UNCHANGED <<control, clock, current, inactive, skipped, loop, ending>>

(***************************************************************************)
(* The wait for an executor, a biased select.                              *)
(***************************************************************************)
NodeFinished ==
    /\ pc = "execute" /\ ~runCancelled
    /\ \E ports \in workflow.emits[current] : work' = Outputs(current, ports)
    /\ current' = NoNode
    /\ Goto("top")
    /\ UNCHANGED <<control, clock, flow, queue, outcome, loop, ending>>

NodeFailed ==
    /\ pc = "execute" /\ ~runCancelled
    /\ Fail(current)
    /\ current' = NoNode
    /\ Goto("top")
    /\ UNCHANGED <<control, clock, flow, queue, skipped, activations, loop, ending>>

NodeCancelled ==
    /\ pc = "execute" /\ runCancelled
    /\ cancelled' = TRUE
    /\ current' = NoNode
    /\ Goto("settle")
    /\ UNCHANGED <<control, clock, work, flow, queue, outcome, loop, timedOut>>

\* A composite's own scheduler watches the deadline, and its failure does not end
\* the pass: the gate is failed at the top of the loop.
NodeTimedOut ==
    /\ pc = "execute" /\ Expired /\ ~runCancelled
    /\ Fail(current)
    /\ current' = NoNode
    /\ IF current \in workflow.composites THEN Goto("top") /\ UNCHANGED loop
       ELSE Goto("settle") /\ loop' = NoLoop
    /\ UNCHANGED <<control, clock, flow, queue, skipped, activations, ending>>

(***************************************************************************)
(* handle_gate: stop before start before next.                             *)
(***************************************************************************)
Trigger(ports) ==
    IF "stop" \in ports THEN "stop" ELSE IF "start" \in ports THEN "start"
    ELSE IF "next" \in ports THEN "next" ELSE "none"

Gate(trigger) ==
    /\ Pop
    /\ Head(queue) \in Gates /\ Goes(Head(queue))
    /\ Trigger(InputPorts(Head(queue))) = trigger
    /\ Consume(Head(queue))
    /\ UNCHANGED <<control, parentExpired, current, inactive, skipped, ending>>

Passes(port) ==
    /\ work' = Outputs(Head(queue), {port} \cup (InputPorts(Head(queue)) \cap {"value"}))
    /\ UNCHANGED failed
    /\ Goto("top")

GateStart ==
    /\ Gate("start") /\ loop = NoLoop
    /\ loop' = [gate |-> Head(queue), iteration |-> 1]
    /\ loopExpired' = FALSE
    /\ Passes("continue")

\* Variant for the sensitivity of BudgetBoundsBody: the budget is compared one too late.
GateNextTooLate ==
    /\ Gate("next") /\ loop # NoLoop
    /\ ~loopExpired /\ loop.iteration <= MaxIterations
    /\ loop' = [loop EXCEPT !.iteration = @ + 1]
    /\ Passes("continue")
    /\ UNCHANGED loopExpired

GateNext ==
    /\ Gate("next") /\ loop # NoLoop
    /\ ~loopExpired /\ loop.iteration < MaxIterations
    /\ loop' = [loop EXCEPT !.iteration = @ + 1]
    /\ Passes("continue")
    /\ UNCHANGED loopExpired

GateStop ==
    /\ Gate("stop")
    /\ loop' = NoLoop
    /\ Passes("exit")
    /\ UNCHANGED loopExpired

\* loop.timeout, loop.budget_exhausted: the run stops here.
GateExhausted ==
    /\ Gate("next") /\ loop # NoLoop
    /\ loopExpired \/ loop.iteration >= MaxIterations
    /\ Fail(Head(queue))
    /\ loop' = NoLoop
    /\ Goto("settle")
    /\ UNCHANGED loopExpired

\* loop.invalid_state, loop.missing_trigger (a control edge may end at the value
\* port): the loop that is active, if any, stays active.
Misuses(trigger) ==
    \/ trigger = "start" /\ loop # NoLoop
    \/ trigger = "next" /\ loop = NoLoop
    \/ trigger = "none"

GateMisused ==
    /\ \E trigger \in {"start", "next", "none"} : Gate(trigger) /\ Misuses(trigger)
    /\ Fail(Head(queue))
    /\ Goto("top")
    /\ UNCHANGED <<loop, loopExpired>>

(***************************************************************************)
(* settle_unreached and finish.                                            *)
(***************************************************************************)
SettleUnreached ==
    /\ At("settle") /\ cursor <= NodeCount
    /\ IF cursor \in Settled \cup Ran THEN UNCHANGED <<skipped, work>> ELSE Skip(cursor)
    /\ cursor' = cursor + 1
    /\ UNCHANGED <<control, clock, pc, current, flow, queue, failed, activations, loop, ending>>

Finish ==
    /\ At("settle") /\ cursor > NodeCount
    /\ Goto("finished")
    /\ UNCHANGED <<control, clock, current, work, flow, queue, outcome, loop, ending>>

Status == IF cancelled THEN "cancelled" ELSE IF failed = {} THEN "completed" ELSE "failed"

(***************************************************************************)
(* Commands and time.                                                      *)
(***************************************************************************)
Cancel ==
    /\ ~runCancelled /\ pc # "finished"
    /\ runCancelled' = TRUE
    /\ UNCHANGED <<workflow, paused, clock, pc, cursor, current, work, flow, queue, outcome, loop, ending>>

PauseOrResume ==
    /\ pc # "finished"
    /\ paused' = ~paused
    /\ UNCHANGED <<workflow, runCancelled, clock, pc, cursor, current, work, flow, queue, outcome,
                   loop, ending>>

LoopExpires ==
    /\ loop # NoLoop /\ ~loopExpired /\ pc # "finished"
    /\ loopExpired' = TRUE
    /\ UNCHANGED <<control, parentExpired, pc, cursor, current, work, flow, queue, outcome, loop,
                   ending>>

ParentExpires ==
    /\ workflow.nested /\ ~parentExpired /\ pc # "finished"
    /\ parentExpired' = TRUE
    /\ UNCHANGED <<control, loopExpired, pc, cursor, current, work, flow, queue, outcome, loop,
                   ending>>

Schedules ==
    \/ EmitOn \/ ClearLatch \/ Deactivate \/ Prepare
    \/ StopCancelled \/ StopExpired \/ BeginPass \/ EnqueueReady \/ NothingLeft
    \/ PassOver \/ StartNode \/ MissingInput \/ NodeCancelled \/ NodeTimedOut
    \/ GateStart \/ GateNext \/ GateStop \/ GateExhausted \/ GateMisused
    \/ SettleUnreached \/ Finish

Executes == NodeFinished \/ NodeFailed

Environment == Cancel \/ PauseOrResume \/ LoopExpires \/ ParentExpires

Next == Schedules \/ Executes \/ Environment

Spec == Init /\ [][Next]_vars

\* The scheduler is a task and its select polls the cancellation and the timer,
\* so its steps are weakly fair; an executor need never answer.
FairSpec == Spec /\ WF_vars(Schedules)

-------------------------------------------------------------------------------
(* Properties *)

TypeOK ==
    /\ workflow \in Workflows
    /\ runCancelled \in BOOLEAN /\ paused \in BOOLEAN
    /\ loopExpired \in BOOLEAN /\ parentExpired \in BOOLEAN
    /\ pc \in {"prepare", "top", "scan", "execute", "settle", "finished"}
    /\ cursor \in 1..(NodeCount + 1)
    /\ current \in Nodes \cup {NoNode}
    /\ work \in Seq([edge : Edges, to : {"emit", "keep", "clear", "deactivate"}])
    /\ tokens \subseteq Edges /\ fresh \subseteq Edges /\ inactive \subseteq Edges
    /\ triggers \subseteq Nodes
    /\ queue \in Seq(Nodes)
    /\ failed \subseteq Nodes /\ skipped \subseteq Nodes
    /\ activations \in [Nodes -> Nat]
    /\ loop \in [gate : Gates, iteration : 1..MaxIterations] \cup {NoLoop}
    /\ cancelled \in BOOLEAN /\ timedOut \in BOOLEAN
    /\ pc = "execute" <=> current # NoNode

\* The comment in propagate_outputs: the exit edge stays pending until the gate
\* emits it.  No edge of a gate dies before the gate does, and a node fed by a
\* live gate alone is not skipped while the run goes on.
ExitStaysPending ==
    \A g \in (Gates \cap workflow.enabled) \ Settled :
        /\ \A e \in Edges : Edge[e].from = g => e \notin inactive
        /\ pc \notin {"settle", "finished"} =>
              \A n \in workflow.enabled : In(n) # {} /\ (\A e \in In(n) : Edge[e].from = g) =>
                  n \notin skipped

\* The cascade of deactivate_edge is complete: between two steps of the loop no
\* node that never ran is unreachable and still waiting to be skipped.
CascadeIsComplete ==
    pc \in {"top", "scan", "execute"} /\ work = <<>> =>
        \A n \in Nodes \ (Settled \cup Ran) : Evaluate(n, inactive) # "blocked"

\* A run that ends as completed left nothing undone: no node could still run, no
\* trigger is left on its edge, and no loop is open.
CompletedIsDone ==
    pc = "finished" /\ Status = "completed" /\ ~timedOut =>
        /\ \A n \in Nodes \ Settled : ~Goes(n)
        /\ \A e \in tokens : Edge[e].kind = "control" => Edge[e].to \in Settled
        /\ loop = NoLoop

\* "Each edge holds at most one token": the next one is not emitted before the
\* first has been taken, so no trigger is lost by being overwritten.
TriggerNotOverwritten ==
    work # <<>> /\ Head(work).to = "emit" /\ Edge[Head(work).edge].kind = "control" =>
        Head(work).edge \notin tokens

\* The body of a loop that is started once runs at most once for each iteration
\* of its budget, though next, stop, time-outs and late data reactivate nodes.
BudgetBoundsBody ==
    \A n \in Nodes :
        In(n) # {} /\ (\A e \in In(n) : Edge[e].from \in Gates /\ Edge[e].port = "continue") =>
            activations[n] <= MaxIterations

\* The scheduler implements the contract of a run.  A node that ran is dormant,
\* not unreachable (the comment in enqueue_ready): it is never reported skipped.
progress ==
    [n \in Nodes |-> IF n \in failed THEN "failed"
                     ELSE IF n \in skipped THEN "skipped"
                     ELSE IF n = current THEN "running"
                     ELSE IF n \in Ran THEN "ran" ELSE "unreached"]

Contract == INSTANCE NodeProgress WITH over <- pc = "finished"
KeepsContract == Contract!Spec

\* A cancelled run ends although an executor never answers and although it is
\* paused.
CancelEndsRun == runCancelled ~> pc = "finished"

\* A loop past its deadline ends the run, or is left, although an executor never
\* answers; a paused scheduler looks at the clock only when it is resumed.
DeadlineEndsLoop ==
    <>[]~paused => ((loop # NoLoop /\ loopExpired) ~> (loop = NoLoop \/ pc = "finished"))

\* Every run of a workflow with budgets ends if its executors answer.
EveryRunEnds == WF_vars(Executes) /\ <>[]~paused => <>(pc = "finished")

-------------------------------------------------------------------------------
(* What the phase 1.1 design says and the code does not do *)

\* Section 4.2: a node is ready when a control input has a token and all its
\* required data inputs have one.
ReadyHasItsData ==
    At("scan") /\ cursor > NodeCount /\ queue # <<>> /\ Head(queue) \notin Gates /\ Goes(Head(queue))
        => Complete(Head(queue))
===============================================================================
