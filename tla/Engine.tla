-------------------------------- MODULE Engine --------------------------------
(***************************************************************************)
(* crates/lingxi-runtime/src/engine.rs: a run of a document from the       *)
(* command to RunFinished.  The document is validated first; a document    *)
(* with control edges, composites or control nodes is handed to the token  *)
(* scheduler (module ControlFlow); any other is executed here, one node at *)
(* a time, in topological order.  The user cancels, pauses and resumes     *)
(* from other threads (control.rs).                                        *)
(***************************************************************************)
EXTENDS Validation

CONSTANTS
    Documents,  \* the documents a run may be asked for
    Nodes,      \* 1..n: the documents that are executed here have n nodes
    Ports,      \* the names of output ports
    Denied      \* the kinds that declare a capability the policy does not know

\* model.rs: a workflow is a list of nodes and a list of edges.
IsFlow(w) == w.nodes \in Seq(ToSet(w.nodes)) /\ w.edges \in Seq(ToSet(w.edges))
WorkflowsOf(d) == {d.workflow} \cup {d.subgraphs[key].workflow : key \in DOMAIN d.subgraphs}
ASSUME DocumentAssumption ==
    \A d \in Documents : IsFiniteSet(DOMAIN d.subgraphs) /\ \A w \in WorkflowsOf(d) : IsFlow(w)
ASSUME PortsAssumption ==
    \A kind \in DOMAIN Registry : \A p \in ToSet(Registry[kind].outputs) : p.name \in Ports

VARIABLES
    doc,            \* the document of the run
    phase,          \* "fresh", "running", "handed" (to the token scheduler), "over"
    order,          \* positions still to visit
    executing,      \* the position whose executor is awaited, or 0
    outputs,        \* [positions that finished -> ports they produced]
    failed, skipped,\* positions, as the summary lists them
    unavailable,    \* positions whose successors are passed over
    status,         \* status of RunFinished, or "none"
    cancelled, paused   \* RunControl

control == <<cancelled, paused>>
books == <<outputs, failed, skipped, unavailable>>
vars == <<doc, phase, order, executing, books, status, control>>

(***************************************************************************)
(* Where a document goes.                                                  *)
(***************************************************************************)
Workflow == doc.workflow
RequiresControlFlow(w) ==
    \/ \E e \in DOMAIN w.edges : w.edges[e].kind = "control"
    \/ \E n \in DOMAIN w.nodes :
          \/ w.nodes[n].kind = Composite
          \/ w.nodes[n].kind \in DOMAIN Registry /\ Registry[w.nodes[n].kind].control # "normal"
ASSUME NodesAssumption ==
    /\ Nodes \subseteq Nat \ {0}
    /\ \A d \in Documents : ~RequiresControlFlow(d.workflow) => DOMAIN d.workflow.nodes = Nodes

\* execution_order, Kahn's algorithm: of the nodes without an unvisited
\* predecessor, the first of the document comes next.
\* Variant for the sensitivity of OrderIsTopological: one finished predecessor is enough.
OrderOfEager(w) ==
    LET next[done \in Seq(DOMAIN w.nodes)] ==
            LET ready == {n \in DOMAIN w.nodes \ ToSet(done) :
                             \/ Incoming(w, w.nodes[n].id) = {}
                             \/ \E e \in Incoming(w, w.nodes[n].id) :
                                   Position(w, w.edges[e].source) \in ToSet(done)}
            IN IF ready = {} THEN done ELSE next[Append(done, Min(ready))]
    IN next[<<>>]
ExecutionOrder(w) ==
    LET next[done \in Seq(DOMAIN w.nodes)] ==
            LET ready == {n \in DOMAIN w.nodes \ ToSet(done) :
                             \A e \in Incoming(w, w.nodes[n].id) :
                                   Position(w, w.edges[e].source) \in ToSet(done)}
            IN IF ready = {} THEN done ELSE next[Append(done, Min(ready))]
    IN next[<<>>]

Init ==
    /\ doc \in Documents
    /\ phase = "fresh" /\ order = <<>> /\ executing = 0
    /\ outputs = <<>> /\ failed = {} /\ skipped = {} /\ unavailable = {}
    /\ status = "none" /\ cancelled = FALSE /\ paused = FALSE

\* A cancellation during this synchronous step is seen at the first turn of the loop.
Refuse == phase' = "over" /\ status' = "failed" /\ UNCHANGED order
HandOver == phase' = "handed" /\ UNCHANGED <<order, status>>
Begin == phase' = "running" /\ order' = ExecutionOrder(Workflow) /\ UNCHANGED status
Admit ==
    /\ phase = "fresh"
    /\ LET accepted == Accepted(doc)
       IN \/ ~accepted /\ Refuse
          \/ accepted /\ RequiresControlFlow(Workflow) /\ HandOver
          \/ accepted /\ ~RequiresControlFlow(Workflow) /\ Begin
    /\ UNCHANGED <<doc, executing, books, control>>

(***************************************************************************)
(* One iteration of the loop over the order.  `Turn` is its top: the run   *)
(* is neither cancelled nor held by a pause.                               *)
(***************************************************************************)
\* Variant for the sensitivity of KeepsContract: the loop does not wait for the executor.
TurnWithoutWaiting(n) ==
    /\ phase = "running" /\ order # <<>> /\ n = Head(order)
    /\ ~cancelled /\ ~paused
    /\ order' = Tail(order)
    /\ UNCHANGED <<doc, phase, status, control>>
Turn(n) ==
    /\ phase = "running" /\ executing = 0 /\ order # <<>> /\ n = Head(order)
    /\ ~cancelled /\ ~paused
    /\ order' = Tail(order)
    /\ UNCHANGED <<doc, phase, status, control>>

\* The edges into a node, in the order of the document.
Feeds(n) == {Workflow.edges[e] : e \in Incoming(Workflow, Workflow.nodes[n].id)}
\* Variant for the sensitivity of FailureIsContained: only failures block, not skipped nodes.
BlockedByFailure(n) == \E e \in Feeds(n) : Position(Workflow, e.source) \in failed
Blocked(n) == \E e \in Feeds(n) : Position(Workflow, e.source) \in unavailable
MissingInput(n) ==
    \E e \in Feeds(n) : LET source == Position(Workflow, e.source)
                        IN ~(source \in DOMAIN outputs /\ e.port \in outputs[source])
PassedOver(n) == ~Workflow.nodes[n].enabled \/ Blocked(n)
Unable(n) == MissingInput(n) \/ Workflow.nodes[n].kind \in Denied

SkipNode(n) ==
    /\ Turn(n) /\ PassedOver(n)
    /\ skipped' = skipped \cup {n} /\ unavailable' = unavailable \cup {n}
    /\ UNCHANGED <<executing, outputs, failed>>

\* Announced as started, then failed for a missing input or a denied capability.
RefuseNode(n) ==
    /\ Turn(n) /\ ~PassedOver(n) /\ Unable(n)
    /\ failed' = failed \cup {n} /\ unavailable' = unavailable \cup {n}
    /\ UNCHANGED <<executing, outputs, skipped>>

StartNode(n) ==
    /\ Turn(n) /\ ~PassedOver(n) /\ ~Unable(n)
    /\ executing' = n
    /\ UNCHANGED books

\* The select is biased: a result is looked at only while the run is not cancelled.
FinishNode ==
    /\ executing # 0 /\ ~cancelled
    /\ \E produced \in SUBSET {p.name : p \in ToSet(SpecOf(doc, Workflow.nodes[executing]).outputs)} :
           outputs' = [n \in DOMAIN outputs \cup {executing} |-> IF n = executing THEN produced ELSE outputs[n]]
    /\ executing' = 0
    /\ UNCHANGED <<doc, phase, order, failed, skipped, unavailable, status, control>>

FailNode ==
    /\ executing # 0 /\ ~cancelled
    /\ failed' = failed \cup {executing} /\ unavailable' = unavailable \cup {executing}
    /\ executing' = 0
    /\ UNCHANGED <<doc, phase, order, outputs, skipped, status, control>>

\* Variant for the sensitivity of CancelEndsRun: a pause also holds back the cancellation.
CancelUnpausedNode ==
    /\ executing # 0 /\ cancelled /\ ~paused
    /\ unavailable' = unavailable \cup {executing} /\ executing' = 0 /\ order' = <<>>
    /\ UNCHANGED <<doc, phase, outputs, failed, skipped, status, control>>
CancelNode ==
    /\ executing # 0 /\ cancelled
    /\ unavailable' = unavailable \cup {executing} /\ executing' = 0 /\ order' = <<>>
    /\ UNCHANGED <<doc, phase, outputs, failed, skipped, status, control>>

\* The loop is left, at its end or because the run is cancelled.
Finish ==
    /\ phase = "running" /\ executing = 0 /\ (order = <<>> \/ cancelled)
    /\ phase' = "over"
    /\ status' = IF cancelled THEN "cancelled" ELSE IF failed = {} THEN "completed" ELSE "failed"
    /\ UNCHANGED <<doc, order, executing, books, control>>

Cancel ==
    /\ phase = "running" /\ ~cancelled /\ cancelled' = TRUE
    /\ UNCHANGED <<doc, phase, order, executing, books, status, paused>>
PauseOrResume ==
    /\ phase = "running" /\ paused' = ~paused
    /\ UNCHANGED <<doc, phase, order, executing, books, status, cancelled>>

Visit == \E n \in Nodes : SkipNode(n) \/ RefuseNode(n) \/ StartNode(n)
Schedule == Admit \/ Visit \/ CancelNode \/ Finish
Next == Schedule \/ FinishNode \/ FailNode \/ Cancel \/ PauseOrResume

\* The engine's task is polled until it ends; nothing obliges an executor to return.
Spec == Init /\ [][Next]_vars /\ WF_vars(Schedule)

-------------------------------------------------------------------------------
TypeOK ==
    /\ phase \in {"fresh", "running", "handed", "over"}
    /\ status \in {"none", "completed", "failed", "cancelled"}
    /\ executing \in Nodes \cup {0}
    /\ order \in Seq(Nodes)
    /\ DOMAIN outputs \subseteq Nodes /\ \A n \in DOMAIN outputs : outputs[n] \subseteq Ports
    /\ failed \subseteq Nodes /\ skipped \subseteq Nodes /\ unavailable \subseteq Nodes
    /\ cancelled \in BOOLEAN /\ paused \in BOOLEAN

\* The edges in `through`, from position to position.
Steps(w, through) ==
    {<<Position(w, e.source), Position(w, e.target)>> : e \in {f \in ToSet(w.edges) \cap through : Joins(w, f)}}
\* R has a cycle among S: some places of S can be left for each other for ever.
CyclesIn(S, R) == \E T \in SUBSET S : T # {} /\ \A m \in T : \E n \in T : <<m, n>> \in R
\* From m one comes to n: whatever holds m and is closed under R holds n.
Reaches(S, R, m, n) == \A T \in SUBSET S : (m \in T /\ \A r \in R : r[1] \in T => r[2] \in T) => n \in T
AllWorkflows == WorkflowsOf(doc)
Admitted == phase \in {"handed", "running"}

\* An admitted document has no feedback path that escapes a loop gate: in the root and
\* in every definition, each cycle of activation order (messages between agents aside)
\* passes through a loop gate, and no two gates lie on one way round, so that every
\* repetition is counted by one budget (validation.rs:934-1103, by strongly connected
\* components and by taking the gate away).
AcceptedCyclesAreGated ==
    Admitted => \A w \in AllWorkflows :
        LET R == Steps(w, {e \in ToSet(w.edges) : e.kind = "control" \/ ~IsCollaborationInput(doc, w, e)})
            gates == {n \in DOMAIN w.nodes : IsGate(doc, w.nodes[n])}
        IN /\ ~CyclesIn(DOMAIN w.nodes \ gates, R)
           /\ \A g, h \in gates : g # h =>
                 ~(Reaches(DOMAIN w.nodes, R, g, h) /\ Reaches(DOMAIN w.nodes, R, h, g))

\* The definitions of an admitted document can be expanded: no chain of references
\* leads from a definition back to itself, and none leaves the document
\* (validation.rs:551, walk_recursive_references over every definition, used or not).
ExpansionEnds ==
    Admitted =>
        LET R == UNION {{<<key, reference>> : reference \in References(doc, key)} : key \in DOMAIN doc.subgraphs}
        IN ~CyclesIn(DOMAIN doc.subgraphs, R) /\ \A pair \in R : pair[2] \in DOMAIN doc.subgraphs

\* The engine's own order never fails on an admitted document: what the validation lets
\* through without a gate has every node in its order, each after all that feed it
\* (engine.rs:528; the "graph contains a cycle" branch is dead).
OrderIsTopological ==
    phase = "running" /\ executing = 0 /\ DOMAIN outputs \cup failed \cup skipped \cup unavailable = {} =>
        /\ ToSet(order) = DOMAIN Workflow.nodes /\ Len(order) = Len(Workflow.nodes)
        /\ \A i, j \in DOMAIN order :
              <<order[i], order[j]>> \in Steps(Workflow, ToSet(Workflow.edges)) => i < j

\* A failure or a disabled node takes down exactly its descendants: in a run that was not
\* cancelled, a node was passed over if and only if it is disabled or one of its ancestors
\* did not finish, and the run is called completed only when nothing failed
\* (engine.rs:248-284).
FailureIsContained ==
    status = "completed" \/ (status = "failed" /\ failed # {}) =>
        /\ LET R == Steps(Workflow, ToSet(Workflow.edges))
           IN \A n \in Nodes : n \in skipped <=>
                  \/ ~Workflow.nodes[n].enabled
                  \/ \E m \in Nodes \ (DOMAIN outputs \cup {n}) : Reaches(Nodes, R, m, n)
        /\ DOMAIN outputs \cup failed = Nodes \ skipped
        /\ (status = "completed") <=> (failed = {})

\* A cancelled run ends although its executor never returns, and although it is paused
\* (engine.rs:216-224, 400-421; control.rs:66).
CancelEndsRun == cancelled ~> phase \in {"over", "handed"}

\* The engine keeps the contract of module NodeProgress; a cancelled or refused run may
\* leave nodes unreached (engine.rs:216).
Progress(n) ==
    IF n = executing THEN "running"
    ELSE IF n \in DOMAIN outputs THEN "ran"
    ELSE IF n \in skipped THEN "skipped"
    ELSE IF n \in unavailable THEN "failed"
    ELSE "unreached"
Contract == INSTANCE NodeProgress WITH
    progress <- [n \in Nodes |-> Progress(n)], over <- (phase = "over")
KeepsContract == Contract!CancellableSpec
===============================================================================
