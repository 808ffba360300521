------------------------------ MODULE Validation ------------------------------
(***************************************************************************)
(* crates/lingxi-spec/src/validation.rs: the pure check that every         *)
(* document passes before a run.  A document is a root workflow with its   *)
(* subgraph definitions and assets.  An operator stands for one function   *)
(* and yields the codes of the errors it reports; paths, messages and the  *)
(* order of the issues are left out, and so are warnings (they never       *)
(* refuse a document).                                                     *)
(***************************************************************************)
EXTENDS Naturals, Sequences, FiniteSets, SequencesExt, FiniteSetsExt

CONSTANTS
    Registry,       \* [kind -> spec]: what NodeKindResolver knows
    Composite,      \* COMPOSITE_NODE_KIND
    NoId,           \* an empty id, or an Option that is None
    MaxBudget       \* [parameter -> greatest allowed value]: the two loop budgets

ASSUME RegistryAssumption ==
    /\ Composite \notin DOMAIN Registry
    /\ NoId \notin DOMAIN Registry

\* Every element that fails the test contributes the code.
Report(code, S, Test(_)) == {code : x \in {y \in S : Test(y)}}
\* Two different places hold the same thing.
Repeats(s) == \E i, j \in DOMAIN s : i # j /\ s[i] = s[j]
Named(ports, name) == \E i \in DOMAIN ports : ports[i].name = name
Port(ports, name) == ports[SelectInSeq(ports, LAMBDA p : p.name = name)]

(***************************************************************************)
(* model.rs and node.rs: lookups.                                          *)
(***************************************************************************)
HasNode(w, id) == \E i \in DOMAIN w.nodes : w.nodes[i].id = id
Position(w, id) == SelectInSeq(w.nodes, LAMBDA n : n.id = id)
NodeOf(w, id) == w.nodes[Position(w, id)]
Incoming(w, id) == {e \in DOMAIN w.edges : w.edges[e].target = id}
Outgoing(w, id) == {e \in DOMAIN w.edges : w.edges[e].source = id}

Media == {"image", "audio", "video", "document"}
Accepts(type, source) ==
    "any" \in {type, source} \/ type = source \/ (type = "json" /\ source \in Media)

\* composite_specs: a composite has the ports of the definition it refers to.
CompositeSpec(doc, key) ==
    [inputs |-> doc.subgraphs[key].inputs, outputs |-> doc.subgraphs[key].outputs,
     control |-> "normal", params |-> <<>>]
HasSpec(doc, node) ==
    IF node.kind = Composite THEN node.sub \in DOMAIN doc.subgraphs ELSE node.kind \in DOMAIN Registry
SpecOf(doc, node) ==
    IF node.kind = Composite THEN CompositeSpec(doc, node.sub) ELSE Registry[node.kind]
IsGate(doc, node) == HasSpec(doc, node) /\ SpecOf(doc, node).control = "gate"

(***************************************************************************)
(* Nodes and their parameters.  A parameter of a node is absent or one of  *)
(* [type, value]; the value of an asset parameter is a sequence of ids.    *)
(***************************************************************************)
Given(node, param) ==
    IF param.name \in DOMAIN node.params THEN {node.params[param.name]} ELSE param.default

ValidateAssetParam(doc, given) ==
    IF given.type # "array" THEN {"param.type_mismatch"}
    ELSE Report("asset.unknown", ToSet(given.value), LAMBDA id : id \notin DOMAIN doc.assets)

JsonType == [text |-> "string", select |-> "string", number |-> "number", boolean |-> "boolean"]

CheckParamValue(doc, param, given) ==
    IF param.kind = "asset" THEN ValidateAssetParam(doc, given)
    ELSE IF given.type # JsonType[param.kind] THEN {"param.type_mismatch"}
    ELSE IF param.kind = "select" /\ given.value \notin param.options THEN {"param.invalid_option"}
    ELSE {}

ValidateParams(doc, node) ==
    UNION {LET param == SpecOf(doc, node).params[i]
           IN IF Given(node, param) # {}
              THEN UNION {CheckParamValue(doc, param, given) : given \in Given(node, param)}
              ELSE IF param.required THEN {"param.missing"} ELSE {} :
           i \in DOMAIN SpecOf(doc, node).params}

\* validate_gate_budget: explicit, a positive integer, within the maximum.
ValidateGateBudget(node) ==
    Report("loop.invalid_budget", DOMAIN MaxBudget,
           LAMBDA name : \/ name \notin DOMAIN node.params
                         \/ node.params[name].type # "number"
                         \/ node.params[name].value \notin 1..MaxBudget[name])

ValidateNode(doc, node) ==
    IF node.kind = Composite
    THEN IF HasSpec(doc, node) THEN {} ELSE {"subgraph.unknown_reference"}
    ELSE IF ~HasSpec(doc, node) THEN {"node.unknown_kind"}
    ELSE ValidateParams(doc, node) \cup
         (IF IsGate(doc, node) THEN ValidateGateBudget(node) ELSE {})

ValidateAssets(doc) ==
    Report("asset.invalid", DOMAIN doc.assets,
           LAMBDA key : doc.assets[key].id # key \/ ~doc.assets[key].wellFormed)

(***************************************************************************)
(* validate_edges: `provided` holds the inputs, as <<node, port>>, that a  *)
(* subgraph's own inputs feed.                                             *)
(***************************************************************************)
EdgeSlot(e) == <<e.target, e.into>>
EdgeKey(e) == <<e.source, e.port, e.target, e.into>>

ValidatePorts(doc, e, source, target) ==
    LET out == HasSpec(doc, source) /\ Named(SpecOf(doc, source).outputs, e.port)
        into == HasSpec(doc, target) /\ Named(SpecOf(doc, target).inputs, e.into)
        output == Port(SpecOf(doc, source).outputs, e.port)
        input == Port(SpecOf(doc, target).inputs, e.into)
    IN  (IF (HasSpec(doc, source) /\ ~out) \/ (HasSpec(doc, target) /\ ~into)
         THEN {"edge.unknown_port"} ELSE {}) \cup
        (IF out /\ into /\ ~Accepts(input.type, output.type) THEN {"edge.type_mismatch"} ELSE {}) \cup
        (IF out /\ into /\ (output.control \/ input.control) /\ e.kind # "control"
         THEN {"edge.control_required"} ELSE {})

ValidateEdge(doc, w, e) ==
    (IF e.source = e.target THEN {"edge.self_loop"} ELSE {}) \cup
    (IF ~HasNode(w, e.source) THEN {"edge.dangling_source"} ELSE {}) \cup
    (IF ~HasNode(w, e.target) THEN {"edge.dangling_target"} ELSE {}) \cup
    (IF HasNode(w, e.source) /\ HasNode(w, e.target)
     THEN ValidatePorts(doc, e, NodeOf(w, e.source), NodeOf(w, e.target)) ELSE {})

Unconnected(doc, w, node, provided) ==
    HasSpec(doc, node) /\ \E i \in DOMAIN SpecOf(doc, node).inputs :
        LET slot == <<node.id, SpecOf(doc, node).inputs[i].name>>
        IN /\ SpecOf(doc, node).inputs[i].required
           /\ slot \notin provided /\ \A e \in DOMAIN w.edges : EdgeSlot(w.edges[e]) # slot

ValidateEdges(doc, w, provided) ==
    (UNION {ValidateEdge(doc, w, w.edges[e]) : e \in DOMAIN w.edges}) \cup
    (IF Repeats([e \in DOMAIN w.edges |-> w.edges[e].id]) THEN {"edge.duplicate_id"} ELSE {}) \cup
    (IF Repeats([e \in DOMAIN w.edges |-> EdgeKey(w.edges[e])]) THEN {"edge.duplicate"} ELSE {}) \cup
    (IF Repeats([e \in DOMAIN w.edges |-> EdgeSlot(w.edges[e])]) THEN {"edge.input_conflict"} ELSE {}) \cup
    Report("port.unconnected", DOMAIN w.nodes, LAMBDA i : Unconnected(doc, w, w.nodes[i], provided))

(***************************************************************************)
(* Graphs are functions from positions to the sequence of their targets.   *)
(***************************************************************************)
IsCollaborationInput(doc, w, e) ==
    /\ e.kind = "data" /\ HasNode(w, e.target) /\ HasSpec(doc, NodeOf(w, e.target))
    /\ Named(SpecOf(doc, NodeOf(w, e.target)).inputs, e.into)
    /\ Port(SpecOf(doc, NodeOf(w, e.target)).inputs, e.into).group = "Collaboration"

\* Variant for the sensitivity of AcceptedCyclesAreGated: every data edge is taken for a message.
SequencesControl(doc, w, e) == e.kind = "control"
Sequencing(doc, w, e) == e.kind = "control" \/ ~IsCollaborationInput(doc, w, e)

\* The targets of the edges in `through`, for every source in the order of the document.
Joins(w, e) == HasNode(w, e.source) /\ HasNode(w, e.target)
Adjacency(w, through) ==
    [n \in DOMAIN w.nodes |->
        LET next[k \in 0..Len(w.edges)] ==
                IF k = 0 THEN <<>>
                ELSE LET e == w.edges[k]
                     IN IF Joins(w, e) /\ Position(w, e.source) = n /\ e \in through
                        THEN Append(next[k - 1], Position(w, e.target)) ELSE next[k - 1]
        IN next[Len(w.edges)]]

\* strongly_connected_components: Kosaraju with an explicit stack.  The first pass
\* yields the nodes in the order in which they are left for good.
Walks(adjacency) ==
    [stack : Seq((DOMAIN adjacency) \X (Nat \ {0})), visited : SUBSET DOMAIN adjacency,
     order : Seq(DOMAIN adjacency)]
FinishOrder(adjacency) ==
    LET Enter(s, stack, node) ==
            [stack |-> Append(stack, <<node, 1>>), visited |-> s.visited \cup {node}, order |-> s.order]
        walk[s \in Walks(adjacency)] ==
            IF s.stack = <<>>
            THEN LET unseen == DOMAIN adjacency \ s.visited
                 IN IF unseen = {} THEN s.order ELSE walk[Enter(s, <<>>, Min(unseen))]
            ELSE LET node == Last(s.stack)[1]  next == Last(s.stack)[2]
                     stay == Append(Front(s.stack), <<node, next + 1>>)
                 IN IF next > Len(adjacency[node])
                    THEN walk[[stack |-> Front(s.stack), visited |-> s.visited, order |-> Append(s.order, node)]]
                    ELSE IF adjacency[node][next] \in s.visited
                    THEN walk[[s EXCEPT !.stack = stay]]
                    ELSE walk[Enter(s, stay, adjacency[node][next])]
    IN walk[[stack |-> <<>>, visited |-> {}, order |-> <<>>]]

\* The second pass collects what reaches a root and is not assigned yet, from the
\* node that was left last.
Gathered(adjacency, root, free) ==
    LET Sources(S) == {m \in DOMAIN adjacency : \E i \in DOMAIN adjacency[m] : adjacency[m][i] \in S}
        gather[S \in SUBSET free] ==
            LET more == (Sources(S) \cap free) \ S
            IN IF more = {} THEN S ELSE gather[S \cup more]
    IN gather[{root}]
StronglyConnectedComponents(adjacency) ==
    LET collect[s \in [order : Seq(DOMAIN adjacency), free : SUBSET DOMAIN adjacency]] ==
            LET rest == Tail(s.order)
                component == Gathered(adjacency, Head(s.order), s.free)
            IN IF s.order = <<>> THEN {}
               ELSE IF Head(s.order) \notin s.free THEN collect[[order |-> rest, free |-> s.free]]
               ELSE {component} \cup collect[[order |-> rest, free |-> s.free \ component]]
    IN collect[[order |-> Reverse(FinishOrder(adjacency)), free |-> DOMAIN adjacency]]

\* has_cycle_without: whatever has no source left among the members is taken away.
HasCycleWithout(component, gate, adjacency) ==
    LET peel[S \in SUBSET component] ==
            LET free == {n \in S : \A m \in S : \A i \in DOMAIN adjacency[m] : adjacency[m][i] # n}
            IN IF free = {} THEN S ELSE peel[S \ free]
    IN peel[component \ {gate}] # {}

\* subgraph_has_loop_gate: a gate in the definition or in one it refers to.
SubgraphHasLoopGate(doc, key) ==
    LET has[visiting \in Seq(DOMAIN doc.subgraphs)] ==
            \E node \in ToSet(doc.subgraphs[Last(visiting)].workflow.nodes) :
                IF node.kind = Composite
                THEN /\ node.sub \in DOMAIN doc.subgraphs \ ToSet(visiting)
                     /\ has[Append(visiting, node.sub)]
                ELSE IsGate(doc, node)
    IN key \in DOMAIN doc.subgraphs /\ has[<<key>>]

\* What is asked of the only gate of a cyclic component.
ValidateGate(doc, w, provided, component, gate, sequencing) ==
    LET id == w.nodes[gate].id
        hasExit == \E e \in Outgoing(w, id) :
            /\ w.edges[e].port = "exit" /\ HasNode(w, w.edges[e].target)
            /\ Position(w, w.edges[e].target) \notin component
        hasStart == <<id, "start">> \in provided \/ \E e \in Incoming(w, id) : w.edges[e].into = "start"
        hasNext == \E e \in Incoming(w, id) : w.edges[e].into = "next"
    IN  (IF HasCycleWithout(component, gate, sequencing) THEN {"loop.uncontrolled_cycle"} ELSE {}) \cup
        (IF ~hasExit THEN {"loop.no_exit_path"} ELSE {}) \cup
        (IF ~hasStart \/ ~hasNext THEN {"loop.missing_trigger"} ELSE {})

ValidateComponent(doc, w, provided, component, adjacency, sequencing) ==
    LET gates == {n \in component : IsGate(doc, w.nodes[n])}
        cyclic == Cardinality(component) > 1 \/ \E n \in component : n \in ToSet(adjacency[n])
        nested == \E n \in component : w.nodes[n].kind = Composite /\ SubgraphHasLoopGate(doc, w.nodes[n].sub)
    IN IF ~cyclic THEN {}
       ELSE (IF nested THEN {"subgraph.nested_loop_unsupported"} ELSE {}) \cup
            (IF gates = {} THEN {"graph.cycle"}
             ELSE IF Cardinality(gates) > 1 THEN {"loop.multiple_gates"}
             ELSE ValidateGate(doc, w, provided, component, CHOOSE n \in gates : TRUE, sequencing))

ValidateControlFlow(doc, w, provided) ==
    UNION {UNION {ValidateComponent(doc, w, provided, component, adjacency, sequencing) :
                  component \in StronglyConnectedComponents(adjacency)} :
           adjacency \in {Adjacency(w, ToSet(w.edges))},
           sequencing \in {Adjacency(w, {e \in ToSet(w.edges) : Sequencing(doc, w, e)})}}

ValidateWorkflow(doc, w, provided) ==
    (IF ~w.supported THEN {"schema.unsupported_version"} ELSE {}) \cup
    (IF \E i \in DOMAIN w.nodes : w.nodes[i].id = NoId THEN {"node.empty_id"} ELSE {}) \cup
    (IF \E i, j \in DOMAIN w.nodes : i # j /\ w.nodes[i].id = w.nodes[j].id /\ w.nodes[i].id # NoId
     THEN {"node.duplicate_id"} ELSE {}) \cup
    (UNION {ValidateNode(doc, w.nodes[i]) : i \in DOMAIN w.nodes}) \cup
    ValidateEdges(doc, w, provided) \cup ValidateControlFlow(doc, w, provided)

(***************************************************************************)
(* Subgraph definitions.  A port of a definition is a port record with the *)
(* inner places it is bound to: `targets` of an input, `from` of an output.*)
(***************************************************************************)
Provided(sub) == UNION {ToSet(sub.inputs[i].targets) : i \in DOMAIN sub.inputs}

ValidateSubgraphPorts(sub) ==
    LET BadNames(ports) == \/ \E i \in DOMAIN ports : ports[i].name = NoId
                           \/ Repeats([i \in DOMAIN ports |-> ports[i].name])
    IN  (IF BadNames(sub.inputs) \/ BadNames(sub.outputs) THEN {"subgraph.invalid_port"} ELSE {}) \cup
        Report("subgraph.invalid_binding", DOMAIN sub.inputs,
               LAMBDA i : sub.inputs[i].required /\ sub.inputs[i].targets = <<>>)

\* Does the place <<node, port>> exist among the ports of one side?
Resolves(doc, w, place, Side(_)) ==
    /\ HasNode(w, place[1]) /\ HasSpec(doc, NodeOf(w, place[1]))
    /\ Named(Side(SpecOf(doc, NodeOf(w, place[1]))), place[2])

ValidateInputBinding(doc, sub, input, place) ==
    LET w == sub.workflow
        port == Port(SpecOf(doc, NodeOf(w, place[1])).inputs, place[2])
    IN IF ~Resolves(doc, w, place, LAMBDA s : s.inputs) THEN {"subgraph.invalid_binding"}
       ELSE (IF port.control # input.control \/ ~Accepts(port.type, input.type)
             THEN {"subgraph.invalid_port"} ELSE {}) \cup
            (IF \E e \in DOMAIN w.edges : EdgeSlot(w.edges[e]) = place
             THEN {"subgraph.invalid_binding"} ELSE {})

ValidateOutputBinding(doc, sub, output) ==
    LET w == sub.workflow
        port == Port(SpecOf(doc, NodeOf(w, output.from[1])).outputs, output.from[2])
    IN IF ~Resolves(doc, w, output.from, LAMBDA s : s.outputs) THEN {"subgraph.invalid_binding"}
       ELSE IF port.control # output.control \/ ~Accepts(output.type, port.type)
       THEN {"subgraph.invalid_port"} ELSE {}

ValidateSubgraphBindings(doc, sub) ==
    LET bound == FlattenSeq([i \in DOMAIN sub.inputs |-> sub.inputs[i].targets])
    IN  (UNION {UNION {ValidateInputBinding(doc, sub, sub.inputs[i], place) :
                      place \in ToSet(sub.inputs[i].targets)} : i \in DOMAIN sub.inputs}) \cup
        (IF Repeats(SelectSeq(bound, LAMBDA p : Resolves(doc, sub.workflow, p, LAMBDA s : s.inputs)))
         THEN {"subgraph.invalid_binding"} ELSE {}) \cup
        (UNION {ValidateOutputBinding(doc, sub, sub.outputs[i]) : i \in DOMAIN sub.outputs})

ValidateSubgraphs(doc) ==
    (UNION {LET sub == doc.subgraphs[key]
           IN  (IF sub.id = NoId \/ sub.id # key THEN {"subgraph.duplicate_id"} ELSE {}) \cup
               (IF ~sub.supported THEN {"subgraph.unsupported_version"} ELSE {}) \cup
               (IF sub.definesOthers THEN {"subgraph.nested_definitions"} ELSE {}) \cup
               ValidateWorkflow(doc, sub.workflow, Provided(sub)) \cup
               ValidateSubgraphPorts(sub) \cup ValidateSubgraphBindings(doc, sub) :
           key \in DOMAIN doc.subgraphs}) \cup
    (IF \E k, l \in DOMAIN doc.subgraphs : k # l /\ doc.subgraphs[k].id = doc.subgraphs[l].id
     THEN {"subgraph.duplicate_id"} ELSE {})

\* walk_recursive_references: from every definition, along the references, until
\* one names a definition that is already on the path.
References(doc, key) ==
    {node.sub : node \in {m \in ToSet(doc.subgraphs[key].workflow.nodes) : m.kind = Composite}} \ {NoId}
\* Variant for the sensitivity of ExpansionEnds: only a direct self reference is seen.
RecursesDirectly(doc, key) == key \in References(doc, key)
Recurses(doc, key) ==
    LET walk[path \in Seq(DOMAIN doc.subgraphs)] ==
            \E reference \in References(doc, Last(path)) :
                \/ reference \in ToSet(path)
                \/ reference \in DOMAIN doc.subgraphs /\ walk[Append(path, reference)]
    IN walk[<<key>>]
ValidateRecursiveReferences(doc) ==
    Report("subgraph.recursive_reference", DOMAIN doc.subgraphs, LAMBDA key : Recurses(doc, key))

\* validate
Errors(doc) ==
    ValidateAssets(doc) \cup ValidateWorkflow(doc, doc.workflow, {}) \cup
    ValidateSubgraphs(doc) \cup ValidateRecursiveReferences(doc)
Accepted(doc) == Errors(doc) = {}
===============================================================================
