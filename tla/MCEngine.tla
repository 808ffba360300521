------------------------------- MODULE MCEngine -------------------------------
(* Families of documents over a part of the built-in catalogue.  Each family is  *)
(* a list of nodes and a pool of edges, of which a document has any subset, so   *)
(* that what the validation refuses is mixed with what it accepts.               *)
EXTENDS Engine

P(name, type) == [name |-> name, type |-> type, control |-> FALSE, required |-> FALSE, group |-> "none"]
Trigger(name) == [P(name, "any") EXCEPT !.control = TRUE]
Must(port) == [port EXCEPT !.required = TRUE]
Kind(role, ins, outs) ==
    [control |-> role, inputs |-> ins, outputs |-> outs, params |-> <<>>]

(* builtin.rs, agent_node.rs; "plugin" declares a capability unknown to the policy. *)
Param(name, kind, default, required, options) ==
    [name |-> name, kind |-> kind, default |-> default, required |-> required, options |-> options]
MCRegistry == [
    number_input |-> Kind("normal", <<>>, <<P("number", "number")>>),
    counter |-> Kind("normal", <<P("value", "number")>>, <<P("number", "number"), P("done", "boolean")>>),
    add |-> Kind("normal", <<Must(P("a", "number")), Must(P("b", "number"))>>, <<P("number", "number")>>),
    log |-> Kind("normal", <<Must(P("value", "any")), Trigger("run")>>, <<P("text", "text")>>),
    plugin |-> Kind("normal", <<P("value", "any")>>, <<P("number", "any")>>),
    loop_gate |-> Kind("gate", <<Trigger("start"), Trigger("next"), Trigger("stop"), P("value", "any")>>,
                       <<Trigger("continue"), Trigger("exit"), P("value", "any")>>),
    agent |-> [Kind("normal", <<[P("messages", "json") EXCEPT !.group = "Collaboration"],
                                P("userPrompt", "text"), Trigger("start")>>,
                    <<P("agentMessage", "json"), P("userResponse", "text"), Trigger("completed")>>)
               EXCEPT !.params = <<Param("protocol", "select", {[type |-> "string", value |-> "chat"]}, FALSE, {"chat"}),
                                   Param("attachments", "asset", {[type |-> "array", value |-> <<>>]}, FALSE, {}),
                                   Param("model", "text", {}, TRUE, {})>>]]

Some == [model |-> [type |-> "string", value |-> "any"]]
Budget(n) == [maxIterations |-> [type |-> "number", value |-> n], timeoutMs |-> [type |-> "number", value |-> 1]]
Node(id, kind) == [id |-> id, kind |-> kind, sub |-> NoId, enabled |-> TRUE,
                   params |-> CASE kind = "loop_gate" -> Budget(1) [] kind = "agent" -> Some [] OTHER -> <<>>]
Ref(id, key) == [Node(id, Composite) EXCEPT !.sub = key]
Edge(kind, s, p, t, i) == [id |-> <<s, p, t, i>>, source |-> s, port |-> p, target |-> t, into |-> i, kind |-> kind]
D(s, p, t, i) == Edge("data", s, p, t, i)
C(s, p, t, i) == Edge("control", s, p, t, i)
Flow(nodes, edges) == [supported |-> TRUE, nodes |-> nodes, edges |-> edges]
Doc(w, subgraphs) == [workflow |-> w, subgraphs |-> subgraphs, assets |-> <<>>]
Plain(nodes, edges) == Doc(Flow(nodes, edges), <<>>)
Family(nodes, fixed, pool) ==
    {Plain(nodes, fixed \o SelectSeq(pool, LAMBDA e : e \in S)) : S \in SUBSET ToSet(pool)}

(* Acyclic work in an order that is not the document's, with what must be refused: *)
(* a cycle, a self loop, a conflict, a wrong type, an unknown port, a dangling end. *)
Line == <<Node("sink", "log"), Node("sum", "add"), Node("step", "counter"), Node("seed", "number_input")>>
LineEdges == <<D("seed", "number", "sum", "a"), D("step", "number", "sum", "b"), D("sum", "number", "sink", "value")>>
LineFaults == <<D("seed", "number", "step", "value"), D("sum", "number", "step", "value"),
               D("step", "number", "step", "value"), D("step", "done", "sum", "b"), D("step", "nothing", "sink", "value"),
               D("nobody", "number", "step", "value"), D("step", "done", "nobody", "value")>>
With(nodes, n, node) == [nodes EXCEPT ![n] = node]
Off(nodes, S) == [n \in DOMAIN nodes |-> [nodes[n] EXCEPT !.enabled = n \notin S]]
Lines ==
    Family(Line, LineEdges, LineFaults) \cup
    Family(Line, <<>>, LineEdges) \cup
    {Plain(Off(Line, S), Append(LineEdges, D("seed", "number", "step", "value"))) : S \in SUBSET (1..4)} \cup
    {Plain(With(Line, 3, node), LineEdges) :
        node \in {Node("step", "nothing"), Node("seed", "counter"), Node(NoId, "counter"),
                  Node("step", "plugin"), Ref("step", NoId), Node("step", "loop_gate")}} \cup
    {Doc([Flow(Line, LineEdges) EXCEPT !.supported = FALSE], <<>>)}

(* Nodes that run side by side; the plugin is denied when it is reached. *)
Sides == <<Node("seed", "number_input"), Node("step", "plugin"), Node("sum", "counter"), Node("sink", "log")>>
SideEdges == <<D("seed", "number", "step", "value"), D("seed", "number", "sink", "value"),
               D("step", "number", "sum", "value")>>

(* A loop of a coder and a tester behind a gate: the tester hands messages back, or *)
(* wrongly prompts or starts the coder; a second gate wraps the coder.              *)
Loop == <<Node("seed", "number_input"), Node("gate", "loop_gate"), Node("coder", "agent"),
          Node("tester", "agent"), Node("sink", "log"), Node("gate2", "loop_gate")>>
LoopPool ==
    <<C("seed", "number", "gate", "start"), C("gate", "continue", "coder", "start"),
     C("tester", "completed", "gate", "next"), C("gate", "exit", "sink", "run"),
     D("tester", "agentMessage", "coder", "messages"),
     D("tester", "userResponse", "coder", "userPrompt"), C("tester", "completed", "coder", "start"),
     C("coder", "completed", "gate2", "start"), C("gate2", "continue", "coder", "start")>>
LoopEdges == <<D("seed", "number", "sink", "value"), D("coder", "agentMessage", "tester", "messages"),
               C("coder", "completed", "tester", "start")>>
GateParams == {<<>>, Budget(0), Budget(2), Budget(9), [Budget(1) EXCEPT !.timeoutMs.type = "string"]}
GoodLoop == LoopEdges \o <<C("seed", "number", "gate", "start"), C("gate", "continue", "coder", "start"),
                           C("tester", "completed", "gate", "next"), C("gate", "exit", "sink", "run")>>
AgentParams ==
    {<<>>, [model |-> [type |-> "number", value |-> 1]], Some @@ [protocol |-> [type |-> "string", value |-> "fax"]],
     Some @@ [attachments |-> [type |-> "string", value |-> "a"]],
     Some @@ [attachments |-> [type |-> "array", value |-> <<"a1">>]], Some @@ [attachments |-> [type |-> "array", value |-> <<"a2">>]]}
Assets == [a1 |-> [id |-> "a1", wellFormed |-> TRUE]]
Loops ==
    Family(Loop, LoopEdges, LoopPool) \cup
    {Plain(With(Loop, 2, [Loop[2] EXCEPT !.params = params]), GoodLoop) : params \in GateParams} \cup
    {[Plain(With(Loop, 3, [Loop[3] EXCEPT !.params = params]), GoodLoop) EXCEPT !.assets = assets] :
        params \in AgentParams, assets \in {<<>>, Assets, [Assets EXCEPT !.a1.wellFormed = FALSE]}}

(* Definitions that refer to each other in every way; s3 may hold a loop gate, and *)
(* the root may put s1 in a loop of its own.                                       *)
Keys == {"s1", "s2", "s3"}
Targets == <<"s1", "s2", "s3", "s4">>
Sub(key, nodes, edges) ==
    [id |-> key, supported |-> TRUE, definesOthers |-> FALSE, workflow |-> Flow(nodes, edges),
     inputs |-> <<>>, outputs |-> <<>>]
Refers(key, targets) ==
    Sub(key, SelectSeq([i \in 1..4 |-> Ref(Targets[i], Targets[i])], LAMBDA n : n.sub \in targets), <<>>)
Root(key) == Flow(<<Ref("box", key)>>, <<>>)
References3 ==
    {Doc(Root(key), [k \in Keys |-> Refers(k, refs[k])]) :
        key \in {"s1", NoId}, refs \in [Keys -> {{}, {"s1"}, {"s2"}, {"s3"}, {"s1", "s2"}, {"s2", "s3"}, {"s4"}}]}

(* A box around a counter whose ports are bound well or badly, alone or in a loop. *)
Inner == <<Node("in", "counter"), Node("g", "loop_gate"), Node("out", "log")>>
Inputs == {<<[P("value", "number") EXCEPT !.required = TRUE] @@ [targets |-> t]>> :
              t \in {<<>>, <<<<"in", "value">>>>, <<<<"in", "value">>, <<"in", "value">>>>, <<<<"in", "number">>>>,
                     <<<<"g", "start">>>>, <<<<"out", "value">>>>, <<<<"nobody", "value">>>>}}
Outputs == {<<P("value", type) @@ [from |-> from]>> :
              type \in {"number", "text"}, from \in {<<"in", "number">>, <<"in", "value">>, <<"g", "exit">>}} \cup
           {<<P("value", "number") @@ [from |-> <<"in", "number">>], P("value", "number") @@ [from |-> <<"in", "number">>]>>}
Box(ins, outs, nodes) ==
    [Sub("s1", nodes, <<D("in", "number", "out", "value")>>) EXCEPT !.inputs = ins, !.outputs = outs]
Outer == <<Node("seed", "number_input"), Ref("box", "s1"), Node("gate", "loop_gate"), Node("sink", "log")>>
OuterLoop == <<C("seed", "number", "gate", "start"), C("gate", "continue", "box", "value"),
               C("box", "value", "gate", "next"), C("gate", "exit", "sink", "run"), D("seed", "number", "sink", "value")>>
Boxes ==
    {Doc(Flow(SubSeq(Outer, 1, 2), <<D("seed", "number", "box", "value")>>), [s1 |-> Box(i, o, Inner)]) :
        i \in Inputs, o \in Outputs} \cup
    {Doc(Flow(Outer, OuterLoop), [s1 |-> Box(<<P("value", "number") @@ [targets |-> <<<<"in", "value">>>>]>>,
                                             <<P("value", "number") @@ [from |-> <<"in", "number">>]>>, nodes)]) :
        nodes \in {Inner, With(Inner, 2, Node("g", "counter"))}} \cup
    {Doc(Root("s1"), [s1 |-> sub]) :
        sub \in {[Refers("s1", {}) EXCEPT !.id = "s2"], [Refers("s1", {}) EXCEPT !.supported = FALSE],
                 [Refers("s1", {}) EXCEPT !.definesOthers = TRUE]}}

MCDocuments == Lines \cup {Plain(Sides, SideEdges)} \cup Loops \cup References3 \cup Boxes
MCPorts == {"number", "done", "text", "agentMessage", "userResponse", "completed", "continue", "exit", "value"}
MCMaxBudget == [maxIterations |-> 3, timeoutMs |-> 3]
MCDenied == {"plugin"}
MCNodes == 1..4
===============================================================================
