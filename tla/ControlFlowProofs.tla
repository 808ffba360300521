--------------------------- MODULE ControlFlowProofs ---------------------------
(***************************************************************************)
(* What TLAPS proves of the token scheduler, for every workflow, cyclic or *)
(* not, every number of nodes and every budget:                            *)
(*   TypeCorrect       every reachable state is well typed                 *)
(*   CascadeEnds       no unreachable node is left waiting to be skipped   *)
(*   ExitIsPending     a gate's exit edge is pending until the gate emits  *)
(*   RunKeepsContract  the scheduler implements NodeProgress               *)
(*                                                                         *)
(* They follow from SchedulerInv.  Its parts need each other: the cascade  *)
(* leaves no node blocked even half way through (NeverBlocked), because an *)
(* edge is only deactivated, or its latch cleared, as long as that fits    *)
(* the node it leaves (WorkFits, LastingDiesWithSource).  PassOver skips   *)
(* whatever is blocked, also a node that ran; that such a node is never    *)
(* popped is QueuedIsAlive, which rests on the order of the queue.         *)
(*                                                                         *)
(* A step is first classified by what becomes of nodes and edges (Kinds),  *)
(* and each part of the invariant is then shown to survive each kind.      *)
(* The edges that leave a node are a recursive function of the edges; what *)
(* is said about it is proved by induction, as the absence of a least      *)
(* counterexample (Least).                                                 *)
(***************************************************************************)
EXTENDS ControlFlow, SequenceTheorems, WellFoundedInduction, TLAPS

-------------------------------------------------------------------------------
(* Induction and recursion *)

\* A set of natural numbers that is not empty has a least element: what an
\* induction over the edges of a workflow comes down to.
LEMMA Least ==
    ASSUME NEW T \in SUBSET Nat, T # {}
    PROVE  \E x \in T : \A y \in T : x <= y
  <1> DEFINE R == {p \in Nat \X Nat : p[1] < p[2]}
  <1>1. IsWellFoundedOn(R, Nat)
    BY NatLessThanWellFounded, Zenon DEF OpToRel
  <1>2. PICK x \in T : \A y \in T : <<y, x>> \notin R
    <2> HIDE DEF R
    <2> QED BY <1>1, WFMin, Zenon
  <1>3. \A y \in T : x <= y
    <2>1. SUFFICES ASSUME NEW y \in T, ~(x <= y) PROVE FALSE
      OBVIOUS
    <2>2. x \in Nat /\ y \in Nat /\ y < x
      BY <2>1
    <2>3. <<y, x>> \in R
      BY <2>2
    <2> QED BY <1>2, <2>3
  <1> QED BY <1>3

\* A recursion over 0..N has a solution, whatever its steps are.
Solves(f, N, base, step) == f[0] = base /\ \A k \in 1..N : f[k] = step[k][f[k - 1]]

LEMMA Recursion ==
    ASSUME NEW N \in Nat, NEW S, NEW base \in S, NEW step \in [1..N -> [S -> S]]
    PROVE  \E f \in [0..N -> S] : Solves(f, N, base, step)
  <1> DEFINE T == {m \in 0..N : ~\E f \in [0..m -> S] : Solves(f, m, base, step)}
  <1>1. SUFFICES ASSUME T # {} PROVE FALSE
    <2>1. N \in 0..N
      OBVIOUS
    <2> QED BY <2>1
  <1>2. PICK m \in T : \A k \in T : m <= k
    <2>1. T \in SUBSET Nat
      OBVIOUS
    <2> HIDE DEF T
    <2> QED BY <1>1, <2>1, Least
  <1>3. m # 0
    <2>1. Solves([k \in 0..0 |-> base], 0, base, step)
      BY DEF Solves
    <2>2. [k \in 0..0 |-> base] \in [0..0 -> S]
      OBVIOUS
    <2> QED BY <2>1, <2>2
  <1>4. m \in 1..N /\ m - 1 \in 0..(m - 1) /\ m - 1 \in 0..N
    BY <1>3
  <1>5. PICK f \in [0..(m - 1) -> S] : Solves(f, m - 1, base, step)
    <2>1. ~(m <= m - 1)
      BY <1>4
    <2>2. m - 1 \notin T
      BY <1>2, <2>1
    <2> QED BY <1>4, <2>2
  <1> DEFINE g == [k \in 0..m |-> IF k = m THEN step[m][f[m - 1]] ELSE f[k]]
  <1>6. step[m][f[m - 1]] \in S
    BY <1>4
  <1>7. g \in [0..m -> S]
    BY <1>4, <1>6
  <1>8. Solves(g, m, base, step)
    <2>1. g[0] = base
      BY <1>4, <1>5 DEF Solves
    <2>2. ASSUME NEW k \in 1..m PROVE g[k] = step[k][g[k - 1]]
      <3>1. CASE k = m
        <4>1. m \in 0..m /\ m - 1 \in 0..m /\ m - 1 # m
          BY <1>4
        <4>2. g[m] = step[m][f[m - 1]] /\ g[m - 1] = f[m - 1]
          BY <4>1
        <4> HIDE DEF g
        <4> QED BY <3>1, <4>2
      <3>2. CASE k # m
        <4>1. k \in 1..(m - 1) /\ k \in 0..m /\ k - 1 \in 0..m /\ k - 1 # m
          BY <3>2, <1>4
        <4>2. g[k] = f[k] /\ g[k - 1] = f[k - 1]
          BY <4>1, <3>2
        <4>3. f[k] = step[k][f[k - 1]]
          BY <4>1, <1>5 DEF Solves
        <4> HIDE DEF g
        <4> QED BY <4>2, <4>3
      <3> QED BY <3>1, <3>2
    <2> HIDE DEF g
    <2> QED BY <2>1, <2>2 DEF Solves
  <1> HIDE DEF g
  <1>9. m \in 0..N /\ ~\E h \in [0..m -> S] : Solves(h, m, base, step)
    BY <1>2
  <1> QED BY <1>7, <1>8, <1>9

\* The recursion of OutEdges.
LEMMA OutEdgesUnfold ==
    ASSUME NEW n, Edge \in Seq(Connection)
    PROVE  \E out :
              /\ OutEdges(n) = out[Len(Edge)]
              /\ out[0] = <<>>
              /\ \A k \in 1..Len(Edge) :
                    out[k] = IF Edge[k].from = n THEN Append(out[k - 1], k) ELSE out[k - 1]
  <1> DEFINE N == Len(Edge)
             F(g) == [k \in 0..N |-> IF k = 0 THEN <<>>
                                     ELSE IF Edge[k].from = n THEN Append(g[k - 1], k) ELSE g[k - 1]]
             out == CHOOSE g : g = F(g)
  <1>1. N \in Nat
    BY LenProperties
  <1>2. PICK step \in [1..N -> [Seq(Edges) -> Seq(Edges)]] :
             \A k \in 1..N : \A q \in Seq(Edges) :
                 step[k][q] = IF Edge[k].from = n THEN Append(q, k) ELSE q
    <2> DEFINE st == [k \in 1..N |-> [q \in Seq(Edges) |->
                         IF Edge[k].from = n THEN Append(q, k) ELSE q]]
    <2>1. ASSUME NEW k \in 1..N, NEW q \in Seq(Edges)
          PROVE  Append(q, k) \in Seq(Edges)
      BY AppendProperties DEF Edges
    <2>2. st \in [1..N -> [Seq(Edges) -> Seq(Edges)]]
      BY <2>1
    <2> QED BY <2>2
  <1>3. PICK f \in [0..N -> Seq(Edges)] : Solves(f, N, <<>>, step)
    <2>1. <<>> \in Seq(Edges)
      OBVIOUS
    <2> HIDE DEF N
    <2> QED BY <1>1, <2>1, Recursion
  <1>4. f = F(f)
    <2>1. ASSUME NEW k \in 0..N
          PROVE  f[k] = F(f)[k]
      <3>1. CASE k = 0
        BY <3>1, <1>3 DEF Solves
      <3>2. CASE k # 0
        <4>1. k \in 1..N /\ k - 1 \in 0..N
          BY <3>2, <1>1
        <4>2. f[k] = step[k][f[k - 1]]
          BY <4>1, <1>3 DEF Solves
        <4>3. f[k - 1] \in Seq(Edges)
          BY <4>1, <1>3
        <4>4. F(f)[k] = IF Edge[k].from = n THEN Append(f[k - 1], k) ELSE f[k - 1]
          BY <3>2
        <4> HIDE DEF F
        <4> QED BY <4>1, <4>2, <4>3, <4>4, <1>2
      <3> QED BY <3>1, <3>2
    <2> QED BY <2>1
  <1>5. out = F(out)
    <2> HIDE DEF F
    <2> QED BY <1>4
  <1>6. OutEdges(n) = out[N]
    BY DEF OutEdges
  <1> HIDE DEF out
  <1>7. /\ out[0] = <<>>
        /\ \A k \in 1..N : out[k] = IF Edge[k].from = n THEN Append(out[k - 1], k) ELSE out[k - 1]
    <2>1. 0 \in 0..N /\ \A k \in 1..N : k \in 0..N /\ k # 0
      BY <1>1
    <2>2. \A k \in 0..N : out[k] = F(out)[k]
      BY <1>5
    <2> QED BY <2>1, <2>2
  <1> QED BY <1>6, <1>7

\* OutEdges lists edges, all of them from the node.
LEMMA OutEdgesFacts ==
    ASSUME NEW n, Edge \in Seq(Connection)
    PROVE  OutEdges(n) \in Seq({e \in Edges : Edge[e].from = n})
  <1> DEFINE N == Len(Edge)
             S == {e \in Edges : Edge[e].from = n}
  <1>1. PICK out :
              /\ OutEdges(n) = out[N]
              /\ out[0] = <<>>
              /\ \A k \in 1..N : out[k] = IF Edge[k].from = n THEN Append(out[k - 1], k) ELSE out[k - 1]
    BY OutEdgesUnfold
  <1>2. N \in Nat
    BY LenProperties
  <1> DEFINE T == {k \in 0..N : out[k] \notin Seq(S)}
  <1>3. ASSUME NEW k \in T, \A m \in T : k <= m
        PROVE  FALSE
    <2>1. k # 0
      <3>1. out[0] \in Seq(S)
        BY <1>1
      <3>2. out[k] \notin Seq(S)
        OBVIOUS
      <3> QED BY <3>1, <3>2
    <2>2. k \in 1..N /\ k - 1 \in 0..N /\ ~(k <= k - 1)
      BY <2>1, <1>2
    <2>3. out[k - 1] \in Seq(S)
      BY <1>3, <2>2
    <2>4. out[k] = IF Edge[k].from = n THEN Append(out[k - 1], k) ELSE out[k - 1]
      BY <1>1, <2>2
    <2>5. Edge[k].from = n => k \in S
      BY <2>2 DEF Edges
    <2>6. out[k] \in Seq(S)
      BY <2>3, <2>4, <2>5, AppendProperties
    <2> QED BY <2>6
  <1>4. T = {}
    <2>1. T \in SUBSET Nat
      BY <1>2
    <2> HIDE DEF T
    <2> QED BY <1>3, <2>1, Least
  <1>5. N \in 0..N
    BY <1>2
  <1> QED BY <1>1, <1>4, <1>5
-------------------------------------------------------------------------------
(* Types *)

Item == [edge : Edges, to : {"emit", "keep", "clear", "deactivate"}]

\* What a workflow is made of.
LEMMA WorkflowFacts ==
    ASSUME workflow \in Workflows
    PROVE  /\ Edge \in Seq(Connection)
           /\ Len(Edge) \in Nat
           /\ \A e \in Edges : Edge[e] \in Connection /\ Edge[e].from \in Nodes /\ Edge[e].to \in Nodes
           /\ Gates \subseteq Nodes
           /\ workflow.enabled \subseteq Nodes
           /\ workflow.seededControl \subseteq Nodes
  <1>1. workflow \in Workflow
    BY WorkflowAssumption
  <1>2. Edge \in Seq(Connection) /\ Gates \subseteq Nodes /\ workflow.enabled \subseteq Nodes
        /\ workflow.seededControl \subseteq Nodes
    BY <1>1 DEF Workflow, Edge, Gates
  <1>3. ASSUME NEW e \in Edges
        PROVE  Edge[e] \in Connection /\ Edge[e].from \in Nodes /\ Edge[e].to \in Nodes
    <2>1. Edge[e] \in Connection
      BY <1>2, ElementOfSeq DEF Edges
    <2> QED BY <2>1 DEF Connection
  <1> QED BY <1>2, <1>3, LenProperties

\* The work that skip_node and fail_started leave.
LEMMA AllFacts ==
    ASSUME workflow \in Workflows, NEW n, NEW what
    PROVE  All(n, what) \in Seq([edge : {e \in Edges : Edge[e].from = n}, to : {what}])
  <1> DEFINE S == {e \in Edges : Edge[e].from = n}
             out == OutEdges(n)
  <1>1. out \in Seq(S)
    BY WorkflowFacts, OutEdgesFacts
  <1>2. Len(out) \in Nat /\ \A i \in 1..Len(out) : out[i] \in S
    BY <1>1, LenProperties, ElementOfSeq
  <1> HIDE DEF out, S
  <1>3. \A i \in 1..Len(out) : [edge |-> out[i], to |-> what] \in [edge : S, to : {what}]
    BY <1>2
  <1>4. [i \in 1..Len(out) |-> [edge |-> out[i], to |-> what]] \in Seq([edge : S, to : {what}])
    BY <1>2, <1>3, IsASeq
  <1> QED BY <1>4 DEF All, out, S

\* The work that propagate_outputs leaves.
Routed(n, ports) == {x \in Item : Edge[x.edge].from = n /\ x.to = Change(n, ports, x.edge)}

LEMMA OutputsFacts ==
    ASSUME workflow \in Workflows, NEW n, NEW ports
    PROVE  Outputs(n, ports) \in Seq(Routed(n, ports))
  <1> DEFINE S == {e \in Edges : Edge[e].from = n}
             out == OutEdges(n)
  <1>1. out \in Seq(S)
    BY WorkflowFacts, OutEdgesFacts
  <1>2. Len(out) \in Nat /\ \A i \in 1..Len(out) : out[i] \in S
    BY <1>1, LenProperties, ElementOfSeq
  <1> HIDE DEF out
  <1>3. \A i \in 1..Len(out) :
            [edge |-> out[i], to |-> Change(n, ports, out[i])] \in Routed(n, ports)
    <2>1. \A e \in S : [edge |-> e, to |-> Change(n, ports, e)] \in Routed(n, ports)
      BY DEF Routed, Change, Item
    <2> QED BY <1>2, <2>1
  <1> DEFINE q == [i \in 1..Len(out) |-> [edge |-> out[i], to |-> Change(n, ports, out[i])]]
  <1>4. q \in Seq(Routed(n, ports))
    BY <1>2, <1>3, IsASeq
  <1> QED BY <1>4 DEF Outputs, out

LEMMA WorkTyped ==
    ASSUME workflow \in Workflows, NEW n
    PROVE  /\ All(n, "deactivate") \in Seq(Item)
           /\ \A ports : Outputs(n, ports) \in Seq(Item)
  <1>1. [edge : {e \in Edges : Edge[e].from = n}, to : {"deactivate"}] \subseteq Item
    BY DEF Item
  <1>2. \A ports : Routed(n, ports) \subseteq Item
    BY DEF Routed
  <1> QED BY <1>1, <1>2, AllFacts, OutputsFacts, SeqMonotonic

LEMMA SkipTyped ==
    ASSUME TypeOK, NEW n \in Nodes, Skip(n), workflow' = workflow
    PROVE  work' \in Seq(Item) /\ skipped' \subseteq Nodes
  BY WorkTyped DEF TypeOK, Skip

LEMMA FailTyped ==
    ASSUME TypeOK, NEW n \in Nodes, Fail(n), workflow' = workflow
    PROVE  work' \in Seq(Item) /\ failed' \subseteq Nodes
  BY WorkTyped DEF TypeOK, Fail

\* What Pop and Consume do to the variables they change.
LEMMA PopTyped ==
    ASSUME TypeOK, Pop
    PROVE  /\ Head(queue) \in Nodes
           /\ queue' \in Seq(Nodes)
           /\ work = <<>>
           /\ pc = "scan"
  BY HeadTailProperties DEF TypeOK, Pop, At

LEMMA ConsumeTyped ==
    ASSUME TypeOK, NEW n \in Nodes, Consume(n)
    PROVE  /\ tokens' \subseteq Edges /\ fresh' \subseteq Edges /\ triggers' \subseteq Nodes
           /\ activations' \in [Nodes -> Nat]
  BY DEF TypeOK, Consume

LEMMA WorkTail ==
    ASSUME TypeOK, work # <<>>
    PROVE  /\ Head(work) \in Item /\ Tail(work) \in Seq(Item)
           /\ Head(work).edge \in Edges
  <1>1. work \in Seq(Item)
    BY DEF TypeOK, Item
  <1>2. Head(work) \in Item /\ Tail(work) \in Seq(Item)
    BY <1>1, HeadTailProperties
  <1> QED BY <1>2 DEF Item

\* The parts of the type invariant after a step: none moves with the workflow.
LEMMA Retyped ==
    ASSUME TypeOK, workflow' = workflow,
           runCancelled' \in BOOLEAN, paused' \in BOOLEAN,
           loopExpired' \in BOOLEAN, parentExpired' \in BOOLEAN,
           pc' \in {"prepare", "top", "scan", "execute", "settle", "finished"},
           cursor' \in 1..(NodeCount + 1),
           current' \in Nodes \cup {NoNode}, pc' = "execute" <=> current' # NoNode,
           work' \in Seq(Item),
           tokens' \subseteq Edges, fresh' \subseteq Edges, inactive' \subseteq Edges,
           triggers' \subseteq Nodes, queue' \in Seq(Nodes),
           failed' \subseteq Nodes, skipped' \subseteq Nodes, activations' \in [Nodes -> Nat],
           loop' \in [gate : Gates, iteration : 1..MaxIterations] \cup {NoLoop},
           cancelled' \in BOOLEAN, timedOut' \in BOOLEAN
    PROVE  TypeOK'
  <1>1. Edges' = Edges /\ Gates' = Gates
    BY DEF Edges, Edge, Gates
  <1>2. work' \in Seq([edge : Edges', to : {"emit", "keep", "clear", "deactivate"}])
    BY <1>1 DEF Item
  <1>3. workflow' \in Workflows
    BY DEF TypeOK
  <1> QED BY <1>1, <1>2, <1>3 DEF TypeOK

LEMMA TypeInductive == TypeOK /\ [Next]_vars => TypeOK'
  <1> SUFFICES ASSUME TypeOK, [Next]_vars PROVE TypeOK'
    OBVIOUS
  <1> USE DEF Goto, At
  <1>0. workflow \in Workflows /\ NodeCount \in Nat /\ NoNode \notin Nodes /\ 1 \in 1..(NodeCount + 1)
    BY WorkflowAssumption DEF TypeOK
  <1>a. /\ runCancelled \in BOOLEAN /\ paused \in BOOLEAN
        /\ loopExpired \in BOOLEAN /\ parentExpired \in BOOLEAN
        /\ pc \in {"prepare", "top", "scan", "execute", "settle", "finished"}
        /\ cursor \in 1..(NodeCount + 1)
        /\ current \in Nodes \cup {NoNode} /\ (pc = "execute" <=> current # NoNode)
        /\ work \in Seq(Item)
        /\ tokens \subseteq Edges /\ fresh \subseteq Edges /\ inactive \subseteq Edges
        /\ triggers \subseteq Nodes /\ queue \in Seq(Nodes)
        /\ failed \subseteq Nodes /\ skipped \subseteq Nodes /\ activations \in [Nodes -> Nat]
        /\ loop \in [gate : Gates, iteration : 1..MaxIterations] \cup {NoLoop}
        /\ cancelled \in BOOLEAN /\ timedOut \in BOOLEAN
    BY DEF TypeOK, Item
  <1>b. cursor <= NodeCount => cursor \in Nodes /\ cursor + 1 \in 1..(NodeCount + 1)
    BY <1>0, <1>a DEF Nodes
  <1>1. CASE EmitOn
    BY <1>1, <1>a, WorkTail, Retyped DEF EmitOn, control, clock, outcome, ending
  <1>2. CASE ClearLatch
    BY <1>2, <1>a, WorkTail, Retyped DEF ClearLatch, control, clock, outcome, ending
  <1>3. CASE Deactivate
    <2> DEFINE n == Edge[Head(work).edge].to
    <2>1. n \in Nodes
      BY <1>0, <1>3, WorkTail, WorkflowFacts DEF Deactivate
    <2>2. All(n, "deactivate") \o Tail(work) \in Seq(Item)
      BY <1>0, <1>3, <2>1, WorkTyped, WorkTail, ConcatProperties DEF Deactivate
    <2>3. work' \in Seq(Item)
      BY <1>3, <2>2, WorkTail DEF Deactivate
    <2>4. inactive' \subseteq Edges /\ skipped' \subseteq Nodes
      BY <1>3, <1>a, <2>1, WorkTail DEF Deactivate
    <2> QED BY <1>3, <1>a, <2>3, <2>4, Retyped DEF Deactivate, control, clock, ending
  <1>4. CASE Prepare
    <2>1. cursor' \in 1..(NodeCount + 1) /\ work' \in Seq(Item) /\ skipped' \subseteq Nodes
          /\ pc' \in {pc, "top"} /\ pc = "prepare"
      <3>1. CASE cursor > NodeCount
        BY <1>0, <1>4, <1>a, <3>1 DEF Prepare
      <3>2. CASE ~(cursor > NodeCount)
        <4>1. cursor \in Nodes /\ cursor + 1 \in 1..(NodeCount + 1)
          BY <1>0, <1>a, <1>b, <3>2
        <4>2. work' \in Seq(Item) /\ skipped' \subseteq Nodes
          BY <1>4, <1>a, <3>2, <4>1, SkipTyped DEF Prepare, control
        <4> QED BY <1>4, <3>2, <4>1, <4>2 DEF Prepare
      <3> QED BY <3>1, <3>2
    <2> QED BY <1>4, <1>a, <2>1, Retyped DEF Prepare, control, clock, flow, ending
  <1>5. CASE StopCancelled \/ BeginPass \/ NothingLeft \/ Finish
    BY <1>0, <1>5, <1>a, Retyped DEF StopCancelled, BeginPass, NothingLeft, Finish, control, clock, flow,
                                     outcome, ending
  <1>6. CASE StopExpired
    <2>1. CASE loop = NoLoop
      BY <1>0, <1>6, <1>a, <2>1, Retyped DEF StopExpired, control, clock, flow
    <2>2. CASE loop # NoLoop
      <3>1. loop.gate \in Nodes
        BY <1>0, <1>a, <2>2, WorkflowFacts
      <3>2. work' \in Seq(Item) /\ failed' \subseteq Nodes
        BY <1>6, <2>2, <3>1, FailTyped DEF StopExpired, control
      <3>3. activations' \in [Nodes -> Nat]
        BY <1>6, <1>a, <2>2, <3>1 DEF StopExpired
      <3> QED BY <1>0, <1>6, <1>a, <2>2, <3>2, <3>3, Retyped DEF StopExpired, control, clock, flow
    <2> QED BY <2>1, <2>2
  <1>7. CASE EnqueueReady
    <2>1. cursor \in Nodes /\ cursor + 1 \in 1..(NodeCount + 1)
      BY <1>7, <1>b DEF EnqueueReady
    <2>2. queue' \in Seq(Nodes)
      BY <1>7, <1>a, <2>1, AppendProperties DEF EnqueueReady
    <2>3. work' \in Seq(Item) /\ skipped' \subseteq Nodes
      BY <1>7, <1>a, <2>1, SkipTyped DEF EnqueueReady, control
    <2> QED BY <1>7, <1>a, <2>1, <2>2, <2>3, Retyped DEF EnqueueReady, control, clock, flow, ending
  <1>8. CASE PassOver
    <2>1. work' \in Seq(Item) /\ skipped' \subseteq Nodes
      BY <1>8, <1>a, PopTyped, SkipTyped DEF PassOver, control
    <2> QED BY <1>0, <1>8, <1>a, <2>1, PopTyped, Retyped DEF PassOver, control, clock, flow, ending
  <1>9. CASE StartNode
    <2>1. /\ current' \in Nodes /\ current' # NoNode /\ queue' \in Seq(Nodes)
          /\ tokens' \subseteq Edges /\ fresh' \subseteq Edges /\ triggers' \subseteq Nodes
          /\ activations' \in [Nodes -> Nat]
      BY <1>0, <1>9, PopTyped, ConsumeTyped DEF StartNode
    <2>2. /\ pc' = "execute" /\ cursor' = 1
          /\ UNCHANGED <<control, clock, work, inactive, failed, skipped, loop, ending>>
      BY <1>9 DEF StartNode
    <2> QED BY <1>0, <1>a, <2>1, <2>2, Retyped DEF control, clock, ending
  <1>10. CASE MissingInput
    BY <1>0, <1>10, <1>a, PopTyped, ConsumeTyped, FailTyped, Retyped DEF MissingInput, control, clock, ending
  <1>11. CASE NodeFinished
    <2>1. work' \in Seq(Item)
      BY <1>0, <1>11, WorkTyped DEF NodeFinished
    <2> QED BY <1>0, <1>11, <1>a, <2>1, Retyped DEF NodeFinished, control, clock, flow, outcome, ending
  <1>12. CASE NodeFailed \/ NodeTimedOut
    <2>1. current \in Nodes /\ Fail(current) /\ workflow' = workflow
      BY <1>12, <1>a DEF NodeFailed, NodeTimedOut, control
    <2>2. work' \in Seq(Item) /\ failed' \subseteq Nodes
      BY <2>1, FailTyped
    <2>3. /\ current' = NoNode /\ pc' \in {"top", "settle"} /\ cursor' = 1 /\ loop' \in {loop, NoLoop}
          /\ UNCHANGED <<control, clock, flow, queue, skipped, activations, ending>>
      BY <1>12 DEF NodeFailed, NodeTimedOut
    <2> QED BY <1>0, <1>a, <2>2, <2>3, Retyped DEF control, clock, flow, ending
  <1>13. CASE NodeCancelled
    BY <1>0, <1>13, <1>a, Retyped DEF NodeCancelled, control, clock, flow, outcome, ending
  <1>14. CASE GateStart \/ GateNext \/ GateStop
    <2>1. workflow' = workflow /\ Pop /\ Consume(Head(queue)) /\ Head(queue) \in Gates
          /\ \E port : Passes(port)
      BY <1>14 DEF GateStart, GateNext, GateStop, Gate, control
    <2>2. loop' \in [gate : Gates, iteration : 1..MaxIterations] \cup {NoLoop}
      <3>1. CASE GateStart
        BY <2>1, <3>1, WorkflowAssumption DEF GateStart
      <3>2. CASE GateNext
        <4>1. /\ loop \in [gate : Gates, iteration : 1..MaxIterations]
              /\ loop.iteration < MaxIterations
              /\ loop' = [loop EXCEPT !.iteration = loop.iteration + 1]
          BY <1>a, <3>2 DEF GateNext
        <4>2. loop.iteration + 1 \in 1..MaxIterations
          BY <4>1, WorkflowAssumption
        <4> QED BY <4>1, <4>2
      <3>3. CASE GateStop
        BY <3>3 DEF GateStop
      <3> QED BY <1>14, <3>1, <3>2, <3>3
    <2>3. work' \in Seq(Item) /\ pc' = "top" /\ cursor' = 1 /\ failed' = failed
      BY <1>0, <2>1, PopTyped, WorkTyped DEF Passes
    <2>4. /\ loopExpired' \in BOOLEAN
          /\ UNCHANGED <<control, parentExpired, current, inactive, skipped, ending>>
      BY <1>14, <1>a DEF GateStart, GateNext, GateStop, Gate
    <2>5. current = NoNode
      BY <1>a, <2>1, PopTyped
    <2>6. /\ tokens' \subseteq Edges /\ fresh' \subseteq Edges /\ triggers' \subseteq Nodes
          /\ activations' \in [Nodes -> Nat] /\ queue' \in Seq(Nodes)
      BY <2>1, PopTyped, ConsumeTyped
    <2> QED BY <1>0, <1>a, <2>1, <2>2, <2>3, <2>4, <2>5, <2>6, Retyped DEF control, ending
  <1>15. CASE GateExhausted \/ GateMisused
    <2>1. Pop /\ Consume(Head(queue)) /\ Fail(Head(queue))
          /\ UNCHANGED <<control, parentExpired, loopExpired, current, inactive, skipped, ending>>
          /\ loop' \in {loop, NoLoop} /\ pc' \in {"top", "settle"} /\ cursor' = 1
      BY <1>15 DEF GateExhausted, GateMisused, Gate
    <2>2. current = NoNode
      BY <1>a, <2>1, PopTyped
    <2>3. /\ tokens' \subseteq Edges /\ fresh' \subseteq Edges /\ triggers' \subseteq Nodes
          /\ activations' \in [Nodes -> Nat] /\ queue' \in Seq(Nodes)
          /\ work' \in Seq(Item) /\ failed' \subseteq Nodes
      BY <2>1, PopTyped, ConsumeTyped, FailTyped DEF control
    <2> QED BY <1>0, <1>a, <2>1, <2>2, <2>3, Retyped DEF control, ending
  <1>16. CASE SettleUnreached
    <2>1. cursor \in Nodes /\ cursor + 1 \in 1..(NodeCount + 1)
      BY <1>16, <1>b DEF SettleUnreached
    <2>2. work' \in Seq(Item) /\ skipped' \subseteq Nodes
      BY <1>16, <1>a, <2>1, SkipTyped DEF SettleUnreached, control
    <2> QED BY <1>16, <1>a, <2>1, <2>2, Retyped DEF SettleUnreached, control, clock, flow, ending
  <1>17. CASE Environment
    BY <1>17, <1>a, Retyped DEF Environment, Cancel, PauseOrResume, LoopExpires, ParentExpires, control,
                                clock, flow, outcome, ending
  <1>18. CASE UNCHANGED vars
    BY <1>18, <1>a, Retyped DEF vars, control, clock, flow, outcome, ending
  <1> QED BY <1>1, <1>2, <1>3, <1>4, <1>5, <1>6, <1>7, <1>8, <1>9, <1>10, <1>11, <1>12, <1>13, <1>14,
             <1>15, <1>16, <1>17, <1>18 DEF Next, Schedules, Executes

LEMMA TypeInitial == Init => TypeOK
  <1> SUFFICES ASSUME Init PROVE TypeOK
    OBVIOUS
  <1>1. workflow \in Workflows
    BY DEF Init
  <1>2. workflow.seededControl \subseteq Nodes /\ 1 \in 1..(NodeCount + 1)
        /\ [n \in Nodes |-> 0] \in [Nodes -> Nat]
    BY <1>1, WorkflowAssumption, WorkflowFacts
  <1>3. work \in Seq([edge : Edges, to : {"emit", "keep", "clear", "deactivate"}]) /\ queue \in Seq(Nodes)
    BY EmptySeq DEF Init
  <1> QED BY <1>1, <1>2, <1>3 DEF Init, TypeOK

(* Every reachable state of the scheduler is well typed, for any workflow and any budget. *)
THEOREM TypeCorrect == Spec => []TypeOK
  BY TypeInitial, TypeInductive, PTL DEF Spec

-------------------------------------------------------------------------------
(* The inductive invariant *)

\* No node that never ran waits for edges that are all dead, or for a required one
\* that is.  Its cascade keeps this true even while it is under way.
NeverBlocked == \A n \in Nodes \ (Settled \cup Ran) : Evaluate(n, inactive) # "blocked"

\* A data edge and every edge of a gate die with their source: an absent output leaves
\* them open.
Lasting(e) == Edge[e].kind = "data" \/ Edge[e].from \in Gates
LastingDiesWithSource == \A e \in inactive : Lasting(e) => Edge[e].from \in Settled

\* While the run goes on, a node is skipped because it is disabled or because something
\* before it settled; a gate that has not settled is no reason.
SkippedForReason ==
    pc \notin {"settle", "finished"} =>
        \A n \in skipped \cap workflow.enabled :
            \E e \in In(n) : Edge[e].from \in Gates => Edge[e].from \in Settled

\* What is still to be done to an edge fits the node it leaves.
Fits(x) ==
    /\ x.to = "clear" => Edge[x.edge].kind = "data"
    /\ IF x.to = "deactivate" THEN Lasting(x.edge) => Edge[x.edge].from \in Settled
       ELSE Edge[x.edge].from \in Ran \ (Settled \cup Queued)
Fitting == {x \in Item : Fits(x)}
WorkFits == work \in Seq(Fitting) /\ (work # <<>> => pc \notin {"execute", "finished"})

RunFits ==
    /\ current # NoNode => current \in Ran \ (Settled \cup Queued)
    /\ Ran \cap skipped = {}
    /\ loop # NoLoop => loop.gate \in Ran
    /\ pc = "prepare" => Ran = {} /\ queue = <<>>
    /\ pc = "settle" => \A n \in Nodes : n < cursor => n \in Settled \cup Ran

QueuedOnce == \A i, j \in 1..Len(queue) : queue[i] = queue[j] => i = j

\* A node that ran, and runs on data alone, is in the queue because of a fresh value.
\* If the value is taken back, then by a source that ran before it and is not in
\* front of it: the source cannot fail before the node is looked at.
Unread(n, i) ==
    \/ DataIn(n) \cap fresh # {}
    \/ \E e \in In(n) :
          /\ Edge[e].from \in Ran \ Settled
          /\ Edge[e].from # current
          /\ \A j \in 1..(i - 1) : queue[j] # Edge[e].from

QueuedIsAlive ==
    pc \in {"top", "scan", "execute"} =>
        \A i \in 1..Len(queue) :
            queue[i] \in Ran /\ ~HasControl(queue[i]) => Unread(queue[i], i)

SchedulerInv ==
    /\ TypeOK
    /\ NeverBlocked
    /\ LastingDiesWithSource
    /\ SkippedForReason
    /\ WorkFits
    /\ RunFits
    /\ QueuedOnce
    /\ QueuedIsAlive

-------------------------------------------------------------------------------
(* The kinds of steps *)

\* Nothing happens to nodes and edges.
Quiet ==
    /\ UNCHANGED <<workflow, current, work, flow, queue, outcome>>
    /\ loop' \in {loop, NoLoop}
    /\ \/ pc' = pc /\ (cursor' = cursor \/ pc # "settle")
       \/ pc' = pc /\ cursor' = cursor + 1 /\ cursor \in Settled \cup Ran
       \/ /\ pc \in {"prepare", "top", "scan"} /\ pc' \in {"top", "scan", "settle"}
          /\ cursor' = 1 /\ work = <<>>

Passed(n) ==
    /\ work = <<>> /\ pc' = pc
    /\ (pc = "prepare" /\ n \notin workflow.enabled) \/ pc = "settle"
    /\ n \in Nodes \ (Settled \cup Ran) /\ cursor = n /\ cursor' = n + 1
    /\ Skip(n)
    /\ UNCHANGED <<workflow, current, flow, queue, failed, activations, loop>>

Enqueued(n) ==
    /\ work = <<>> /\ pc = "scan" /\ pc' = pc
    /\ n \in Nodes \ (Settled \cup Queued) /\ Evaluate(n, inactive) = "go"
    /\ queue' = Append(queue, n)
    /\ UNCHANGED <<workflow, current, work, flow, outcome, loop>>

Dropped ==
    /\ Pop /\ pc' = "top"
    /\ UNCHANGED <<workflow, current, work, flow, outcome, loop>>

\* What is popped and not settled is consumed: it starts, fails or routes its outputs.
Taken(n) == Pop /\ n = Head(queue) /\ n \notin Settled /\ Consume(n)

Started(n) ==
    /\ Taken(n) /\ current' = n /\ pc' = "execute"
    /\ UNCHANGED <<workflow, work, inactive, failed, skipped, loop>>

Refused(n) ==
    /\ Taken(n) /\ Fail(n)
    /\ pc' \in {"top", "settle"} /\ cursor' = 1 /\ loop' \in {loop, NoLoop}
    /\ UNCHANGED <<workflow, current, inactive, skipped>>

RoutedOn(n) ==
    /\ Taken(n) /\ \E ports : work' = Outputs(n, ports)
    /\ pc' = "top" /\ (loop' # NoLoop => loop'.gate = n \/ (loop # NoLoop /\ loop'.gate = loop.gate))
    /\ UNCHANGED <<workflow, current, inactive, failed, skipped>>

Finished(n) ==
    /\ pc = "execute" /\ n = current /\ \E ports : work' = Outputs(n, ports)
    /\ current' = NoNode /\ pc' = "top"
    /\ UNCHANGED <<workflow, flow, queue, outcome, loop>>

Broken(n) ==
    /\ pc = "execute" /\ n = current /\ Fail(n)
    /\ current' = NoNode /\ pc' \in {"top", "settle"} /\ cursor' = 1 /\ loop' \in {loop, NoLoop}
    /\ UNCHANGED <<workflow, flow, queue, skipped, activations>>

GivenUp ==
    /\ pc = "execute"
    /\ current' = NoNode /\ pc' = "settle" /\ cursor' = 1
    /\ UNCHANGED <<workflow, work, flow, queue, outcome, loop>>

GateExpired(n) ==
    /\ pc = "top" /\ work = <<>> /\ loop # NoLoop /\ n = loop.gate /\ Fail(n)
    /\ activations' = [activations EXCEPT ![n] = @ + 1]
    /\ pc' = "settle" /\ cursor' = 1 /\ loop' = NoLoop
    /\ UNCHANGED <<workflow, current, flow, queue, skipped>>

\* What becomes of a node.
Moved(n) ==
    \/ Passed(n) \/ Enqueued(n) \/ Started(n) \/ Refused(n) \/ RoutedOn(n)
    \/ Finished(n) \/ Broken(n) \/ GateExpired(n)
OnEdge == EmitOn \/ ClearLatch \/ Deactivate
Kinds == Quiet \/ Dropped \/ GivenUp \/ Finish \/ OnEdge \/ \E n \in Nodes : Moved(n)

\* What was popped is not blocked, whether it ran or not.
LEMMA PoppedIsNotBlocked ==
    ASSUME SchedulerInv, Pop, Head(queue) \notin Settled
    PROVE  Evaluate(Head(queue), inactive) # "blocked"
  <1> DEFINE n == Head(queue)
  <1>1. n \in Nodes /\ queue \in Seq(Nodes) /\ queue # <<>>
    BY PopTyped DEF SchedulerInv, TypeOK, Pop
  <1>2. CASE n \notin Ran
    BY <1>1, <1>2 DEF SchedulerInv, NeverBlocked
  <1>3. CASE n \in Ran
    <2> SUFFICES ASSUME Evaluate(n, inactive) = "blocked" PROVE FALSE
      OBVIOUS
    <2>1. /\ In(n) \subseteq inactive /\ ~HasControl(n) /\ ~CanGo(n, inactive)
      BY <1>3 DEF Evaluate
    <2>2. ControlIn(n) = {} /\ DataIn(n) = In(n)
      BY <2>1 DEF HasControl, DataIn
    <2>3. DataIn(n) \cap fresh = {}
      BY <1>3, <2>1, <2>2 DEF CanGo, DataPending
    <2>4. 1 \in 1..Len(queue) /\ queue[1] = n
      BY <1>1, EmptySeq
    <2>5. Unread(n, 1)
      BY <1>3, <2>1, <2>4 DEF SchedulerInv, QueuedIsAlive, Pop, At
    <2>6. PICK e \in In(n) : Edge[e].from \in Ran \ Settled
      BY <2>3, <2>5 DEF Unread
    <2>7. workflow \in Workflows
      BY DEF SchedulerInv, TypeOK
    <2>8. Edge[e] \in Connection /\ Edge[e].kind # "control"
      BY <2>2, <2>6, <2>7, WorkflowFacts DEF ControlIn, In
    <2>9. Edge[e].kind = "data"
      BY <2>8 DEF Connection
    <2> QED BY <2>1, <2>6, <2>9 DEF SchedulerInv, LastingDiesWithSource, Lasting
  <1> QED BY <1>2, <1>3

LEMMA StepKinds == SchedulerInv /\ [Next]_vars => Kinds
  <1> SUFFICES ASSUME SchedulerInv, [Next]_vars PROVE Kinds
    OBVIOUS
  <1> USE DEF Goto, At
  <1>0. TypeOK /\ NodeCount \in Nat /\ 1 \in Nat
    BY WorkflowAssumption DEF SchedulerInv
  <1>b. cursor <= NodeCount => cursor \in Nodes
    BY <1>0 DEF Nodes, TypeOK
  <1>1. CASE EmitOn \/ ClearLatch \/ Deactivate
    BY <1>1 DEF Kinds, OnEdge
  <1>2. CASE Prepare
    <2>1. CASE cursor > NodeCount \/ cursor \in workflow.enabled \cup Settled
      BY <1>2, <2>1 DEF Prepare, Kinds, Quiet, control, clock, flow, outcome, ending
    <2>2. CASE ~(cursor > NodeCount) /\ cursor \notin workflow.enabled \cup Settled
      <3>1. cursor \in Nodes \ (Settled \cup Ran)
        BY <1>0, <1>2, <1>b, <2>2 DEF Prepare, SchedulerInv, RunFits, TypeOK
      <3>2. Passed(cursor)
        BY <1>2, <2>2, <3>1 DEF Prepare, Passed, control, flow
      <3> QED BY <3>1, <3>2 DEF Kinds, Moved
    <2> QED BY <2>1, <2>2
  <1>3. CASE StopCancelled \/ BeginPass \/ NothingLeft
    BY <1>3 DEF StopCancelled, BeginPass, NothingLeft, Kinds, Quiet, control, clock
  <1>4. CASE StopExpired
    <2>1. CASE loop = NoLoop
      BY <1>4, <2>1 DEF StopExpired, Kinds, Quiet, control, clock, outcome
    <2>2. CASE loop # NoLoop
      <3>1. loop.gate \in Nodes
        BY <1>0, <2>2, WorkflowFacts DEF TypeOK
      <3>2. GateExpired(loop.gate)
        BY <1>4, <2>2 DEF StopExpired, GateExpired, control
      <3> QED BY <3>1, <3>2 DEF Kinds, Moved
    <2> QED BY <2>1, <2>2
  <1>5. CASE EnqueueReady
    <2>1. cursor \in Nodes
      BY <1>5, <1>b DEF EnqueueReady
    <2>2. CASE cursor \in Settled \cup Queued
      BY <1>5, <2>2 DEF EnqueueReady, Kinds, Quiet, control, clock, flow, outcome, ending
    <2>3. CASE cursor \notin Settled \cup Queued /\ Evaluate(cursor, inactive) = "go"
      <3>1. Enqueued(cursor)
        BY <1>5, <2>1, <2>3 DEF EnqueueReady, Enqueued, control, flow, outcome
      <3> QED BY <2>1, <3>1 DEF Kinds, Moved
    <2>4. CASE cursor \notin Settled \cup Queued /\ Evaluate(cursor, inactive) # "go"
      <3>1. ~(Evaluate(cursor, inactive) = "blocked" /\ cursor \notin Ran)
        BY <2>1, <2>4 DEF SchedulerInv, NeverBlocked
      <3> QED BY <1>5, <2>4, <3>1 DEF EnqueueReady, Kinds, Quiet, control, flow, outcome
    <2> QED BY <2>2, <2>3, <2>4
  <1>6. CASE PassOver
    BY <1>6, PoppedIsNotBlocked DEF PassOver, Pop, Kinds, Dropped, control, outcome
  <1>7. CASE StartNode
    <2>1. Head(queue) \in Nodes
      BY <1>0, <1>7, PopTyped DEF StartNode
    <2>2. Started(Head(queue))
      BY <1>7 DEF StartNode, Started, Taken, Goes, control
    <2> QED BY <2>1, <2>2 DEF Kinds, Moved
  <1>8. CASE MissingInput
    <2>1. Head(queue) \in Nodes
      BY <1>0, <1>8, PopTyped DEF MissingInput
    <2>2. Refused(Head(queue))
      BY <1>8 DEF MissingInput, Refused, Taken, Goes, control
    <2> QED BY <2>1, <2>2 DEF Kinds, Moved
  <1>9. CASE NodeFinished \/ NodeFailed \/ NodeTimedOut
    <2>1. current \in Nodes
      BY <1>0, <1>9 DEF NodeFinished, NodeFailed, NodeTimedOut, TypeOK
    <2>2. Finished(current) \/ Broken(current)
      BY <1>9 DEF NodeFinished, NodeFailed, NodeTimedOut, Finished, Broken, control
    <2> QED BY <2>1, <2>2 DEF Kinds, Moved
  <1>10. CASE NodeCancelled
    BY <1>10 DEF NodeCancelled, Kinds, GivenUp, control
  <1>11. CASE GateStart \/ GateNext \/ GateStop
    <2>1. Head(queue) \in Nodes
      BY <1>0, <1>11, PopTyped DEF GateStart, GateNext, GateStop, Gate
    <2>2. Taken(Head(queue)) /\ UNCHANGED <<workflow, current, inactive, skipped>>
      BY <1>11 DEF GateStart, GateNext, GateStop, Gate, Taken, Goes, control
    <2>3. (\E ports : work' = Outputs(Head(queue), ports)) /\ pc' = "top" /\ failed' = failed
      BY <1>11 DEF GateStart, GateNext, GateStop, Passes
    <2>4. loop' # NoLoop => loop'.gate = Head(queue) \/ (loop # NoLoop /\ loop'.gate = loop.gate)
      BY <1>0, <1>11 DEF GateStart, GateNext, GateStop, TypeOK
    <2>5. RoutedOn(Head(queue))
      BY <2>2, <2>3, <2>4 DEF RoutedOn
    <2> QED BY <2>1, <2>5 DEF Kinds, Moved
  <1>12. CASE GateExhausted \/ GateMisused
    <2>1. Head(queue) \in Nodes
      BY <1>0, <1>12, PopTyped DEF GateExhausted, GateMisused, Gate
    <2>2. Taken(Head(queue)) /\ UNCHANGED <<workflow, current, inactive, skipped>>
      BY <1>12 DEF GateExhausted, GateMisused, Gate, Taken, Goes, control
    <2>3. Refused(Head(queue))
      BY <1>12, <2>2 DEF GateExhausted, GateMisused, Refused
    <2> QED BY <2>1, <2>3 DEF Kinds, Moved
  <1>13. CASE SettleUnreached
    <2>1. cursor \in Nodes
      BY <1>13, <1>b DEF SettleUnreached
    <2>2. CASE cursor \in Settled \cup Ran
      BY <1>13, <2>2 DEF SettleUnreached, Kinds, Quiet, control, flow, outcome
    <2>3. CASE cursor \notin Settled \cup Ran
      <3>1. Passed(cursor)
        BY <1>13, <2>1, <2>3 DEF SettleUnreached, Passed, control, flow
      <3> QED BY <2>1, <3>1 DEF Kinds, Moved
    <2> QED BY <2>2, <2>3
  <1>14. CASE Finish
    BY <1>14 DEF Kinds
  <1>15. CASE Environment \/ UNCHANGED vars
    BY <1>15 DEF Environment, Cancel, PauseOrResume, LoopExpires, ParentExpires, vars, Kinds, Quiet, control,
                 flow, outcome
  <1> QED BY <1>1, <1>2, <1>3, <1>4, <1>5, <1>6, <1>7, <1>8, <1>9, <1>10, <1>11, <1>12, <1>13, <1>14,
             <1>15 DEF Next, Schedules, Executes

-------------------------------------------------------------------------------
(* What a step leaves of the nodes *)

LEMMA PopQueue ==
    ASSUME SchedulerInv, Pop
    PROVE  /\ work = <<>> /\ current = NoNode /\ pc = "scan"
           /\ queue \in Seq(Nodes) /\ queue # <<>> /\ queue' \in Seq(Nodes)
           /\ Len(queue) \in Nat /\ Len(queue') \in Nat
           /\ Head(queue) \in Nodes /\ Head(queue) = queue[1] /\ Head(queue) \in Queued
           /\ Len(queue') = Len(queue) - 1
           /\ \A i \in 1..Len(queue') : queue'[i] = queue[i + 1] /\ i + 1 \in 1..Len(queue)
           /\ Queued' \subseteq Queued \ {Head(queue)}
  <1>1. /\ work = <<>> /\ current = NoNode /\ pc = "scan"
        /\ queue \in Seq(Nodes) /\ queue # <<>> /\ queue' = Tail(queue)
    BY DEF SchedulerInv, TypeOK, Pop, At
  <1>2. Len(queue) \in Nat \ {0}
    BY <1>1, EmptySeq
  <1>3. /\ Head(queue) \in Nodes /\ queue' \in Seq(Nodes) /\ Len(queue') = Len(queue) - 1
        /\ \A i \in 1..Len(queue') : queue'[i] = queue[i + 1]
    BY <1>1, HeadTailProperties
  <1>4. Head(queue) = queue[1] /\ 1 \in 1..Len(queue)
    BY <1>1, <1>2
  <1>5. \A i \in 1..Len(queue') : i + 1 \in 1..Len(queue) /\ i + 1 # 1
    BY <1>2, <1>3
  <1>6. Queued' \subseteq Queued \ {Head(queue)}
    <2>1. SUFFICES ASSUME NEW i \in 1..Len(queue')
                   PROVE  queue'[i] \in Queued /\ queue'[i] # Head(queue)
      BY DEF Queued
    <2>2. queue'[i] = queue[i + 1] /\ i + 1 \in 1..Len(queue) /\ i + 1 # 1
      BY <1>3, <1>5
    <2>3. queue[i + 1] # queue[1]
      BY <1>4, <2>2 DEF SchedulerInv, QueuedOnce
    <2> QED BY <1>4, <2>2, <2>3 DEF Queued
  <1>7. Head(queue) \in Queued
    BY <1>4 DEF Queued
  <1>8. Len(queue) \in Nat /\ Len(queue') \in Nat
    BY <1>2, <1>3
  <1> QED BY <1>1, <1>3, <1>4, <1>5, <1>6, <1>7, <1>8

LEMMA TakenFacts ==
    ASSUME SchedulerInv, NEW n, Taken(n)
    PROVE  /\ n \in Nodes /\ n \notin Settled /\ n \notin Queued' /\ n \in Queued
           /\ Ran' = Ran \cup {n}
  <1>1. n \in Nodes /\ n \notin Settled /\ n \notin Queued' /\ n \in Queued
    BY PopQueue DEF Taken
  <1>2. Ran' = Ran \cup {n}
    BY <1>1 DEF Taken, Consume, Ran, SchedulerInv, TypeOK
  <1> QED BY <1>1, <1>2

\* How the sets of nodes change.
LEMMA NodeSets ==
    ASSUME SchedulerInv
    PROVE  /\ \A n \in Nodes : Passed(n) =>
                 Settled' = Settled \cup {n} /\ Ran' = Ran /\ Queued' = Queued /\ failed' = failed
           /\ \A n \in Nodes : Enqueued(n) => Settled' = Settled /\ Ran' = Ran
           /\ \A n \in Nodes : Started(n) => Settled' = Settled
           /\ \A n \in Nodes : Refused(n) => Settled' = Settled \cup {n}
           /\ \A n \in Nodes : RoutedOn(n) => Settled' = Settled
           /\ \A n \in Nodes : Finished(n) => Settled' = Settled /\ Ran' = Ran /\ Queued' = Queued
           /\ \A n \in Nodes : Broken(n) =>
                 Settled' = Settled \cup {n} /\ Ran' = Ran /\ Queued' = Queued
           /\ \A n \in Nodes : GateExpired(n) =>
                 Settled' = Settled \cup {n} /\ Ran' = Ran \cup {n} /\ Queued' = Queued
           /\ Quiet => Settled' = Settled /\ Ran' = Ran /\ Queued' = Queued
           /\ Dropped => Settled' = Settled /\ Ran' = Ran
           /\ GivenUp \/ Finish => Settled' = Settled /\ Ran' = Ran /\ Queued' = Queued
           /\ EmitOn \/ ClearLatch => Settled' = Settled /\ Ran' = Ran /\ Queued' = Queued
           /\ Deactivate => /\ Ran' = Ran /\ Queued' = Queued
                            /\ Settled \subseteq Settled' /\ Settled' \cap Ran = Settled \cap Ran
  <1>1. ASSUME NEW n \in Nodes, Passed(n)
        PROVE  Settled' = Settled \cup {n} /\ Ran' = Ran /\ Queued' = Queued /\ failed' = failed
    BY <1>1 DEF Passed, Skip, Settled, Ran, Queued
  <1>2. ASSUME NEW n \in Nodes, Enqueued(n) PROVE Settled' = Settled /\ Ran' = Ran
    BY <1>2 DEF Enqueued, outcome, Settled, Ran
  <1>3. ASSUME NEW n \in Nodes, Started(n) PROVE Settled' = Settled
    BY <1>3 DEF Started, Settled
  <1>4. ASSUME NEW n \in Nodes, Refused(n) PROVE Settled' = Settled \cup {n}
    BY <1>4 DEF Refused, Fail, Settled
  <1>5. ASSUME NEW n \in Nodes, RoutedOn(n) PROVE Settled' = Settled
    BY <1>5 DEF RoutedOn, Settled
  <1>6. ASSUME NEW n \in Nodes, Finished(n) PROVE Settled' = Settled /\ Ran' = Ran /\ Queued' = Queued
    BY <1>6 DEF Finished, outcome, Settled, Ran, Queued
  <1>7. ASSUME NEW n \in Nodes, Broken(n)
        PROVE  Settled' = Settled \cup {n} /\ Ran' = Ran /\ Queued' = Queued
    BY <1>7 DEF Broken, Fail, Settled, Ran, Queued
  <1>8. ASSUME NEW n \in Nodes, GateExpired(n)
        PROVE  Settled' = Settled \cup {n} /\ Ran' = Ran \cup {n} /\ Queued' = Queued
    BY <1>8 DEF GateExpired, Fail, Settled, Ran, Queued, SchedulerInv, TypeOK
  <1>9. Quiet => Settled' = Settled /\ Ran' = Ran /\ Queued' = Queued
    BY DEF Quiet, outcome, Settled, Ran, Queued
  <1>10. Dropped => Settled' = Settled /\ Ran' = Ran
    BY DEF Dropped, outcome, Settled, Ran
  <1>11. GivenUp \/ Finish => Settled' = Settled /\ Ran' = Ran /\ Queued' = Queued
    BY DEF GivenUp, Finish, outcome, Settled, Ran, Queued
  <1>12. EmitOn \/ ClearLatch => Settled' = Settled /\ Ran' = Ran /\ Queued' = Queued
    BY DEF EmitOn, ClearLatch, outcome, Settled, Ran, Queued
  <1>13. Deactivate => /\ Ran' = Ran /\ Queued' = Queued
                       /\ Settled \subseteq Settled' /\ Settled' \cap Ran = Settled \cap Ran
    BY DEF Deactivate, Unreachable, Settled, Ran, Queued
  <1> QED BY <1>1, <1>2, <1>3, <1>4, <1>5, <1>6, <1>7, <1>8, <1>9, <1>10, <1>11, <1>12, <1>13

LEMMA Monotone ==
    ASSUME SchedulerInv, Kinds
    PROVE  workflow' = workflow /\ Settled \subseteq Settled' /\ Ran \subseteq Ran'
  <1>1. workflow' = workflow
    BY DEF Kinds, Moved, OnEdge, Quiet, Dropped, GivenUp, Finish, EmitOn, ClearLatch, Deactivate, Passed,
           Enqueued, Started, Refused, RoutedOn, Finished, Broken, GateExpired, control
  <1>2. \A n : Started(n) \/ Refused(n) \/ RoutedOn(n) => Ran \subseteq Ran'
    BY TakenFacts DEF Started, Refused, RoutedOn
  <1>3. ASSUME NEW n \in Nodes, Moved(n)
        PROVE  Settled \subseteq Settled' /\ Ran \subseteq Ran'
    BY <1>2, <1>3, NodeSets DEF Moved
  <1>4. Quiet \/ Dropped \/ GivenUp \/ Finish \/ OnEdge => Settled \subseteq Settled' /\ Ran \subseteq Ran'
    BY NodeSets DEF OnEdge
  <1> QED BY <1>1, <1>3, <1>4 DEF Kinds

-------------------------------------------------------------------------------
(* Each part of the invariant is kept *)

\* A node that never ran is judged by its inputs alone.
LEMMA VerdictKept ==
    ASSUME NEW n, n \notin Ran, n \notin Ran', workflow' = workflow,
           In(n) \cap inactive' = In(n) \cap inactive,
           In(n) \cap tokens' = In(n) \cap tokens,
           n \in triggers' <=> n \in triggers
    PROVE  Evaluate(n, inactive)' = "blocked" <=> Evaluate(n, inactive) = "blocked"
  <1>1. /\ In(n)' = In(n) /\ ControlIn(n)' = ControlIn(n) /\ DataIn(n)' = DataIn(n)
        /\ RequiredIn(n)' = RequiredIn(n)
    BY DEF In, ControlIn, DataIn, RequiredIn, Edges, Edge
  <1>2. ControlIn(n) \subseteq In(n) /\ DataIn(n) \subseteq In(n) /\ RequiredIn(n) \subseteq In(n)
    BY DEF ControlIn, DataIn, RequiredIn
  <1>3. HasControl(n)' = HasControl(n) /\ Triggered(n)' = Triggered(n)
    BY <1>1, <1>2 DEF HasControl, Triggered
  <1>4. DataPending(n, inactive)' = DataPending(n, inactive)
    BY <1>1, <1>2 DEF DataPending
  <1>5. CanGo(n, inactive)' = CanGo(n, inactive)
    BY <1>1, <1>2, <1>3, <1>4 DEF CanGo
  <1>6. /\ RequiredIn(n) \cap inactive' = RequiredIn(n) \cap inactive
        /\ In(n) \subseteq inactive' <=> In(n) \subseteq inactive
    BY <1>2
  <1> QED BY <1>1, <1>3, <1>5, <1>6 DEF Evaluate

\* Edges of two nodes are not the same.
LEMMA InputsApart ==
    \A m, n : m # n => In(m) \cap In(n) = {}
  BY DEF In

LEMMA NeverBlockedKept ==
    ASSUME SchedulerInv, Kinds
    PROVE  NeverBlocked'
  <1> SUFFICES ASSUME NEW m \in Nodes, m \notin Settled', m \notin Ran'
               PROVE  Evaluate(m, inactive)' # "blocked"
    BY DEF NeverBlocked
  <1>1. workflow' = workflow /\ m \notin Settled /\ m \notin Ran
    BY Monotone
  <1>2. Evaluate(m, inactive) # "blocked"
    BY <1>1 DEF SchedulerInv, NeverBlocked
  <1>3. ASSUME flow' = flow PROVE Evaluate(m, inactive)' # "blocked"
    BY <1>1, <1>2, <1>3, VerdictKept DEF flow
  <1>4. ASSUME NEW n, Taken(n), inactive' = inactive PROVE Evaluate(m, inactive)' # "blocked"
    <2>1. m # n
      BY <1>4, TakenFacts
    <2>2. In(m) \cap tokens' = In(m) \cap tokens /\ (m \in triggers' <=> m \in triggers)
      BY <1>4, <2>1, InputsApart DEF Taken, Consume, ControlIn
    <2> QED BY <1>1, <1>2, <1>4, <2>2, VerdictKept
  <1>5. CASE Quiet \/ Dropped \/ GivenUp \/ Finish
    BY <1>3, <1>5 DEF Quiet, Dropped, GivenUp, Finish
  <1>6. ASSUME NEW n \in Nodes, Moved(n) PROVE Evaluate(m, inactive)' # "blocked"
    <2>1. CASE Started(n) \/ Refused(n) \/ RoutedOn(n)
      BY <1>4, <2>1 DEF Started, Refused, RoutedOn
    <2>2. CASE Passed(n) \/ Enqueued(n) \/ Finished(n) \/ Broken(n) \/ GateExpired(n)
      BY <1>3, <2>2 DEF Passed, Enqueued, Finished, Broken, GateExpired
    <2> QED BY <1>6, <2>1, <2>2 DEF Moved
  <1>7. CASE EmitOn
    <2> DEFINE e == Head(work).edge
    <2>1. inactive' = inactive \ {e} /\ tokens' = tokens \cup {e} /\ triggers' = triggers
      BY <1>7 DEF EmitOn
    <2>2. CASE e \notin In(m)
      BY <1>1, <1>2, <2>1, <2>2, VerdictKept
    <2>3. CASE e \in In(m)
      <3>1. RequiredIn(m)' = RequiredIn(m) /\ In(m)' = In(m)
        BY <1>1 DEF In, ControlIn, DataIn, RequiredIn, Edges, Edge
      <3>2. RequiredIn(m) \cap inactive = {}
        BY <1>1, <1>2, <2>3 DEF Evaluate
      <3>3. RequiredIn(m)' \cap inactive' = {} /\ ~(In(m)' \subseteq inactive')
        BY <2>1, <2>3, <3>1, <3>2
      <3> QED BY <2>3, <3>1, <3>3 DEF Evaluate
    <2> QED BY <2>2, <2>3
  <1>8. CASE ClearLatch
    <2> DEFINE e == Head(work).edge
    <2>1. inactive' = inactive /\ triggers' = triggers /\ (tokens' = tokens \/ tokens' = tokens \ {e})
      BY <1>8 DEF ClearLatch
    <2>2. CASE e \notin In(m) \/ tokens' = tokens
      BY <1>1, <1>2, <2>1, <2>2, VerdictKept
    <2>3. CASE e \in In(m) /\ tokens' # tokens
      <3>1. Head(work).to = "clear" /\ Head(work) \in Fitting
        BY <1>8, <2>3, HeadTailProperties DEF ClearLatch, SchedulerInv, WorkFits
      <3>2. Edge[e].kind = "data" /\ Edge[e].from \notin Settled
        BY <3>1 DEF Fitting, Fits
      <3>3. e \notin inactive
        BY <3>2 DEF SchedulerInv, LastingDiesWithSource, Lasting
      <3>4. RequiredIn(m)' = RequiredIn(m) /\ In(m)' = In(m)
        BY <1>1 DEF In, ControlIn, DataIn, RequiredIn, Edges, Edge
      <3>5. RequiredIn(m) \cap inactive = {}
        BY <1>1, <1>2, <2>3 DEF Evaluate
      <3> QED BY <2>1, <2>3, <3>3, <3>4, <3>5 DEF Evaluate
    <2> QED BY <2>2, <2>3
  <1>9. CASE Deactivate
    <2> DEFINE e == Head(work).edge
    <2>1. /\ inactive' = inactive \cup {e} /\ tokens' = tokens /\ triggers' = triggers /\ fresh' = fresh
          /\ activations' = activations
      BY <1>9 DEF Deactivate
    <2>2. CASE e \notin In(m) \/ e \in inactive
      BY <1>1, <1>2, <2>1, <2>2, VerdictKept
    <2>3. CASE e \in In(m) /\ e \notin inactive
      <3>1. Edge[e].to = m
        BY <2>3 DEF In
      <3>2. ~Unreachable(m, e)
        BY <1>9, <2>3, <3>1 DEF Deactivate, Settled
      <3>3. Evaluate(m, inactive \cup {e}) # "blocked"
        BY <1>1, <3>2 DEF Unreachable
      <3>4. Evaluate(m, inactive)' = Evaluate(m, inactive \cup {e})
        BY <1>1, <2>1 DEF Evaluate, CanGo, HasControl, Triggered, DataPending, In, ControlIn, DataIn,
                          RequiredIn, Edges, Edge, Ran
      <3> QED BY <3>3, <3>4
    <2> QED BY <2>2, <2>3
  <1> QED BY <1>5, <1>6, <1>7, <1>8, <1>9 DEF Kinds, OnEdge

LEMMA LastingKept ==
    ASSUME SchedulerInv, Kinds
    PROVE  LastingDiesWithSource'
  <1>1. workflow' = workflow /\ Settled \subseteq Settled'
    BY Monotone
  <1>2. Edge' = Edge /\ Gates' = Gates
    BY <1>1 DEF Edge, Gates
  <1>3. ASSUME inactive' \subseteq inactive PROVE LastingDiesWithSource'
    BY <1>1, <1>2, <1>3 DEF SchedulerInv, LastingDiesWithSource, Lasting
  <1>4. CASE Deactivate
    <2> DEFINE e == Head(work).edge
    <2>1. inactive' = inactive \cup {e} /\ Head(work).to = "deactivate" /\ Head(work) \in Fitting
      BY <1>4, HeadTailProperties DEF Deactivate, SchedulerInv, WorkFits
    <2>2. Lasting(e) => Edge[e].from \in Settled
      BY <2>1 DEF Fitting, Fits
    <2> QED BY <1>1, <1>2, <2>1, <2>2 DEF SchedulerInv, LastingDiesWithSource, Lasting
  <1>5. CASE ~Deactivate
    <2>1. inactive' \subseteq inactive
      BY <1>5 DEF Kinds, Moved, OnEdge, Quiet, Dropped, GivenUp, Finish, EmitOn, ClearLatch, Passed,
                  Enqueued, Started, Refused, RoutedOn, Finished, Broken, GateExpired, flow
    <2> QED BY <1>3, <2>1
  <1> QED BY <1>4, <1>5

LEMMA SkippedKept ==
    ASSUME SchedulerInv, Kinds
    PROVE  SkippedForReason'
  <1>1. workflow' = workflow /\ Settled \subseteq Settled'
    BY Monotone
  <1>2. Edge' = Edge /\ Gates' = Gates /\ \A n : In(n)' = In(n)
    BY <1>1 DEF Edge, Edges, Gates, In
  <1>3. pc' \notin {"settle", "finished"} => pc \notin {"settle", "finished"}
    BY DEF Kinds, Moved, OnEdge, Quiet, Dropped, GivenUp, Finish, EmitOn, ClearLatch, Deactivate, Passed,
           Enqueued, Started, Refused, RoutedOn, Finished, Broken, GateExpired, Taken, Pop, At, Goto
  <1> SUFFICES ASSUME pc' \notin {"settle", "finished"}, NEW n \in skipped' \cap workflow.enabled
               PROVE  \E e \in In(n) : Edge[e].from \in Gates => Edge[e].from \in Settled'
    BY <1>1, <1>2 DEF SkippedForReason
  <1>4. CASE n \in skipped
    BY <1>1, <1>3, <1>4 DEF SchedulerInv, SkippedForReason
  <1>5. CASE n \notin skipped /\ Deactivate
    <2> DEFINE e == Head(work).edge
    <2>1. n = Edge[e].to /\ work # <<>> /\ Head(work).to = "deactivate"
      BY <1>5 DEF Deactivate
    <2>2. Head(work) \in Fitting
      BY <2>1, HeadTailProperties DEF SchedulerInv, WorkFits
    <2>3. e \in Edges /\ (Edge[e].from \in Gates => Edge[e].from \in Settled)
      BY <2>1, <2>2 DEF Fitting, Fits, Lasting, Item
    <2> QED BY <1>1, <2>1, <2>3 DEF In
  <1>6. CASE n \notin skipped /\ ~Deactivate
    BY <1>3, <1>6 DEF Kinds, Moved, OnEdge, Quiet, Dropped, GivenUp, Finish, EmitOn, ClearLatch, Passed,
           Enqueued, Started, Refused, RoutedOn, Finished, Broken, GateExpired, outcome, Skip
  <1> QED BY <1>4, <1>5, <1>6

LEMMA FittingKept ==
    ASSUME workflow' = workflow, Settled \subseteq Settled',
           Ran \ (Settled \cup Queued) \subseteq (Ran \ (Settled \cup Queued))'
    PROVE  Fitting \subseteq Fitting'
  <1>1. Edge' = Edge /\ Item' = Item /\ Gates' = Gates
    BY DEF Edge, Edges, Item, Gates
  <1> QED BY <1>1 DEF Fitting, Fits, Lasting

\* What skip_node and fail_started leave fits, and so does what propagate_outputs leaves.
LEMMA AllFits ==
    ASSUME SchedulerInv, workflow' = workflow, NEW n, n \in Settled'
    PROVE  All(n, "deactivate") \in Seq(Fitting')
  <1>1. [edge : {e \in Edges : Edge[e].from = n}, to : {"deactivate"}] \subseteq Fitting'
    <2>1. Edge' = Edge /\ Item' = Item
      BY DEF Edge, Edges, Item
    <2> QED BY <2>1 DEF Fitting, Fits, Item
  <1> QED BY <1>1, AllFacts, SeqMonotonic DEF SchedulerInv, TypeOK

LEMMA OutputsFit ==
    ASSUME SchedulerInv, workflow' = workflow, NEW n, NEW ports,
           n \in (Ran \ (Settled \cup Queued))'
    PROVE  Outputs(n, ports) \in Seq(Fitting')
  <1>1. Routed(n, ports) \subseteq Fitting'
    <2>1. Edge' = Edge /\ Item' = Item /\ Gates' = Gates
      BY DEF Edge, Edges, Item, Gates
    <2>2. SUFFICES ASSUME NEW x \in Routed(n, ports)
                   PROVE  x \in Fitting'
      OBVIOUS
    <2>3. x \in Item /\ Edge[x.edge].from = n /\ x.to = Change(n, ports, x.edge)
      BY <2>2 DEF Routed
    <2>4. x.to = "clear" => Edge[x.edge].kind = "data"
      BY <2>3 DEF Change
    <2>5. x.to = "deactivate" => ~Lasting(x.edge)
      BY <2>3 DEF Change, Lasting
    <2> QED BY <2>1, <2>3, <2>4, <2>5 DEF Fitting, Fits, Lasting
  <1> QED BY <1>1, OutputsFacts, SeqMonotonic DEF SchedulerInv, TypeOK

LEMMA WorkKept ==
    ASSUME SchedulerInv, Kinds
    PROVE  WorkFits'
  <1>1. workflow' = workflow /\ Settled \subseteq Settled' /\ Ran \subseteq Ran'
    BY Monotone
  <1>2. work \in Seq(Fitting) /\ (work # <<>> => pc \notin {"execute", "finished"})
    BY DEF SchedulerInv, WorkFits
  <1>3. <<>> \in Seq(Fitting')
    OBVIOUS
  <1>4. CASE Quiet
    <2>1. work' = work
      BY <1>4 DEF Quiet
    <2>2. Fitting \subseteq Fitting'
      BY <1>1, <1>4, NodeSets, FittingKept
    <2>3. work' \in Seq(Fitting')
      BY <1>2, <2>1, <2>2, SeqMonotonic
    <2> QED BY <1>2, <1>4, <2>1, <2>3 DEF Quiet, WorkFits
  <1>5. CASE Dropped \/ GivenUp \/ Finish
    <2>1. work' = <<>>
      BY <1>2, <1>5 DEF Dropped, GivenUp, Finish, Pop, At
    <2> QED BY <1>3, <2>1 DEF WorkFits
  <1>6. CASE OnEdge
    <2>1. work # <<>> /\ pc' = pc
      BY <1>6 DEF OnEdge, EmitOn, ClearLatch, Deactivate
    <2>2. Fitting \subseteq Fitting'
      BY <1>1, <1>6, NodeSets, FittingKept DEF OnEdge
    <2>3. Tail(work) \in Seq(Fitting')
      BY <1>2, <2>1, <2>2, HeadTailProperties, SeqMonotonic
    <2>4. CASE work' = Tail(work)
      BY <1>2, <2>1, <2>3, <2>4 DEF WorkFits
    <2>5. CASE work' # Tail(work)
      <3> DEFINE n == Edge[Head(work).edge].to
      <3>1. work' = All(n, "deactivate") \o Tail(work) /\ n \in Settled'
        BY <1>6, <2>5 DEF OnEdge, EmitOn, ClearLatch, Deactivate, Settled
      <3>2. work' \in Seq(Fitting')
        BY <1>1, <2>3, <3>1, AllFits, ConcatProperties
      <3> QED BY <1>2, <2>1, <3>2 DEF WorkFits
    <2> QED BY <2>4, <2>5
  <1>7. ASSUME NEW n \in Nodes, Moved(n) PROVE WorkFits'
    <2>1. CASE Passed(n) \/ Refused(n) \/ Broken(n) \/ GateExpired(n)
      <3>1. work' = All(n, "deactivate") /\ n \in Settled'
        BY <2>1, NodeSets DEF Passed, Refused, Broken, GateExpired, Skip, Fail
      <3>2. pc' \notin {"execute", "finished"}
        BY <2>1 DEF Passed, Refused, Broken, GateExpired
      <3> QED BY <1>1, <3>1, <3>2, AllFits DEF WorkFits
    <2>2. CASE Enqueued(n) \/ Started(n)
      <3>1. work' = <<>>
        BY <2>2 DEF Enqueued, Started, Taken, Pop, At
      <3> QED BY <1>3, <3>1 DEF WorkFits
    <2>3. CASE RoutedOn(n)
      <3>1. n \in (Ran \ (Settled \cup Queued))'
        BY <2>3, NodeSets, TakenFacts DEF RoutedOn
      <3>2. work' \in Seq(Fitting')
        BY <1>1, <2>3, <3>1, OutputsFit DEF RoutedOn
      <3> QED BY <2>3, <3>2 DEF RoutedOn, WorkFits
    <2>4. CASE Finished(n)
      <3>1. n \in Ran \ (Settled \cup Queued)
        BY <2>4, WorkflowAssumption DEF Finished, SchedulerInv, RunFits
      <3>2. n \in (Ran \ (Settled \cup Queued))'
        BY <2>4, <3>1, NodeSets
      <3>3. work' \in Seq(Fitting')
        BY <1>1, <2>4, <3>2, OutputsFit DEF Finished
      <3> QED BY <2>4, <3>3 DEF Finished, WorkFits
    <2> QED BY <1>7, <2>1, <2>2, <2>3, <2>4 DEF Moved
  <1> QED BY <1>4, <1>5, <1>6, <1>7 DEF Kinds

LEMMA RunKept ==
    ASSUME SchedulerInv, Kinds
    PROVE  RunFits'
  <1>1. workflow' = workflow /\ Settled \subseteq Settled' /\ Ran \subseteq Ran'
    BY Monotone
  <1>2. /\ current # NoNode => current \in Ran \ (Settled \cup Queued)
        /\ Ran \cap skipped = {}
        /\ loop # NoLoop => loop.gate \in Ran
        /\ pc = "prepare" => Ran = {} /\ queue = <<>>
        /\ pc = "settle" => \A n \in Nodes : n < cursor => n \in Settled \cup Ran
        /\ current = NoNode <=> pc # "execute"
        /\ cursor \in Nat
    BY DEF SchedulerInv, RunFits, TypeOK
  <1>3. CASE Quiet
    <2>1. Settled' = Settled /\ Ran' = Ran /\ Queued' = Queued /\ skipped' = skipped
      BY <1>3, NodeSets DEF Quiet, outcome
    <2>2. pc' = "settle" => \A n \in Nodes : n < cursor' => n \in Settled' \cup Ran'
      BY <1>2, <1>3, <2>1 DEF Quiet, Nodes
    <2> QED BY <1>2, <1>3, <2>1, <2>2 DEF Quiet, RunFits
  <1>4. CASE Dropped
    <2>1. Ran' = Ran /\ skipped' = skipped /\ pc' = "top" /\ loop' = loop /\ current' = NoNode
      BY <1>4, NodeSets, PopQueue DEF Dropped, outcome
    <2> QED BY <1>2, <2>1 DEF RunFits
  <1>5. CASE GivenUp \/ Finish
    <2>1. Ran' = Ran /\ skipped' = skipped /\ loop' = loop /\ current' = NoNode
          /\ (pc' = "finished" \/ (pc' = "settle" /\ cursor' = 1))
      BY <1>2, <1>5, NodeSets DEF GivenUp, Finish, outcome, At, Goto
    <2> QED BY <1>2, <2>1 DEF RunFits, Nodes
  <1>6. CASE OnEdge
    <2>0. Ran' = Ran /\ \A m \in skipped' : m \in skipped \/ m \notin Ran
      BY <1>6, NodeSets DEF OnEdge, EmitOn, ClearLatch, Deactivate, Unreachable, outcome
    <2>1. work # <<>> /\ pc' = pc /\ cursor' = cursor /\ current' = current /\ loop' = loop /\ queue' = queue
          /\ Ran' = Ran /\ Ran \cap skipped' = {}
      BY <1>2, <1>6, <2>0 DEF OnEdge, EmitOn, ClearLatch, Deactivate
    <2>2. current = NoNode
      BY <1>2, <2>1 DEF SchedulerInv, WorkFits
    <2> QED BY <1>1, <1>2, <2>1, <2>2 DEF RunFits
  <1>7. ASSUME NEW n \in Nodes, Moved(n) PROVE RunFits'
    <2>1. CASE Passed(n)
      <3>1. Settled' = Settled \cup {n} /\ Ran' = Ran /\ skipped' = skipped \cup {n} /\ n \notin Ran
            /\ pc' = pc /\ current' = current /\ loop' = loop /\ queue' = queue /\ cursor = n /\ cursor' = n + 1
            /\ pc # "execute"
        BY <2>1, NodeSets DEF Passed, Skip
      <3>2. \A m \in Nodes : m < n + 1 => m < n \/ m = n
        BY DEF Nodes
      <3> QED BY <1>2, <3>1, <3>2 DEF RunFits
    <2>2. CASE Enqueued(n)
      <3>1. Ran' = Ran /\ skipped' = skipped /\ pc' = "scan" /\ loop' = loop /\ current' = current /\ pc = "scan"
        BY <2>2, NodeSets DEF Enqueued, outcome
      <3> QED BY <1>2, <3>1 DEF RunFits
    <2>3. CASE Started(n)
      <3>1. n \in (Ran \ (Settled \cup Queued))' /\ Ran' = Ran \cup {n}
        BY <2>3, NodeSets, TakenFacts DEF Started
      <3>2. n \notin skipped /\ skipped' = skipped /\ pc' = "execute" /\ loop' = loop /\ current' = n
        BY <2>3 DEF Started, Taken, Settled
      <3> QED BY <1>2, <3>1, <3>2 DEF RunFits
    <2>4. CASE Refused(n) \/ RoutedOn(n)
      <3>1. Ran' = Ran \cup {n} /\ n \notin skipped /\ skipped' = skipped /\ current' = NoNode
        BY <2>4, TakenFacts, PopQueue DEF Refused, RoutedOn, Taken, Settled
      <3>2. pc' = "top" \/ (pc' = "settle" /\ cursor' = 1)
        BY <2>4 DEF Refused, RoutedOn
      <3>3. loop' # NoLoop => loop'.gate \in Ran'
        BY <1>2, <2>4, <3>1 DEF Refused, RoutedOn
      <3> QED BY <1>2, <3>1, <3>2, <3>3 DEF RunFits, Nodes
    <2>5. CASE Finished(n) \/ Broken(n)
      <3>1. Ran' = Ran /\ skipped' = skipped /\ current' = NoNode /\ loop' \in {loop, NoLoop}
            /\ (pc' = "top" \/ (pc' = "settle" /\ cursor' = 1))
        BY <2>5, NodeSets DEF Finished, Broken, outcome
      <3> QED BY <1>2, <3>1 DEF RunFits, Nodes
    <2>6. CASE GateExpired(n)
      <3>1. Ran' = Ran \cup {n} /\ n \in Ran /\ skipped' = skipped /\ current' = current /\ pc = "top"
            /\ loop' = NoLoop /\ pc' = "settle" /\ cursor' = 1
        BY <1>2, <2>6, NodeSets DEF GateExpired
      <3> QED BY <1>2, <3>1 DEF RunFits, Nodes
    <2> QED BY <1>7, <2>1, <2>2, <2>3, <2>4, <2>5, <2>6 DEF Moved
  <1> QED BY <1>3, <1>4, <1>5, <1>6, <1>7 DEF Kinds

LEMMA QueuedOnceKept ==
    ASSUME SchedulerInv, Kinds
    PROVE  QueuedOnce'
  <1>1. queue \in Seq(Nodes) /\ QueuedOnce
    BY DEF SchedulerInv, TypeOK
  <1>2. CASE queue' = queue
    BY <1>1, <1>2 DEF QueuedOnce
  <1>3. CASE Pop
    BY <1>1, <1>3, PopQueue DEF QueuedOnce
  <1>4. ASSUME NEW n \in Nodes, Enqueued(n) PROVE QueuedOnce'
    <2>1. queue' = Append(queue, n) /\ n \notin Queued
      BY <1>4 DEF Enqueued
    <2>2. /\ Len(queue') = Len(queue) + 1 /\ Len(queue) \in Nat
          /\ \A i \in 1..Len(queue) : queue'[i] = queue[i] /\ queue[i] # n
          /\ queue'[Len(queue) + 1] = n
      BY <1>1, <2>1, AppendProperties, LenProperties DEF Queued
    <2>3. \A i \in 1..Len(queue') : i \in 1..Len(queue) \/ i = Len(queue) + 1
      BY <2>2
    <2> QED BY <1>1, <2>2, <2>3 DEF QueuedOnce
  <1>5. Kinds => queue' = queue \/ Pop \/ \E n \in Nodes : Enqueued(n)
    BY DEF Kinds, Moved, OnEdge, Quiet, Dropped, GivenUp, Finish, EmitOn, ClearLatch, Deactivate, Passed,
           Started, Refused, RoutedOn, Taken, Finished, Broken, GateExpired
  <1> QED BY <1>2, <1>3, <1>4, <1>5

\* A source that is neither settled nor in front keeps a node alive as long as that
\* stays true of it.
LEMMA UnreadKept ==
    ASSUME workflow' = workflow, NEW n, NEW i, NEW k, Unread(n, i),
           DataIn(n) \cap fresh \subseteq fresh',
           \A m \in Ran \ Settled :
               /\ m # current /\ (\A j \in 1..(i - 1) : queue[j] # m)
               => /\ m \in Ran' \ Settled' /\ m # current' /\ \A j \in 1..(k - 1) : queue'[j] # m
    PROVE  Unread(n, k)'
  <1>1. In(n)' = In(n) /\ DataIn(n)' = DataIn(n) /\ Edge' = Edge
    BY DEF In, ControlIn, DataIn, Edges, Edge
  <1>2. CASE DataIn(n) \cap fresh # {}
    BY <1>1, <1>2 DEF Unread
  <1>3. CASE DataIn(n) \cap fresh = {}
    <2>1. PICK e \in In(n) : /\ Edge[e].from \in Ran \ Settled
                             /\ Edge[e].from # current
                             /\ \A j \in 1..(i - 1) : queue[j] # Edge[e].from
      BY <1>3 DEF Unread
    <2>2. /\ Edge[e].from \in Ran' \ Settled' /\ Edge[e].from # current'
          /\ \A j \in 1..(k - 1) : queue'[j] # Edge[e].from
      BY <2>1
    <2> QED BY <1>1, <2>2 DEF Unread
  <1> QED BY <1>2, <1>3

LEMMA QueuedIsAliveKept ==
    ASSUME SchedulerInv, Kinds
    PROVE  QueuedIsAlive'
  <1> SUFFICES ASSUME pc' \in {"top", "scan", "execute"}, NEW k \in 1..Len(queue'),
                      NEW n, n = queue'[k], n \in Ran', ~HasControl(n)'
               PROVE  Unread(n, k)'
    BY DEF QueuedIsAlive
  <1>1. workflow' = workflow /\ Settled \subseteq Settled' /\ Ran \subseteq Ran'
    BY Monotone
  <1>2. queue \in Seq(Nodes) /\ Len(queue) \in Nat
    BY LenProperties DEF SchedulerInv, TypeOK
  <1>3. ASSUME n \in triggers' <=> n \in triggers
        PROVE  ~HasControl(n)
    BY <1>1, <1>3 DEF HasControl, ControlIn, In, Edges, Edge
  <1>4. ASSUME NEW i \in 1..Len(queue), n = queue[i], n \in Ran, ~HasControl(n),
               pc \in {"top", "scan", "execute"}
        PROVE  Unread(n, i)
    BY <1>4 DEF SchedulerInv, QueuedIsAlive
  <1>5. pc \in {"top", "scan", "execute"} \/ queue = <<>>
    <2>1. pc # "settle" /\ pc # "finished"
      BY DEF Kinds, Moved, OnEdge, Quiet, Dropped, GivenUp, Finish, EmitOn, ClearLatch, Deactivate, Passed,
             Enqueued, Started, Refused, RoutedOn, Taken, Finished, Broken, GateExpired, Pop, At, Goto,
             SchedulerInv, WorkFits
    <2> QED BY <2>1 DEF SchedulerInv, TypeOK, RunFits
  <1>6. ASSUME queue' = queue, Ran' = Ran, triggers' = triggers
        PROVE  Unread(n, k)
    <2>1. k \in 1..Len(queue) /\ n = queue[k] /\ n \in Ran /\ ~HasControl(n) /\ queue # <<>>
      BY <1>2, <1>3, <1>6
    <2> QED BY <1>4, <1>5, <2>1
  \* Only the node itself, or one in front of it, may settle or start to run.
  <1>7. CASE queue' = queue /\ Ran' = Ran /\ triggers' = triggers /\ fresh \subseteq fresh'
             /\ Settled' \cap Ran \subseteq Settled \cup {current} /\ current' \in {current, NoNode}
    <2>1. NoNode \notin Ran
      BY WorkflowAssumption DEF Ran
    <2> QED BY <1>1, <1>6, <1>7, <2>1, UnreadKept
  <1>8. CASE Pop /\ flow' = flow /\ Ran' = Ran /\ Settled' = Settled /\ current' = current
    <2>1. k + 1 \in 1..Len(queue) /\ n = queue[k + 1] /\ pc \in {"top", "scan", "execute"}
          /\ \A j \in 1..(k - 1) : queue'[j] = queue[j + 1] /\ j + 1 \in 1..k
      BY <1>8, PopQueue
    <2>2. Unread(n, k + 1)
      BY <1>3, <1>4, <1>8, <2>1 DEF flow
    <2> QED BY <1>1, <1>8, <2>1, <2>2, UnreadKept DEF flow
  \* A value that is taken back was written by a node that ran and is not queued.
  <1>9. CASE ClearLatch
    <2> DEFINE e == Head(work).edge
    <2>1. /\ work # <<>> /\ fresh \ {e} \subseteq fresh' /\ current' = current /\ queue' = queue
          /\ (fresh' # fresh => Head(work).to = "clear") /\ triggers' = triggers
          /\ Ran' = Ran /\ Settled' = Settled
      BY <1>9, NodeSets DEF ClearLatch
    <2>2. CASE fresh' = fresh \/ e \notin DataIn(n)
      <3>1. DataIn(n) \cap fresh \subseteq fresh'
        BY <2>1, <2>2
      <3>2. Unread(n, k)
        BY <1>6, <2>1
      <3> QED BY <1>1, <2>1, <3>1, <3>2, UnreadKept
    <2>3. CASE fresh' # fresh /\ e \in DataIn(n)
      <3>1. Head(work) \in Fitting /\ Head(work).to = "clear" /\ current = NoNode
        BY <2>1, <2>3, HeadTailProperties DEF SchedulerInv, WorkFits, TypeOK
      <3>2. Edge[e].from \in Ran \ (Settled \cup Queued)
        BY <3>1 DEF Fitting, Fits
      <3>3. NoNode \notin Ran
        BY WorkflowAssumption DEF Ran
      <3>4. \A j \in 1..(k - 1) : j \in 1..Len(queue)
        BY <1>2, <2>1
      <3>5. \A j \in 1..(k - 1) : queue'[j] # Edge[e].from
        BY <2>1, <3>2, <3>4 DEF Queued
      <3>6. e \in In(n)' /\ Edge' = Edge
        BY <1>1, <2>3 DEF DataIn, In, Edges, Edge
      <3>7. /\ Edge'[e].from \in Ran' \ Settled'
            /\ Edge'[e].from # current'
        BY <2>1, <3>1, <3>2, <3>3, <3>6
      <3> QED BY <3>5, <3>6, <3>7 DEF Unread
    <2> QED BY <2>2, <2>3
  <1>10. ASSUME NEW m \in Nodes, Enqueued(m) PROVE Unread(n, k)'
    <2>1. /\ queue' = Append(queue, m) /\ UNCHANGED <<current, flow, outcome>> /\ pc = "scan"
          /\ Evaluate(m, inactive) = "go" /\ Settled' = Settled /\ Ran' = Ran
      BY <1>10, NodeSets DEF Enqueued
    <2>2. /\ Len(queue') = Len(queue) + 1 /\ queue'[Len(queue) + 1] = m
          /\ \A i \in 1..Len(queue) : queue'[i] = queue[i]
      BY <1>2, <2>1, AppendProperties
    <2>3. ~HasControl(n)
      BY <1>3, <2>1 DEF flow
    <2>4. CASE k \in 1..Len(queue)
      <3>1. Unread(n, k)
        BY <1>4, <2>1, <2>2, <2>3, <2>4
      <3>2. \A j \in 1..(k - 1) : queue'[j] = queue[j]
        BY <1>2, <2>2, <2>4
      <3> QED BY <1>1, <2>1, <3>1, <3>2, UnreadKept DEF flow
    <2>5. CASE k \notin 1..Len(queue)
      <3>1. n = m
        BY <1>2, <2>2, <2>5
      <3>2. DataIn(n) \cap fresh # {}
        BY <2>1, <2>3, <3>1 DEF Evaluate, CanGo
      <3>3. DataIn(n)' = DataIn(n) /\ fresh' = fresh
        BY <1>1, <2>1 DEF DataIn, ControlIn, In, Edges, Edge, flow
      <3> QED BY <3>2, <3>3 DEF Unread
    <2> QED BY <2>4, <2>5
  <1>11. ASSUME NEW m \in Nodes, Taken(m), current' \in {current, m}, Settled' \subseteq Settled \cup {m}
         PROVE  Unread(n, k)'
    <2>1. /\ k + 1 \in 1..Len(queue) /\ n = queue[k + 1] /\ n \in Queued' /\ m = queue[1] /\ pc = "scan"
          /\ \A j \in 1..(k - 1) : queue'[j] = queue[j + 1] /\ j + 1 \in 1..k
          /\ 1 \in 1..k
      BY <1>11, PopQueue DEF Taken, Queued
    <2>2. n # m /\ Ran' = Ran \cup {m}
      BY <1>11, <2>1, TakenFacts
    <2>3. ~HasControl(n)
      BY <1>3, <1>11, <2>2 DEF Taken, Consume
    <2>4. Unread(n, k + 1)
      BY <1>4, <2>1, <2>2, <2>3
    <2>5. DataIn(n) \cap fresh \subseteq fresh'
      BY <1>11, <2>2, InputsApart DEF Taken, Consume, DataIn
    <2>6. \A x \in Ran \ Settled :
              x # current /\ (\A j \in 1..k : queue[j] # x) =>
                  x \in Ran' \ Settled' /\ x # current' /\ \A j \in 1..(k - 1) : queue'[j] # x
      BY <1>11, <2>1, <2>2
    <2>7. (k + 1) - 1 = k
      OBVIOUS
    <2> QED BY <1>1, <2>4, <2>5, <2>6, <2>7, UnreadKept
  <1>12. ASSUME NEW m \in Nodes, Moved(m) PROVE Unread(n, k)'
    <2>1. CASE Passed(m)
      BY <1>7, <2>1, NodeSets DEF Passed, flow
    <2>2. CASE Enqueued(m)
      BY <1>10, <2>2
    <2>3. CASE Started(m) \/ Refused(m) \/ RoutedOn(m)
      BY <1>11, <2>3, NodeSets DEF Started, Refused, RoutedOn
    <2>4. CASE Finished(m) \/ Broken(m)
      BY <1>7, <2>4, NodeSets DEF Finished, Broken, flow
    <2>5. CASE GateExpired(m)
      BY <2>5 DEF GateExpired
    <2> QED BY <1>12, <2>1, <2>2, <2>3, <2>4, <2>5 DEF Moved
  <1>13. CASE Quiet \/ EmitOn \/ Deactivate
    BY <1>7, <1>13, NodeSets DEF Quiet, EmitOn, Deactivate, flow
  <1>14. CASE Dropped
    BY <1>8, <1>14, NodeSets DEF Dropped
  <1>15. CASE GivenUp \/ Finish
    BY <1>15 DEF GivenUp, Finish, Goto
  <1> QED BY <1>9, <1>12, <1>13, <1>14, <1>15 DEF Kinds, OnEdge

LEMMA SchedulerInvInductive ==
    /\ Init => SchedulerInv
    /\ SchedulerInv /\ [Next]_vars => SchedulerInv'
  <1>1. ASSUME Init PROVE SchedulerInv
    <2>1. TypeOK
      BY <1>1, TypeInitial
    <2>2. Ran = {} /\ Queued = {} /\ Settled = {} /\ queue = <<>> /\ Len(queue) = 0 /\ work = <<>>
      BY <1>1 DEF Init, Ran, Queued, Settled
    <2>3. NeverBlocked
      <3>1. \A n : In(n) # {} => Evaluate(n, {}) # "blocked"
        BY DEF Evaluate
      <3>2. \A n : In(n) = {} => Evaluate(n, {}) # "blocked"
        BY DEF Evaluate
      <3> QED BY <1>1, <3>1, <3>2 DEF Init, NeverBlocked
    <2>4. WorkFits
      BY <2>2, EmptySeq DEF WorkFits
    <2>5. LastingDiesWithSource /\ SkippedForReason /\ RunFits /\ QueuedOnce /\ QueuedIsAlive
      BY <1>1, <2>2 DEF Init, LastingDiesWithSource, SkippedForReason, RunFits, QueuedOnce, QueuedIsAlive
    <2> QED BY <2>1, <2>3, <2>4, <2>5 DEF SchedulerInv
  <1>2. ASSUME SchedulerInv, [Next]_vars PROVE SchedulerInv'
    <2>1. Kinds
      BY <1>2, StepKinds
    <2>2. TypeOK'
      BY <1>2, TypeInductive DEF SchedulerInv
    <2> QED BY <1>2, <2>1, <2>2, NeverBlockedKept, LastingKept, SkippedKept, WorkKept, RunKept, QueuedOnceKept,
               QueuedIsAliveKept DEF SchedulerInv
  <1> QED BY <1>1, <1>2

-------------------------------------------------------------------------------
(* The theorems *)

(* Between two steps of the main loop no node that never ran is unreachable and not yet    *)
(* skipped, for any workflow, cyclic or not, and any order of failures, cancellations and  *)
(* time-outs (deactivate_edge and skip_node, control_flow.rs).                             *)
THEOREM CascadeEnds == Spec => []CascadeIsComplete
  <1>1. SchedulerInv => CascadeIsComplete
    BY DEF SchedulerInv, NeverBlocked, CascadeIsComplete
  <1> QED BY <1>1, SchedulerInvInductive, PTL DEF Spec

(* The exit edge of a loop stays pending until the gate emits it, whatever became of the    *)
(* body: no edge of an enabled gate dies before the gate does, and no node that such a gate *)
(* alone feeds is skipped while the run goes on (the comment in propagate_outputs).         *)
THEOREM ExitIsPending == Spec => []ExitStaysPending
  <1>1. SchedulerInv => ExitStaysPending
    BY DEF SchedulerInv, LastingDiesWithSource, Lasting, SkippedForReason, ExitStaysPending
  <1> QED BY <1>1, SchedulerInvInductive, PTL DEF Spec

\* The contract sees one node at a time.
LEMMA OneNodeMoves ==
    ASSUME NEW n \in Nodes, NEW p, progress'[n] = p,
           \A m \in Nodes \ {n} : progress'[m] = progress[m]
    PROVE  Contract!Becomes(n, p)
  <1>1. progress = [m \in Nodes |-> progress[m]] /\ progress' = [m \in Nodes |-> progress'[m]]
    BY DEF progress
  <1>2. progress' = [progress EXCEPT ![n] = p]
    BY <1>1
  <1> QED BY <1>2 DEF Contract!Becomes

LEMMA NobodyRunsBetween == current = NoNode => Contract!NobodyRuns
  BY WorkflowAssumption DEF Contract!NobodyRuns, progress

LEMMA StepKeepsContract ==
    SchedulerInv /\ Kinds => [Contract!Next]_(Contract!vars)
  <1> SUFFICES ASSUME SchedulerInv, Kinds PROVE [Contract!Next]_(Contract!vars)
    OBVIOUS
  <1> DEFINE Untouched(n) == \A m \in Nodes \ {n} :
                 /\ m \in failed' <=> m \in failed
                 /\ m \in skipped' <=> m \in skipped
                 /\ m \in Ran' <=> m \in Ran
                 /\ m = current' <=> m = current
  <1>0. /\ current # NoNode => current \in Ran \ Settled
        /\ current = NoNode <=> pc # "execute"
        /\ Ran \cap skipped = {}
        /\ work # <<>> => pc \notin {"execute", "finished"}
        /\ NoNode \notin Nodes
    BY WorkflowAssumption DEF SchedulerInv, RunFits, TypeOK, WorkFits
  <1>1. ASSUME NEW n \in Nodes, NEW p, Untouched(n), progress'[n] = p
        PROVE  Contract!Becomes(n, p)
    <2>1. \A m \in Nodes \ {n} : progress'[m] = progress[m]
      BY <1>1 DEF progress
    <2> QED BY <1>1, <2>1, OneNodeMoves
  <1>2. ASSUME failed' = failed, skipped' = skipped, Ran' = Ran, current' = current,
               pc' = pc \/ (pc # "finished" /\ pc' # "finished")
        PROVE  UNCHANGED Contract!vars
    BY <1>2 DEF progress, Contract!vars
  <1>3. CASE Quiet \/ Dropped \/ EmitOn \/ ClearLatch
    <2>1. failed' = failed /\ skipped' = skipped /\ Ran' = Ran /\ current' = current
      BY <1>3, NodeSets DEF Quiet, Dropped, EmitOn, ClearLatch, outcome
    <2>2. pc' = pc \/ (pc # "finished" /\ pc' # "finished")
      BY <1>3 DEF Quiet, Dropped, EmitOn, ClearLatch, Pop, At
    <2> QED BY <1>2, <2>1, <2>2
  \* A node is passed over, by the loops over all nodes or by the cascade.
  <1>4. ASSUME NEW n \in Nodes \ (Settled \cup Ran), current = NoNode, pc' = pc, pc # "finished",
               skipped' = skipped \cup {n}, failed' = failed, Ran' = Ran, current' = current
        PROVE  Contract!Skip(n)
    <2>1. progress[n] = "unreached" /\ progress'[n] = "skipped"
      BY <1>0, <1>4 DEF progress, Settled
    <2>2. Contract!Becomes(n, "skipped")
      BY <1>1, <1>4, <2>1
    <2> QED BY <1>4, <2>1, <2>2, NobodyRunsBetween DEF Contract!Skip
  <1>5. CASE Deactivate
    <2> DEFINE n == Edge[Head(work).edge].to
    <2>1. /\ work # <<>> /\ pc' = pc /\ failed' = failed /\ current' = current /\ Ran' = Ran
      BY <1>5, NodeSets DEF Deactivate
    <2>2. CASE skipped' = skipped
      BY <1>2, <2>1, <2>2
    <2>3. CASE skipped' # skipped
      <3>1. skipped' = skipped \cup {n} /\ n \notin Settled \cup Ran
        BY <1>5, <2>3 DEF Deactivate, Unreachable
      <3>2. n \in Nodes
        BY <2>1, WorkTail, WorkflowFacts DEF SchedulerInv, TypeOK
      <3>3. Contract!Skip(n)
        BY <1>0, <1>4, <2>1, <3>1, <3>2
      <3> QED BY <3>2, <3>3 DEF Contract!Next
    <2> QED BY <2>2, <2>3
  <1>6. ASSUME NEW n \in Nodes, Passed(n) PROVE Contract!Skip(n)
    BY <1>0, <1>4, <1>6, NodeSets DEF Passed, Skip
  <1>7. ASSUME NEW n \in Nodes, Enqueued(n) PROVE UNCHANGED Contract!vars
    BY <1>2, <1>7, NodeSets DEF Enqueued, outcome
  \* What is taken has not settled, and nobody runs.
  <1>8. ASSUME NEW n \in Nodes, Taken(n)
        PROVE  /\ current = NoNode /\ pc = "scan" /\ Contract!NobodyRuns
               /\ progress[n] \in {"unreached", "ran"} /\ Ran' = Ran \cup {n}
    <2>1. current = NoNode /\ pc = "scan" /\ n \notin Settled /\ Ran' = Ran \cup {n}
      BY <1>8, PopQueue, TakenFacts DEF Taken
    <2> QED BY <1>0, <2>1, NobodyRunsBetween DEF progress, Settled
  <1>9. ASSUME NEW n \in Nodes, Started(n) PROVE Contract!Start(n)
    <2>1. /\ current = NoNode /\ pc = "scan" /\ pc' = "execute" /\ Contract!NobodyRuns
          /\ progress[n] \in {"unreached", "ran"}
          /\ Ran' = Ran \cup {n} /\ failed' = failed /\ skipped' = skipped /\ current' = n
          /\ n \notin Settled
      BY <1>8, <1>9 DEF Started, Taken
    <2>2. progress'[n] = "running"
      BY <2>1 DEF progress, Settled
    <2>3. Contract!Becomes(n, "running")
      BY <1>0, <1>1, <2>1, <2>2
    <2> QED BY <2>1, <2>3 DEF Contract!Start
  <1>10. ASSUME NEW n \in Nodes, Refused(n) PROVE Contract!Handle(n)
    <2>1. /\ current = NoNode /\ pc = "scan" /\ pc' # "finished" /\ Contract!NobodyRuns
          /\ progress[n] \in {"unreached", "ran"}
          /\ Ran' = Ran \cup {n} /\ failed' = failed \cup {n} /\ skipped' = skipped /\ current' = NoNode
      BY <1>8, <1>10 DEF Refused, Fail
    <2>2. progress'[n] = "failed"
      BY <2>1 DEF progress
    <2>3. Contract!Becomes(n, "failed")
      BY <1>0, <1>1, <2>1, <2>2
    <2> QED BY <2>1, <2>3 DEF Contract!Handle
  <1>11. ASSUME NEW n \in Nodes, RoutedOn(n) PROVE Contract!Handle(n)
    <2>1. /\ current = NoNode /\ pc = "scan" /\ pc' # "finished" /\ Contract!NobodyRuns
          /\ progress[n] \in {"unreached", "ran"} /\ n \notin Settled
          /\ Ran' = Ran \cup {n} /\ failed' = failed /\ skipped' = skipped /\ current' = NoNode
      BY <1>8, <1>11 DEF RoutedOn, Taken
    <2>2. progress'[n] = "ran"
      BY <1>0, <2>1 DEF progress, Settled
    <2>3. Contract!Becomes(n, "ran")
      BY <1>0, <1>1, <2>1, <2>2
    <2> QED BY <2>1, <2>3 DEF Contract!Handle
  \* The executor's node ran, has not settled, and is the one that runs.
  <1>12. ASSUME NEW n \in Nodes, n = current, current' = NoNode, pc = "execute", pc' # "finished",
                Ran' = Ran, skipped' = skipped, failed' \in {failed, failed \cup {n}}
         PROVE  Contract!Leave(n)
    <2>1. n \in Ran \ Settled /\ progress[n] = "running"
      BY <1>0, <1>12 DEF progress, Settled
    <2>2. progress'[n] \in {"ran", "failed"}
      BY <1>0, <1>12, <2>1 DEF progress, Settled
    <2>3. Contract!Becomes(n, "ran") \/ Contract!Becomes(n, "failed")
      BY <1>0, <1>1, <1>12, <2>2
    <2> QED BY <1>12, <2>1, <2>3 DEF Contract!Leave
  <1>13. ASSUME NEW n \in Nodes, Finished(n) \/ Broken(n) PROVE Contract!Leave(n)
    BY <1>12, <1>13, NodeSets DEF Finished, Broken, Fail, outcome
  <1>14. CASE GivenUp
    <2>1. current \in Nodes
      BY <1>14 DEF GivenUp, SchedulerInv, TypeOK
    <2>2. Contract!Leave(current)
      BY <1>12, <1>14, <2>1, NodeSets DEF GivenUp, outcome
    <2> QED BY <2>1, <2>2 DEF Contract!Next
  \* The gate of a loop past its deadline ran; it may have failed before.
  <1>15. ASSUME NEW n \in Nodes, GateExpired(n)
         PROVE  Contract!Handle(n) \/ UNCHANGED Contract!vars
    <2>1. /\ n \in Ran \ skipped /\ current = NoNode /\ current' = NoNode /\ pc = "top" /\ pc' = "settle"
          /\ Ran' = Ran \cup {n} /\ failed' = failed \cup {n} /\ skipped' = skipped
      BY <1>0, <1>15, NodeSets DEF GateExpired, Fail, SchedulerInv, RunFits
    <2>2. CASE n \in failed
      <3>1. failed' = failed /\ Ran' = Ran
        BY <2>1, <2>2
      <3> QED BY <1>2, <2>1, <3>1
    <2>3. CASE n \notin failed
      <3>1. progress[n] = "ran" /\ progress'[n] = "failed"
        BY <1>0, <2>1, <2>3 DEF progress
      <3>2. Contract!Becomes(n, "failed")
        BY <1>0, <1>1, <2>1, <3>1
      <3> QED BY <2>1, <3>1, <3>2, NobodyRunsBetween DEF Contract!Handle
    <2> QED BY <2>2, <2>3
  \* Whoever was not skipped by the last loop ran or had settled.
  <1>16. CASE Finish
    <2>1. /\ current = NoNode /\ current' = NoNode /\ pc' = "finished"
          /\ Ran' = Ran /\ failed' = failed /\ skipped' = skipped
          /\ pc = "settle" /\ cursor > NodeCount
      BY <1>0, <1>16, NodeSets DEF Finish, outcome, At, Goto
    <2>2. \A n \in Nodes : n \in Settled \cup Ran
      <3>1. \A n \in Nodes : n < cursor
        BY <2>1, WorkflowAssumption DEF Nodes, SchedulerInv, TypeOK
      <3> QED BY <2>1, <3>1 DEF SchedulerInv, RunFits
    <2>3. \A n \in Nodes : progress[n] # "unreached"
      BY <2>2 DEF progress, Settled
    <2>4. progress' = progress
      BY <2>1 DEF progress
    <2>5. Contract!End
      BY <2>1, <2>3, <2>4, NobodyRunsBetween DEF Contract!End
    <2> QED BY <2>5 DEF Contract!Next
  <1>17. ASSUME NEW n \in Nodes, Moved(n) PROVE [Contract!Next]_(Contract!vars)
    BY <1>6, <1>7, <1>9, <1>10, <1>11, <1>13, <1>15, <1>17 DEF Moved, Contract!Next
  <1> QED BY <1>3, <1>5, <1>14, <1>16, <1>17 DEF Kinds, OnEdge

(* The scheduler implements NodeProgress: one node runs at a time, a failure is final, a    *)
(* node that ran is dormant and never reported skipped (the comment in enqueue_ready), and  *)
(* the run ends only when every node is accounted for; for any workflow and any budget.     *)
THEOREM RunKeepsContract == Spec => KeepsContract
  <1>1. Init => Contract!Init
    <2> SUFFICES ASSUME Init PROVE Contract!Init
      OBVIOUS
    <2>1. failed = {} /\ skipped = {} /\ current = NoNode /\ Ran = {} /\ pc = "prepare"
      BY DEF Init, Ran
    <2>2. progress = [n \in Nodes |-> "unreached"]
      BY <2>1, WorkflowAssumption DEF progress
    <2> QED BY <2>1, <2>2 DEF Contract!Init
  <1>2. SchedulerInv /\ [Next]_vars => [Contract!Next]_(Contract!vars)
    BY StepKinds, StepKeepsContract
  <1> QED BY <1>1, <1>2, SchedulerInvInductive, PTL DEF Spec, KeepsContract, Contract!Spec
===============================================================================
