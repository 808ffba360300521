----------------------------- MODULE NodeProgress -----------------------------
(***************************************************************************)
(* What a run promises about its nodes, whatever path executes it: at most *)
(* one node runs at a time, a node that was passed over never ran and      *)
(* never will, a failure is final, and the run ends only when every node   *)
(* is accounted for.  This is the contract behind the NodeStarted,         *)
(* NodeFinished, NodeFailed, NodeSkipped and RunFinished events.           *)
(***************************************************************************)
CONSTANT Nodes

VARIABLES
    progress,   \* [Nodes -> where the node stands]
    over        \* RunFinished has been emitted

vars == <<progress, over>>

Progress == {"unreached", "running", "ran", "failed", "skipped"}

NobodyRuns == \A n \in Nodes : progress[n] # "running"
Becomes(n, p) == progress' = [progress EXCEPT ![n] = p]

Init == progress = [n \in Nodes |-> "unreached"] /\ over = FALSE

\* A node starts, for the first time or again.
Start(n) ==
    /\ ~over /\ NobodyRuns
    /\ progress[n] \in {"unreached", "ran"}
    /\ Becomes(n, "running")
    /\ UNCHANGED over

\* It finishes, fails, or is given up because the run is cancelled.
Leave(n) ==
    /\ progress[n] = "running"
    /\ Becomes(n, "ran") \/ Becomes(n, "failed")
    /\ UNCHANGED over

\* The engine handles a control node, or refuses a node, without a wait.
Handle(n) ==
    /\ ~over /\ NobodyRuns
    /\ progress[n] \in {"unreached", "ran"}
    /\ Becomes(n, "ran") \/ Becomes(n, "failed")
    /\ UNCHANGED over

Skip(n) ==
    /\ ~over /\ NobodyRuns
    /\ progress[n] = "unreached"
    /\ Becomes(n, "skipped")
    /\ UNCHANGED over

End ==
    /\ NobodyRuns
    /\ \A n \in Nodes : progress[n] # "unreached"
    /\ over' = TRUE
    /\ UNCHANGED progress

Next == (\E n \in Nodes : Start(n) \/ Leave(n) \/ Handle(n) \/ Skip(n)) \/ End

Spec == Init /\ [][Next]_vars

\* The run is refused before its first node, or given up between two nodes.
Abandon == NobodyRuns /\ over' = TRUE /\ UNCHANGED progress
CancellableSpec == Init /\ [][Next \/ Abandon]_vars
===============================================================================
