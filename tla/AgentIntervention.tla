--------------------------- MODULE AgentIntervention ---------------------------
(***************************************************************************)
(* Interventions in a running agent: configuration revisions and           *)
(* directives.  The main thread runs apply_agent_config,                   *)
(* reject_agent_config and send_agent_directive (commands.rs, agent_bus.rs *)
(* apply_config, reject_config, intervention); the runner takes what they  *)
(* left at the top of its loop (agent_runner.rs apply_pending_config and   *)
(* drain_directives).  One agent: instances share nothing of this state.   *)
(*                                                                         *)
(* A configuration is a revision number and a body, the fields that        *)
(* AgentConfigSnapshot::diff compares.  The message a directive also sends *)
(* is in MessageBus; the pauses and failures of the runner are in          *)
(* AgentLifecycle and appear here as "the activation may end".             *)
(***************************************************************************)
EXTENDS Integers, Sequences

CONSTANTS
    Bodies,         \* configurations the user may apply, and the node's own
    NodeBody,       \* what the node's parameters and inputs say
    NoConfig,       \* the empty pending slot
    MaxRevisions,   \* bound: revisions applied in a run
    MaxDirectives   \* bound: directives waiting at once

ASSUME InterventionAssumption ==
    /\ NodeBody \in Bodies
    /\ NoConfig \notin [rev : Nat, body : Bodies]
    /\ MaxRevisions \in Nat /\ MaxDirectives \in Nat

VARIABLES
    config,      \* instance.config, what the session shows
    revisions,   \* instance.config_revisions: number, body, status
    pending,     \* AgentRuntime.pending_config
    directives,  \* how many directives wait in AgentRuntime.directives
    running,     \* the runner's own copy of the configuration
    taken,       \* the snapshot apply_pending_config took, or NoConfig
    pc,          \* where the runner is
    offer        \* the snapshot apply_config has still to leave, or NoConfig

registry == <<config, revisions>>
runner == <<running, taken, pc>>
interventionVars == <<registry, pending, directives, runner, offer>>

Configs == [rev : Nat, body : Bodies]
RevisionStatus == {"pending", "superseded", "applied", "rejected"}

\* Iterator::find on config_revisions: the first entry with that number.
First(n) ==
    CHOOSE i \in 1..Len(revisions) :
        revisions[i].rev = n /\ \A j \in 1..(i - 1) : revisions[j].rev # n

Known(n) == \E i \in 1..Len(revisions) : revisions[i].rev = n

InterventionInit ==
    /\ config = [rev |-> 0, body |-> NodeBody]
    /\ revisions = <<>>
    /\ pending = NoConfig
    /\ directives = 0
    /\ running = [rev |-> 0, body |-> NodeBody]
    /\ taken = NoConfig
    /\ pc = "off"
    /\ offer = NoConfig

(***************************************************************************)
(* The runner.                                                             *)
(***************************************************************************)
\* Variant for the sensitivity of NeverFallsBack: an activation registers its configuration again.
StartActivationAfresh ==
    /\ pc = "off"
    /\ running' = [rev |-> 0, body |-> NodeBody]
    /\ config' = running'
    /\ pc' = "top"
    /\ UNCHANGED <<revisions, pending, directives, taken, offer>>

\* agent_node.rs execute: every activation starts from the node's own
\* configuration; a second one leaves instance.config as it is.
StartActivation ==
    /\ pc = "off"
    /\ running' = [rev |-> 0, body |-> NodeBody]
    /\ pc' = "top"
    /\ UNCHANGED <<registry, pending, directives, taken, offer>>

\* Variant for the sensitivity of InterventionTypeOK: an empty slot is taken for a configuration.
TakeAnything ==
    /\ pc = "top"
    /\ taken' = pending
    /\ pending' = NoConfig
    /\ pc' = "mark"
    /\ UNCHANGED <<registry, directives, running, offer>>

\* Variant for the sensitivity of PendingIsTaken: directives go first and the slot is not read.
TakeNothing ==
    /\ pc = "top"
    /\ pc' = "drain"
    /\ UNCHANGED <<registry, pending, directives, running, taken, offer>>

TakePending ==
    /\ pc = "top"
    /\ taken' = pending
    /\ pending' = NoConfig
    /\ pc' = IF pending = NoConfig THEN "drain" ELSE "mark"
    /\ UNCHANGED <<registry, directives, running, offer>>

MarkConfigApplied ==
    /\ pc = "mark" /\ Known(taken.rev)
    /\ LET i == First(taken.rev)
       IN /\ revisions' = [revisions EXCEPT ![i].status = "applied"]
          /\ config' = [rev |-> revisions[i].rev, body |-> revisions[i].body]
    /\ running' = config'
    /\ taken' = NoConfig
    /\ pc' = "drain"
    /\ UNCHANGED <<pending, directives, offer>>

DrainDirectives ==
    /\ pc = "drain"
    /\ directives' = 0
    /\ pc' = "model"
    /\ UNCHANGED <<registry, pending, running, taken, offer>>

\* The model has answered and the runner is at its second safe point.
ModelAnswers ==
    /\ pc = "model"
    /\ pc' = "answered"
    /\ UNCHANGED <<registry, pending, directives, running, taken, offer>>

\* Tools and a result are acted on.
ActOnAnswer ==
    /\ pc = "answered"
    /\ pc' = "acting"
    /\ UNCHANGED <<registry, pending, directives, running, taken, offer>>

NextIteration ==
    /\ pc = "acting"
    /\ pc' = "top"
    /\ UNCHANGED <<registry, pending, directives, running, taken, offer>>

\* A result, an error, a budget, a cancellation, a dropped future.
EndActivation ==
    /\ pc \in {"top", "drain", "model", "answered", "acting"}
    /\ pc' = "off"
    /\ UNCHANGED <<registry, pending, directives, running, taken, offer>>

(***************************************************************************)
(* The main thread.                                                        *)
(***************************************************************************)
\* Variant for the sensitivity of OnlyNewestPending: the older revision keeps its status.
NotSuperseded(r) == r

Superseded(r) == IF r.status = "pending" THEN [r EXCEPT !.status = "superseded"] ELSE r

\* Variant for the sensitivity of OnItsWayIsKnown: the number of the configuration in force is used again.
SameRevision == config.rev

NextRevision == config.rev + 1

\* apply_config under the mutex: number after the configuration in force,
\* supersede what is pending, record the new revision ...
ApplyConfig(body, expected) ==
    /\ offer = NoConfig /\ Len(revisions) < MaxRevisions
    /\ expected = config.rev
    /\ body # config.body
    /\ LET n == NextRevision
       IN /\ revisions' = Append([i \in 1..Len(revisions) |-> Superseded(revisions[i])],
                                 [rev |-> n, body |-> body, status |-> "pending"])
          /\ offer' = [rev |-> n, body |-> body]
    /\ UNCHANGED <<config, pending, directives, runner>>

\* ... and, the mutex released, leave the snapshot for the runner.
SetPendingConfig ==
    /\ offer # NoConfig
    /\ pending' = offer
    /\ offer' = NoConfig
    /\ UNCHANGED <<registry, directives, runner>>

\* A stale expectation or an empty diff: an error and no change.
RefuseConfig(body, expected) ==
    /\ offer = NoConfig
    /\ expected # config.rev \/ body = config.body
    /\ UNCHANGED interventionVars

\* reject_config: the first entry with that number, whatever its status.
RejectConfig(n) ==
    /\ offer = NoConfig /\ Known(n)
    /\ revisions' = [revisions EXCEPT ![First(n)].status = "rejected"]
    /\ UNCHANGED <<config, pending, directives, runner, offer>>

QueueDirective ==
    /\ offer = NoConfig /\ directives < MaxDirectives
    /\ directives' = directives + 1
    /\ UNCHANGED <<registry, pending, runner, offer>>

Commands ==
    \/ \E body \in Bodies, n \in 0..MaxRevisions : ApplyConfig(body, n) \/ RefuseConfig(body, n)
    \/ SetPendingConfig
    \/ \E n \in 1..MaxRevisions : RejectConfig(n)
    \/ QueueDirective

Runner ==
    \/ TakePending \/ MarkConfigApplied \/ DrainDirectives
    \/ ModelAnswers \/ ActOnAnswer \/ NextIteration \/ EndActivation

InterventionNext == StartActivation \/ Runner \/ Commands

InterventionSpec == InterventionInit /\ [][InterventionNext]_interventionVars

\* What waits: a request to a provider, the safe points before an answer is acted
\* on and before the next request (a pause holds the runner there), and tools.
Waits == ModelAnswers \/ ActOnAnswer \/ NextIteration

\* The runner is a task, so what it does without waiting is weakly fair.
FairSpec == InterventionSpec /\ WF_interventionVars(TakePending \/ MarkConfigApplied \/ DrainDirectives)

-------------------------------------------------------------------------------
(* Properties *)

InterventionTypeOK ==
    /\ config \in Configs
    /\ revisions \in Seq([rev : Nat, body : Bodies, status : RevisionStatus])
    /\ pending \in Configs \cup {NoConfig}
    /\ directives \in 0..MaxDirectives
    /\ running \in Configs
    /\ taken \in Configs \cup {NoConfig}
    /\ pc \in {"off", "top", "mark", "drain", "model", "answered", "acting"}
    /\ offer \in Configs \cup {NoConfig}
    /\ pc = "mark" => taken # NoConfig

\* However applications, rejections and the runner interleave, one revision at
\* most is waiting to be applied, and it is the newest.
OnlyNewestPending ==
    \A i \in 1..Len(revisions) : revisions[i].status = "pending" => i = Len(revisions)

\* What is on its way to the runner (being left, waiting, or taken) carries a
\* number that the session knows, so mark_config_applied always finds it; numbers
\* never decrease along the history and run at most one ahead of what is in force.
OnItsWayIsKnown ==
    /\ \A c \in {offer, pending, taken} : c # NoConfig => Known(c.rev)
    /\ \A i, j \in 1..Len(revisions) : i < j => revisions[i].rev <= revisions[j].rev
    /\ \A i \in 1..Len(revisions) : revisions[i].rev \in 1..(config.rev + 1)

\* The session never falls back to an older configuration.
NeverFallsBack == [][config'.rev >= config.rev]_interventionVars

\* If what the runner waits for comes (the provider and the tools answer, nobody
\* leaves the agent paused), a pending configuration is picked up in the same
\* activation, however many revisions replace it, unless the activation ends first.
PendingIsTaken ==
    WF_interventionVars(Waits) => ((pending # NoConfig /\ pc # "off") ~> (taken # NoConfig \/ pc = "off"))

-------------------------------------------------------------------------------
(* What the phase 1.6 design says and the code does not do *)

\* Section 8.3: the pending configuration is what the runner applies at the next
\* safe point.  Two revisions made before it looks share a number, and the lookup
\* finds the superseded one.
AppliesWhatItTook == [][pc = "mark" => running'.body = taken.body]_interventionVars
===============================================================================
