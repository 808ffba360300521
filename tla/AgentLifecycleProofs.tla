------------------------- MODULE AgentLifecycleProofs -------------------------
(***************************************************************************)
(* Theorems about AgentLifecycle, for any set of agents and any budgets.   *)
(*                                                                         *)
(*   TypeCorrect        Spec => []TypeOK                                   *)
(*   PauseIsHonoured    Spec => []PauseBeforeActing                        *)
(*   ShownStatesAreReal Spec => []ShownStateIsReal                         *)
(***************************************************************************)
EXTENDS AgentLifecycle, SequenceTheorems, TLAPS

\* The tool budget was tested and nothing was spent since, at the third safe
\* point and behind it; this is what bounds the counter that authorize raises.
CallAllowed ==
    /\ pc = "authorize" => calls < MaxToolCalls
    /\ pc \in {"safe", "parking", "parked", "woken"} /\ at = "tool" => calls < MaxToolCalls

TypeInv == TypeOK /\ CallAllowed

\* update_session_state always finds a state, whatever the instances show.
LEMMA SessionTyped ==
    ASSUME NEW st
    PROVE  SessionOf(st) \in States
  <1> DEFINE Present == {i \in 1..Len(Priority) : \E a \in Agents : st[a] = Priority[i]}
  <1>1. CASE Present = {}
    BY <1>1 DEF SessionOf, States, Terminal
  <1>2. CASE Present # {}
    <2>1. \E i \in Present : \A j \in Present : i <= j
      BY <1>2 DEF Priority
    <2> QED BY <2>1, <1>2 DEF SessionOf, States, Terminal, Priority, Active
  <1> QED BY <1>1, <1>2

\* set_instance_state and finish_activation give an instance and its current
\* record a state of the right type, and touch no other instance.
LEMMA SetStateTyped ==
    ASSUME TypeOK, NEW a \in Agents, NEW st \in Active \cup Terminal, SetState(a, st)
    PROVE  /\ state' \in [Agents -> States \cup {"unregistered"}]
           /\ records' \in [Agents -> Seq(Active \cup Terminal)]
           /\ session' \in States
           /\ state'[a] = st
           /\ \A b \in Agents : b # a => state'[b] = state[b]
  <1> USE DEF TypeOK
  <1>1. /\ state' \in [Agents -> States \cup {"unregistered"}]
        /\ state'[a] = st
        /\ \A b \in Agents : b # a => state'[b] = state[b]
    BY DEF SetState, States
  <1>2. records' \in [Agents -> Seq(Active \cup Terminal)]
    <2>1. CASE records[a] = <<>>
      BY <2>1 DEF SetState, SetRecord
    <2>2. CASE records[a] # <<>>
      <3> DEFINE k == Len(records[a])
      <3>1. records[a] \in Seq(Active \cup Terminal) /\ k \in 1..Len(records[a])
        BY <2>2, EmptySeq
      <3>2. [records[a] EXCEPT ![k] = st] \in Seq(Active \cup Terminal)
        BY <3>1, ExceptSeq
      <3>3. records' = [records EXCEPT ![a] = [records[a] EXCEPT ![k] = st]]
        BY <2>2 DEF SetState, SetRecord
      <3> QED BY <3>2, <3>3
    <2> QED BY <2>1, <2>2
  <1>3. session' \in States
    BY SessionTyped DEF SetState
  <1> QED BY <1>1, <1>2, <1>3

-------------------------------------------------------------------------------
(* Type correctness *)

\* The initial state is well typed.
LEMMA TypeInit == Init => TypeInv
  <1> SUFFICES ASSUME Init PROVE TypeInv
    OBVIOUS
  <1>1. <<>> \in Seq(Active \cup Terminal)
    BY EmptySeq
  <1>2. /\ iterations \in 0..MaxIterations /\ calls \in 0..MaxToolCalls
        /\ repairs \in 0..1 /\ invalid \in 0..1
    BY BudgetAssumption DEF Init
  <1>3. held \in BOOLEAN /\ runCancelled \in BOOLEAN
    BY DEF Init
  <1>4. paused \in [Agents -> BOOLEAN] /\ cancelled \in [Agents -> BOOLEAN]
    BY DEF Init
  <1>5. /\ state \in [Agents -> States \cup {"unregistered"}]
        /\ records \in [Agents -> Seq(Active \cup Terminal)]
        /\ session \in States
    BY <1>1 DEF Init, States
  <1> QED BY <1>2, <1>3, <1>4, <1>5 DEF Init, TypeInv, TypeOK, CallAllowed, Labels

\* The locals of a new activation.
LEMMA FreshTyped ==
    ASSUME FreshLocals
    PROVE  /\ at' = "top" /\ answer' = "rest" /\ verdict' = "failed"
           /\ iterations' \in 0..MaxIterations /\ calls' \in 0..MaxToolCalls
           /\ repairs' \in 0..1 /\ invalid' \in 0..1
           /\ held' \in BOOLEAN
  <1>1. held' \in BOOLEAN
    BY DEF FreshLocals
  <1> QED BY <1>1, BudgetAssumption DEF FreshLocals

\* The runner's steps.
LEMMA TypeRunner ==
    ASSUME TypeInv, Computes \/ Awaits \/ Schedules \/ DropCancelled
    PROVE  TypeInv'
  <1> USE BudgetAssumption DEF TypeInv, TypeOK, CallAllowed, Labels, Goto, Keep, FailWith, Counters,
          registry, flags
  <1>1. CASE StartActivation
    <2>1. records' \in [Agents -> Seq(Active \cup Terminal)]
      <3>1. "running" \in Active \cup Terminal
        BY DEF Active
      <3>2. Append(records[agent], "running") \in Seq(Active \cup Terminal)
        BY <3>1, AppendProperties
      <3> QED BY <1>1, <3>2 DEF StartActivation
    <2>2. session' \in States
      BY <1>1, SessionTyped DEF StartActivation
    <2>3. state' \in [Agents -> States \cup {"unregistered"}]
      BY <1>1 DEF StartActivation, States, Active
    <2> QED BY <1>1, <2>1, <2>2, <2>3 DEF StartActivation
  <1>2. CASE BuildInput
    BY <1>2 DEF BuildInput
  <1>3. CASE FinishActivation
    <2>1. PICK st \in Active \cup Terminal : SetState(agent, st)
      BY <1>3 DEF FinishActivation, Terminal
    <2>2. /\ state' \in [Agents -> States \cup {"unregistered"}]
          /\ records' \in [Agents -> Seq(Active \cup Terminal)]
          /\ session' \in States
      BY <2>1, SetStateTyped
    <2> QED BY <1>3, <2>2, FreshTyped DEF FinishActivation
  <1>4. CASE EnsureActive
    BY <1>4 DEF EnsureActive
  <1>5. CASE PassSafePoint
    BY <1>5 DEF PassSafePoint, AfterSafePoint
  <1>6. CASE Seen
    BY <1>6 DEF Seen
  <1>7. CASE Park
    <2>1. /\ state' \in [Agents -> States \cup {"unregistered"}]
          /\ records' \in [Agents -> Seq(Active \cup Terminal)]
          /\ session' \in States
      BY <1>7, SetStateTyped DEF Park, Active
    <2> QED BY <1>7, <2>1 DEF Park
  <1>8. CASE Wake
    BY <1>8 DEF Wake
  <1>9. CASE LeaveSafePoint
    <2>1. /\ state' \in [Agents -> States \cup {"unregistered"}]
          /\ records' \in [Agents -> Seq(Active \cup Terminal)]
          /\ session' \in States
      BY <1>9, SetStateTyped DEF LeaveSafePoint, Active
    <2> QED BY <1>9, <2>1 DEF LeaveSafePoint, AfterSafePoint
  <1>10. CASE CheckBudget
    BY <1>10 DEF CheckBudget
  <1>11. CASE ActOnProse
    BY <1>11 DEF ActOnProse
  <1>12. CASE SubmitResult
    BY <1>12 DEF SubmitResult
  <1>13. CASE CallTool
    BY <1>13 DEF CallTool
  <1>14. CASE NoMoreCalls
    BY <1>14 DEF NoMoreCalls
  <1>15. CASE AuthorizeTool
    <2>1. /\ state' \in [Agents -> States \cup {"unregistered"}]
          /\ records' \in [Agents -> Seq(Active \cup Terminal)]
          /\ session' \in States
      BY <1>15, SetStateTyped DEF AuthorizeTool, Active
    <2> QED BY <1>15, <2>1 DEF AuthorizeTool
  <1>16. CASE Setup
    BY <1>16 DEF Setup
  <1>17. CASE ModelAnswers
    BY <1>17 DEF ModelAnswers
  <1>18. CASE ApprovalResolved
    <2>1. /\ state' \in [Agents -> States \cup {"unregistered"}]
          /\ records' \in [Agents -> Seq(Active \cup Terminal)]
          /\ session' \in States
      BY <1>18, SetStateTyped DEF ApprovalResolved, Active
    <2> QED BY <1>18, <2>1 DEF ApprovalResolved
  <1>19. CASE ToolFinishes
    BY <1>19 DEF ToolFinishes
  <1>20. CASE DropTimedOut \/ DropCancelled
    <2>1. pc' \in {"over", "idle"} /\ Drop
      BY <1>20 DEF DropTimedOut, DropCancelled
    <2>2. dropped' \in [Agents -> {"parked", "approval", "none"}]
      BY <2>1 DEF Drop
    <2> QED BY <2>1, <2>2, FreshTyped DEF Drop
  <1>21. CASE EndRun
    BY <1>21 DEF EndRun
  <1>22. CASE \E a \in Agents : RegisterInstance(a)
    BY <1>22 DEF RegisterInstance, States
  <1> QED
    BY <1>1, <1>2, <1>3, <1>4, <1>5, <1>6, <1>7, <1>8, <1>9, <1>10, <1>11, <1>12, <1>13, <1>14,
       <1>15, <1>16, <1>17, <1>18, <1>19, <1>20, <1>21, <1>22
    DEF Computes, Awaits, Schedules

\* The steps of the main thread.
LEMMA TypeCommands ==
    ASSUME TypeInv, Commands
    PROVE  TypeInv'
  <1> USE DEF TypeInv, TypeOK, CallAllowed, Keep, Counters, runner, registry, flags, NoCommand
  <1>1. CASE \E a \in Agents : PauseAgent(a) \/ ResumeAgent(a) \/ CancelAgent(a)
    <2>1. held' \in BOOLEAN
      BY <1>1 DEF PauseAgent, ResumeAgent, CancelAgent
    <2>2. paused' \in [Agents -> BOOLEAN] /\ cancelled' \in [Agents -> BOOLEAN]
      BY <1>1 DEF PauseAgent, ResumeAgent, CancelAgent
    <2>3. command' \in {NoCommand} \cup [op : {"pausing", "resuming", "resumed"}, on : Agents]
      BY <1>1 DEF PauseAgent, ResumeAgent, CancelAgent
    <2>4. UNCHANGED <<registry, runCancelled, runner, dropped>>
      BY <1>1 DEF PauseAgent, ResumeAgent, CancelAgent
    <2> QED BY <2>1, <2>2, <2>3, <2>4
  <1>2. CASE ShowPausing
    <2>1. command.on \in Agents
      BY <1>2 DEF ShowPausing
    <2>2. /\ state' \in [Agents -> States \cup {"unregistered"}]
          /\ records' \in [Agents -> Seq(Active \cup Terminal)]
          /\ session' \in States
      BY <1>2, <2>1, SetStateTyped DEF ShowPausing, Active
    <2> QED BY <1>2, <2>2 DEF ShowPausing
  <1>3. CASE ReadState
    BY <1>3 DEF ReadState
  <1>4. CASE ShowRunning
    <2>1. command.on \in Agents
      BY <1>4 DEF ShowRunning
    <2>2. /\ state' \in [Agents -> States \cup {"unregistered"}]
          /\ records' \in [Agents -> Seq(Active \cup Terminal)]
          /\ session' \in States
      BY <1>4, <2>1, SetStateTyped DEF ShowRunning, Active
    <2> QED BY <1>4, <2>2 DEF ShowRunning
  <1>5. CASE StopWorkflow
    BY <1>5 DEF StopWorkflow
  <1> QED BY <1>1, <1>2, <1>3, <1>4, <1>5 DEF Commands

LEMMA TypeInductive ==
    /\ Init => TypeInv
    /\ TypeInv /\ [Next]_vars => TypeInv'
  <1>1. ASSUME TypeInv, UNCHANGED vars
        PROVE  TypeInv'
    BY <1>1 DEF TypeInv, TypeOK, CallAllowed, vars, registry, flags, runner, Counters
  <1> QED BY <1>1, TypeInit, TypeRunner, TypeCommands DEF Next

\* The variables keep their types; in particular no activation exceeds its
\* iteration, tool, repair and submission budgets, whatever commands arrive.
THEOREM TypeCorrect == Spec => []TypeOK
  <1>1. TypeInv => TypeOK
    BY DEF TypeInv
  <1> QED BY <1>1, TypeInductive, PTL DEF Spec

-------------------------------------------------------------------------------
(* Pauses *)

\* What PauseBeforeActing rests on.  While held is TRUE nobody has resumed the
\* agent, so its flag is still set; the runner stands at a safe point, and if it
\* has left the wait it is because somebody cancelled, which is final.
PauseInv ==
    held => /\ paused[agent]
            /\ pc \in {"safe", "parking", "parked", "woken", "failing"}
            /\ pc = "woken" => Stopped

\* A cancelled agent stays cancelled and a stopped run stopped.
LEMMA StoppedIsFinal ==
    ASSUME TypeOK, [Next]_vars, Stopped, agent' = agent
    PROVE  Stopped'
  <1>1. CASE \E a \in Agents : CancelAgent(a)
    BY <1>1 DEF CancelAgent, Stopped, Keep, TypeOK, runner
  <1>2. CASE StopWorkflow
    BY <1>2 DEF StopWorkflow, Stopped
  <1>3. ASSUME ~(\E a \in Agents : CancelAgent(a)), ~StopWorkflow
        PROVE  UNCHANGED <<cancelled, runCancelled>>
    <2>1. CASE Commands
      BY <1>3, <2>1
      DEF Commands, PauseAgent, ResumeAgent, ShowPausing, ReadState, ShowRunning, Keep, flags
    <2>2. CASE Computes
      BY <2>2
      DEF Computes, StartActivation, BuildInput, FinishActivation, EnsureActive, PassSafePoint,
          Seen, Park, Wake, LeaveSafePoint, CheckBudget, ActOnProse, SubmitResult, CallTool,
          NoMoreCalls, AuthorizeTool, Keep, flags
    <2>3. CASE Awaits \/ Schedules \/ DropCancelled
      BY <2>3
      DEF Awaits, Schedules, Setup, ModelAnswers, ApprovalResolved, ToolFinishes, DropTimedOut,
          DropCancelled, Drop, RegisterInstance, EndRun, Keep, flags
    <2>4. CASE UNCHANGED vars
      BY <2>4 DEF vars, flags
    <2> QED BY <2>1, <2>2, <2>3, <2>4 DEF Next
  <1> QED BY <1>1, <1>2, <1>3 DEF Stopped

\* Init and every action keep PauseInv.
LEMMA PauseInductive ==
    /\ Init => PauseInv
    /\ TypeInv /\ PauseInv /\ [Next]_vars => PauseInv'
  <1>1. Init => PauseInv
    BY DEF Init, PauseInv
  <1>2. ASSUME TypeInv, PauseInv, [Next]_vars
        PROVE  PauseInv'
    <2> SUFFICES ASSUME held'
                 PROVE  /\ paused'[agent']
                        /\ pc' \in {"safe", "parking", "parked", "woken", "failing"}
                        /\ pc' = "woken" => Stopped'
      BY DEF PauseInv
    <2> USE <1>2 DEF TypeInv, TypeOK, PauseInv, Goto, Keep, FailWith, registry, flags
    <2>1. CASE held /\ Commands
      <3>1. UNCHANGED <<agent, pc>> /\ paused'[agent]
        <4>1. CASE \E a \in Agents : PauseAgent(a)
          BY <2>1, <4>1 DEF PauseAgent, runner
        <4>2. CASE \E a \in Agents : ResumeAgent(a)
          BY <2>1, <4>2 DEF ResumeAgent, runner
        <4>3. CASE \E a \in Agents : CancelAgent(a)
          BY <2>1, <4>3 DEF CancelAgent, runner
        <4>4. CASE ShowPausing \/ ReadState \/ ShowRunning \/ StopWorkflow
          BY <2>1, <4>4 DEF ShowPausing, ReadState, ShowRunning, StopWorkflow, runner
        <4> QED BY <2>1, <4>1, <4>2, <4>3, <4>4 DEF Commands
      <3> QED BY <2>1, <3>1, StoppedIsFinal
    <2>2. CASE ~held /\ Commands
      BY <2>2
      DEF Commands, PauseAgent, ResumeAgent, CancelAgent, ShowPausing, ReadState, ShowRunning,
          StopWorkflow
    <2>3. CASE ModelAnswers \/ CallTool
      <3>1. pc \in {"model", "act"} /\ pc' \in {"safe", "failing"} /\ UNCHANGED <<agent, paused>>
        BY <2>3 DEF ModelAnswers, CallTool
      <3>2. ~held
        BY <3>1
      <3>3. paused[agent]
        BY <2>3, <3>2 DEF ModelAnswers, CallTool
      <3> QED BY <3>1, <3>3
    <2>4. ASSUME Computes \/ Schedules \/ Setup \/ ApprovalResolved \/ ToolFinishes,
                 ~FinishActivation, ~CallTool
          PROVE  /\ UNCHANGED <<held, paused>>
                 /\ pc # "idle" => UNCHANGED agent
      <3>1. CASE Computes
        BY <2>4, <3>1
        DEF Computes, StartActivation, BuildInput, EnsureActive, PassSafePoint, Seen, Park,
            Wake, LeaveSafePoint, CheckBudget, ActOnProse, SubmitResult, NoMoreCalls,
            AuthorizeTool
      <3>2. CASE Schedules
        BY <3>2 DEF Schedules, RegisterInstance, EndRun
      <3>3. CASE Setup \/ ApprovalResolved \/ ToolFinishes
        BY <3>3 DEF Setup, ApprovalResolved, ToolFinishes
      <3> QED BY <2>4, <3>1, <3>2, <3>3
    <2>5. CASE FinishActivation \/ DropTimedOut \/ DropCancelled
      BY <2>5 DEF FinishActivation, DropTimedOut, DropCancelled, Drop, FreshLocals
    <2>6. ASSUME Computes \/ Schedules \/ Setup \/ ApprovalResolved \/ ToolFinishes,
                 ~FinishActivation, ~CallTool
          PROVE  /\ paused'[agent']
                 /\ pc' \in {"safe", "parking", "parked", "woken", "failing"}
                 /\ pc' = "woken" => Stopped'
      <3>1. /\ held /\ paused[agent]
            /\ pc \in {"safe", "parking", "parked", "woken", "failing"}
            /\ pc = "woken" => Stopped
            /\ UNCHANGED <<agent, paused>>
        BY <2>4, <2>6
      <3>2. Seen \/ Park \/ Wake \/ LeaveSafePoint
        BY <2>6, <3>1
        DEF Computes, StartActivation, BuildInput, EnsureActive, PassSafePoint, CheckBudget,
            ActOnProse, SubmitResult, NoMoreCalls, AuthorizeTool, Schedules,
            RegisterInstance, EndRun, Setup, ApprovalResolved, ToolFinishes
      <3>3. CASE Seen
        BY <3>1, <3>3 DEF Seen
      <3>4. CASE Park
        BY <3>1, <3>4 DEF Park
      <3>5. CASE Wake
        <4>1. pc' = "woken" /\ Stopped
          BY <3>1, <3>5 DEF Wake
        <4> QED BY <3>1, <4>1, StoppedIsFinal
      <3>6. CASE LeaveSafePoint
        BY <3>1, <3>6 DEF LeaveSafePoint
      <3> QED BY <3>2, <3>3, <3>4, <3>5, <3>6
    <2>7. CASE UNCHANGED vars
      <3>1. UNCHANGED <<agent, pc, held, paused, cancelled, runCancelled>>
        BY <2>7 DEF vars, runner
      <3> QED BY <3>1 DEF Stopped
    <2> QED BY <2>1, <2>2, <2>3, <2>5, <2>6, <2>7 DEF Next, Awaits
  <1> QED BY <1>1, <1>2

\* A pause that was requested while the model worked is honoured before anything
\* the model said is acted on.
THEOREM PauseIsHonoured == Spec => []PauseBeforeActing
  <1>1. PauseInv => PauseBeforeActing
    BY DEF PauseInv, PauseBeforeActing
  <1> QED BY <1>1, TypeInductive, PauseInductive, PTL DEF Spec

-------------------------------------------------------------------------------
(* What the workbench shows *)

\* While an agent works nothing is remembered of a drop: it is that of an earlier
\* activation, or of this one when it is over.
NothingDropped == pc \notin {"idle", "registered", "over"} => dropped[agent] = "none"

ShownInv == ShownStateIsReal /\ NothingDropped

\* To show anything but "paused" and "waiting_approval" is safe for the runner's
\* own agent wherever the runner goes next, and for any agent while it stands still.
LEMMA ShowsRunning ==
    ASSUME TypeOK, ShownStateIsReal, NEW a \in Agents,
           NEW st \in (Active \cup Terminal) \ {"paused", "waiting_approval"}, SetState(a, st),
           UNCHANGED dropped, a = agent \/ UNCHANGED <<agent, pc, runCancelled>>
    PROVE  ShownStateIsReal'
  <1>1. /\ state'[a] = st
        /\ \A b \in Agents : b # a => state'[b] = state[b]
    BY SetStateTyped
  <1>2. CASE a = agent
    BY <1>1, <1>2 DEF ShownStateIsReal
  <1>3. CASE UNCHANGED <<agent, pc, runCancelled>>
    BY <1>1, <1>3 DEF ShownStateIsReal
  <1> QED BY <1>2, <1>3

\* Init and every action keep ShownInv.
LEMMA ShownInductive ==
    /\ Init => ShownInv
    /\ TypeInv /\ ShownInv /\ [Next]_vars => ShownInv'
  <1>1. Init => ShownInv
    BY DEF Init, ShownInv, ShownStateIsReal, NothingDropped
  <1>2. ASSUME TypeInv, ShownInv, [Next]_vars
        PROVE  ShownStateIsReal'
    <2> USE <1>2 DEF TypeInv, ShownInv, Goto, Keep, FailWith, flags
    <2>1. CASE StartActivation
      BY <2>1 DEF StartActivation, ShownStateIsReal, TypeOK
    <2>2. CASE FinishActivation
      <3>1. agent \in Agents /\ verdict \in {"failed", "cancelled"}
        BY DEF TypeOK
      <3>2. PICK st \in Terminal : SetState(agent, st)
        BY <2>2, <3>1 DEF FinishActivation, Terminal
      <3>3. st \in (Active \cup Terminal) \ {"paused", "waiting_approval"}
        BY DEF Terminal
      <3>4. UNCHANGED dropped
        BY <2>2 DEF FinishActivation
      <3> QED BY <3>1, <3>2, <3>3, <3>4, ShowsRunning
    <2>3. CASE Park
      <3>1. agent \in Agents /\ pc' = "parked" /\ UNCHANGED <<agent, dropped>>
        BY <2>3 DEF Park, TypeOK
      <3>2. /\ state'[agent] = "paused"
            /\ \A b \in Agents : b # agent => state'[b] = state[b]
        BY <2>3, <3>1, SetStateTyped DEF Park, Active
      <3> QED BY <3>1, <3>2 DEF ShownStateIsReal
    <2>4. CASE LeaveSafePoint
      <3>1. CASE Stopped
        BY <2>4, <3>1 DEF LeaveSafePoint, ShownStateIsReal, registry
      <3>2. CASE ~Stopped
        <4>1. agent \in Agents /\ SetState(agent, "running") /\ UNCHANGED dropped
          BY <2>4, <3>2 DEF LeaveSafePoint, TypeOK
        <4> QED BY <4>1, ShowsRunning DEF Active
      <3> QED BY <3>1, <3>2
    <2>5. CASE AuthorizeTool
      <3>1. agent \in Agents /\ UNCHANGED <<agent, dropped>>
        BY <2>5 DEF AuthorizeTool, TypeOK
      <3>2. CASE UNCHANGED registry
        BY <2>5, <3>1, <3>2 DEF AuthorizeTool, ShownStateIsReal, registry
      <3>3. CASE pc' = "approval" /\ SetState(agent, "waiting_approval")
        <4>1. /\ state'[agent] = "waiting_approval"
              /\ \A b \in Agents : b # agent => state'[b] = state[b]
          BY <3>1, <3>3, SetStateTyped DEF Active
        <4> QED BY <2>5, <3>1, <3>3, <4>1 DEF AuthorizeTool, ShownStateIsReal
      <3> QED BY <2>5, <3>2, <3>3 DEF AuthorizeTool
    <2>6. CASE ApprovalResolved
      <3>1. CASE runCancelled
        BY <2>6, <3>1 DEF ApprovalResolved, ShownStateIsReal, registry
      <3>2. CASE ~runCancelled
        <4>1. agent \in Agents /\ SetState(agent, "running") /\ UNCHANGED dropped
          BY <2>6, <3>2 DEF ApprovalResolved, TypeOK
        <4> QED BY <4>1, ShowsRunning DEF Active
      <3> QED BY <3>1, <3>2
    <2>7. CASE \E a \in Agents : RegisterInstance(a)
      BY <2>7 DEF RegisterInstance, ShownStateIsReal, TypeOK
    <2>8. CASE \/ BuildInput \/ EnsureActive \/ PassSafePoint \/ Seen \/ Wake \/ CheckBudget
               \/ ActOnProse \/ SubmitResult \/ CallTool \/ NoMoreCalls
      BY <2>8
      DEF BuildInput, EnsureActive, PassSafePoint, Seen, Wake, CheckBudget, ActOnProse,
          SubmitResult, CallTool, NoMoreCalls, ShownStateIsReal, registry
    <2>9. CASE Setup \/ ModelAnswers \/ ToolFinishes \/ EndRun
      BY <2>9 DEF Setup, ModelAnswers, ToolFinishes, EndRun, ShownStateIsReal, registry
    <2>10. CASE ShowPausing \/ ShowRunning
      <3>1. command \in [op : {"pausing", "resuming", "resumed"}, on : Agents]
        BY <2>10 DEF ShowPausing, ShowRunning, TypeOK, NoCommand
      <3>2. PICK st \in {"pausing", "running"} : SetState(command.on, st)
        BY <2>10 DEF ShowPausing, ShowRunning
      <3>3. UNCHANGED <<agent, pc, runCancelled, dropped>>
        BY <2>10 DEF ShowPausing, ShowRunning, runner, flags
      <3>4. st \in (Active \cup Terminal) \ {"paused", "waiting_approval"}
        BY <3>2 DEF Active
      <3> QED BY <3>1, <3>2, <3>3, <3>4, ShowsRunning
    <2>11. CASE \/ \E a \in Agents : PauseAgent(a) \/ ResumeAgent(a) \/ CancelAgent(a)
                \/ ReadState \/ StopWorkflow
      BY <2>11
      DEF PauseAgent, ResumeAgent, CancelAgent, ReadState, StopWorkflow, ShownStateIsReal,
          registry, runner
    <2>12. CASE UNCHANGED vars
      BY <2>12 DEF vars, ShownStateIsReal, registry, runner
    \* What was dropped is remembered with the place where it was.
    <2>13. CASE DropTimedOut \/ DropCancelled
      <3>1. /\ agent \in Agents /\ dropped \in [Agents -> {"parked", "approval", "none"}]
            /\ pc \in Awaiting
        BY <2>13 DEF TypeOK, DropTimedOut, DropCancelled
      <3>2. UNCHANGED <<state, agent, runCancelled>>
        BY <2>13 DEF DropTimedOut, DropCancelled, Drop, registry
      <3>3. /\ dropped'[agent] = IF pc \in {"parked", "approval"} THEN pc ELSE "none"
            /\ \A b \in Agents : b # agent => dropped'[b] = dropped[b]
        BY <2>13, <3>1 DEF DropTimedOut, DropCancelled, Drop
      <3> QED BY <3>1, <3>2, <3>3 DEF ShownStateIsReal, NothingDropped, Awaiting
    <2> QED
      BY <2>1, <2>2, <2>3, <2>4, <2>5, <2>6, <2>7, <2>8, <2>9, <2>10, <2>11, <2>12, <2>13
      DEF Next, Commands, Computes, Awaits, Schedules
  <1>3. ASSUME TypeInv, ShownInv, [Next]_vars
        PROVE  NothingDropped'
    <2> USE <1>3 DEF TypeInv, ShownInv, NothingDropped, Goto, Keep, FailWith
    <2>1. CASE StartActivation
      BY <2>1 DEF StartActivation, TypeOK
    <2>2. CASE (Computes /\ ~StartActivation) \/ Setup \/ ModelAnswers \/ ApprovalResolved \/ ToolFinishes
      <3>1. UNCHANGED <<agent, dropped>> /\ pc \notin {"idle", "registered", "over"}
        BY <2>2
        DEF Computes, BuildInput, FinishActivation, EnsureActive, PassSafePoint, Seen, Park,
            Wake, LeaveSafePoint, CheckBudget, ActOnProse, SubmitResult, CallTool, NoMoreCalls,
            AuthorizeTool, Setup, ModelAnswers, ApprovalResolved, ToolFinishes
      <3> QED BY <3>1
    <2>3. CASE DropTimedOut \/ DropCancelled \/ Schedules
      <3>1. pc' \in {"idle", "registered", "over"}
        BY <2>3 DEF DropTimedOut, DropCancelled, Schedules, RegisterInstance, EndRun
      <3> QED BY <3>1
    <2>4. CASE Commands \/ UNCHANGED vars
      <3>1. UNCHANGED <<agent, pc, dropped>>
        BY <2>4
        DEF Commands, PauseAgent, ResumeAgent, CancelAgent, ShowPausing, ReadState, ShowRunning,
            StopWorkflow, vars, runner
      <3> QED BY <3>1
    <2> QED BY <2>1, <2>2, <2>3, <2>4 DEF Next, Awaits
  <1> QED BY <1>1, <1>2, <1>3 DEF ShownInv

\* An agent is shown as paused, or as waiting for an approval, only where its
\* runner stands, or where its last activation was dropped, at which the bus is not
\* told anything, also when the run goes on after the time-out of a composite.
THEOREM ShownStatesAreReal == Spec => []ShownStateIsReal
  <1>1. ShownInv => ShownStateIsReal
    BY DEF ShownInv
  <1> QED BY <1>1, TypeInductive, ShownInductive, PTL DEF Spec
===============================================================================
