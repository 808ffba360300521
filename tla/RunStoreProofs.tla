---------------------------- MODULE RunStoreProofs ----------------------------
(***************************************************************************)
(* Theorems about RunStore, for any bounds: whatever fails, and wherever   *)
(* the process dies,                                                       *)
(*                                                                         *)
(*   FaithfulLog     Spec => []LogIsFaithful                               *)
(*   AgreeingStatus  Spec => []StatusIsTheLog                              *)
(*   FinalHistory    Spec => HistoryIsFinal                                *)
(*   NothingIsAlive  Spec => []NothingLooksAlive                           *)
(*   TypeCorrect     Spec => []TypeOK                                      *)
(***************************************************************************)
EXTENDS RunStore, SequenceTheorems, TLAPS

Entry == [seq : Nat, what : Events \cup {"interrupted"}]

LogTypes ==
    /\ status \in Over \cup {"absent", "running"}
    /\ log \in Seq(Entry)
    /\ emitted \in Seq(Events)

\* While a task works its run is running, and without a task nothing is sent.
TaskFits ==
    /\ pc \in Running \cup {"created"} => status = "running"
    /\ pc \notin Running \cup {"ending"} => sending = NoEvent
    /\ proc # "up" => pc = "absent"

\* The event on its way to the log is the last one that was numbered.
SendingLast ==
    sending.stage = "append" =>
        /\ status = "running"
        /\ emitted # <<>>
        /\ sending.seq = Len(emitted) - 1
        /\ sending.what = emitted[Len(emitted)]
        /\ sending.what \in Final => pc = "ending"

LogInv == LogTypes /\ LogIsFaithful /\ StatusIsTheLog /\ TaskFits /\ SendingLast

USE DEF Over, Final, Events, Running

\* The log at its start.
LEMMA LogInit == Init => LogInv
  <1> SUFFICES ASSUME Init PROVE LogInv
    OBVIOUS
  <1>1. <<>> \in Seq(Entry) /\ <<>> \in Seq(Events) /\ Len(<<>>) = 0
    BY EmptySeq
  <1> QED BY <1>1 DEF Init, LogInv, LogTypes, LogIsFaithful, StatusIsTheLog, TaskFits,
                      SendingLast, NoEvent

\* A step that neither numbers, nor sends, nor stores an event.
LEMMA QuietStep ==
    ASSUME LogInv, UNCHANGED <<status, log, lastSeq, emitted>>,
           \/ sending' = sending /\ pc' = pc
           \/ sending' = sending /\ sending = NoEvent /\ (pc' \in Running \cup {"created"} => status = "running")
           \/ sending'.stage # "append" /\ pc' = pc /\ pc \in Running \cup {"ending"},
           proc' # "up" => pc' = "absent"
    PROVE  LogInv'
  <1>1. LogTypes' /\ LogIsFaithful' /\ StatusIsTheLog'
    BY DEF LogInv, LogTypes, LogIsFaithful, StatusIsTheLog
  <1>2. TaskFits'
    BY DEF LogInv, TaskFits
  <1>3. SendingLast'
    BY DEF LogInv, SendingLast, NoEvent
  <1> QED BY <1>1, <1>2, <1>3 DEF LogInv

\* The task numbers an event and hands it to the sink.
LEMMA EmitStep ==
    ASSUME LogInv, NEW what \in Events, NEW next \in Running \cup {"ending"},
           what \in Final <=> next = "ending",
           pc \in Running, Emit(what, next), UNCHANGED <<status, log, lastSeq, proc>>
    PROVE  LogInv'
  <1>1. /\ emitted' \in Seq(Events) /\ Len(emitted') = Len(emitted) + 1
        /\ emitted'[Len(emitted')] = what
        /\ \A i \in 1..Len(emitted) : emitted'[i] = emitted[i]
        /\ Len(emitted) \in Nat
    BY AppendProperties DEF LogInv, LogTypes, Emit
  <1>2. LogTypes' /\ StatusIsTheLog'
    BY <1>1 DEF LogInv, LogTypes, StatusIsTheLog
  <1>3. LogIsFaithful'
    <2> SUFFICES ASSUME NEW i \in 1..Len(log)
                 PROVE  /\ log[i].seq = i - 1
                        /\ \/ i <= Len(emitted') /\ log[i].what = emitted'[i]
                           \/ i = Len(log) /\ log[i].what = "interrupted"
      BY DEF LogInv, LogIsFaithful
    <2>1. Len(log) \in Nat
      BY DEF LogInv, LogTypes
    <2> QED BY <1>1, <2>1 DEF LogInv, LogIsFaithful
  <1>4. TaskFits'
    BY DEF LogInv, TaskFits, Emit
  <1>5. SendingLast'
    <2>1. emitted' # <<>>
      BY <1>1 DEF LogTypes
    <2>2. status = "running"
      BY DEF LogInv, TaskFits
    <2> QED BY <1>1, <2>1, <2>2 DEF SendingLast, Emit
  <1> QED BY <1>2, <1>3, <1>4, <1>5 DEF LogInv

\* append_event stores the event after the last one stored.
LEMMA StoreStep == LogInv /\ Store => LogInv'
  <1> SUFFICES ASSUME LogInv, Store PROVE LogInv'
    OBVIOUS
  <1> DEFINE e == [seq |-> sending.seq, what |-> sending.what]
  <1>1. /\ Len(log) \in Nat /\ Len(emitted) \in Nat /\ lastSeq = Len(log) - 1
        /\ status = "running" /\ emitted # <<>>
        /\ sending.seq = Len(emitted) - 1 /\ sending.seq = Len(log)
        /\ sending.what = emitted[Len(emitted)]
    BY DEF LogInv, LogTypes, LogIsFaithful, SendingLast, Store, Sent
  <1>2. Len(emitted) \in 1..Len(emitted) /\ sending.what \in Events
    BY <1>1, EmptySeq DEF LogInv, LogTypes
  <1>3. e \in Entry
    BY <1>1, <1>2 DEF Entry
  <1>4. /\ log' \in Seq(Entry) /\ Len(log') = Len(log) + 1
        /\ log'[Len(log')] = e
        /\ \A i \in 1..Len(log) : log'[i] = log[i]
    BY <1>1, <1>3, AppendProperties DEF LogInv, LogTypes, Store
  <1>5. LogTypes'
    BY <1>1, <1>2, <1>4 DEF LogInv, LogTypes, Store, Keep
  <1>6. LogIsFaithful'
    <2>1. \A i \in 1..Len(log) : log[i].what # "interrupted"
      BY <1>1 DEF LogInv, StatusIsTheLog
    <2>2. \A i \in 1..Len(log) : log'[i].seq = i - 1 /\ i <= Len(emitted) /\ log'[i].what = emitted[i]
      BY <1>1, <1>4, <2>1 DEF LogInv, LogIsFaithful
    <2>3. log'[Len(log')].seq = Len(log') - 1 /\ Len(log') <= Len(emitted)
          /\ log'[Len(log')].what = emitted[Len(log')]
      BY <1>1, <1>4
    <2>4. lastSeq' = Len(log') - 1 /\ emitted' = emitted
      BY <1>1, <1>4 DEF Store, Keep
    <2>5. \A i \in 1..Len(log') : i \in 1..Len(log) \/ i = Len(log')
      BY <1>1, <1>4
    <2> QED BY <2>2, <2>3, <2>4, <2>5 DEF LogIsFaithful
  <1>7. StatusIsTheLog'
    <2>1. \A i \in 1..Len(log) : log'[i].what \notin Over
      BY <1>1, <1>4 DEF LogInv, StatusIsTheLog
    <2>2. \A i \in 1..Len(log') : i \in 1..Len(log) \/ i = Len(log')
      BY <1>1, <1>4
    <2>3. log' # <<>>
      BY <1>1, <1>4, EmptySeq
    <2>4. /\ log'[Len(log')].what = sending.what
          /\ status' = IF sending.what \in Final THEN sending.what ELSE status
      BY <1>4 DEF Store
    <2> QED BY <1>1, <1>2, <2>1, <2>2, <2>3, <2>4 DEF StatusIsTheLog
  <1>8. TaskFits'
    BY <1>1 DEF LogInv, TaskFits, SendingLast, Store, Sent, Keep, AfterAppend, NoEvent
  <1>9. SendingLast'
    <2>1. sending'.stage # "append"
      BY DEF Store, Sent, AfterAppend, NoEvent
    <2> QED BY <2>1 DEF SendingLast
  <1> QED BY <1>5, <1>6, <1>7, <1>8, <1>9 DEF LogInv

\* interrupt_run, by the guard or at start-up: no event is on its way.
LEMMA InterruptStep ==
    ASSUME LogInv, Interrupt, sending = NoEvent, UNCHANGED <<sending, emitted>>,
           pc' \notin Running \cup {"created"}, proc' # "up" => pc' = "absent"
    PROVE  LogInv'
  <1> DEFINE e == [seq |-> lastSeq + 1, what |-> "interrupted"]
  <1>1. CASE status # "running"
    BY <1>1, QuietStep DEF Interrupt
  <1>2. CASE status = "running"
    <2>1. Len(log) \in Nat /\ lastSeq = Len(log) - 1 /\ e \in Entry /\ log \in Seq(Entry)
      BY DEF LogInv, LogTypes, LogIsFaithful, Entry
    <2>2. /\ status' = "interrupted" /\ lastSeq' = lastSeq + 1 /\ log' = Append(log, e)
      BY <1>2 DEF Interrupt
    <2>3. /\ log' \in Seq(Entry) /\ Len(log') = Len(log) + 1
          /\ log'[Len(log')] = e
          /\ \A i \in 1..Len(log) : log'[i] = log[i]
      BY <2>1, <2>2, AppendProperties
    <2>4. \A i \in 1..Len(log') : i \in 1..Len(log) \/ i = Len(log')
      BY <2>1, <2>3
    <2>5. \A i \in 1..Len(log) : log'[i].what \notin Over
      BY <1>2, <2>3 DEF LogInv, StatusIsTheLog
    <2>6. LogTypes'
      BY <2>2, <2>3 DEF LogInv, LogTypes
    <2>7. LogIsFaithful'
      <3>1. \A i \in 1..Len(log) : log'[i].seq = i - 1 /\ i <= Len(emitted) /\ log'[i].what = emitted[i]
        BY <2>3, <2>5 DEF LogInv, LogIsFaithful
      <3>2. log'[Len(log')].seq = Len(log') - 1 /\ log'[Len(log')].what = "interrupted"
        BY <2>1, <2>3
      <3>3. lastSeq' = Len(log') - 1
        BY <2>1, <2>2, <2>3
      <3> QED BY <2>4, <3>1, <3>2, <3>3 DEF LogIsFaithful
    <2>8. StatusIsTheLog'
      <3>1. log' # <<>>
        BY <2>1, <2>3, EmptySeq
      <3> QED BY <2>2, <2>3, <2>4, <2>5, <3>1 DEF StatusIsTheLog
    <2>9. TaskFits' /\ SendingLast'
      BY DEF TaskFits, SendingLast, NoEvent
    <2> QED BY <2>6, <2>7, <2>8, <2>9 DEF LogInv
  <1> QED BY <1>1, <1>2

\* Up to its task, a run is only put in the list.
LEMMA StartStep == LogInv /\ (CreateRun \/ Refuse \/ Spawn) => LogInv'
  <1> SUFFICES ASSUME LogInv, CreateRun \/ Refuse \/ Spawn PROVE LogInv'
    OBVIOUS
  <1>1. CASE CreateRun
    <2> USE <1>1 DEF CreateRun, Keep
    <2>1. LogTypes'
      BY DEF LogInv, LogTypes
    <2>2. LogIsFaithful'
      BY DEF LogInv, LogIsFaithful
    <2>3. StatusIsTheLog'
      BY DEF LogInv, StatusIsTheLog
    <2>4. TaskFits' /\ SendingLast'
      BY DEF LogInv, TaskFits, SendingLast, NoEvent
    <2> QED BY <2>1, <2>2, <2>3, <2>4 DEF LogInv
  <1>2. CASE Refuse
    BY <1>2, QuietStep DEF Refuse, Keep, durable, LogInv, TaskFits
  <1>3. CASE Spawn
    BY <1>3, QuietStep DEF Spawn, Keep, durable, LogInv, TaskFits
  <1> QED BY <1>1, <1>2, <1>3

\* What the task does by itself, one action at a time.
LEMMA WorkStep == LogInv /\ Works => LogInv'
  <1> SUFFICES ASSUME LogInv, Works PROVE LogInv'
    OBVIOUS
  <1> USE DEF Keep, durable, At, Announce
  <1>1. CASE Begin
    BY <1>1, EmitStep DEF Begin
  <1>2. CASE RegisterAgent
    BY <1>2, EmitStep DEF RegisterAgent
  <1>3. CASE StartActivation
    BY <1>3, EmitStep DEF StartActivation
  <1>4. CASE Park
    BY <1>4, EmitStep DEF Park
  <1>5. CASE Wake
    <2>1. CASE runCancelled \/ agentCancelled
      BY <1>5, <2>1, QuietStep DEF Wake, LogInv, TaskFits
    <2>2. CASE ~(runCancelled \/ agentCancelled)
      BY <1>5, <2>2, EmitStep DEF Wake
    <2> QED BY <2>1, <2>2
  <1>6. CASE CallTool
    <2>1. CASE pc' = "tool" /\ UNCHANGED <<live, sending, emitted>>
      BY <1>6, <2>1, QuietStep DEF CallTool, LogInv, TaskFits
    <2>2. CASE Emit("agent", "approval")
      BY <1>6, <2>2, EmitStep DEF CallTool
    <2> QED BY <1>6, <2>1, <2>2 DEF CallTool
  <1>7. CASE ApprovalResolved
    <2>1. CASE runCancelled
      BY <1>7, <2>1, QuietStep DEF ApprovalResolved, LogInv, TaskFits
    <2>2. CASE ~runCancelled
      BY <1>7, <2>2, EmitStep DEF ApprovalResolved
    <2> QED BY <2>1, <2>2
  <1>8. CASE StartTool
    BY <1>8, EmitStep DEF StartTool
  <1>9. CASE TakeEffect
    BY <1>9, QuietStep DEF TakeEffect, LogInv, TaskFits
  <1>10. CASE ToolReturns
    BY <1>10, QuietStep DEF ToolReturns, LogInv, TaskFits
  <1>11. CASE FinishTool
    BY <1>11, EmitStep DEF FinishTool
  <1>12. CASE RecordUsage
    BY <1>12, EmitStep DEF RecordUsage
  <1>13. CASE Fail
    BY <1>13, QuietStep DEF Fail, LogInv, TaskFits
  <1>14. CASE FinishActivation
    BY <1>14, EmitStep DEF FinishActivation
  <1>15. CASE DropCancelled
    BY <1>15, EmitStep DEF DropCancelled
  <1>16. CASE Finish
    BY <1>16, EmitStep DEF Finish
  <1>17. CASE Panic
    BY <1>17, QuietStep DEF Panic, LogInv, TaskFits
  <1> QED BY <1>1, <1>2, <1>3, <1>4, <1>5, <1>6, <1>7, <1>8, <1>9, <1>10, <1>11, <1>12, <1>13,
             <1>14, <1>15, <1>16, <1>17 DEF Works

\* The sink: an event that is not stored leaves the log as it is.
LEMMA SinkStep == LogInv /\ Sinks => LogInv'
  <1> SUFFICES ASSUME LogInv, Sinks PROVE LogInv'
    OBVIOUS
  <1> USE DEF Keep, durable, Sent
  <1>1. CASE Store
    BY <1>1, StoreStep
  <1>2. CASE Lose
    BY <1>2, QuietStep DEF Lose, AfterAppend, NoEvent, LogInv, TaskFits
  <1>3. CASE CopySession
    BY <1>3, QuietStep DEF CopySession, NoEvent, LogInv, TaskFits
  <1>4. CASE SaveSession
    BY <1>4, QuietStep DEF SaveSession, NoEvent, LogInv, TaskFits
  <1> QED BY <1>1, <1>2, <1>3, <1>4 DEF Sinks

\* The guard of the task.
LEMMA GuardStep == LogInv /\ Guards => LogInv'
  <1> SUFFICES ASSUME LogInv, Guards PROVE LogInv'
    OBVIOUS
  <1> USE DEF Keep, durable, At
  <1>1. CASE Unlist
    BY <1>1, QuietStep DEF Unlist, LogInv, TaskFits
  <1>2. CASE MarkInterrupted
    <2>1. CASE Interrupt
      BY <1>2, <2>1, InterruptStep DEF MarkInterrupted, LogInv, TaskFits
    <2>2. CASE pc' = "unsettled" /\ UNCHANGED <<status, log, lastSeq>>
      BY <1>2, <2>2, QuietStep DEF MarkInterrupted, LogInv, TaskFits
    <2> QED BY <1>2, <2>1, <2>2 DEF MarkInterrupted
  <1> QED BY <1>1, <1>2 DEF Guards

\* The main thread writes only the session.
LEMMA CommandStep == LogInv /\ Commands => LogInv'
  <1> SUFFICES ASSUME LogInv, Commands PROVE LogInv'
    OBVIOUS
  <1>1. UNCHANGED <<status, log, lastSeq, emitted, sending, pc, proc>>
    BY DEF Commands, Stop, PauseAgent, ResumeAgent, CancelAgent, Intervene, CheckpointCopy, CheckpointSave,
           Commanded, Keep, durable, task
  <1> QED BY <1>1, QuietStep DEF LogInv, TaskFits

\* The process dies and starts again.
LEMMA ProcessStep == LogInv /\ Process => LogInv'
  <1> SUFFICES ASSUME LogInv, Process PROVE LogInv'
    OBVIOUS
  <1> USE DEF Keep, durable, task
  <1>1. CASE Crash
    <2>1. LogTypes' /\ LogIsFaithful' /\ StatusIsTheLog'
      BY <1>1 DEF Crash, LogInv, LogTypes, LogIsFaithful, StatusIsTheLog
    <2>2. TaskFits' /\ SendingLast'
      BY <1>1 DEF Crash, TaskFits, SendingLast, NoEvent
    <2> QED BY <2>1, <2>2 DEF LogInv
  <1>2. CASE MarkAtStartup
    <2>1. pc = "absent" /\ sending = NoEvent /\ pc' = "absent" /\ UNCHANGED <<sending, emitted>>
      BY <1>2 DEF MarkAtStartup, LogInv, TaskFits
    <2>2. CASE Interrupt
      BY <2>1, <2>2, InterruptStep
    <2>3. CASE UNCHANGED <<status, log, lastSeq>>
      BY <2>1, <2>3, QuietStep
    <2> QED BY <1>2, <2>2, <2>3 DEF MarkAtStartup
  <1>3. CASE RecoverSessions
    BY <1>3, QuietStep DEF RecoverSessions, LogInv, TaskFits
  <1> QED BY <1>1, <1>2, <1>3 DEF Process

\* Every step keeps the invariant.
LEMMA LogStep == LogInv /\ [Next]_vars => LogInv'
  <1> SUFFICES ASSUME LogInv, [Next]_vars PROVE LogInv'
    OBVIOUS
  <1>1. CASE UNCHANGED vars
    BY <1>1, QuietStep DEF vars, durable, control, task, LogInv, TaskFits
  <1>2. CASE Next
    BY <1>2, StartStep, WorkStep, SinkStep, GuardStep, CommandStep, ProcessStep DEF Next
  <1> QED BY <1>1, <1>2

\* LogInv holds throughout.
LEMMA LogAlways == Spec => []LogInv
  BY LogInit, LogStep, PTL DEF Spec

\* The stored log is the emitted one, without a gap, but for an interruption at its end.
THEOREM FaithfulLog == Spec => []LogIsFaithful
  <1>1. LogInv => LogIsFaithful
    BY DEF LogInv
  <1> QED BY LogAlways, <1>1, PTL

\* The status of the run and the end of its log agree.
THEOREM AgreeingStatus == Spec => []StatusIsTheLog
  <1>1. LogInv => StatusIsTheLog
    BY DEF LogInv
  <1> QED BY LogAlways, <1>1, PTL

\* A run that is over keeps its status and its log.
THEOREM FinalHistory == Spec => HistoryIsFinal
  <1>1. LogInv /\ [Next]_vars => [(status \in Over) => UNCHANGED <<status, log>>]_vars
    <2> SUFFICES ASSUME LogInv, Next, status \in Over PROVE UNCHANGED <<status, log>>
      BY DEF vars
    <2> USE DEF Keep, durable
    <2>1. CASE CreateRun \/ Refuse \/ Spawn
      BY <2>1 DEF CreateRun, Refuse, Spawn
    <2>2. CASE Works
      BY <2>2 DEF Works, Begin, RegisterAgent, StartActivation, Park, Wake, CallTool,
                  ApprovalResolved, StartTool, TakeEffect, ToolReturns, FinishTool, RecordUsage,
                  Fail, FinishActivation, DropCancelled, Finish, Panic
    <2>3. CASE Sinks
      BY <2>3 DEF Sinks, Store, Lose, CopySession, SaveSession, Sent, LogInv, SendingLast
    <2>4. CASE Guards
      BY <2>4 DEF Guards, Unlist, MarkInterrupted, Interrupt
    <2>5. CASE Commands
      BY <2>5 DEF Commands, Stop, PauseAgent, ResumeAgent, CancelAgent, Intervene, CheckpointCopy,
                  CheckpointSave
    <2>6. CASE Process
      BY <2>6 DEF Process, Crash, MarkAtStartup, RecoverSessions, Interrupt
    <2> QED BY <2>1, <2>2, <2>3, <2>4, <2>5, <2>6 DEF Next
  <1> QED BY LogAlways, <1>1, PTL DEF Spec, HistoryIsFinal

(***************************************************************************)
(* What is left after a restart.                                           *)
(***************************************************************************)

\* A document as save_task_session or recover_task_sessions writes it: the session
\* follows from the agent.
IsDoc(d) ==
    /\ DOMAIN d = {"session", "agent", "record", "tools", "reviews"}
    /\ d.session = SessionOf(d.agent)

DocsFollow ==
    /\ saved # NoSession => IsDoc(saved)
    /\ sending.stage = "save" => IsDoc(sending.doc)
    /\ command.stage = "save" => IsDoc(command.doc)

\* Where there is no run there is nobody to write.
NobodyWrites ==
    /\ pc = "absent" => ~listed /\ sending = NoEvent /\ command = NoCommand
    /\ proc # "up" => pc = "absent"
    /\ proc = "recovering" => status # "running"

RestInv == DocsFollow /\ NobodyWrites /\ NothingLooksAlive

\* What is copied from the bus is a document.
LEMMA CopyIsDoc == \A s : IsDoc(Doc(s))
  BY DEF IsDoc, Doc

\* Recovery keeps documents, and none of them is of a session that looks alive.
LEMMA RecoveredIsOver ==
    ASSUME NEW d, IsDoc(d), d # NoSession
    PROVE  IsDoc(Recovered(d)) /\ Recovered(d).session \notin Active
  <1>1. CASE d.session \in Final \/ d.agent \notin Active
    <2>1. Recovered(d) = d
      BY <1>1 DEF Recovered
    <2>2. d.session \notin Active
      BY <1>1 DEF IsDoc, SessionOf, Active
    <2> QED BY <2>1, <2>2
  <1>2. CASE ~(d.session \in Final \/ d.agent \notin Active)
    <2> DEFINE r == IF d.record = "running" THEN "interrupted" ELSE d.record
               n == IF d.record = "running" /\ d.tools THEN d.reviews + 1 ELSE d.reviews
               e == [d EXCEPT !.session = "interrupted", !.agent = "interrupted",
                              !.record = r, !.reviews = n]
    <2>1. Recovered(d) = e
      BY <1>2 DEF Recovered, Interrupted
    <2> HIDE DEF r, n
    <2>2. DOMAIN e = DOMAIN d /\ e.session = "interrupted" /\ e.agent = "interrupted"
      BY DEF IsDoc
    <2>3. SessionOf("interrupted") = "interrupted"
      BY DEF SessionOf
    <2> QED BY <2>1, <2>2, <2>3 DEF IsDoc, Active
  <1> QED BY <1>1, <1>2

\* RestInv at the start.
LEMMA RestInit == Init => RestInv
  BY DEF Init, RestInv, DocsFollow, NobodyWrites, NothingLooksAlive, NoEvent, NoCommand

\* No step of a living process breaks RestInv.
LEMMA LivingStep ==
    ASSUME RestInv, CreateRun \/ Refuse \/ Spawn \/ Works \/ Sinks \/ Guards \/ Commands
    PROVE  RestInv'
  <1> USE DEF Keep, durable, control, task, At, Announce, Emit
  <1>1. CASE CreateRun \/ Refuse \/ Spawn
    BY <1>1 DEF CreateRun, Refuse, Spawn, RestInv, DocsFollow, NobodyWrites, NothingLooksAlive
  <1>2. CASE Works
    <2>1. /\ pc \in Running /\ pc' # "absent"
          /\ UNCHANGED <<saved, command, proc, status>>
          /\ sending' = sending \/ sending'.stage = "append"
      BY <1>2 DEF Works, Begin, RegisterAgent, StartActivation, Park, Wake, CallTool,
                  ApprovalResolved, StartTool, TakeEffect, ToolReturns, FinishTool, RecordUsage,
                  Fail, FinishActivation, DropCancelled, Finish, Panic
    <2> QED BY <2>1 DEF RestInv, DocsFollow, NobodyWrites, NothingLooksAlive
  <1>3. CASE Sinks
    <2>1. pc # "absent" /\ pc' = pc /\ proc' = proc
      BY <1>3 DEF Sinks, Store, Lose, CopySession, SaveSession, Sent, RestInv, NobodyWrites, NoEvent
    <2>2. CASE Store \/ Lose
      <3>1. sending'.stage # "save" /\ UNCHANGED <<saved, command>>
        BY <2>2 DEF Store, Lose, AfterAppend, NoEvent
      <3> QED BY <2>1, <3>1 DEF RestInv, DocsFollow, NobodyWrites, NothingLooksAlive
    <2>3. CASE CopySession
      BY <2>1, <2>3, CopyIsDoc DEF CopySession, RestInv, DocsFollow, NobodyWrites, NothingLooksAlive
    <2>4. CASE SaveSession
      BY <2>1, <2>4 DEF SaveSession, Sent, NoEvent, RestInv, DocsFollow, NobodyWrites, NothingLooksAlive
    <2> QED BY <1>3, <2>2, <2>3, <2>4 DEF Sinks
  <1>4. CASE Guards
    BY <1>4 DEF Guards, Unlist, MarkInterrupted, RestInv, DocsFollow, NobodyWrites, NothingLooksAlive
  <1>5. CASE Commands
    <2>1. pc # "absent" /\ UNCHANGED <<pc, proc, sending>>
      BY <1>5 DEF Commands, Stop, PauseAgent, ResumeAgent, CancelAgent, Intervene, CheckpointCopy,
                  CheckpointSave, Commanded, RestInv, NobodyWrites, NoCommand
    <2>2. CASE CheckpointCopy
      BY <2>1, <2>2, CopyIsDoc DEF CheckpointCopy, RestInv, DocsFollow, NobodyWrites, NothingLooksAlive
    <2>3. CASE CheckpointSave
      BY <2>1, <2>3 DEF CheckpointSave, NoCommand, RestInv, DocsFollow, NobodyWrites, NothingLooksAlive
    <2>4. CASE Stop \/ PauseAgent \/ ResumeAgent \/ CancelAgent \/ Intervene
      <3>1. saved' = saved /\ (command' = command \/ command'.stage = "snapshot")
        BY <2>4 DEF Stop, PauseAgent, ResumeAgent, CancelAgent, Intervene
      <3> QED BY <2>1, <3>1 DEF RestInv, DocsFollow, NobodyWrites, NothingLooksAlive
    <2> QED BY <1>5, <2>2, <2>3, <2>4 DEF Commands
  <1> QED BY <1>1, <1>2, <1>3, <1>4, <1>5

\* Every step keeps RestInv.
LEMMA RestStep == RestInv /\ [Next]_vars => RestInv'
  <1> SUFFICES ASSUME RestInv, [Next]_vars PROVE RestInv'
    OBVIOUS
  <1> USE DEF Keep, durable, control, task, RestInv
  <1>1. CASE UNCHANGED vars
    BY <1>1 DEF vars, DocsFollow, NobodyWrites, NothingLooksAlive
  <1>2. CASE Crash
    BY <1>2 DEF Crash, DocsFollow, NobodyWrites, NothingLooksAlive, NoEvent, NoCommand
  <1>3. CASE MarkAtStartup
    BY <1>3 DEF MarkAtStartup, Interrupt, DocsFollow, NobodyWrites, NothingLooksAlive
  <1>4. CASE RecoverSessions
    <2>1. UNCHANGED <<sending, command, pc, listed, status>> /\ pc = "absent"
      BY <1>4 DEF RecoverSessions, NobodyWrites
    <2>2. CASE saved' = Recovered(saved) /\ proc' = "up"
      <3>1. saved' # NoSession => saved # NoSession
        BY <2>2 DEF Recovered
      <3> QED BY <1>4, <2>1, <2>2, <3>1, RecoveredIsOver
              DEF RecoverSessions, DocsFollow, NobodyWrites, NothingLooksAlive
    <2>3. CASE saved' = saved /\ proc' = "down"
      BY <2>1, <2>3 DEF DocsFollow, NobodyWrites, NothingLooksAlive
    <2> QED BY <1>4, <2>2, <2>3 DEF RecoverSessions
  <1> QED BY <1>1, <1>2, <1>3, <1>4, LivingStep DEF Next, Process

\* After start-up no run is "running" and no session claims to be at work, wherever
\* the process died before.
THEOREM NothingIsAlive == Spec => []NothingLooksAlive
  <1>1. RestInv => NothingLooksAlive
    BY DEF RestInv
  <1> QED BY RestInit, RestStep, <1>1, PTL DEF Spec

(***************************************************************************)
(* Types.                                                                  *)
(***************************************************************************)
\* A session on the bus.
Sessions == [agent : LiveStates, record : LiveStates \cup {"none"}, tools : BOOLEAN]

\* Where the task works on its agent.
WithAgent == {"activate", "working", "parked", "approval", "tool", "acting", "acted", "counting",
              "failing"}

\* Only recovery asks for a review, and it leaves nothing for itself to do again.
AskedOnce(d) == d.reviews = 0 \/ d.agent = "interrupted"

ReviewedOnce ==
    /\ saved # NoSession => AskedOnce(saved)
    /\ sending.stage = "save" => AskedOnce(sending.doc)
    /\ command.stage = "save" => AskedOnce(command.doc)

\* Whoever works on the session, or is about to copy it, has one.
HasSession ==
    pc \in WithAgent \/ sending.stage = "snapshot" \/ command.stage = "snapshot"
        => live # NoSession

\* TypeOK in parts: the database, the process, the two ways to it, history.
StoreTypes ==
    /\ status \in Over \cup {"absent", "running"}
    /\ log \in Seq(Entry)
    /\ lastSeq \in Nat \cup {-1}
    /\ saved \in Docs \cup {NoSession}

ProcessTypes ==
    /\ proc \in {"down", "recovering", "up"}
    /\ listed \in BOOLEAN /\ runCancelled \in BOOLEAN /\ agentCancelled \in BOOLEAN /\ paused \in BOOLEAN
    /\ live \in {NoSession} \cup Sessions
    /\ pc \in Labels

SendingType ==
    sending \in {NoEvent, [stage |-> "snapshot"]} \cup [stage : {"append"}, seq : Nat, what : Events]
                  \cup [stage : {"save"}, doc : Docs]

CommandType == command \in {NoCommand, [stage |-> "snapshot"]} \cup [stage : {"save"}, doc : Docs]

HistoryTypes ==
    /\ emitted \in Seq(Events)
    /\ lost \in BOOLEAN /\ acted \in BOOLEAN
    /\ spent \in [Budgets -> Nat]

Types == StoreTypes /\ ProcessTypes /\ SendingType /\ CommandType /\ HistoryTypes

\* The inductive invariant.
TypeInv == Types /\ ReviewedOnce /\ HasSession

\* The parts make up TypeOK.
LEMMA TypesAreOK == Types <=> TypeOK
  BY DEF Types, TypeOK, StoreTypes, ProcessTypes, SendingType, CommandType, HistoryTypes, Entry,
         Sessions

\* Using up a bound keeps its type.
LEMMA SpendTypes == ASSUME spent \in [Budgets -> Nat], NEW b, b \in Budgets, Spend(b)
                    PROVE  spent' \in [Budgets -> Nat]
  BY DEF Spend

\* set_instance_state keeps a session a session.
LEMMA WithStateTypes == ASSUME NEW s \in Sessions, NEW st \in LiveStates
                        PROVE  WithState(s, st) \in Sessions
  BY DEF WithState, Sessions

\* What is copied from the bus asks for no review.
LEMMA DocTypes == ASSUME NEW s \in Sessions PROVE Doc(s) \in Docs /\ AskedOnce(Doc(s))
  BY DEF Doc, Docs, Sessions, SessionOf, AskedOnce, LiveStates, Active

\* Recovery asks for one review at most, whatever was stored and however often it runs.
LEMMA RecoveredTypes == ASSUME NEW d \in Docs, AskedOnce(d)
                        PROVE  Recovered(d) \in Docs /\ AskedOnce(Recovered(d))
  <1>1. CASE d = NoSession \/ d.session \in Final \/ d.agent \notin Active
    BY <1>1 DEF Recovered
  <1>2. CASE ~(d = NoSession \/ d.session \in Final \/ d.agent \notin Active)
    <2> DEFINE r == IF d.record = "running" THEN "interrupted" ELSE d.record
               n == IF d.record = "running" /\ d.tools THEN d.reviews + 1 ELSE d.reviews
               e == [session |-> "interrupted", agent |-> "interrupted", record |-> r,
                     tools |-> d.tools, reviews |-> n]
    <2>1. d.reviews = 0
      BY <1>2 DEF AskedOnce, Active
    <2>2. r \in LiveStates \cup {"none", "interrupted"} /\ n \in 0..1
      BY <2>1 DEF Docs
    <2>3. e \in Docs
      BY <2>2 DEF Docs
    <2>4. Recovered(d) = e
      BY <1>2 DEF Recovered, Interrupted, Docs
    <2> QED BY <2>3, <2>4 DEF AskedOnce
  <1> QED BY <1>1, <1>2

\* The types at the start.
LEMMA TypeInit == Init => TypeInv
  <1> SUFFICES ASSUME Init PROVE TypeInv
    OBVIOUS
  <1> USE DEF Init
  <1>1. StoreTypes /\ ProcessTypes /\ SendingType /\ CommandType
    BY EmptySeq DEF StoreTypes, ProcessTypes, SendingType, CommandType, Labels
  <1>2. HistoryTypes
    <2>1. spent \in [Budgets -> Nat]
      OBVIOUS
    <2> QED BY <2>1, EmptySeq DEF HistoryTypes
  <1>3. ReviewedOnce /\ HasSession
    BY DEF ReviewedOnce, HasSession, NoEvent, NoCommand, WithAgent
  <1> QED BY <1>1, <1>2, <1>3 DEF TypeInv, Types

\* The task: the database is left alone, and an event at most is numbered.
LEMMA TaskTypes ==
    ASSUME TypeInv, pc \in Running, pc' \in Running \cup {"ending"},
           UNCHANGED <<durable, proc, control, command, lost>>,
           acted' \in BOOLEAN,
           spent' \in [Budgets -> Nat],
           live' = live \/ live' \in Sessions,
           pc' \in WithAgent => live' # NoSession,
           \/ UNCHANGED <<sending, emitted>> 
           \/ \E what \in Events : Emit(what, pc')
    PROVE  TypeInv'
  <1> USE DEF durable, control
  <1>1. live' # NoSession \/ live' = live
    BY DEF NoSession, Sessions
  <1>2. StoreTypes' /\ CommandType'
    BY DEF TypeInv, Types, StoreTypes, CommandType
  <1>3. ProcessTypes'
    BY DEF TypeInv, Types, ProcessTypes, Labels
  <1>4. CASE UNCHANGED <<sending, emitted>>
    <2>1. SendingType' /\ HistoryTypes' /\ ReviewedOnce'
      BY <1>4 DEF TypeInv, Types, SendingType, HistoryTypes, ReviewedOnce
    <2>2. HasSession'
      BY <1>1, <1>4 DEF TypeInv, HasSession
    <2> QED BY <1>2, <1>3, <2>1, <2>2 DEF TypeInv, Types
  <1>5. CASE \E what \in Events : Emit(what, pc')
    <2>1. PICK what \in Events : Emit(what, pc')
      BY <1>5
    <2>2. emitted \in Seq(Events) /\ Len(emitted) \in Nat
      BY DEF TypeInv, Types, HistoryTypes
    <2>3. emitted' \in Seq(Events)
      BY <2>1, <2>2, AppendProperties DEF Emit
    <2>4. SendingType' /\ HistoryTypes'
      BY <2>1, <2>2, <2>3 DEF Emit, TypeInv, Types, SendingType, HistoryTypes
    <2>5. ReviewedOnce' /\ HasSession'
      BY <1>1, <2>1 DEF Emit, TypeInv, ReviewedOnce, HasSession
    <2> QED BY <1>2, <1>3, <2>4, <2>5 DEF TypeInv, Types
  <1> QED BY <1>4, <1>5

\* Every step of the task keeps the types.
LEMMA WorksTypes == TypeInv /\ Works => TypeInv'
  <1> SUFFICES ASSUME TypeInv, Works PROVE TypeInv'
    OBVIOUS
  <1> USE DEF Keep, At, Announce
  <1>1. /\ pc \in WithAgent => live \in Sessions
        /\ acted \in BOOLEAN /\ spent \in [Budgets -> Nat]
    BY DEF TypeInv, Types, ProcessTypes, HistoryTypes, HasSession
  <1>2. "failures" \in Budgets /\ "calls" \in Budgets
    BY DEF Budgets
  <1>3. CASE Begin \/ StartTool \/ FinishTool \/ DropCancelled \/ Finish
    <2>1. /\ pc \in Running /\ pc' \in Running \cup {"ending"}
          /\ \E what \in Events : Emit(what, pc')
          /\ UNCHANGED <<durable, proc, control, command, lost, live, acted, spent>>
          /\ pc' \in WithAgent => pc \in WithAgent
      BY <1>3 DEF Begin, StartTool, FinishTool, DropCancelled, Finish, Emit, WithAgent
    <2>2. pc' \in WithAgent => live' # NoSession
      BY <2>1 DEF TypeInv, HasSession
    <2> QED BY <1>1, <2>1, <2>2, TaskTypes
  <1>4. CASE RegisterAgent \/ StartActivation
    <2>1. /\ pc \in Running /\ pc' \in Running \cup {"ending"}
          /\ Emit("agent", pc')
          /\ UNCHANGED <<durable, proc, control, command, lost, acted, spent>>
      BY <1>4 DEF RegisterAgent, StartActivation, Emit
    <2>2. live' \in Sessions
      <3> DEFINE new == [agent |-> "pending", record |-> "none", tools |-> FALSE]
                 begun == [agent |-> "running", record |-> "running", tools |-> FALSE]
      <3>1. new \in Sessions /\ begun \in Sessions
        BY DEF Sessions, LiveStates, Active
      <3>2. live' = new \/ live' = begun
        BY <1>4 DEF RegisterAgent, StartActivation
      <3> QED BY <3>1, <3>2
    <2>3. live' # NoSession
      BY <2>2 DEF Sessions, NoSession
    <2> QED BY <1>1, <2>1, <2>2, <2>3, TaskTypes
  <1>5. CASE Park \/ Wake \/ ApprovalResolved \/ FinishActivation
    <2>1. /\ pc \in WithAgent /\ pc \in Running /\ pc' \in Running
          /\ UNCHANGED <<durable, proc, control, command, lost, acted, spent>>
          /\ UNCHANGED <<sending, emitted>> \/ Emit("agent", pc')
      BY <1>5 DEF Park, Wake, ApprovalResolved, FinishActivation, Emit, WithAgent
    <2>2. \/ live' = live
          \/ \E st \in LiveStates : live' = WithState(live, st)
          \/ \E st \in LiveStates : live' = [WithState(live, st) EXCEPT !.tools = FALSE]
      BY <1>5 DEF Park, Wake, ApprovalResolved, FinishActivation, LiveStates, Active
    <2>3. \A st \in LiveStates : /\ WithState(live, st) \in Sessions
                                 /\ [WithState(live, st) EXCEPT !.tools = FALSE] \in Sessions
      <3> SUFFICES ASSUME NEW st \in LiveStates
                   PROVE  /\ WithState(live, st) \in Sessions
                          /\ [WithState(live, st) EXCEPT !.tools = FALSE] \in Sessions
        OBVIOUS
      <3>1. WithState(live, st) \in Sessions
        BY <1>1, <2>1, WithStateTypes
      <3> QED BY <3>1 DEF Sessions
    <2>4. live' \in Sessions
      BY <1>1, <2>1, <2>2, <2>3
    <2>5. live' # NoSession
      BY <2>4 DEF Sessions, NoSession
    <2> QED BY <1>1, <2>1, <2>4, <2>5, TaskTypes
  <1>6. CASE CallTool
    <2>1. /\ pc \in WithAgent /\ pc \in Running /\ pc' \in Running /\ Spend("calls")
          /\ UNCHANGED <<durable, proc, control, command, lost, acted>>
          /\ UNCHANGED <<sending, emitted>> \/ Emit("agent", pc')
      BY <1>6 DEF CallTool, Emit, WithAgent
    <2>2. live' = live \/ live' = WithState(live, "waiting_approval")
      BY <1>6 DEF CallTool
    <2>3. live' \in Sessions
      BY <1>1, <2>1, <2>2, WithStateTypes DEF LiveStates, Active
    <2>4. live' # NoSession
      BY <2>3 DEF Sessions, NoSession
    <2>5. spent' \in [Budgets -> Nat]
      BY <1>1, <1>2, <2>1, SpendTypes
    <2> QED BY <1>1, <2>1, <2>3, <2>4, <2>5, TaskTypes
  <1>7. CASE TakeEffect \/ ToolReturns \/ Fail
    <2>1. /\ pc \in WithAgent /\ pc \in Running /\ pc' \in Running
          /\ UNCHANGED <<durable, proc, control, command, lost, spent, live, sending, emitted>>
          /\ acted' \in BOOLEAN
      BY <1>1, <1>7 DEF TakeEffect, ToolReturns, Fail, WithAgent
    <2>2. live' # NoSession
      BY <2>1 DEF TypeInv, HasSession
    <2> QED BY <1>1, <2>1, <2>2, TaskTypes
  <1>8. CASE RecordUsage
    <2>1. /\ pc \in WithAgent /\ pc \in Running /\ pc' \in Running /\ Emit("agent", pc')
          /\ UNCHANGED <<durable, proc, control, command, lost, acted, spent>>
          /\ live' = [live EXCEPT !.tools = TRUE]
      BY <1>8 DEF RecordUsage, Emit, WithAgent
    <2>2. live' \in Sessions
      BY <1>1, <2>1 DEF Sessions
    <2>3. live' # NoSession
      BY <2>2 DEF Sessions, NoSession
    <2> QED BY <1>1, <2>1, <2>2, <2>3, TaskTypes
  <1>9. CASE Panic
    <2>1. /\ pc \in Running /\ pc' = "ending" /\ Spend("failures")
          /\ UNCHANGED <<durable, proc, control, command, lost, live, acted, sending, emitted>>
      BY <1>9 DEF Panic
    <2>2. spent' \in [Budgets -> Nat] /\ pc' \notin WithAgent
      BY <1>1, <1>2, <2>1, SpendTypes DEF WithAgent
    <2> QED BY <1>1, <2>1, <2>2, TaskTypes
  <1> QED BY <1>3, <1>4, <1>5, <1>6, <1>7, <1>8, <1>9 DEF Works

\* TauriSink::emit.
LEMMA SinksTypes == TypeInv /\ Sinks => TypeInv'
  <1> SUFFICES ASSUME TypeInv, Sinks PROVE TypeInv'
    OBVIOUS
  <1> USE DEF Keep, Sent, durable, control
  <1>1. "failures" \in Budgets
    BY DEF Budgets
  <1>2. /\ UNCHANGED <<proc, listed, agentCancelled, paused, live, pc, emitted, acted, command>>
        /\ runCancelled' \in BOOLEAN /\ lost' \in BOOLEAN
        /\ spent' = spent \/ Spend("failures")
    BY DEF TypeInv, Types, ProcessTypes, HistoryTypes, Sinks, Store, Lose, CopySession, SaveSession
  <1>3. ProcessTypes' /\ CommandType'
    BY <1>2 DEF TypeInv, Types, ProcessTypes, CommandType
  <1>4. HistoryTypes'
    <2>1. spent' \in [Budgets -> Nat]
      BY <1>1, <1>2, SpendTypes DEF TypeInv, Types, HistoryTypes
    <2> QED BY <1>2, <2>1 DEF TypeInv, Types, HistoryTypes
  <1>5. CASE Store \/ Lose
    <2>1. sending' = AfterAppend /\ saved' = saved
      BY <1>5 DEF Store, Lose
    <2>2. /\ sending' = NoEvent \/ sending' = [stage |-> "snapshot"]
          /\ sending'.stage = "snapshot" => live # NoSession
      BY <2>1 DEF AfterAppend, NoEvent
    <2>3. SendingType' /\ ReviewedOnce' /\ HasSession'
      BY <1>2, <2>1, <2>2 DEF TypeInv, SendingType, ReviewedOnce, HasSession, NoEvent
    <2>4. StoreTypes'
      <3>1. CASE Lose
        BY <3>1 DEF Lose, TypeInv, Types, StoreTypes
      <3>2. CASE Store
        <4>1. sending.seq \in Nat /\ sending.what \in Events
          BY <3>2 DEF Store, TypeInv, Types, SendingType, NoEvent
        <4> DEFINE e == [seq |-> sending.seq, what |-> sending.what]
        <4>2. e \in Entry
          BY <4>1 DEF Entry
        <4>3. log' \in Seq(Entry)
          BY <3>2, <4>2, AppendProperties DEF Store, TypeInv, Types, StoreTypes
        <4> QED BY <3>2, <4>1, <4>3 DEF Store, TypeInv, Types, StoreTypes
      <3> QED BY <1>5, <3>1, <3>2
    <2> QED BY <1>3, <1>4, <2>3, <2>4 DEF TypeInv, Types
  <1>6. CASE CopySession
    <2>1. live # NoSession /\ live \in Sessions
      BY <1>6 DEF CopySession, TypeInv, Types, ProcessTypes, HasSession
    <2>2. Doc(live) \in Docs /\ AskedOnce(Doc(live))
      BY <2>1, DocTypes
    <2>3. sending' = [stage |-> "save", doc |-> Doc(live)] /\ UNCHANGED durable
      BY <1>6 DEF CopySession
    <2>4. SendingType'
      BY <2>2, <2>3 DEF SendingType
    <2>5. ReviewedOnce' /\ HasSession'
      BY <1>2, <2>1, <2>2, <2>3 DEF TypeInv, ReviewedOnce, HasSession
    <2>6. StoreTypes'
      BY <2>3 DEF TypeInv, Types, StoreTypes
    <2> QED BY <1>3, <1>4, <2>4, <2>5, <2>6 DEF TypeInv, Types
  <1>7. CASE SaveSession
    <2>1. /\ sending.stage = "save" /\ sending' = NoEvent
          /\ saved' = sending.doc \/ saved' = saved
          /\ UNCHANGED <<status, log, lastSeq>>
      BY <1>7 DEF SaveSession
    <2>2. sending.doc \in Docs /\ AskedOnce(sending.doc)
      BY <2>1 DEF TypeInv, Types, SendingType, ReviewedOnce, NoEvent
    <2>3. SendingType' /\ StoreTypes'
      BY <2>1, <2>2 DEF TypeInv, Types, SendingType, StoreTypes
    <2>4. ReviewedOnce' /\ HasSession'
      BY <1>2, <2>1, <2>2 DEF TypeInv, ReviewedOnce, HasSession, NoEvent
    <2> QED BY <1>3, <1>4, <2>3, <2>4 DEF TypeInv, Types
  <1> QED BY <1>5, <1>6, <1>7 DEF Sinks

\* interrupt_run stores one more entry, or nothing.
LEMMA InterruptTypes == ASSUME StoreTypes, Interrupt, saved' \in Docs \cup {NoSession} PROVE StoreTypes'
  <1>1. CASE status = "running"
    <2> DEFINE e == [seq |-> lastSeq + 1, what |-> "interrupted"]
    <2>1. lastSeq + 1 \in Nat
      BY DEF StoreTypes
    <2>2. e \in Entry
      BY <2>1 DEF Entry
    <2>3. log' \in Seq(Entry)
      BY <1>1, <2>2, AppendProperties DEF Interrupt, StoreTypes
    <2> QED BY <1>1, <2>1, <2>3 DEF Interrupt, StoreTypes
  <1>2. CASE status # "running"
    BY <1>2 DEF Interrupt, StoreTypes
  <1> QED BY <1>1, <1>2

\* run_workflow and the guard of its task.
LEMMA RunTypes == TypeInv /\ (CreateRun \/ Refuse \/ Spawn \/ Guards) => TypeInv'
  <1> SUFFICES ASSUME TypeInv, CreateRun \/ Refuse \/ Spawn \/ Guards PROVE TypeInv'
    OBVIOUS
  <1> USE DEF Keep, At, control, durable
  <1>1. "failures" \in Budgets
    BY DEF Budgets
  <1>2. /\ UNCHANGED <<saved, proc, runCancelled, agentCancelled, paused, live, sending, emitted, acted,
                       command, lost>>
        /\ listed' \in BOOLEAN
        /\ pc' \in {"created", "refused", "begin", "unlisted", "settled", "unsettled"}
        /\ spent' = spent \/ Spend("failures")
        /\ UNCHANGED <<status, log, lastSeq>> \/ Interrupt
             \/ (status' = "running" /\ UNCHANGED <<log, lastSeq>>)
    BY DEF TypeInv, Types, ProcessTypes, CreateRun, Refuse, Spawn, Guards, Unlist, MarkInterrupted
  <1>3. StoreTypes'
    <2>1. StoreTypes /\ saved' \in Docs \cup {NoSession}
      BY <1>2 DEF TypeInv, Types, StoreTypes
    <2>2. CASE Interrupt
      BY <2>1, <2>2, InterruptTypes
    <2>3. CASE ~Interrupt
      BY <1>2, <2>1, <2>3 DEF StoreTypes
    <2> QED BY <2>2, <2>3
  <1>4. HistoryTypes'
    <2>1. spent' \in [Budgets -> Nat]
      BY <1>1, <1>2, SpendTypes DEF TypeInv, Types, HistoryTypes
    <2> QED BY <1>2, <2>1 DEF TypeInv, Types, HistoryTypes
  <1>5. ProcessTypes' /\ SendingType' /\ CommandType'
    BY <1>2 DEF TypeInv, Types, ProcessTypes, SendingType, CommandType, Labels
  <1>6. ReviewedOnce' /\ HasSession'
    BY <1>2 DEF TypeInv, ReviewedOnce, HasSession, WithAgent
  <1> QED BY <1>3, <1>4, <1>5, <1>6 DEF TypeInv, Types

\* The commands of the main thread.
LEMMA CommandTypes == TypeInv /\ Commands => TypeInv'
  <1> SUFFICES ASSUME TypeInv, Commands PROVE TypeInv'
    OBVIOUS
  <1> USE DEF Keep, control, durable, task
  <1>1. "failures" \in Budgets /\ "commands" \in Budgets
    BY DEF Budgets
  <1>2. /\ UNCHANGED <<status, log, lastSeq, proc, listed, pc, sending, emitted, acted, lost>>
        /\ runCancelled' \in BOOLEAN /\ agentCancelled' \in BOOLEAN /\ paused' \in BOOLEAN
        /\ spent' = spent \/ Spend("failures") \/ Spend("commands")
    BY DEF TypeInv, Types, ProcessTypes, Commands, Stop, PauseAgent, ResumeAgent, CancelAgent,
           Intervene, CheckpointCopy, CheckpointSave, SpendUnless
  <1>3. HistoryTypes'
    <2>1. spent' \in [Budgets -> Nat]
      BY <1>1, <1>2, SpendTypes DEF TypeInv, Types, HistoryTypes
    <2> QED BY <1>2, <2>1 DEF TypeInv, Types, HistoryTypes
  <1>4. SendingType'
    BY <1>2 DEF TypeInv, Types, SendingType
  <1>5. live' \in {NoSession} \cup Sessions /\ (live # NoSession => live' # NoSession)
    <2>1. \/ live' = live
          \/ live # NoSession /\ \E st \in LiveStates : live' = WithState(live, st)
      BY DEF Commands, Stop, PauseAgent, ResumeAgent, CancelAgent, Intervene, CheckpointCopy,
             CheckpointSave, Commanded, LiveStates, Active
    <2>2. live \in {NoSession} \cup Sessions
      BY DEF TypeInv, Types, ProcessTypes
    <2>3. live # NoSession => \A st \in LiveStates : WithState(live, st) \in Sessions
      BY <2>2, WithStateTypes
    <2>4. NoSession \notin Sessions
      BY DEF Sessions, NoSession
    <2> QED BY <2>1, <2>2, <2>3, <2>4
  <1>6. ProcessTypes'
    BY <1>2, <1>5 DEF TypeInv, Types, ProcessTypes
  <1>7. CASE Stop \/ PauseAgent \/ ResumeAgent \/ CancelAgent \/ Intervene
    <2>1. /\ saved' = saved
          /\ command' = command \/ (command' = [stage |-> "snapshot"] /\ live # NoSession)
      BY <1>7 DEF Stop, PauseAgent, ResumeAgent, CancelAgent, Intervene, Commanded
    <2>2. StoreTypes' /\ CommandType'
      BY <1>2, <2>1 DEF TypeInv, Types, StoreTypes, CommandType
    <2>3. ReviewedOnce' /\ HasSession'
      BY <1>2, <1>5, <2>1 DEF TypeInv, ReviewedOnce, HasSession
    <2> QED BY <1>3, <1>4, <1>6, <2>2, <2>3 DEF TypeInv, Types
  <1>8. CASE CheckpointCopy
    <2>1. live # NoSession /\ live \in Sessions
      BY <1>8 DEF CheckpointCopy, TypeInv, Types, ProcessTypes, HasSession
    <2>2. Doc(live) \in Docs /\ AskedOnce(Doc(live))
      BY <2>1, DocTypes
    <2>3. command' = [stage |-> "save", doc |-> Doc(live)] /\ saved' = saved
      BY <1>8 DEF CheckpointCopy
    <2>4. CommandType' /\ StoreTypes'
      BY <1>2, <2>2, <2>3 DEF TypeInv, Types, CommandType, StoreTypes
    <2>5. ReviewedOnce' /\ HasSession'
      BY <1>2, <1>5, <2>1, <2>2, <2>3 DEF TypeInv, ReviewedOnce, HasSession
    <2> QED BY <1>3, <1>4, <1>6, <2>4, <2>5 DEF TypeInv, Types
  <1>9. CASE CheckpointSave
    <2>1. /\ command.stage = "save" /\ command' = NoCommand
          /\ saved' = command.doc \/ saved' = saved
      BY <1>9 DEF CheckpointSave
    <2>2. command.doc \in Docs /\ AskedOnce(command.doc)
      BY <2>1 DEF TypeInv, Types, CommandType, ReviewedOnce, NoCommand
    <2>3. CommandType' /\ StoreTypes'
      BY <1>2, <2>1, <2>2 DEF TypeInv, Types, CommandType, StoreTypes
    <2>4. ReviewedOnce' /\ HasSession'
      BY <1>2, <1>5, <2>1, <2>2 DEF TypeInv, ReviewedOnce, HasSession, NoCommand
    <2> QED BY <1>3, <1>4, <1>6, <2>3, <2>4 DEF TypeInv, Types
  <1> QED BY <1>7, <1>8, <1>9 DEF Commands

\* Crash and start-up.
LEMMA ProcessStepTypes == TypeInv /\ Process => TypeInv'
  <1> SUFFICES ASSUME TypeInv, Process PROVE TypeInv'
    OBVIOUS
  <1> USE DEF Keep, control, durable, task
  <1>1. {"failures", "crashes", "calls", "commands"} \subseteq Budgets
    BY DEF Budgets
  <1>2. CASE Crash
    <2>1. spent' \in [Budgets -> Nat]
      <3> DEFINE a == [spent EXCEPT !["crashes"] = @ + 1]
                 b == [a EXCEPT !["calls"] = 0]
      <3>1. a \in [Budgets -> Nat]
        BY <1>1 DEF TypeInv, Types, HistoryTypes
      <3> HIDE DEF a
      <3>2. b \in [Budgets -> Nat]
        BY <3>1
      <3> HIDE DEF b
      <3>3. [b EXCEPT !["commands"] = 0] \in [Budgets -> Nat]
        BY <3>2
      <3>4. spent' = [b EXCEPT !["commands"] = 0]
        BY <1>2 DEF Crash, a, b
      <3> QED BY <3>3, <3>4
    <2>2. HistoryTypes' /\ StoreTypes'
      BY <1>2, <2>1 DEF Crash, TypeInv, Types, HistoryTypes, StoreTypes
    <2>3. ProcessTypes' /\ SendingType' /\ CommandType'
      BY <1>2 DEF Crash, ProcessTypes, SendingType, CommandType, Labels
    <2>4. ReviewedOnce' /\ HasSession'
      BY <1>2 DEF Crash, TypeInv, ReviewedOnce, HasSession, WithAgent, NoEvent, NoCommand
    <2> QED BY <2>2, <2>3, <2>4 DEF TypeInv, Types
  <1>3. CASE MarkAtStartup \/ RecoverSessions
    <2>1. /\ UNCHANGED <<listed, runCancelled, agentCancelled, paused, live, pc, sending, emitted, acted,
                         command, lost>>
          /\ proc' \in {"down", "recovering", "up"}
          /\ spent' = spent \/ Spend("failures")
          /\ UNCHANGED <<status, log, lastSeq>> \/ Interrupt
          /\ saved' = saved \/ saved' = Recovered(saved)
      BY <1>3 DEF TypeInv, Types, ProcessTypes, MarkAtStartup, RecoverSessions
    <2>2. saved' \in Docs \cup {NoSession} /\ (saved' # NoSession => AskedOnce(saved'))
      <3>1. saved \in Docs \cup {NoSession} /\ (saved # NoSession => AskedOnce(saved))
        BY DEF TypeInv, Types, StoreTypes, ReviewedOnce
      <3>2. Recovered(NoSession) = NoSession
        BY DEF Recovered
      <3>3. saved # NoSession => Recovered(saved) \in Docs /\ AskedOnce(Recovered(saved))
        BY <3>1, RecoveredTypes
      <3> QED BY <2>1, <3>1, <3>2, <3>3
    <2>3. StoreTypes'
      <3>1. StoreTypes
        BY DEF TypeInv, Types
      <3>2. CASE Interrupt
        BY <2>2, <3>1, <3>2, InterruptTypes
      <3>3. CASE ~Interrupt
        BY <2>1, <2>2, <3>1, <3>3 DEF StoreTypes
      <3> QED BY <3>2, <3>3
    <2>4. HistoryTypes'
      <3>1. spent' \in [Budgets -> Nat]
        BY <1>1, <2>1, SpendTypes DEF TypeInv, Types, HistoryTypes
      <3> QED BY <2>1, <3>1 DEF TypeInv, Types, HistoryTypes
    <2>5. ProcessTypes' /\ SendingType' /\ CommandType'
      BY <2>1 DEF TypeInv, Types, ProcessTypes, SendingType, CommandType
    <2>6. ReviewedOnce' /\ HasSession'
      BY <2>1, <2>2 DEF TypeInv, ReviewedOnce, HasSession
    <2> QED BY <2>3, <2>4, <2>5, <2>6 DEF TypeInv, Types
  <1> QED BY <1>2, <1>3 DEF Process

\* Every step keeps the types.
LEMMA TypeStep == TypeInv /\ [Next]_vars => TypeInv'
  <1> SUFFICES ASSUME TypeInv, [Next]_vars PROVE TypeInv'
    OBVIOUS
  <1>1. CASE UNCHANGED vars
    <2>1. StoreTypes' /\ ProcessTypes' /\ SendingType' /\ CommandType' /\ HistoryTypes'
      BY <1>1 DEF vars, durable, control, task, TypeInv, Types, StoreTypes, ProcessTypes, SendingType,
                  CommandType, HistoryTypes
    <2>2. ReviewedOnce' /\ HasSession'
      BY <1>1 DEF vars, durable, control, task, TypeInv, ReviewedOnce, HasSession
    <2> QED BY <2>1, <2>2 DEF TypeInv, Types
  <1> QED BY <1>1, WorksTypes, SinksTypes, RunTypes, CommandTypes, ProcessStepTypes DEF Next

\* Every variable keeps its type. What is hard in it is the session: the task and the
\* commands read it only while there is one, and no document is ever up for a second
\* review, though recovery may run again after a crash.
THEOREM TypeCorrect == Spec => []TypeOK
  <1>1. TypeInv => TypeOK
    BY TypesAreOK DEF TypeInv
  <1> QED BY TypeInit, TypeStep, <1>1, PTL DEF Spec
===============================================================================
