----------------------------- MODULE WireProofs -----------------------------
(***************************************************************************)
(* What TLAPS proves of the two clients that read lines from a wire.       *)
(*                                                                         *)
(* Of ToolServer, for any number of calls, any bounds of the pipe and any  *)
(* server:                                                                 *)
(*   AnswersComeHome    Spec => []AnswerIsOwn                              *)
(*   TypeCorrect        Spec => []TypeOK                                   *)
(*   SpoilersCostOnce   Spec => []SpoilersAreSpent                         *)
(*                                                                         *)
(* For the answers, what matters is which requests may still be answered:  *)
(* those the server has read and those whose answer is on its way.  Each   *)
(* of them has a number below the next one, and if it has the number that  *)
(* is waited for, it is of the current call.  A step either asks nothing   *)
(* new, or asks under a number that nothing in flight has.                 *)
(*                                                                         *)
(* For what cannot be read, the pipe is an account: what is written adds   *)
(* to it what it spoils, and a call that fails takes out what it read.     *)
(*                                                                         *)
(* Of ModelStream, for any protocols, transcripts, identities and numbers  *)
(* of pieces, fragments and symbols in flight:                             *)
(*   BrokenStreamsFail   StreamSpec => []OnlyCompleteReplies               *)
(*   RepliesAreFaithful  StreamSpec => []ReplyIsWhatWasSaid                *)
(*   PageIsAPrefix       StreamSpec => []PageFollowsReply                  *)
(*   NothingIsLost       StreamSpec => []NothingIsDropped                  *)
(*                                                                         *)
(* What is on its way holds a promise: read to the end, its lines make of  *)
(* what was gathered all that was said, and the marker is the last of them.*)
(* The provider keeps the promise when it speaks, by what the adapter will *)
(* make of the line; a chunk keeps it wherever it was cut, since reading   *)
(* its lines is the beginning of reading them all; and when the connection *)
(* is cut, what is left has no marker or all of it.                        *)
(*                                                                         *)
(* For what is sent, the blocks of turns add up: those of turns put one    *)
(* after the other, or merged, are the blocks of the first and then those  *)
(* of the second.  Message by message both sides grow by the same parts.   *)
(***************************************************************************)
EXTENDS ToolServer, ModelStream, SequenceTheorems, FiniteSetTheorems, FunctionTheorems,
        WellFoundedInduction, TLAPS

-------------------------------------------------------------------------------
(* ToolServer *)

Messages ==
    [what : {"answer", "published", "note", "garbage", "question", "rest"},
     id : Nat \cup {NoId}, file : Files \cup {NoFile}, call : Nat]

\* The answers in a pipe, by number and call; and all that may still be answered.
Answers(p) == {<<p[i].id, p[i].call>> : i \in {j \in DOMAIN p : p[j].what = "answer"}}
InFlight == heard \cup Answers(pipe)

Typed ==
    /\ nextId \in Nat /\ calls \in Nat /\ asked \in Nat \cup {NoId}
    /\ heard \subseteq Nat \X Nat /\ pipe \in Seq(Messages)

Numbered == \A r \in InFlight : r[1] \in Nat /\ r[1] < nextId /\ (r[1] = asked => r[2] = calls)

\* The inductive invariant.
AnswerInv == Typed /\ (asked # NoId => asked < nextId) /\ Numbered /\ AnswerIsOwn

-------------------------------------------------------------------------------
(* The pipe *)

LEMMA AppendAnswers ==
    ASSUME NEW p \in Seq(Messages), NEW m \in Messages
    PROVE  /\ Append(p, m) \in Seq(Messages)
           /\ m.what # "answer" => Answers(Append(p, m)) = Answers(p)
           /\ Answers(Append(p, m)) \subseteq Answers(p) \cup {<<m.id, m.call>>}
  <1>1. Append(p, m) \in Seq(Messages)
    OBVIOUS
  <1>2. /\ DOMAIN Append(p, m) = 1..(Len(p) + 1) /\ DOMAIN p = 1..Len(p) /\ Len(p) \in Nat
        /\ \A i \in 1..Len(p) : Append(p, m)[i] = p[i]
        /\ Append(p, m)[Len(p) + 1] = m
    BY <1>1
  <1> HIDE <1>1
  <1> QED BY <1>1, <1>2 DEF Answers

LEMMA TailAnswers ==
    ASSUME NEW p \in Seq(Messages), p # <<>>
    PROVE  /\ Tail(p) \in Seq(Messages) /\ Head(p) \in Messages
           /\ Answers(Tail(p)) \subseteq Answers(p)
           /\ Head(p).what = "answer" => <<Head(p).id, Head(p).call>> \in Answers(p)
  <1>1. /\ Tail(p) \in Seq(Messages) /\ Head(p) \in Messages /\ Head(p) = p[1]
        /\ 1 \in DOMAIN p
    OBVIOUS
  <1>2. /\ DOMAIN Tail(p) = 1..(Len(p) - 1) /\ DOMAIN p = 1..Len(p) /\ Len(p) \in Nat
        /\ \A i \in 1..(Len(p) - 1) : Tail(p)[i] = p[i + 1]
    OBVIOUS
  <1>3. \A i \in DOMAIN Tail(p) : i + 1 \in DOMAIN p /\ Tail(p)[i] = p[i + 1]
    BY <1>2
  <1>4. Answers(Tail(p)) \subseteq Answers(p)
    BY <1>3 DEF Answers
  <1>5. Head(p).what = "answer" => <<Head(p).id, Head(p).call>> \in Answers(p)
    BY <1>1 DEF Answers
  <1> QED BY <1>1, <1>4, <1>5

LEMMA RestAnswers ==
    ASSUME NEW p \in Seq(Messages)
    PROVE  <<Unspoken>> \o p \in Seq(Messages) /\ Answers(<<Unspoken>> \o p) \subseteq Answers(p)
  <1> DEFINE q == <<Unspoken>> \o p
  <1>1. Unspoken \in Messages /\ Unspoken.what = "rest"
    BY DEF Unspoken, Message, Messages
  <1>2. q \in Seq(Messages)
    BY <1>1
  <1>3. /\ DOMAIN q = 1..(Len(p) + 1) /\ DOMAIN p = 1..Len(p) /\ Len(p) \in Nat
        /\ q[1] = Unspoken /\ \A i \in 2..(Len(p) + 1) : q[i] = p[i - 1]
    BY <1>1
  <1>4. \A i \in DOMAIN q : i # 1 => i - 1 \in DOMAIN p /\ q[i] = p[i - 1]
    BY <1>3
  <1> HIDE DEF q
  <1>5. Answers(q) \subseteq Answers(p)
    BY <1>1, <1>3, <1>4 DEF Answers
  <1> QED BY <1>2, <1>5 DEF q

LEMMA EmptyAnswers == <<>> \in Seq(Messages) /\ Answers(<<>>) = {}
  BY DEF Answers

-------------------------------------------------------------------------------
(* Kinds of steps *)

\* Nothing new is asked, and the wait goes on.
LEMMA GoingOnKeeps ==
    ASSUME AnswerInv, UNCHANGED <<nextId, calls, asked>>,
           heard' \subseteq heard \cup ({asked} \ {NoId}) \X {calls},
           pipe' \in Seq(Messages), Answers(pipe') \subseteq InFlight, AnswerIsOwn'
    PROVE  AnswerInv'
  <1>1. asked # NoId => asked \in Nat /\ asked < nextId
    BY DEF AnswerInv, Typed
  <1>2. Typed'
    BY DEF AnswerInv, Typed
  <1>3. InFlight' \subseteq InFlight \cup ({asked} \ {NoId}) \X {calls}
    BY DEF InFlight
  <1>4. Numbered'
    BY <1>1, <1>3 DEF AnswerInv, Numbered
  <1> QED BY <1>1, <1>2, <1>4 DEF AnswerInv

\* Nothing is waited for any more, or only what has no number.
LEMMA LettingGoKeeps ==
    ASSUME AnswerInv, nextId' = nextId, asked' = NoId, calls' \in Nat, heard' \subseteq heard,
           pipe' \in Seq(Messages), Answers(pipe') \subseteq InFlight, AnswerIsOwn'
    PROVE  AnswerInv'
  <1>1. Typed'
    BY DEF AnswerInv, Typed
  <1>2. InFlight' \subseteq InFlight
    BY DEF InFlight
  <1>3. Numbered'
    BY <1>2, ToolServerAssumption DEF AnswerInv, Numbered
  <1> QED BY <1>1, <1>3 DEF AnswerInv

\* The next number is asked with: nothing in flight has it.
LEMMA AskingKeeps ==
    ASSUME AnswerInv, nextId' = nextId + 1, asked' = nextId, calls' \in Nat,
           heard' \subseteq heard \cup {<<nextId, calls'>>},
           pipe' \in Seq(Messages), Answers(pipe') \subseteq InFlight, AnswerIsOwn'
    PROVE  AnswerInv'
  <1>1. nextId \in Nat
    BY DEF AnswerInv, Typed
  <1>2. Typed'
    BY <1>1 DEF AnswerInv, Typed
  <1>3. InFlight' \subseteq InFlight \cup {<<nextId, calls'>>}
    BY DEF InFlight
  <1>4. ASSUME NEW r \in InFlight
        PROVE  r[1] \in Nat /\ r[1] < nextId + 1 /\ r[1] # nextId
    BY <1>1, <1>4 DEF AnswerInv, Numbered
  <1>5. Numbered'
    BY <1>1, <1>3, <1>4 DEF Numbered
  <1> QED BY <1>1, <1>2, <1>5 DEF AnswerInv

\* What the pipe holds stays in flight while it is read or left alone.
LEMMA PipeStays ==
    ASSUME AnswerInv, pipe' = pipe
    PROVE  pipe' \in Seq(Messages) /\ Answers(pipe') \subseteq InFlight
  BY DEF AnswerInv, Typed, InFlight

LEMMA PipeEmptied ==
    ASSUME pipe' = <<>>
    PROVE  pipe' \in Seq(Messages) /\ Answers(pipe') \subseteq InFlight
  BY EmptyAnswers

LEMMA PipeRead ==
    ASSUME AnswerInv, pipe # <<>>, pipe' = Tail(pipe)
    PROVE  pipe' \in Seq(Messages) /\ Answers(pipe') \subseteq InFlight
  <1>1. pipe \in Seq(Messages)
    BY DEF AnswerInv, Typed
  <1> QED BY <1>1, TailAnswers DEF InFlight

\* A call that ends without a message has got no answer.
LEMMA NothingIsNoAnswer ==
    \A c, outcome : last' = [outcome |-> outcome, call |-> c, got |-> Nothing] => AnswerIsOwn'
  BY DEF AnswerIsOwn, Nothing, Message

LEMMA LastStays == AnswerInv /\ last' = last => AnswerIsOwn'
  BY DEF AnswerInv, AnswerIsOwn

-------------------------------------------------------------------------------
(* Steps of the server *)

LEMMA InitHolds == Init => AnswerInv
  <1> SUFFICES ASSUME Init PROVE AnswerInv
    OBVIOUS
  <1>1. InFlight = {}
    BY EmptyAnswers DEF Init, InFlight
  <1>2. Typed
    BY EmptyAnswers DEF Init, Typed
  <1>3. AnswerIsOwn
    BY DEF Init, AnswerIsOwn, NoCall, Nothing, Message
  <1> QED BY <1>1, <1>2, <1>3 DEF AnswerInv, Numbered, Init

\* An answer takes its request from what was read to what is on its way.
LEMMA AnswerKeeps ==
    ASSUME AnswerInv, NEW q \in heard, Answer(q)
    PROVE  AnswerInv'
  <1> DEFINE m == Message("answer", q[1], NoFile, q[2])
  <1>1. /\ pipe' = Append(pipe, m) /\ heard' \subseteq heard
        /\ UNCHANGED <<nextId, calls, asked, last>>
    BY DEF Answer, client, history
  <1>2. q = <<q[1], q[2]>> /\ q[1] \in Nat /\ q[2] \in Nat
    BY DEF AnswerInv, Typed
  <1>3. m \in Messages /\ m.id = q[1] /\ m.call = q[2]
    BY <1>2 DEF Message, Messages
  <1>4. pipe \in Seq(Messages)
    BY DEF AnswerInv, Typed
  <1> HIDE DEF m
  <1>5. pipe' \in Seq(Messages) /\ Answers(pipe') \subseteq Answers(pipe) \cup {q}
    BY <1>1, <1>2, <1>3, <1>4, AppendAnswers
  <1>6. Answers(pipe') \subseteq InFlight
    BY <1>5 DEF InFlight
  <1> QED BY <1>1, <1>5, <1>6, GoingOnKeeps, LastStays

LEMMA ChatKeeps ==
    ASSUME AnswerInv, NEW m \in Messages, m.what # "answer", Chat(m)
    PROVE  AnswerInv'
  <1>1. pipe' = Append(pipe, m) /\ UNCHANGED <<heard, nextId, calls, asked, last>>
    BY DEF Chat, client
  <1>2. pipe \in Seq(Messages)
    BY DEF AnswerInv, Typed
  <1>3. pipe' \in Seq(Messages) /\ Answers(pipe') \subseteq InFlight
    BY <1>1, <1>2, AppendAnswers DEF InFlight
  <1> QED BY <1>1, <1>3, GoingOnKeeps, LastStays

LEMMA ServerKeeps == AnswerInv /\ Server => AnswerInv'
  <1> SUFFICES ASSUME AnswerInv, Server PROVE AnswerInv'
    OBVIOUS
  <1>1. CASE \E q \in heard : Answer(q)
    BY <1>1, AnswerKeeps
  <1>2. ASSUME NEW f \in Files, Publish(f) PROVE AnswerInv'
    <2>1. Message("published", NoId, f, 0) \in Messages /\ Message("published", NoId, f, 0).what # "answer"
      BY DEF Message, Messages
    <2> QED BY <1>2, <2>1, ChatKeeps DEF Publish
  <1>3. ASSUME NEW i \in Nat, Question(i) PROVE AnswerInv'
    <2>1. Message("question", i, NoFile, 0) \in Messages /\ Message("question", i, NoFile, 0).what # "answer"
      BY DEF Message, Messages
    <2> QED BY <1>3, <2>1, ChatKeeps DEF Question
  <1>4. CASE Log
    <2>1. Message("note", NoId, NoFile, 0) \in Messages /\ Message("note", NoId, NoFile, 0).what # "answer"
      BY DEF Message, Messages
    <2> QED BY <1>4, <2>1, ChatKeeps DEF Log
  <1>5. CASE Babble
    <2>1. Message("garbage", NoId, NoFile, 0) \in Messages /\ Message("garbage", NoId, NoFile, 0).what # "answer"
      BY DEF Message, Messages
    <2> QED BY <1>5, <2>1, ChatKeeps DEF Babble
  <1>6. CASE Die
    BY <1>6, PipeStays, GoingOnKeeps, LastStays DEF Die, client, history
  <1>7. \A i \in 1..(MaxCalls + 2) : i \in Nat
    BY ToolServerAssumption
  <1> QED BY <1>1, <1>2, <1>3, <1>4, <1>5, <1>6, <1>7 DEF Server

-------------------------------------------------------------------------------
(* Steps of the client *)

LEMMA SpawnKeeps == ASSUME AnswerInv, Spawn PROVE AnswerInv'
  <1>1. /\ calls' = calls /\ calls \in Nat /\ last' = last /\ pipe' = pipe
        /\ heard' \subseteq heard \cup {<<nextId, calls>>}
    BY DEF Spawn, history, AnswerInv, Typed
  <1> QED BY <1>1, PipeStays, AskingKeeps, LastStays DEF Spawn

LEMMA BeginKeeps ==
    ASSUME AnswerInv, NEW next, NEW f, NEW id \in {nextId, NoId}, Begin(next, f, id)
    PROVE  AnswerInv'
  <1>1. nextId \in Nat /\ nextId # NoId /\ calls' = calls + 1 /\ calls' \in Nat
    BY ToolServerAssumption DEF Begin, AnswerInv, Typed
  <1>2. asked' = id /\ last' = last /\ pipe' = pipe
    BY DEF Begin
  <1>3. heard' \subseteq heard \cup ({id} \ {NoId}) \X {calls'}
    BY <1>1 DEF Begin, Deliver
  <1>4. CASE id = nextId
    <2>1. nextId' = nextId + 1 /\ heard' \subseteq heard \cup {<<nextId, calls'>>}
      BY <1>1, <1>3, <1>4 DEF Begin
    <2> QED BY <1>1, <1>2, <1>4, <2>1, PipeStays, AskingKeeps, LastStays
  <1>5. CASE id = NoId
    <2>1. nextId' = nextId /\ heard' \subseteq heard
      BY <1>3, <1>5 DEF Begin
    <2> QED BY <1>1, <1>2, <1>5, <2>1, PipeStays, LettingGoKeeps, LastStays
  <1> QED BY <1>4, <1>5

LEMMA WriteKeeps == ASSUME AnswerInv, Write PROVE AnswerInv'
  <1>1. heard' \subseteq heard \cup ({asked} \ {NoId}) \X {calls}
    BY DEF Write, Deliver
  <1> QED BY <1>1, PipeStays, GoingOnKeeps, LastStays DEF Write, history

\* A wait that fails, times out or finds the server gone.
LEMMA EndingKeeps ==
    ASSUME AnswerInv, UNCHANGED <<nextId, calls>>, asked' = NoId, heard' \subseteq heard,
           pipe' \in Seq(Messages), Answers(pipe') \subseteq InFlight,
           \/ last' = last
           \/ \E c, outcome : last' = [outcome |-> outcome, call |-> c, got |-> Nothing]
    PROVE  AnswerInv'
  <1>1. calls' \in Nat
    BY DEF AnswerInv, Typed
  <1> QED BY <1>1, LettingGoKeeps, LastStays, NothingIsNoAnswer

\* The answer that ends the wait has its number, and so it is of the current call.
LEMMA CompleteKeeps ==
    ASSUME AnswerInv, pipe # <<>>, pipe' = Tail(pipe), calls' = calls,
           IsAnswer(Head(pipe)), Complete(Head(pipe))
    PROVE  AnswerInv'
  <1> DEFINE m == Head(pipe)
  <1>1. pipe' \in Seq(Messages) /\ Answers(pipe') \subseteq InFlight /\ calls \in Nat
    BY PipeRead DEF AnswerInv, Typed
  <1>2. m.what = "answer" => m.call = calls
    <2>1. pipe \in Seq(Messages)
      BY DEF AnswerInv, Typed
    <2>2. m.what = "answer" => <<m.id, m.call>> \in InFlight
      BY <2>1, TailAnswers DEF InFlight
    <2>3. m.id = asked
      BY DEF IsAnswer
    <2> HIDE DEF m
    <2> QED BY <2>2, <2>3 DEF AnswerInv, Numbered
  <1> HIDE DEF m
  <1>3. \/ /\ asked' = nextId /\ nextId' = nextId + 1 /\ last' = last
           /\ Deliver({nextId}, calls) \/ heard' = heard
        \/ asked' = NoId /\ UNCHANGED <<nextId, heard>>
           /\ (last' = last \/ last' = [outcome |-> "ok", call |-> calls, got |-> m])
    BY DEF Complete, GiveUp, Settle, m
  <1>4. CASE /\ asked' = nextId /\ nextId' = nextId + 1 /\ last' = last
             /\ Deliver({nextId}, calls) \/ heard' = heard
    <2>1. heard' \subseteq heard \cup {<<nextId, calls'>>}
      BY <1>4 DEF Deliver
    <2> QED BY <1>1, <1>4, <2>1, AskingKeeps, LastStays
  <1>5. CASE asked' = NoId /\ UNCHANGED <<nextId, heard>> /\ last' = last
    BY <1>1, <1>5, LettingGoKeeps, LastStays
  <1>6. CASE /\ asked' = NoId /\ UNCHANGED <<nextId, heard>>
             /\ last' = [outcome |-> "ok", call |-> calls, got |-> m]
    <2>1. AnswerIsOwn'
      BY <1>2, <1>6 DEF AnswerIsOwn
    <2> QED BY <1>1, <1>6, <2>1, LettingGoKeeps
  <1> QED BY <1>3, <1>4, <1>5, <1>6

LEMMA ReceiveKeeps == ASSUME AnswerInv, Receive PROVE AnswerInv'
  <1>1. pipe # <<>> /\ pipe' = Tail(pipe) /\ calls' = calls
    BY DEF Receive, Consume
  <1>2. pipe' \in Seq(Messages) /\ Answers(pipe') \subseteq InFlight
    BY <1>1, PipeRead
  <1>3. CASE FailReading
    <2>1. asked' = NoId /\ UNCHANGED <<nextId, heard>>
      BY <1>3 DEF FailReading, GiveUp, Settle
    <2>2. last' = last \/ last' = [outcome |-> "failed", call |-> calls, got |-> Nothing]
      BY <1>3 DEF FailReading, Settle
    <2> QED BY <1>1, <1>2, <2>1, <2>2, EndingKeeps
  <1>4. CASE UNCHANGED <<asked, nextId, heard, last>>
    BY <1>1, <1>2, <1>4, GoingOnKeeps, LastStays
  <1>5. CASE IsAnswer(Head(pipe)) /\ Complete(Head(pipe))
    BY <1>1, <1>5, CompleteKeeps
  <1>6. CASE PassOver(Head(pipe))
    <2>1. UNCHANGED <<nextId, heard>>
      BY <1>6 DEF PassOver
    <2>2. \/ UNCHANGED <<asked, last>>
          \/ asked' = NoId /\ last' = [outcome |-> "ok", call |-> calls, got |-> Nothing]
      BY <1>6 DEF PassOver, Settle
    <2>3. CASE UNCHANGED <<asked, last>>
      BY <1>4, <2>1, <2>3
    <2>4. CASE asked' = NoId /\ last' = [outcome |-> "ok", call |-> calls, got |-> Nothing]
      BY <1>1, <1>2, <2>1, <2>4, EndingKeeps
    <2> QED BY <2>2, <2>3, <2>4
  <1> QED BY <1>3, <1>4, <1>5, <1>6 DEF Receive

\* Giving up in the middle of a message takes no answer out of order.
LEMMA CutReadKeeps ==
    ASSUME AnswerInv, CutRead
    PROVE  pipe' \in Seq(Messages) /\ Answers(pipe') \subseteq InFlight
  <1>1. pipe \in Seq(Messages) /\ pipe # <<>>
    BY DEF AnswerInv, Typed, CutRead
  <1>2. Tail(pipe) \in Seq(Messages) /\ Answers(Tail(pipe)) \subseteq InFlight
    BY <1>1, TailAnswers DEF InFlight
  <1>3. CASE pipe' = Tail(pipe)
    BY <1>2, <1>3
  <1>4. CASE pipe' = <<Unspoken>> \o Tail(pipe)
    BY <1>2, <1>4, RestAnswers
  <1> QED BY <1>3, <1>4 DEF CutRead

LEMMA TimeOutKeeps == ASSUME AnswerInv, TimeOut PROVE AnswerInv'
  <1>1. /\ UNCHANGED <<nextId, calls, heard>> /\ asked' = NoId
        /\ last' = [outcome |-> "timeout", call |-> calls, got |-> Nothing]
    BY DEF TimeOut, Settle
  <1>2. pipe' \in Seq(Messages) /\ Answers(pipe') \subseteq InFlight
    BY CutReadKeeps, PipeStays DEF TimeOut
  <1> QED BY <1>1, <1>2, EndingKeeps

\* The connection is gone.
LEMMA GoneKeeps ==
    ASSUME AnswerInv, Gone, UNCHANGED <<nextId, calls, last>>
    PROVE  AnswerInv'
  <1>1. asked' = NoId /\ heard' \subseteq heard /\ pipe' = <<>>
    BY DEF Gone
  <1> QED BY <1>1, PipeEmptied, EndingKeeps

LEMMA ClientKeeps == AnswerInv /\ Client => AnswerInv'
  <1> SUFFICES ASSUME AnswerInv, Client PROVE AnswerInv'
    OBVIOUS
  <1>1. CASE Spawn
    BY <1>1, SpawnKeeps
  <1>2. CASE Call \/ \E f \in Files : Diagnose(f)
    BY <1>2, BeginKeeps DEF Call, Diagnose
  <1>3. CASE Write
    BY <1>3, WriteKeeps
  <1>4. CASE Receive
    BY <1>4, ReceiveKeeps
  <1>5. CASE ServerGone \/ FailWrite
    <2>1. asked' = NoId /\ UNCHANGED <<nextId, calls, heard, pipe>>
      BY <1>5 DEF ServerGone, FailWrite, GiveUp, Settle, peer
    <2>2. last' = last \/ last' = [outcome |-> "crashed", call |-> calls, got |-> Nothing]
      BY <1>5 DEF ServerGone, FailWrite, Settle
    <2> QED BY <2>1, <2>2, PipeStays, EndingKeeps
  <1>6. CASE TimeOut
    BY <1>6, TimeOutKeeps
  <1>7. CASE TimeOutConnecting \/ Dropped
    BY <1>7, GoneKeeps DEF TimeOutConnecting, Dropped, history
  <1>8. CASE Shutdown
    <2>1. calls' = calls /\ calls \in Nat /\ heard' \subseteq heard \cup {<<nextId, calls>>}
      BY <1>8 DEF Shutdown, Deliver, history, AnswerInv, Typed
    <2> QED BY <1>8, <2>1, PipeStays, AskingKeeps, LastStays DEF Shutdown, history
  <1> QED BY <1>1, <1>2, <1>3, <1>4, <1>5, <1>6, <1>7, <1>8 DEF Client

LEMMA StepKeeps == AnswerInv /\ [Next]_vars => AnswerInv'
  <1> SUFFICES ASSUME AnswerInv, [Next]_vars PROVE AnswerInv'
    OBVIOUS
  <1>1. CASE Next
    BY <1>1, ServerKeeps, ClientKeeps DEF Next
  <1>2. CASE UNCHANGED vars
    BY <1>2, PipeStays, GoingOnKeeps, LastStays DEF vars, client, peer, history
  <1> QED BY <1>1, <1>2

-------------------------------------------------------------------------------
(* An answer reaches the call that asked for it and no other, for any number of calls that*)
(* are given up and any server, however late it answers (mcp.rs:183-219, lsp.rs:215-237). *)
THEOREM AnswersComeHome == Spec => []AnswerIsOwn
  <1>1. AnswerInv => AnswerIsOwn
    BY DEF AnswerInv
  <1> QED BY <1>1, InitHolds, StepKeeps, PTL DEF Spec


-------------------------------------------------------------------------------
(* Types *)

\* What a pipe may hold: only what is published names a file.
Wire == {m \in Messages : m.what = "published" => m.file \in Files}
Pipes == {p \in Seq(Wire) : Len(p) <= MaxPipe}

\* The inductive invariant: TypeOK, with the numbers and the pipe as narrow as they are.
TypeInv ==
    /\ link \in {"mcp", "lsp"}
    /\ step \in Connecting \cup Calling \cup {"off", "idle", "shutdown", "gone"}
    /\ file \in Files \cup {NoFile} /\ nextId \in Nat \ {0} /\ asked \in (1..nextId) \cup {NoId}
    /\ observed \subseteq Files /\ lost \in BOOLEAN
    /\ server \in {"none", "up", "dead"} /\ heard \subseteq (1..nextId) \X (0..calls)
    /\ spoiled \in BOOLEAN
    /\ pipe \in Pipes
    /\ chatter \in 0..MaxChatter /\ calls \in 0..MaxCalls
    /\ failures \in Nat /\ spoilers \in Nat

LEMMA TypeInvIsTyped == TypeInv => TypeOK
  <1>1. Wire \subseteq Messages
    BY DEF Wire
  <1>2. pipe \in Pipes => pipe \in Seq(Messages) /\ Len(pipe) <= MaxPipe
    BY <1>1, SeqMonotonic DEF Pipes
  <1>3. nextId \in Nat \ {0} /\ asked \in (1..nextId) \cup {NoId} => asked \in Nat \cup {NoId} /\ nextId \in Nat
    OBVIOUS
  <1> QED BY <1>2, <1>3 DEF TypeInv, TypeOK, Messages

LEMMA PipesFacts ==
    ASSUME NEW p \in Pipes
    PROVE  /\ p \in Seq(Wire) /\ Len(p) \in Nat /\ Len(p) <= MaxPipe
           /\ \A m \in Wire : Len(p) < MaxPipe => Append(p, m) \in Pipes
           /\ p # <<>> => /\ Head(p) \in Wire /\ Tail(p) \in Pipes
                          /\ <<Unspoken>> \o Tail(p) \in Pipes
           /\ <<>> \in Pipes
  <1>1. p \in Seq(Wire) /\ Len(p) \in Nat /\ Len(p) <= MaxPipe /\ MaxPipe \in Nat
    BY ToolServerAssumption DEF Pipes
  <1>2. Unspoken \in Wire
    BY DEF Unspoken, Message, Messages, Wire
  <1>3. ASSUME NEW m \in Wire, Len(p) < MaxPipe PROVE Append(p, m) \in Pipes
    <2>1. Append(p, m) \in Seq(Wire) /\ Len(Append(p, m)) = Len(p) + 1
      BY <1>1
    <2> QED BY <1>1, <1>3, <2>1 DEF Pipes
  <1>4. ASSUME p # <<>>
        PROVE  Head(p) \in Wire /\ Tail(p) \in Pipes /\ <<Unspoken>> \o Tail(p) \in Pipes
    <2>1. Head(p) \in Wire /\ Tail(p) \in Seq(Wire) /\ Len(Tail(p)) = Len(p) - 1
      BY <1>1, <1>4
    <2>2. <<Unspoken>> \in Seq(Wire) /\ Len(<<Unspoken>>) = 1
      BY <1>2
    <2> HIDE DEF Unspoken
    <2>3. <<Unspoken>> \o Tail(p) \in Seq(Wire) /\ Len(<<Unspoken>> \o Tail(p)) = 1 + Len(Tail(p))
      BY <2>1, <2>2
    <2> QED BY <1>1, <2>1, <2>3 DEF Pipes
  <1>5. <<>> \in Pipes
    BY <1>1 DEF Pipes
  <1> QED BY <1>1, <1>3, <1>4, <1>5

LEMMA TypeInitial == Init => TypeInv
  <1> SUFFICES ASSUME Init PROVE TypeInv
    OBVIOUS
  <1>1. <<>> \in Pipes
    BY ToolServerAssumption, EmptySeq DEF Pipes
  <1>2. 0 \in 0..MaxChatter /\ 0 \in 0..MaxCalls /\ 1 \in Nat \ {0}
    BY ToolServerAssumption
  <1> QED BY <1>1, <1>2 DEF Init, TypeInv

\* A chat with a message that the wire allows.
LEMMA ChatTyped ==
    ASSUME TypeInv, NEW m \in Wire, Chat(m)
    PROVE  TypeInv'
  <1>1. pipe' \in Pipes
    BY PipesFacts DEF TypeInv, Chat, Speaks
  <1>2. chatter' \in 0..MaxChatter /\ spoilers' \in Nat
    BY ToolServerAssumption DEF TypeInv, Chat
  <1> QED BY <1>1, <1>2 DEF TypeInv, Chat, client

LEMMA ServerTyped == TypeInv /\ Server => TypeInv'
  <1> SUFFICES ASSUME TypeInv, Server PROVE TypeInv'
    OBVIOUS
  <1>1. ASSUME NEW q \in heard, Answer(q) PROVE TypeInv'
    <2> DEFINE m == Message("answer", q[1], NoFile, q[2])
    <2>1. q[1] \in Nat /\ q[2] \in Nat
      BY DEF TypeInv
    <2>2. m \in Wire
      BY <2>1 DEF Message, Messages, Wire
    <2>3. pipe' = Append(pipe, m) /\ Len(pipe) < MaxPipe
      BY <1>1 DEF Answer, Speaks
    <2> HIDE DEF m
    <2>4. pipe' \in Pipes
      BY <2>2, <2>3, PipesFacts DEF TypeInv
    <2> QED BY <1>1, <2>4 DEF TypeInv, Answer, client, history
  <1>2. /\ \A f \in Files : Message("published", NoId, f, 0) \in Wire
        /\ \A i \in Nat : Message("question", i, NoFile, 0) \in Wire
        /\ Message("note", NoId, NoFile, 0) \in Wire
        /\ Message("garbage", NoId, NoFile, 0) \in Wire
    BY DEF Message, Messages, Wire
  <1>3. CASE Log \/ Babble \/ (\E f \in Files : Publish(f))
    BY <1>2, <1>3, ChatTyped DEF Log, Babble, Publish
  <1>4. CASE \E i \in 1..(MaxCalls + 2) : Question(i)
    BY <1>2, <1>4, ChatTyped DEF Question
  <1>5. CASE Die
    BY <1>5 DEF Die, TypeInv, client, history
  <1> QED BY <1>1, <1>3, <1>4, <1>5 DEF Server

LEMMA DeliverTyped ==
    ASSUME TypeInv, NEW ids \in SUBSET (1..nextId), NEW c \in 0..MaxCalls, Deliver(ids, c),
           c <= calls', calls <= calls', calls' \in Nat, nextId' \in {nextId, nextId + 1}
    PROVE  heard' \subseteq (1..nextId') \X (0..calls') /\ spoiled' \in BOOLEAN
  <1>1. ids \X {c} \subseteq (1..nextId) \X (0..calls')
    <2>1. c \in 0..calls'
      BY ToolServerAssumption
    <2> QED BY <2>1
  <1>2. heard' \subseteq (1..nextId) \X (0..calls')
    BY <1>1, ToolServerAssumption DEF TypeInv, Deliver
  <1>3. (1..nextId) \subseteq 1..nextId'
    BY DEF TypeInv
  <1> QED BY <1>2, <1>3 DEF Deliver

\* The requests that were heard still count when a number is given out.
LEMMA HeardTyped ==
    ASSUME TypeInv, heard' \subseteq heard, calls' \in {calls, calls + 1}, nextId' \in {nextId, nextId + 1}
    PROVE  heard' \subseteq (1..nextId') \X (0..calls')
  <1>1. (1..nextId) \subseteq 1..nextId' /\ (0..calls) \subseteq 0..calls'
    BY ToolServerAssumption DEF TypeInv
  <1> QED BY <1>1 DEF TypeInv

LEMMA BeginTyped ==
    ASSUME TypeInv, NEW next \in Calling, NEW f \in Files \cup {NoFile}, NEW id \in {nextId, NoId},
           Begin(next, f, id)
    PROVE  TypeInv'
  <1>1. /\ calls' = calls + 1 /\ calls' \in 0..MaxCalls /\ calls' \in Nat /\ nextId \in Nat \ {0}
        /\ nextId # NoId
    BY ToolServerAssumption DEF Begin, TypeInv
  <1>2. nextId' \in {nextId, nextId + 1} /\ nextId' \in Nat \ {0} /\ asked' \in (1..nextId') \cup {NoId}
    BY <1>1 DEF Begin
  <1>3. heard' \subseteq (1..nextId') \X (0..calls') /\ spoiled' \in BOOLEAN
    <2>1. CASE Deliver({id} \ {NoId}, calls + 1)
      <3>1. {id} \ {NoId} \in SUBSET (1..nextId)
        BY <1>1
      <3>2. calls + 1 \in 0..MaxCalls /\ calls + 1 <= calls' /\ calls <= calls'
        BY <1>1 DEF TypeInv
      <3> QED BY <1>1, <1>2, <2>1, <3>1, <3>2, DeliverTyped
    <2>2. CASE UNCHANGED <<heard, spoiled>>
      BY <1>1, <1>2, <2>2, HeardTyped DEF TypeInv
    <2> QED BY <2>1, <2>2 DEF Begin
  <1>4. step' \in Calling /\ file' \in Files \cup {NoFile}
    BY DEF Begin, Calling
  <1> QED BY <1>1, <1>2, <1>3, <1>4 DEF TypeInv, Begin

\* A request under the next number: connecting, the list of tools, the shutdown.
LEMMA AskTyped ==
    ASSUME TypeInv, asked' = nextId, nextId' = nextId + 1, calls' = calls,
           \/ Deliver({nextId}, calls)
           \/ heard' \in {heard, {<<nextId, calls>>}} /\ spoiled' = spoiled
    PROVE  /\ nextId' \in Nat \ {0} /\ asked' \in (1..nextId') \cup {NoId}
           /\ heard' \subseteq (1..nextId') \X (0..calls') /\ spoiled' \in BOOLEAN
  <1>1. nextId \in 1..nextId /\ nextId \in Nat \ {0} /\ calls \in 0..MaxCalls /\ calls \in Nat
    BY ToolServerAssumption DEF TypeInv
  <1>2. CASE Deliver({nextId}, calls)
    BY <1>1, <1>2, DeliverTyped
  <1>3. CASE heard' = {<<nextId, calls>>} /\ spoiled' = spoiled
    BY <1>1, <1>3 DEF TypeInv
  <1>4. CASE heard' = heard /\ spoiled' = spoiled
    BY <1>1, <1>4, HeardTyped DEF TypeInv
  <1>5. \/ Deliver({nextId}, calls)
        \/ heard' = {<<nextId, calls>>} /\ spoiled' = spoiled
        \/ heard' = heard /\ spoiled' = spoiled
    OBVIOUS
  <1> QED BY <1>2, <1>3, <1>4, <1>5

LEMMA ReceiveTyped ==
    ASSUME TypeInv, Receive
    PROVE  TypeInv'
  <1> DEFINE m == Head(pipe)
  <1>0. pipe # <<>> /\ pipe' = Tail(pipe) /\ step \in Connecting \cup {"call", "diagnose", "shutdown"}
        /\ UNCHANGED <<link, lost, chatter, calls, spoilers>>
    BY DEF Receive, Consume, Waiting, Connecting
  <1>1. m \in Wire /\ pipe' \in Pipes
    BY <1>0, PipesFacts DEF TypeInv
  <1>2. NoId \in (1..nextId') \cup {NoId}
    OBVIOUS
  <1>3. CASE FailReading
    <2>1. step' \in {"gone", "idle"} /\ asked' = NoId /\ file' \in {file, NoFile} /\ server' \in {server, "none"}
          /\ failures' \in Nat /\ UNCHANGED <<nextId, observed, heard, spoiled>>
      BY <1>3 DEF FailReading, GiveUp, Settle, TypeInv
    <2> QED BY <1>0, <1>1, <1>2, <2>1 DEF TypeInv
  <1>4. CASE UNCHANGED <<step, file, asked, nextId, observed, server, heard, spoiled, last, failures>>
    BY <1>0, <1>1, <1>4 DEF TypeInv
  <1>5. CASE PassOver(m) /\ m.what # "rest"
    <2>1. observed' \subseteq Files
      BY <1>1, <1>5 DEF PassOver, TypeInv, Wire
    <2>2. /\ UNCHANGED <<nextId, heard, spoiled, server, failures>>
          /\ \/ step' = "idle" /\ asked' = NoId /\ file' = NoFile
             \/ UNCHANGED <<step, asked, file>>
      BY <1>5 DEF PassOver, Settle
    <2> HIDE DEF m
    <2> QED BY <1>0, <1>1, <1>2, <2>1, <2>2 DEF TypeInv
  <1>6. CASE Complete(m) /\ UNCHANGED <<observed, failures>>
    <2>1. CASE /\ step' \in {"list", "announce"} /\ asked' = nextId /\ nextId' = nextId + 1
               /\ Deliver({nextId}, calls) \/ UNCHANGED <<heard, spoiled>>
               /\ UNCHANGED <<server, file>>
      BY <1>0, <1>1, <1>6, <2>1, AskTyped DEF TypeInv, Connecting
    <2>2. CASE /\ step' \in {"gone", "idle", "announce"} /\ asked' = NoId /\ file' \in {file, NoFile}
               /\ server' \in {server, "none"} /\ UNCHANGED <<nextId, heard, spoiled>>
      BY <1>0, <1>1, <1>2, <1>6, <2>2 DEF TypeInv, Connecting
    <2> HIDE DEF m
    <2> QED BY <1>6, <2>1, <2>2 DEF Complete, GiveUp, Settle
  <1> HIDE DEF m
  <1> QED BY <1>3, <1>4, <1>5, <1>6 DEF Receive, m

LEMMA ClientTyped == TypeInv /\ Client => TypeInv'
  <1> SUFFICES ASSUME TypeInv, Client PROVE TypeInv'
    OBVIOUS
  <1>0. NoId \in (1..nextId') \cup {NoId} /\ <<>> \in Pipes
    BY PipesFacts DEF TypeInv
  <1>1. CASE Spawn
    BY <1>1, AskTyped DEF Spawn, TypeInv, history, Connecting
  <1>2. CASE Call \/ \E f \in Files : Diagnose(f)
    BY <1>2, BeginTyped DEF Call, Diagnose, Calling
  <1>3. CASE Write
    <2>1. {asked} \ {NoId} \in SUBSET (1..nextId) /\ calls \in 0..MaxCalls /\ calls \in Nat /\ calls <= calls
      BY ToolServerAssumption DEF TypeInv
    <2>2. UNCHANGED <<calls, nextId>> /\ Deliver({asked} \ {NoId}, calls)
      BY <1>3 DEF Write, history
    <2>3. heard' \subseteq (1..nextId') \X (0..calls') /\ spoiled' \in BOOLEAN
      BY <2>1, <2>2, DeliverTyped
    <2> QED BY <1>3, <2>3 DEF Write, Written, TypeInv, history, Calling, Connecting
  <1>4. CASE Receive
    BY <1>4, ReceiveTyped
  <1>5. CASE ServerGone \/ FailWrite
    <2>1. /\ step' \in {"gone", "idle"} /\ asked' = NoId /\ file' \in {file, NoFile} /\ server' \in {server, "none"}
          /\ UNCHANGED <<link, nextId, observed, lost, heard, spoiled, pipe, chatter, calls, failures, spoilers>>
      BY <1>5 DEF ServerGone, FailWrite, GiveUp, Settle, peer
    <2> QED BY <1>0, <2>1 DEF TypeInv
  <1>6. CASE TimeOut
    <2>1. pipe' \in Pipes /\ lost' \in BOOLEAN /\ spoilers' \in Nat
      <3>1. CASE CutRead /\ spoilers' = spoilers + 1
        <4>1. pipe # <<>> /\ pipe' \in {Tail(pipe), <<Unspoken>> \o Tail(pipe)} /\ lost' \in {lost, TRUE}
          BY <3>1 DEF CutRead
        <4>2. pipe' \in Pipes
          BY <4>1, PipesFacts DEF TypeInv
        <4>3. lost' \in BOOLEAN
          <5>1. lost \in BOOLEAN
            BY DEF TypeInv
          <5> QED BY <4>1, <5>1
        <4>4. spoilers' \in Nat
          BY <3>1 DEF TypeInv
        <4> QED BY <4>2, <4>3, <4>4
      <3>2. CASE UNCHANGED <<pipe, lost, spoilers>>
        BY <3>2 DEF TypeInv
      <3> QED BY <1>6, <3>1, <3>2 DEF TimeOut
    <2>2. spoiled' \in BOOLEAN
      BY <1>6 DEF TimeOut, TypeInv
    <2>3. /\ step' = "idle" /\ asked' = NoId /\ file' = NoFile
          /\ UNCHANGED <<link, nextId, observed, server, heard, chatter, calls, failures>>
      BY <1>6 DEF TimeOut, Settle
    <2> QED BY <1>0, <2>1, <2>2, <2>3 DEF TypeInv
  <1>7. CASE TimeOutConnecting \/ Dropped
    <2>1. Gone /\ UNCHANGED <<link, nextId, observed, lost, spoiled, chatter, calls, failures, spoilers>>
      BY <1>7 DEF TimeOutConnecting, Dropped, history
    <2> QED BY <1>0, <2>1 DEF TypeInv, Gone
  <1>8. CASE Shutdown
    BY <1>8, AskTyped DEF Shutdown, TypeInv, history
  <1> QED BY <1>1, <1>2, <1>3, <1>4, <1>5, <1>6, <1>7, <1>8 DEF Client

LEMMA TypeStep == TypeInv /\ [Next]_vars => TypeInv'
  <1> SUFFICES ASSUME TypeInv, [Next]_vars PROVE TypeInv'
    OBVIOUS
  <1>1. CASE Next
    BY <1>1, ServerTyped, ClientTyped DEF Next
  <1>2. CASE UNCHANGED vars
    BY <1>2 DEF vars, client, peer, history, TypeInv
  <1> QED BY <1>1, <1>2

(* Every reachable state of a connection is well typed, and its pipe keeps its bound: no   *)
(* number is waited for that was not given out, whatever the server writes.                *)
THEOREM TypeCorrect == Spec => []TypeOK
  BY TypeInitial, TypeStep, TypeInvIsTyped, PTL DEF Spec

-------------------------------------------------------------------------------
(* What cannot be read *)

\* 1 for a message that cannot be read, 0 for any other.
Bad(m) == IF m.what \in {"garbage", "rest"} THEN 1 ELSE 0

LEMMA UnreadFinite ==
    ASSUME NEW p, Len(p) \in Nat
    PROVE  IsFiniteSet(Unread(p)) /\ Cardinality(Unread(p)) \in Nat
  <1>1. IsFiniteSet(1..Len(p))
    BY FS_Interval
  <1>2. IsFiniteSet(Unread(p))
    BY <1>1, FS_Subset DEF Unread
  <1> QED BY <1>2, FS_CardinalityType

LEMMA UnreadAppended ==
    ASSUME NEW p \in Seq(Messages), NEW m \in Messages
    PROVE  Cardinality(Unread(Append(p, m))) = Cardinality(Unread(p)) + Bad(m)
  <1> DEFINE n == Len(p) + 1
             q == Append(p, m)
  <1>1. Len(p) \in Nat /\ Len(q) = n /\ q[n] = m /\ \A i \in 1..Len(p) : q[i] = p[i]
    BY AppendProperties
  <1>2. n \notin Unread(p) /\ n \in 1..n /\ \A i \in 1..n : i = n \/ i \in 1..Len(p)
    BY <1>1 DEF Unread
  <1>3. \A i \in 1..Len(p) : i \in 1..n /\ i # n
    BY <1>1
  <1> HIDE DEF q, n
  <1>4. Unread(q) = IF m.what \in {"garbage", "rest"} THEN Unread(p) \cup {n} ELSE Unread(p)
    BY <1>1, <1>2, <1>3 DEF Unread
  <1>5. IsFiniteSet(Unread(p)) /\ Cardinality(Unread(p)) \in Nat
    BY <1>1, UnreadFinite
  <1>6. Cardinality(Unread(p) \cup {n}) = Cardinality(Unread(p)) + 1
    BY <1>2, <1>5, FS_AddElement
  <1>7. Cardinality(Unread(q)) = Cardinality(Unread(p)) + Bad(m)
    BY <1>4, <1>5, <1>6 DEF Bad
  <1> QED BY <1>7 DEF q

\* What is behind the first message is where it was, one place further on.
LEMMA UnreadBehind ==
    ASSUME NEW p \in Seq(Messages), p # <<>>
    PROVE  Cardinality(Unread(p)) = Cardinality(Unread(Tail(p))) + Bad(Head(p))
  <1> DEFINE q == Tail(p)
             S == {i \in 2..Len(p) : i \in Unread(p)}
  <1>1. /\ Len(p) \in Nat \ {0} /\ Len(q) = Len(p) - 1 /\ Len(q) \in Nat /\ Head(p) = p[1]
        /\ \A i \in 1..Len(q) : q[i] = p[i + 1]
    BY HeadTailProperties, EmptySeq
  <1>2. \A i \in 1..Len(q) : i + 1 \in 2..Len(p)
    BY <1>1
  <1>3. \A i \in 2..Len(p) : i - 1 \in 1..Len(q) /\ (i - 1) + 1 = i
    BY <1>1
  <1> HIDE DEF q
  <1>4. ExistsBijection(Unread(q), S)
    <2> DEFINE f == [i \in Unread(q) |-> i + 1]
    <2>1. \A i \in Unread(q) : i \in 1..Len(q) /\ i \in Int
      BY <1>1 DEF Unread
    <2>2. \A i \in Unread(q) : i + 1 \in S
      BY <1>1, <1>2, <1>3 DEF Unread
    <2>3. \A i \in S : i - 1 \in Unread(q) /\ (i - 1) + 1 = i
      BY <1>1, <1>3 DEF Unread
    <2>4. \A i, j \in Unread(q) : i + 1 = j + 1 => i = j
      BY <2>1
    <2>5. f \in [Unread(q) -> S]
      BY <2>2
    <2>6. (\A i, j \in Unread(q) : f[i] = f[j] => i = j) /\ \A k \in S : \E i \in Unread(q) : f[i] = k
      BY <2>3, <2>4
    <2> HIDE DEF f
    <2>7. f \in Injection(Unread(q), S) /\ f \in Surjection(Unread(q), S)
      BY <2>5, <2>6, Fun_IsInj, Fun_IsSurj
    <2> QED BY <2>7 DEF ExistsBijection, Bijection
  <1>5. IsFiniteSet(Unread(q)) /\ Cardinality(Unread(q)) \in Nat
    BY <1>1, UnreadFinite
  <1>6. IsFiniteSet(S) /\ Cardinality(S) = Cardinality(Unread(q))
    BY <1>4, <1>5, FS_Bijection
  <1>7. 1 \notin S /\ 1 \in 1..Len(p) /\ \A i \in 1..Len(p) : i = 1 \/ i \in 2..Len(p)
    BY <1>1
  <1>8. \A i \in 2..Len(p) : i \in 1..Len(p)
    BY <1>1
  <1>9. Unread(p) = IF p[1].what \in {"garbage", "rest"} THEN S \cup {1} ELSE S
    BY <1>7, <1>8 DEF Unread
  <1> HIDE DEF S
  <1>10. Cardinality(S \cup {1}) = Cardinality(S) + 1
    BY <1>6, <1>7, FS_AddElement
  <1>11. Cardinality(Unread(p)) = Cardinality(Unread(q)) + Bad(Head(p))
    BY <1>1, <1>5, <1>6, <1>9, <1>10 DEF Bad
  <1> QED BY <1>11 DEF q

LEMMA UnreadCut ==
    ASSUME NEW p \in Seq(Messages), p # <<>>
    PROVE  /\ Cardinality(Unread(<<Unspoken>> \o Tail(p))) <= Cardinality(Unread(p)) + 1
           /\ Cardinality(Unread(Tail(p))) <= Cardinality(Unread(p))
  <1> DEFINE q == <<Unspoken>> \o Tail(p)
  <1>1. Unspoken \in Messages /\ Tail(p) \in Seq(Messages)
    BY HeadTailProperties DEF Unspoken, Message, Messages
  <1>2. q \in Seq(Messages) /\ Len(q) = 1 + Len(Tail(p)) /\ Len(Tail(p)) \in Nat
        /\ q[1] = Unspoken /\ \A i \in 1..Len(Tail(p)) : q[i + 1] = Tail(p)[i]
    <2>1. <<Unspoken>> \in Seq(Messages) /\ Len(<<Unspoken>>) = 1 /\ <<Unspoken>>[1] = Unspoken
      BY <1>1
    <2> HIDE DEF Unspoken
    <2> QED BY <1>1, <2>1, ConcatProperties, LenProperties
  <1> HIDE DEF q
  <1>3. q # <<>> /\ Tail(q) = Tail(p)
    <2>1. q # <<>>
      BY <1>2, EmptySeq
    <2>2. /\ Tail(q) \in Seq(Messages) /\ Len(Tail(q)) = Len(Tail(p))
          /\ \A i \in 1..Len(Tail(q)) : Tail(q)[i] = q[i + 1]
      BY <1>2, <2>1, HeadTailProperties
    <2> QED BY <1>1, <1>2, <2>1, <2>2, SeqEqual
  <1>4. Cardinality(Unread(q)) = Cardinality(Unread(Tail(p))) + Bad(Head(q))
    BY <1>2, <1>3, UnreadBehind
  <1>5. Cardinality(Unread(p)) = Cardinality(Unread(Tail(p))) + Bad(Head(p))
    BY UnreadBehind
  <1>6. Cardinality(Unread(Tail(p))) \in Nat
    BY <1>2, UnreadFinite
  <1>7. Bad(Head(p)) \in {0, 1} /\ Bad(Head(q)) \in {0, 1}
    BY DEF Bad
  <1> QED BY <1>4, <1>5, <1>6, <1>7 DEF q

\* The inductive invariant: a client of an MCP server never loses its place, and what
\* failed is paid for by what was spoiled and has been read.
SpentInv == TypeInv /\ (link = "mcp" => ~lost) /\ SpoilersAreSpent

LEMMA PipeIsOfMessages == TypeInv => pipe \in Seq(Messages)
  BY TypeInvIsTyped DEF TypeOK, Messages

\* Nothing is read, nothing is spoiled.
LEMMA NothingSpent ==
    ASSUME SpentInv, UNCHANGED <<link, lost, failures, spoilers>>,
           pipe' = pipe \/ pipe' = <<>>
    PROVE  (link = "mcp" => ~lost)' /\ SpoilersAreSpent'
  <1>1. pipe \in Seq(Messages) /\ Len(pipe) \in Nat
    BY PipeIsOfMessages, LenProperties DEF SpentInv
  <1>2. Cardinality(Unread(pipe)) \in Nat
    BY <1>1, UnreadFinite
  <1>3. Cardinality(Unread(<<>>)) = 0
    <2>1. Unread(<<>>) = {}
      BY DEF Unread
    <2> QED BY <2>1, FS_EmptySet
  <1>4. failures \in Nat /\ spoilers \in Nat
    BY DEF SpentInv, TypeInv
  <1> QED BY <1>2, <1>3, <1>4 DEF SpentInv, SpoilersAreSpent

\* The first message is read; a failure is one that it accounts for.
LEMMA ReadSpent ==
    ASSUME SpentInv, UNCHANGED <<link, lost, spoilers>>, pipe # <<>>, pipe' = Tail(pipe),
           failures' = failures \/ ((link = "mcp" => Bad(Head(pipe)) = 1) /\ failures' = failures + 1)
    PROVE  (link = "mcp" => ~lost)' /\ SpoilersAreSpent'
  <1>1. pipe \in Seq(Messages) /\ Len(Tail(pipe)) \in Nat
    BY PipeIsOfMessages, HeadTailProperties, LenProperties DEF SpentInv
  <1>2. Cardinality(Unread(pipe)) = Cardinality(Unread(Tail(pipe))) + Bad(Head(pipe))
    BY <1>1, UnreadBehind
  <1>3. Cardinality(Unread(Tail(pipe))) \in Nat
    BY <1>1, UnreadFinite
  <1>4. failures \in Nat /\ spoilers \in Nat /\ Bad(Head(pipe)) \in {0, 1}
    BY DEF SpentInv, TypeInv, Bad
  <1> QED BY <1>2, <1>3, <1>4 DEF SpentInv, SpoilersAreSpent

\* The server writes: what cannot be read is counted when it is written.
LEMMA WrittenSpent ==
    ASSUME SpentInv, NEW m \in Messages, m.what # "rest", pipe' = Append(pipe, m),
           UNCHANGED <<link, lost, failures>>,
           spoilers' = IF m.what = "garbage" THEN spoilers + 1 ELSE spoilers
    PROVE  (link = "mcp" => ~lost)' /\ SpoilersAreSpent'
  <1>1. pipe \in Seq(Messages) /\ Len(pipe) \in Nat
    BY PipeIsOfMessages, LenProperties DEF SpentInv
  <1>2. Cardinality(Unread(pipe')) = Cardinality(Unread(pipe)) + Bad(m)
    BY <1>1, UnreadAppended
  <1>3. Cardinality(Unread(pipe)) \in Nat /\ failures \in Nat /\ spoilers \in Nat
    BY <1>1, UnreadFinite DEF SpentInv, TypeInv
  <1>4. spoilers' = spoilers + Bad(m)
    BY <1>3 DEF Bad
  <1> QED BY <1>2, <1>3, <1>4 DEF SpentInv, SpoilersAreSpent, Bad

\* A call is given up within a message.
LEMMA CutSpent ==
    ASSUME SpentInv, CutRead, UNCHANGED <<link, failures>>, spoilers' = spoilers + 1
    PROVE  (link = "mcp" => ~lost)' /\ SpoilersAreSpent'
  <1>1. pipe \in Seq(Messages) /\ pipe # <<>> /\ Len(pipe) \in Nat
    BY PipeIsOfMessages, LenProperties DEF SpentInv, CutRead
  <1>2. Cardinality(Unread(pipe)) \in Nat /\ failures \in Nat /\ spoilers \in Nat
    BY <1>1, UnreadFinite DEF SpentInv, TypeInv
  <1>3. CASE link = "mcp"
    <2>1. pipe' = <<Unspoken>> \o Tail(pipe) /\ lost' = lost
      BY <1>3 DEF CutRead
    <2>2. Unspoken \in Messages
      BY DEF Unspoken, Message, Messages
    <2>3. pipe' \in Pipes
      BY <1>1, <2>1, PipesFacts DEF SpentInv, TypeInv
    <2>4. Cardinality(Unread(pipe')) \in Nat
      BY <2>3, LenProperties, UnreadFinite DEF Pipes
    <2>5. Cardinality(Unread(pipe')) <= Cardinality(Unread(pipe)) + 1
      BY <1>1, <2>1, UnreadCut
    <2> QED BY <1>2, <1>3, <2>1, <2>4, <2>5 DEF SpentInv, SpoilersAreSpent
  <1>4. CASE link # "mcp"
    BY <1>4 DEF SpoilersAreSpent
  <1> QED BY <1>3, <1>4

LEMMA SpentStep == SpentInv /\ [Next]_vars => SpentInv'
  <1> SUFFICES ASSUME SpentInv, [Next]_vars
               PROVE  (link = "mcp" => ~lost)' /\ SpoilersAreSpent'
    BY TypeStep DEF SpentInv
  <1>1. ASSUME NEW q \in heard, Answer(q)
        PROVE  (link = "mcp" => ~lost)' /\ SpoilersAreSpent'
    <2> DEFINE m == Message("answer", q[1], NoFile, q[2])
    <2>1. q[1] \in Nat /\ q[2] \in Nat
      BY DEF SpentInv, TypeInv
    <2>2. m \in Messages /\ m.what = "answer"
      BY <2>1 DEF Message, Messages
    <2>3. pipe' = Append(pipe, m) /\ UNCHANGED <<link, lost, failures, spoilers>>
      BY <1>1 DEF Answer, client, history
    <2> HIDE DEF m
    <2> QED BY <2>2, <2>3, WrittenSpent
  <1>2. ASSUME NEW m \in Messages, m.what # "rest", Chat(m)
        PROVE  (link = "mcp" => ~lost)' /\ SpoilersAreSpent'
    BY <1>2, WrittenSpent DEF Chat, client
  <1>3. CASE Log \/ Babble \/ (\E f \in Files : Publish(f)) \/ \E i \in Nat : Question(i)
    <2>1. \A f \in Files \cup {NoFile} : \A id \in Nat \cup {NoId} :
              \A what \in {"published", "question", "note", "garbage"} :
                  Message(what, id, f, 0) \in Messages /\ Message(what, id, f, 0).what # "rest"
      BY DEF Message, Messages
    <2> QED BY <1>2, <1>3, <2>1 DEF Log, Babble, Publish, Question
  <1>4. CASE Receive
    <2>1. pipe # <<>> /\ pipe' = Tail(pipe) /\ UNCHANGED <<link, lost, spoilers>>
      BY <1>4 DEF Receive, Consume
    <2>2. failures' = failures \/ ((link = "mcp" => Bad(Head(pipe)) = 1) /\ failures' = failures + 1)
      BY <1>4 DEF Receive, FailReading, Unreadable, PassOver, Bad, SpentInv
    <2> QED BY <2>1, <2>2, ReadSpent
  <1>5. CASE TimeOut
    BY <1>5, CutSpent, NothingSpent DEF TimeOut
  <1>6. CASE TimeOutConnecting \/ Dropped
    BY <1>6, NothingSpent DEF TimeOutConnecting, Dropped, Gone, history
  <1>7. CASE Die \/ Spawn \/ Write \/ ServerGone \/ FailWrite \/ Shutdown \/ UNCHANGED vars
    BY <1>7, NothingSpent DEF Die, Spawn, Write, ServerGone, FailWrite, Shutdown, vars, client, peer, history
  <1>8. CASE Call \/ \E f \in Files : Diagnose(f)
    BY <1>8, NothingSpent DEF Call, Diagnose, Begin
  <1>9. \A i \in 1..(MaxCalls + 2) : i \in Nat
    BY ToolServerAssumption
  <1> QED BY <1>1, <1>3, <1>4, <1>5, <1>6, <1>7, <1>8, <1>9 DEF Next, Server, Client

(* What cannot be read costs at most one later call of an MCP server, for any number of    *)
(* calls given up in the middle of a line and any lines that are no messages: the reader   *)
(* never loses its place (mcp.rs:185-219).                                                 *)
THEOREM SpoilersCostOnce == Spec => []SpoilersAreSpent
  <1>1. Init => SpentInv
    <2> SUFFICES ASSUME Init PROVE SpentInv
      OBVIOUS
    <2>1. Unread(<<>>) = {}
      BY DEF Unread
    <2>2. Cardinality(Unread(<<>>)) = 0
      BY <2>1, FS_EmptySet
    <2> QED BY <2>2, TypeInitial DEF Init, SpentInv, SpoilersAreSpent
  <1>2. SpentInv => SpoilersAreSpent
    BY DEF SpentInv
  <1> QED BY <1>1, <1>2, SpentStep, PTL DEF Spec

-------------------------------------------------------------------------------
(* Pieces, events and what the adapters make of them *)

\* What crosses the wire, and what is said.
Pieces == [n : Nat \ {0}, intact : BOOLEAN]
Counts == [prompt : Nat, completion : Nat, total : Nat]
Records == [id : Ids, args : Seq(Nat), open : BOOLEAN]
\* The events there are, with pieces in S.
Spoken(S) == [kind : {"text", "thought"}, piece : S]
\* The others.
Plain ==
    [kind : {"comment", "error", "newline"}] \cup [kind : {"start", "usage"}, usage : Counts]
    \cup [kind : {"call"}, index : Nat, id : Seq(Ids), args : Seq(Nat)]
    \cup [kind : {"args"}, index : Nat, args : Seq(Nat)]
    \cup [kind : {"done"}, usage : Counts, output : Seq(Records)]
Events == Plain \cup Spoken(Pieces)
Symbols == [event : Events, half : 0..2, torn : BOOLEAN]
Sayings == [text : Seq(Nat), thought : Seq(Nat), calls : Seq(Records), usage : Counts, ended : BOOLEAN]
\* What was gathered, with pieces in S; and what is gathered with their numbers alone,
\* which does not depend on how a chunk was decoded.
Shape(r, S) ==
    /\ r = [text |-> r.text, thought |-> r.thought, calls |-> r.calls, callOf |-> r.callOf,
            usage |-> r.usage, complete |-> r.complete, failed |-> r.failed]
    /\ r.text \in Seq(S) /\ r.thought \in Seq(S) /\ r.complete \in BOOLEAN /\ r.failed \in BOOLEAN
View(r) == [text |-> Numbers(r.text), thought |-> Numbers(r.thought), calls |-> r.calls,
            callOf |-> r.callOf, usage |-> r.usage, complete |-> r.complete, failed |-> r.failed]
\* An event with the number of its piece alone.
Bare(e) == IF e.kind \in {"text", "thought"} THEN [e EXCEPT !.piece = @.n] ELSE e
\* The protocol is one of the three.
Known == protocol \in {"chat", "responses", "anthropic"}

\* The numbers of pieces.
LEMMA NumbersAre ==
    ASSUME NEW t \in Seq(Pieces)
    PROVE  /\ Numbers(t) \in Seq(Nat) /\ Len(Numbers(t)) = Len(t)
           /\ Numbers(t) = [i \in 1..Len(t) |-> t[i].n]
  <1>1. \A i \in 1..Len(t) : t[i].n \in Nat
    <2>1. \A i \in 1..Len(t) : t[i] \in Pieces
      BY ElementOfSeq
    <2> QED BY <2>1 DEF Pieces
  <1>2. Numbers(t) = [i \in 1..Len(t) |-> t[i].n]
    BY DEF Numbers
  <1> QED BY <1>1, <1>2

\* The number of a piece that is appended comes last.
LEMMA NumbersAppend ==
    ASSUME NEW t \in Seq(Pieces), NEW p \in Pieces
    PROVE  Numbers(t) \in Seq(Nat) /\ Numbers(Append(t, p)) = Append(Numbers(t), p.n)
  <1>2. Numbers(t) = [i \in 1..Len(t) |-> t[i].n]
    BY NumbersAre
  <1>3. Len(t) \in Nat /\ Numbers(t) \in Seq(Nat)
    BY NumbersAre
  <1> DEFINE u == Append(t, p)  N == Len(t)
  <1>4. Len(u) = N + 1 /\ u[N + 1] = p /\ \A i \in 1..N : u[i] = t[i]
    OBVIOUS
  <1>5. Numbers(u) = [i \in 1..(N + 1) |-> u[i].n]
    BY DEF Numbers
  <1>6. Append(Numbers(t), p.n) = [i \in 1..(N + 1) |-> IF i = N + 1 THEN p.n ELSE Numbers(t)[i]]
    BY <1>2, <1>3
  <1> HIDE DEF u
  <1>7. \A i \in 1..(N + 1) : u[i].n = IF i = N + 1 THEN p.n ELSE Numbers(t)[i]
    BY <1>2, <1>4
  <1> QED BY <1>3, <1>5, <1>6, <1>7 DEF u

\* What the adapters do with a piece.
LEMMA AcceptSpoken ==
    ASSUME NEW S, NEW r, NEW e \in Spoken(S), Known
    PROVE  Accept(r, e) = IF e.kind = "text" THEN [r EXCEPT !.text = Append(@, e.piece)]
                          ELSE IF protocol = "chat" THEN r
                          ELSE [r EXCEPT !.thought = Append(@, e.piece)]
  <1>1. e.kind \in {"text", "thought"}
    BY DEF Spoken
  <1>2. CASE protocol = "chat"
    BY <1>1, <1>2 DEF Accept, ChatEvent
  <1>3. CASE protocol = "responses"
    BY <1>1, <1>3 DEF Accept, ResponsesEvent
  <1>4. CASE protocol = "anthropic"
    BY <1>1, <1>4 DEF Accept, AnthropicEvent
  <1> QED BY <1>2, <1>3, <1>4 DEF Known

\* What is no piece leaves the pieces alone.
Spared(r, q) ==
    /\ q = [text |-> r.text, thought |-> r.thought, calls |-> q.calls, callOf |-> q.callOf,
            usage |-> q.usage, complete |-> q.complete, failed |-> q.failed]
    /\ q.complete \in BOOLEAN /\ q.failed \in BOOLEAN
\* What is no piece leaves the pieces alone, in every protocol.
LEMMA AcceptPlain ==
    ASSUME NEW S, NEW r, Shape(r, S), NEW e \in Plain, Known
    PROVE  Spared(r, Accept(r, e))
  <1>1. e.kind \in {"comment", "error", "newline", "start", "usage", "call", "args", "done"}
    BY DEF Plain
  <1>2. CASE e.kind \in {"comment", "error"}
    BY <1>2 DEF Accept, Shape, Spared
  <1>3. CASE protocol = "chat" /\ e.kind \notin {"comment", "error"}
    <2>1. Accept(r, e) = ChatEvent(r, e)
      BY <1>1, <1>3 DEF Accept
    <2>2. CASE e.kind = "call"
      BY <2>1, <2>2 DEF ChatEvent, Shape, Spared
    <2>3. CASE e.kind = "args"
      BY <2>1, <2>3 DEF ChatEvent, Shape, Spared
    <2>4. CASE e.kind \in {"newline", "start", "usage", "done"}
      BY <2>1, <2>4 DEF ChatEvent, Shape, Spared
    <2> QED BY <1>1, <1>3, <2>2, <2>3, <2>4
  <1>4. CASE protocol = "responses" /\ e.kind \notin {"comment", "error"}
    <2>1. Accept(r, e) = ResponsesEvent(r, e)
      BY <1>1, <1>4 DEF Accept
    <2>2. CASE e.kind = "call"
      BY <2>1, <2>2 DEF ResponsesEvent, WithItem, Shape, Spared
    <2>3. CASE e.kind = "args"
      BY <2>1, <2>3 DEF ResponsesEvent, Shape, Spared
    <2>4. CASE e.kind \in {"newline", "start", "usage", "done"}
      BY <2>1, <2>4 DEF ResponsesEvent, Shape, Spared
    <2> QED BY <1>1, <1>4, <2>2, <2>3, <2>4
  <1>5. CASE protocol = "anthropic" /\ e.kind \notin {"comment", "error"}
    <2>1. Accept(r, e) = AnthropicEvent(r, e)
      BY <1>1, <1>5 DEF Accept
    <2>2. CASE e.kind = "call"
      BY <2>1, <2>2 DEF AnthropicEvent, Shape, Spared
    <2>3. CASE e.kind = "args"
      BY <2>1, <2>3 DEF AnthropicEvent, Shape, Spared
    <2>4. CASE e.kind \in {"newline", "start", "usage", "done"}
      BY <2>1, <2>4 DEF AnthropicEvent, Shape, Spared
    <2> QED BY <1>1, <1>5, <2>2, <2>3, <2>4
  <1> QED BY <1>2, <1>3, <1>4, <1>5 DEF Known

\* An event keeps the shape of what was gathered, and adds at most one piece of text.
LEMMA AcceptShape ==
    ASSUME NEW S, NEW r, Shape(r, S), NEW e \in Plain \cup Spoken(S), Known
    PROVE  /\ Shape(Accept(r, e), S)
           /\ \/ Accept(r, e).text = r.text
              \/ \E p \in S : Accept(r, e).text = Append(r.text, p)
  <1>1. CASE e \in Plain
    <2>1. Spared(r, Accept(r, e))
      BY <1>1, AcceptPlain
    <2> HIDE DEF Known
    <2> QED BY <2>1 DEF Spared, Shape
  <1>2. CASE e \in Spoken(S)
    <2>1. e.piece \in S
      BY <1>2 DEF Spoken
    <2>2. Append(r.text, e.piece) \in Seq(S) /\ Append(r.thought, e.piece) \in Seq(S)
      BY <2>1 DEF Shape
    <2>3. Accept(r, e) = IF e.kind = "text" THEN [r EXCEPT !.text = Append(@, e.piece)]
                          ELSE IF protocol = "chat" THEN r
                          ELSE [r EXCEPT !.thought = Append(@, e.piece)]
      BY <1>2, AcceptSpoken
    <2>4. CASE e.kind = "text"
      BY <2>1, <2>2, <2>3, <2>4 DEF Shape
    <2>5. CASE e.kind # "text" /\ protocol = "chat"
      BY <2>1, <2>2, <2>3, <2>5 DEF Shape
    <2>6. CASE e.kind # "text" /\ protocol # "chat"
      BY <2>1, <2>2, <2>3, <2>6 DEF Shape
    <2> QED BY <2>4, <2>5, <2>6
  <1> QED BY <1>1, <1>2

\* The view of what was gathered has its shape.
LEMMA ViewIs ==
    ASSUME NEW r, Shape(r, Pieces)
    PROVE  Shape(View(r), Nat)
  <1>3. Numbers(r.text) \in Seq(Nat) /\ Numbers(r.thought) \in Seq(Nat)
    BY NumbersAre DEF Shape
  <1>5. r.complete \in BOOLEAN /\ r.failed \in BOOLEAN
    BY DEF Shape
  <1> DEFINE v == View(r)
  <1>6. /\ v.text = Numbers(r.text) /\ v.thought = Numbers(r.thought) /\ v.calls = r.calls
        /\ v.callOf = r.callOf /\ v.usage = r.usage /\ v.complete = r.complete
        /\ v.failed = r.failed
    BY DEF View
  <1> QED BY <1>3, <1>5 DEF Shape, View

\* Reading forgets no more than looking away from damage does.
Alike(r, v) ==
    /\ v = [text |-> v.text, thought |-> v.thought, calls |-> v.calls, callOf |-> v.callOf,
            usage |-> v.usage, complete |-> v.complete, failed |-> v.failed]
    /\ v.text = Numbers(r.text) /\ v.thought = Numbers(r.thought) /\ v.calls = r.calls
    /\ v.callOf = r.callOf /\ v.usage = r.usage /\ v.complete = r.complete /\ v.failed = r.failed
\* What is no piece does the same to what was gathered and to its view.
LEMMA PlainAlike ==
    ASSUME NEW r, Shape(r, Pieces), NEW v, Shape(v, Nat), v.calls = r.calls, v.callOf = r.callOf,
           v.usage = r.usage, v.complete = r.complete, v.failed = r.failed,
           NEW e \in Plain, Known
    PROVE  /\ Accept(v, e).calls = Accept(r, e).calls /\ Accept(v, e).callOf = Accept(r, e).callOf
           /\ Accept(v, e).usage = Accept(r, e).usage
           /\ Accept(v, e).complete = Accept(r, e).complete
           /\ Accept(v, e).failed = Accept(r, e).failed
  <1>0. /\ v.calls = r.calls /\ v.callOf = r.callOf
        /\ v.usage = r.usage /\ v.complete = r.complete /\ v.failed = r.failed
    OBVIOUS
  <1>1. e.kind \in {"comment", "error", "newline", "start", "usage", "call", "args", "done"}
    BY DEF Plain
  <1>2. CASE e.kind \in {"comment", "error"}
    BY <1>0, <1>2 DEF Accept, Shape
  <1>3. CASE protocol = "chat" /\ e.kind \notin {"comment", "error"}
    <2>1. Accept(r, e) = ChatEvent(r, e) /\ Accept(v, e) = ChatEvent(v, e)
      BY <1>1, <1>3 DEF Accept
    <2>2. CASE e.kind = "call"
      <3> DEFINE new == Put(r.calls, e.index,
                [id |-> At(r.calls, e.index, NewCall).id \o e.id,
                 args |-> At(r.calls, e.index, NewCall).args \o e.args,
                 named |-> At(r.calls, e.index, NewCall).named \/ e.id # <<>>])
      <3>1. ChatEvent(r, e) = [r EXCEPT !.calls = new]
        BY <2>2 DEF ChatEvent
      <3>2. ChatEvent(v, e) = [v EXCEPT !.calls = new]
        BY <1>0, <2>2 DEF ChatEvent
      <3> HIDE DEF new
      <3> QED BY <1>0, <2>1, <3>1, <3>2 DEF Shape
    <2>3. CASE e.kind = "args"
      <3> DEFINE new == Put(r.calls, e.index,
                [At(r.calls, e.index, NewCall) EXCEPT !.args = @ \o e.args])
      <3>1. ChatEvent(r, e) = [r EXCEPT !.calls = new]
        BY <2>3 DEF ChatEvent
      <3>2. ChatEvent(v, e) = [v EXCEPT !.calls = new]
        BY <1>0, <2>3 DEF ChatEvent
      <3> HIDE DEF new
      <3> QED BY <1>0, <2>1, <3>1, <3>2 DEF Shape
    <2>4. CASE e.kind \in {"newline", "start"}
      BY <1>0, <2>1, <2>4 DEF ChatEvent, Shape
    <2>5. CASE e.kind = "usage"
      BY <1>0, <2>1, <2>5 DEF ChatEvent, Shape
    <2>6. CASE e.kind = "done"
      BY <1>0, <2>1, <2>6 DEF ChatEvent, Shape
    <2> QED BY <1>1, <1>3, <2>2, <2>3, <2>4, <2>5, <2>6
  <1>4. CASE protocol = "responses" /\ e.kind \notin {"comment", "error"}
    <2>1. Accept(r, e) = ResponsesEvent(r, e) /\ Accept(v, e) = ResponsesEvent(v, e)
      BY <1>1, <1>4 DEF Accept
    <2>2. CASE e.kind = "call"
      <3> DEFINE f == Put(r.callOf, e.index, e.id[1])
                 g == Put(r.calls, e.id[1], Item(e.id, e.args))
      <3>1. ResponsesEvent(r, e) = [r EXCEPT !.callOf = f, !.calls = g]
        BY <2>2 DEF ResponsesEvent, WithItem
      <3>2. ResponsesEvent(v, e) = [v EXCEPT !.callOf = f, !.calls = g]
        BY <1>0, <2>2 DEF ResponsesEvent, WithItem
      <3> HIDE DEF f, g
      <3> QED BY <1>0, <2>1, <3>1, <3>2 DEF Shape
    <2>3. CASE e.kind = "args"
      <3> DEFINE new == Put(r.calls, At(r.callOf, e.index, 0),
                [At(r.calls, At(r.callOf, e.index, 0), NewCall) EXCEPT !.args = @ \o e.args])
      <3>1. ResponsesEvent(r, e) = [r EXCEPT !.calls = new]
        BY <2>3 DEF ResponsesEvent
      <3>2. ResponsesEvent(v, e) = [v EXCEPT !.calls = new]
        BY <1>0, <2>3 DEF ResponsesEvent
      <3> HIDE DEF new
      <3> QED BY <1>0, <2>1, <3>1, <3>2 DEF Shape
    <2>4. CASE e.kind \in {"newline", "start", "usage"}
      BY <1>0, <2>1, <2>4 DEF ResponsesEvent, Shape
    <2>6. CASE e.kind = "done"
      <3> DEFINE f == PutAll(r.calls, e.output)  u == SummedUsage(e.usage)
      <3>1. ResponsesEvent(r, e) = [r EXCEPT !.complete = TRUE, !.usage = u, !.calls = f]
        BY <2>6 DEF ResponsesEvent
      <3>2. ResponsesEvent(v, e) = [v EXCEPT !.complete = TRUE, !.usage = u, !.calls = f]
        BY <1>0, <2>6 DEF ResponsesEvent
      <3> HIDE DEF f, u
      <3> QED BY <1>0, <2>1, <3>1, <3>2 DEF Shape
    <2> QED BY <1>1, <1>4, <2>2, <2>3, <2>4, <2>6
  <1>5. CASE protocol = "anthropic" /\ e.kind \notin {"comment", "error"}
    <2>1. Accept(r, e) = AnthropicEvent(r, e) /\ Accept(v, e) = AnthropicEvent(v, e)
      BY <1>1, <1>5 DEF Accept
    <2>2. CASE e.kind = "call"
      <3> DEFINE new == Put(r.calls, e.index, Item(e.id, <<>>))
      <3>1. AnthropicEvent(r, e) = [r EXCEPT !.calls = new]
        BY <2>2 DEF AnthropicEvent
      <3>2. AnthropicEvent(v, e) = [v EXCEPT !.calls = new]
        BY <1>0, <2>2 DEF AnthropicEvent
      <3> HIDE DEF new
      <3> QED BY <1>0, <2>1, <3>1, <3>2 DEF Shape
    <2>3. CASE e.kind = "args"
      <3> DEFINE new == Put(r.calls, e.index,
                [At(r.calls, e.index, NewCall) EXCEPT !.args = @ \o e.args])
      <3>1. AnthropicEvent(r, e) = [r EXCEPT !.calls = new]
        BY <2>3 DEF AnthropicEvent
      <3>2. AnthropicEvent(v, e) = [v EXCEPT !.calls = new]
        BY <1>0, <2>3 DEF AnthropicEvent
      <3> HIDE DEF new
      <3> QED BY <1>0, <2>1, <3>1, <3>2 DEF Shape
    <2>4. CASE e.kind = "newline"
      BY <1>0, <2>1, <2>4 DEF AnthropicEvent, Shape
    <2>5. CASE e.kind \in {"start", "usage"}
      <3> DEFINE u == IF e.kind = "start" THEN SummedUsage(e.usage)
                      ELSE <<r.usage[1], e.usage.completion, r.usage[1] + e.usage.completion>>
      <3>1. AnthropicEvent(r, e) = [r EXCEPT !.usage = u]
        BY <2>5 DEF AnthropicEvent
      <3>2. AnthropicEvent(v, e) = [v EXCEPT !.usage = u]
        BY <1>0, <2>5 DEF AnthropicEvent
      <3> HIDE DEF u
      <3> QED BY <1>0, <2>1, <3>1, <3>2 DEF Shape
    <2>6. CASE e.kind = "done"
      BY <1>0, <2>1, <2>6 DEF AnthropicEvent, Shape
    <2> QED BY <1>1, <1>5, <2>2, <2>3, <2>4, <2>5, <2>6
  <1> QED BY <1>2, <1>3, <1>4, <1>5 DEF Known

\* The view after an event that is no piece.
LEMMA PlainView ==
    ASSUME NEW r, Shape(r, Pieces), NEW v, Alike(r, v), NEW e \in Plain, Known
    PROVE  Alike(Accept(r, e), Accept(v, e))
  <1>1. Shape(v, Nat)
    BY NumbersAre DEF Alike, Shape
  <1>2. Spared(r, Accept(r, e)) /\ Spared(v, Accept(v, e))
    BY <1>1, AcceptPlain
  <1>3. /\ Accept(v, e).calls = Accept(r, e).calls /\ Accept(v, e).callOf = Accept(r, e).callOf
        /\ Accept(v, e).usage = Accept(r, e).usage
        /\ Accept(v, e).complete = Accept(r, e).complete
        /\ Accept(v, e).failed = Accept(r, e).failed
    BY <1>1, PlainAlike DEF Alike
  <1>4. Accept(v, e).text = Numbers(Accept(r, e).text) /\ Accept(v, e).thought = Numbers(Accept(r, e).thought)
    <2>1. Accept(r, e).text = r.text /\ Accept(r, e).thought = r.thought
      BY <1>2 DEF Spared
    <2>2. Accept(v, e).text = v.text /\ Accept(v, e).thought = v.thought
      BY <1>2 DEF Spared
    <2> QED BY <2>1, <2>2 DEF Alike
  <1>5. Accept(v, e) = [text |-> v.text, thought |-> v.thought, calls |-> Accept(v, e).calls,
            callOf |-> Accept(v, e).callOf, usage |-> Accept(v, e).usage,
            complete |-> Accept(v, e).complete, failed |-> Accept(v, e).failed]
    BY <1>2 DEF Spared
  <1> DEFINE w == Accept(v, e)
  <1>6. w.text = v.text /\ w.thought = v.thought
    BY <1>5
  <1> QED BY <1>3, <1>4, <1>5, <1>6 DEF Alike

\* A bare event is one of numbers.
LEMMA BareIs ==
    ASSUME NEW e \in Events
    PROVE  /\ e \in Plain => Bare(e) = e
           /\ e \in Spoken(Pieces) => Bare(e) = [kind |-> e.kind, piece |-> e.piece.n]
           /\ Bare(e) \in Plain \cup Spoken(Nat) /\ Bare(e).kind = e.kind
  <1>1. CASE e \in Plain
    <2>1. e.kind \notin {"text", "thought"}
      BY <1>1 DEF Plain
    <2>2. e \notin Spoken(Pieces)
      BY <2>1 DEF Spoken
    <2> QED BY <1>1, <2>1, <2>2 DEF Bare
  <1>2. CASE e \in Spoken(Pieces)
    <2>1. Bare(e) = [kind |-> e.kind, piece |-> e.piece.n]
      BY <1>2 DEF Bare, Spoken
    <2>2. e.piece.n \in Nat /\ e.kind \in {"text", "thought"}
      BY <1>2 DEF Spoken, Pieces
    <2>3. e \notin Plain
      BY <2>2 DEF Plain
    <2> QED BY <1>2, <2>1, <2>2, <2>3 DEF Spoken
  <1> QED BY <1>1, <1>2 DEF Events

\* Reading and viewing may be exchanged: a damaged piece changes no view.
LEMMA ViewAccept ==
    ASSUME NEW r, Shape(r, Pieces), NEW e \in Events, Known
    PROVE  View(Accept(r, e)) = Accept(View(r), Bare(e))
  <1>1. Alike(r, View(r))
    BY DEF Alike, View
  <1>2. Shape(Accept(r, e), Pieces)
    BY AcceptShape DEF Events
  <1>3. Alike(Accept(r, e), Accept(View(r), Bare(e))) => Accept(View(r), Bare(e)) = View(Accept(r, e))
    BY DEF Alike, View
  <1>4. CASE e \in Plain
    <2>1. Alike(Accept(r, e), Accept(View(r), e)) /\ Bare(e) = e
      BY <1>1, <1>4, PlainView, BareIs
    <2> QED BY <1>3, <2>1
  <1>5. CASE e \in Spoken(Pieces)
    <2> DEFINE v == View(r)  b == Bare(e)
    <2>1. b = [kind |-> e.kind, piece |-> e.piece.n] /\ b \in Spoken(Nat)
          /\ e.piece \in Pieces /\ e.kind \in {"text", "thought"}
      <3>1. b = [kind |-> e.kind, piece |-> e.piece.n]
        BY <1>5, BareIs
      <3>2. e.piece \in Pieces /\ e.kind \in {"text", "thought"}
        BY <1>5 DEF Spoken
      <3>3. e.piece.n \in Nat
        BY <3>2 DEF Pieces
      <3> QED BY <3>1, <3>2, <3>3 DEF Spoken
    <2>2. Accept(r, e) = IF e.kind = "text" THEN [r EXCEPT !.text = Append(@, e.piece)]
                          ELSE IF protocol = "chat" THEN r
                          ELSE [r EXCEPT !.thought = Append(@, e.piece)]
      BY <1>5, AcceptSpoken
    <2> HIDE DEF v, b
    <2>3. Accept(v, b) = IF b.kind = "text" THEN [v EXCEPT !.text = Append(@, b.piece)]
                          ELSE IF protocol = "chat" THEN v
                          ELSE [v EXCEPT !.thought = Append(@, b.piece)]
      BY <2>1, AcceptSpoken
    <2>4. /\ Numbers(Append(r.text, e.piece)) = Append(Numbers(r.text), e.piece.n)
          /\ Numbers(Append(r.thought, e.piece)) = Append(Numbers(r.thought), e.piece.n)
      BY <2>1, NumbersAppend DEF Shape
    <2>5. Alike(r, v)
      BY <1>1 DEF v
    <2>6. CASE e.kind = "text"
      <3>1. Accept(r, e) = [text |-> Append(r.text, e.piece), thought |-> r.thought, calls |-> r.calls,
              callOf |-> r.callOf, usage |-> r.usage, complete |-> r.complete, failed |-> r.failed]
        BY <2>2, <2>6 DEF Shape
      <3>2. Accept(v, b) = [v EXCEPT !.text = Append(@, e.piece.n)]
        BY <2>1, <2>3, <2>6
      <3>3. Alike(Accept(r, e), Accept(v, b))
        <4> DEFINE q == Accept(r, e)  w == Accept(v, b)
        <4>1. /\ w.text = Numbers(q.text) /\ w.thought = Numbers(q.thought) /\ w.calls = q.calls
              /\ w.callOf = q.callOf /\ w.usage = q.usage /\ w.complete = q.complete
              /\ w.failed = q.failed
          BY <2>4, <2>5, <3>1, <3>2 DEF Alike
        <4>2. w = [text |-> w.text, thought |-> w.thought, calls |-> w.calls, callOf |-> w.callOf,
                   usage |-> w.usage, complete |-> w.complete, failed |-> w.failed]
          BY <2>5, <3>2 DEF Alike
        <4> QED BY <4>1, <4>2 DEF Alike
      <3> QED BY <1>3, <3>3 DEF v, b
    <2>7. CASE e.kind # "text" /\ protocol # "chat"
      <3>1. Accept(r, e) = [text |-> r.text, thought |-> Append(r.thought, e.piece), calls |-> r.calls,
              callOf |-> r.callOf, usage |-> r.usage, complete |-> r.complete, failed |-> r.failed]
        BY <2>2, <2>7 DEF Shape
      <3>2. Accept(v, b) = [v EXCEPT !.thought = Append(@, e.piece.n)]
        BY <2>1, <2>3, <2>7
      <3>3. Alike(Accept(r, e), Accept(v, b))
        <4> DEFINE q == Accept(r, e)  w == Accept(v, b)
        <4>1. /\ w.text = Numbers(q.text) /\ w.thought = Numbers(q.thought) /\ w.calls = q.calls
              /\ w.callOf = q.callOf /\ w.usage = q.usage /\ w.complete = q.complete
              /\ w.failed = q.failed
          BY <2>4, <2>5, <3>1, <3>2 DEF Alike
        <4>2. w = [text |-> w.text, thought |-> w.thought, calls |-> w.calls, callOf |-> w.callOf,
                   usage |-> w.usage, complete |-> w.complete, failed |-> w.failed]
          BY <2>5, <3>2 DEF Alike
        <4> QED BY <4>1, <4>2 DEF Alike
      <3> QED BY <1>3, <3>3 DEF v, b
    <2>8. CASE e.kind # "text" /\ protocol = "chat"
      <3>1. Alike(Accept(r, e), Accept(v, b))
        BY <2>1, <2>2, <2>3, <2>5, <2>8
      <3> QED BY <1>3, <3>1 DEF v, b
    <2> QED BY <2>6, <2>7, <2>8
  <1> QED BY <1>4, <1>5 DEF Events

-------------------------------------------------------------------------------
(* Lines *)

\* A set of numbers that is not empty has a least one.
LEMMA Least ==
    ASSUME NEW T \in SUBSET Nat, T # {}
    PROVE  \E x \in T : \A y \in T : x <= y
  <1> DEFINE R == {p \in Nat \X Nat : p[1] < p[2]}
  <1>1. IsWellFoundedOn(R, Nat)
    BY NatLessThanWellFounded, Zenon DEF OpToRel
  <1>2. PICK x \in T : \A y \in T : <<y, x>> \notin R
    <2> HIDE DEF R
    <2> QED BY <1>1, WFMin, Zenon
  <1>3. \A y \in T : x <= y
    <2>1. SUFFICES ASSUME NEW y \in T, ~(x <= y) PROVE FALSE
      OBVIOUS
    <2>2. x \in Nat /\ y \in Nat /\ y < x
      BY <2>1
    <2>3. <<y, x>> \in R
      BY <2>2
    <2> QED BY <1>2, <2>3
  <1> QED BY <1>3

\* What holds of 0 and of the next of each holds up to N.
LEMMA Climb ==
    ASSUME NEW N \in Nat, NEW Good, 0 \in Good, \A i \in 1..N : i - 1 \in Good => i \in Good
    PROVE  0..N \subseteq Good
  <1> DEFINE T == {i \in 0..N : i \notin Good}
  <1>1. SUFFICES ASSUME T # {} PROVE FALSE
    OBVIOUS
  <1>2. PICK x \in T : \A y \in T : x <= y
    <2>1. T \in SUBSET Nat
      OBVIOUS
    <2> HIDE DEF T
    <2> QED BY <1>1, <2>1, Least
  <1>3. x \in 0..N /\ x \notin Good /\ x \in 1..N /\ x - 1 \in 0..N
    OBVIOUS
  <1>4. x - 1 \notin T
    BY <1>2, <1>3
  <1> QED BY <1>3, <1>4

\* How many whole lines there are, and that every line is one of Line.
Lines(s) == Len(s) \div 3
\* Every line is one of Line.
Lined(s) ==
    \A k \in 0..Len(s) :
        /\ 3 * k + 1 <= Len(s) => s[3 * k + 1].half = 1
        /\ 3 * k + 2 <= Len(s) => s[3 * k + 2].half = 2
        /\ 3 * k + 3 <= Len(s) => s[3 * k + 3] = Newline

\* A part of a sequence.
LEMMA PartIs ==
    ASSUME NEW S, NEW s \in Seq(S), NEW a \in Int, NEW z \in Int, 1 <= a, z <= Len(s)
    PROVE  /\ SubSeq(s, a, z) \in Seq(S)
           /\ Len(SubSeq(s, a, z)) = IF a <= z THEN z - a + 1 ELSE 0
           /\ \A i \in 1..(z - a + 1) : SubSeq(s, a, z)[i] = s[a + i - 1]
  <1>1. \A i \in a..z : s[i] \in S
    <2>1. ASSUME NEW i \in a..z PROVE s[i] \in S
      <3>1. i \in 1..Len(s)
        OBVIOUS
      <3> QED BY <3>1, ElementOfSeq
    <2> QED BY <2>1
  <1> QED BY <1>1, SubSeqProperties

\* The bounds of the number of lines.
LEMMA LinesAre ==
    ASSUME NEW s, Len(s) \in Nat
    PROVE  /\ Lines(s) \in Nat /\ 3 * Lines(s) <= Len(s) /\ Len(s) <= 3 * Lines(s) + 2
           /\ Lines(s) <= Len(s)
  BY DEF Lines

\* What is no line yet has no newline.
LEMMA NoNewline ==
    ASSUME NEW s \in Seq(Symbols), Lined(s), Len(s) <= 2
    PROVE  Newline \notin ToSet(s)
  <1>1. Len(s) \in Nat /\ (1 <= Len(s) => s[1].half = 1) /\ (2 <= Len(s) => s[2].half = 2)
    BY DEF Lined
  <1>2. Newline.half = 0
    BY DEF Newline
  <1>3. ToSet(s) = {s[i] : i \in 1..Len(s)}
    BY DEF ToSet
  <1>4. ASSUME NEW i \in 1..Len(s) PROVE s[i] # Newline
    <2>1. i = 1 \/ i = 2
      BY <1>1
    <2>2. s[i].half = 1 \/ s[i].half = 2
      BY <1>1, <2>1
    <2> QED BY <1>2, <2>2
  <1> QED BY <1>3, <1>4

\* The first line is read as the event that was sent.
LEMMA FirstLine ==
    ASSUME NEW s \in Seq(Symbols), Lined(s), Len(s) >= 3
    PROVE  /\ Newline \in ToSet(s)
           /\ Min({i \in DOMAIN s : s[i] = Newline}) = 3
           /\ Decode(SubSeq(s, 1, 2)) \in Events
           /\ Bare(Decode(SubSeq(s, 1, 2))) = Bare(s[1].event)
  <1>1. Len(s) \in Nat /\ s[1].half = 1 /\ s[2].half = 2 /\ s[3] = Newline
    <2>1. Len(s) \in Nat /\ 0 \in 0..Len(s) /\ 3 * 0 + 1 = 1 /\ 3 * 0 + 2 = 2 /\ 3 * 0 + 3 = 3
      BY LenProperties
    <2> QED BY <2>1 DEF Lined
  <1>2. Newline.half = 0
    BY DEF Newline
  <1>3. Newline \in ToSet(s)
    <2>1. ToSet(s) = {s[i] : i \in 1..Len(s)} /\ 3 \in 1..Len(s)
      BY <1>1 DEF ToSet
    <2> QED BY <1>1, <2>1
  <1>4. Min({i \in DOMAIN s : s[i] = Newline}) = 3
    <2> DEFINE T == {i \in DOMAIN s : s[i] = Newline}
    <2>1. 3 \in T /\ 1 \notin T /\ 2 \notin T /\ T \subseteq 1..Len(s)
      BY <1>1, <1>2
    <2>2. \A i \in T : 3 <= i /\ i \in Nat
      BY <1>1, <2>1
    <2> HIDE DEF T
    <2>3. \A x \in T : (\A y \in T : x <= y) => x = 3
      BY <2>1, <2>2
    <2>4. Min(T) = 3
      BY <2>1, <2>2, <2>3 DEF Min
    <2> QED BY <2>4 DEF T
  <1> DEFINE line == SubSeq(s, 1, 2)
             e == s[1].event
  <1>5. line # <<>> /\ Len(line) = 2 /\ line[1] = s[1]
    BY <1>1
  <1>6. e \in Events
    <2>1. s[1] \in Symbols
      BY <1>1, ElementOfSeq
    <2> QED BY <2>1 DEF Symbols
  <1>7. CASE line[1].torn /\ e.kind \in {"text", "thought"}
    <2>1. Decode(line) = [e EXCEPT !.piece.intact = FALSE]
      BY <1>1, <1>5, <1>7 DEF Decode
    <2>2. e \in Spoken(Pieces)
      BY <1>6, <1>7 DEF Events, Plain
    <2>3. Decode(line) \in Spoken(Pieces) /\ Decode(line).kind = e.kind /\ Decode(line).piece.n = e.piece.n
      BY <2>1, <2>2 DEF Spoken, Pieces
    <2>4. Bare(Decode(line)) = [kind |-> e.kind, piece |-> e.piece.n]
      BY <2>3, BareIs DEF Events
    <2>5. Bare(e) = [kind |-> e.kind, piece |-> e.piece.n]
      BY <1>6, <2>2, BareIs
    <2> QED BY <1>3, <1>4, <2>3, <2>4, <2>5 DEF Events
  <1>8. CASE ~(line[1].torn /\ e.kind \in {"text", "thought"})
    <2>1. Decode(line) = e
      BY <1>1, <1>5, <1>8 DEF Decode
    <2> QED BY <1>3, <1>4, <1>6, <2>1
  <1> QED BY <1>7, <1>8

\* What is left after some lines is lined too, and their events are the later ones.
After(s, k) == SubSeq(s, 3 * k + 1, Len(s))
\* What is left after k lines.
LEMMA Remainder ==
    ASSUME NEW s \in Seq(Symbols), Lined(s), NEW k \in 0..Lines(s)
    PROVE  /\ After(s, k) \in Seq(Symbols) /\ Lined(After(s, k))
           /\ Len(After(s, k)) = Len(s) - 3 * k /\ Lines(After(s, k)) = Lines(s) - k
           /\ \A i \in 1..(Len(s) - 3 * k) : After(s, k)[i] = s[3 * k + i]
  <1> DEFINE a == 3 * k + 1  z == Len(s)  t == SubSeq(s, a, z)
  <1>1. /\ Len(s) \in Nat /\ k \in Nat /\ 3 * k <= Len(s) /\ a \in Nat /\ 1 <= a /\ a = 3 * k + 1
        /\ a \in Int /\ z \in Int /\ z = Len(s)
    BY LinesAre
  <1> HIDE DEF a, z
  <1>3. /\ t \in Seq(Symbols) /\ Len(t) = IF a <= z THEN z - a + 1 ELSE 0
        /\ \A i \in 1..(z - a + 1) : t[i] = s[a + i - 1]
    BY <1>1, PartIs
  <1> HIDE DEF t
  <1>4. Len(t) = Len(s) - 3 * k
    <2>1. Len(t) = IF a <= z THEN z - a + 1 ELSE 0
      BY <1>3
    <2>2. CASE a <= z
      BY <1>1, <2>1, <2>2
    <2>3. CASE a > z
      <3>1. Len(t) = 0
        BY <1>1, <2>1, <2>3
      <3>2. Len(s) - 3 * k = 0
        BY <1>1, <2>3
      <3> QED BY <3>1, <3>2
    <2> QED BY <1>1, <2>2, <2>3
  <1>5. ASSUME NEW i \in 1..Len(t) PROVE t[i] = s[3 * k + i]
    <2>1. i \in 1..(z - a + 1) /\ a + i - 1 = 3 * k + i
      BY <1>1, <1>4
    <2>2. t[i] = s[a + i - 1]
      BY <1>3, <2>1
    <2> QED BY <2>1, <2>2
  <1>6. Lines(t) = Lines(s) - k
    BY <1>1, <1>4 DEF Lines
  <1>7. Lined(t)
    <2>1. SUFFICES ASSUME NEW j \in 0..Len(t)
                   PROVE  /\ 3 * j + 1 <= Len(t) => t[3 * j + 1].half = 1
                          /\ 3 * j + 2 <= Len(t) => t[3 * j + 2].half = 2
                          /\ 3 * j + 3 <= Len(t) => t[3 * j + 3] = Newline
      BY DEF Lined
    <2>2. /\ k + j \in Nat /\ 3 * (k + j) = 3 * k + 3 * j
          /\ 3 * j + 1 <= Len(t) => k + j <= Len(s)
      BY <1>1, <1>4
    <2>3. 3 * j + 1 <= Len(t) => t[3 * j + 1].half = 1
      BY <1>1, <1>4, <1>5, <2>2 DEF Lined
    <2>4. 3 * j + 2 <= Len(t) => t[3 * j + 2].half = 2
      BY <1>1, <1>4, <1>5, <2>2 DEF Lined
    <2>5. 3 * j + 3 <= Len(t) => t[3 * j + 3] = Newline
      BY <1>1, <1>4, <1>5, <2>2 DEF Lined
    <2> QED BY <2>3, <2>4, <2>5
  <1> QED BY <1>3, <1>4, <1>5, <1>6, <1>7 DEF t, a, z, After

-------------------------------------------------------------------------------
(* What the adapter makes of the lines *)

\* From v on, the lines of s make g[1], g[2], ... of what was gathered.
Gathers(g, v, s) ==
    g[0] = v /\ \A k \in 1..Lines(s) : g[k] = Accept(g[k - 1], Bare(s[3 * k - 2].event))

\* The states of the adapter as it reads the lines of a chunk.
Reads(h, b, N) == h = [i \in 0..N |-> IF i = 0 THEN b ELSE ReadLine(h[i - 1])]

\* There is such a sequence of states.
LEMMA Reading ==
    ASSUME NEW b, NEW N \in Nat
    PROVE  \E h : Reads(h, b, N)
  <1> DEFINE Good == {n \in 0..N : \E h : Reads(h, b, n)}
  <1>1. 0 \in Good
    <2> DEFINE h == [i \in 0..0 |-> b]
    <2>1. h = [i \in 0..0 |-> IF i = 0 THEN b ELSE ReadLine(h[i - 1])]
      OBVIOUS
    <2>2. Reads(h, b, 0)
      <3> HIDE DEF h
      <3> QED BY <2>1 DEF Reads
    <2> QED BY <2>2
  <1>2. ASSUME NEW n \in 1..N, n - 1 \in Good PROVE n \in Good
    <2>1. PICK h : Reads(h, b, n - 1)
      BY <1>2
    <2> DEFINE q == [i \in 0..n |-> IF i = n THEN ReadLine(h[n - 1]) ELSE h[i]]
    <2>2. h[0] = b /\ \A i \in 1..(n - 1) : h[i] = ReadLine(h[i - 1])
      <3>1. 0 \in 0..(n - 1) /\ \A i \in 1..(n - 1) : i \in 0..(n - 1) /\ i # 0
        OBVIOUS
      <3> QED BY <2>1, <3>1 DEF Reads
    <2>3. q[0] = b /\ q[n] = ReadLine(q[n - 1]) /\ \A i \in 1..(n - 1) : q[i] = ReadLine(q[i - 1])
      BY <2>2
    <2>4. \A i \in 0..n : q[i] = IF i = 0 THEN b ELSE ReadLine(q[i - 1])
      <3> HIDE DEF q
      <3>1. ASSUME NEW i \in 0..n PROVE i = 0 \/ i = n \/ i \in 1..(n - 1)
        OBVIOUS
      <3>2. n # 0 /\ \A i \in 1..(n - 1) : i # 0
        OBVIOUS
      <3> QED BY <2>3, <3>1, <3>2
    <2>5. q = [i \in 0..n |-> q[i]]
      OBVIOUS
    <2> HIDE DEF q
    <2>6. Reads(q, b, n)
      BY <2>4, <2>5 DEF Reads
    <2> QED BY <2>6
  <1>3. 0..N \subseteq Good
    <2> HIDE DEF Good
    <2> QED BY <1>1, <1>2, Climb
  <1> QED BY <1>3

\* Drain reads line after line.
LEMMA DrainIs ==
    ASSUME NEW r, NEW d, NEW s, Len(s) \in Nat
    PROVE  \E h : /\ h[0] = [reader |-> r, buffer |-> s, harmed |-> d] /\ Drain(r, d, s) = h[Len(s)]
                  /\ \A i \in 1..Len(s) : h[i] = ReadLine(h[i - 1])
  <1> DEFINE N == Len(s)  b == [reader |-> r, buffer |-> s, harmed |-> d]
             h == CHOOSE h : Reads(h, b, N)
  <1>1. Drain(r, d, s) = h[N]
    BY DEF Drain, Reads
  <1>2. Reads(h, b, N)
    <2> HIDE DEF b, N
    <2>1. N \in Nat
      BY DEF N
    <2> QED BY <2>1, Reading
  <1> HIDE DEF h
  <1>3. h[0] = b /\ \A i \in 1..N : h[i] = ReadLine(h[i - 1])
    <2>1. 0 \in 0..N /\ \A i \in 1..N : i \in 0..N /\ i # 0
      OBVIOUS
    <2> HIDE DEF b, N
    <2> QED BY <1>2, <2>1 DEF Reads
  <1> QED BY <1>1, <1>3

\* The first line of t says e, and reading it leaves the others.
Takes(r, d, t, e) ==
    /\ Bare(e) = Bare(t[1].event)
    /\ \E x : ReadLine([reader |-> r, buffer |-> t, harmed |-> d])
                = [reader |-> Accept(r, e), buffer |-> SubSeq(t, 4, Len(t)), harmed |-> x]

\* One line is read when there is one, and nothing after a failure.
LEMMA ReadLineIs ==
    ASSUME NEW r, Shape(r, Pieces), NEW d, NEW t \in Seq(Symbols), Lined(t), Known
    PROVE  /\ r.failed \/ Len(t) < 3 =>
                ReadLine([reader |-> r, buffer |-> t, harmed |-> d])
                    = [reader |-> r, buffer |-> t, harmed |-> d]
           /\ ~r.failed /\ Len(t) >= 3 => \E e \in Events : Takes(r, d, t, e)
  <1> DEFINE at == [reader |-> r, buffer |-> t, harmed |-> d]
  <1>0. Len(t) \in Nat /\ at.reader = r /\ at.buffer = t
    OBVIOUS
  <1>1. CASE r.failed \/ Len(t) < 3
    <2>1. r.failed \/ Newline \notin ToSet(t)
      <3>1. Len(t) < 3 => Len(t) <= 2
        BY <1>0
      <3> QED BY <1>1, <3>1, NoNewline
    <2>2. ReadLine(at) = at
      <3> HIDE DEF at
      <3> QED BY <1>0, <2>1 DEF ReadLine
    <2>3. ~(~r.failed /\ Len(t) >= 3)
      BY <1>0, <1>1
    <2> QED BY <2>2, <2>3
  <1>2. CASE ~r.failed /\ Len(t) >= 3
    <2> DEFINE T == {i \in DOMAIN t : t[i] = Newline}  first == Decode(SubSeq(t, 1, 2))
    <2>1. Newline \in ToSet(t) /\ Min(T) = 3 /\ first \in Events /\ Bare(first) = Bare(t[1].event)
      BY <1>2, FirstLine
    <2>2. PICK x : ReadLine(at) = [reader |-> Accept(r, Decode(SubSeq(t, 1, Min(T) - 1))),
                                   buffer |-> SubSeq(t, Min(T) + 1, Len(t)), harmed |-> x]
      <3>1. {i \in DOMAIN at.buffer : at.buffer[i] = Newline} = T
        BY <1>0
      <3> HIDE DEF at, T
      <3> QED BY <1>0, <1>2, <2>1, <3>1 DEF ReadLine
    <2>3. Min(T) - 1 = 2 /\ Min(T) + 1 = 4
      <3> HIDE DEF T
      <3> QED BY <2>1
    <2> HIDE DEF T
    <2>4. ReadLine(at) = [reader |-> Accept(r, first), buffer |-> SubSeq(t, 4, Len(t)), harmed |-> x]
      BY <2>2, <2>3
    <2> HIDE DEF first, at
    <2>5. ~(r.failed \/ Len(t) < 3)
      BY <1>0, <1>2
    <2>6. Takes(r, d, t, first)
      BY <2>1, <2>4 DEF at, Takes
    <2> QED BY <2>1, <2>5, <2>6
  <1> QED BY <1>0, <1>1, <1>2

\* What is left after one line more.
LEMMA AfterNext ==
    ASSUME NEW s \in Seq(Symbols), Lined(s), NEW k \in Nat, k + 1 <= Lines(s)
    PROVE  SubSeq(After(s, k), 4, Len(After(s, k))) = After(s, k + 1)
  <1> DEFINE t == After(s, k)  a == After(t, 1)  b == After(s, k + 1)
  <1>1. Len(s) \in Nat /\ Lines(s) \in Nat /\ 3 * Lines(s) <= Len(s)
    BY LinesAre
  <1>2. k \in 0..Lines(s) /\ k + 1 \in 0..Lines(s)
    BY <1>1
  <1>3. /\ t \in Seq(Symbols) /\ Lined(t) /\ Len(t) = Len(s) - 3 * k /\ Lines(t) = Lines(s) - k
        /\ \A i \in 1..(Len(s) - 3 * k) : t[i] = s[3 * k + i]
    BY <1>2, Remainder
  <1>4. /\ b \in Seq(Symbols) /\ Len(b) = Len(s) - 3 * (k + 1)
        /\ \A i \in 1..(Len(s) - 3 * (k + 1)) : b[i] = s[3 * (k + 1) + i]
    BY <1>2, Remainder
  <1> HIDE DEF t
  <1>5. /\ a \in Seq(Symbols) /\ Len(a) = Len(t) - 3
        /\ \A i \in 1..(Len(t) - 3) : a[i] = t[3 + i]
    <2>1. 1 \in 0..Lines(t)
      BY <1>1, <1>3
    <2>2. /\ a \in Seq(Symbols) /\ Len(a) = Len(t) - 3 * 1
          /\ \A i \in 1..(Len(t) - 3 * 1) : a[i] = t[3 * 1 + i]
      <3> HIDE DEF a
      <3> QED BY <1>3, <2>1, Remainder DEF a
    <2> HIDE DEF a
    <2>3. Len(t) - 3 * 1 = Len(t) - 3 /\ 3 * 1 = 3
      OBVIOUS
    <2> QED BY <2>2, <2>3
  <1> HIDE DEF a, b
  <1>6. Len(a) = Len(b)
    BY <1>1, <1>3, <1>4, <1>5
  <1>7. ASSUME NEW i \in 1..Len(a) PROVE a[i] = b[i]
    <2>1. /\ i \in 1..(Len(t) - 3) /\ 3 + i \in 1..(Len(s) - 3 * k) /\ i \in 1..(Len(s) - 3 * (k + 1))
          /\ 3 * k + (3 + i) = 3 * (k + 1) + i
      BY <1>1, <1>3, <1>5
    <2>2. a[i] = t[3 + i] /\ t[3 + i] = s[3 * k + (3 + i)]
      BY <1>3, <1>5, <2>1
    <2>3. b[i] = s[3 * (k + 1) + i]
      BY <1>4, <2>1
    <2> QED BY <2>1, <2>2, <2>3
  <1>8. a = b
    BY <1>4, <1>5, <1>6, <1>7, SeqEqual
  <1>9. a = SubSeq(t, 4, Len(t))
    <2>1. 3 * 1 + 1 = 4
      OBVIOUS
    <2> QED BY <2>1 DEF a, After
  <1> QED BY <1>8, <1>9 DEF t, b

\* u goes on where t ends.
Extends(u, t) == Len(t) <= Len(u) /\ \A i \in 1..Len(t) : u[i] = t[i]
\* The adapter has read k of the lines of s.
Come(at, k, r, s, g) ==
    /\ at = [reader |-> at.reader, buffer |-> After(s, k), harmed |-> at.harmed]
    /\ Shape(at.reader, Pieces) /\ View(at.reader) = g[k]
    /\ Extends(at.reader.text, r.text)

\* Reading one line goes on from k lines to k + 1.
LEMMA ReadsOn ==
    ASSUME NEW r, Shape(r, Pieces), NEW s \in Seq(Symbols), Lined(s), Known,
           NEW g, Gathers(g, View(r), s), NEW k \in 0..Lines(s), NEW at, Come(at, k, r, s, g)
    PROVE  \/ k = Lines(s) /\ ReadLine(at) = at
           \/ at.reader.failed /\ ReadLine(at) = at
           \/ k + 1 \in 0..Lines(s) /\ Come(ReadLine(at), k + 1, r, s, g)
  <1> DEFINE q == at.reader  t == After(s, k)  d == at.harmed
  <1>1. Len(s) \in Nat /\ Lines(s) \in Nat /\ 3 * Lines(s) <= Len(s) /\ Len(s) <= 3 * Lines(s) + 2
    BY LinesAre
  <1>2. /\ at = [reader |-> q, buffer |-> t, harmed |-> d]
        /\ Shape(q, Pieces) /\ View(q) = g[k] /\ Extends(q.text, r.text)
    BY DEF Come
  <1>3. /\ t \in Seq(Symbols) /\ Lined(t) /\ Len(t) = Len(s) - 3 * k
        /\ \A i \in 1..(Len(s) - 3 * k) : t[i] = s[3 * k + i]
    BY Remainder
  <1> HIDE DEF q, t, d
  <1>4. CASE q.failed \/ Len(t) < 3
    <2>1. ReadLine(at) = at
      BY <1>2, <1>3, <1>4, ReadLineIs
    <2>2. k = Lines(s) \/ q.failed
      BY <1>1, <1>3, <1>4
    <2> QED BY <2>1, <2>2 DEF q
  <1>5. CASE ~q.failed /\ Len(t) >= 3
    <2>1. PICK e \in Events : /\ Bare(e) = Bare(t[1].event)
                              /\ \E x : ReadLine(at) = [reader |-> Accept(q, e),
                                                         buffer |-> SubSeq(t, 4, Len(t)), harmed |-> x]
      <3>1. Shape(q, Pieces) /\ t \in Seq(Symbols) /\ Lined(t)
        BY <1>2, <1>3
      <3>2. ~q.failed /\ Len(t) >= 3 => \E e \in Events : Takes(q, d, t, e)
        BY <3>1, ReadLineIs
      <3>3. PICK e \in Events : Takes(q, d, t, e)
        BY <1>5, <3>2
      <3>4. ReadLine(at) = ReadLine([reader |-> q, buffer |-> t, harmed |-> d])
        BY <1>2
      <3> QED BY <3>3, <3>4 DEF Takes
    <2>10. PICK z : ReadLine(at) = [reader |-> Accept(q, e), buffer |-> SubSeq(t, 4, Len(t)), harmed |-> z]
      BY <2>1
    <2> DEFINE p == Accept(q, e)
    <2>2. k + 1 \in 1..Lines(s) /\ k + 1 \in 0..Lines(s) /\ k + 1 <= Lines(s) /\ k \in Nat
      BY <1>1, <1>3, <1>5
    <2>3. Shape(p, Pieces) /\ (p.text = q.text \/ \E x \in Pieces : p.text = Append(q.text, x))
      BY <1>2, AcceptShape DEF Events
    <2>4. View(p) = g[k + 1]
      <3>1. View(p) = Accept(g[k], Bare(e))
        BY <1>2, ViewAccept
      <3>2. g[k + 1] = Accept(g[k], Bare(s[3 * k + 1].event))
        <4>1. (k + 1) - 1 = k /\ 3 * (k + 1) - 2 = 3 * k + 1
          BY <2>2
        <4> QED BY <2>2, <4>1 DEF Gathers
      <3>3. t[1] = s[3 * k + 1]
        <4>1. 1 \in 1..(Len(s) - 3 * k)
          BY <1>1, <1>3, <1>5
        <4> QED BY <1>3, <4>1
      <3> QED BY <2>1, <3>1, <3>2, <3>3
    <2>5. SubSeq(t, 4, Len(t)) = After(s, k + 1)
      BY <2>2, AfterNext DEF t
    <2> HIDE DEF p
    <2>6. Extends(p.text, r.text)
      <3>1. q.text \in Seq(Pieces) /\ Len(q.text) \in Nat /\ r.text \in Seq(Pieces) /\ Len(r.text) \in Nat
        BY <1>2 DEF Shape
      <3>2. CASE p.text = q.text
        BY <1>2, <3>2
      <3>3. ASSUME NEW y \in Pieces, p.text = Append(q.text, y) PROVE Extends(p.text, r.text)
        <4>1. Len(p.text) = Len(q.text) + 1 /\ \A j \in 1..Len(q.text) : p.text[j] = q.text[j]
          BY <3>1, <3>3, AppendProperties
        <4> QED BY <1>2, <3>1, <4>1 DEF Extends
      <3> QED BY <2>3, <3>2, <3>3
    <2>7. ReadLine(at) = [reader |-> p, buffer |-> After(s, k + 1), harmed |-> z]
      BY <2>10, <2>5 DEF p
    <2>8. ReadLine(at).reader = p /\ ReadLine(at).harmed = z
      BY <2>7
    <2>9. Come(ReadLine(at), k + 1, r, s, g)
      BY <2>3, <2>4, <2>6, <2>7, <2>8 DEF Come
    <2> QED BY <2>2, <2>9
  <1>6. q.failed \/ Len(t) < 3 \/ (~q.failed /\ Len(t) >= 3)
    BY <1>1, <1>3
  <1> QED BY <1>4, <1>5, <1>6

\* Drain reads all lines there are, or those up to the one that ends the call.
LEMMA DrainReads ==
    ASSUME NEW r, Shape(r, Pieces), NEW d, NEW s \in Seq(Symbols), Lined(s), Known,
           NEW g, Gathers(g, View(r), s)
    PROVE  \E k \in 0..Lines(s) :
              Come(Drain(r, d, s), k, r, s, g) /\ (k = Lines(s) \/ Drain(r, d, s).reader.failed)
  <1> DEFINE N == Len(s)  L == Lines(s)
  <1>0. N \in Nat /\ L \in Nat /\ L <= N
    BY LinesAre
  <1>1. PICK h : /\ h[0] = [reader |-> r, buffer |-> s, harmed |-> d] /\ Drain(r, d, s) = h[N]
                 /\ \A i \in 1..N : h[i] = ReadLine(h[i - 1])
    BY <1>0, DrainIs
  <1> DEFINE Done(k, i) == k = L \/ h[i].reader.failed \/ k >= i
             Good == {i \in 0..N : \E k \in 0..L : Come(h[i], k, r, s, g) /\ Done(k, i)}
  <1>2. 0 \in Good
    <2>1. After(s, 0) = s
      BY <1>0 DEF After
    <2>2. Extends(r.text, r.text)
      <3>1. Len(r.text) \in Nat
        BY DEF Shape
      <3> QED BY <3>1 DEF Extends
    <2>3. Come(h[0], 0, r, s, g)
      BY <1>1, <2>1, <2>2 DEF Come, Gathers
    <2>4. Done(0, 0) /\ 0 \in 0..L /\ 0 \in 0..N
      BY <1>0
    <2> HIDE DEF Done, L, N
    <2> QED BY <2>3, <2>4
  <1>3. ASSUME NEW i \in 1..N, i - 1 \in Good PROVE i \in Good
    <2>1. PICK k \in 0..L : Come(h[i - 1], k, r, s, g) /\ Done(k, i - 1)
      BY <1>3
    <2>2. h[i] = ReadLine(h[i - 1]) /\ i \in 0..N
      BY <1>1, <1>0
    <2>3. \/ k = L /\ h[i] = h[i - 1]
          \/ h[i - 1].reader.failed /\ h[i] = h[i - 1]
          \/ k + 1 \in 0..L /\ Come(h[i], k + 1, r, s, g)
      BY <2>1, <2>2, ReadsOn
    <2>4. CASE h[i] = h[i - 1] /\ (k = L \/ h[i - 1].reader.failed)
      <3>1. Come(h[i], k, r, s, g) /\ Done(k, i)
        BY <2>1, <2>4
      <3> HIDE DEF Done, L, N
      <3> QED BY <2>2, <3>1
    <2>5. CASE k + 1 \in 0..L /\ Come(h[i], k + 1, r, s, g) /\ (k = L \/ k >= i - 1)
      <3>1. Done(k + 1, i)
        <4> HIDE DEF L, N
        <4> QED BY <1>0, <2>5
      <3> HIDE DEF Done, L, N
      <3> QED BY <2>2, <2>5, <3>1
    <2>6. CASE h[i - 1].reader.failed /\ k + 1 \in 0..L /\ Come(h[i], k + 1, r, s, g)
      <3>1. h[i] = h[i - 1]
        <4> DEFINE q == h[i - 1].reader  t == After(s, k)  b == h[i - 1].harmed
        <4>1. h[i - 1] = [reader |-> q, buffer |-> t, harmed |-> b] /\ Shape(q, Pieces)
          BY <2>1 DEF Come
        <4>2. t \in Seq(Symbols) /\ Lined(t)
          BY Remainder
        <4>3. q.failed
          BY <2>6
        <4> HIDE DEF q, t, b
        <4> QED BY <2>2, <4>1, <4>2, <4>3, ReadLineIs
      <3>2. Come(h[i], k, r, s, g) /\ Done(k, i)
        BY <2>1, <2>6, <3>1
      <3> HIDE DEF Done, L, N
      <3> QED BY <2>2, <3>2
    <2> HIDE DEF Good, L, N
    <2> QED BY <2>1, <2>3, <2>4, <2>5, <2>6 DEF Done
  <1>4. N \in Good
    <2>1. 0..N \subseteq Good
      <3> HIDE DEF Good, N
      <3> QED BY <1>0, <1>2, <1>3, Climb
    <2> HIDE DEF Good
    <2> QED BY <1>0, <2>1
  <1>5. PICK k \in 0..L : Come(h[N], k, r, s, g) /\ Done(k, N)
    BY <1>4
  <1>6. k = L \/ h[N].reader.failed
    <2> HIDE DEF N, L
    <2> QED BY <1>0, <1>5
  <1> QED BY <1>1, <1>5, <1>6

-------------------------------------------------------------------------------
(* Parts of the wire, and chunks cut anywhere *)

\* t is part of what comes after the first k lines of s, but for damage.
Within(t, s, k) ==
    /\ 3 * k + Len(t) <= Len(s)
    /\ \A i \in 1..Len(t) : /\ t[i].event = s[3 * k + i].event /\ t[i].half = s[3 * k + i].half
                            /\ s[3 * k + i] = Newline => t[i] = Newline

\* The lines of a part of s are lines of s.
LEMMA WithinLines ==
    ASSUME NEW s \in Seq(Symbols), Lined(s), NEW t \in Seq(Symbols), NEW k \in Nat, Within(t, s, k)
    PROVE  Lined(t) /\ k + Lines(t) <= Lines(s)
  <1>1. Len(s) \in Nat /\ Len(t) \in Nat /\ 3 * k + Len(t) <= Len(s)
    BY DEF Within
  <1>2. Lined(t)
    <2>1. SUFFICES ASSUME NEW j \in 0..Len(t)
                   PROVE  /\ 3 * j + 1 <= Len(t) => t[3 * j + 1].half = 1
                          /\ 3 * j + 2 <= Len(t) => t[3 * j + 2].half = 2
                          /\ 3 * j + 3 <= Len(t) => t[3 * j + 3] = Newline
      BY DEF Lined
    <2>2. /\ k + j \in 0..Len(s) /\ j \in Nat
          /\ 3 * (k + j) + 1 = 3 * k + (3 * j + 1) /\ 3 * (k + j) + 2 = 3 * k + (3 * j + 2)
          /\ 3 * (k + j) + 3 = 3 * k + (3 * j + 3)
      BY <1>1
    <2>3. /\ 3 * (k + j) + 1 <= Len(s) => s[3 * (k + j) + 1].half = 1
          /\ 3 * (k + j) + 2 <= Len(s) => s[3 * (k + j) + 2].half = 2
          /\ 3 * (k + j) + 3 <= Len(s) => s[3 * (k + j) + 3] = Newline
      BY <2>2 DEF Lined
    <2>4. ASSUME 3 * j + 1 <= Len(t) PROVE t[3 * j + 1].half = 1
      <3>1. 3 * j + 1 \in 1..Len(t)
        BY <1>1, <2>2, <2>4
      <3>2. t[3 * j + 1].half = s[3 * k + (3 * j + 1)].half
        BY <3>1 DEF Within
      <3> QED BY <1>1, <2>2, <2>3, <2>4, <3>2
    <2>5. ASSUME 3 * j + 2 <= Len(t) PROVE t[3 * j + 2].half = 2
      <3>1. 3 * j + 2 \in 1..Len(t)
        BY <1>1, <2>2, <2>5
      <3>2. t[3 * j + 2].half = s[3 * k + (3 * j + 2)].half
        BY <3>1 DEF Within
      <3> QED BY <1>1, <2>2, <2>3, <2>5, <3>2
    <2>6. ASSUME 3 * j + 3 <= Len(t) PROVE t[3 * j + 3] = Newline
      <3>1. 3 * j + 3 \in 1..Len(t)
        BY <1>1, <2>2, <2>6
      <3>2. s[3 * k + (3 * j + 3)] = Newline => t[3 * j + 3] = Newline
        BY <3>1 DEF Within
      <3> QED BY <1>1, <2>2, <2>3, <2>6, <3>2
    <2> QED BY <2>4, <2>5, <2>6
  <1>3. k + Lines(t) <= Lines(s)
    BY <1>1 DEF Lines
  <1> QED BY <1>2, <1>3

\* The lines of a part make of what was gathered what the whole makes of it.
LEMMA WithinGathers ==
    ASSUME NEW s \in Seq(Symbols), Lined(s), NEW t \in Seq(Symbols), NEW k \in Nat, Within(t, s, k),
           NEW g, NEW v, Gathers(g, v, s)
    PROVE  Gathers([i \in 0..Lines(t) |-> g[k + i]], g[k], t)
  <1> DEFINE L == Lines(t)  h == [i \in 0..L |-> g[k + i]]
  <1>1. k + L <= Lines(s) /\ Lines(s) \in Nat /\ L \in Nat /\ 3 * L <= Len(t) /\ Len(t) \in Nat
    BY WithinLines, LinesAre
  <1> HIDE DEF L
  <1>2. h[0] = g[k]
    BY <1>1
  <1>3. ASSUME NEW i \in 1..L PROVE h[i] = Accept(h[i - 1], Bare(t[3 * i - 2].event))
    <2>1. /\ h[i] = g[k + i] /\ h[i - 1] = g[k + (i - 1)] /\ (k + i) - 1 = k + (i - 1)
          /\ k + i \in 1..Lines(s) /\ 3 * (k + i) - 2 = 3 * k + (3 * i - 2) /\ 3 * i - 2 \in 1..Len(t)
      BY <1>1
    <2>2. g[k + i] = Accept(g[(k + i) - 1], Bare(s[3 * (k + i) - 2].event))
      BY <2>1 DEF Gathers
    <2>3. t[3 * i - 2].event = s[3 * k + (3 * i - 2)].event
      BY <2>1 DEF Within
    <2> HIDE DEF h
    <2> QED BY <2>1, <2>2, <2>3
  <1> HIDE DEF h
  <1>4. Gathers(h, g[k], t)
    BY <1>2, <1>3 DEF Gathers, L
  <1> QED BY <1>4 DEF h, L

\* Decoding a chunk damages at most its last piece.
LEMMA LossyIs ==
    ASSUME NEW c \in Seq(Symbols)
    PROVE  /\ Lossy(c) \in Seq(Symbols) /\ Len(Lossy(c)) = Len(c)
           /\ \A i \in 1..Len(c) :
                /\ Lossy(c)[i].event = c[i].event /\ Lossy(c)[i].half = c[i].half
                /\ c[i] = Newline => Lossy(c)[i] = Newline
  <1>1. CASE c # <<>> /\ Last(c).half = 1
    <2> DEFINE n == Len(c)  x == [c[n] EXCEPT !.torn = TRUE]
    <2>1. n \in Nat /\ n \in 1..n /\ c[n] \in Symbols /\ c[n].half = 1
      BY <1>1, ElementOfSeq DEF Last
    <2>2. Lossy(c) = [c EXCEPT ![n] = x]
      BY <1>1 DEF Lossy
    <2>3. x \in Symbols /\ x.event = c[n].event /\ x.half = c[n].half /\ c[n] # Newline
      <3>1. Newline.half = 0
        BY DEF Newline
      <3> DEFINE y == c[n]
      <3>2. y \in Symbols /\ y.half = 1
        BY <2>1
      <3> HIDE DEF y
      <3>3. /\ [y EXCEPT !.torn = TRUE] \in Symbols /\ [y EXCEPT !.torn = TRUE].event = y.event
            /\ [y EXCEPT !.torn = TRUE].half = y.half
        BY <3>2 DEF Symbols
      <3>4. y # Newline
        BY <3>1, <3>2
      <3> QED BY <3>3, <3>4 DEF y
    <2> HIDE DEF x
    <2>4. Lossy(c) \in Seq(Symbols) /\ Len(Lossy(c)) = n
      BY <2>1, <2>2, <2>3, ExceptSeq
    <2>5. \A i \in 1..n : Lossy(c)[i] = IF i = n THEN x ELSE c[i]
      BY <2>1, <2>2
    <2> QED BY <2>3, <2>4, <2>5
  <1>2. CASE ~(c # <<>> /\ Last(c).half = 1)
    <2>1. Lossy(c) = c
      BY <1>2 DEF Lossy
    <2> QED BY <2>1
  <1> QED BY <1>1, <1>2

\* A chunk with what was there before, and what stays on the wire.
LEMMA Received ==
    ASSUME NEW b \in Seq(Symbols), NEW w \in Seq(Symbols), NEW n \in 1..Len(w)
    PROVE  LET t == b \o Lossy(SubSeq(w, 1, n)) IN
           /\ t \in Seq(Symbols) /\ Len(t) = Len(b) + n
           /\ SubSeq(w, n + 1, Len(w)) \in Seq(Symbols)
           /\ Within(t, b \o w, 0)
  <1> DEFINE c == SubSeq(w, 1, n)  d == Lossy(c)  t == b \o d  s == b \o w
  <1>1. Len(b) \in Nat /\ Len(w) \in Nat /\ n \in Nat /\ 1 <= n /\ n <= Len(w)
    OBVIOUS
  <1>2. c \in Seq(Symbols) /\ Len(c) = n /\ \A i \in 1..n : c[i] = w[i]
    <2>1. /\ c \in Seq(Symbols) /\ Len(c) = IF 1 <= n THEN n - 1 + 1 ELSE 0
          /\ \A i \in 1..(n - 1 + 1) : c[i] = w[1 + i - 1]
      BY <1>1, PartIs
    <2> HIDE DEF c
    <2>2. n - 1 + 1 = n /\ \A i \in 1..n : 1 + i - 1 = i
      BY <1>1
    <2> QED BY <1>1, <2>1, <2>2
  <1> HIDE DEF c
  <1>3. /\ d \in Seq(Symbols) /\ Len(d) = n
        /\ \A i \in 1..n : /\ d[i].event = c[i].event /\ d[i].half = c[i].half
                           /\ c[i] = Newline => d[i] = Newline
    BY <1>2, LossyIs
  <1> HIDE DEF d
  <1>4. SubSeq(w, n + 1, Len(w)) \in Seq(Symbols)
    <2>1. n + 1 \in Int /\ Len(w) \in Int /\ 1 <= n + 1 /\ Len(w) <= Len(w)
      BY <1>1
    <2> QED BY <2>1, PartIs
  <1>5. /\ t \in Seq(Symbols) /\ Len(t) = Len(b) + n /\ Len(s) = Len(b) + Len(w)
        /\ \A i \in 1..Len(t) : t[i] = IF i <= Len(b) THEN b[i] ELSE d[i - Len(b)]
        /\ \A i \in 1..Len(s) : s[i] = IF i <= Len(b) THEN b[i] ELSE w[i - Len(b)]
    <2>1. /\ s \in Seq(Symbols) /\ Len(s) = Len(b) + Len(w)
          /\ \A i \in 1..(Len(b) + Len(w)) : s[i] = IF i <= Len(b) THEN b[i] ELSE w[i - Len(b)]
      BY ConcatProperties
    <2>2. /\ t \in Seq(Symbols) /\ Len(t) = Len(b) + Len(d)
          /\ \A i \in 1..(Len(b) + Len(d)) : t[i] = IF i <= Len(b) THEN b[i] ELSE d[i - Len(b)]
      BY <1>3, ConcatProperties
    <2> HIDE DEF s, t
    <2> QED BY <1>3, <2>1, <2>2
  <1> HIDE DEF t, s
  <1>6. Within(t, s, 0)
    <2>1. 3 * 0 + Len(t) <= Len(s)
      BY <1>1, <1>5
    <2>2. ASSUME NEW i \in 1..Len(t)
          PROVE  /\ t[i].event = s[3 * 0 + i].event /\ t[i].half = s[3 * 0 + i].half
                 /\ s[3 * 0 + i] = Newline => t[i] = Newline
      <3>1. 3 * 0 + i = i /\ i \in 1..Len(s) /\ i \in Nat
        BY <1>1, <1>5
      <3>2. CASE i <= Len(b)
        <4>1. t[i] = b[i] /\ s[i] = b[i]
          BY <1>5, <3>1, <3>2
        <4> QED BY <3>1, <4>1
      <3>3. CASE ~(i <= Len(b))
        <4>1. t[i] = d[i - Len(b)] /\ s[i] = w[i - Len(b)] /\ i - Len(b) \in 1..n
          BY <1>1, <1>5, <3>1, <3>3
        <4> QED BY <1>2, <1>3, <3>1, <4>1
      <3> QED BY <3>2, <3>3
    <2> QED BY <2>1, <2>2 DEF Within
  <1> QED BY <1>4, <1>5, <1>6 DEF t, d, c, s

\* What is left when k lines of it were read.
LEMMA Remaining ==
    ASSUME NEW b \in Seq(Symbols), NEW w \in Seq(Symbols), NEW n \in 1..Len(w), NEW t \in Seq(Symbols),
           Len(t) = Len(b) + n, Within(t, b \o w, 0), Lined(t), NEW k \in 0..Lines(t)
    PROVE  LET u == After(t, k) \o SubSeq(w, n + 1, Len(w)) IN
           /\ u \in Seq(Symbols) /\ Len(u) = Len(b \o w) - 3 * k /\ Within(u, b \o w, k)
  <1> DEFINE a == After(t, k)  d == SubSeq(w, n + 1, Len(w))  u == a \o d  s == b \o w
  <1>1. Len(b) \in Nat /\ Len(w) \in Nat /\ n \in Nat /\ n <= Len(w) /\ Len(t) \in Nat /\ k \in Nat
        /\ 3 * k <= Len(t)
    BY LinesAre
  <1>2. /\ a \in Seq(Symbols) /\ Len(a) = Len(t) - 3 * k
        /\ \A i \in 1..(Len(t) - 3 * k) : a[i] = t[3 * k + i]
    BY Remainder
  <1>3. /\ d \in Seq(Symbols) /\ Len(d) = Len(w) - n
        /\ \A i \in 1..(Len(w) - n) : d[i] = w[n + i]
    <2> DEFINE m == n + 1  z == Len(w)
    <2>1. m \in Int /\ z \in Int /\ 1 <= m /\ z <= Len(w) /\ m = n + 1 /\ z = Len(w)
      BY <1>1
    <2> HIDE DEF m, z
    <2>2. /\ SubSeq(w, m, z) \in Seq(Symbols)
          /\ Len(SubSeq(w, m, z)) = IF m <= z THEN z - m + 1 ELSE 0
          /\ \A i \in 1..(z - m + 1) : SubSeq(w, m, z)[i] = w[m + i - 1]
      BY <2>1, PartIs
    <2>3. d = SubSeq(w, m, z)
      BY <2>1
    <2> HIDE DEF d
    <2>4. Len(d) = Len(w) - n
      <3>1. CASE m <= z
        BY <1>1, <2>1, <2>2, <2>3, <3>1
      <3>2. CASE ~(m <= z)
        <4>1. Len(w) - n = 0
          BY <1>1, <2>1, <3>2
        <4> QED BY <2>2, <2>3, <3>2, <4>1
      <3> QED BY <3>1, <3>2
    <2>5. ASSUME NEW i \in 1..(Len(w) - n) PROVE d[i] = w[n + i]
      <3>1. i \in 1..(z - m + 1) /\ m + i - 1 = n + i
        BY <1>1, <2>1
      <3> QED BY <2>2, <2>3, <3>1
    <2> QED BY <2>2, <2>3, <2>4, <2>5
  <1>4. /\ s \in Seq(Symbols) /\ Len(s) = Len(b) + Len(w)
        /\ \A i \in 1..(Len(b) + Len(w)) : s[i] = IF i <= Len(b) THEN b[i] ELSE w[i - Len(b)]
    BY ConcatProperties
  <1> HIDE DEF a, d, s
  <1>5. /\ u \in Seq(Symbols) /\ Len(u) = Len(a) + Len(d)
        /\ \A i \in 1..(Len(a) + Len(d)) : u[i] = IF i <= Len(a) THEN a[i] ELSE d[i - Len(a)]
    BY <1>2, <1>3, ConcatProperties
  <1> HIDE DEF u
  <1>6. Len(u) = Len(s) - 3 * k
    BY <1>1, <1>2, <1>3, <1>4, <1>5
  <1>7. 3 * k + Len(u) <= Len(s)
    BY <1>1, <1>4, <1>6
  <1>8. ASSUME NEW i \in 1..Len(u)
        PROVE  /\ u[i].event = s[3 * k + i].event /\ u[i].half = s[3 * k + i].half
               /\ s[3 * k + i] = Newline => u[i] = Newline
    <2>1. CASE i <= Len(a)
      <3>1. u[i] = t[3 * k + i] /\ 3 * k + i \in 1..Len(t)
        BY <1>1, <1>2, <1>3, <1>5, <2>1
      <3>2. 3 * 0 + (3 * k + i) = 3 * k + i
        BY <1>1
      <3>3. Within(t, s, 0)
        BY DEF s
      <3> DEFINE j == 3 * k + i
      <3>4. j \in 1..Len(t) /\ 3 * 0 + j = j
        BY <3>1, <3>2
      <3> HIDE DEF j
      <3>5. t[j].event = s[j].event /\ t[j].half = s[j].half /\ (s[j] = Newline => t[j] = Newline)
        BY <3>3, <3>4 DEF Within
      <3> QED BY <3>1, <3>5 DEF j
    <2>2. CASE ~(i <= Len(a))
      <3>1. u[i] = d[i - Len(a)] /\ i - Len(a) \in 1..(Len(w) - n)
        BY <1>1, <1>2, <1>3, <1>5, <2>2
      <3>2. u[i] = w[n + (i - Len(a))]
        BY <1>3, <3>1
      <3>3. /\ 3 * k + i \in 1..(Len(b) + Len(w)) /\ ~(3 * k + i <= Len(b))
            /\ 3 * k + i - Len(b) = n + (i - Len(a))
        BY <1>1, <1>2, <3>1
      <3> DEFINE j == 3 * k + i
      <3>4. j \in 1..(Len(b) + Len(w)) /\ ~(j <= Len(b)) /\ j - Len(b) = n + (i - Len(a))
        BY <3>3
      <3> HIDE DEF j
      <3>5. s[j] = w[j - Len(b)]
        BY <1>4, <3>4
      <3>6. s[3 * k + i] = w[n + (i - Len(a))]
        BY <3>4, <3>5 DEF j
      <3> QED BY <3>2, <3>6
    <2> QED BY <2>1, <2>2
  <1>9. Within(u, s, k)
    BY <1>7, <1>8 DEF Within
  <1> QED BY <1>5, <1>6, <1>9 DEF u, a, d, s

\* One more line.
LEMMA Longer ==
    ASSUME NEW s \in Seq(Symbols), Lined(s), 3 * Lines(s) = Len(s), NEW e \in Events
    PROVE  LET u == s \o Line(e) IN
           /\ u \in Seq(Symbols) /\ Lined(u) /\ Lines(u) = Lines(s) + 1 /\ Len(u) = Len(s) + 3
           /\ u[Len(s) + 1].event = e /\ \A i \in 1..Len(s) : u[i] = s[i]
  <1> DEFINE d == Line(e)  u == s \o d  L == Lines(s)
  <1>1. Len(s) \in Nat /\ L \in Nat /\ 3 * L = Len(s)
    BY LinesAre
  <1>2. /\ d \in Seq(Symbols) /\ Len(d) = 3
        /\ d[1].event = e /\ d[1].half = 1 /\ d[2].half = 2 /\ d[3] = Newline
    <2> DEFINE x == [event |-> e, half |-> 1, torn |-> FALSE]
               y == [event |-> e, half |-> 2, torn |-> FALSE]
    <2>1. x \in Symbols /\ y \in Symbols
      BY DEF Symbols
    <2>2. Newline \in Symbols
      BY DEF Symbols, Newline, Events, Plain
    <2>3. x.event = e /\ x.half = 1 /\ y.half = 2
      OBVIOUS
    <2>4. d = <<x, y, Newline>>
      BY DEF Line
    <2> HIDE DEF x, y, d
    <2> QED BY <2>1, <2>2, <2>3, <2>4
  <1> HIDE DEF d, L
  <1>3. /\ u \in Seq(Symbols) /\ Len(u) = Len(s) + 3
        /\ \A i \in 1..(Len(s) + 3) : u[i] = IF i <= Len(s) THEN s[i] ELSE d[i - Len(s)]
    <2>0. d \in Seq(Symbols)
      BY <1>2
    <2>1. /\ u \in Seq(Symbols) /\ Len(u) = Len(s) + Len(d)
          /\ \A i \in 1..(Len(s) + Len(d)) : u[i] = IF i <= Len(s) THEN s[i] ELSE d[i - Len(s)]
      BY <2>0, ConcatProperties
    <2> HIDE DEF u
    <2> QED BY <1>2, <2>1
  <1> HIDE DEF u
  <1>4. \A i \in 1..Len(s) : u[i] = s[i]
    BY <1>1, <1>3
  <1>5. u[Len(s) + 1] = d[1] /\ u[Len(s) + 2] = d[2] /\ u[Len(s) + 3] = d[3]
    <2>1. ASSUME NEW i \in 1..3 PROVE u[Len(s) + i] = d[i]
      <3>1. Len(s) + i \in 1..(Len(s) + 3) /\ ~(Len(s) + i <= Len(s)) /\ Len(s) + i - Len(s) = i
        BY <1>1
      <3> QED BY <1>3, <3>1
    <2> QED BY <2>1
  <1>6. Lines(u) = L + 1
    BY <1>1, <1>3 DEF Lines, L
  <1>7. Lined(u)
    <2>1. SUFFICES ASSUME NEW j \in 0..Len(u)
                   PROVE  /\ 3 * j + 1 <= Len(u) => u[3 * j + 1].half = 1
                          /\ 3 * j + 2 <= Len(u) => u[3 * j + 2].half = 2
                          /\ 3 * j + 3 <= Len(u) => u[3 * j + 3] = Newline
      BY DEF Lined
    <2>2. j \in Nat
      BY <1>1, <1>3
    <2>3. CASE j < L
      <3>1. /\ j \in 0..Len(s) /\ 3 * j + 1 \in 1..Len(s) /\ 3 * j + 2 \in 1..Len(s)
            /\ 3 * j + 3 \in 1..Len(s)
        BY <1>1, <2>2, <2>3
      <3>2. s[3 * j + 1].half = 1 /\ s[3 * j + 2].half = 2 /\ s[3 * j + 3] = Newline
        <4>1. 3 * j + 1 <= Len(s) /\ 3 * j + 2 <= Len(s) /\ 3 * j + 3 <= Len(s)
          BY <1>1, <2>2, <2>3
        <4> QED BY <3>1, <4>1 DEF Lined
      <3> QED BY <1>4, <3>1, <3>2
    <2>4. CASE j = L
      <3>1. 3 * j = Len(s)
        BY <1>1, <2>4
      <3> QED BY <1>2, <1>5, <3>1
    <2>5. CASE j > L
      <3>1. ~(3 * j + 1 <= Len(u)) /\ ~(3 * j + 2 <= Len(u)) /\ ~(3 * j + 3 <= Len(u))
        BY <1>1, <1>3, <2>2, <2>5
      <3> QED BY <3>1
    <2> QED BY <1>1, <2>2, <2>3, <2>4, <2>5
  <1> QED BY <1>2, <1>3, <1>4, <1>5, <1>6, <1>7 DEF u, d, L

\* A line that is added is read last.
LEMMA GathersOn ==
    ASSUME NEW s \in Seq(Symbols), Lined(s), 3 * Lines(s) = Len(s), NEW e \in Events,
           NEW g, NEW v, Gathers(g, v, s)
    PROVE  Gathers([i \in 0..(Lines(s) + 1) |-> IF i = Lines(s) + 1 THEN Accept(g[Lines(s)], Bare(e)) ELSE g[i]],
                   v, s \o Line(e))
  <1> DEFINE L == Lines(s)  u == s \o Line(e)  q == Accept(g[L], Bare(e))
             h == [i \in 0..(L + 1) |-> IF i = L + 1 THEN q ELSE g[i]]
  <1>1. Len(s) \in Nat /\ L \in Nat /\ 3 * L = Len(s)
    BY LinesAre
  <1>2. /\ Lines(u) = L + 1 /\ u[Len(s) + 1].event = e /\ \A i \in 1..Len(s) : u[i] = s[i]
    BY Longer
  <1> HIDE DEF u, L, q
  <1>3. h[0] = v
    BY <1>1 DEF Gathers
  <1>4. ASSUME NEW i \in 1..(L + 1) PROVE h[i] = Accept(h[i - 1], Bare(u[3 * i - 2].event))
    <2>1. CASE i = L + 1
      <3>1. h[i] = q /\ h[i - 1] = g[L] /\ 3 * i - 2 = Len(s) + 1
        BY <1>1, <2>1
      <3> HIDE DEF h
      <3> QED BY <1>2, <3>1 DEF q
    <2>2. CASE i # L + 1
      <3>1. h[i] = g[i] /\ h[i - 1] = g[i - 1] /\ 3 * i - 2 \in 1..Len(s) /\ i \in 1..L
        BY <1>1, <2>2
      <3>2. g[i] = Accept(g[i - 1], Bare(s[3 * i - 2].event))
        BY <3>1 DEF Gathers, L
      <3> HIDE DEF h
      <3> QED BY <1>2, <3>1, <3>2
    <2> QED BY <2>1, <2>2
  <1> HIDE DEF h
  <1>5. Gathers(h, v, u)
    BY <1>2, <1>3, <1>4 DEF Gathers
  <1> QED BY <1>5 DEF h, u, q, L

-------------------------------------------------------------------------------
(* What the provider says *)

\* The stages of the provider, and the states of the request.
Stages == {"opening", "talking", "closing", "over", "cut"}
Stati == {"new", "asked", "streaming", "reading", "replied", "failed"}
\* What the provider said.
SaidInv ==
    /\ Known /\ stream \in BOOLEAN /\ stage \in Stages /\ status \in Stati
    /\ status = "streaming" => stream
    /\ status = "reading" => ~stream
    /\ said \in Sayings
    /\ \A i \in 1..Len(said.text) : said.text[i] = i
    /\ \A i, j \in 1..Len(said.calls) : said.calls[i].id = said.calls[j].id => i = j
    /\ said.usage.total = said.usage.prompt + said.usage.completion
    /\ stage \in {"talking", "closing", "over"} => said.usage.prompt = 1
    /\ protocol = "chat" => said.thought = <<>>
    /\ said.ended => stage \in {"over", "cut"}

\* The fields of what was said.
LEMMA SaidParts ==
    ASSUME SaidInv
    PROVE  /\ said = [text |-> said.text, thought |-> said.thought, calls |-> said.calls,
                      usage |-> said.usage, ended |-> said.ended]
           /\ said.text \in Seq(Nat) /\ said.thought \in Seq(Nat) /\ said.calls \in Seq(Records)
           /\ said.usage \in Counts /\ said.ended \in BOOLEAN
           /\ Len(said.text) \in Nat /\ Len(said.calls) \in Nat
           /\ DOMAIN said.text = 1..Len(said.text) /\ DOMAIN said.calls = 1..Len(said.calls)
           /\ \A i \in 1..Len(said.calls) :
                /\ said.calls[i] \in Records /\ said.calls[i].id \in Ids
                /\ said.calls[i].args \in Seq(Nat) /\ said.calls[i].open \in BOOLEAN
  <1>1. said \in Sayings
    BY DEF SaidInv
  <1>2. /\ said = [text |-> said.text, thought |-> said.thought, calls |-> said.calls,
                   usage |-> said.usage, ended |-> said.ended]
        /\ said.text \in Seq(Nat) /\ said.thought \in Seq(Nat) /\ said.calls \in Seq(Records)
        /\ said.usage \in Counts /\ said.ended \in BOOLEAN
    BY <1>1 DEF Sayings
  <1>3. /\ Len(said.text) \in Nat /\ Len(said.calls) \in Nat
        /\ DOMAIN said.text = 1..Len(said.text) /\ DOMAIN said.calls = 1..Len(said.calls)
    BY <1>2, LenProperties
  <1>4. ASSUME NEW i \in 1..Len(said.calls)
        PROVE  /\ said.calls[i] \in Records /\ said.calls[i].id \in Ids
               /\ said.calls[i].args \in Seq(Nat) /\ said.calls[i].open \in BOOLEAN
    <2>1. said.calls[i] \in Records
      BY <1>2, ElementOfSeq
    <2> QED BY <2>1 DEF Records
  <1> QED BY <1>2, <1>3, <1>4

\* The usage of a provider adds up.
LEMMA CountedIs ==
    ASSUME NEW p \in Nat, NEW c \in Nat
    PROVE  /\ Counted(p, c) \in Counts /\ Counted(p, c).prompt = p /\ Counted(p, c).completion = c
           /\ Counted(p, c).total = p + c
  BY DEF Counted, Counts

\* The usage grows by what is said.
LEMMA UsageIs ==
    ASSUME NEW u \in Counts
    PROVE  LET w == Counted(1, u.completion + 1) IN
           /\ u.prompt \in Nat /\ u.completion \in Nat /\ u.total \in Nat
           /\ w \in Counts /\ w.prompt = 1 /\ w.completion = u.completion + 1
           /\ w.total = w.prompt + w.completion
  <1>1. u.prompt \in Nat /\ u.completion \in Nat /\ u.total \in Nat
    BY DEF Counts
  <1> DEFINE c == u.completion + 1
  <1>2. 1 \in Nat /\ c \in Nat
    BY <1>1
  <1> HIDE DEF c
  <1>3. /\ Counted(1, c) \in Counts /\ Counted(1, c).prompt = 1 /\ Counted(1, c).completion = c
        /\ Counted(1, c).total = 1 + c
    BY <1>2, CountedIs
  <1> QED BY <1>1, <1>3 DEF c

\* Nothing is said at first.
LEMMA SaidInit ==
    ASSUME StreamInit
    PROVE  SaidInv
  <1>1. /\ said.text = <<>> /\ said.thought = <<>> /\ said.calls = <<>> /\ said.usage = Counted(0, 0)
        /\ said.ended = FALSE /\ said \in Sayings
    BY CountedIs DEF StreamInit, Sayings
  <1>2. Known
    BY ModelStreamAssumption DEF Known, StreamInit
  <1>3. stream \in BOOLEAN /\ stage = "opening" /\ status = "new"
    BY DEF StreamInit
  <1>4. said.usage.total = said.usage.prompt + said.usage.completion
    <2>1. 0 \in Nat /\ 0 + 0 = 0
      OBVIOUS
    <2> QED BY <1>1, <2>1, CountedIs
  <1>5. Len(said.text) = 0 /\ Len(said.calls) = 0
    BY <1>1
  <1> QED BY <1>1, <1>2, <1>3, <1>4, <1>5 DEF SaidInv, Stages, Stati

\* What leaves the provider alone.
Aside == UNCHANGED <<protocol, stream, said, stage>>
\* It leaves what was said alone.
LEMMA SaidAside ==
    ASSUME SaidInv, Aside, status' \in Stati, status' = "streaming" => stream, status' = "reading" => ~stream
    PROVE  SaidInv'
  BY DEF SaidInv, Aside, Known

\* The provider says well-formed things.
LEMMA SaidKept ==
    ASSUME SaidInv, [StreamNext]_streamVars
    PROVE  SaidInv'
  <1>0. CASE UNCHANGED streamVars
    BY <1>0, SaidAside DEF streamVars, call, provider, Aside, SaidInv
  <1>1. CASE Ask
    BY <1>1, SaidAside DEF Ask, call, provider, Aside, Stati
  <1>2. CASE Respond
    <2>1. status' \in {IF stream THEN "streaming" ELSE "reading", "failed"} /\ Aside
      BY <1>2 DEF Respond, call, provider, Aside
    <2>2. status' \in Stati /\ (status' = "streaming" => stream) /\ (status' = "reading" => ~stream)
      BY <2>1 DEF Stati
    <2> QED BY <2>1, <2>2, SaidAside
  <1>3. CASE Break
    BY <1>3, SaidAside DEF Break, Fail, call, provider, Aside, Stati
  <1>4. ASSUME Read PROVE SaidInv'
    <2>1. Aside
      BY <1>4 DEF Read, Chunk, EndOfStream, ReadWhole, call, provider, Aside
    <2>2. status' = status \/ status' \in {"failed", "replied"}
      <3>1. CASE Chunk
        BY <3>1 DEF Chunk
      <3>2. CASE EndOfStream
        BY <3>2 DEF EndOfStream, Conclude, Fail
      <3>3. CASE ReadWhole
        BY <3>3 DEF ReadWhole, Conclude, Fail
      <3> QED BY <1>4, <3>1, <3>2, <3>3 DEF Read
    <2>3. status' \in Stati /\ (status' = "streaming" => stream) /\ (status' = "reading" => ~stream)
      BY <2>2 DEF Stati, SaidInv
    <2> QED BY <2>1, <2>3, SaidAside
  <1>5. ASSUME Speak PROVE SaidInv'
    <2> USE SaidParts
    <2>1. CASE Cut
      BY <2>1 DEF Cut, SaidInv, call, Known, Stages
    <2>2. CASE Open
      <3>1. /\ said' = [said EXCEPT !.usage = Counted(1, 0)] /\ stage = "opening" /\ stage' = "talking"
            /\ protocol' = protocol /\ stream' = stream /\ status' = status
        BY <2>2 DEF Open, Emit, call
      <3>2. /\ said' \in Sayings /\ said'.text = said.text /\ said'.thought = said.thought
            /\ said'.calls = said.calls /\ said'.ended = said.ended /\ said'.usage = Counted(1, 0)
        <4>1. Counted(1, 0) \in Counts
          BY DEF Counted, Counts
        <4> QED BY <3>1, <4>1 DEF Sayings
      <3>3. said'.usage.prompt = 1 /\ said'.usage.completion = 0 /\ said'.usage.total = 1
        BY <3>2 DEF Counted
      <3>4. said'.usage.total = said'.usage.prompt + said'.usage.completion
        BY <3>3
      <3> QED BY <3>1, <3>2, <3>3, <3>4 DEF SaidInv, Known, Stages
    <2>3. CASE SayText
      <3> DEFINE t == Append(said.text, Len(said.text) + 1)  u == Counted(1, said.usage.completion + 1)
      <3>1. /\ said' = [said EXCEPT !.text = t, !.usage = u] /\ stage = "talking" /\ stage' = stage
            /\ protocol' = protocol /\ stream' = stream /\ status' = status
        BY <2>3 DEF SayText, Talking, Emit, call
      <3>2. u \in Counts /\ u.prompt = 1 /\ u.total = u.prompt + u.completion
        BY UsageIs
      <3>3. /\ t \in Seq(Nat) /\ Len(t) = Len(said.text) + 1
            /\ \A i \in 1..Len(t) : t[i] = i
        BY DEF SaidInv
      <3> HIDE DEF t, u
      <3>4. /\ said' \in Sayings /\ said'.text = t /\ said'.thought = said.thought
            /\ said'.calls = said.calls /\ said'.ended = said.ended /\ said'.usage = u
        BY <3>1, <3>2, <3>3 DEF Sayings
      <3> QED BY <3>1, <3>2, <3>3, <3>4 DEF SaidInv, Known, Stages
    <2>4. CASE SayThought
      <3> DEFINE u == Counted(1, said.usage.completion + 1)
      <3>1. /\ said' = [said EXCEPT !.thought = <<1>>, !.usage = u] /\ stage = "talking" /\ stage' = stage
            /\ protocol' = protocol /\ stream' = stream /\ status' = status /\ protocol # "chat"
        BY <2>4 DEF SayThought, Talking, Emit, call
      <3>2. u \in Counts /\ u.prompt = 1 /\ u.total = u.prompt + u.completion
        BY UsageIs
      <3> HIDE DEF u
      <3>4. /\ said' \in Sayings /\ said'.text = said.text /\ said'.thought = <<1>>
            /\ said'.calls = said.calls /\ said'.ended = said.ended /\ said'.usage = u
        <4>1. <<1>> \in Seq(Nat)
          OBVIOUS
        <4> QED BY <3>1, <3>2, <4>1 DEF Sayings
      <3> QED BY <3>1, <3>2, <3>4 DEF SaidInv, Known, Stages
    <2>5. ASSUME NEW id \in Ids, OpenCall(id) PROVE SaidInv'
      <3> DEFINE x == [id |-> id, args |-> <<>>, open |-> TRUE]  c == Append(said.calls, x)
      <3>1. /\ said' = [said EXCEPT !.calls = c] /\ stage' = stage
            /\ protocol' = protocol /\ stream' = stream /\ status' = status
            /\ \A i \in 1..Len(said.calls) : said.calls[i].id # id
        BY <2>5 DEF OpenCall, Talking, Emit, call
      <3>2. x \in Records /\ x.id = id
        BY DEF Records
      <3> HIDE DEF x
      <3>3. /\ c \in Seq(Records) /\ Len(c) = Len(said.calls) + 1 /\ c[Len(said.calls) + 1] = x
            /\ \A i \in 1..Len(said.calls) : c[i] = said.calls[i]
        BY <3>2, AppendProperties
      <3> HIDE DEF c
      <3>4. \A i, j \in 1..Len(c) : c[i].id = c[j].id => i = j
        <4>1. SUFFICES ASSUME NEW i \in 1..Len(c), NEW j \in 1..Len(c), c[i].id = c[j].id PROVE i = j
          OBVIOUS
        <4>2. i \in 1..Len(said.calls) \/ i = Len(said.calls) + 1
          BY <3>3
        <4>3. j \in 1..Len(said.calls) \/ j = Len(said.calls) + 1
          BY <3>3
        <4> QED BY <3>1, <3>2, <3>3, <4>1, <4>2, <4>3 DEF SaidInv
      <3>5. /\ said' \in Sayings /\ said'.text = said.text /\ said'.thought = said.thought
            /\ said'.calls = c /\ said'.ended = said.ended /\ said'.usage = said.usage
        BY <3>1, <3>3 DEF Sayings
      <3> QED BY <3>1, <3>4, <3>5 DEF SaidInv, Known, Stages
    <2>6. ASSUME NEW i \in DOMAIN said.calls, SayArgs(i) \/ CloseCall(i) PROVE SaidInv'
      <3> DEFINE old == said.calls[i]
                 x == IF SayArgs(i) THEN [old EXCEPT !.args = Append(@, Len(@) + 1)]
                      ELSE [old EXCEPT !.open = FALSE]
                 c == [said.calls EXCEPT ![i] = x]
      <3>1. /\ said' = [said EXCEPT !.calls = c] /\ stage' = stage
            /\ protocol' = protocol /\ stream' = stream /\ status' = status
        BY <2>6 DEF SayArgs, CloseCall, Talking, Emit, call
      <3>2. x \in Records /\ x.id = old.id
        <4> HIDE DEF old
        <4>1. old \in Records /\ old.args \in Seq(Nat)
          BY DEF old
        <4>2. [old EXCEPT !.open = FALSE] \in Records /\ [old EXCEPT !.open = FALSE].id = old.id
          BY <4>1 DEF Records
        <4>3. Append(old.args, Len(old.args) + 1) \in Seq(Nat)
          BY <4>1
        <4>4. LET y == [old EXCEPT !.args = Append(@, Len(@) + 1)] IN y \in Records /\ y.id = old.id
          BY <4>1, <4>3 DEF Records
        <4> QED BY <4>2, <4>4
      <3> HIDE DEF x
      <3>3. /\ c \in Seq(Records) /\ Len(c) = Len(said.calls)
            /\ \A j \in 1..Len(said.calls) : c[j] = IF j = i THEN x ELSE said.calls[j]
        BY <3>2, ExceptSeq
      <3> HIDE DEF c
      <3>4. \A j, k \in 1..Len(c) : c[j].id = c[k].id => j = k
        <4>1. \A j \in 1..Len(c) : c[j].id = said.calls[j].id
          BY <3>2, <3>3
        <4> QED BY <3>3, <4>1 DEF SaidInv
      <3>5. /\ said' \in Sayings /\ said'.text = said.text /\ said'.thought = said.thought
            /\ said'.calls = c /\ said'.ended = said.ended /\ said'.usage = said.usage
        BY <3>1, <3>3 DEF Sayings
      <3> QED BY <3>1, <3>4, <3>5 DEF SaidInv, Known, Stages
    <2>7. CASE Close
      BY <2>7 DEF Close, Emit, call, SaidInv, Known, Stages
    <2>8. CASE Finish
      <3>1. /\ said' = [said EXCEPT !.ended = TRUE] /\ stage' = "over" /\ stage \in {"talking", "closing"}
            /\ protocol' = protocol /\ stream' = stream /\ status' = status
        BY <2>8 DEF Finish, Emit, call
      <3>2. /\ said' \in Sayings /\ said'.text = said.text /\ said'.thought = said.thought
            /\ said'.calls = said.calls /\ said'.usage = said.usage
        BY <3>1 DEF Sayings
      <3> QED BY <3>1, <3>2 DEF SaidInv, Known, Stages
    <2>9. CASE ReportError
      BY <2>9 DEF ReportError, Emit, call, SaidInv, Known, Stages
    <2> QED BY <1>5, <2>1, <2>2, <2>3, <2>4, <2>5, <2>6, <2>7, <2>8, <2>9 DEF Speak
  <1> QED BY <1>0, <1>1, <1>2, <1>3, <1>4, <1>5 DEF StreamNext

-------------------------------------------------------------------------------
(* What is said is what its line will be read as *)

\* v, read to the end, holds what was said.
CallsHeard(v) ==
    IF protocol = "responses"
    THEN /\ DOMAIN v.callOf = 1..Len(said.calls)
         /\ DOMAIN v.calls = {said.calls[i].id : i \in 1..Len(said.calls)}
         /\ \A i \in 1..Len(said.calls) :
               /\ v.callOf[i] = said.calls[i].id
               /\ v.calls[said.calls[i].id] = Item(<<said.calls[i].id>>, said.calls[i].args)
    ELSE /\ DOMAIN v.calls = 1..Len(said.calls)
         /\ \A i \in 1..Len(said.calls) :
               v.calls[i] = Item(<<said.calls[i].id>>, said.calls[i].args)
\* The usage comes with the marker, or just before.
UsageHeard(v) ==
    /\ stage = "closing" \/ said.ended => v.usage = SummedUsage(said.usage)
    /\ protocol = "anthropic" => v.usage[1] = said.usage.prompt
\* All that was said.
Faithful(v) == v.text = said.text /\ v.thought = said.thought /\ CallsHeard(v) /\ UsageHeard(v)
\* What reading to the end gives: all that was said, and the marker if it was said.  After
\* a cut, that is promised when there is a marker.
Promise(v) ==
    IF stage = "cut" THEN v.complete => said.ended /\ Faithful(v)
    ELSE (v.complete <=> said.ended) /\ Faithful(v)

\* The event that is sent, and what reading it makes of v.
Says(v, e) ==
    /\ e \in Events /\ Emit(e) /\ stage' # "cut"
    /\ \A w : w = Accept(v, Bare(e)) => Promise(w)'
\* v is what is gathered of all that was said so far.
Speaking(v) == SaidInv /\ Shape(v, Nat) /\ Promise(v) /\ stage \in {"opening", "talking", "closing"}

\* What is known of the provider while it speaks.
LEMMA SpeakingParts ==
    ASSUME NEW v, Speaking(v)
    PROVE  /\ Known /\ said.ended = FALSE /\ v.complete = FALSE /\ Faithful(v)
           /\ v.text = said.text /\ v.thought = said.thought /\ CallsHeard(v) /\ UsageHeard(v)
  <1>1. said.ended = FALSE /\ Known
    BY SaidParts DEF Speaking, SaidInv
  <1>2. v.complete = FALSE /\ Faithful(v)
    BY <1>1 DEF Speaking, Promise, Shape
  <1> QED BY <1>1, <1>2 DEF Speaking, Faithful, Shape

\* What is no piece is its own bare event.
LEMMA PlainSays ==
    ASSUME NEW e \in Plain
    PROVE  e \in Events /\ Bare(e) = e
  BY BareIs DEF Events

\* Changing one field of what was gathered leaves the others.
LEMMA Edited ==
    ASSUME NEW v, NEW S, Shape(v, S), NEW x
    PROVE  /\ \A w : w = [v EXCEPT !.text = x] =>
                /\ w.text = x /\ w.thought = v.thought /\ w.calls = v.calls /\ w.callOf = v.callOf
                /\ w.usage = v.usage /\ w.complete = v.complete /\ w.failed = v.failed
           /\ \A w : w = [v EXCEPT !.thought = x] =>
                /\ w.text = v.text /\ w.thought = x /\ w.calls = v.calls /\ w.callOf = v.callOf
                /\ w.usage = v.usage /\ w.complete = v.complete /\ w.failed = v.failed
           /\ \A w : w = [v EXCEPT !.calls = x] =>
                /\ w.text = v.text /\ w.thought = v.thought /\ w.calls = x /\ w.callOf = v.callOf
                /\ w.usage = v.usage /\ w.complete = v.complete /\ w.failed = v.failed
           /\ \A w : w = [v EXCEPT !.usage = x] =>
                /\ w.text = v.text /\ w.thought = v.thought /\ w.calls = v.calls /\ w.callOf = v.callOf
                /\ w.usage = x /\ w.complete = v.complete /\ w.failed = v.failed
           /\ \A w : w = [v EXCEPT !.complete = x] =>
                /\ w.text = v.text /\ w.thought = v.thought /\ w.calls = v.calls /\ w.callOf = v.callOf
                /\ w.usage = v.usage /\ w.complete = x /\ w.failed = v.failed
           /\ \A w : w = [v EXCEPT !.failed = x] =>
                /\ w.text = v.text /\ w.thought = v.thought /\ w.calls = v.calls /\ w.callOf = v.callOf
                /\ w.usage = v.usage /\ w.complete = v.complete /\ w.failed = x
  <1> DEFINE r == [text |-> v.text, thought |-> v.thought, calls |-> v.calls, callOf |-> v.callOf,
                   usage |-> v.usage, complete |-> v.complete, failed |-> v.failed]
  <1>1. v = r
    BY DEF Shape
  <1>2. ASSUME NEW w, w = [v EXCEPT !.text = x]
        PROVE  /\ w.text = x /\ w.thought = v.thought /\ w.calls = v.calls /\ w.callOf = v.callOf
               /\ w.usage = v.usage /\ w.complete = v.complete /\ w.failed = v.failed
    BY <1>1, <1>2
  <1>3. ASSUME NEW w, w = [v EXCEPT !.thought = x]
        PROVE  /\ w.text = v.text /\ w.thought = x /\ w.calls = v.calls /\ w.callOf = v.callOf
               /\ w.usage = v.usage /\ w.complete = v.complete /\ w.failed = v.failed
    BY <1>1, <1>3
  <1>4. ASSUME NEW w, w = [v EXCEPT !.calls = x]
        PROVE  /\ w.text = v.text /\ w.thought = v.thought /\ w.calls = x /\ w.callOf = v.callOf
               /\ w.usage = v.usage /\ w.complete = v.complete /\ w.failed = v.failed
    BY <1>1, <1>4
  <1>5. ASSUME NEW w, w = [v EXCEPT !.usage = x]
        PROVE  /\ w.text = v.text /\ w.thought = v.thought /\ w.calls = v.calls /\ w.callOf = v.callOf
               /\ w.usage = x /\ w.complete = v.complete /\ w.failed = v.failed
    BY <1>1, <1>5
  <1>6. ASSUME NEW w, w = [v EXCEPT !.complete = x]
        PROVE  /\ w.text = v.text /\ w.thought = v.thought /\ w.calls = v.calls /\ w.callOf = v.callOf
               /\ w.usage = v.usage /\ w.complete = x /\ w.failed = v.failed
    BY <1>1, <1>6
  <1>7. ASSUME NEW w, w = [v EXCEPT !.failed = x]
        PROVE  /\ w.text = v.text /\ w.thought = v.thought /\ w.calls = v.calls /\ w.callOf = v.callOf
               /\ w.usage = v.usage /\ w.complete = v.complete /\ w.failed = x
    BY <1>1, <1>7
  <1> HIDE DEF r
  <1> QED BY <1>2, <1>3, <1>4, <1>5, <1>6, <1>7

\* What leaves the calls alone.
LEMMA SameCalls ==
    ASSUME NEW v, CallsHeard(v), NEW w, w.calls = v.calls, w.callOf = v.callOf,
           protocol' = protocol, said'.calls = said.calls
    PROVE  CallsHeard(w)'
  BY DEF CallsHeard

\* The response starts.
LEMMA OpenSays ==
    ASSUME NEW v, Speaking(v), Open
    PROVE  \E e : Says(v, e)
  <1>0. /\ Known /\ Shape(v, Nat) /\ v.complete = FALSE /\ said.ended = FALSE
        /\ v.text = said.text /\ v.thought = said.thought /\ CallsHeard(v) /\ UsageHeard(v)
        /\ said = [text |-> said.text, thought |-> said.thought, calls |-> said.calls,
                   usage |-> said.usage, ended |-> said.ended]
    BY SpeakingParts, SaidParts DEF Speaking
  <1>1. PICK e : e = IF protocol = "anthropic" THEN [kind |-> "start", usage |-> Counted(1, 0)]
                     ELSE [kind |-> "comment"]
    OBVIOUS
  <1>2. /\ Emit(e) /\ stage' = "talking" /\ protocol' = protocol
        /\ said' = [said EXCEPT !.usage = Counted(1, 0)]
    BY <1>1 DEF Open, Emit, call
  <1>3. e \in Plain
    <2>1. Counted(1, 0) \in Counts
      BY DEF Counted, Counts
    <2> QED BY <1>1, <2>1 DEF Plain
  <1>4. e \in Events /\ Bare(e) = e
    BY <1>3, PlainSays
  <1>5. ASSUME NEW w, w = Accept(v, Bare(e)) PROVE Promise(w)'
    <2>1. w = IF protocol = "anthropic" THEN [v EXCEPT !.usage = SummedUsage(Counted(1, 0))] ELSE v
      BY <1>0, <1>1, <1>4, <1>5 DEF Accept, AnthropicEvent
    <2>2. /\ said'.text = said.text /\ said'.thought = said.thought /\ said'.calls = said.calls
          /\ said'.ended = FALSE /\ said'.usage = Counted(1, 0)
      BY <1>0, <1>2
    <2>3. /\ w.text = v.text /\ w.thought = v.thought /\ w.calls = v.calls /\ w.callOf = v.callOf
          /\ w.complete = FALSE
          /\ protocol = "anthropic" => w.usage[1] = 1
      <3>1. PICK u : u = SummedUsage(Counted(1, 0))
        OBVIOUS
      <3>2. u[1] = 1
        BY <3>1 DEF SummedUsage, Counted
      <3>3. CASE protocol = "anthropic"
        <4>1. w = [v EXCEPT !.usage = u]
          BY <2>1, <3>1, <3>3
        <4> QED BY <1>0, <3>2, <4>1, Edited
      <3>4. CASE protocol # "anthropic"
        BY <1>0, <2>1, <3>4
      <3> QED BY <3>3, <3>4
    <2>4. CallsHeard(w)'
      BY <1>0, <1>2, <2>2, <2>3, SameCalls
    <2>5. UsageHeard(w)'
      BY <1>2, <2>2, <2>3 DEF UsageHeard, Counted
    <2> QED BY <1>0, <1>2, <2>2, <2>3, <2>4, <2>5 DEF Promise, Faithful
  <1>6. Says(v, e)
    BY <1>2, <1>4, <1>5 DEF Says
  <1> QED BY <1>6

\* A piece of text.
LEMMA SayTextSays ==
    ASSUME NEW v, Speaking(v), SayText
    PROVE  \E e : Says(v, e)
  <1>0. /\ Known /\ Shape(v, Nat) /\ v.complete = FALSE /\ said.ended = FALSE
        /\ v.text = said.text /\ v.thought = said.thought /\ CallsHeard(v) /\ UsageHeard(v)
        /\ said = [text |-> said.text, thought |-> said.thought, calls |-> said.calls,
                   usage |-> said.usage, ended |-> said.ended]
    BY SpeakingParts, SaidParts DEF Speaking
  <1>1. PICK n : n = Len(said.text) + 1
    OBVIOUS
  <1>2. PICK e : e = [kind |-> "text", piece |-> Piece(n)]
    OBVIOUS
  <1>3. /\ Emit(e) /\ stage' = "talking" /\ protocol' = protocol /\ stage = "talking"
        /\ said' = [said EXCEPT !.text = Append(@, n), !.usage = Counted(1, said.usage.completion + 1)]
    BY <1>1, <1>2 DEF SayText, Talking, Emit, call
  <1>4. e \in Events /\ Bare(e) = [kind |-> "text", piece |-> n] /\ Bare(e) \in Spoken(Nat)
    <2>1. n \in Nat \ {0}
      BY <1>1
    <2>2. Piece(n) \in Pieces /\ Piece(n).n = n
      BY <2>1 DEF Piece, Pieces
    <2>3. e \in Spoken(Pieces)
      BY <1>2, <2>2 DEF Spoken
    <2> QED BY <1>2, <2>1, <2>2, <2>3, BareIs DEF Events, Spoken
  <1>5. ASSUME NEW w, w = Accept(v, Bare(e)) PROVE Promise(w)'
    <2>1. w = [v EXCEPT !.text = Append(said.text, n)]
      <3> DEFINE b == Bare(e)
      <3>1. b.kind = "text" /\ b.piece = n /\ b \in Spoken(Nat)
        BY <1>4
      <3> HIDE DEF b
      <3>2. Accept(v, b) = IF b.kind = "text" THEN [v EXCEPT !.text = Append(@, b.piece)]
                           ELSE IF protocol = "chat" THEN v
                           ELSE [v EXCEPT !.thought = Append(@, b.piece)]
        BY <1>0, <3>1, AcceptSpoken
      <3>3. w = [v EXCEPT !.text = Append(@, n)]
        BY <1>5, <3>1, <3>2 DEF b
      <3> QED BY <1>0, <3>3
    <2>2. /\ said'.text = Append(said.text, n) /\ said'.thought = said.thought /\ said'.calls = said.calls
          /\ said'.ended = FALSE /\ said'.usage.prompt = 1
      BY <1>0, <1>3 DEF Counted
    <2>3. /\ w.text = Append(said.text, n) /\ w.thought = v.thought /\ w.calls = v.calls
          /\ w.callOf = v.callOf /\ w.complete = FALSE /\ w.usage = v.usage
      BY <1>0, <2>1, Edited
    <2>4. CallsHeard(w)'
      BY <1>0, <1>3, <2>2, <2>3, SameCalls
    <2>5. UsageHeard(w)'
      <3>1. said.usage.prompt = 1
        BY <1>3 DEF Speaking, SaidInv
      <3> QED BY <1>0, <1>3, <2>2, <2>3, <3>1 DEF UsageHeard
    <2> QED BY <1>0, <1>3, <2>2, <2>3, <2>4, <2>5 DEF Promise, Faithful
  <1>6. Says(v, e)
    BY <1>3, <1>4, <1>5 DEF Says
  <1> QED BY <1>6

\* A piece of reasoning.
LEMMA SayThoughtSays ==
    ASSUME NEW v, Speaking(v), SayThought
    PROVE  \E e : Says(v, e)
  <1>0. /\ Known /\ Shape(v, Nat) /\ v.complete = FALSE /\ said.ended = FALSE
        /\ v.text = said.text /\ v.thought = said.thought /\ CallsHeard(v) /\ UsageHeard(v)
        /\ said = [text |-> said.text, thought |-> said.thought, calls |-> said.calls,
                   usage |-> said.usage, ended |-> said.ended]
    BY SpeakingParts, SaidParts DEF Speaking
  <1>2. PICK e : e = [kind |-> "thought", piece |-> Piece(1)]
    OBVIOUS
  <1>3. /\ Emit(e) /\ stage' = "talking" /\ protocol' = protocol /\ stage = "talking"
        /\ said' = [said EXCEPT !.thought = <<1>>, !.usage = Counted(1, said.usage.completion + 1)]
        /\ protocol # "chat" /\ said.thought = <<>>
    BY <1>2 DEF SayThought, Talking, Emit, call
  <1>4. e \in Events /\ Bare(e) = [kind |-> "thought", piece |-> 1] /\ Bare(e) \in Spoken(Nat)
    <2>2. Piece(1) \in Pieces /\ Piece(1).n = 1
      BY DEF Piece, Pieces
    <2>3. e \in Spoken(Pieces)
      BY <1>2, <2>2 DEF Spoken
    <2> QED BY <1>2, <2>2, <2>3, BareIs DEF Events, Spoken
  <1>5. ASSUME NEW w, w = Accept(v, Bare(e)) PROVE Promise(w)'
    <2>1. w = [v EXCEPT !.thought = <<1>>]
      <3> DEFINE b == Bare(e)
      <3>1. b.kind = "thought" /\ b.piece = 1 /\ b \in Spoken(Nat)
        BY <1>4
      <3> HIDE DEF b
      <3>2. Accept(v, b) = IF b.kind = "text" THEN [v EXCEPT !.text = Append(@, b.piece)]
                           ELSE IF protocol = "chat" THEN v
                           ELSE [v EXCEPT !.thought = Append(@, b.piece)]
        BY <1>0, <3>1, AcceptSpoken
      <3>3. w = [v EXCEPT !.thought = Append(@, 1)]
        BY <1>3, <1>5, <3>1, <3>2 DEF b
      <3>4. Append(v.thought, 1) = <<1>>
        BY <1>0, <1>3
      <3> QED BY <3>3, <3>4
    <2>2. /\ said'.text = said.text /\ said'.thought = <<1>> /\ said'.calls = said.calls
          /\ said'.ended = FALSE /\ said'.usage.prompt = 1
      BY <1>0, <1>3 DEF Counted
    <2>3. /\ w.text = said.text /\ w.thought = <<1>> /\ w.calls = v.calls
          /\ w.callOf = v.callOf /\ w.complete = FALSE /\ w.usage = v.usage
      BY <1>0, <2>1, Edited
    <2>4. CallsHeard(w)'
      BY <1>0, <1>3, <2>2, <2>3, SameCalls
    <2>5. UsageHeard(w)'
      <3>1. said.usage.prompt = 1
        BY <1>3 DEF Speaking, SaidInv
      <3> QED BY <1>0, <1>3, <2>2, <2>3, <3>1 DEF UsageHeard
    <2> QED BY <1>0, <1>3, <2>2, <2>3, <2>4, <2>5 DEF Promise, Faithful
  <1>6. Says(v, e)
    BY <1>3, <1>4, <1>5 DEF Says
  <1> QED BY <1>6

\* The usage.
LEMMA CloseSays ==
    ASSUME NEW v, Speaking(v), Close
    PROVE  \E e : Says(v, e)
  <1>0. /\ Known /\ Shape(v, Nat) /\ v.complete = FALSE /\ said.ended = FALSE
        /\ v.text = said.text /\ v.thought = said.thought /\ CallsHeard(v) /\ UsageHeard(v)
        /\ said = [text |-> said.text, thought |-> said.thought, calls |-> said.calls,
                   usage |-> said.usage, ended |-> said.ended]
    BY SpeakingParts, SaidParts DEF Speaking
  <1>2. PICK e : e = [kind |-> "usage", usage |-> said.usage]
    OBVIOUS
  <1>3. /\ Emit(e) /\ stage' = "closing" /\ protocol' = protocol /\ stage = "talking"
        /\ said' = said /\ protocol # "responses"
    BY <1>2 DEF Close, Emit, call
  <1>4. e \in Events /\ Bare(e) = e
    <2>1. said.usage \in Counts
      BY SaidParts DEF Speaking
    <2>2. e \in Plain
      BY <1>2, <2>1 DEF Plain
    <2> QED BY <2>2, PlainSays
  <1>5. ASSUME NEW w, w = Accept(v, Bare(e)) PROVE Promise(w)'
    <2> DEFINE u == said.usage
    <2>1. /\ u.prompt \in Nat /\ u.completion \in Nat /\ u.total = u.prompt + u.completion
          /\ protocol = "anthropic" => v.usage[1] = u.prompt
      <3>1. u \in Counts
        BY SaidParts DEF Speaking
      <3>2. u.total = u.prompt + u.completion
        BY DEF Speaking, SaidInv
      <3>3. protocol = "anthropic" => v.usage[1] = u.prompt
        BY <1>0 DEF UsageHeard
      <3> HIDE DEF u
      <3> QED BY <3>1, <3>2, <3>3, UsageIs
    <2>2. w = [v EXCEPT !.usage = SummedUsage(u)]
      <3>1. e.kind = "usage" /\ e.usage = u
        BY <1>2
      <3> HIDE DEF u
      <3>2. CASE protocol = "chat"
        <4>1. w = [v EXCEPT !.usage = ChatUsage(u)]
          BY <1>4, <1>5, <3>1, <3>2 DEF Accept, ChatEvent
        <4>2. ChatUsage(u) = SummedUsage(u)
          BY <2>1 DEF ChatUsage, SummedUsage
        <4> QED BY <4>1, <4>2
      <3>3. CASE protocol = "anthropic"
        <4>1. w = [v EXCEPT !.usage = <<@[1], u.completion, @[1] + u.completion>>]
          BY <1>4, <1>5, <3>1, <3>3 DEF Accept, AnthropicEvent
        <4>2. <<v.usage[1], u.completion, v.usage[1] + u.completion>> = SummedUsage(u)
          BY <2>1, <3>3 DEF SummedUsage
        <4> QED BY <4>1, <4>2
      <3> QED BY <1>0, <1>3, <3>2, <3>3 DEF Known
    <2>3. /\ w.text = said.text /\ w.thought = said.thought /\ w.calls = v.calls
          /\ w.callOf = v.callOf /\ w.complete = FALSE /\ w.usage = SummedUsage(u)
      BY <1>0, <2>2, Edited
    <2>4. CallsHeard(w)'
      BY <1>0, <1>3, <2>3, SameCalls
    <2>5. UsageHeard(w)'
      <3>1. SummedUsage(u)[1] = u.prompt
        BY DEF SummedUsage
      <3> QED BY <1>3, <2>3, <3>1 DEF UsageHeard
    <2> QED BY <1>0, <1>3, <2>3, <2>4, <2>5 DEF Promise, Faithful
  <1>6. Says(v, e)
    BY <1>3, <1>4, <1>5 DEF Says
  <1> QED BY <1>6

\* An error ends the stream and is no marker.
LEMMA ReportErrorSays ==
    ASSUME NEW v, Speaking(v), ReportError
    PROVE  \E e : Says(v, e)
  <1>0. /\ Known /\ Shape(v, Nat) /\ v.complete = FALSE /\ said.ended = FALSE
        /\ v.text = said.text /\ v.thought = said.thought /\ CallsHeard(v) /\ UsageHeard(v)
        /\ said = [text |-> said.text, thought |-> said.thought, calls |-> said.calls,
                   usage |-> said.usage, ended |-> said.ended]
    BY SpeakingParts, SaidParts DEF Speaking
  <1>2. PICK e : e = [kind |-> "error"]
    OBVIOUS
  <1>3. /\ Emit(e) /\ stage' = "over" /\ protocol' = protocol /\ said' = said
    BY <1>2 DEF ReportError, Emit, call
  <1>4. e \in Events /\ Bare(e) = e
    <2>1. e \in Plain
      BY <1>2 DEF Plain
    <2> QED BY <2>1, PlainSays
  <1>5. ASSUME NEW w, w = Accept(v, Bare(e)) PROVE Promise(w)'
    <2>1. w = [v EXCEPT !.failed = TRUE]
      BY <1>2, <1>4, <1>5 DEF Accept
    <2>3. /\ w.text = said.text /\ w.thought = said.thought /\ w.calls = v.calls
          /\ w.callOf = v.callOf /\ w.complete = FALSE /\ w.usage = v.usage
      BY <1>0, <2>1, Edited
    <2>4. CallsHeard(w)'
      BY <1>0, <1>3, <2>3, SameCalls
    <2>5. UsageHeard(w)'
      BY <1>0, <1>3, <2>3 DEF UsageHeard
    <2> QED BY <1>0, <1>3, <2>3, <2>4, <2>5 DEF Promise, Faithful
  <1>6. Says(v, e)
    BY <1>3, <1>4, <1>5 DEF Says
  <1> QED BY <1>6

\* Calls go by their places, or by their identities.
Indexed(f, c) ==
    /\ DOMAIN f = 1..Len(c)
    /\ \A i \in 1..Len(c) : f[i] = Item(<<c[i].id>>, c[i].args)
\* Responses: calls under their identities, found by the name of the item.
Named(f, names, c) ==
    /\ DOMAIN names = 1..Len(c)
    /\ DOMAIN f = {c[i].id : i \in 1..Len(c)}
    /\ \A i \in 1..Len(c) : names[i] = c[i].id /\ f[c[i].id] = Item(<<c[i].id>>, c[i].args)
\* The calls that were heard, for either way to keep them.
LEMMA CallsHeardIs ==
    ASSUME NEW w
    PROVE  /\ CallsHeard(w) <=> IF protocol = "responses" THEN Named(w.calls, w.callOf, said.calls)
                                ELSE Indexed(w.calls, said.calls)
           /\ CallsHeard(w)' <=> IF protocol' = "responses" THEN Named(w.calls, w.callOf, said'.calls)
                                 ELSE Indexed(w.calls, said'.calls)
  <1>1. CallsHeard(w) <=> IF protocol = "responses" THEN Named(w.calls, w.callOf, said.calls)
                          ELSE Indexed(w.calls, said.calls)
    BY DEF CallsHeard, Named, Indexed
  <1>2. CallsHeard(w)' <=> IF protocol' = "responses" THEN Named(w.calls, w.callOf, said'.calls)
                           ELSE Indexed(w.calls, said'.calls)
    BY DEF CallsHeard, Named, Indexed
  <1> QED BY <1>1, <1>2

\* A new call, and a changed one.
LEMMA IndexedNew ==
    ASSUME NEW c \in Seq(Records), NEW f, Indexed(f, c), NEW x \in Records
    PROVE  /\ Len(c) + 1 \notin DOMAIN f
           /\ Indexed(Put(f, Len(c) + 1, Item(<<x.id>>, x.args)), Append(c, x))
  <1> DEFINE n == Len(c) + 1  y == Item(<<x.id>>, x.args)  h == Put(f, n, y)  d == Append(c, x)
  <1>1. Len(c) \in Nat /\ n = Len(c) + 1
    OBVIOUS
  <1>2. Len(d) = n /\ d[n] = x /\ \A i \in 1..Len(c) : d[i] = c[i]
    BY AppendProperties
  <1> HIDE DEF n, y, d
  <1>3. DOMAIN h = DOMAIN f \cup {n} /\ h[n] = y /\ \A j \in DOMAIN f : j # n => h[j] = f[j]
    BY DEF Put
  <1> HIDE DEF h
  <1>4. DOMAIN f = 1..Len(c) /\ n \notin DOMAIN f
    BY <1>1 DEF Indexed
  <1>5. DOMAIN h = 1..Len(d)
    BY <1>1, <1>2, <1>3, <1>4
  <1>6. ASSUME NEW i \in 1..Len(d) PROVE h[i] = Item(<<d[i].id>>, d[i].args)
    <2>1. CASE i = n
      BY <1>2, <1>3, <2>1 DEF y
    <2>2. CASE i # n
      <3>1. i \in 1..Len(c)
        BY <1>1, <1>2, <2>2
      <3> QED BY <1>2, <1>3, <1>4, <2>2, <3>1 DEF Indexed
    <2> QED BY <2>1, <2>2
  <1> QED BY <1>4, <1>5, <1>6 DEF Indexed, n, y, h, d

\* A fragment, or the whole item again, is of the call of its index.
LEMMA IndexedChanged ==
    ASSUME NEW c \in Seq(Records), NEW f, Indexed(f, c), NEW i \in 1..Len(c), NEW x \in Records
    PROVE  Indexed(Put(f, i, Item(<<x.id>>, x.args)), [c EXCEPT ![i] = x])
  <1> DEFINE y == Item(<<x.id>>, x.args)  h == Put(f, i, y)  d == [c EXCEPT ![i] = x]
  <1>1. Len(d) = Len(c) /\ \A j \in 1..Len(c) : d[j] = IF j = i THEN x ELSE c[j]
    BY ExceptSeq
  <1> HIDE DEF y, d
  <1>2. DOMAIN h = DOMAIN f \cup {i} /\ h[i] = y /\ \A j \in DOMAIN f : j # i => h[j] = f[j]
    BY DEF Put
  <1> HIDE DEF h
  <1>3. DOMAIN h = 1..Len(d)
    BY <1>1, <1>2 DEF Indexed
  <1>4. ASSUME NEW j \in 1..Len(d) PROVE h[j] = Item(<<d[j].id>>, d[j].args)
    <2>1. CASE j = i
      BY <1>1, <1>2, <2>1 DEF y
    <2>2. CASE j # i
      BY <1>1, <1>2, <2>2 DEF Indexed
    <2> QED BY <2>1, <2>2
  <1> QED BY <1>3, <1>4 DEF Indexed, y, h, d

\* A new call gets a key of its own.
LEMMA NamedNew ==
    ASSUME NEW c \in Seq(Records), NEW f, NEW names, Named(f, names, c), NEW x \in Records,
           \A i \in 1..Len(c) : c[i].id # x.id
    PROVE  Named(Put(f, x.id, Item(<<x.id>>, x.args)), Put(names, Len(c) + 1, x.id), Append(c, x))
  <1> DEFINE n == Len(c) + 1  y == Item(<<x.id>>, x.args)  h == Put(f, x.id, y)
             m == Put(names, n, x.id)  d == Append(c, x)
  <1>1. Len(c) \in Nat /\ n = Len(c) + 1
    OBVIOUS
  <1>2. Len(d) = n /\ d[n] = x /\ \A i \in 1..Len(c) : d[i] = c[i]
    BY AppendProperties
  <1> HIDE DEF n, y, d
  <1>3. DOMAIN h = DOMAIN f \cup {x.id} /\ h[x.id] = y /\ \A j \in DOMAIN f : j # x.id => h[j] = f[j]
    BY DEF Put
  <1>4. DOMAIN m = DOMAIN names \cup {n} /\ m[n] = x.id /\ \A j \in DOMAIN names : j # n => m[j] = names[j]
    BY DEF Put
  <1> HIDE DEF h, m
  <1>5. DOMAIN m = 1..Len(d)
    BY <1>1, <1>2, <1>4 DEF Named
  <1>6. DOMAIN h = {d[i].id : i \in 1..Len(d)}
    <2>1. \A i \in 1..Len(d) : i = n \/ i \in 1..Len(c)
      BY <1>1, <1>2
    <2>2. n \in 1..Len(d) /\ \A i \in 1..Len(c) : i \in 1..Len(d)
      BY <1>1, <1>2
    <2> QED BY <1>2, <1>3, <2>1, <2>2 DEF Named
  <1>7. ASSUME NEW i \in 1..Len(d) PROVE m[i] = d[i].id /\ h[d[i].id] = Item(<<d[i].id>>, d[i].args)
    <2>1. CASE i = n
      BY <1>2, <1>3, <1>4, <2>1 DEF y
    <2>2. CASE i # n
      <3>1. i \in 1..Len(c)
        BY <1>1, <1>2, <2>2
      <3>2. d[i] = c[i] /\ c[i].id # x.id /\ c[i].id \in DOMAIN f /\ i \in DOMAIN names
        BY <1>2, <3>1 DEF Named
      <3>3. m[i] = names[i] /\ h[c[i].id] = f[c[i].id]
        BY <1>3, <1>4, <2>2, <3>2
      <3> QED BY <3>1, <3>2, <3>3 DEF Named
    <2> QED BY <2>1, <2>2
  <1> QED BY <1>5, <1>6, <1>7 DEF Named, n, h, m, d, y

\* A fragment goes to the call whose item it names.
LEMMA NamedChanged ==
    ASSUME NEW c \in Seq(Records), NEW f, NEW names, Named(f, names, c), NEW i \in 1..Len(c),
           NEW x \in Records, x.id = c[i].id, \A j, k \in 1..Len(c) : c[j].id = c[k].id => j = k
    PROVE  /\ Named(Put(f, x.id, Item(<<x.id>>, x.args)), names, [c EXCEPT ![i] = x])
           /\ Named(Put(f, x.id, Item(<<x.id>>, x.args)), Put(names, i, x.id), [c EXCEPT ![i] = x])
  <1> DEFINE y == Item(<<x.id>>, x.args)  h == Put(f, x.id, y)
             m == Put(names, i, x.id)  d == [c EXCEPT ![i] = x]
  <1>1. Len(d) = Len(c) /\ \A j \in 1..Len(c) : d[j] = IF j = i THEN x ELSE c[j]
    BY ExceptSeq
  <1> HIDE DEF y, d
  <1>2. DOMAIN h = DOMAIN f \cup {x.id} /\ h[x.id] = y /\ \A j \in DOMAIN f : j # x.id => h[j] = f[j]
    BY DEF Put
  <1>3. DOMAIN m = DOMAIN names \cup {i} /\ m[i] = x.id /\ \A j \in DOMAIN names : j # i => m[j] = names[j]
    BY DEF Put
  <1> HIDE DEF h, m
  <1>4. \A j \in 1..Len(c) : d[j].id = c[j].id
    BY <1>1
  <1>5. DOMAIN h = {d[j].id : j \in 1..Len(d)}
    BY <1>1, <1>2, <1>4 DEF Named
  <1>6. ASSUME NEW j \in 1..Len(d)
        PROVE  m[j] = d[j].id /\ names[j] = d[j].id /\ h[d[j].id] = Item(<<d[j].id>>, d[j].args)
    <2>1. CASE j = i
      BY <1>1, <1>2, <1>3, <2>1 DEF Named, y
    <2>2. CASE j # i
      <3>1. d[j] = c[j] /\ c[j].id # x.id /\ c[j].id \in DOMAIN f /\ j \in DOMAIN names
        BY <1>1, <2>2 DEF Named
      <3>2. m[j] = names[j] /\ h[c[j].id] = f[c[j].id]
        BY <1>2, <1>3, <2>2, <3>1
      <3> QED BY <1>1, <3>1, <3>2 DEF Named
    <2> QED BY <2>1, <2>2
  <1>7. DOMAIN m = 1..Len(d) /\ DOMAIN names = 1..Len(d)
    BY <1>1, <1>3 DEF Named
  <1> QED BY <1>5, <1>6, <1>7 DEF Named, h, d, m, y

\* Fragments are appended to the arguments of a call.
LEMMA ItemEdited ==
    ASSUME NEW p, NEW q, NEW a
    PROVE  [Item(p, q) EXCEPT !.args = a] = Item(p, a) /\ Item(p, q).args = q
  <1>1. ASSUME NEW t
        PROVE  [[id |-> p, args |-> q, named |-> t] EXCEPT !.args = a] = [id |-> p, args |-> a, named |-> t]
    OBVIOUS
  <1>2. Item(p, q) = [id |-> p, args |-> q, named |-> TRUE] /\ Item(p, a) = [id |-> p, args |-> a, named |-> TRUE]
    BY DEF Item
  <1>3. [Item(p, q) EXCEPT !.args = a] = Item(p, a)
    BY <1>1, <1>2
  <1> QED BY <1>2, <1>3

\* An event that changes the calls and nothing else.
LEMMA CallsSay ==
    ASSUME NEW v, Speaking(v), NEW e \in Plain, Emit(e), stage' = "talking", stage = "talking",
           NEW c, said' = [said EXCEPT !.calls = c],
           \A w : w = Accept(v, e) =>
                /\ w.text = v.text /\ w.thought = v.thought /\ w.usage = v.usage /\ w.complete = v.complete
                /\ IF protocol = "responses" THEN Named(w.calls, w.callOf, c) ELSE Indexed(w.calls, c)
    PROVE  \E d : Says(v, d)
  <1>0. /\ Known /\ Shape(v, Nat) /\ v.complete = FALSE /\ said.ended = FALSE
        /\ v.text = said.text /\ v.thought = said.thought /\ CallsHeard(v) /\ UsageHeard(v)
        /\ said = [text |-> said.text, thought |-> said.thought, calls |-> said.calls,
                   usage |-> said.usage, ended |-> said.ended]
        /\ said.calls \in Seq(Records)
    BY SpeakingParts, SaidParts DEF Speaking
  <1>1. e \in Events /\ Bare(e) = e
    BY PlainSays
  <1>2. /\ said'.text = said.text /\ said'.thought = said.thought /\ said'.calls = c
        /\ said'.ended = FALSE /\ said'.usage = said.usage
    BY <1>0
  <1>3. protocol' = protocol
    BY DEF Emit, call
  <1>4. ASSUME NEW w, w = Accept(v, Bare(e)) PROVE Promise(w)'
    <2>1. /\ w.text = said.text /\ w.thought = said.thought /\ w.usage = v.usage /\ w.complete = FALSE
          /\ IF protocol = "responses" THEN Named(w.calls, w.callOf, c) ELSE Indexed(w.calls, c)
      BY <1>0, <1>1, <1>4
    <2>2. CallsHeard(w)'
      BY <1>2, <1>3, <2>1, CallsHeardIs
    <2>3. UsageHeard(w)'
      BY <1>0, <1>2, <1>3, <2>1 DEF UsageHeard
    <2> QED BY <1>2, <2>1, <2>2, <2>3 DEF Promise, Faithful
  <1>5. Says(v, e)
    BY <1>1, <1>4 DEF Says
  <1> QED BY <1>5

\* A call is opened.
LEMMA OpenCallSays ==
    ASSUME NEW v, Speaking(v), NEW id \in Ids, OpenCall(id)
    PROVE  \E e : Says(v, e)
  <1>0. /\ Known /\ Shape(v, Nat) /\ v.complete = FALSE /\ said.ended = FALSE
        /\ v.text = said.text /\ v.thought = said.thought /\ CallsHeard(v) /\ UsageHeard(v)
        /\ said = [text |-> said.text, thought |-> said.thought, calls |-> said.calls,
                   usage |-> said.usage, ended |-> said.ended]
        /\ said.calls \in Seq(Records)
    BY SpeakingParts, SaidParts DEF Speaking
  <1>1. PICK n, x, e : /\ n = Len(said.calls) + 1 /\ x = [id |-> id, args |-> <<>>, open |-> TRUE]
                       /\ e = [kind |-> "call", index |-> n, id |-> <<id>>, args |-> <<>>]
    OBVIOUS
  <1>2. /\ Emit(e) /\ stage' = "talking" /\ stage = "talking"
        /\ said' = [said EXCEPT !.calls = Append(said.calls, x)]
        /\ \A i \in 1..Len(said.calls) : said.calls[i].id # id
    BY <1>0, <1>1 DEF OpenCall, Talking
  <1>3. e \in Plain
    <2>1. n \in Nat /\ <<id>> \in Seq(Ids) /\ <<>> \in Seq(Nat)
      BY <1>0, <1>1
    <2> QED BY <1>1, <2>1 DEF Plain
  <1>4. x \in Records /\ x.id = id /\ x.args = <<>>
    BY <1>1 DEF Records
  <1>5. ASSUME NEW w, w = Accept(v, e)
        PROVE  /\ w.text = v.text /\ w.thought = v.thought /\ w.usage = v.usage /\ w.complete = v.complete
               /\ IF protocol = "responses" THEN Named(w.calls, w.callOf, Append(said.calls, x))
                  ELSE Indexed(w.calls, Append(said.calls, x))
    <2> DEFINE y == Item(<<x.id>>, x.args)
    <2>1. y = Item(<<id>>, <<>>) /\ y = [id |-> <<id>>, args |-> <<>>, named |-> TRUE]
      BY <1>4 DEF Item
    <2>2. /\ e.kind = "call" /\ e.index = n /\ e.id = <<id>> /\ e.args = <<>> /\ e.id[1] = id
      BY <1>1
    <2> HIDE DEF y
    <2>3. CASE protocol = "responses"
      <3>1. w = [v EXCEPT !.callOf = Put(@, n, id), !.calls = Put(@, id, y)]
        BY <1>5, <2>1, <2>2, <2>3 DEF Accept, ResponsesEvent, WithItem
      <3> DEFINE a == Put(v.callOf, n, id)  b == Put(v.calls, id, y)
      <3>2. w = [v EXCEPT !.callOf = a, !.calls = b]
        BY <3>1
      <3>3. Named(v.calls, v.callOf, said.calls)
        BY <1>0, <2>3, CallsHeardIs
      <3>4. Named(b, a, Append(said.calls, x))
        BY <1>0, <1>1, <1>2, <1>4, <3>3, NamedNew DEF y
      <3> HIDE DEF a, b
      <3>5. /\ w.text = v.text /\ w.thought = v.thought /\ w.calls = b /\ w.callOf = a
            /\ w.usage = v.usage /\ w.complete = v.complete
        <4>1. Shape(v, Nat)
          BY <1>0
        <4> QED BY <3>2, <4>1 DEF Shape
      <3> QED BY <2>3, <3>4, <3>5
    <2>4. CASE protocol # "responses"
      <3>1. Indexed(v.calls, said.calls)
        BY <1>0, <2>4, CallsHeardIs
      <3>2. n \notin DOMAIN v.calls /\ Indexed(Put(v.calls, n, y), Append(said.calls, x))
        BY <1>0, <1>1, <1>4, <3>1, IndexedNew DEF y
      <3>3. w = [v EXCEPT !.calls = Put(@, n, y)]
        <4>1. CASE protocol = "chat"
          <5>1. At(v.calls, n, NewCall) = NewCall
            BY <3>2 DEF At
          <5>2. w = [v EXCEPT !.calls = Put(@, n, [id |-> NewCall.id \o <<id>>, args |-> NewCall.args \o <<>>,
                                                 named |-> NewCall.named \/ <<id>> # <<>>])]
            BY <1>5, <2>2, <4>1, <5>1 DEF Accept, ChatEvent
          <5>3. [id |-> NewCall.id \o <<id>>, args |-> NewCall.args \o <<>>,
                 named |-> NewCall.named \/ <<id>> # <<>>] = y
            <6>1. NewCall.id = <<>> /\ NewCall.args = <<>> /\ NewCall.named = FALSE
              BY DEF NewCall
            <6>2. <<>> \o <<id>> = <<id>> /\ <<>> \o <<>> = <<>> /\ <<id>> # <<>>
              OBVIOUS
            <6>3. (NewCall.named \/ <<id>> # <<>>) = TRUE
              BY <6>1, <6>2
            <6> QED BY <2>1, <6>1, <6>2, <6>3
          <5> QED BY <5>2, <5>3
        <4>2. CASE protocol = "anthropic"
          BY <1>5, <2>1, <2>2, <4>2 DEF Accept, AnthropicEvent
        <4> QED BY <1>0, <2>4, <4>1, <4>2 DEF Known
      <3> DEFINE b == Put(v.calls, n, y)
      <3>4. w = [v EXCEPT !.calls = b] /\ Indexed(b, Append(said.calls, x))
        BY <3>2, <3>3
      <3> HIDE DEF b
      <3> QED BY <1>0, <2>4, <3>4, Edited
    <2> QED BY <2>3, <2>4
  <1> QED BY <1>2, <1>3, <1>5, CallsSay

\* A fragment of arguments, of any open call.
LEMMA SayArgsSays ==
    ASSUME NEW v, Speaking(v), NEW i \in DOMAIN said.calls, SayArgs(i)
    PROVE  \E e : Says(v, e)
  <1>0. /\ Known /\ Shape(v, Nat) /\ v.complete = FALSE /\ said.ended = FALSE
        /\ v.text = said.text /\ v.thought = said.thought /\ CallsHeard(v) /\ UsageHeard(v)
        /\ said = [text |-> said.text, thought |-> said.thought, calls |-> said.calls,
                   usage |-> said.usage, ended |-> said.ended]
        /\ said.calls \in Seq(Records)
    BY SpeakingParts, SaidParts DEF Speaking
  <1>1. PICK id, args, m : id = said.calls[i].id /\ args = said.calls[i].args /\ m = Len(said.calls[i].args) + 1
    OBVIOUS
  <1>2. PICK x, e : /\ x = [said.calls[i] EXCEPT !.args = Append(@, Len(@) + 1)]
                    /\ e = [kind |-> "args", index |-> i, args |-> <<m>>]
    OBVIOUS
  <1>3. i \in 1..Len(said.calls) /\ said.calls[i] \in Records /\ args \in Seq(Nat) /\ id \in Ids /\ m \in Nat
    <2>1. i \in 1..Len(said.calls) /\ said.calls[i] \in Records /\ args \in Seq(Nat) /\ id \in Ids
      BY <1>1, SaidParts DEF Speaking
    <2> QED BY <1>1, <2>1
  <1>4. /\ Emit(e) /\ stage' = "talking" /\ stage = "talking"
        /\ said' = [said EXCEPT !.calls = [said.calls EXCEPT ![i] = x]]
    BY <1>0, <1>1, <1>2 DEF SayArgs, Talking
  <1>5. e \in Plain
    <2>1. i \in Nat /\ <<m>> \in Seq(Nat)
      BY <1>3
    <2> QED BY <1>2, <2>1 DEF Plain
  <1>6. x \in Records /\ x.id = id /\ x.args = Append(args, m)
    <2> DEFINE o == said.calls[i]
    <2>1. o \in Records /\ o.id = id /\ o.args = args /\ x = [o EXCEPT !.args = Append(args, m)]
      BY <1>1, <1>2, <1>3
    <2>2. Append(args, m) \in Seq(Nat)
      BY <1>3
    <2> HIDE DEF o
    <2> QED BY <2>1, <2>2 DEF Records
  <1>7. args \o <<m>> = Append(args, m)
    BY <1>3, AppendIsConcat
  <1>8. ASSUME NEW w, w = Accept(v, e)
        PROVE  /\ w.text = v.text /\ w.thought = v.thought /\ w.usage = v.usage /\ w.complete = v.complete
               /\ IF protocol = "responses" THEN Named(w.calls, w.callOf, [said.calls EXCEPT ![i] = x])
                  ELSE Indexed(w.calls, [said.calls EXCEPT ![i] = x])
    <2> DEFINE y == Item(<<x.id>>, x.args)
    <2>1. [Item(<<id>>, args) EXCEPT !.args = @ \o <<m>>] = y
      <3>1. PICK a : a = args \o <<m>> /\ a = x.args
        BY <1>6, <1>7
      <3>2. [Item(<<id>>, args) EXCEPT !.args = a] = Item(<<id>>, a)
        BY ItemEdited
      <3>3. Item(<<id>>, args).args = args
        BY ItemEdited
      <3> QED BY <1>6, <3>1, <3>2, <3>3
    <2>2. e.kind = "args" /\ e.index = i /\ e.args = <<m>>
      BY <1>2
    <2> HIDE DEF y
    <2>3. CASE protocol = "responses"
      <3>1. Named(v.calls, v.callOf, said.calls)
        BY <1>0, <2>3, CallsHeardIs
      <3>2. At(v.callOf, i, 0) = id /\ At(v.calls, id, NewCall) = Item(<<id>>, args)
        BY <1>1, <1>3, <3>1 DEF Named, At
      <3>3. w = [v EXCEPT !.calls = Put(@, At(v.callOf, i, 0),
                    [At(v.calls, At(v.callOf, i, 0), NewCall) EXCEPT !.args = @ \o <<m>>])]
        BY <1>8, <2>2, <2>3 DEF Accept, ResponsesEvent
      <3> DEFINE b == Put(v.calls, id, y)
      <3>4. w = [v EXCEPT !.calls = b]
        BY <2>1, <3>2, <3>3
      <3>5. \A j, k \in 1..Len(said.calls) : said.calls[j].id = said.calls[k].id => j = k
        BY DEF Speaking, SaidInv
      <3>6. Named(b, v.callOf, [said.calls EXCEPT ![i] = x])
        BY <1>0, <1>1, <1>3, <1>6, <3>1, <3>5, NamedChanged DEF y
      <3> HIDE DEF b
      <3>7. w.calls = b /\ w.callOf = v.callOf
        BY <1>0, <3>4, Edited
      <3> QED BY <1>0, <2>3, <3>4, <3>6, <3>7, Edited
    <2>4. CASE protocol # "responses"
      <3>1. Indexed(v.calls, said.calls)
        BY <1>0, <2>4, CallsHeardIs
      <3>2. At(v.calls, i, NewCall) = Item(<<id>>, args)
        BY <1>1, <1>3, <3>1 DEF Indexed, At
      <3>3. w = [v EXCEPT !.calls = Put(@, i, [At(v.calls, i, NewCall) EXCEPT !.args = @ \o <<m>>])]
        <4>1. CASE protocol = "chat"
          BY <1>8, <2>2, <4>1 DEF Accept, ChatEvent
        <4>2. CASE protocol = "anthropic"
          BY <1>8, <2>2, <4>2 DEF Accept, AnthropicEvent
        <4> QED BY <1>0, <2>4, <4>1, <4>2 DEF Known
      <3> DEFINE b == Put(v.calls, i, y)
      <3>4. w = [v EXCEPT !.calls = b]
        BY <2>1, <3>2, <3>3
      <3>5. Indexed(b, [said.calls EXCEPT ![i] = x])
        BY <1>0, <1>3, <1>6, <3>1, IndexedChanged DEF y
      <3> HIDE DEF b
      <3> QED BY <1>0, <2>4, <3>4, <3>5, Edited
    <2> QED BY <2>3, <2>4
  <1> QED BY <1>4, <1>5, <1>8, CallsSay

\* An item is repeated as a whole.
LEMMA CloseCallSays ==
    ASSUME NEW v, Speaking(v), NEW i \in DOMAIN said.calls, CloseCall(i)
    PROVE  \E e : Says(v, e)
  <1>0. /\ Known /\ Shape(v, Nat) /\ v.complete = FALSE /\ said.ended = FALSE
        /\ v.text = said.text /\ v.thought = said.thought /\ CallsHeard(v) /\ UsageHeard(v)
        /\ said = [text |-> said.text, thought |-> said.thought, calls |-> said.calls,
                   usage |-> said.usage, ended |-> said.ended]
        /\ said.calls \in Seq(Records)
    BY SpeakingParts, SaidParts DEF Speaking
  <1>1. PICK id, args : id = said.calls[i].id /\ args = said.calls[i].args
    OBVIOUS
  <1>2. PICK x, e : /\ x = [said.calls[i] EXCEPT !.open = FALSE]
                    /\ e = [kind |-> "call", index |-> i, id |-> <<id>>, args |-> args]
    OBVIOUS
  <1>3. i \in 1..Len(said.calls) /\ said.calls[i] \in Records /\ args \in Seq(Nat) /\ id \in Ids
    BY <1>1, SaidParts DEF Speaking
  <1>4. /\ Emit(e) /\ stage' = "talking" /\ stage = "talking" /\ protocol = "responses"
        /\ said' = [said EXCEPT !.calls = [said.calls EXCEPT ![i] = x]]
    BY <1>0, <1>1, <1>2 DEF CloseCall, Talking
  <1>5. e \in Plain
    <2>1. i \in Nat /\ <<id>> \in Seq(Ids)
      BY <1>3
    <2> QED BY <1>2, <1>3, <2>1 DEF Plain
  <1>6. x \in Records /\ x.id = id /\ x.args = args
    <2> DEFINE o == said.calls[i]
    <2>1. o \in Records /\ o.id = id /\ o.args = args /\ x = [o EXCEPT !.open = FALSE]
      BY <1>1, <1>2, <1>3
    <2> HIDE DEF o
    <2> QED BY <2>1 DEF Records
  <1>8. ASSUME NEW w, w = Accept(v, e)
        PROVE  /\ w.text = v.text /\ w.thought = v.thought /\ w.usage = v.usage /\ w.complete = v.complete
               /\ Named(w.calls, w.callOf, [said.calls EXCEPT ![i] = x])
    <2> DEFINE y == Item(<<x.id>>, x.args)
    <2>1. y = Item(<<id>>, args)
      BY <1>6
    <2>2. e.kind = "call" /\ e.index = i /\ e.args = args /\ e.id = <<id>> /\ e.id[1] = id
      BY <1>2
    <2> HIDE DEF y
    <2>3. w = [v EXCEPT !.callOf = Put(@, i, id), !.calls = Put(@, id, y)]
      BY <1>4, <1>8, <2>1, <2>2 DEF Accept, ResponsesEvent, WithItem
    <2> DEFINE a == Put(v.callOf, i, id)  b == Put(v.calls, id, y)
    <2>4. w = [v EXCEPT !.callOf = a, !.calls = b]
      BY <2>3
    <2>5. Named(v.calls, v.callOf, said.calls)
      BY <1>0, <1>4, CallsHeardIs
    <2>6. \A j, k \in 1..Len(said.calls) : said.calls[j].id = said.calls[k].id => j = k
      BY DEF Speaking, SaidInv
    <2>7. Named(b, a, [said.calls EXCEPT ![i] = x])
      BY <1>0, <1>1, <1>3, <1>6, <2>5, <2>6, NamedChanged DEF y
    <2> HIDE DEF a, b
    <2>8. /\ w.text = v.text /\ w.thought = v.thought /\ w.calls = b /\ w.callOf = a
          /\ w.usage = v.usage /\ w.complete = v.complete
      <3>1. Shape(v, Nat)
        BY <1>0
      <3> QED BY <2>4, <3>1 DEF Shape
    <2> QED BY <2>7, <2>8
  <1> QED BY <1>4, <1>5, <1>8, CallsSay

\* The completion repeats what was heard.
LEMMA PutAllIs ==
    ASSUME NEW c \in Seq(Records), NEW f, NEW names, Named(f, names, c),
           \A j, k \in 1..Len(c) : c[j].id = c[k].id => j = k
    PROVE  Named(PutAll(f, c), names, c)
  <1> DEFINE places(id) == {i \in DOMAIN c : c[i].id = id}
             h == PutAll(f, c)
  <1>1. DOMAIN c = 1..Len(c) /\ Len(c) \in Nat
    OBVIOUS
  <1>2. DOMAIN f = {c[i].id : i \in 1..Len(c)}
    BY DEF Named
  <1>3. h = [id \in DOMAIN f |-> IF places(id) = {} THEN f[id] ELSE Item(<<id>>, c[Max(places(id))].args)]
    BY <1>1, <1>2 DEF PutAll
  <1>4. ASSUME NEW i \in 1..Len(c) PROVE h[c[i].id] = Item(<<c[i].id>>, c[i].args)
    <2>1. places(c[i].id) = {i}
      BY <1>1
    <2>2. Max({i}) = i
      BY DEF Max
    <2> HIDE DEF h, places
    <2> QED BY <1>2, <1>3, <2>1, <2>2
  <1>5. DOMAIN h = {c[i].id : i \in 1..Len(c)}
    <2> HIDE DEF h, places
    <2> QED BY <1>2, <1>3
  <1> HIDE DEF h
  <1>6. DOMAIN names = 1..Len(c) /\ \A i \in 1..Len(c) : names[i] = c[i].id
    BY DEF Named
  <1>7. Named(h, names, c)
    BY <1>4, <1>5, <1>6 DEF Named
  <1> QED BY <1>7 DEF h

\* The marker comes with all that was said.
LEMMA FinishSays ==
    ASSUME NEW v, Speaking(v), Finish
    PROVE  \E e : Says(v, e)
  <1>0. /\ Known /\ Shape(v, Nat) /\ v.complete = FALSE /\ said.ended = FALSE
        /\ v.text = said.text /\ v.thought = said.thought /\ CallsHeard(v) /\ UsageHeard(v)
        /\ said = [text |-> said.text, thought |-> said.thought, calls |-> said.calls,
                   usage |-> said.usage, ended |-> said.ended]
        /\ said.calls \in Seq(Records)
    BY SpeakingParts, SaidParts DEF Speaking
  <1>1. PICK e : e = [kind |-> "done", usage |-> said.usage, output |-> said.calls]
    OBVIOUS
  <1>2. /\ Emit(e) /\ stage' = "over" /\ protocol' = protocol /\ (protocol # "responses" => stage = "closing")
        /\ said' = [said EXCEPT !.ended = TRUE]
    BY <1>1 DEF Finish, Emit, call
  <1>3. e \in Events /\ Bare(e) = e
    <2>1. said.usage \in Counts
      BY SaidParts DEF Speaking
    <2>2. e \in Plain
      BY <1>0, <1>1, <2>1 DEF Plain
    <2> QED BY <2>2, PlainSays
  <1>4. /\ said'.text = said.text /\ said'.thought = said.thought /\ said'.calls = said.calls
        /\ said'.ended = TRUE /\ said'.usage = said.usage
    BY <1>0, <1>2
  <1>5. e.kind = "done" /\ e.usage = said.usage /\ e.output = said.calls
    BY <1>1
  <1>6. ASSUME NEW w, w = Accept(v, Bare(e)) PROVE Promise(w)'
    <2>1. PICK u : u = SummedUsage(said.usage)
      OBVIOUS
    <2>2. /\ w.text = said.text /\ w.thought = said.thought /\ w.complete = TRUE /\ w.usage = u
          /\ CallsHeard(w)'
      <3>1. CASE protocol = "responses"
        <4> DEFINE c == PutAll(v.calls, said.calls)
        <4>1. w = [v EXCEPT !.complete = TRUE, !.usage = u, !.calls = c]
          BY <1>3, <1>5, <1>6, <2>1, <3>1 DEF Accept, ResponsesEvent
        <4>2. Named(v.calls, v.callOf, said.calls)
          BY <1>0, <3>1, CallsHeardIs
        <4>3. \A j, k \in 1..Len(said.calls) : said.calls[j].id = said.calls[k].id => j = k
          BY DEF Speaking, SaidInv
        <4>4. Named(c, v.callOf, said.calls)
          BY <1>0, <4>2, <4>3, PutAllIs
        <4> HIDE DEF c
        <4>5. Shape(v, Nat)
          BY <1>0
        <4>6. /\ w.text = v.text /\ w.thought = v.thought /\ w.complete = TRUE /\ w.usage = u
              /\ w.calls = c /\ w.callOf = v.callOf
          BY <4>1, <4>5 DEF Shape
        <4>7. CallsHeard(w)'
          BY <1>2, <1>4, <3>1, <4>4, <4>6, CallsHeardIs
        <4> QED BY <1>0, <4>6, <4>7
      <3>2. CASE protocol # "responses"
        <4>1. w = [v EXCEPT !.complete = TRUE]
          <5>1. CASE protocol = "chat"
            BY <1>3, <1>5, <1>6, <5>1 DEF Accept, ChatEvent
          <5>2. CASE protocol = "anthropic"
            BY <1>3, <1>5, <1>6, <5>2 DEF Accept, AnthropicEvent
          <5> QED BY <1>0, <3>2, <5>1, <5>2 DEF Known
        <4>2. /\ w.text = v.text /\ w.thought = v.thought /\ w.complete = TRUE /\ w.usage = v.usage
              /\ w.calls = v.calls /\ w.callOf = v.callOf
          BY <1>0, <4>1, Edited
        <4>3. CallsHeard(w)'
          BY <1>0, <1>2, <1>4, <4>2, SameCalls
        <4>4. v.usage = u
          BY <1>0, <1>2, <2>1, <3>2 DEF UsageHeard
        <4> QED BY <1>0, <4>2, <4>3, <4>4
      <3> QED BY <3>1, <3>2
    <2>3. UsageHeard(w)'
      <3>1. u[1] = said.usage.prompt
        BY <2>1 DEF SummedUsage
      <3> QED BY <1>2, <1>4, <2>1, <2>2, <3>1 DEF UsageHeard
    <2> QED BY <1>2, <1>4, <2>2, <2>3 DEF Promise, Faithful
  <1>7. Says(v, e)
    BY <1>2, <1>3, <1>6 DEF Says
  <1> QED BY <1>7

\* The provider says something.
Utter ==
    \/ Open \/ SayText \/ SayThought \/ Close \/ Finish \/ ReportError
    \/ \E id \in Ids : OpenCall(id)
    \/ \E i \in DOMAIN said.calls : SayArgs(i) \/ CloseCall(i)
\* Whatever the provider says, reading it keeps what was promised.
LEMMA UtterSays ==
    ASSUME NEW v, Speaking(v), Utter
    PROVE  \E e : Says(v, e)
  BY OpenSays, SayTextSays, SayThoughtSays, CloseSays, FinishSays, ReportErrorSays, OpenCallSays,
     SayArgsSays, CloseCallSays DEF Utter

-------------------------------------------------------------------------------
(* The promise of the wire *)

\* The text that was gathered is the beginning of the text that was said.
Prefixed(v) == Len(v.text) <= Len(said.text) /\ \A i \in 1..Len(v.text) : v.text[i] = i
\* What the lines on the way make of what was gathered: a marker is the last line, and
\* with it all was said.
Promised(g, L) ==
    /\ \A k \in 0..L : Shape(g[k], Nat) /\ Prefixed(g[k])
    /\ \A k \in 0..(L - 1) : ~g[k].complete
    /\ Promise(g[L])
\* There is such a sequence for the lines on their way.
OnWire ==
    \E g : Gathers(g, View(reader), buffer \o wire) /\ Promised(g, Lines(buffer \o wire))
\* The symbols on the way from the provider to the adapter.
Piped ==
    /\ buffer \in Seq(Symbols) /\ wire \in Seq(Symbols) /\ Len(buffer) <= 2
    /\ Lined(buffer \o wire)
    /\ Shape(reader, Pieces) /\ ~reader.failed
    /\ stage # "cut" => 3 * Lines(buffer \o wire) = Len(buffer \o wire)

\* The adapter is that of the protocol throughout.
LEMMA AcceptStill ==
    ASSUME protocol' = protocol
    PROVE  \A r, e : Accept(r, e)' = Accept(r, e)
  BY DEF Accept, ChatEvent, ResponsesEvent, AnthropicEvent

\* OnWire after a step, from the lines there are then.
LEMMA OnWireNow ==
    ASSUME protocol' = protocol, NEW g, NEW v, NEW s, v = View(reader)', s = (buffer \o wire)',
           Gathers(g, v, s), Promised(g, Lines(s))'
    PROVE  OnWire'
  <1>1. Gathers(g, v, s)'
    BY AcceptStill DEF Gathers
  <1>2. Gathers(g, View(reader), buffer \o wire)'
    BY <1>1 DEF Gathers, View
  <1>3. Promised(g, Lines(buffer \o wire))'
    BY DEF Promised
  <1> QED BY <1>2, <1>3 DEF OnWire, Gathers, Promised

\* A promise stays when nothing is said, and when the connection is cut.
LEMMA PromiseStays ==
    ASSUME protocol' = protocol, said' = said, NEW v, Promise(v),
           stage' = stage \/ stage' = "cut"
    PROVE  Promise(v)'
  <1>1. CASE stage' = stage
    BY <1>1 DEF Promise, Faithful, CallsHeard, UsageHeard
  <1>2. CASE stage' = "cut" /\ stage # "cut"
    <2>1. (v.complete <=> said.ended) /\ Faithful(v)
      BY <1>2 DEF Promise
    <2>2. CallsHeard(v)'
      BY <2>1 DEF Faithful, CallsHeard
    <2>3. said.ended => UsageHeard(v)'
      BY <1>2, <2>1 DEF Faithful, UsageHeard
    <2>4. said.ended => Faithful(v)'
      BY <2>1, <2>2, <2>3 DEF Faithful
    <2> QED BY <1>2, <2>1, <2>4 DEF Promise
  <1> QED BY <1>1, <1>2

\* The wire stays.
LEMMA WireStays ==
    ASSUME Piped, OnWire,
           UNCHANGED <<protocol, said, stage, wire, buffer, reader>>
    PROVE  Piped' /\ OnWire'
  <1>1. PICK g : Gathers(g, View(reader), buffer \o wire) /\ Promised(g, Lines(buffer \o wire))
    BY DEF OnWire
  <1>2. PICK v, s : v = View(reader) /\ s = buffer \o wire
    OBVIOUS
  <1>3. Promised(g, Lines(s))'
    <2> DEFINE L == Lines(s)
    <2>1. Promised(g, L)
      BY <1>1, <1>2
    <2> HIDE DEF L
    <2>2. Promise(g[L])'
      BY <2>1, PromiseStays DEF Promised
    <2>3. Promised(g, L)'
      BY <2>1, <2>2 DEF Promised, Prefixed
    <2> QED BY <2>3 DEF L
  <1>4. v = View(reader)' /\ s = (buffer \o wire)'
    BY <1>2 DEF View
  <1>5. OnWire'
    BY <1>1, <1>2, <1>3, <1>4, OnWireNow
  <1>6. Piped'
    BY DEF Piped
  <1> QED BY <1>5, <1>6

\* The wire is empty at first.
LEMMA WireInit ==
    ASSUME StreamInit
    PROVE  Piped /\ OnWire
  <1>1. wire = <<>> /\ buffer = <<>> /\ reader = Empty /\ stage = "opening"
    BY DEF StreamInit
  <1>2. buffer \o wire = <<>> /\ Len(<<>>) = 0 /\ Lines(<<>>) = 0
    BY <1>1 DEF Lines
  <1>3. Lined(<<>>)
    BY DEF Lined
  <1>4. Shape(Empty, Pieces) /\ Empty.failed = FALSE
    BY DEF Shape, Empty
  <1>5. Piped
    BY <1>1, <1>2, <1>3, <1>4 DEF Piped
  <1> DEFINE v == View(Empty)  g == [i \in {0} |-> v]
  <1>6. v = Empty
    <2>1. Numbers(<<>>) = <<>>
      BY DEF Numbers
    <2> QED BY <2>1 DEF View, Empty
  <1>7. Shape(v, Nat)
    <2>1. Shape(Empty, Nat)
      BY DEF Shape, Empty
    <2> HIDE DEF v
    <2> QED BY <1>6, <2>1
  <1>8. Promise(v)
    <2>1. said.text = <<>> /\ said.thought = <<>> /\ said.calls = <<>> /\ said.usage = Counted(0, 0)
          /\ said.ended = FALSE
      BY DEF StreamInit
    <2>2. /\ v.text = <<>> /\ v.thought = <<>> /\ v.calls = <<>> /\ v.callOf = <<>>
          /\ v.complete = FALSE /\ v.usage = NoUsage
      BY <1>6 DEF Empty
    <2> HIDE DEF v
    <2>3. Named(v.calls, v.callOf, said.calls) /\ Indexed(v.calls, said.calls)
      BY <2>1, <2>2 DEF Named, Indexed
    <2>4. CallsHeard(v)
      BY <2>3, CallsHeardIs
    <2>5. v.usage[1] = 0 /\ said.usage.prompt = 0
      BY <2>1, <2>2 DEF NoUsage, Counted
    <2> QED BY <1>1, <2>1, <2>2, <2>4, <2>5 DEF Promise, Faithful, UsageHeard
  <1>9. Prefixed(v)
    <2>1. v.text = <<>> /\ said.text = <<>>
      BY <1>6 DEF Empty, StreamInit
    <2> QED BY <2>1 DEF Prefixed
  <1>10. Gathers(g, v, <<>>)
    BY <1>2 DEF Gathers
  <1>11. Promised(g, 0)
    <2> HIDE DEF v
    <2>1. g[0] = v /\ \A k \in 0..0 : k = 0
      OBVIOUS
    <2>2. \A k \in 0..(0 - 1) : ~g[k].complete
      OBVIOUS
    <2> HIDE DEF g
    <2> QED BY <1>7, <1>8, <1>9, <2>1, <2>2 DEF Promised
  <1>12. OnWire
    <2> HIDE DEF v, g
    <2>1. Gathers(g, View(reader), buffer \o wire) /\ Promised(g, Lines(buffer \o wire))
      BY <1>1, <1>2, <1>10, <1>11 DEF v
    <2> QED BY <2>1 DEF OnWire
  <1> QED BY <1>5, <1>12

\* What is said is added at the end, and touches neither adapter nor page.
LEMMA SaidGrows ==
    ASSUME SaidInv, Utter
    PROVE  /\ Len(said.text) <= Len(said'.text)
           /\ stage \in {"opening", "talking", "closing"}
           /\ UNCHANGED <<call, status, buffer, reader, page, reply>> /\ Arriving
  <1>1. Len(said.text) \in Nat /\ said.text \in Seq(Nat)
    BY SaidParts
  <1>0. said = [text |-> said.text, thought |-> said.thought, calls |-> said.calls,
               usage |-> said.usage, ended |-> said.ended]
    BY SaidParts
  <1>2. CASE Open \/ SayThought \/ Finish
    <2>1. said'.text = said.text
      <3>1. CASE Open
        BY <1>0, <3>1 DEF Open
      <3>2. CASE SayThought
        BY <1>0, <3>2 DEF SayThought
      <3>3. CASE Finish
        BY <1>0, <3>3 DEF Finish
      <3> QED BY <1>2, <3>1, <3>2, <3>3
    <2>2. /\ stage \in {"opening", "talking", "closing"}
          /\ UNCHANGED <<call, status, buffer, reader, page, reply>> /\ Arriving
      BY <1>2 DEF Open, SayThought, Finish, Emit, Talking
    <2> QED BY <1>1, <2>1, <2>2
  <1>3. CASE Close \/ ReportError
    BY <1>1, <1>3 DEF Close, ReportError, Emit
  <1>4. CASE SayText
    <2> DEFINE t == Append(said.text, Len(said.text) + 1)
    <2>1. Len(t) = Len(said.text) + 1
      BY <1>1
    <2> HIDE DEF t
    <2>2. said'.text = t
      BY <1>4, SaidParts DEF SayText, t
    <2> QED BY <1>1, <1>4, <2>1, <2>2 DEF SayText, Talking, Emit
  <1>5. CASE \E id \in Ids : OpenCall(id)
    BY <1>1, <1>5, SaidParts DEF OpenCall, Talking, Emit
  <1>6. CASE \E i \in DOMAIN said.calls : SayArgs(i) \/ CloseCall(i)
    <2>1. PICK i \in DOMAIN said.calls : SayArgs(i) \/ CloseCall(i)
      BY <1>6
    <2>2. said'.text = said.text
      <3>1. CASE SayArgs(i)
        BY <1>0, <3>1 DEF SayArgs
      <3>2. CASE CloseCall(i)
        BY <1>0, <3>2 DEF CloseCall
      <3> QED BY <2>1, <3>1, <3>2
    <2>3. /\ stage \in {"opening", "talking", "closing"}
          /\ UNCHANGED <<call, status, buffer, reader, page, reply>> /\ Arriving
      BY <2>1 DEF SayArgs, CloseCall, Emit, Talking
    <2> QED BY <1>1, <2>2, <2>3
  <1> QED BY <1>2, <1>3, <1>4, <1>5, <1>6 DEF Utter

\* What is said is what its line will be read as.
LEMMA UtterKeeps ==
    ASSUME SaidInv, SaidInv', Piped, OnWire, stream, Utter
    PROVE  Piped' /\ OnWire'
  <1>1. PICK g : Gathers(g, View(reader), buffer \o wire) /\ Promised(g, Lines(buffer \o wire))
    BY DEF OnWire
  <1>2. PICK v, s, L : v = View(reader) /\ s = buffer \o wire /\ L = Lines(s)
    OBVIOUS
  <1>3. stage \in {"opening", "talking", "closing"} /\ stage # "cut"
    BY SaidGrows
  <1>4. s \in Seq(Symbols) /\ Lined(s) /\ 3 * Lines(s) = Len(s) /\ L \in Nat /\ Len(s) \in Nat
    BY <1>2, <1>3, LinesAre DEF Piped
  <1>5. Speaking(g[L]) /\ Promised(g, L)
    BY <1>1, <1>2, <1>3, <1>4 DEF Speaking, Promised
  <1>6. PICK e : Says(g[L], e)
    BY <1>5, UtterSays
  <1>7. /\ e \in Events /\ wire' = wire \o Line(e) /\ buffer' = buffer /\ reader' = reader
        /\ protocol' = protocol /\ stage' # "cut"
    BY <1>6 DEF Says, Emit, call
  <1>8. PICK w : w = Accept(g[L], Bare(e))
    OBVIOUS
  <1>9. Promise(w)'
    BY <1>6, <1>8 DEF Says
  <1>10. Line(e) \in Seq(Symbols)
    <2>1. Newline \in Symbols
      BY DEF Symbols, Newline, Events, Plain
    <2> DEFINE x == [event |-> e, half |-> 1, torn |-> FALSE]
               y == [event |-> e, half |-> 2, torn |-> FALSE]
    <2>2. x \in Symbols /\ y \in Symbols
      BY <1>7 DEF Symbols
    <2>3. Line(e) = <<x, y, Newline>>
      BY DEF Line
    <2> HIDE DEF x, y
    <2> QED BY <2>1, <2>2, <2>3
  <1>11. PICK u : u = s \o Line(e)
    OBVIOUS
  <1>12. u = (buffer \o wire)' /\ wire' \in Seq(Symbols)
    <2>1. buffer \o (wire \o Line(e)) = (buffer \o wire) \o Line(e)
      BY <1>10, ConcatAssociative DEF Piped
    <2>2. wire \o Line(e) \in Seq(Symbols)
      BY <1>10, ConcatProperties DEF Piped
    <2> QED BY <1>2, <1>7, <1>11, <2>1, <2>2
  <1>13. u \in Seq(Symbols) /\ Lined(u) /\ Lines(u) = L + 1 /\ 3 * Lines(u) = Len(u)
    <2> DEFINE x == s \o Line(e)
    <2>1. x \in Seq(Symbols) /\ Lined(x) /\ Lines(x) = Lines(s) + 1 /\ Len(x) = Len(s) + 3
      BY <1>4, <1>7, Longer
    <2> HIDE DEF x
    <2>2. 3 * (Lines(s) + 1) = Len(s) + 3
      <3>1. Lines(s) \in Nat /\ Len(s) \in Nat /\ 3 * Lines(s) = Len(s)
        BY <1>2, <1>4
      <3> QED BY <3>1
    <2> QED BY <1>2, <1>11, <2>1, <2>2 DEF x
  <1>14. Piped'
    BY <1>7, <1>12, <1>13 DEF Piped
  <1>15. PICK h : h = [i \in 0..(L + 1) |-> IF i = L + 1 THEN w ELSE g[i]]
    OBVIOUS
  <1>16. Gathers(h, v, u)
    BY <1>1, <1>2, <1>4, <1>7, <1>8, <1>11, <1>15, GathersOn
  <1>17. Promised(h, L + 1)'
    <2>1. h[L + 1] = w /\ \A k \in 0..L : h[k] = g[k]
      BY <1>4, <1>15
    <2>2. Shape(w, Nat)
      <3>1. Bare(e) \in Plain \cup Spoken(Nat)
        BY <1>7, BareIs
      <3>2. Shape(g[L], Nat) /\ Known
        BY <1>5 DEF Speaking, SaidInv
      <3> QED BY <1>8, <3>1, <3>2, AcceptShape
    <2>3. Prefixed(w)'
      <3>1. w.text = said'.text
        BY <1>7, <1>9 DEF Promise, Faithful
      <3>2. Len(said'.text) \in Nat /\ \A i \in 1..Len(said'.text) : said'.text[i] = i
        BY DEF SaidInv, Sayings
      <3> QED BY <3>1, <3>2 DEF Prefixed
    <2>4. \A k \in 0..L : Shape(h[k], Nat) /\ Prefixed(h[k])'
      <3>1. ASSUME NEW k \in 0..L PROVE Shape(h[k], Nat) /\ Prefixed(h[k])'
        <4>1. Shape(g[k], Nat) /\ Prefixed(g[k]) /\ h[k] = g[k]
          BY <1>5, <2>1 DEF Promised
        <4>2. Len(g[k].text) \in Nat
          BY <4>1 DEF Shape
        <4>3. Len(said.text) \in Nat /\ Len(said'.text) \in Nat
          BY DEF SaidInv, Sayings
        <4>4. Len(said.text) <= Len(said'.text)
          BY SaidGrows
        <4> QED BY <4>1, <4>2, <4>3, <4>4 DEF Prefixed
      <3> QED BY <3>1
    <2>5. \A k \in 0..L : ~h[k].complete
      <3>1. g[L].complete = FALSE
        BY <1>5, SpeakingParts
      <3>2. \A k \in 0..L : k = L \/ k \in 0..(L - 1)
        BY <1>4
      <3> QED BY <1>5, <2>1, <3>1, <3>2 DEF Promised
    <2>6. (L + 1) - 1 = L /\ \A k \in 0..(L + 1) : k = L + 1 \/ k \in 0..L
      BY <1>4
    <2> QED BY <1>9, <2>1, <2>2, <2>3, <2>4, <2>5, <2>6 DEF Promised
  <1>18. v = View(reader)'
    BY <1>2, <1>7 DEF View
  <1>19. OnWire'
    BY <1>7, <1>12, <1>13, <1>16, <1>17, <1>18, OnWireNow
  <1> QED BY <1>14, <1>19

\* What is read of a part holds what was promised of the whole.
LEMMA PartPromised ==
    ASSUME NEW L \in Nat, NEW k \in Nat, NEW M \in Nat, k + M <= L, NEW g, Promised(g, L),
           NEW h, h = [i \in 0..M |-> g[k + i]],
           protocol' = protocol, said' = said,
           stage' = "cut" \/ (stage' = stage /\ k + M = L)
    PROVE  Promised(h, M)'
  <1>1. \A i \in 0..M : h[i] = g[k + i] /\ k + i \in 0..L
    OBVIOUS
  <1>2. \A i \in 0..M : Shape(h[i], Nat) /\ Prefixed(h[i])'
    BY <1>1 DEF Promised, Prefixed
  <1>3. \A i \in 0..(M - 1) : ~h[i].complete
    <2>1. ASSUME NEW i \in 0..(M - 1) PROVE ~h[i].complete
      <3>1. i \in 0..M /\ k + i \in 0..(L - 1)
        OBVIOUS
      <3> QED BY <1>1, <3>1 DEF Promised
    <2> QED BY <2>1
  <1>4. h[M] = g[k + M]
    <2>1. M \in 0..M
      OBVIOUS
    <2> QED BY <1>1, <2>1
  <1>5. Promise(h[M])'
    <2>1. CASE k + M = L
      BY <1>4, <2>1, PromiseStays DEF Promised
    <2>2. CASE k + M # L
      <3>1. k + M \in 0..(L - 1)
        BY <2>2
      <3>2. ~h[M].complete
        BY <1>4, <3>1 DEF Promised
      <3>3. stage' = "cut"
        BY <2>2
      <3> QED BY <3>2, <3>3 DEF Promise
    <2> QED BY <2>1, <2>2
  <1> QED BY <1>2, <1>3, <1>5 DEF Promised

\* What is left of the wire after a cut is a part of it.
LEMMA CutKeeps ==
    ASSUME SaidInv, Piped, OnWire, Cut
    PROVE  Piped' /\ OnWire'
  <1>1. PICK g : Gathers(g, View(reader), buffer \o wire) /\ Promised(g, Lines(buffer \o wire))
    BY DEF OnWire
  <1>2. PICK n \in 0..Len(wire) : wire' = SubSeq(wire, 1, n)
    BY DEF Cut
  <1>3. stage' = "cut" /\ said' = said /\ protocol' = protocol /\ buffer' = buffer /\ reader' = reader
    BY DEF Cut, call
  <1>4. PICK v, s, t : v = View(reader) /\ s = buffer \o wire /\ t = buffer \o SubSeq(wire, 1, n)
    OBVIOUS
  <1>5. /\ buffer \in Seq(Symbols) /\ wire \in Seq(Symbols) /\ Lined(s) /\ Len(buffer) <= 2
        /\ Shape(reader, Pieces) /\ ~reader.failed
    BY <1>4 DEF Piped
  <1>6. /\ wire' \in Seq(Symbols) /\ Len(wire') = n /\ \A i \in 1..n : wire'[i] = wire[i]
    <2>1. n \in Int /\ 1 \in Int /\ 1 <= 1 /\ n <= Len(wire) /\ n \in Nat
      BY <1>2, <1>5
    <2> DEFINE d == SubSeq(wire, 1, n)
    <2>2. /\ d \in Seq(Symbols) /\ Len(d) = IF 1 <= n THEN n - 1 + 1 ELSE 0
          /\ \A i \in 1..(n - 1 + 1) : d[i] = wire[1 + i - 1]
      BY <1>5, <2>1, PartIs
    <2>3. wire' = d
      BY <1>2
    <2> HIDE DEF d
    <2>4. Len(d) = n
      <3>1. CASE n = 0
        BY <2>2, <3>1
      <3>2. CASE 1 <= n
        <4>1. n - 1 + 1 = n
          BY <2>1
        <4> QED BY <2>2, <3>2, <4>1
      <3> QED BY <2>1, <3>1, <3>2
    <2>5. ASSUME NEW i \in 1..n PROVE d[i] = wire[i]
      <3>1. i \in 1..(n - 1 + 1) /\ 1 + i - 1 = i
        BY <2>1
      <3> QED BY <2>2, <3>1
    <2> QED BY <2>2, <2>3, <2>4, <2>5
  <1>7. t = buffer \o wire' /\ t = (buffer \o wire)'
    BY <1>2, <1>3, <1>4
  <1>8. /\ s \in Seq(Symbols) /\ t \in Seq(Symbols) /\ Len(t) <= Len(s)
        /\ \A i \in 1..Len(t) : t[i] = s[i]
    <2>1. /\ s \in Seq(Symbols) /\ Len(s) = Len(buffer) + Len(wire)
          /\ \A i \in 1..(Len(buffer) + Len(wire)) :
                s[i] = IF i <= Len(buffer) THEN buffer[i] ELSE wire[i - Len(buffer)]
      BY <1>4, <1>5, ConcatProperties
    <2> DEFINE d == wire'
    <2>2. d \in Seq(Symbols) /\ Len(d) = n /\ t = buffer \o d /\ \A i \in 1..n : d[i] = wire[i]
      BY <1>6, <1>7
    <2> HIDE DEF d
    <2>3. /\ t \in Seq(Symbols) /\ Len(t) = Len(buffer) + Len(d)
          /\ \A i \in 1..(Len(buffer) + Len(d)) :
                t[i] = IF i <= Len(buffer) THEN buffer[i] ELSE d[i - Len(buffer)]
      BY <1>5, <2>2, ConcatProperties
    <2>4. Len(buffer) \in Nat /\ Len(wire) \in Nat /\ n \in Nat /\ n <= Len(wire)
      BY <1>5
    <2>5. ASSUME NEW i \in 1..Len(t) PROVE t[i] = s[i]
      <3>1. i \in 1..(Len(buffer) + Len(d)) /\ i \in 1..(Len(buffer) + Len(wire))
        BY <2>2, <2>3, <2>4
      <3>2. CASE i <= Len(buffer)
        BY <2>1, <2>3, <3>1, <3>2
      <3>3. CASE ~(i <= Len(buffer))
        <4>1. i - Len(buffer) \in 1..n
          BY <2>2, <2>4, <3>1, <3>3
        <4> QED BY <2>1, <2>2, <2>3, <3>1, <3>3, <4>1
      <3> QED BY <3>2, <3>3
    <2>6. Len(t) <= Len(s)
      BY <2>1, <2>2, <2>3, <2>4
    <2> QED BY <2>1, <2>3, <2>5, <2>6
  <1>9. Within(t, s, 0)
    <2>1. Len(t) \in Nat /\ Len(s) \in Nat
      BY <1>8
    <2>2. 3 * 0 + Len(t) <= Len(s) /\ \A i \in 1..Len(t) : 3 * 0 + i = i
      BY <1>8, <2>1
    <2> QED BY <1>8, <2>2 DEF Within
  <1>10. Lined(t) /\ 0 + Lines(t) <= Lines(s) /\ Lines(t) \in Nat /\ Lines(s) \in Nat
    <2>1. 0 \in Nat /\ Len(t) \in Nat /\ Len(s) \in Nat
      BY <1>8
    <2> QED BY <1>5, <1>8, <1>9, <2>1, WithinLines, LinesAre
  <1>11. PICK h : h = [i \in 0..Lines(t) |-> g[0 + i]]
    OBVIOUS
  <1>12. Gathers(h, g[0], t)
    <2>1. 0 \in Nat
      OBVIOUS
    <2>2. Gathers(g, v, s)
      BY <1>1, <1>4
    <2> QED BY <1>5, <1>8, <1>9, <1>11, <2>1, <2>2, WithinGathers
  <1>13. g[0] = v
    BY <1>1, <1>4 DEF Gathers
  <1>14. Promised(h, Lines(t))'
    <2>1. 0 \in Nat /\ Promised(g, Lines(s))
      BY <1>1, <1>4
    <2> QED BY <1>3, <1>10, <1>11, <2>1, PartPromised
  <1>15. v = View(reader)'
    BY <1>3, <1>4 DEF View
  <1>16. OnWire'
    BY <1>3, <1>7, <1>12, <1>13, <1>14, <1>15, OnWireNow
  <1>17. Piped'
    BY <1>3, <1>5, <1>6, <1>7, <1>10 DEF Piped
  <1> QED BY <1>16, <1>17

-------------------------------------------------------------------------------
(* A chunk is read *)

\* What the adapter has read of a chunk.
Drained(after, t, n, g) ==
    /\ t \in Seq(Symbols) /\ Len(t) = Len(buffer) + n /\ Within(t, buffer \o wire, 0) /\ Lined(t)
    /\ Lines(t) <= Lines(buffer \o wire)
    /\ \E k \in 0..Lines(t) :
         /\ Shape(after.reader, Pieces) /\ Extends(after.reader.text, reader.text)
         /\ View(after.reader) = g[k] /\ after.buffer = After(t, k)
         /\ k = Lines(t) \/ after.reader.failed

\* It has read lines of the wire, however the chunk was cut.
LEMMA DrainedIs ==
    ASSUME SaidInv, Piped, NEW g, Gathers(g, View(reader), buffer \o wire),
           NEW n \in 1..Len(wire), NEW t, t = buffer \o Lossy(SubSeq(wire, 1, n)),
           NEW after, after = Drain(reader, harmed, t)
    PROVE  Drained(after, t, n, g)
  <1>1. PICK s : s = buffer \o wire
    OBVIOUS
  <1>2. /\ buffer \in Seq(Symbols) /\ wire \in Seq(Symbols) /\ Lined(s) /\ Len(buffer) <= 2
        /\ Shape(reader, Pieces) /\ ~reader.failed /\ Known
    BY <1>1 DEF Piped, SaidInv
  <1>3. t \in Seq(Symbols) /\ Len(t) = Len(buffer) + n /\ Within(t, s, 0)
    BY <1>1, <1>2, Received
  <1>4. s \in Seq(Symbols)
    BY <1>1, <1>2, ConcatProperties
  <1>5. 0 \in Nat
    OBVIOUS
  <1>6. Lined(t) /\ 0 + Lines(t) <= Lines(s) /\ Lines(t) \in Nat /\ Lines(s) \in Nat
    <2>1. Len(t) \in Nat /\ Len(s) \in Nat
      BY <1>3, <1>4
    <2> QED BY <1>2, <1>3, <1>4, <1>5, <2>1, WithinLines, LinesAre
  <1>7. PICK h : h = [i \in 0..Lines(t) |-> g[0 + i]]
    OBVIOUS
  <1>8. Gathers(h, g[0], t)
    <2>1. Gathers(g, View(reader), s)
      BY <1>1
    <2> QED BY <1>2, <1>3, <1>4, <1>5, <1>7, <2>1, WithinGathers
  <1>9. g[0] = View(reader)
    BY DEF Gathers
  <1>10. PICK k \in 0..Lines(t) :
            Come(after, k, reader, t, h) /\ (k = Lines(t) \/ after.reader.failed)
    BY <1>2, <1>3, <1>6, <1>8, <1>9, DrainReads
  <1>11. h[k] = g[k]
    <2>1. 0 + k = k
      BY <1>6
    <2> QED BY <1>7, <2>1
  <1>12. /\ Shape(after.reader, Pieces) /\ Extends(after.reader.text, reader.text)
         /\ View(after.reader) = g[k]
    BY <1>10, <1>11 DEF Come
  <1>13. after.buffer = After(t, k)
    <2> DEFINE q == after.reader  b == After(t, k)  d == after.harmed
    <2>1. after = [reader |-> q, buffer |-> b, harmed |-> d]
      BY <1>10 DEF Come
    <2> HIDE DEF q, b, d
    <2>2. after.buffer = b
      BY <2>1
    <2> QED BY <2>2 DEF b
  <1>14. Lines(t) <= Lines(s)
    BY <1>6
  <1> QED BY <1>1, <1>3, <1>6, <1>10, <1>12, <1>13, <1>14 DEF Drained

\* The text that was read is the beginning of what was said.
LEMMA ChunkPrefixed ==
    ASSUME SaidInv, Piped, OnWire, NEW n \in 1..Len(wire),
           NEW after, after = Drain(reader, harmed, buffer \o Lossy(SubSeq(wire, 1, n)))
    PROVE  /\ Shape(after.reader, Pieces) /\ Extends(after.reader.text, reader.text)
           /\ Prefixed(View(after.reader))
  <1>1. PICK g : Gathers(g, View(reader), buffer \o wire) /\ Promised(g, Lines(buffer \o wire))
    BY DEF OnWire
  <1>2. PICK t : t = buffer \o Lossy(SubSeq(wire, 1, n))
    OBVIOUS
  <1>3. PICK L, M : L = Lines(buffer \o wire) /\ M = Lines(t)
    OBVIOUS
  <1>4. /\ t \in Seq(Symbols) /\ M <= L
        /\ \E k \in 0..M :
                /\ Shape(after.reader, Pieces) /\ Extends(after.reader.text, reader.text)
                /\ View(after.reader) = g[k]
    <2>1. Gathers(g, View(reader), buffer \o wire)
      BY <1>1
    <2>2. after = Drain(reader, harmed, t)
      BY <1>2
    <2>3. Drained(after, t, n, g)
      BY <1>2, <2>1, <2>2, DrainedIs
    <2> QED BY <1>3, <2>3 DEF Drained
  <1>5. M \in Nat /\ L \in Nat
    <2>1. buffer \o wire \in Seq(Symbols)
      BY ConcatProperties DEF Piped
    <2>2. Len(t) \in Nat /\ Len(buffer \o wire) \in Nat
      BY <1>4, <2>1
    <2> QED BY <1>3, <2>2, LinesAre
  <1>6. PICK k \in 0..M : /\ Shape(after.reader, Pieces) /\ Extends(after.reader.text, reader.text)
                          /\ View(after.reader) = g[k]
    BY <1>4
  <1>7. k \in 0..L
    BY <1>4, <1>5
  <1>8. Prefixed(g[k])
    BY <1>1, <1>3, <1>7 DEF Promised
  <1> QED BY <1>6, <1>8

\* What is not read yet stays on the way.
LEMMA ChunkKeeps ==
    ASSUME SaidInv, Piped, OnWire, NEW n \in 1..Len(wire),
           NEW after, after = Drain(reader, harmed, buffer \o Lossy(SubSeq(wire, 1, n))),
           ~after.reader.failed,
           wire' = SubSeq(wire, n + 1, Len(wire)), reader' = after.reader, buffer' = after.buffer,
           protocol' = protocol, said' = said, stage' = stage
    PROVE  Piped' /\ OnWire'
  <1>1. PICK g : Gathers(g, View(reader), buffer \o wire) /\ Promised(g, Lines(buffer \o wire))
    BY DEF OnWire
  <1>2. PICK s, t : s = buffer \o wire /\ t = buffer \o Lossy(SubSeq(wire, 1, n))
    OBVIOUS
  <1>3. /\ t \in Seq(Symbols) /\ Len(t) = Len(buffer) + n /\ Within(t, s, 0) /\ Lined(t)
        /\ Lines(t) <= Lines(s)
        /\ \E k \in 0..Lines(t) :
                /\ Shape(after.reader, Pieces) /\ View(after.reader) = g[k]
                /\ after.buffer = After(t, k)
                /\ k = Lines(t) \/ after.reader.failed
    <2>1. Gathers(g, View(reader), buffer \o wire)
      BY <1>1
    <2>2. after = Drain(reader, harmed, t) /\ t = buffer \o Lossy(SubSeq(wire, 1, n))
      BY <1>2
    <2>3. Drained(after, t, n, g)
      BY <2>1, <2>2, DrainedIs
    <2> QED BY <1>2, <2>3 DEF Drained
  <1>4. PICK k \in 0..Lines(t) :
                /\ Shape(after.reader, Pieces) /\ View(after.reader) = g[k]
                /\ after.buffer = After(t, k)
                /\ k = Lines(t) \/ after.reader.failed
    BY <1>3
  <1>5. k = Lines(t) /\ buffer' = After(t, k)
    BY <1>4
  <1>6. buffer \in Seq(Symbols) /\ wire \in Seq(Symbols) /\ s \in Seq(Symbols) /\ Lined(s)
    BY <1>2, ConcatProperties DEF Piped
  <1>7. /\ Len(t) \in Nat /\ Len(s) \in Nat /\ Lines(t) \in Nat /\ Lines(s) \in Nat /\ k \in Nat
        /\ Len(t) <= 3 * Lines(t) + 2 /\ 3 * Lines(t) <= Len(t)
        /\ Len(s) <= 3 * Lines(s) + 2 /\ 3 * Lines(s) <= Len(s)
    <2>1. Len(t) \in Nat /\ Len(s) \in Nat
      BY <1>3, <1>6
    <2> QED BY <1>5, <2>1, LinesAre
  <1>8. After(t, k) \in Seq(Symbols) /\ Len(After(t, k)) = Len(t) - 3 * k
    BY <1>3, Remainder
  <1>9. Len(buffer') <= 2 /\ buffer' \in Seq(Symbols)
    <2>1. PICK b : b = After(t, k)
      OBVIOUS
    <2>2. PICK M : M = Lines(t)
      OBVIOUS
    <2>3. PICK l, m : l = Len(t) /\ m = Len(b)
      OBVIOUS
    <2>4. l \in Nat /\ M \in Nat /\ l <= 3 * M + 2
      BY <1>7, <2>2, <2>3
    <2>5. m = l - 3 * M
      BY <1>5, <1>8, <2>1, <2>2, <2>3
    <2>6. m <= 2
      BY <2>4, <2>5
    <2> QED BY <1>5, <1>8, <2>1, <2>3, <2>6
  <1>10. wire' \in Seq(Symbols)
    BY <1>6, Received
  <1>11. PICK u : u = After(t, k) \o SubSeq(wire, n + 1, Len(wire))
    OBVIOUS
  <1>12. u \in Seq(Symbols) /\ Len(u) = Len(s) - 3 * k /\ Within(u, s, k)
    <2> DEFINE w == After(t, k) \o SubSeq(wire, n + 1, Len(wire))
    <2>0. t \in Seq(Symbols) /\ Len(t) = Len(buffer) + n /\ Within(t, buffer \o wire, 0) /\ Lined(t)
      BY <1>2, <1>3
    <2>1. k \in 0..Lines(t)
      BY <1>4
    <2>2. buffer \in Seq(Symbols) /\ wire \in Seq(Symbols)
      BY <1>6
    <2>3. w \in Seq(Symbols) /\ Len(w) = Len(buffer \o wire) - 3 * k /\ Within(w, buffer \o wire, k)
      BY <2>0, <2>1, <2>2, Remaining
    <2> HIDE DEF w
    <2> QED BY <1>2, <1>11, <2>3 DEF w
  <1>13. u = (buffer \o wire)'
    BY <1>5, <1>11
  <1>14. Lined(u) /\ k + Lines(u) <= Lines(s) /\ Lines(u) \in Nat
    <2>1. Len(u) \in Nat
      BY <1>12
    <2> QED BY <1>6, <1>7, <1>12, <2>1, WithinLines, LinesAre
  <1>15. k + Lines(u) = Lines(s) /\ (3 * Lines(s) = Len(s) => 3 * Lines(u) = Len(u))
    <2>1. PICK L, M, x, y : L = Lines(s) /\ M = Lines(u) /\ x = Len(s) /\ y = Len(u)
      OBVIOUS
    <2>2. y \in Nat /\ y = x - 3 * k
      BY <1>12, <2>1
    <2>3. 3 * M <= y /\ y <= 3 * M + 2 /\ M \in Nat
      BY <1>12, <2>1, <2>2, LinesAre
    <2>4. 3 * L <= x /\ x <= 3 * L + 2 /\ L \in Nat /\ x \in Nat /\ k \in Nat
      BY <1>7, <2>1
    <2>5. k + M = L
      BY <2>2, <2>3, <2>4
    <2>6. 3 * L = x => 3 * M = y
      BY <2>2, <2>3, <2>4, <2>5
    <2> QED BY <2>1, <2>5, <2>6
  <1>16. PICK h : h = [i \in 0..Lines(u) |-> g[k + i]]
    OBVIOUS
  <1>17. Gathers(h, g[k], u)
    BY <1>1, <1>2, <1>6, <1>7, <1>12, <1>16, WithinGathers
  <1>18. Promised(h, Lines(u))'
    <2>1. Promised(g, Lines(s))
      BY <1>1, <1>2
    <2> QED BY <1>7, <1>14, <1>15, <1>16, <2>1, PartPromised
  <1>19. g[k] = View(reader)'
    BY <1>4 DEF View
  <1>20. OnWire'
    BY <1>13, <1>17, <1>18, <1>19, OnWireNow
  <1>21. Piped'
    <2>1. Shape(reader, Pieces)' /\ ~reader'.failed
      BY <1>4 DEF Shape
    <2>2. stage' # "cut" => 3 * Lines(u) = Len(u)
      BY <1>2, <1>15 DEF Piped
    <2> QED BY <1>9, <1>10, <1>13, <1>14, <2>1, <2>2 DEF Piped
  <1> QED BY <1>20, <1>21

-------------------------------------------------------------------------------
(* The page; and keys in their order *)

\* The new pieces come after the old.
LEMMA Added ==
    ASSUME NEW r \in Seq(Pieces), NEW q \in Seq(Pieces), Extends(q, r)
    PROVE  LET d == SubSeq(q, Len(r) + 1, Len(q)) IN d \in Seq(Pieces) /\ r \o d = q
  <1>1. Len(r) \in Nat /\ Len(q) \in Nat /\ Len(r) <= Len(q) /\ \A i \in 1..Len(r) : q[i] = r[i]
    BY DEF Extends
  <1>2. SubSeq(q, 1, Len(r)) = r
    <2> DEFINE c == SubSeq(q, 1, Len(r))
    <2>1. /\ c \in Seq(Pieces) /\ Len(c) = IF 1 <= Len(r) THEN Len(r) - 1 + 1 ELSE 0
          /\ \A i \in 1..(Len(r) - 1 + 1) : c[i] = q[1 + i - 1]
      BY <1>1, PartIs
    <2> HIDE DEF c
    <2>2. Len(c) = Len(r)
      BY <1>1, <2>1
    <2>3. ASSUME NEW i \in 1..Len(c) PROVE c[i] = r[i]
      <3>1. i \in 1..(Len(r) - 1 + 1) /\ 1 + i - 1 = i /\ i \in 1..Len(r)
        BY <1>1, <2>2
      <3> QED BY <1>1, <2>1, <3>1
    <2>4. c = r
      BY <2>1, <2>2, <2>3, SeqEqual
    <2> QED BY <2>4 DEF c
  <1> DEFINE a == Len(r)  b == Len(q)
  <1>3. 1 \in 1..(Len(q) + 1) /\ a \in (1 - 1)..Len(q) /\ b \in a..Len(q)
    BY <1>1
  <1>4. SubSeq(q, 1, a) \o SubSeq(q, a + 1, b) = SubSeq(q, 1, b)
    <2> HIDE DEF a, b
    <2> QED BY <1>3, ConcatAdjacentSubSeq
  <1>5. SubSeq(q, 1, b) = q
    BY SubSeqFull
  <1>6. SubSeq(q, a + 1, b) \in Seq(Pieces)
    <2>1. a + 1 \in Int /\ b \in Int /\ 1 <= a + 1 /\ b <= Len(q)
      BY <1>1
    <2> HIDE DEF a, b
    <2> QED BY <2>1, PartIs
  <1> QED BY <1>2, <1>4, <1>5, <1>6

\* Three parts in a row.
LEMMA Regrouped ==
    ASSUME NEW a \in Seq(Pieces), NEW b \in Seq(Pieces), NEW c \in Seq(Pieces)
    PROVE  (a \o b) \o c = a \o (b \o c) /\ a \o b \in Seq(Pieces) /\ b \o c \in Seq(Pieces)
  <1>1. (a \o b) \o c = a \o (b \o c)
    BY ConcatAssociative
  <1>2. a \o b \in Seq(Pieces)
    BY ConcatProperties
  <1>3. b \o c \in Seq(Pieces)
    BY ConcatProperties
  <1> QED BY <1>1, <1>2, <1>3

\* A sequence is cut after its j-th element.
LEMMA Halves ==
    ASSUME NEW d \in Seq(Pieces), NEW j \in 0..Len(d)
    PROVE  LET a == SubSeq(d, 1, j)  b == SubSeq(d, j + 1, Len(d)) IN
           a \in Seq(Pieces) /\ b \in Seq(Pieces) /\ a \o b = d
  <1> DEFINE z == Len(d)  m == j + 1
  <1>1. /\ 1 \in Int /\ j \in Int /\ 1 <= 1 /\ j <= Len(d) /\ m \in Int /\ z \in Int /\ 1 <= m
        /\ z <= Len(d) /\ 1 \in 1..(Len(d) + 1) /\ j \in (1 - 1)..Len(d) /\ z \in j..Len(d)
    OBVIOUS
  <1> HIDE DEF z, m
  <1>2. SubSeq(d, 1, j) \in Seq(Pieces)
    BY <1>1, PartIs
  <1>3. SubSeq(d, m, z) \in Seq(Pieces)
    BY <1>1, PartIs
  <1>4. SubSeq(d, 1, j) \o SubSeq(d, j + 1, z) = SubSeq(d, 1, z)
    BY <1>1, ConcatAdjacentSubSeq
  <1>5. SubSeq(d, 1, z) = d
    BY SubSeqFull DEF z
  <1> QED BY <1>2, <1>3, <1>4, <1>5 DEF z, m

\* The first part of two is the beginning of the whole.
LEMMA FrontOf ==
    ASSUME NEW x \in Seq(Pieces), NEW y \in Seq(Pieces), NEW q, q = x \o y
    PROVE  Len(x) <= Len(q) /\ \A i \in 1..Len(x) : x[i] = q[i]
  <1>1. Len(x) \in Nat /\ Len(y) \in Nat
    OBVIOUS
  <1> DEFINE z == x \o y
  <1>2. Len(z) = Len(x) + Len(y)
        /\ \A i \in 1..(Len(x) + Len(y)) : z[i] = IF i <= Len(x) THEN x[i] ELSE y[i - Len(x)]
    BY ConcatProperties
  <1>3. z = q
    OBVIOUS
  <1> HIDE DEF z
  <1>4. ASSUME NEW i \in 1..Len(x) PROVE x[i] = z[i]
    <2>1. i \in 1..(Len(x) + Len(y)) /\ i <= Len(x)
      BY <1>1
    <2> QED BY <1>2, <2>1
  <1> QED BY <1>1, <1>2, <1>3, <1>4

\* Text is shown and held back, in two parts.
Joined(p, h, r) == p \in Seq(Pieces) /\ h \in Seq(Pieces) /\ p \o h = r
\* The throttle lets text through: none, or all up to the j-th new piece.
Lets(x, y, p, h, d, j) ==
    /\ x = IF j = 0 THEN p ELSE p \o h \o SubSeq(d, 1, j)
    /\ y = IF j = 0 THEN h \o d ELSE SubSeq(d, j + 1, Len(d))
\* x is the beginning of q.
Begins(x, q) == Len(x) <= Len(q) /\ \A i \in 1..Len(x) : x[i] = q[i]
\* What is shown and what is held back stay all of the text, whatever is let through.
LEMMA PageGrows ==
    ASSUME NEW p, NEW h, NEW r, Joined(p, h, r), NEW q, NEW d \in Seq(Pieces), Joined(r, d, q),
           NEW j \in 0..Len(d), NEW x, NEW y, Lets(x, y, p, h, d, j)
    PROVE  Joined(x, y, q) /\ Begins(x, q)
  <1>1. Joined(x, y, q)
    <2>1. CASE j = 0
      <3>1. x = p /\ y = h \o d
        BY <2>1 DEF Lets
      <3>2. p \in Seq(Pieces) /\ h \in Seq(Pieces)
        BY DEF Joined
      <3>3. (p \o h) \o d = p \o (h \o d) /\ h \o d \in Seq(Pieces)
        BY <3>2, Regrouped
      <3> QED BY <3>1, <3>2, <3>3 DEF Joined
    <2>2. CASE j # 0
      <3>1. PICK a, b : a = SubSeq(d, 1, j) /\ b = SubSeq(d, j + 1, Len(d))
        OBVIOUS
      <3>2. x = r \o a /\ y = b
        BY <2>2, <3>1 DEF Lets, Joined
      <3>3. a \in Seq(Pieces) /\ b \in Seq(Pieces) /\ a \o b = d
        BY <3>1, Halves
      <3>4. r \in Seq(Pieces)
        BY DEF Joined
      <3>5. (r \o a) \o b = r \o (a \o b) /\ r \o a \in Seq(Pieces)
        BY <3>3, <3>4, Regrouped
      <3> QED BY <3>2, <3>3, <3>5 DEF Joined
    <2> QED BY <2>1, <2>2
  <1>2. Begins(x, q)
    <2>1. x \in Seq(Pieces) /\ y \in Seq(Pieces) /\ q = x \o y
      BY <1>1 DEF Joined
    <2>2. Len(x) <= Len(q) /\ \A i \in 1..Len(x) : x[i] = q[i]
      BY <2>1, FrontOf
    <2> QED BY <2>2 DEF Begins
  <1> QED BY <1>1, <1>2

\* The place of a key among the keys, from the least.
Rank(K, x) == Cardinality({k \in K : k <= x})

\* Ranks are counted from 1, and grow with the keys.
LEMMA RankIn ==
    ASSUME NEW K \in SUBSET Nat, IsFiniteSet(K), NEW x \in K
    PROVE  /\ Rank(K, x) \in 1..Cardinality(K)
           /\ \A y \in K : x < y => Rank(K, x) < Rank(K, y)
  <1> DEFINE D(z) == {k \in K : k <= z}
  <1>1. ASSUME NEW z \in K PROVE IsFiniteSet(D(z)) /\ Cardinality(D(z)) <= Cardinality(K)
                                 /\ Cardinality(D(z)) \in Nat
    <2>1. D(z) \in SUBSET K
      OBVIOUS
    <2> HIDE DEF D
    <2> QED BY <2>1, FS_Subset, FS_CardinalityType
  <1>2. Cardinality(K) \in Nat
    BY FS_CardinalityType
  <1>3. Cardinality(D(x)) # 0
    <2>1. x \in D(x)
      OBVIOUS
    <2> HIDE DEF D
    <2> QED BY <1>1, <2>1, FS_EmptySet
  <1>4. ASSUME NEW y \in K, x < y PROVE Cardinality(D(x)) < Cardinality(D(y))
    <2>1. D(x) \in SUBSET D(y)
      <3>1. \A k \in K : k <= x => k <= y
        <4>1. \A k \in K : k \in Nat
          OBVIOUS
        <4> QED BY <1>4, <4>1
      <3> QED BY <3>1
    <2>2. y \in D(y) /\ y \notin D(x)
      BY <1>4
    <2>3. D(x) # D(y)
      BY <2>2
    <2> HIDE DEF D
    <2>4. Cardinality(D(x)) <= Cardinality(D(y)) /\ Cardinality(D(y)) # Cardinality(D(x))
      BY <1>1, <2>1, <2>3, FS_Subset
    <2> QED BY <1>1, <2>4
  <1>5. Rank(K, x) = Cardinality(D(x)) /\ \A y \in K : Rank(K, y) = Cardinality(D(y))
    BY DEF Rank
  <1> HIDE DEF D
  <1> QED BY <1>1, <1>2, <1>3, <1>4, <1>5

\* No two keys have one rank.
LEMMA RankOne ==
    ASSUME NEW K \in SUBSET Nat, IsFiniteSet(K), NEW x \in K, NEW y \in K, Rank(K, x) = Rank(K, y)
    PROVE  x = y
  <1>1. x \in Nat /\ y \in Nat
    OBVIOUS
  <1>2. Rank(K, x) \in Nat /\ Rank(K, y) \in Nat
    <2>1. Rank(K, x) \in 1..Cardinality(K) /\ Rank(K, y) \in 1..Cardinality(K)
      BY RankIn
    <2> QED BY <2>1
  <1>3. ~(x < y)
    BY <1>2, RankIn
  <1>4. ~(y < x)
    BY <1>2, RankIn
  <1> QED BY <1>1, <1>3, <1>4

\* Every rank has a key.
LEMMA RankOnto ==
    ASSUME NEW K \in SUBSET Nat, IsFiniteSet(K), NEW i \in 1..Cardinality(K)
    PROVE  \E x \in K : Rank(K, x) = i
  <1> DEFINE N == Cardinality(K)  T == 1..N  f == [x \in K |-> Rank(K, x)]
  <1>1. N \in Nat
    BY FS_CardinalityType
  <1>2. IsFiniteSet(T) /\ Cardinality(T) = N
    <2>1. 1 \in Int /\ N \in Int
      BY <1>1
    <2> HIDE DEF N
    <2>2. IsFiniteSet(1..N) /\ Cardinality(1..N) = IF 1 > N THEN 0 ELSE N - 1 + 1
      BY <2>1, FS_Interval
    <2> QED BY <1>1, <2>2
  <1>3. f \in [K -> T]
    BY RankIn
  <1>4. f \in Injection(K, T)
    <2>1. \A x, y \in K : f[x] = f[y] => x = y
      BY RankOne
    <2> HIDE DEF f, T
    <2> QED BY <1>3, <2>1 DEF Injection, IsInjective
  <1>5. f \in Surjection(K, T)
    <2> HIDE DEF f, T
    <2> QED BY <1>2, <1>4, FS_Injection DEF N
  <1>6. \E x \in K : f[x] = i
    <2>1. i \in T
      OBVIOUS
    <2> HIDE DEF f, T
    <2> QED BY <1>5, <2>1 DEF Surjection
  <1> QED BY <1>6

\* The key that a BTreeMap gives in the i-th place.
Place(K, i) == CHOOSE x \in K : Rank(K, x) = i

\* InOrder has every key once, in the place of its rank.
LEMMA PlaceIs ==
    ASSUME NEW K \in SUBSET Nat, IsFiniteSet(K)
    PROVE  /\ Cardinality(K) \in Nat
           /\ \A i \in 1..Cardinality(K) : Place(K, i) \in K /\ Rank(K, Place(K, i)) = i
           /\ \A x \in K : Rank(K, x) \in 1..Cardinality(K) /\ Place(K, Rank(K, x)) = x
           /\ \A c : InOrder(c, K) = [i \in 1..Cardinality(K) |-> c[Place(K, i)]]
  <1>1. Cardinality(K) \in Nat
    BY FS_CardinalityType
  <1>2. ASSUME NEW i \in 1..Cardinality(K) PROVE Place(K, i) \in K /\ Rank(K, Place(K, i)) = i
    <2>1. \E x \in K : Rank(K, x) = i
      BY RankOnto
    <2> QED BY <2>1 DEF Place
  <1>3. ASSUME NEW x \in K PROVE Rank(K, x) \in 1..Cardinality(K) /\ Place(K, Rank(K, x)) = x
    <2>1. Rank(K, x) \in 1..Cardinality(K)
      BY RankIn
    <2>2. PICK i \in 1..Cardinality(K) : i = Rank(K, x)
      BY <2>1
    <2>3. Place(K, i) \in K /\ Rank(K, Place(K, i)) = Rank(K, x)
      BY <1>2, <2>2
    <2>4. PICK y : y = Place(K, i)
      OBVIOUS
    <2>5. y \in K /\ Rank(K, y) = Rank(K, x)
      BY <2>3, <2>4
    <2>6. y = x
      BY <2>5, RankOne
    <2> QED BY <2>1, <2>2, <2>4, <2>6
  <1>4. \A c : InOrder(c, K) = [i \in 1..Cardinality(K) |-> c[Place(K, i)]]
    BY DEF InOrder, Place, Rank
  <1> QED BY <1>1, <1>2, <1>3, <1>4

\* The keys 1..n are in place.
LEMMA PlaceOfAll ==
    ASSUME NEW n \in Nat
    PROVE  /\ IsFiniteSet(1..n) /\ Cardinality(1..n) = n /\ 1..n \in SUBSET Nat
           /\ \A i \in 1..n : Place(1..n, i) = i
  <1>1. ASSUME NEW m \in Nat PROVE IsFiniteSet(1..m) /\ Cardinality(1..m) = m
    <2>1. 1 \in Int /\ m \in Int
      OBVIOUS
    <2>2. IsFiniteSet(1..m) /\ Cardinality(1..m) = IF 1 > m THEN 0 ELSE m - 1 + 1
      BY <2>1, FS_Interval
    <2> QED BY <2>2
  <1>2. ASSUME NEW i \in 1..n PROVE Rank(1..n, i) = i
    <2>1. {k \in 1..n : k <= i} = 1..i
      OBVIOUS
    <2>2. i \in Nat
      OBVIOUS
    <2> QED BY <1>1, <2>1, <2>2 DEF Rank
  <1> DEFINE K == 1..n
  <1>3. K \in SUBSET Nat /\ IsFiniteSet(K) /\ \A i \in K : Rank(K, i) = i
    BY <1>1, <1>2
  <1> HIDE DEF K
  <1>4. \A i \in K : Place(K, Rank(K, i)) = i
    BY <1>3, PlaceIs
  <1>5. \A i \in K : Place(K, i) = i
    BY <1>3, <1>4
  <1> QED BY <1>1, <1>3, <1>5 DEF K

-------------------------------------------------------------------------------
(* The calls of the reply *)

\* A call of the reply, and the calls it is to have.
Called(c) == [id |-> c.id, args |-> Arguments(c.args)]
\* The calls whose arguments the protocol accepts.
KnownCalls == {i \in DOMAIN said.calls : protocol = "chat" => Parsable(said.calls[i].args)}

\* The calls the reply is to have.
LEMMA ExpectedIs ==
    ASSUME SaidInv
    PROVE  /\ KnownCalls \in SUBSET Nat /\ IsFiniteSet(KnownCalls)
           /\ KnownCalls \subseteq 1..Len(said.calls)
           /\ Expected = [i \in 1..Cardinality(KnownCalls) |-> Called(said.calls[Place(KnownCalls, i)])]
  <1>1. Len(said.calls) \in Nat /\ DOMAIN said.calls = 1..Len(said.calls)
    BY SaidParts
  <1>2. KnownCalls \in SUBSET (1..Len(said.calls))
    BY <1>1 DEF KnownCalls
  <1>3. IsFiniteSet(KnownCalls) /\ KnownCalls \in SUBSET Nat
    <2>1. IsFiniteSet(1..Len(said.calls))
      BY <1>1, PlaceOfAll
    <2>2. IsFiniteSet(KnownCalls)
      BY <1>2, <2>1, FS_Subset
    <2> QED BY <1>2, <2>2
  <1>4. PICK c : c = InOrder(said.calls, KnownCalls)
    OBVIOUS
  <1>5. c = [i \in 1..Cardinality(KnownCalls) |-> said.calls[Place(KnownCalls, i)]]
    BY <1>3, <1>4, PlaceIs
  <1>6. Expected = [i \in DOMAIN c |-> Called(c[i])]
    BY <1>4 DEF Expected, KnownCalls, Called
  <1> QED BY <1>2, <1>3, <1>5, <1>6

\* The keys of the calls that the reply has.
Keys(r) ==
    {key \in DOMAIN r.calls : r.calls[key].named /\ (protocol = "chat" => Parsable(r.calls[key].args))}

\* The reply, from what was gathered.
LEMMA RepliedCalls ==
    ASSUME NEW r, Known, Keys(r) \in SUBSET Nat, IsFiniteSet(Keys(r))
    PROVE  /\ ReplyOf(r).text = r.text /\ ReplyOf(r).thought = r.thought /\ ReplyOf(r).usage = r.usage
           /\ ReplyOf(r).calls =
                [i \in 1..Cardinality(Keys(r)) |->
                    [id |-> r.calls[Place(Keys(r), i)].id[1],
                     args |-> Arguments(r.calls[Place(Keys(r), i)].args)]]
  <1>1. PICK c : c = InOrder(r.calls, Keys(r))
    OBVIOUS
  <1>2. c = CASE protocol = "chat" -> ChatCalls(r.calls)
              [] protocol = "responses" -> ResponsesCalls(r.calls)
              [] protocol = "anthropic" -> AnthropicCalls(r.calls)
    <2>1. CASE protocol = "chat"
      <3>1. c = ChatCalls(r.calls)
        BY <1>1, <2>1 DEF ChatCalls, Keys
      <3> QED BY <2>1, <3>1
    <2>2. CASE protocol = "responses"
      <3>1. c = ResponsesCalls(r.calls)
        BY <1>1, <2>2 DEF ResponsesCalls, Keys
      <3> QED BY <2>2, <3>1
    <2>3. CASE protocol = "anthropic"
      <3>1. c = AnthropicCalls(r.calls)
        BY <1>1, <2>3 DEF AnthropicCalls, Keys
      <3> QED BY <2>3, <3>1
    <2> QED BY <2>1, <2>2, <2>3 DEF Known
  <1>3. PICK d :
          ReplyOf(r) = [text |-> r.text, thought |-> r.thought, usage |-> r.usage,
                        calls |-> [i \in DOMAIN c |-> [id |-> c[i].id[1], args |-> Arguments(c[i].args)]],
                        harmed |-> d]
    BY <1>2 DEF ReplyOf
  <1>4. c = [i \in 1..Cardinality(Keys(r)) |-> r.calls[Place(Keys(r), i)]]
    BY <1>1, PlaceIs
  <1> QED BY <1>3, <1>4

\* Chat and Messages: the calls in the order in which they were opened.
LEMMA CallsInOrder ==
    ASSUME NEW r, SaidInv, CallsHeard(r), protocol # "responses"
    PROVE  /\ ReplyOf(r).text = r.text /\ ReplyOf(r).thought = r.thought /\ ReplyOf(r).usage = r.usage
           /\ ReplyOf(r).calls = Expected
  <1>1. /\ DOMAIN said.calls = 1..Len(said.calls) /\ DOMAIN r.calls = 1..Len(said.calls)
        /\ \A i \in 1..Len(said.calls) : r.calls[i] = Item(<<said.calls[i].id>>, said.calls[i].args)
    BY SaidParts DEF CallsHeard
  <1>2. ASSUME NEW i \in 1..Len(said.calls)
        PROVE  /\ r.calls[i].named /\ r.calls[i].args = said.calls[i].args
               /\ r.calls[i].id[1] = said.calls[i].id
    <2>1. PICK d, x, y : d = said.calls[i].id /\ x = said.calls[i].args /\ y = <<d>>
      OBVIOUS
    <2>2. r.calls[i] = Item(y, x)
      BY <1>1, <2>1
    <2>3. PICK c : c = r.calls[i]
      OBVIOUS
    <2>4. c.named /\ c.args = x /\ c.id[1] = d
      <3>1. c = [id |-> y, args |-> x, named |-> TRUE]
        BY <2>1, <2>2, <2>3 DEF Item
      <3>2. c.named /\ c.args = x /\ c.id = y
        BY <3>1
      <3>3. y[1] = d
        BY <2>1
      <3> QED BY <3>2, <3>3
    <2> QED BY <2>1, <2>3, <2>4
  <1>3. Keys(r) = KnownCalls
    BY <1>1, <1>2 DEF Keys, KnownCalls
  <1>4. PICK K : K = KnownCalls
    OBVIOUS
  <1>5. K \in SUBSET Nat /\ IsFiniteSet(K) /\ K \subseteq 1..Len(said.calls)
        /\ Expected = [i \in 1..Cardinality(K) |-> Called(said.calls[Place(K, i)])]
    BY <1>4, ExpectedIs
  <1>6. /\ ReplyOf(r).text = r.text /\ ReplyOf(r).thought = r.thought /\ ReplyOf(r).usage = r.usage
        /\ ReplyOf(r).calls =
             [i \in 1..Cardinality(K) |->
                [id |-> r.calls[Place(K, i)].id[1], args |-> Arguments(r.calls[Place(K, i)].args)]]
    <2>1. Known /\ Keys(r) \in SUBSET Nat /\ IsFiniteSet(Keys(r)) /\ Keys(r) = K
      BY <1>3, <1>4, <1>5 DEF SaidInv
    <2> QED BY <2>1, RepliedCalls
  <1>7. ASSUME NEW i \in 1..Cardinality(K)
        PROVE  [id |-> r.calls[Place(K, i)].id[1], args |-> Arguments(r.calls[Place(K, i)].args)]
               = Called(said.calls[Place(K, i)])
    <2>1. Place(K, i) \in 1..Len(said.calls)
      BY <1>5, PlaceIs
    <2> QED BY <1>2, <2>1 DEF Called
  <1> QED BY <1>5, <1>6, <1>7

\* Responses: the same calls, in the order of their identities.
LEMMA CallsByIdentity ==
    ASSUME NEW r, SaidInv, CallsHeard(r), protocol = "responses"
    PROVE  /\ ReplyOf(r).text = r.text /\ ReplyOf(r).thought = r.thought /\ ReplyOf(r).usage = r.usage
           /\ Len(ReplyOf(r).calls) = Len(Expected) /\ ToSet(ReplyOf(r).calls) = ToSet(Expected)
  <1>1. PICK N, K : N = Len(said.calls) /\ K = {said.calls[i].id : i \in 1..N}
    OBVIOUS
  <1>2. /\ N \in Nat /\ DOMAIN said.calls = 1..N /\ \A i \in 1..N : said.calls[i].id \in Nat
        /\ DOMAIN r.calls = K
        /\ \A i \in 1..N : r.calls[said.calls[i].id] = Item(<<said.calls[i].id>>, said.calls[i].args)
    <2>1. Ids \subseteq Nat
      BY ModelStreamAssumption
    <2> QED BY <1>1, <2>1, SaidParts DEF CallsHeard
  <1>3. ASSUME NEW i \in 1..N
        PROVE  LET c == r.calls[said.calls[i].id] IN
               c.named /\ [id |-> c.id[1], args |-> Arguments(c.args)] = Called(said.calls[i])
    <2>1. PICK d, x, y : d = said.calls[i].id /\ x = said.calls[i].args /\ y = <<d>>
      OBVIOUS
    <2>2. r.calls[d] = Item(y, x)
      BY <1>2, <2>1
    <2>3. r.calls[d].named /\ r.calls[d].id[1] = d /\ r.calls[d].args = x
      <3>1. PICK c : c = r.calls[d]
        OBVIOUS
      <3>2. c.named /\ c.args = x /\ c.id[1] = d
        <4>1. c = [id |-> y, args |-> x, named |-> TRUE]
          BY <2>1, <2>2, <3>1 DEF Item
        <4>2. c.named /\ c.args = x /\ c.id = y
          BY <4>1
        <4>3. y[1] = d
          BY <2>1
        <4> QED BY <4>2, <4>3
      <3> QED BY <3>1, <3>2
    <2> QED BY <2>1, <2>3 DEF Called
  <1>4. Keys(r) = K
    <2>1. \A key \in K : r.calls[key].named
      BY <1>1, <1>3
    <2> QED BY <1>2, <2>1 DEF Keys
  <1>5. K \in SUBSET Nat
    BY <1>1, <1>2
  <1>6. IsFiniteSet(K) /\ Cardinality(K) = N
    <2> DEFINE f == [i \in 1..N |-> said.calls[i].id]
    <2>1. f \in [1..N -> K] /\ (\A y \in K : \E i \in 1..N : f[i] = y)
      BY <1>1
    <2>2. \A i, j \in 1..N : f[i] = f[j] => i = j
      BY <1>1 DEF SaidInv
    <2> HIDE DEF f
    <2>3. f \in Bijection(1..N, K)
      BY <2>1, <2>2 DEF Bijection, Injection, Surjection, IsInjective
    <2>4. ExistsBijection(1..N, K)
      BY <2>3 DEF ExistsBijection
    <2>5. IsFiniteSet(1..N) /\ Cardinality(1..N) = N
      BY <1>2, PlaceOfAll
    <2> QED BY <2>4, <2>5, FS_Bijection
  <1>7. /\ ReplyOf(r).text = r.text /\ ReplyOf(r).thought = r.thought /\ ReplyOf(r).usage = r.usage
        /\ ReplyOf(r).calls =
             [i \in 1..N |->
                [id |-> r.calls[Place(K, i)].id[1], args |-> Arguments(r.calls[Place(K, i)].args)]]
    <2>1. Known /\ Keys(r) \in SUBSET Nat /\ IsFiniteSet(Keys(r)) /\ Keys(r) = K
      BY <1>4, <1>5, <1>6 DEF SaidInv
    <2> QED BY <1>6, <2>1, RepliedCalls
  <1>8. Expected = [i \in 1..N |-> Called(said.calls[i])]
    <2>1. KnownCalls = 1..N
      BY <1>2 DEF KnownCalls
    <2>2. /\ Cardinality(1..N) = N /\ \A i \in 1..N : Place(1..N, i) = i
      BY <1>2, PlaceOfAll
    <2>3. Expected = [i \in 1..N |-> Called(said.calls[Place(1..N, i)])]
      BY <2>1, <2>2, ExpectedIs
    <2> QED BY <2>2, <2>3
  <1>9. PICK a, b : a = ReplyOf(r).calls /\ b = Expected
    OBVIOUS
  <1>10. /\ DOMAIN a = 1..N /\ DOMAIN b = 1..N /\ Len(a) = N /\ Len(b) = N
         /\ \A i \in 1..N : b[i] = Called(said.calls[i])
         /\ \A i \in 1..N : a[i] = [id |-> r.calls[Place(K, i)].id[1],
                                    args |-> Arguments(r.calls[Place(K, i)].args)]
    BY <1>2, <1>7, <1>8, <1>9
  <1>11. \A i \in 1..N : \E j \in 1..N : a[i] = b[j]
    <2>1. ASSUME NEW i \in 1..N PROVE \E j \in 1..N : a[i] = b[j]
      <3>1. Place(K, i) \in K
        BY <1>5, <1>6, PlaceIs
      <3>2. PICK j \in 1..N : Place(K, i) = said.calls[j].id
        BY <1>1, <3>1
      <3> QED BY <1>3, <1>10, <3>2
    <2> QED BY <2>1
  <1>12. \A j \in 1..N : \E i \in 1..N : a[i] = b[j]
    <2>1. ASSUME NEW j \in 1..N PROVE \E i \in 1..N : a[i] = b[j]
      <3>1. said.calls[j].id \in K
        BY <1>1
      <3>2. PICK i \in 1..N : Place(K, i) = said.calls[j].id
        BY <1>5, <1>6, <3>1, PlaceIs
      <3>3. a[i] = [id |-> r.calls[said.calls[j].id].id[1], args |-> Arguments(r.calls[said.calls[j].id].args)]
        BY <1>10, <3>2
      <3>4. a[i] = Called(said.calls[j])
        BY <1>3, <3>3
      <3> QED BY <1>10, <3>4
    <2> QED BY <2>1
  <1>13. ToSet(a) = ToSet(b)
    <2>1. ToSet(a) = {a[i] : i \in 1..N}
      BY <1>10 DEF ToSet
    <2>2. ToSet(b) = {b[i] : i \in 1..N}
      BY <1>10 DEF ToSet
    <2>3. \A x : x \in {a[i] : i \in 1..N} <=> x \in {b[i] : i \in 1..N}
      BY <1>11, <1>12
    <2> QED BY <2>1, <2>2, <2>3
  <1> QED BY <1>7, <1>9, <1>10, <1>13

\* A response in one piece.
LEMMA WholeIs ==
    ASSUME SaidInv, WholeReply # NoReply
    PROVE  /\ Numbers(WholeReply.text) = said.text /\ Numbers(WholeReply.thought) = said.thought
           /\ WholeReply.usage = SummedUsage(said.usage) /\ WholeReply.calls = Expected
  <1>1. /\ said.text \in Seq(Nat) /\ said.thought \in Seq(Nat)
        /\ Len(said.calls) \in Nat /\ DOMAIN said.calls = 1..Len(said.calls)
    BY SaidParts
  <1>2. ASSUME NEW s \in Seq(Nat) PROVE Numbers([i \in DOMAIN s |-> Piece(s[i])]) = s
    <2>1. s = [i \in 1..Len(s) |-> s[i]]
      OBVIOUS
    <2> QED BY <2>1 DEF Numbers, Piece
  <1>3. ChatUsage(said.usage) = SummedUsage(said.usage)
    BY DEF SaidInv, ChatUsage, SummedUsage
  <1>4. protocol = "chat" => \A i \in DOMAIN said.calls : Parsable(said.calls[i].args)
    BY DEF WholeReply, ParseCompletion, Parsable
  <1>5. PICK t \in {<<>>, Thoughts} :
            WholeReply = Whole(t, SummedUsage(said.usage)) /\ Numbers(t) = said.thought
    <2>1. CASE protocol = "chat"
      <3>1. WholeReply = Whole(<<>>, SummedUsage(said.usage))
        BY <1>3, <2>1 DEF WholeReply, ParseCompletion
      <3>2. said.thought = <<>>
        BY <2>1 DEF SaidInv
      <3>3. Numbers(<<>>) = <<>>
        BY DEF Numbers
      <3> QED BY <3>1, <3>2, <3>3
    <2>2. CASE protocol \in {"responses", "anthropic"}
      <3>1. WholeReply = Whole(Thoughts, SummedUsage(said.usage))
        BY <2>2 DEF WholeReply, ParseResponse, ParseMessage
      <3>2. Numbers(Thoughts) = said.thought
        BY <1>1, <1>2 DEF Thoughts
      <3> QED BY <3>1, <3>2
    <2> QED BY <2>1, <2>2 DEF SaidInv, Known
  <1>6. Expected = [i \in 1..Len(said.calls) |-> Called(said.calls[i])]
    <2>1. KnownCalls = 1..Len(said.calls)
      BY <1>1, <1>4 DEF KnownCalls
    <2>2. PICK N : N = Len(said.calls) /\ N \in Nat
      BY <1>1
    <2>3. /\ Cardinality(1..N) = N /\ \A i \in 1..N : Place(1..N, i) = i
      BY <2>2, PlaceOfAll
    <2>4. Expected = [i \in 1..N |-> Called(said.calls[Place(1..N, i)])]
      BY <2>1, <2>2, <2>3, ExpectedIs
    <2> QED BY <2>2, <2>3, <2>4
  <1>7. WholeReply.calls = [i \in 1..Len(said.calls) |-> Called(said.calls[i])]
    BY <1>1, <1>5 DEF Whole, Called
  <1>8. Numbers(WholeReply.text) = said.text
    <2>1. WholeReply.text = [i \in DOMAIN said.text |-> Piece(said.text[i])]
      BY <1>5 DEF Whole
    <2> QED BY <1>1, <1>2, <2>1
  <1>9. WholeReply.thought = t /\ WholeReply.usage = SummedUsage(said.usage)
    BY <1>5 DEF Whole
  <1> QED BY <1>5, <1>6, <1>7, <1>8, <1>9

-------------------------------------------------------------------------------
(* The invariant and the theorems *)

\* What is shown is the beginning of what was said.
ShownIs == Len(shown) <= Len(said.text) /\ \A i \in 1..Len(shown) : shown[i].n = i
\* What is shown and what is held back are together the text that was gathered.
PageInv ==
    /\ shown \in Seq(Pieces) /\ pending \in Seq(Pieces) /\ ShownIs
    /\ ~stream => shown = <<>> /\ pending = <<>>
    /\ stream /\ ~Ended => Joined(shown, pending, reader.text)
\* What holds of a reply.
ReplyInv ==
    /\ OnlyCompleteReplies /\ ReplyIsWhatWasSaid
    /\ status = "replied" /\ stream => shown = reply.text
\* The inductive invariant.
WireInv == SaidInv /\ PageInv /\ (stream /\ ~Ended => Piped /\ OnWire) /\ ReplyInv

\* Nothing is asked of what is no reply.
LEMMA Unreplied ==
    ASSUME status # "replied"
    PROVE  ReplyInv
  BY DEF ReplyInv, OnlyCompleteReplies, ReplyIsWhatWasSaid

\* It holds at first.
LEMMA WireInvInit ==
    ASSUME StreamInit
    PROVE  WireInv
  <1>1. SaidInv
    BY SaidInit
  <1>2. Piped /\ OnWire
    BY WireInit
  <1>3. shown = <<>> /\ pending = <<>> /\ reader.text = <<>> /\ status = "new"
    BY DEF StreamInit, Empty
  <1>4. ReplyInv
    BY <1>3, Unreplied
  <1>5. PageInv
    <2>1. <<>> \in Seq(Pieces) /\ <<>> \o <<>> = <<>> /\ Len(<<>>) = 0
      OBVIOUS
    <2>2. Len(said.text) \in Nat
      BY <1>1, SaidParts
    <2>3. ShownIs
      BY <1>3, <2>1, <2>2 DEF ShownIs
    <2> QED BY <1>3, <2>1, <2>3 DEF PageInv, Joined
  <1> QED BY <1>1, <1>2, <1>4, <1>5 DEF WireInv

\* What is shown of what the adapter holds is the beginning of what was said.
LEMMA FrontShown ==
    ASSUME SaidInv, NEW q \in Seq(Pieces), NEW v, v.text = Numbers(q), Prefixed(v),
           NEW x \in Seq(Pieces), Begins(x, q)
    PROVE  Len(x) <= Len(said.text) /\ \A i \in 1..Len(x) : x[i].n = i
  <1>1. /\ Len(Numbers(q)) = Len(q) /\ Numbers(q) = [i \in 1..Len(q) |-> q[i].n]
    BY NumbersAre
  <1>2. Len(q) <= Len(said.text) /\ \A i \in 1..Len(q) : q[i].n = i
    BY <1>1 DEF Prefixed
  <1>3. Len(x) \in Nat /\ Len(q) \in Nat /\ Len(said.text) \in Nat
    BY SaidParts
  <1>4. Len(x) <= Len(q) /\ \A i \in 1..Len(x) : x[i] = q[i]
    BY DEF Begins
  <1>5. \A i \in 1..Len(x) : i \in 1..Len(q)
    BY <1>3, <1>4
  <1> QED BY <1>2, <1>3, <1>4, <1>5

\* A request that has not started, and one whose page stays.
LEMMA PageStays ==
    ASSUME SaidInv, PageInv, UNCHANGED <<stream, shown, pending, reader>>, said'.text = said.text,
           Ended' \/ ~Ended
    PROVE  PageInv'
  <1>1. ShownIs'
    BY DEF PageInv, ShownIs
  <1> QED BY <1>1 DEF PageInv, Joined

\* A page whose rest is dropped.
LEMMA PageDropped ==
    ASSUME SaidInv, PageInv, UNCHANGED <<stream, said>>, shown' = shown, pending' = <<>>, Ended'
    PROVE  PageInv'
  <1>1. ShownIs'
    BY DEF PageInv, ShownIs
  <1>2. <<>> \in Seq(Pieces)
    OBVIOUS
  <1> QED BY <1>1, <1>2 DEF PageInv

\* The call fails.
LEMMA FailKeeps ==
    ASSUME WireInv, SaidInv', Fail, UNCHANGED <<stream, said>>
    PROVE  WireInv'
  <1>1. Ended' /\ status' # "replied"
    BY DEF Fail, Ended
  <1>2. PageInv'
    BY <1>1, PageDropped DEF WireInv, Fail, Drop
  <1>3. ReplyInv'
    BY <1>1, Unreplied DEF ReplyInv, OnlyCompleteReplies, ReplyIsWhatWasSaid
  <1> QED BY <1>1, <1>2, <1>3 DEF WireInv

\* The provider says something.
LEMMA UtterInv ==
    ASSUME WireInv, SaidInv', Utter
    PROVE  WireInv'
  <1>1. /\ SaidInv /\ PageInv /\ Len(said.text) <= Len(said'.text) /\ Arriving
        /\ UNCHANGED <<call, status, buffer, reader, page, reply>>
    BY SaidGrows DEF WireInv
  <1>2. ~Ended /\ ~Ended' /\ status' # "replied" /\ stream' = stream
    BY <1>1 DEF Arriving, Ended, call
  <1>3. ReplyInv'
    BY <1>2 DEF ReplyInv, OnlyCompleteReplies, ReplyIsWhatWasSaid
  <1>4. PageInv'
    <2>1. shown' = shown /\ pending' = pending /\ reader' = reader
      BY <1>1 DEF page
    <2>2. Len(said.text) \in Nat /\ Len(said'.text) \in Nat /\ Len(shown) \in Nat
      <3>1. Len(said.text) \in Nat
        BY <1>1, SaidParts
      <3>2. Len(said'.text) \in Nat
        BY DEF SaidInv, Sayings
      <3>3. Len(shown) \in Nat
        BY <1>1 DEF PageInv
      <3> QED BY <3>1, <3>2, <3>3
    <2>3. ShownIs'
      BY <1>1, <2>1, <2>2 DEF PageInv, ShownIs
    <2> QED BY <1>1, <1>2, <2>1, <2>3 DEF PageInv, Joined
  <1>5. stream => Piped' /\ OnWire'
    <2>1. stream => Piped /\ OnWire
      BY <1>2 DEF WireInv
    <2> QED BY <1>1, <2>1, UtterKeeps
  <1> QED BY <1>2, <1>3, <1>4, <1>5 DEF WireInv

\* The connection is closed.
LEMMA CutInv ==
    ASSUME WireInv, SaidInv', Cut
    PROVE  WireInv'
  <1>1. /\ SaidInv /\ PageInv /\ Arriving /\ said' = said
        /\ UNCHANGED <<call, status, buffer, reader, page, reply>>
    BY DEF Cut, WireInv
  <1>2. ~Ended /\ ~Ended' /\ status' # "replied" /\ stream' = stream
    BY <1>1 DEF Arriving, Ended, call
  <1>3. ReplyInv'
    BY <1>2 DEF ReplyInv, OnlyCompleteReplies, ReplyIsWhatWasSaid
  <1>4. PageInv'
    BY <1>1, <1>2, PageStays DEF page
  <1>5. stream => Piped' /\ OnWire'
    <2>1. stream => Piped /\ OnWire
      BY <1>2 DEF WireInv
    <2> QED BY <1>1, <2>1, CutKeeps
  <1> QED BY <1>2, <1>3, <1>4, <1>5 DEF WireInv

\* The steps before the response, and no step.
LEMMA QuietInv ==
    ASSUME WireInv, SaidInv', UNCHANGED <<call, said, stage, wire, buffer, reader, page, reply>>,
           status' = status \/ (~Ended /\ status' # "replied")
    PROVE  WireInv'
  <1>1. SaidInv /\ PageInv /\ ReplyInv /\ (Ended' \/ ~Ended) /\ stream' = stream /\ protocol' = protocol
    BY DEF WireInv, Ended, call
  <1>2. PageInv'
    BY <1>1, PageStays DEF page
  <1>3. ReplyInv'
    <2>1. CASE status' # "replied"
      BY <2>1 DEF ReplyInv, OnlyCompleteReplies, ReplyIsWhatWasSaid
    <2>2. CASE status' = status
      <3>1. OnlyCompleteReplies'
        BY <1>1, <2>2 DEF ReplyInv, OnlyCompleteReplies
      <3>2. Expected' = Expected
        BY <1>1 DEF Expected
      <3>3. ReplyIsWhatWasSaid'
        BY <1>1, <2>2, <3>2 DEF ReplyInv, ReplyIsWhatWasSaid
      <3> QED BY <1>1, <2>2, <3>1, <3>3 DEF ReplyInv, page
    <2> QED BY <2>1, <2>2 DEF Ended
  <1>4. stream /\ ~Ended' => Piped' /\ OnWire'
    <2>1. ASSUME stream, ~Ended' PROVE Piped' /\ OnWire'
      <3>1. Piped /\ OnWire
        BY <1>1, <2>1 DEF WireInv
      <3> QED BY <1>1, <3>1, WireStays
    <2> QED BY <2>1
  <1> QED BY <1>1, <1>2, <1>3, <1>4 DEF WireInv

\* A chunk arrives.
LEMMA ChunkInv ==
    ASSUME WireInv, SaidInv', Chunk
    PROVE  WireInv'
  <1>1. SaidInv /\ PageInv /\ status = "streaming" /\ ~Ended /\ stream
    BY DEF WireInv, Chunk, SaidInv, Ended
  <1>2. Piped /\ OnWire
    BY <1>1 DEF WireInv
  <1>3. UNCHANGED <<stream, protocol, said, stage, reply>>
    BY DEF Chunk, provider
  <1>4. PICK n, after, pieces, j :
            /\ n \in 1..Len(wire) /\ j \in 0..Len(pieces)
            /\ after = Drain(reader, harmed, buffer \o Lossy(SubSeq(wire, 1, n)))
            /\ pieces = SubSeq(after.reader.text, Len(reader.text) + 1, Len(after.reader.text))
            /\ Show(pieces, j)
            /\ IF after.reader.failed
               THEN status' = "failed" /\ Drop
               ELSE /\ wire' = SubSeq(wire, n + 1, Len(wire))
                    /\ reader' = after.reader /\ buffer' = after.buffer
                    /\ Keep(pieces, j)
                    /\ UNCHANGED status
    BY DEF Chunk
  <1>5. /\ Shape(after.reader, Pieces) /\ Extends(after.reader.text, reader.text)
        /\ Prefixed(View(after.reader))
    BY <1>1, <1>2, <1>4, ChunkPrefixed
  <1>6. PICK p, h, r, q : p = shown /\ h = pending /\ r = reader.text /\ q = after.reader.text
    OBVIOUS
  <1>7. Joined(p, h, r) /\ r \in Seq(Pieces) /\ q \in Seq(Pieces) /\ Extends(q, r)
    BY <1>1, <1>2, <1>5, <1>6 DEF PageInv, Piped, Shape
  <1>8. pieces \in Seq(Pieces) /\ Joined(r, pieces, q)
    <2> DEFINE d == SubSeq(q, Len(r) + 1, Len(q))
    <2>1. d \in Seq(Pieces) /\ r \o d = q
      BY <1>7, Added
    <2>2. pieces = d
      BY <1>4, <1>6
    <2> HIDE DEF d
    <2> QED BY <1>7, <2>1, <2>2 DEF Joined
  <1>9. PICK x, y : Lets(x, y, p, h, pieces, j)
    BY DEF Lets
  <1>10. Joined(x, y, q) /\ Begins(x, q)
    <2>1. j \in 0..Len(pieces)
      BY <1>4
    <2> QED BY <1>7, <1>8, <1>9, <2>1, PageGrows
  <1>11. shown' = x
    BY <1>4, <1>6, <1>9 DEF Show, Lets
  <1>12. x \in Seq(Pieces) /\ Len(x) <= Len(said.text) /\ \A i \in 1..Len(x) : x[i].n = i
    <2>1. PICK v : v = View(after.reader)
      OBVIOUS
    <2>2. v.text = Numbers(q) /\ Prefixed(v)
      BY <1>5, <1>6, <2>1 DEF View
    <2>3. x \in Seq(Pieces)
      BY <1>10 DEF Joined
    <2> QED BY <1>1, <1>7, <1>10, <2>2, <2>3, FrontShown
  <1>13. ShownIs'
    BY <1>3, <1>11, <1>12 DEF ShownIs
  <1>14. status' # "replied"
    BY <1>1, <1>4
  <1>15. ReplyInv'
    BY <1>14 DEF ReplyInv, OnlyCompleteReplies, ReplyIsWhatWasSaid
  <1>16. CASE after.reader.failed
    <2>1. status' = "failed" /\ pending' = <<>>
      BY <1>4, <1>16 DEF Drop
    <2>2. <<>> \in Seq(Pieces) /\ Ended'
      BY <2>1 DEF Ended
    <2>3. PageInv'
      BY <1>1, <1>3, <1>11, <1>12, <1>13, <2>1, <2>2 DEF PageInv
    <2> QED BY <1>15, <2>2, <2>3 DEF WireInv
  <1>17. CASE ~after.reader.failed
    <2>1. /\ wire' = SubSeq(wire, n + 1, Len(wire))
          /\ reader' = after.reader /\ buffer' = after.buffer
          /\ Keep(pieces, j)
      BY <1>4, <1>17
    <2>2. Piped' /\ OnWire'
      BY <1>1, <1>2, <1>3, <1>4, <1>17, <2>1, ChunkKeeps
    <2>3. pending' = y
      BY <1>6, <1>9, <2>1 DEF Keep, Lets
    <2>4. y \in Seq(Pieces)
      BY <1>10 DEF Joined
    <2>5. Joined(shown, pending, reader.text)'
      BY <1>6, <1>10, <1>11, <2>1, <2>3 DEF Joined
    <2>6. PageInv'
      BY <1>1, <1>3, <1>11, <1>12, <1>13, <2>3, <2>4, <2>5 DEF PageInv
    <2> QED BY <1>15, <2>2, <2>6 DEF WireInv
  <1> QED BY <1>16, <1>17

\* What is gathered when everything was read is what was promised.
LEMMA Finished ==
    ASSUME SaidInv, Piped, OnWire, wire = <<>>
    PROVE  Promise(View(reader)) /\ Prefixed(View(reader))
  <1>1. PICK g : Gathers(g, View(reader), buffer \o wire) /\ Promised(g, Lines(buffer \o wire))
    BY DEF OnWire
  <1>2. buffer \in Seq(Symbols) /\ Len(buffer) \in Nat /\ Len(buffer) <= 2
    BY DEF Piped
  <1>3. buffer \o wire = buffer
    BY <1>2, ConcatEmptySeq
  <1>4. Lines(buffer) = 0
    BY <1>2, LinesAre
  <1>5. Gathers(g, View(reader), buffer) /\ Promised(g, 0)
    BY <1>1, <1>3, <1>4
  <1>6. g[0] = View(reader)
    BY <1>5 DEF Gathers
  <1>7. 0 \in 0..0
    OBVIOUS
  <1> QED BY <1>5, <1>6, <1>7 DEF Promised

\* The stream ends.
LEMMA EndInv ==
    ASSUME WireInv, SaidInv', EndOfStream
    PROVE  WireInv'
  <1>1. SaidInv /\ PageInv /\ status = "streaming" /\ ~Ended /\ stream /\ wire = <<>>
    BY DEF WireInv, EndOfStream, SaidInv, Ended
  <1>2. Piped /\ OnWire
    BY <1>1 DEF WireInv
  <1>3. UNCHANGED <<stream, protocol, said, stage>>
    BY DEF EndOfStream, call, provider
  <1>4. CASE ~reader.complete
    <2>1. Fail
      BY <1>4 DEF EndOfStream
    <2> QED BY <1>3, <2>1, FailKeeps
  <1>5. CASE reader.complete
    <2>1. PICK R : R = ReplyOf(reader)
      OBVIOUS
    <2>2. shown' = shown \o pending /\ pending' = <<>> /\ reply' = R /\ status' \in {"replied", "failed"}
      BY <1>5, <2>1 DEF EndOfStream, Conclude
    <2>3. Ended'
      BY <2>2 DEF Ended
    <2>4. PICK v : v = View(reader) /\ Promise(v) /\ Prefixed(v)
      BY <1>1, <1>2, Finished
    <2>5. Shape(reader, Pieces) /\ reader.text \in Seq(Pieces)
      BY <1>2 DEF Piped, Shape
    <2>6. /\ v.text = Numbers(reader.text) /\ v.thought = Numbers(reader.thought)
          /\ v.calls = reader.calls /\ v.callOf = reader.callOf /\ v.usage = reader.usage
          /\ v.complete = reader.complete
      BY <2>4 DEF View
    <2>7. said.ended /\ Faithful(v)
      BY <1>5, <2>4, <2>6 DEF Promise
    <2>8. CallsHeard(reader)
      BY <2>6, <2>7 DEF Faithful, CallsHeard
    <2>9. /\ Numbers(reader.text) = said.text /\ Numbers(reader.thought) = said.thought
          /\ reader.usage = SummedUsage(said.usage)
      BY <2>6, <2>7 DEF Faithful, UsageHeard
    <2>10. /\ R.text = reader.text /\ R.thought = reader.thought /\ R.usage = reader.usage
           /\ ToSet(R.calls) = ToSet(Expected) /\ Len(R.calls) = Len(Expected)
           /\ protocol # "responses" => R.calls = Expected
      <3>1. CASE protocol = "responses"
        BY <1>1, <2>1, <2>8, <3>1, CallsByIdentity
      <3>2. CASE protocol # "responses"
        BY <1>1, <2>1, <2>8, <3>2, CallsInOrder
      <3> QED BY <3>1, <3>2
    <2>11. shown' = reader.text
      BY <1>1, <2>2 DEF PageInv, Joined
    <2>12. Expected' = Expected
      BY <1>3 DEF Expected
    <2>13. ReplyInv'
      <3>1. OnlyCompleteReplies'
        BY <1>3, <2>7 DEF OnlyCompleteReplies
      <3>2. ReplyIsWhatWasSaid'
        BY <1>1, <1>3, <2>2, <2>9, <2>10, <2>12 DEF ReplyIsWhatWasSaid
      <3> QED BY <2>2, <2>10, <2>11, <3>1, <3>2 DEF ReplyInv
    <2>14. PageInv'
      <3>1. Begins(reader.text, reader.text)
        BY <2>5 DEF Begins
      <3>2. Len(reader.text) <= Len(said.text) /\ \A i \in 1..Len(reader.text) : reader.text[i].n = i
        BY <1>1, <2>4, <2>5, <2>6, <3>1, FrontShown
      <3>3. ShownIs'
        BY <1>3, <2>11, <3>2 DEF ShownIs
      <3>4. <<>> \in Seq(Pieces)
        OBVIOUS
      <3> QED BY <1>1, <1>3, <2>2, <2>3, <2>5, <2>11, <3>3, <3>4 DEF PageInv
    <2> QED BY <2>3, <2>13, <2>14 DEF WireInv
  <1> QED BY <1>4, <1>5

\* A response in one piece is read.
LEMMA WholeInv ==
    ASSUME WireInv, SaidInv', ReadWhole
    PROVE  WireInv'
  <1>1. SaidInv /\ PageInv /\ status = "reading" /\ ~stream
    BY DEF WireInv, ReadWhole, SaidInv
  <1>2. UNCHANGED <<stream, protocol, said, stage>>
    BY DEF ReadWhole, call, provider
  <1>3. CASE ~(said.ended /\ WholeReply # NoReply)
    <2>1. Fail
      BY <1>3 DEF ReadWhole
    <2> QED BY <1>2, <2>1, FailKeeps
  <1>4. CASE said.ended /\ WholeReply # NoReply
    <2>1. /\ shown' = shown \o pending /\ pending' = <<>> /\ reply' = WholeReply
          /\ status' \in {"replied", "failed"}
      BY <1>4 DEF ReadWhole, Conclude
    <2>2. shown = <<>> /\ pending = <<>> /\ shown' = <<>>
      <3>1. shown = <<>> /\ pending = <<>>
        BY <1>1 DEF PageInv
      <3>2. <<>> \o <<>> = <<>>
        OBVIOUS
      <3> QED BY <2>1, <3>1, <3>2
    <2>3. Ended'
      BY <2>1 DEF Ended
    <2>4. PageInv'
      BY <1>1, <1>2, <2>1, <2>2, <2>3, PageDropped
    <2>5. /\ Numbers(WholeReply.text) = said.text /\ Numbers(WholeReply.thought) = said.thought
          /\ WholeReply.usage = SummedUsage(said.usage) /\ WholeReply.calls = Expected
      BY <1>1, <1>4, WholeIs
    <2>6. Expected' = Expected
      BY <1>2 DEF Expected
    <2>7. ReplyIsWhatWasSaid'
      BY <1>2, <2>1, <2>5, <2>6 DEF ReplyIsWhatWasSaid
    <2>8. OnlyCompleteReplies'
      BY <1>2, <1>4 DEF OnlyCompleteReplies
    <2>9. ReplyInv'
      BY <1>1, <1>2, <2>7, <2>8 DEF ReplyInv
    <2> QED BY <1>1, <1>2, <2>3, <2>4, <2>9 DEF WireInv
  <1> QED BY <1>3, <1>4

\* Every step keeps the invariant.
LEMMA WireInvKept ==
    ASSUME WireInv, [StreamNext]_streamVars
    PROVE  WireInv'
  <1>0. SaidInv'
    BY SaidKept DEF WireInv
  <1>1. CASE UNCHANGED streamVars
    BY <1>0, <1>1, QuietInv DEF streamVars, provider
  <1>2. CASE Ask
    BY <1>0, <1>2, QuietInv DEF Ask, provider, Ended
  <1>3. CASE Respond
    <2>1. ~Ended /\ status' # "replied"
      BY <1>3 DEF Respond, Ended
    <2> QED BY <1>0, <1>3, <2>1, QuietInv DEF Respond, provider
  <1>4. CASE Break
    BY <1>0, <1>4, FailKeeps DEF Break, call, provider
  <1>5. CASE Speak
    BY <1>0, <1>5, UtterInv, CutInv DEF Speak, Utter
  <1>6. CASE Read
    BY <1>0, <1>6, ChunkInv, EndInv, WholeInv DEF Read
  <1> QED BY <1>1, <1>2, <1>3, <1>4, <1>5, <1>6 DEF StreamNext

\* So it always holds.
LEMMA WireInvHolds == StreamSpec => []WireInv
  <1>1. StreamInit => WireInv
    BY WireInvInit
  <1>2. WireInv /\ [StreamNext]_streamVars => WireInv'
    BY WireInvKept
  <1> QED BY <1>1, <1>2, PTL DEF StreamSpec

(* A reply was finished by its provider, for any protocols, transcripts and bounds: no      *)
(* connection that breaks, within a line or just before the marker, makes one.              *)
THEOREM BrokenStreamsFail == StreamSpec => []OnlyCompleteReplies
  <1>1. WireInv => OnlyCompleteReplies
    BY DEF WireInv, ReplyInv
  <1> QED BY <1>1, WireInvHolds, PTL

(* A reply holds what the provider said, however its bytes were cut into chunks and the     *)
(* fragments of its calls were mixed, but for characters that the end of a chunk cut: text, *)
(* reasoning and usage, and each call once with its own fragments.                          *)
THEOREM RepliesAreFaithful == StreamSpec => []ReplyIsWhatWasSaid
  <1>1. WireInv => ReplyIsWhatWasSaid
    BY DEF WireInv, ReplyInv
  <1> QED BY <1>1, WireInvHolds, PTL

(* The page shows the beginning of the text at any time, and all of a streamed reply when   *)
(* the model node returns, whenever the throttle let text through.                          *)
THEOREM PageIsAPrefix == StreamSpec => []PageFollowsReply
  <1>1. ASSUME WireInv PROVE PageFollowsReply
    <2>1. SaidInv /\ PageInv /\ ReplyInv
      BY <1>1 DEF WireInv
    <2>2. IsPrefix(Numbers(shown), said.text)
      <3> DEFINE s == Numbers(shown)  t == said.text
      <3>1. s \in Seq(Nat) /\ Len(s) = Len(shown) /\ s = [i \in 1..Len(shown) |-> shown[i].n]
        BY <2>1, NumbersAre DEF PageInv
      <3>2. t \in Seq(Nat) /\ \A i \in 1..Len(t) : t[i] = i
        BY <2>1, SaidParts DEF SaidInv
      <3>3. Len(s) <= Len(t) /\ \A i \in 1..Len(s) : s[i] = i
        BY <2>1, <3>1 DEF PageInv, ShownIs
      <3> HIDE DEF s, t
      <3>4. Len(s) \in Nat /\ Len(t) \in Nat
        BY <3>1, <3>2
      <3>5. SubSeq(s, 1, Len(s)) = s
        BY <3>1, SubSeqFull
      <3> DEFINE c == SubSeq(t, 1, Len(s))
      <3>6. /\ c \in Seq(Nat) /\ Len(c) = IF 1 <= Len(s) THEN Len(s) - 1 + 1 ELSE 0
            /\ \A i \in 1..(Len(s) - 1 + 1) : c[i] = t[1 + i - 1]
        BY <3>2, <3>3, <3>4, PartIs
      <3>7. Len(c) = Len(s)
        BY <3>4, <3>6
      <3> HIDE DEF c
      <3>8. ASSUME NEW i \in 1..Len(c) PROVE c[i] = s[i]
        <4>1. i \in 1..(Len(s) - 1 + 1) /\ 1 + i - 1 = i /\ i \in 1..Len(s) /\ i \in 1..Len(t)
          BY <3>3, <3>4, <3>7
        <4> QED BY <3>2, <3>3, <3>6, <4>1
      <3>9. c = s
        BY <3>1, <3>6, <3>7, <3>8, SeqEqual
      <3>10. SubSeq(s, 1, Len(s)) = SubSeq(t, 1, Len(s))
        BY <3>5, <3>9 DEF c
      <3>11. IsPrefix(s, t)
        BY <3>3, <3>10 DEF IsPrefix
      <3> QED BY <3>11 DEF s, t
    <2> QED BY <2>1, <2>2 DEF PageFollowsReply, ReplyInv
  <1> QED BY <1>1, WireInvHolds, PTL

-------------------------------------------------------------------------------
(* What is sent *)

\* Sequences of sequences.
Lists(S) == Seq(Seq(S))

LEMMA ListsAre ==
    ASSUME NEW S, NEW s \in Lists(S)
    PROVE  /\ Len(s) \in Nat /\ DOMAIN s = 1..Len(s) /\ \A i \in 1..Len(s) : s[i] \in Seq(S)
           /\ Len(s) = 0 => s = <<>>
  BY DEF Lists

LEMMA ListsGrow ==
    ASSUME NEW S, NEW s \in Lists(S), NEW x \in Seq(S)
    PROVE  /\ Append(s, x) \in Lists(S) /\ Len(Append(s, x)) = Len(s) + 1
           /\ Append(s, x)[Len(s) + 1] = x /\ \A i \in 1..Len(s) : Append(s, x)[i] = s[i]
  BY DEF Lists

LEMMA ListsJoin ==
    ASSUME NEW S, NEW s \in Lists(S), NEW t \in Lists(S)
    PROVE  /\ s \o t \in Lists(S) /\ s \o <<>> = s /\ SubSeq(t, 1, 0) = <<>> /\ SubSeq(t, 1, Len(t)) = t
           /\ \A n \in 1..Len(t) : /\ SubSeq(t, 1, n - 1) \in Lists(S)
                                   /\ SubSeq(t, 1, n) = Append(SubSeq(t, 1, n - 1), t[n])
  BY DEF Lists

LEMMA ListsJoinOne ==
    ASSUME NEW S, NEW s \in Lists(S), NEW t \in Lists(S), NEW x \in Seq(S)
    PROVE  s \o Append(t, x) = Append(s \o t, x)
  <1> DEFINE T == Seq(S)
  <1>1. s \in Seq(T) /\ t \in Seq(T) /\ x \in T
    BY DEF Lists
  <1> HIDE DEF T
  <1>2. <<x>> \in Seq(T) /\ s \o t \in Seq(T)
    BY <1>1
  <1>3. Append(t, x) = t \o <<x>> /\ Append(s \o t, x) = (s \o t) \o <<x>>
    BY <1>1, <1>2, AppendIsConcat
  <1> QED BY <1>1, <1>2, <1>3, ConcatAssociative

\* The sequences that begin s, one after the other.
Flattens(f, s, N) == f = [i \in 0..N |-> IF i = 0 THEN <<>> ELSE f[i - 1] \o s[i]]

\* There is such a sequence.
LEMMA Flattening ==
    ASSUME NEW s, NEW N \in Nat
    PROVE  \E f : Flattens(f, s, N)
  <1> DEFINE Good == {n \in 0..N : \E f : Flattens(f, s, n)}
  <1>1. 0 \in Good
    <2> DEFINE f == [i \in 0..0 |-> <<>>]
    <2>1. f = [i \in 0..0 |-> IF i = 0 THEN <<>> ELSE f[i - 1] \o s[i]]
      OBVIOUS
    <2>2. Flattens(f, s, 0)
      <3> HIDE DEF f
      <3> QED BY <2>1 DEF Flattens
    <2> QED BY <2>2
  <1>2. ASSUME NEW n \in 1..N, n - 1 \in Good PROVE n \in Good
    <2>1. PICK f : Flattens(f, s, n - 1)
      BY <1>2
    <2> DEFINE q == [i \in 0..n |-> IF i = n THEN f[n - 1] \o s[n] ELSE f[i]]
    <2>2. f[0] = <<>> /\ \A i \in 1..(n - 1) : f[i] = f[i - 1] \o s[i]
      <3>1. 0 \in 0..(n - 1) /\ \A i \in 1..(n - 1) : i \in 0..(n - 1) /\ i # 0
        OBVIOUS
      <3> QED BY <2>1, <3>1 DEF Flattens
    <2>3. q[0] = <<>> /\ q[n] = q[n - 1] \o s[n] /\ \A i \in 1..(n - 1) : q[i] = q[i - 1] \o s[i]
      BY <2>2
    <2>4. \A i \in 0..n : q[i] = IF i = 0 THEN <<>> ELSE q[i - 1] \o s[i]
      <3> HIDE DEF q
      <3>1. ASSUME NEW i \in 0..n PROVE i = 0 \/ i = n \/ i \in 1..(n - 1)
        OBVIOUS
      <3>2. n # 0 /\ \A i \in 1..(n - 1) : i # 0
        OBVIOUS
      <3> QED BY <2>3, <3>1, <3>2
    <2>5. q = [i \in 0..n |-> q[i]]
      OBVIOUS
    <2> HIDE DEF q
    <2>6. Flattens(q, s, n)
      BY <2>4, <2>5 DEF Flattens
    <2> QED BY <2>6
  <1>3. 0..N \subseteq Good
    <2> HIDE DEF Good
    <2> QED BY <1>1, <1>2, Climb
  <1> QED BY <1>3

\* What FlattenSeq recurs on exists.
LEMMA FlattenRecursion ==
    ASSUME NEW S, NEW s \in Lists(S), Len(s) # 0
    PROVE  \E q : q = [i \in 1..Len(s) |-> IF i = 1 THEN s[i] ELSE q[i - 1] \o s[i]]
  <1>0. Len(s) \in Nat /\ 1 \in 1..Len(s) /\ \A i \in 1..Len(s) : s[i] \in Seq(S)
    BY ListsAre
  <1>1. PICK f : Flattens(f, s, Len(s))
    BY <1>0, Flattening
  <1>2. f[0] = <<>> /\ \A i \in 1..Len(s) : f[i] = f[i - 1] \o s[i]
    <2>1. 0 \in 0..Len(s) /\ \A i \in 1..Len(s) : i \in 0..Len(s) /\ i # 0
      BY <1>0
    <2> QED BY <1>1, <2>1 DEF Flattens
  <1> DEFINE q == [i \in 1..Len(s) |-> f[i]]
  <1>3. f[1] = s[1]
    <2>1. f[1] = f[0] \o s[1]
      <3>1. ASSUME NEW i \in 1..Len(s), i = 1 PROVE f[i] = f[0] \o s[i]
        <4>1. i - 1 = 0
          BY <3>1
        <4> QED BY <1>2, <4>1
      <3> QED BY <1>0, <3>1
    <2>2. <<>> \o s[1] = s[1]
      BY <1>0
    <2> QED BY <1>2, <2>1, <2>2
  <1>4. \A i \in 1..Len(s) : q[i] = IF i = 1 THEN s[i] ELSE q[i - 1] \o s[i]
    <2>1. \A i \in 1..Len(s) : i # 1 => i - 1 \in 1..Len(s)
      BY <1>0
    <2> QED BY <1>2, <1>3, <2>1
  <1>5. q = [i \in 1..Len(s) |-> q[i]]
    OBVIOUS
  <1> HIDE DEF q
  <1>6. q = [i \in 1..Len(s) |-> IF i = 1 THEN s[i] ELSE q[i - 1] \o s[i]]
    BY <1>4, <1>5
  <1> QED BY <1>6

\* FlattenSeq puts one after the other.
LEMMA FlattenIs ==
    ASSUME NEW S, NEW s \in Lists(S)
    PROVE  \E f : /\ f[0] = <<>> /\ FlattenSeq(s) = f[Len(s)]
                  /\ \A i \in 1..Len(s) : f[i] = f[i - 1] \o s[i]
                  /\ \A i \in 0..Len(s) : f[i] \in Seq(S)
  <1>0. Len(s) \in Nat /\ \A i \in 1..Len(s) : s[i] \in Seq(S)
    BY ListsAre
  <1>1. CASE Len(s) = 0
    <2>1. FlattenSeq(s) = <<>>
      <3>1. FlattenSeq(s) = s
        BY <1>1 DEF FlattenSeq
      <3>2. s = <<>>
        BY <1>1, ListsAre
      <3> QED BY <3>1, <3>2
    <2> DEFINE f == [i \in 0..0 |-> <<>>]
    <2>2. f[0] = <<>> /\ <<>> \in Seq(S)
      OBVIOUS
    <2>3. \A i \in 0..Len(s) : i = 0
      BY <1>1
    <2>4. ~(\E i \in 1..Len(s) : TRUE)
      BY <1>1
    <2> HIDE DEF f
    <2> QED BY <1>1, <2>1, <2>2, <2>3, <2>4
  <1>2. CASE Len(s) # 0
    <2> DEFINE N == Len(s)
               q == CHOOSE q : q = [i \in 1..N |-> IF i = 1 THEN s[i] ELSE q[i - 1] \o s[i]]
    <2>1. FlattenSeq(s) = q[N]
      BY <1>2 DEF FlattenSeq
    <2>2. q = [i \in 1..N |-> IF i = 1 THEN s[i] ELSE q[i - 1] \o s[i]]
      BY <1>2, FlattenRecursion
    <2> HIDE DEF q
    <2> DEFINE f == [i \in 0..N |-> IF i = 0 THEN <<>> ELSE q[i]]
    <2>3. f[0] = <<>> /\ FlattenSeq(s) = f[N]
      BY <1>0, <1>2, <2>1
    <2>4. ASSUME NEW i \in 1..N PROVE f[i] = f[i - 1] \o s[i]
      <3>0. i \in 0..N /\ i # 0
        BY <1>0
      <3>1. f[i] = q[i] /\ q[i] = IF i = 1 THEN s[i] ELSE q[i - 1] \o s[i]
        <4>1. f[i] = q[i]
          BY <3>0
        <4> HIDE DEF f, N
        <4> QED BY <2>2, <4>1
      <3>2. CASE i = 1
        <4>1. f[i - 1] = <<>> /\ <<>> \o s[i] = s[i]
          BY <1>0, <3>2
        <4> HIDE DEF f
        <4> QED BY <3>1, <3>2, <4>1
      <3>3. CASE i # 1
        <4>1. f[i - 1] = q[i - 1]
          BY <1>0, <3>3
        <4> HIDE DEF f
        <4> QED BY <3>1, <3>3, <4>1
      <3> QED BY <3>2, <3>3
    <2> HIDE DEF f
    <2>5. 0..N \subseteq {i \in 0..N : f[i] \in Seq(S)}
      <3> DEFINE Good == {i \in 0..N : f[i] \in Seq(S)}
      <3>1. 0 \in Good
        <4>1. 0 \in 0..N /\ f[0] \in Seq(S)
          BY <1>0, <2>3, EmptySeq
        <4> QED BY <4>1
      <3>2. ASSUME NEW i \in 1..N, i - 1 \in Good PROVE i \in Good
        <4>1. f[i - 1] \in Seq(S) /\ s[i] \in Seq(S) /\ f[i] = f[i - 1] \o s[i]
          BY <1>0, <2>4, <3>2
        <4>2. f[i - 1] \o s[i] \in Seq(S)
          BY <4>1
        <4>3. i \in 0..N /\ f[i] \in Seq(S)
          BY <1>0, <4>1, <4>2
        <4> QED BY <4>3
      <3> HIDE DEF Good
      <3>3. 0..N \subseteq Good
        BY <1>0, <3>1, <3>2, Climb
      <3> QED BY <3>3 DEF Good
    <2> QED BY <2>3, <2>4, <2>5
  <1> QED BY <1>1, <1>2

LEMMA FlattenTyped ==
    ASSUME NEW S, NEW s \in Lists(S)
    PROVE  FlattenSeq(s) \in Seq(S)
  <1>1. Len(s) \in 0..Len(s)
    BY ListsAre
  <1> QED BY <1>1, FlattenIs

LEMMA FlattenNone == FlattenSeq(<<>>) = <<>>
  BY DEF FlattenSeq

\* One sequence more comes behind.
LEMMA FlattenAppend ==
    ASSUME NEW S, NEW s \in Lists(S), NEW x \in Seq(S)
    PROVE  FlattenSeq(Append(s, x)) = FlattenSeq(s) \o x
  <1> DEFINE N == Len(s)  t == Append(s, x)
  <1>1. /\ N \in Nat /\ t \in Lists(S) /\ Len(t) = N + 1 /\ t[N + 1] = x
        /\ \A i \in 1..N : t[i] = s[i]
    BY ListsAre, ListsGrow
  <1> HIDE DEF t
  <1>2. PICK f : /\ f[0] = <<>> /\ FlattenSeq(s) = f[N]
                 /\ \A i \in 1..N : f[i] = f[i - 1] \o s[i]
    BY FlattenIs
  <1>3. PICK g : /\ g[0] = <<>> /\ FlattenSeq(t) = g[N + 1]
                 /\ \A i \in 1..(N + 1) : g[i] = g[i - 1] \o t[i]
    <2>1. PICK g : /\ g[0] = <<>> /\ FlattenSeq(t) = g[Len(t)]
                   /\ \A i \in 1..Len(t) : g[i] = g[i - 1] \o t[i]
                   /\ \A i \in 0..Len(t) : g[i] \in Seq(S)
      BY <1>1, FlattenIs
    <2>2. /\ g[0] = <<>> /\ FlattenSeq(t) = g[N + 1]
          /\ \A i \in 1..(N + 1) : g[i] = g[i - 1] \o t[i]
      <3> HIDE DEF N
      <3> QED BY <1>1, <2>1
    <2> QED BY <2>2
  <1>4. f[N] = g[N]
    <2>1. \A i \in 1..N : f[i] = f[i - 1] \o s[i] /\ g[i] = g[i - 1] \o t[i] /\ s[i] = t[i]
      <3>1. \A i \in 1..N : i \in 1..(N + 1)
        BY <1>1
      <3> QED BY <1>1, <1>2, <1>3, <3>1
    <2> DEFINE Good == {i \in 0..N : f[i] = g[i]}
    <2>2. 0 \in Good
      <3>1. 0 \in 0..N /\ f[0] = g[0]
        BY <1>1, <1>2, <1>3
      <3> QED BY <3>1
    <2>3. ASSUME NEW i \in 1..N, i - 1 \in Good PROVE i \in Good
      <3>1. f[i - 1] = g[i - 1] /\ i \in 0..N
        BY <1>1, <2>3
      <3>2. f[i] = g[i]
        BY <2>1, <3>1
      <3> QED BY <3>1, <3>2
    <2> HIDE DEF Good
    <2>4. 0..N \subseteq Good
      BY <1>1, <2>2, <2>3, Climb
    <2>5. N \in Good
      BY <1>1, <2>4
    <2> QED BY <2>5 DEF Good
  <1>5. g[N + 1] = g[N] \o x
    <2>1. N + 1 \in 1..(N + 1) /\ (N + 1) - 1 = N
      BY <1>1
    <2> QED BY <1>1, <1>3, <2>1
  <1> QED BY <1>2, <1>3, <1>4, <1>5 DEF t

\* Two lists of sequences.
LEMMA FlattenConcat ==
    ASSUME NEW S, NEW s \in Lists(S), NEW t \in Lists(S)
    PROVE  FlattenSeq(s \o t) = FlattenSeq(s) \o FlattenSeq(t)
  <1> DEFINE N == Len(t)
             Good == {n \in 0..N : FlattenSeq(s \o SubSeq(t, 1, n)) = FlattenSeq(s) \o FlattenSeq(SubSeq(t, 1, n))}
  <1>0. N \in Nat /\ FlattenSeq(s) \in Seq(S) /\ \A i \in 1..N : t[i] \in Seq(S)
    BY FlattenTyped, ListsAre
  <1>1. 0 \in Good
    <2>1. SubSeq(t, 1, 0) = <<>> /\ s \o <<>> = s
      BY ListsJoin
    <2>2. FlattenSeq(s) \o <<>> = FlattenSeq(s)
      BY <1>0
    <2>3. 0 \in 0..N
      BY <1>0
    <2>4. FlattenSeq(s \o SubSeq(t, 1, 0)) = FlattenSeq(s) \o FlattenSeq(SubSeq(t, 1, 0))
      BY <2>1, <2>2, FlattenNone
    <2> QED BY <2>3, <2>4
  <1>2. ASSUME NEW n \in 1..N, n - 1 \in Good PROVE n \in Good
    <2> DEFINE u == SubSeq(t, 1, n - 1)
    <2>1. u \in Lists(S) /\ SubSeq(t, 1, n) = Append(u, t[n]) /\ t[n] \in Seq(S)
      BY <1>0, ListsJoin
    <2>2. FlattenSeq(s \o u) = FlattenSeq(s) \o FlattenSeq(u)
      BY <1>2
    <2> HIDE DEF u
    <2>3. s \o Append(u, t[n]) = Append(s \o u, t[n]) /\ s \o u \in Lists(S)
      <3>1. s \o Append(u, t[n]) = Append(s \o u, t[n])
        BY <2>1, ListsJoinOne
      <3>2. s \o u \in Lists(S)
        BY <2>1, ListsJoin
      <3> QED BY <3>1, <3>2
    <2>4. FlattenSeq(Append(s \o u, t[n])) = (FlattenSeq(s) \o FlattenSeq(u)) \o t[n]
      BY <2>1, <2>2, <2>3, FlattenAppend
    <2>5. FlattenSeq(Append(u, t[n])) = FlattenSeq(u) \o t[n] /\ FlattenSeq(u) \in Seq(S)
      BY <2>1, FlattenAppend, FlattenTyped
    <2>6. (FlattenSeq(s) \o FlattenSeq(u)) \o t[n] = FlattenSeq(s) \o (FlattenSeq(u) \o t[n])
      <3>1. ASSUME NEW a \in Seq(S), NEW b \in Seq(S), NEW c \in Seq(S)
            PROVE  (a \o b) \o c = a \o (b \o c)
        BY ConcatAssociative
      <3>2. FlattenSeq(s) \in Seq(S) /\ FlattenSeq(u) \in Seq(S) /\ t[n] \in Seq(S)
        BY <1>0, <2>1, <2>5
      <3> QED BY <3>1, <3>2, Zenon
    <2>7. FlattenSeq(s \o Append(u, t[n])) = FlattenSeq(s) \o FlattenSeq(Append(u, t[n]))
      BY <2>3, <2>4, <2>5, <2>6, Zenon
    <2>8. n \in 0..N
      BY <1>0
    <2>9. FlattenSeq(s \o SubSeq(t, 1, n)) = FlattenSeq(s) \o FlattenSeq(SubSeq(t, 1, n))
      BY <2>1, <2>7, Zenon
    <2> QED BY <2>8, <2>9
  <1> HIDE DEF Good
  <1>3. N \in Good
    <2>1. 0..N \subseteq Good
      BY <1>0, <1>1, <1>2, Climb
    <2> QED BY <1>0, <2>1
  <1>4. SubSeq(t, 1, N) = t
    BY ListsJoin
  <1> QED BY <1>3, <1>4 DEF Good

\* Of nothing but empty sequences nothing comes.
LEMMA FlattenEmpties ==
    ASSUME NEW S, NEW s \in Lists(S), \A i \in 1..Len(s) : s[i] = <<>>
    PROVE  FlattenSeq(s) = <<>>
  <1>0. Len(s) \in Nat
    BY ListsAre
  <1>1. PICK f : /\ f[0] = <<>> /\ FlattenSeq(s) = f[Len(s)]
                 /\ \A i \in 1..Len(s) : f[i] = f[i - 1] \o s[i]
                 /\ \A i \in 0..Len(s) : f[i] \in Seq(S)
    BY FlattenIs
  <1> DEFINE Good == {i \in 0..Len(s) : f[i] = <<>>}
  <1>2. 0 \in Good
    BY <1>0, <1>1
  <1>3. ASSUME NEW i \in 1..Len(s), i - 1 \in Good PROVE i \in Good
    <2>1. f[i - 1] = <<>> /\ s[i] = <<>> /\ f[i] = f[i - 1] \o s[i]
      BY <1>1, <1>3
    <2>3. i \in 0..Len(s)
      BY <1>0
    <2>2. f[i] = <<>>
      BY <2>1
    <2> QED BY <2>2, <2>3
  <1> HIDE DEF Good
  <1>4. Len(s) \in Good
    <2>1. 0..Len(s) \subseteq Good
      BY <1>0, <1>2, <1>3, Climb
    <2> QED BY <1>0, <2>1
  <1> QED BY <1>1, <1>4 DEF Good

\* Elements taken one by one make the sequence again.
LEMMA FlattenSingles ==
    ASSUME NEW S, NEW x \in Seq(S)
    PROVE  /\ [j \in 1..Len(x) |-> <<x[j]>>] \in Lists(S)
           /\ FlattenSeq([j \in 1..Len(x) |-> <<x[j]>>]) = x
  <1> DEFINE s == [j \in 1..Len(x) |-> <<x[j]>>]
  <1>0. Len(x) \in Nat /\ \A j \in 1..Len(x) : x[j] \in S
    OBVIOUS
  <1>1. s \in Lists(S) /\ Len(s) = Len(x)
    <2>1. \A j \in 1..Len(x) : <<x[j]>> \in Seq(S)
      BY <1>0
    <2> DEFINE T == Seq(S)
    <2>2. s \in [1..Len(x) -> T]
      BY <2>1
    <2> HIDE DEF s, T
    <2>3. s \in Seq(T) /\ Len(s) = Len(x)
      BY <1>0, <2>2
    <2> QED BY <2>3 DEF T, Lists
  <1>2. \A j \in 1..Len(x) : s[j] = <<x[j]>>
    OBVIOUS
  <1> HIDE DEF s
  <1>3. PICK f : /\ f[0] = <<>> /\ FlattenSeq(s) = f[Len(s)]
                 /\ \A i \in 1..Len(s) : f[i] = f[i - 1] \o s[i]
                 /\ \A i \in 0..Len(s) : f[i] \in Seq(S)
    BY <1>1, FlattenIs
  <1> DEFINE Good == {i \in 0..Len(x) : f[i] = SubSeq(x, 1, i)}
  <1>4. 0 \in Good
    <2>1. SubSeq(x, 1, 0) = <<>> /\ 0 \in 0..Len(x)
      BY <1>0, SubSeqEmpty
    <2> QED BY <1>3, <2>1
  <1>5. ASSUME NEW i \in 1..Len(x), i - 1 \in Good PROVE i \in Good
    <2>1. f[i - 1] = SubSeq(x, 1, i - 1) /\ i \in 0..Len(x)
      BY <1>0, <1>5
    <2>2. f[i] = f[i - 1] \o <<x[i]>>
      BY <1>1, <1>2, <1>3
    <2>3. SubSeq(x, 1, i) = SubSeq(x, 1, i - 1) \o <<x[i]>>
      <3>1. 1 \in 1..Len(x) /\ i \in 1..Len(x)
        BY <1>0
      <3> QED BY <3>1, SubSeqRecursiveSecond
    <2> QED BY <2>1, <2>2, <2>3
  <1> HIDE DEF Good
  <1>6. Len(x) \in Good
    <2>1. 0..Len(x) \subseteq Good
      BY <1>0, <1>4, <1>5, Climb
    <2> QED BY <1>0, <2>1
  <1>7. SubSeq(x, 1, Len(x)) = x
    BY SubSeqFull
  <1>8. FlattenSeq(s) = x
    BY <1>1, <1>3, <1>6, <1>7 DEF Good
  <1> QED BY <1>1, <1>8 DEF s

-------------------------------------------------------------------------------
\* Blocks and turns.
BlockSet == [message : Nat, part : Nat, form : Kinds \cup {"call"}]
TurnSet == [role : {"system", "user", "assistant", "tool", "output", "call"}, blocks : Seq(BlockSet)]
\* The blocks of the system's turns, or of all the others.
Kept(q, on) == [t \in DOMAIN q |-> IF (q[t].role = "system") = on THEN q[t].blocks ELSE <<>>]
Blocks(q, on) == FlattenSeq(Kept(q, on))

LEMMA KeptIs ==
    ASSUME NEW q \in Seq(TurnSet), NEW on
    PROVE  /\ Kept(q, on) \in Lists(BlockSet) /\ Len(Kept(q, on)) = Len(q)
           /\ \A i \in 1..Len(q) :
                Kept(q, on)[i] = IF (q[i].role = "system") = on THEN q[i].blocks ELSE <<>>
  <1> DEFINE T == Seq(BlockSet)  k == Kept(q, on)
  <1>1. Len(q) \in Nat /\ DOMAIN q = 1..Len(q) /\ \A i \in 1..Len(q) : q[i].blocks \in T
    <2>1. Len(q) \in Nat /\ DOMAIN q = 1..Len(q) /\ \A i \in 1..Len(q) : q[i] \in TurnSet
      BY LenProperties, ElementOfSeq
    <2>2. \A turn \in TurnSet : turn.blocks \in T
      BY DEF TurnSet
    <2> HIDE DEF T
    <2> QED BY <2>1, <2>2
  <1>2. <<>> \in T
    OBVIOUS
  <1> HIDE DEF T
  <1>3. k \in [1..Len(q) -> T] /\ \A i \in 1..Len(q) :
            k[i] = IF (q[i].role = "system") = on THEN q[i].blocks ELSE <<>>
    BY <1>1, <1>2 DEF Kept
  <1> HIDE DEF k
  <1>4. k \in Seq(T) /\ Len(k) = Len(q)
    BY <1>1, <1>3
  <1> QED BY <1>3, <1>4 DEF k, T, Lists

LEMMA BlocksTyped ==
    ASSUME NEW q \in Seq(TurnSet), NEW on
    PROVE  Blocks(q, on) \in Seq(BlockSet)
  BY KeptIs, FlattenTyped DEF Blocks

LEMMA BlocksNone == ASSUME NEW on PROVE Blocks(<<>>, on) = <<>>
  <1>1. Kept(<<>>, on) = <<>>
    BY DEF Kept
  <1> QED BY <1>1, FlattenNone DEF Blocks

LEMMA BlocksOne ==
    ASSUME NEW turn \in TurnSet, NEW on
    PROVE  Blocks(<<turn>>, on) = IF (turn.role = "system") = on THEN turn.blocks ELSE <<>>
  <1> DEFINE x == IF (turn.role = "system") = on THEN turn.blocks ELSE <<>>
  <1>1. x \in Seq(BlockSet)
    BY DEF TurnSet
  <1>2. Kept(<<turn>>, on) = <<x>>
    BY DEF Kept
  <1> HIDE DEF x
  <1>3. <<x>> = [j \in 1..1 |-> x]
    OBVIOUS
  <1>4. <<x>> = Append(<<>>, x) /\ <<>> \in Lists(BlockSet) /\ <<>> \o x = x
    BY <1>1 DEF Lists
  <1>5. FlattenSeq(<<x>>) = x
    BY <1>1, <1>4, FlattenAppend, FlattenNone
  <1> QED BY <1>2, <1>5 DEF Blocks, x

LEMMA BlocksJoin ==
    ASSUME NEW p \in Seq(TurnSet), NEW q \in Seq(TurnSet), NEW on
    PROVE  p \o q \in Seq(TurnSet) /\ Blocks(p \o q, on) = Blocks(p, on) \o Blocks(q, on)
  <1> DEFINE a == Kept(p, on)  b == Kept(q, on)  c == Kept(p \o q, on)
  <1>1. /\ p \o q \in Seq(TurnSet) /\ Len(p \o q) = Len(p) + Len(q) /\ Len(p) \in Nat /\ Len(q) \in Nat
        /\ \A i \in 1..(Len(p) + Len(q)) : (p \o q)[i] = IF i <= Len(p) THEN p[i] ELSE q[i - Len(p)]
    BY ConcatProperties, LenProperties
  <1>2. a \in Lists(BlockSet) /\ b \in Lists(BlockSet) /\ c \in Lists(BlockSet)
    BY <1>1, KeptIs
  <1>3. c = a \o b
    <2> DEFINE T == Seq(BlockSet)
    <2>1. a \in Seq(T) /\ b \in Seq(T) /\ c \in Seq(T)
      BY <1>2 DEF Lists
    <2>2. Len(a) = Len(p) /\ Len(b) = Len(q) /\ Len(c) = Len(p) + Len(q)
      BY <1>1, KeptIs
    <2>3. ASSUME NEW i \in 1..(Len(p) + Len(q))
          PROVE  c[i] = IF i <= Len(p) THEN a[i] ELSE b[i - Len(p)]
      <3>1. c[i] = IF ((p \o q)[i].role = "system") = on THEN (p \o q)[i].blocks ELSE <<>>
        <4>1. i \in 1..Len(p \o q)
          BY <1>1
        <4>2. \A r \in Seq(TurnSet) : \A j \in 1..Len(r) :
                Kept(r, on)[j] = IF (r[j].role = "system") = on THEN r[j].blocks ELSE <<>>
          BY KeptIs
        <4>3. p \o q \in Seq(TurnSet)
          BY <1>1
        <4> QED BY <4>1, <4>2, <4>3
      <3>2. CASE i <= Len(p)
        <4>1. i \in 1..Len(p) /\ (p \o q)[i] = p[i]
          BY <1>1, <3>2
        <4>2. a[i] = IF (p[i].role = "system") = on THEN p[i].blocks ELSE <<>>
          BY <4>1, KeptIs
        <4> HIDE DEF a, b, c
        <4> QED BY <3>1, <3>2, <4>1, <4>2
      <3>3. CASE ~(i <= Len(p))
        <4>1. i - Len(p) \in 1..Len(q) /\ (p \o q)[i] = q[i - Len(p)]
          BY <1>1, <3>3
        <4>2. b[i - Len(p)] = IF (q[i - Len(p)].role = "system") = on THEN q[i - Len(p)].blocks ELSE <<>>
          BY <4>1, KeptIs
        <4> HIDE DEF a, b, c
        <4> QED BY <3>1, <3>3, <4>1, <4>2
      <3> QED BY <3>2, <3>3
    <2> HIDE DEF a, b, c, T
    <2>4. /\ a \o b \in Seq(T) /\ Len(a \o b) = Len(p) + Len(q)
          /\ \A i \in 1..(Len(p) + Len(q)) : (a \o b)[i] = IF i <= Len(p) THEN a[i] ELSE b[i - Len(p)]
      <3>1. /\ a \o b \in Seq(T) /\ Len(a \o b) = Len(a) + Len(b)
            /\ \A i \in 1..(Len(a) + Len(b)) : (a \o b)[i] = IF i <= Len(a) THEN a[i] ELSE b[i - Len(a)]
        BY <2>1, ConcatProperties
      <3> QED BY <2>2, <3>1
    <2> QED BY <2>1, <2>2, <2>3, <2>4, SeqEqual
  <1> HIDE DEF a, b, c
  <1>4. FlattenSeq(c) = FlattenSeq(a) \o FlattenSeq(b)
    BY <1>2, <1>3, FlattenConcat
  <1> QED BY <1>1, <1>4 DEF Blocks, a, b, c

\* The blocks of turns that were put one after the other.
LEMMA FlattenBlocks ==
    ASSUME NEW s \in Lists(TurnSet), NEW w \in Lists(BlockSet), NEW on, Len(s) = Len(w),
           \A i \in 1..Len(s) : Blocks(s[i], on) = w[i]
    PROVE  FlattenSeq(s) \in Seq(TurnSet) /\ Blocks(FlattenSeq(s), on) = FlattenSeq(w)
  <1>0. Len(s) \in Nat /\ \A i \in 1..Len(s) : s[i] \in Seq(TurnSet)
    BY ListsAre
  <1>1. PICK f : /\ f[0] = <<>> /\ FlattenSeq(s) = f[Len(s)]
                 /\ \A i \in 1..Len(s) : f[i] = f[i - 1] \o s[i]
                 /\ \A i \in 0..Len(s) : f[i] \in Seq(TurnSet)
    BY FlattenIs
  <1>2. PICK g : /\ g[0] = <<>> /\ FlattenSeq(w) = g[Len(w)]
                 /\ \A i \in 1..Len(w) : g[i] = g[i - 1] \o w[i]
                 /\ \A i \in 0..Len(w) : g[i] \in Seq(BlockSet)
    BY FlattenIs
  <1> DEFINE Good == {i \in 0..Len(s) : Blocks(f[i], on) = g[i]}
  <1>3. 0 \in Good
    BY <1>0, <1>1, <1>2, BlocksNone
  <1>4. ASSUME NEW i \in 1..Len(s), i - 1 \in Good PROVE i \in Good
    <2>1. Blocks(f[i - 1], on) = g[i - 1] /\ i \in 0..Len(s) /\ i - 1 \in 0..Len(s) /\ i \in 1..Len(w)
      BY <1>0, <1>4
    <2>2. f[i] = f[i - 1] \o s[i] /\ g[i] = g[i - 1] \o w[i] /\ Blocks(s[i], on) = w[i]
      BY <1>1, <1>2, <2>1
    <2>3. f[i - 1] \in Seq(TurnSet) /\ s[i] \in Seq(TurnSet)
      BY <1>0, <1>1, <2>1
    <2>4. Blocks(f[i - 1] \o s[i], on) = Blocks(f[i - 1], on) \o Blocks(s[i], on)
      BY <2>3, BlocksJoin
    <2> QED BY <2>1, <2>2, <2>4
  <1> HIDE DEF Good
  <1>5. Len(s) \in Good
    <2>1. 0..Len(s) \subseteq Good
      BY <1>0, <1>3, <1>4, Climb
    <2> QED BY <1>0, <2>1
  <1>6. FlattenSeq(s) \in Seq(TurnSet)
    BY FlattenTyped
  <1> QED BY <1>1, <1>2, <1>5, <1>6 DEF Good

-------------------------------------------------------------------------------
\* What a message has to be said of.
OfMessage(m, message, on) == IF (message.role = "system") = on THEN PartsOf(m, message) ELSE <<>>

LEMMA MessageFields ==
    ASSUME NEW message \in ChatMessage
    PROVE  /\ message.role \in {"system", "user", "assistant", "tool"} /\ message.calls \in Nat
           /\ Len(message.parts) \in Nat /\ DOMAIN message.parts = 1..Len(message.parts)
           /\ \A j \in 1..Len(message.parts) : message.parts[j] \in Kinds
  BY DEF ChatMessage

LEMMA BlockTyped ==
    ASSUME NEW m \in Nat, NEW j \in Nat, NEW form \in Kinds \cup {"call"}
    PROVE  Block(m, j, form) \in BlockSet
  BY DEF Block, BlockSet

\* A sequence from its elements.
LEMMA SeqFrom ==
    ASSUME NEW S, NEW N \in Nat, NEW f \in [1..N -> S]
    PROVE  f \in Seq(S) /\ Len(f) = N
  OBVIOUS

\* The parts of a message are its content and its calls.
LEMMA PartsAre ==
    ASSUME NEW m \in Nat, NEW message \in ChatMessage
    PROVE  /\ Content(m, message) \in Seq(BlockSet) /\ Calls(m, message) \in Seq(BlockSet)
           /\ PartsOf(m, message) \in Seq(BlockSet)
           /\ Len(Content(m, message)) = Len(message.parts) /\ Len(Calls(m, message)) = message.calls
           /\ Content(m, message) \o Calls(m, message) = PartsOf(m, message)
  <1> DEFINE L == Len(message.parts)  K == message.calls
             a == Content(m, message)  b == Calls(m, message)  c == PartsOf(m, message)
  <1>1. L \in Nat /\ K \in Nat /\ DOMAIN message.parts = 1..L /\ \A j \in 1..L : message.parts[j] \in Kinds
    BY MessageFields
  <1>2. \A kind \in Kinds : Form(kind) \in Kinds
    BY DEF Form, Kinds
  <1>3. a = [j \in 1..L |-> Block(m, j, Form(message.parts[j]))]
    BY <1>1 DEF Content
  <1>4. b = [k \in 1..K |-> Block(m, L + k, "call")]
    BY DEF Calls
  <1>5. c = [j \in 1..(L + K) |-> Block(m, j, IF j > L THEN "call" ELSE Form(message.parts[j]))]
    BY DEF PartsOf
  <1> HIDE DEF L, K, a, b, c
  <1>6. a \in [1..L -> BlockSet]
    <2>1. \A j \in 1..L : Block(m, j, Form(message.parts[j])) \in BlockSet
      BY <1>1, <1>2, BlockTyped
    <2> QED BY <1>3, <2>1
  <1>7. b \in [1..K -> BlockSet]
    <2>1. \A k \in 1..K : Block(m, L + k, "call") \in BlockSet
      BY <1>1, BlockTyped
    <2> QED BY <1>4, <2>1
  <1>8. c \in [1..(L + K) -> BlockSet]
    <2>1. \A j \in 1..(L + K) : Block(m, j, IF j > L THEN "call" ELSE Form(message.parts[j])) \in BlockSet
      <3>1. ASSUME NEW j \in 1..(L + K)
            PROVE  (IF j > L THEN "call" ELSE Form(message.parts[j])) \in Kinds \cup {"call"} /\ j \in Nat
        BY <1>1, <1>2
      <3> QED BY <3>1, BlockTyped
    <2> QED BY <1>5, <2>1
  <1>9. /\ a \in Seq(BlockSet) /\ Len(a) = L /\ b \in Seq(BlockSet) /\ Len(b) = K
        /\ c \in Seq(BlockSet) /\ Len(c) = L + K
    <2>1. L + K \in Nat
      BY <1>1
    <2> QED BY <1>1, <1>6, <1>7, <1>8, <2>1, SeqFrom
  <1>10. a \o b = c
    <2>1. /\ a \o b \in Seq(BlockSet) /\ Len(a \o b) = L + K
          /\ \A i \in 1..(L + K) : (a \o b)[i] = IF i <= L THEN a[i] ELSE b[i - L]
      <3>1. /\ a \o b \in Seq(BlockSet) /\ Len(a \o b) = Len(a) + Len(b)
            /\ \A i \in 1..(Len(a) + Len(b)) : (a \o b)[i] = IF i <= Len(a) THEN a[i] ELSE b[i - Len(a)]
        BY <1>9, ConcatProperties
      <3> QED BY <1>9, <3>1
    <2>2. ASSUME NEW i \in 1..(L + K) PROVE c[i] = IF i <= L THEN a[i] ELSE b[i - L]
      <3>1. CASE i <= L
        <4>1. i \in 1..L /\ ~(i > L)
          BY <1>1, <3>1
        <4>2. c[i] = Block(m, i, Form(message.parts[i])) /\ a[i] = Block(m, i, Form(message.parts[i]))
          BY <1>3, <1>5, <4>1
        <4> QED BY <3>1, <4>2
      <3>2. CASE ~(i <= L)
        <4>1. i - L \in 1..K /\ i > L /\ L + (i - L) = i
          BY <1>1, <3>2
        <4>2. c[i] = Block(m, i, "call") /\ b[i - L] = Block(m, L + (i - L), "call")
          BY <1>4, <1>5, <4>1
        <4> QED BY <3>2, <4>1, <4>2
      <3> QED BY <3>1, <3>2
    <2> QED BY <1>9, <2>1, <2>2, SeqEqual
  <1> QED BY <1>9, <1>10 DEF L, K, a, b, c

\* A message without calls is its content.
LEMMA NoCalls ==
    ASSUME NEW m \in Nat, NEW message \in ChatMessage, message.calls = 0
    PROVE  Content(m, message) = PartsOf(m, message)
  <1>1. Calls(m, message) = <<>>
    <2>1. Calls(m, message) \in Seq(BlockSet) /\ Len(Calls(m, message)) = 0
      BY PartsAre
    <2> QED BY <2>1, EmptySeq
  <1>2. Content(m, message) \o <<>> = Content(m, message)
    BY PartsAre, ConcatEmptySeq
  <1> QED BY <1>1, <1>2, PartsAre

\* The plain text of a message of nothing but text is all of it.
LEMMA PlainTextIs ==
    ASSUME NEW m \in Nat, NEW message \in ChatMessage,
           \A j \in DOMAIN message.parts : message.parts[j] = "text"
    PROVE  PlainText(m, message) = Content(m, message)
  <1> DEFINE c == Content(m, message)
  <1>1. c \in Seq(BlockSet) /\ Len(c) = Len(message.parts) /\ DOMAIN message.parts = 1..Len(message.parts)
    BY PartsAre, MessageFields
  <1>2. PlainText(m, message) = FlattenSeq([j \in 1..Len(c) |-> <<c[j]>>])
    <2>1. [j \in DOMAIN message.parts |->
              IF message.parts[j] = "text" THEN <<Content(m, message)[j]>> ELSE <<>>]
            = [j \in 1..Len(c) |-> <<c[j]>>]
      BY <1>1
    <2> QED BY <2>1 DEF PlainText
  <1> HIDE DEF c
  <1>3. FlattenSeq([j \in 1..Len(c) |-> <<c[j]>>]) = c
    BY <1>1, FlattenSingles
  <1> QED BY <1>2, <1>3 DEF c

\* Calls as turns of their own.
LEMMA CallTurns ==
    ASSUME NEW m \in Nat, NEW message \in ChatMessage, NEW on \in BOOLEAN, NEW q,
           q = [k \in 1..message.calls |-> Turn("call", <<Calls(m, message)[k]>>)]
    PROVE  /\ q \in Seq(TurnSet)
           /\ Blocks(q, on) = IF on THEN <<>> ELSE Calls(m, message)
  <1> DEFINE c == Calls(m, message)
  <1>1. c \in Seq(BlockSet) /\ Len(c) = message.calls /\ message.calls \in Nat
    BY PartsAre, MessageFields
  <1> HIDE DEF c
  <1>2. q \in Seq(TurnSet) /\ Len(q) = message.calls
    <2>1. ASSUME NEW k \in 1..message.calls PROVE Turn("call", <<c[k]>>) \in TurnSet
      <3>1. c[k] \in BlockSet
        BY <1>1
      <3>2. <<c[k]>> \in Seq(BlockSet)
        BY <3>1
      <3> QED BY <3>2 DEF Turn, TurnSet
    <2>2. q \in [1..message.calls -> TurnSet]
      BY <2>1 DEF c
    <2>3. \A n \in Nat : \A f \in [1..n -> TurnSet] : f \in Seq(TurnSet) /\ Len(f) = n
      BY SeqFrom
    <2> QED BY <1>1, <2>2, <2>3
  <1>3. \A k \in 1..message.calls : q[k].role = "call" /\ q[k].blocks = <<c[k]>>
    BY DEF Turn, c
  <1>4. /\ Kept(q, on) \in Lists(BlockSet) /\ Len(Kept(q, on)) = message.calls
        /\ \A k \in 1..message.calls : Kept(q, on)[k] = IF on THEN <<>> ELSE <<c[k]>>
    <2>1. /\ Kept(q, on) \in Lists(BlockSet) /\ Len(Kept(q, on)) = Len(q)
          /\ \A k \in 1..Len(q) : Kept(q, on)[k] = IF (q[k].role = "system") = on THEN q[k].blocks ELSE <<>>
      <3>1. \A r \in Seq(TurnSet) :
                /\ Kept(r, on) \in Lists(BlockSet) /\ Len(Kept(r, on)) = Len(r)
                /\ \A k \in 1..Len(r) :
                    Kept(r, on)[k] = IF (r[k].role = "system") = on THEN r[k].blocks ELSE <<>>
        BY KeptIs
      <3> QED BY <1>2, <3>1
    <2> QED BY <1>2, <1>3, <2>1
  <1>5. CASE on
    <2>1. FlattenSeq(Kept(q, on)) = <<>>
      BY <1>4, <1>5, FlattenEmpties
    <2> QED BY <1>2, <1>5, <2>1 DEF Blocks
  <1>6. CASE ~on
    <2>1. Kept(q, on) = [k \in 1..Len(c) |-> <<c[k]>>]
      <3>1. Kept(q, on) = [k \in 1..message.calls |-> Kept(q, on)[k]]
        <4>1. DOMAIN q = 1..message.calls
          BY <1>1, <1>2
        <4> QED BY <4>1 DEF Kept
      <3> QED BY <1>1, <1>4, <1>6, <3>1
    <2>2. FlattenSeq([k \in 1..Len(c) |-> <<c[k]>>]) = c
      BY <1>1, FlattenSingles
    <2> QED BY <1>2, <1>6, <2>1, <2>2 DEF Blocks, c
  <1> QED BY <1>5, <1>6

\* What the rest of the proof uses of turns, in one place.
LEMMA BlocksAre ==
    /\ \A on : Blocks(<<>>, on) = <<>>
    /\ \A on : \A turn \in TurnSet :
        Blocks(<<turn>>, on) = IF (turn.role = "system") = on THEN turn.blocks ELSE <<>>
    /\ \A on : \A p, q \in Seq(TurnSet) :
        p \o q \in Seq(TurnSet) /\ Blocks(p \o q, on) = Blocks(p, on) \o Blocks(q, on)
    /\ \A on : \A q \in Seq(TurnSet) : Blocks(q, on) \in Seq(BlockSet)
  BY BlocksNone, BlocksOne, BlocksJoin, BlocksTyped

LEMMA TurnIs ==
    ASSUME NEW role \in {"system", "user", "assistant", "tool", "output", "call"},
           NEW blocks \in Seq(BlockSet)
    PROVE  /\ Turn(role, blocks) \in TurnSet /\ <<Turn(role, blocks)>> \in Seq(TurnSet)
           /\ Turn(role, blocks).role = role /\ Turn(role, blocks).blocks = blocks
  <1>1. /\ Turn(role, blocks) \in TurnSet
        /\ Turn(role, blocks).role = role /\ Turn(role, blocks).blocks = blocks
    BY DEF Turn, TurnSet
  <1>2. \A x \in TurnSet : <<x>> \in Seq(TurnSet)
    OBVIOUS
  <1> QED BY <1>1, <1>2

\* One turn of a message.
LEMMA OneTurn ==
    ASSUME NEW role \in {"system", "user", "assistant", "tool", "output", "call"},
           NEW blocks \in Seq(BlockSet), NEW on
    PROVE  /\ <<Turn(role, blocks)>> \in Seq(TurnSet)
           /\ Blocks(<<Turn(role, blocks)>>, on) = IF (role = "system") = on THEN blocks ELSE <<>>
  BY TurnIs, BlocksAre

LEMMA ChatParts ==
    ASSUME NEW m \in Nat, NEW message \in ChatMessage, NEW on
    PROVE  /\ ChatTurns(m, message) \in Seq(TurnSet)
           /\ Blocks(ChatTurns(m, message), on) = OfMessage(m, message, on)
  <1>1. /\ message.role \in {"system", "user", "assistant", "tool"}
        /\ Content(m, message) \o Calls(m, message) = PartsOf(m, message)
        /\ PartsOf(m, message) \in Seq(BlockSet)
    BY MessageFields, PartsAre
  <1>2. message.role \in {"system", "user", "assistant", "tool", "output", "call"}
    BY <1>1
  <1>3. /\ <<Turn(message.role, PartsOf(m, message))>> \in Seq(TurnSet)
        /\ Blocks(<<Turn(message.role, PartsOf(m, message))>>, on)
                = IF (message.role = "system") = on THEN PartsOf(m, message) ELSE <<>>
    <2>1. \A r \in {"system", "user", "assistant", "tool", "output", "call"} : \A b \in Seq(BlockSet) :
          /\ <<Turn(r, b)>> \in Seq(TurnSet)
          /\ Blocks(<<Turn(r, b)>>, on) = IF (r = "system") = on THEN b ELSE <<>>
        BY OneTurn
    <2> QED BY <1>1, <1>2, <2>1
  <1>4. ChatTurns(m, message) = <<Turn(message.role, PartsOf(m, message))>>
    BY <1>1 DEF ChatTurns
  <1> QED BY <1>3, <1>4 DEF OfMessage

LEMMA ResponsesParts ==
    ASSUME NEW m \in Nat, NEW message \in ChatMessage, Sayable(message), NEW on \in BOOLEAN
    PROVE  /\ ResponsesTurns(m, message) \in Seq(TurnSet)
           /\ Blocks(ResponsesTurns(m, message), on) = OfMessage(m, message, on)
  <1> DEFINE ofCalls == [k \in 1..message.calls |-> Turn("call", <<Calls(m, message)[k]>>)]
             said0 == IF message.parts = <<>> THEN <<>> ELSE <<Turn("assistant", Content(m, message))>>
  <1>1. /\ message.role \in {"system", "user", "assistant", "tool"} /\ message.calls \in Nat
        /\ Content(m, message) \in Seq(BlockSet) /\ PartsOf(m, message) \in Seq(BlockSet)
        /\ Calls(m, message) \in Seq(BlockSet) /\ Len(Content(m, message)) = Len(message.parts)
    BY MessageFields, PartsAre
  <1>2. ResponsesTurns(m, message) =
            CASE message.role = "tool" -> <<Turn("output", PlainText(m, message))>>
              [] message.role = "assistant" /\ message.calls > 0 -> said0 \o ofCalls
              [] OTHER -> <<Turn(message.role, Content(m, message))>>
    BY DEF ResponsesTurns
  <1>3. ofCalls \in Seq(TurnSet) /\ Blocks(ofCalls, on) = IF on THEN <<>> ELSE Calls(m, message)
    BY CallTurns
  <1>4. said0 \in Seq(TurnSet) /\ Blocks(said0, on) = IF on THEN <<>> ELSE Content(m, message)
    <2>1. CASE message.parts = <<>>
      <3>1. Content(m, message) = <<>>
        <4>1. Len(Content(m, message)) = 0
          BY <1>1, <2>1
        <4> QED BY <1>1, <4>1, EmptySeq
      <3>2. <<>> \in Seq(TurnSet)
        OBVIOUS
      <3> QED BY <2>1, <3>1, <3>2, BlocksAre
    <2>2. CASE message.parts # <<>>
      <3>1. /\ <<Turn("assistant", Content(m, message))>> \in Seq(TurnSet)
            /\ Blocks(<<Turn("assistant", Content(m, message))>>, on)
                = IF ("assistant" = "system") = on THEN Content(m, message) ELSE <<>>
        BY <1>1, OneTurn
      <3> QED BY <2>2, <3>1
    <2> QED BY <2>1, <2>2
  <1> HIDE DEF ofCalls, said0
  <1>5. CASE message.role = "tool"
    <2>1. PlainText(m, message) = PartsOf(m, message)
      BY <1>5, NoCalls, PlainTextIs DEF Sayable
    <2>2. /\ <<Turn("output", PartsOf(m, message))>> \in Seq(TurnSet)
          /\ Blocks(<<Turn("output", PartsOf(m, message))>>, on)
                = IF ("output" = "system") = on THEN PartsOf(m, message) ELSE <<>>
      BY <1>1, OneTurn
    <2>3. ResponsesTurns(m, message) = <<Turn("output", PartsOf(m, message))>>
      BY <1>2, <1>5, <2>1
    <2> QED BY <1>5, <2>2, <2>3 DEF OfMessage
  <1>6. CASE message.role = "assistant" /\ message.calls > 0
    <2>1. ResponsesTurns(m, message) = said0 \o ofCalls
      BY <1>2, <1>6
    <2>2. said0 \o ofCalls \in Seq(TurnSet) /\ Blocks(said0 \o ofCalls, on) = Blocks(said0, on) \o Blocks(ofCalls, on)
      BY <1>3, <1>4, BlocksAre
    <2>3. Content(m, message) \o Calls(m, message) = PartsOf(m, message)
      BY PartsAre
    <2>4. <<>> \o <<>> = <<>>
      OBVIOUS
    <2> QED BY <1>3, <1>4, <1>6, <2>1, <2>2, <2>3, <2>4 DEF OfMessage
  <1>7. CASE message.role # "tool" /\ ~(message.role = "assistant" /\ message.calls > 0)
    <2>1. message.calls = 0
      BY <1>1, <1>7 DEF Sayable
    <2>2. Content(m, message) = PartsOf(m, message)
      BY <2>1, NoCalls
    <2>3. ResponsesTurns(m, message) = <<Turn(message.role, PartsOf(m, message))>>
      BY <1>2, <1>7, <2>2
    <2>4. /\ <<Turn(message.role, PartsOf(m, message))>> \in Seq(TurnSet)
          /\ Blocks(<<Turn(message.role, PartsOf(m, message))>>, on)
                = IF (message.role = "system") = on THEN PartsOf(m, message) ELSE <<>>
      <3>1. message.role \in {"system", "user", "assistant", "tool", "output", "call"}
        BY <1>1
      <3>2. \A r \in {"system", "user", "assistant", "tool", "output", "call"} : \A b \in Seq(BlockSet) :
            /\ <<Turn(r, b)>> \in Seq(TurnSet)
            /\ Blocks(<<Turn(r, b)>>, on) = IF (r = "system") = on THEN b ELSE <<>>
          BY OneTurn
      <3> QED BY <1>1, <3>1, <3>2
    <2> QED BY <2>3, <2>4 DEF OfMessage
  <1> QED BY <1>5, <1>6, <1>7

LEMMA BlocksRegrouped ==
    \A a, b, c \in Seq(BlockSet) : a \o (b \o c) = (a \o b) \o c
  BY ConcatAssociative

\* A turn that is merged into the last adds its blocks behind.
LEMMA MergeIs ==
    ASSUME NEW q \in Seq(TurnSet), NEW turn \in TurnSet, NEW on
    PROVE  /\ Merge(q, turn) \in Seq(TurnSet)
           /\ Blocks(Merge(q, turn), on) = Blocks(q, on) \o Blocks(<<turn>>, on)
  <1>0. <<turn>> \in Seq(TurnSet)
    OBVIOUS
  <1>1. CASE q # <<>> /\ Last(q).role = turn.role
    <2>1. PICK s \in Seq(TurnSet), e \in TurnSet : q = Append(s, e)
      BY <1>1, SequenceEmptyOrAppend
    <2> DEFINE n == Len(s) + 1
               d == [e EXCEPT !.blocks = @ \o turn.blocks]
    <2>2. /\ Len(q) = n /\ n \in Nat /\ q[n] = e /\ n \in DOMAIN q /\ DOMAIN q = 1..n
          /\ \A i \in 1..Len(s) : q[i] = s[i]
      BY <2>1
    <2>3. d \in TurnSet /\ d.role = e.role /\ d.blocks = e.blocks \o turn.blocks
          /\ e.blocks \in Seq(BlockSet) /\ turn.blocks \in Seq(BlockSet)
      <3>1. e.blocks \in Seq(BlockSet) /\ turn.blocks \in Seq(BlockSet)
        BY DEF TurnSet
      <3>2. PICK joined : joined = e.blocks \o turn.blocks
        OBVIOUS
      <3>3. joined \in Seq(BlockSet)
        BY <3>1, <3>2, ConcatProperties
      <3>4. d = [e EXCEPT !.blocks = joined]
        BY <3>2
      <3>5. d \in TurnSet /\ d.role = e.role /\ d.blocks = joined
        BY <3>3, <3>4 DEF TurnSet
      <3> QED BY <3>1, <3>2, <3>5
    <2>4. e.role = turn.role
      BY <1>1, <2>2 DEF Last
    <2>5. Merge(q, turn) = [q EXCEPT ![n] = d]
      <3>1. Merge(q, turn) = [q EXCEPT ![Len(q)].blocks = @ \o turn.blocks]
        BY <1>1 DEF Merge
      <3> QED BY <2>2, <3>1
    <2> HIDE DEF d
    <2>6. [q EXCEPT ![n] = d] = Append(s, d)
      <3>1. /\ [q EXCEPT ![n] = d] \in Seq(TurnSet) /\ Len([q EXCEPT ![n] = d]) = n
            /\ \A i \in 1..n : [q EXCEPT ![n] = d][i] = IF i = n THEN d ELSE q[i]
        <4>1. n \in 1..Len(q)
          BY <2>2
        <4> HIDE DEF n
        <4> QED BY <2>2, <2>3, <4>1, ExceptSeq
      <3>2. /\ Append(s, d) \in Seq(TurnSet) /\ Len(Append(s, d)) = n
            /\ \A i \in 1..n : Append(s, d)[i] = IF i = n THEN d ELSE s[i]
        BY <2>3
      <3>3. \A i \in 1..n : i # n => i \in 1..Len(s)
        BY <2>2
      <3> HIDE DEF n
      <3>4. \A i \in 1..n : [q EXCEPT ![n] = d][i] = Append(s, d)[i]
        BY <2>2, <3>1, <3>2, <3>3
      <3> QED BY <3>1, <3>2, <3>4, SeqEqual
    <2>7. Append(s, d) = s \o <<d>> /\ q = s \o <<e>> /\ <<d>> \in Seq(TurnSet) /\ <<e>> \in Seq(TurnSet)
      BY <2>1, <2>3, AppendIsConcat
    <2>8. /\ Blocks(s \o <<d>>, on) = Blocks(s, on) \o Blocks(<<d>>, on) /\ s \o <<d>> \in Seq(TurnSet)
          /\ Blocks(q, on) = Blocks(s, on) \o Blocks(<<e>>, on)
          /\ Blocks(s, on) \in Seq(BlockSet)
      BY <2>7, BlocksAre
    <2>9. /\ Blocks(<<d>>, on) = Blocks(<<e>>, on) \o Blocks(<<turn>>, on)
          /\ Blocks(<<e>>, on) \in Seq(BlockSet) /\ Blocks(<<turn>>, on) \in Seq(BlockSet)
      <3>1. <<>> \o <<>> = <<>>
        OBVIOUS
      <3>2. /\ Blocks(<<d>>, on) = IF (d.role = "system") = on THEN d.blocks ELSE <<>>
            /\ Blocks(<<e>>, on) = IF (e.role = "system") = on THEN e.blocks ELSE <<>>
            /\ Blocks(<<turn>>, on) = IF (turn.role = "system") = on THEN turn.blocks ELSE <<>>
        BY <2>3, BlocksAre
      <3>3. Blocks(<<e>>, on) \in Seq(BlockSet) /\ Blocks(<<turn>>, on) \in Seq(BlockSet)
        BY <1>0, <2>7, BlocksAre
      <3> QED BY <2>3, <2>4, <3>1, <3>2, <3>3
    <2>10. Blocks(s, on) \o (Blocks(<<e>>, on) \o Blocks(<<turn>>, on))
            = (Blocks(s, on) \o Blocks(<<e>>, on)) \o Blocks(<<turn>>, on)
      BY <2>8, <2>9, BlocksRegrouped
    <2> QED BY <2>5, <2>6, <2>7, <2>8, <2>9, <2>10
  <1>2. CASE ~(q # <<>> /\ Last(q).role = turn.role)
    <2>1. Merge(q, turn) = q \o <<turn>>
      BY <1>2, AppendIsConcat DEF Merge
    <2>2. q \o <<turn>> \in Seq(TurnSet) /\ Blocks(q \o <<turn>>, on) = Blocks(q, on) \o Blocks(<<turn>>, on)
      BY <1>0, BlocksAre
    <2> QED BY <2>1, <2>2
  <1> QED BY <1>1, <1>2

LEMMA AnthropicParts ==
    ASSUME NEW q \in Seq(TurnSet), NEW m \in Nat, NEW message \in ChatMessage, Sayable(message),
           NEW on \in BOOLEAN
    PROVE  /\ AppendTurn(q, m, message) \in Seq(TurnSet)
           /\ Blocks(AppendTurn(q, m, message), on)
                = Blocks(q, on) \o (IF on THEN <<>> ELSE OfMessage(m, message, on))
  <1> DEFINE role == IF message.role = "assistant" THEN "assistant" ELSE "user"
             blocks == Content(m, message) \o (IF role = "assistant" THEN Calls(m, message) ELSE <<>>)
             turn == Turn(role, blocks)
  <1>1. /\ message.role \in {"system", "user", "assistant", "tool"}
        /\ Content(m, message) \in Seq(BlockSet) /\ PartsOf(m, message) \in Seq(BlockSet)
        /\ Content(m, message) \o Calls(m, message) = PartsOf(m, message)
        /\ Blocks(q, on) \in Seq(BlockSet)
    BY MessageFields, PartsAre, BlocksTyped
  <1>2. Blocks(q, on) \o <<>> = Blocks(q, on)
    BY <1>1, ConcatEmptySeq
  <1>3. blocks = PartsOf(m, message)
    <2>1. CASE message.role = "assistant"
      BY <1>1, <2>1
    <2>2. CASE message.role # "assistant"
      <3>1. Content(m, message) = PartsOf(m, message)
        BY <2>2, NoCalls DEF Sayable
      <3>2. Content(m, message) \o <<>> = Content(m, message)
        BY <1>1, ConcatEmptySeq
      <3> QED BY <2>2, <3>1, <3>2
    <2> QED BY <2>1, <2>2
  <1>4. AppendTurn(q, m, message) =
            CASE message.role = "system" -> q
              [] message.role = "tool" -> Append(q, Turn("user", PlainText(m, message)))
              [] message.role # "tool" /\ blocks = <<>> -> q
              [] OTHER -> Merge(q, turn)
    BY DEF AppendTurn
  <1>5. role \in {"user", "assistant"}
    OBVIOUS
  <1> HIDE DEF role, blocks
  <1>6. CASE message.role = "system"
    <2>1. AppendTurn(q, m, message) = q
      BY <1>4, <1>6
    <2> QED BY <1>2, <1>6, <2>1 DEF OfMessage
  <1>7. CASE message.role = "tool"
    <2>1. PlainText(m, message) = PartsOf(m, message)
      BY <1>7, NoCalls, PlainTextIs DEF Sayable
    <2> DEFINE t == Turn("user", PartsOf(m, message))
    <2>2. t \in TurnSet /\ <<t>> \in Seq(TurnSet) /\ Blocks(<<t>>, on) = IF on THEN <<>> ELSE PartsOf(m, message)
      BY <1>1, TurnIs, OneTurn
    <2>3. AppendTurn(q, m, message) = Append(q, t)
      BY <1>4, <1>7, <2>1
    <2> HIDE DEF t
    <2>4. AppendTurn(q, m, message) = q \o <<t>>
      BY <2>2, <2>3, AppendIsConcat
    <2>5. q \o <<t>> \in Seq(TurnSet) /\ Blocks(q \o <<t>>, on) = Blocks(q, on) \o Blocks(<<t>>, on)
      BY <2>2, BlocksAre
    <2> QED BY <1>7, <2>2, <2>4, <2>5 DEF OfMessage
  <1>8. CASE message.role \notin {"system", "tool"} /\ blocks = <<>>
    <2>1. AppendTurn(q, m, message) = q
      BY <1>4, <1>8
    <2>2. OfMessage(m, message, on) = <<>>
      BY <1>3, <1>8 DEF OfMessage
    <2> QED BY <1>2, <2>1, <2>2
  <1>9. CASE message.role \notin {"system", "tool"} /\ blocks # <<>>
    <2>1. AppendTurn(q, m, message) = Merge(q, turn)
      BY <1>4, <1>9
    <2>2. turn \in TurnSet /\ Blocks(<<turn>>, on) = IF on THEN <<>> ELSE PartsOf(m, message)
      <3>1. blocks \in Seq(BlockSet)
        BY <1>1, <1>3
      <3>2. Blocks(<<turn>>, on) = IF (role = "system") = on THEN blocks ELSE <<>>
        BY <1>5, <3>1, OneTurn
      <3>3. turn \in TurnSet
        BY <1>5, <3>1, TurnIs
      <3> QED BY <1>3, <1>5, <3>2, <3>3
    <2> HIDE DEF turn
    <2>3. /\ Merge(q, turn) \in Seq(TurnSet)
          /\ Blocks(Merge(q, turn), on) = Blocks(q, on) \o Blocks(<<turn>>, on)
      BY <2>2, MergeIs
    <2> QED BY <1>9, <2>1, <2>2, <2>3 DEF OfMessage
  <1> QED BY <1>6, <1>7, <1>8, <1>9

\* The turns as message after message is added.
Encodes(h, messages, N) ==
    h = [m \in 0..N |-> IF m = 0 THEN <<>> ELSE AppendTurn(h[m - 1], m, messages[m])]

LEMMA Encoding ==
    ASSUME NEW messages, NEW N \in Nat
    PROVE  \E h : Encodes(h, messages, N)
  <1> DEFINE Good == {n \in 0..N : \E h : Encodes(h, messages, n)}
  <1>1. 0 \in Good
    <2> DEFINE h == [i \in 0..0 |-> <<>>]
    <2>1. h = [i \in 0..0 |-> IF i = 0 THEN <<>> ELSE AppendTurn(h[i - 1], i, messages[i])]
      OBVIOUS
    <2>2. Encodes(h, messages, 0)
      <3> HIDE DEF h
      <3> QED BY <2>1 DEF Encodes
    <2> QED BY <2>2
  <1>2. ASSUME NEW n \in 1..N, n - 1 \in Good PROVE n \in Good
    <2>1. PICK h : Encodes(h, messages, n - 1)
      BY <1>2
    <2> DEFINE q == [i \in 0..n |-> IF i = n THEN AppendTurn(h[n - 1], n, messages[n]) ELSE h[i]]
    <2>2. h[0] = <<>> /\ \A i \in 1..(n - 1) : h[i] = AppendTurn(h[i - 1], i, messages[i])
      <3>1. 0 \in 0..(n - 1) /\ \A i \in 1..(n - 1) : i \in 0..(n - 1) /\ i # 0
        OBVIOUS
      <3> QED BY <2>1, <3>1 DEF Encodes
    <2>3. /\ q[0] = <<>> /\ q[n] = AppendTurn(q[n - 1], n, messages[n])
          /\ \A i \in 1..(n - 1) : q[i] = AppendTurn(q[i - 1], i, messages[i])
      BY <2>2
    <2>4. \A i \in 0..n : q[i] = IF i = 0 THEN <<>> ELSE AppendTurn(q[i - 1], i, messages[i])
      <3> HIDE DEF q
      <3>1. ASSUME NEW i \in 0..n PROVE i = 0 \/ i = n \/ i \in 1..(n - 1)
        OBVIOUS
      <3>2. n # 0 /\ \A i \in 1..(n - 1) : i # 0
        OBVIOUS
      <3> QED BY <2>3, <3>1, <3>2
    <2>5. q = [i \in 0..n |-> q[i]]
      OBVIOUS
    <2> HIDE DEF q
    <2>6. Encodes(q, messages, n)
      BY <2>4, <2>5 DEF Encodes
    <2> QED BY <2>6
  <1>3. 0..N \subseteq Good
    <2> HIDE DEF Good
    <2> QED BY <1>1, <1>2, Climb
  <1> QED BY <1>3

\* A transcript that can be said.
Said(messages) ==
    /\ messages \in Seq(ChatMessage) /\ \A m \in DOMAIN messages : Sayable(messages[m])
\* What its messages say, of the system or not.
Words(messages, on) == [m \in DOMAIN messages |-> OfMessage(m, messages[m], on)]

LEMMA SaidIs ==
    ASSUME NEW messages, Said(messages)
    PROVE  /\ Len(messages) \in Nat /\ DOMAIN messages = 1..Len(messages)
           /\ \A m \in 1..Len(messages) :
                m \in Nat /\ messages[m] \in ChatMessage /\ Sayable(messages[m])
  <1>1. /\ Len(messages) \in Nat /\ DOMAIN messages = 1..Len(messages)
        /\ \A m \in 1..Len(messages) : messages[m] \in ChatMessage
    BY LenProperties, ElementOfSeq DEF Said
  <1> QED BY <1>1 DEF Said

LEMMA ListFrom ==
    ASSUME NEW S, NEW N \in Nat, NEW f \in [1..N -> Seq(S)]
    PROVE  f \in Lists(S) /\ Len(f) = N
  <1> DEFINE T == Seq(S)
  <1>1. f \in [1..N -> T]
    OBVIOUS
  <1> HIDE DEF T
  <1>2. f \in Seq(T) /\ Len(f) = N
    BY <1>1, SeqFrom
  <1> QED BY <1>2 DEF Lists, T

LEMMA WordsAre ==
    ASSUME NEW messages, Said(messages), NEW on
    PROVE  /\ Words(messages, on) \in Lists(BlockSet) /\ Len(Words(messages, on)) = Len(messages)
           /\ \A m \in 1..Len(messages) : Words(messages, on)[m] = OfMessage(m, messages[m], on)
  <1> DEFINE w == Words(messages, on)
  <1>1. \A m \in 1..Len(messages) : OfMessage(m, messages[m], on) \in Seq(BlockSet)
    <2>1. ASSUME NEW m \in 1..Len(messages) PROVE OfMessage(m, messages[m], on) \in Seq(BlockSet)
      <3>1. PartsOf(m, messages[m]) \in Seq(BlockSet)
        BY SaidIs, PartsAre
      <3> QED BY <3>1 DEF OfMessage
    <2> QED BY <2>1
  <1>2. /\ w \in [1..Len(messages) -> Seq(BlockSet)]
        /\ \A m \in 1..Len(messages) : w[m] = OfMessage(m, messages[m], on)
    BY <1>1, SaidIs DEF Words
  <1> HIDE DEF w
  <1>3. w \in Lists(BlockSet) /\ Len(w) = Len(messages)
    BY <1>2, SaidIs, ListFrom
  <1> QED BY <1>2, <1>3 DEF w

LEMMA ChatKeepsAll ==
    ASSUME NEW messages, Said(messages), NEW on \in BOOLEAN
    PROVE  Blocks(Encode("chat", messages), on) = FlattenSeq(Words(messages, on))
  <1> DEFINE s == [m \in DOMAIN messages |-> ChatTurns(m, messages[m])]
  <1>1. /\ s \in [1..Len(messages) -> Seq(TurnSet)]
        /\ \A m \in 1..Len(messages) : s[m] = ChatTurns(m, messages[m])
    BY SaidIs, ChatParts
  <1>2. Encode("chat", messages) = FlattenSeq(s)
    BY DEF Encode
  <1> HIDE DEF s
  <1>3. s \in Lists(TurnSet) /\ Len(s) = Len(messages)
    BY <1>1, SaidIs, ListFrom
  <1>4. \A m \in 1..Len(messages) : Blocks(s[m], on) = Words(messages, on)[m]
    <2>1. ASSUME NEW m \in 1..Len(messages) PROVE Blocks(s[m], on) = OfMessage(m, messages[m], on)
      BY <1>1, SaidIs, ChatParts
    <2> QED BY <2>1, WordsAre
  <1> QED BY <1>2, <1>3, <1>4, WordsAre, FlattenBlocks

LEMMA ResponsesKeepsAll ==
    ASSUME NEW messages, Said(messages), NEW on \in BOOLEAN
    PROVE  Blocks(Encode("responses", messages), on) = FlattenSeq(Words(messages, on))
  <1> DEFINE s == [m \in DOMAIN messages |-> ResponsesTurns(m, messages[m])]
  <1>1. /\ s \in [1..Len(messages) -> Seq(TurnSet)]
        /\ \A m \in 1..Len(messages) : s[m] = ResponsesTurns(m, messages[m])
    BY SaidIs, ResponsesParts
  <1>2. Encode("responses", messages) = FlattenSeq(s)
    BY DEF Encode
  <1> HIDE DEF s
  <1>3. s \in Lists(TurnSet) /\ Len(s) = Len(messages)
    BY <1>1, SaidIs, ListFrom
  <1>4. \A m \in 1..Len(messages) : Blocks(s[m], on) = Words(messages, on)[m]
    <2>1. ASSUME NEW m \in 1..Len(messages) PROVE Blocks(s[m], on) = OfMessage(m, messages[m], on)
      BY <1>1, SaidIs, ResponsesParts
    <2> QED BY <2>1, WordsAre
  <1> QED BY <1>2, <1>3, <1>4, WordsAre, FlattenBlocks

\* The turns hold what everybody but the system says.
LEMMA TurnsKeepAll ==
    ASSUME NEW messages, Said(messages), NEW on \in BOOLEAN, NEW h,
           Encodes(h, messages, Len(messages))
    PROVE  /\ h[Len(messages)] \in Seq(TurnSet)
           /\ Blocks(h[Len(messages)], on) = IF on THEN <<>> ELSE FlattenSeq(Words(messages, on))
  <1> DEFINE N == Len(messages)
  <1>0. N \in Nat /\ \A m \in 1..N : m \in Nat /\ messages[m] \in ChatMessage /\ Sayable(messages[m])
    BY SaidIs
  <1>1. h[0] = <<>> /\ \A m \in 1..N : h[m] = AppendTurn(h[m - 1], m, messages[m])
    <2>1. 0 \in 0..N /\ \A i \in 1..N : i \in 0..N /\ i # 0
      BY <1>0
    <2> QED BY <2>1 DEF Encodes
  <1>2. PICK g : /\ g[0] = <<>> /\ FlattenSeq(Words(messages, on)) = g[N]
                 /\ \A i \in 1..N : g[i] = g[i - 1] \o OfMessage(i, messages[i], on)
    <2>1. PICK g : /\ g[0] = <<>> /\ FlattenSeq(Words(messages, on)) = g[Len(Words(messages, on))]
                   /\ \A i \in 1..Len(Words(messages, on)) : g[i] = g[i - 1] \o Words(messages, on)[i]
                   /\ \A i \in 0..Len(Words(messages, on)) : g[i] \in Seq(BlockSet)
      BY WordsAre, FlattenIs
    <2>2. /\ Len(Words(messages, on)) = N
          /\ \A m \in 1..N : Words(messages, on)[m] = OfMessage(m, messages[m], on)
      BY WordsAre
    <2>3. /\ g[0] = <<>> /\ FlattenSeq(Words(messages, on)) = g[N]
          /\ \A i \in 1..N : g[i] = g[i - 1] \o OfMessage(i, messages[i], on)
      <3> HIDE DEF N
      <3> QED BY <2>1, <2>2
    <2> QED BY <2>3
  <1> HIDE DEF N
  <1> DEFINE Good == {i \in 0..N : h[i] \in Seq(TurnSet) /\ Blocks(h[i], on) = IF on THEN <<>> ELSE g[i]}
  <1>3. 0 \in Good
    <2>1. <<>> \in Seq(TurnSet) /\ 0 \in 0..N
      BY <1>0
    <2>2. Blocks(<<>>, on) = <<>>
      BY BlocksNone
    <2> QED BY <1>1, <1>2, <2>1, <2>2
  <1>4. ASSUME NEW i \in 1..N, i - 1 \in Good PROVE i \in Good
    <2>1. h[i - 1] \in Seq(TurnSet) /\ Blocks(h[i - 1], on) = IF on THEN <<>> ELSE g[i - 1]
      BY <1>4
    <2>2. h[i] = AppendTurn(h[i - 1], i, messages[i]) /\ g[i] = g[i - 1] \o OfMessage(i, messages[i], on)
      BY <1>1, <1>2
    <2>3. /\ AppendTurn(h[i - 1], i, messages[i]) \in Seq(TurnSet)
          /\ Blocks(AppendTurn(h[i - 1], i, messages[i]), on)
                = Blocks(h[i - 1], on) \o (IF on THEN <<>> ELSE OfMessage(i, messages[i], on))
      BY <1>0, <2>1, AnthropicParts
    <2>4. <<>> \o <<>> = <<>> /\ i \in 0..N
      BY <1>0
    <2> QED BY <2>1, <2>2, <2>3, <2>4
  <1> HIDE DEF Good
  <1>5. N \in Good
    <2>1. 0..N \subseteq Good
      BY <1>0, <1>3, <1>4, Climb
    <2> QED BY <1>0, <2>1
  <1>6. h[N] \in Seq(TurnSet) /\ Blocks(h[N], on) = IF on THEN <<>> ELSE g[N]
    BY <1>5 DEF Good
  <1> QED BY <1>2, <1>6 DEF N

LEMMA AnthropicKeepsAll ==
    ASSUME NEW messages, Said(messages), NEW on \in BOOLEAN
    PROVE  Blocks(Encode("anthropic", messages), on) = FlattenSeq(Words(messages, on))
  <1> DEFINE system == FlattenSeq([m \in DOMAIN messages |->
                    IF messages[m].role = "system" THEN PlainText(m, messages[m]) ELSE <<>>])
             h == CHOOSE h : Encodes(h, messages, Len(messages))
             field == IF system = <<>> THEN <<>> ELSE <<Turn("system", system)>>
             turns == h[Len(messages)]
  <1>1. Encode("anthropic", messages) = field \o turns
    BY DEF Encode, AnthropicBody, Encodes
  <1>2. system = FlattenSeq(Words(messages, TRUE))
    <2>1. ASSUME NEW m \in DOMAIN messages
          PROVE  (IF messages[m].role = "system" THEN PlainText(m, messages[m]) ELSE <<>>)
                    = OfMessage(m, messages[m], TRUE)
      <3>1. m \in Nat /\ messages[m] \in ChatMessage /\ Sayable(messages[m])
        BY SaidIs
      <3>2. messages[m].role = "system" => PlainText(m, messages[m]) = PartsOf(m, messages[m])
        BY <3>1, NoCalls, PlainTextIs DEF Sayable
      <3> QED BY <3>2 DEF OfMessage
    <2>2. [m \in DOMAIN messages |->
                    IF messages[m].role = "system" THEN PlainText(m, messages[m]) ELSE <<>>]
            = Words(messages, TRUE)
      BY <2>1 DEF Words
    <2> QED BY <2>2
  <1>3. Encodes(h, messages, Len(messages))
    BY SaidIs, Encoding
  <1> HIDE DEF system, h
  <1>4. turns \in Seq(TurnSet) /\ Blocks(turns, on) = IF on THEN <<>> ELSE FlattenSeq(Words(messages, on))
    BY <1>3, TurnsKeepAll
  <1>5. system \in Seq(BlockSet)
    BY <1>2, WordsAre, FlattenTyped
  <1>6. field \in Seq(TurnSet) /\ Blocks(field, on) = IF on THEN system ELSE <<>>
    <2>1. CASE system = <<>>
      <3>1. <<>> \in Seq(TurnSet)
        OBVIOUS
      <3> QED BY <2>1, <3>1, BlocksNone
    <2>2. CASE system # <<>>
      <3>1. /\ <<Turn("system", system)>> \in Seq(TurnSet)
            /\ Blocks(<<Turn("system", system)>>, on) = IF ("system" = "system") = on THEN system ELSE <<>>
        BY <1>5, OneTurn
      <3> QED BY <2>2, <3>1
    <2> QED BY <2>1, <2>2
  <1> HIDE DEF field, turns
  <1>7. Blocks(field \o turns, on) = Blocks(field, on) \o Blocks(turns, on)
    BY <1>4, <1>6, BlocksJoin
  <1>8. /\ system \o <<>> = system
        /\ <<>> \o FlattenSeq(Words(messages, on)) = FlattenSeq(Words(messages, on))
    <2>1. FlattenSeq(Words(messages, on)) \in Seq(BlockSet)
      BY WordsAre, FlattenTyped
    <2> QED BY <1>5, <2>1, ConcatEmptySeq
  <1>9. CASE on
    <2>1. on = TRUE
      BY <1>9
    <2> QED BY <1>1, <1>2, <1>4, <1>6, <1>7, <1>8, <1>9, <2>1
  <1>10. CASE ~on
    BY <1>1, <1>4, <1>6, <1>7, <1>8, <1>10
  <1> QED BY <1>9, <1>10

-------------------------------------------------------------------------------
\* The inductive invariant: the body is what the adapter made of the transcript.
BodyInv ==
    /\ protocol \in Protocols /\ Said(request)
    /\ body # <<>> => body = Encode(protocol, request)

LEMMA BodyIsAll == BodyInv => NothingIsDropped
  <1>1. SUFFICES ASSUME BodyInv, body # <<>>
                 PROVE  Sent(IsSystem) = Meant(IsSystem) /\ Sent(IsTurn) = Meant(IsTurn)
    BY DEF NothingIsDropped
  <1>2. Said(request) /\ protocol \in {"chat", "responses", "anthropic"}
    BY <1>1, ModelStreamAssumption DEF BodyInv
  <1>3. ASSUME NEW on \in BOOLEAN PROVE Blocks(body, on) = FlattenSeq(Words(request, on))
    BY <1>1, <1>2, ChatKeepsAll, ResponsesKeepsAll, AnthropicKeepsAll DEF BodyInv
  <1>4. Sent(IsSystem) = Blocks(body, TRUE) /\ Meant(IsSystem) = FlattenSeq(Words(request, TRUE))
    <2>1. [t \in DOMAIN body |-> IF body[t].role = "system" THEN body[t].blocks ELSE <<>>] = Kept(body, TRUE)
      BY DEF Kept
    <2>2. [m \in DOMAIN request |-> IF request[m].role = "system" THEN PartsOf(m, request[m]) ELSE <<>>]
            = Words(request, TRUE)
      BY DEF Words, OfMessage
    <2> QED BY <2>1, <2>2 DEF Sent, Meant, IsSystem, Blocks
  <1>5. Sent(IsTurn) = Blocks(body, FALSE) /\ Meant(IsTurn) = FlattenSeq(Words(request, FALSE))
    <2>1. [t \in DOMAIN body |-> IF body[t].role # "system" THEN body[t].blocks ELSE <<>>] = Kept(body, FALSE)
      BY DEF Kept
    <2>2. [m \in DOMAIN request |-> IF request[m].role # "system" THEN PartsOf(m, request[m]) ELSE <<>>]
            = Words(request, FALSE)
      BY DEF Words, OfMessage
    <2> QED BY <2>1, <2>2 DEF Sent, Meant, IsTurn, Blocks
  <1> QED BY <1>3, <1>4, <1>5

LEMMA BodyInitial == StreamInit => BodyInv
  BY RequestsAssumption DEF StreamInit, BodyInv, Said

\* Only asking and the start of the response touch what is sent.
LEMMA BodyStep == BodyInv /\ [StreamNext]_streamVars => BodyInv'
  <1>1. SUFFICES ASSUME BodyInv, [StreamNext]_streamVars PROVE BodyInv'
    OBVIOUS
  <1>2. ASSUME protocol' = protocol, request' = request
        PROVE  Said(request)' /\ Encode(protocol, request)' = Encode(protocol, request)
    BY <1>1, <1>2 DEF BodyInv, Said, Encode, AnthropicBody
  <1>3. ASSUME UNCHANGED <<protocol, request, body>> PROVE BodyInv'
    BY <1>1, <1>2, <1>3 DEF BodyInv
  <1>4. CASE Ask
    <2>1. protocol' = protocol /\ request' = request
      BY <1>4 DEF Ask, call
    <2>2. body' = body \/ body' = Encode(protocol, request)
      BY <1>4 DEF Ask
    <2> QED BY <1>1, <1>2, <2>1, <2>2 DEF BodyInv
  <1>5. CASE Respond
    <2>1. protocol' = protocol /\ request' = <<>> /\ body' = <<>>
      BY <1>5 DEF Respond, call
    <2>2. Said(<<>>)
      BY DEF Said
    <2>3. Said(request)'
      BY <2>1, <2>2 DEF Said
    <2> QED BY <1>1, <2>1, <2>3 DEF BodyInv
  <1>6. ASSUME UNCHANGED <<protocol, outgoing>> PROVE BodyInv'
    BY <1>3, <1>6 DEF outgoing
  <1>7. CASE Break
    BY <1>6, <1>7 DEF Break, call
  <1>8. CASE Speak
    <2>1. ASSUME NEW e, Emit(e) PROVE BodyInv'
      BY <1>6, <2>1 DEF Emit, call
    <2> QED BY <1>6, <1>8, <2>1 DEF Speak, Open, SayText, SayThought, OpenCall, SayArgs, CloseCall, Close,
                                Finish, ReportError, Cut, call
  <1>9. CASE Read
    BY <1>6, <1>9 DEF Read, Chunk, EndOfStream, ReadWhole, call
  <1>10. CASE UNCHANGED streamVars
    BY <1>6, <1>10 DEF streamVars, call
  <1> QED BY <1>1, <1>4, <1>5, <1>7, <1>8, <1>9, <1>10 DEF StreamNext

\* What an adapter sends, in any of the protocols, is all of the transcript and nothing
\* else: a message that is merged into a turn before it, or moved to the system's field,
\* loses no part and no call.
THEOREM NothingIsLost == StreamSpec => []NothingIsDropped
  <1>1. BodyInv /\ [StreamNext]_streamVars => BodyInv'
    BY BodyStep
  <1> QED BY BodyInitial, <1>1, BodyIsAll, PTL DEF StreamSpec
===============================================================================
