---------------------------- MODULE MCControlFlow ----------------------------
(* Five small workflows; one run of TLC executes them all.  The nodes that a    *)
(* workflow does not have are disabled nodes without edges.                      *)
EXTENDS ControlFlow, TLC

Ctl(f, p, t, i) == [from |-> f, port |-> p, to |-> t, into |-> i,
                    kind |-> "control", required |-> FALSE]
Dat(f, p, t, i, r) == [from |-> f, port |-> p, to |-> t, into |-> i,
                       kind |-> "data", required |-> r]

Plain(edges, enabled, gates, composites, Emits(_)) ==
    [edges |-> edges, enabled |-> enabled, gates |-> gates, composites |-> composites,
     emits |-> [n \in Nodes |-> Emits(n)],
     nested |-> FALSE, seededData |-> {}, seededControl |-> {}]

(* The counter loop of the tests: 1 seed, 2 gate, 3 counter, 4 condition, 5 log; *)
(* the counter may be a composite.                                               *)
Counter(n) ==
    CASE n = 1 -> {{"number"}} [] n = 3 -> {{"number", "done"}}
      [] n = 4 -> {{"true"}, {"false"}} [] OTHER -> {{}}
CounterLoop(composites) == Plain(
    <<Ctl(1, "number", 2, "start"), Ctl(2, "continue", 3, "value"),
      Dat(3, "number", 4, "payload", FALSE), Dat(3, "done", 4, "condition", TRUE),
      Ctl(4, "false", 2, "next"), Ctl(4, "true", 2, "stop"), Ctl(2, "exit", 5, "value")>>,
    1..5, {2}, composites, Counter)

(* A loop used against its gate, yet accepted by the validation: the body goes  *)
(* back to 6, which starts the gate again, and a second path of the body, 7 and  *)
(* 8, sends next when the loop may be over, or a control token to a data port.   *)
Misused(n) ==
    CASE n = 1 -> {{"number"}} [] n = 3 -> {{"done"}, {"done", "number"}}
      [] n = 4 -> {{"true"}, {"false"}} [] n \in {6, 7} -> {{"out"}} [] n = 8 -> {{"out"}, {"late"}} [] OTHER -> {{}}
MisusedLoop == Plain(
    <<Ctl(1, "number", 6, "first"), Ctl(6, "out", 2, "start"),
      Ctl(2, "continue", 3, "value"), Dat(3, "done", 4, "condition", TRUE),
      Ctl(4, "true", 2, "stop"), Ctl(4, "false", 6, "again"),
      Ctl(3, "number", 7, "value"), Ctl(7, "out", 8, "value"), Ctl(8, "out", 2, "next"),
      Ctl(8, "late", 2, "value"), Ctl(2, "exit", 5, "value")>>,
    1..8, {2}, {}, Misused)

(* A branch whose arms meet: 1 value, 2 condition, 3 yes, 4 no, 5 join of the   *)
(* arms, 6 tool that needs the data of 3 and 8 and is triggered by 1, 7         *)
(* disabled, 8 another source.                                                  *)
Branches(n) ==
    CASE n = 1 -> {{"boolean"}} [] n = 2 -> {{"true"}, {"false"}} [] n = 8 -> {{"out"}}
      [] n \in {3, 4} -> {{"out"}, {}} [] OTHER -> {{}}
Branch == Plain(
    <<Dat(1, "boolean", 2, "condition", TRUE), Ctl(2, "true", 3, "value"),
      Ctl(2, "false", 4, "value"), Dat(3, "out", 5, "left", FALSE),
      Dat(4, "out", 5, "right", FALSE), Ctl(1, "boolean", 6, "run"),
      Dat(3, "out", 6, "data", TRUE), Dat(7, "out", 5, "extra", FALSE),
      Dat(8, "out", 6, "more", TRUE)>>,
    (1..8) \ {7}, {}, {3}, Branches)

(* A scope inside a composite: 1 is fed from outside and is a composite itself,  *)
(* 2 is triggered from outside, 3 needs both, 4 is a gate started from outside    *)
(* whose body is 5, and 6 comes after the loop.                                   *)
Scoped(n) == CASE n \in {1, 2} -> {{"out"}} [] n = 5 -> {{"again"}, {"done"}} [] OTHER -> {{}}
Scope ==
    [Plain(<<Dat(1, "out", 3, "left", TRUE), Ctl(2, "out", 3, "run"),
             Dat(2, "out", 1, "more", FALSE), Ctl(4, "continue", 5, "value"),
             Ctl(5, "again", 4, "next"), Ctl(5, "done", 4, "stop"), Ctl(4, "exit", 6, "value")>>,
           1..6, {4}, {1}, Scoped)
     EXCEPT !.nested = TRUE, !.seededData = {1}, !.seededControl = {2, 4}]

MCWorkflows == {CounterLoop({}), CounterLoop({3}), MisusedLoop, Branch, Scope}
BranchOnly == {Branch}
===============================================================================
