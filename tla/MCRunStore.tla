------------------------------ MODULE MCRunStore ------------------------------
(* Instance of RunStore: one tool call, one command (and those that end a pause),
   one failure, one crash. *)
EXTENDS RunStore

MCBound == [calls |-> 1, commands |-> 1, failures |-> 1, crashes |-> 1]
===============================================================================
