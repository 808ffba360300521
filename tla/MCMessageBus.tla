----------------------------- MODULE MCMessageBus -----------------------------
(* Three agents, so that a broadcast can find its last inbox full after serving *)
(* an earlier one; m1 and m4 go to the same agent, m1 and m2 share a key, m2 is  *)
(* for the user and m3 is the broadcast.                                        *)
EXTENDS MessageBus, TLC

CONSTANTS m1, m2, m3, m4, k1, k3, k4

MCSender == (m1 :> User) @@ (m2 :> 2) @@ (m3 :> 1) @@ (m4 :> Workflow)
MCRecipient == (m1 :> 3) @@ (m2 :> User) @@ (m3 :> Broadcast) @@ (m4 :> 3)
MCKey == (m1 :> k1) @@ (m2 :> k1) @@ (m3 :> k3) @@ (m4 :> k4)
===============================================================================
