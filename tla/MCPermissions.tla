---------------------------- MODULE MCPermissions ----------------------------
(* Two agents with a call each.  The targets tell every pair of modes apart.     *)
EXTENDS Permissions

CONSTANTS n1, n2, c1, c2

T(class, relative, readOnly, highRisk, sensitive, command) ==
    [class |-> class, relative |-> relative, readOnly |-> readOnly, highRisk |-> highRisk,
     sensitive |-> sensitive, command |-> command]
Write == T("filesystem", TRUE, FALSE, FALSE, FALSE, "none")
Inspect == T("process", FALSE, FALSE, FALSE, FALSE, "known")
MCTargets == {Write, Inspect}
MCNodeOfCall == [c \in Calls |-> IF c = c2 THEN n2 ELSE n1]
===============================================================================
