---------------------------- MODULE MCConversation ----------------------------
(* Prompts with and without a pinned system message; limits that never bite, that *)
(* bite within a turn, that the prompt alone exceeds, and that not even the newest *)
(* message keeps, so that nothing is left; budgets that end a run.                 *)
EXTENDS Conversation

Rules == Message("system", "rules", <<0, 1>>)
Asked == Message("user", "task", <<0, 2>>)
\* A long text weighs more than the others, and so does a call.
MCWeight(m) == (IF m.text = "long" THEN 6 ELSE 2) + 2 * m.calls

Settings(prompt, most, size, overflow, responses) ==
    [prompt |-> prompt, maxMessages |-> most, maxTokens |-> size, overflow |-> overflow,
     responses |-> responses, maxCalls |-> 9, maxTotalTokens |-> 0]
MCConfigs ==
    {Settings(<<Rules, Asked>>, 3, 99, "trim_oldest", TRUE), Settings(<<Asked>>, 4, 16, "trim_oldest", TRUE)} \cup
    {Settings(<<Rules, Asked>>, 99, 99, "trim_oldest", TRUE)} \cup
    {Settings(<<Rules, Asked>>, 4, 99, "error", FALSE)} \cup
    {[Settings(<<Asked>>, 99, 99, "error", TRUE) EXCEPT !.maxTotalTokens = 1],
     [Settings(<<Asked>>, 99, 99, "error", FALSE) EXCEPT !.maxCalls = 2],
     Settings(<<Rules>>, 9, 1, "trim_oldest", FALSE), Settings(<<Asked>>, 9, 1, "trim_oldest", TRUE)}
===============================================================================
