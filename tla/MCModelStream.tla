---------------------------- MODULE MCModelStream ----------------------------
(* Transcripts with every kind of part, with two tool calls and their results, and *)
(* with two messages of the user in a row.                                         *)
EXTENDS ModelStream

Msg(role, parts, calls) == [role |-> role, parts |-> parts, calls |-> calls]
System == Msg("system", <<"text">>, 0)
User(parts) == Msg("user", parts, 0)
ToolResult == Msg("tool", <<"text">>, 0)

MCRequests ==
    {<<System, User(<<"text">>), Msg("assistant", <<>>, 2), ToolResult, ToolResult, User(<<"text">>)>>} \cup
    {<<User(<<"text">>), User(<<"text", kind>>), Msg("assistant", <<"text">>, 1), ToolResult>> :
        kind \in {"image", "audio", "transcribed", "video", "document", "extracted"}}
===============================================================================
