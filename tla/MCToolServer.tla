----------------------------- MODULE MCToolServer -----------------------------
(* Three calls on one connection, of an MCP or of a language server, that may each *)
(* be answered while a later one waits; two files; two messages nobody asked for.  *)
EXTENDS ToolServer

CONSTANTS f1, f2
===============================================================================
