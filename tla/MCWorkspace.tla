------------------------------ MODULE MCWorkspace ------------------------------
(* A run with an agent and the editor, a file in the root and one in a directory of *)
(* its own.                                                                         *)
EXTENDS Workspace, TLC

CONSTANTS agent, editor, lib, readme, src, root, old, new

MCDirOf == lib :> src @@ readme :> root
===============================================================================
