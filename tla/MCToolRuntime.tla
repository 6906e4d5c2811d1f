---------------------------- MODULE MCToolRuntime ----------------------------
(* The instance of ToolRuntime that TLC checks *)
EXTENDS ToolRuntime, TLC

MCRole == {Kind, {"read"}}
Sym == Permutations(Content)
=============================================================================
