---------------------------- MODULE MCInlineHook ----------------------------
(* Two threads that call the function, two objects of the one class and one *)
(* of the other, each free to be created again.                             *)
EXTENDS InlineHook, TLC

Symm == Permutations(Workers) \cup Permutations(Api) \cup Permutations(Trap)
=============================================================================
