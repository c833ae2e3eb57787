---- MODULE MCAPIHook_New ----
(* Two objects for the same function and a library that brings another. *)
EXTENDS CAPIHook_New, TLC

CONSTANTS t1, t2, u1, u2, exe, hookdll, lib, dep

MCFn    == [h \in UserHooks |-> "F"]
MCNeeds == [m \in Modules |-> IF m = lib THEN {dep} ELSE {}]
MCSymmetry == Permutations({u1, u2})
====
