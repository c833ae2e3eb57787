------------------------------ MODULE MCThread ------------------------------
(* Model-checking instances of CThread. *)
EXTENDS CThread, TLC

CONSTANTS c1, c2, t1, t2
=============================================================================
