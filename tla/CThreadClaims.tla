---------------------------- MODULE CThreadClaims ----------------------------
(* What a comment of Thread.cpp says of the class and the code does not keep. *)
(* It is checked by a run that expects a counterexample.                      *)
EXTENDS MCThread

\* Thread.cpp:86: an outside stop cancels the self-delete mode, "otherwise there is a
\* memory conflict"; so stopping a self-deleting thread must not use freed memory.
StopIsSafe ==
  \A c \in Clients : call[c] = "stop" => pc[c] # "fault"
=============================================================================
