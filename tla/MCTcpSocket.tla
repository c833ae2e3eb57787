---------------------------- MODULE MCTcpSocket ----------------------------
(* Two threads, two objects, two handle values, both builds. *)
EXTENDS TcpSocket, TLC

Symm == Permutations(Threads) \cup Permutations(Objects) \cup Permutations(Handles)
=============================================================================
