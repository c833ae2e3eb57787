---------------------------- MODULE HandleLease ----------------------------
(***************************************************************************)
(* What CThread promises about the kernel handles of the threads it        *)
(* starts: a handle is born in the hands of its creator, may be shared     *)
(* through the object, is claimed back by one party at a time and is       *)
(* closed, for good, by the party that claimed it.  At most one handle is  *)
(* shared, and a thread that is over stays so.                             *)
(***************************************************************************)
CONSTANT Threads

VARIABLES
  lease,    \* "unborn", "claimed", "shared" or "closed", for each thread
  over      \* the threads that have ended

vars == <<lease, over>>

Init ==
  /\ lease = [t \in Threads |-> "unborn"]
  /\ over = {}

\* t's lease goes from one state to another and nothing ends.
Move(t, from, to) ==
  /\ lease[t] = from
  /\ lease' = [lease EXCEPT ![t] = to]
  /\ over' = over

Create(t) == Move(t, "unborn", "claimed")

Share(t) ==
  /\ \A u \in Threads : lease[u] # "shared"
  /\ Move(t, "claimed", "shared")

Claim(t) == Move(t, "shared", "claimed")

Close(t) == Move(t, "claimed", "closed")

\* Threads end by themselves, or one kills another and ends.
End(T) ==
  /\ \A t \in T : lease[t] # "unborn"
  /\ over' = over \cup T
  /\ lease' = lease

Next ==
  \/ \E t \in Threads : Create(t) \/ Share(t) \/ Claim(t) \/ Close(t)
  \/ \E T \in SUBSET Threads : End(T)

Spec == Init /\ [][Next]_vars
=============================================================================
