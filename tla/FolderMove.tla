----------------------------- MODULE FolderMove -----------------------------
(***************************************************************************)
(* What the folder operations promise about single files: a call is about  *)
(* some of the files that are there when it begins.  A move copies them    *)
(* one by one and gives up, or commits once all of them have arrived; only *)
(* then it deletes, and no file that it was not about.  A deletion does    *)
(* not go beyond its files either.  Files that another program adds later  *)
(* are promised nothing, and a file that a copy misses because it could    *)
(* not list a folder is not promised to arrive.                            *)
(***************************************************************************)
CONSTANT Files

VARIABLES
  from, to,  \* the files in the source and in the destination
  phase,     \* "rest", "copying", "deleting", "clearing", or "free" of promises
  promised,  \* the files that were there when the call began
  scope,     \* those among them that it is about
  missed     \* the files that it could not list

vars == <<from, to, phase, promised, scope, missed>>

Init ==
  /\ from \subseteq Files /\ to = {}
  /\ phase = "rest" /\ promised = {} /\ scope = {} /\ missed = {}

Begin ==
  /\ phase = "rest" /\ phase' \in {"copying", "clearing", "free"}
  /\ promised' = from /\ scope' \subseteq from /\ missed' = {}
  /\ UNCHANGED <<from, to>>

\* A call may end with the file it has just handled, given up or done.
GoOn == phase' \in {phase, "rest"}

Copy(f) ==
  /\ phase \in {"copying", "free"} /\ f \in from
  /\ to' = to \cup {f}
  /\ GoOn
  /\ UNCHANGED <<from, promised, scope, missed>>

Commit ==
  /\ phase = "copying" /\ scope \ missed \subseteq to
  /\ phase' = "deleting"
  /\ UNCHANGED <<from, to, promised, scope, missed>>

\* Only while it copies a call may miss files.
Miss(S) ==
  /\ phase \in {"copying", "free"}
  /\ missed' = missed \cup S
  /\ UNCHANGED <<from, to, phase, promised, scope>>

\* A promised file is deleted only if the call is about it and, in a move, only if it
\* has arrived or was missed.
Delete(f) ==
  /\ \/ phase = "free"
     \/ phase = "clearing" /\ (f \in promised => f \in scope)
     \/ phase = "deleting" /\ (f \in promised => f \in scope /\ f \in to \cup missed)
  /\ from' = from \ {f}
  /\ GoOn
  /\ UNCHANGED <<to, promised, scope, missed>>

End ==
  /\ phase # "rest" /\ phase' = "rest"
  /\ UNCHANGED <<from, to, promised, scope, missed>>

\* Another program.
Appear(f) ==
  /\ from' = from \cup {f}
  /\ UNCHANGED <<to, phase, promised, scope, missed>>

Next ==
  \/ Begin \/ Commit \/ End
  \/ \E S \in SUBSET Files : Miss(S)
  \/ \E f \in Files : Copy(f) \/ Delete(f) \/ Appear(f)

Spec == Init /\ [][Next]_vars
=============================================================================
