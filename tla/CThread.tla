------------------------------- MODULE CThread -------------------------------
(***************************************************************************)
(* The thread wrapper of StarLib/LicenseLib (Thread.h, Thread.cpp).  One   *)
(* CThread object is shared by the client threads that call its member     *)
(* functions and by the thread it started, which runs execute() on it.     *)
(* Ownership of the thread's kernel handle is passed around with           *)
(* InterlockedExchange on thread_handle_: whoever takes a valid handle out *)
(* of the member has to close it.                                          *)
(*                                                                         *)
(* An action is what happens between two accesses to shared memory or to   *)
(* the kernel.  thread_id_ and thread_info_ are diagnostics: they are left *)
(* out, but the statements that write them still count as uses of the      *)
(* object's memory.                                                        *)
(***************************************************************************)
EXTENDS Naturals, FiniteSets

CONSTANTS
  Clients,      \* threads that call the member functions
  Owner,        \* the client that starts the thread and deletes the object
  Threads,      \* threads that start_thread may create (bounds the restarts)
  INVALID,      \* INVALID_HANDLE_VALUE
  NULL,         \* what _beginthreadex returns when it fails
  SelfDelete,   \* argument of the constructor
  MaxSuspend,   \* MAXIMUM_SUSPEND_COUNT of the kernel
  Calls,        \* the member functions the clients use
  Serial        \* TRUE: the owner starts the thread again only when the previous
                \* one is over and no stop_thread is in progress

ASSUME ConstantsAssumption ==
  /\ Owner \in Clients
  /\ INVALID \notin Threads /\ NULL \notin Threads /\ INVALID # NULL
  /\ SelfDelete \in BOOLEAN /\ Serial \in BOOLEAN
  /\ MaxSuspend \in Nat \ {0}

VARIABLES
  thread_handle_, terminated_, suspended_, self_delete_,
  alive,      \* the object's memory has not been freed
  handle,     \* kernel: the handle of each thread is "none", "open" or "closed"
  suspends,   \* kernel: the suspend count of each thread
  wpc,        \* where each created thread is in execute()
  wh,         \* execute()'s local h
  pc,         \* where each client is in the member function it called
  call,       \* the member function it called
  reg,        \* the handle it read from thread_handle_ for a kernel call
  h           \* the handle it owns: result of _beginthreadex or of an exchange

object  == <<thread_handle_, terminated_, suspended_, self_delete_, alive>>
kernel  == <<handle, suspends>>
worker  == <<wpc, wh>>
client  == <<pc, call, reg, h>>
vars    == <<object, kernel, worker, client>>

Handles == Threads \cup {INVALID, NULL}

\* Labels at which the next statement reads or writes a member of the object
\* (or reaches it through the virtual table).
ClientTouches == {"start.create", "start.assign", "start.check", "start.notify",
                  "resume.read", "stop.swap", "stop.cancel", "stop.wait", "stop.clear",
                  "delete.swap", "delete.kill"}
WorkerTouches == {"body", "swap", "clear", "selfdelete", "delete", "free"}

ClientLabels == ClientTouches \cup
  {"idle", "resume.call", "stop.kill", "suspend.call", "wait.enter", "wait.block", "fault"}
WorkerLabels == WorkerTouches \cup {"none", "ended", "fault"}

CallNames == {"none", "start", "stop", "resume", "resume_all", "suspend", "wait", "delete"}

Running(t) == wpc[t] \notin {"none", "ended"}

-----------------------------------------------------------------------------
Init ==
  /\ thread_handle_ = INVALID
  /\ terminated_ = FALSE
  /\ suspended_ = FALSE
  /\ self_delete_ = SelfDelete
  /\ alive = TRUE
  /\ handle = [t \in Threads |-> "none"]
  /\ suspends = [t \in Threads |-> 0]
  /\ wpc = [t \in Threads |-> "none"]
  /\ wh = [t \in Threads |-> INVALID]
  /\ pc = [c \in Clients |-> "idle"]
  /\ call = [c \in Clients |-> "none"]
  /\ reg = [c \in Clients |-> INVALID]
  /\ h = [c \in Clients |-> INVALID]

\* A client calls f.  As for any C++ object, the object exists when the call is
\* made and nobody calls a member function while it is being deleted.
Callable(c, f) ==
  pc[c] = "idle" /\ f \in Calls /\ alive /\ \A d \in Clients : call[d] # "delete"

Enter(c, f, to) ==
  /\ Callable(c, f)
  /\ pc' = [pc EXCEPT ![c] = to]
  /\ call' = [call EXCEPT ![c] = f]

\* Client c is at label from and, if its next statement uses the object, the
\* object is still there.
At(c, from) == pc[c] = from /\ (from \in ClientTouches => alive)

Goto(c, to) == pc' = [pc EXCEPT ![c] = to] /\ UNCHANGED call

Return(c) ==
  /\ pc' = [pc EXCEPT ![c] = "idle"]
  /\ call' = [call EXCEPT ![c] = "none"]

\* Using freed memory is undefined: the client is not followed any further.
ClientFault(c) ==
  /\ pc[c] \in ClientTouches /\ ~alive
  /\ Goto(c, "fault")
  /\ UNCHANGED <<object, kernel, worker, reg, h>>

\* Mutant: the handle is read without being taken out.
SwapOutReads(c) ==
  /\ h' = [h EXCEPT ![c] = thread_handle_]
  /\ thread_handle_' = thread_handle_

\* h := InterlockedExchange(&thread_handle_, INVALID_HANDLE_VALUE)
SwapOut(c) ==
  /\ h' = [h EXCEPT ![c] = thread_handle_]
  /\ thread_handle_' = INVALID

-----------------------------------------------------------------------------
(* start_thread.  on_init is a hook of the derived class and does nothing here. *)

\* The assertion of line 49 is the caller's obligation.
StartThread(c) ==
  /\ c = Owner
  /\ thread_handle_ = INVALID
  /\ Serial => /\ \A d \in Clients : call[d] # "stop"
               /\ \A t \in Threads : ~Running(t)
  /\ Enter(c, "start", "start.create")
  /\ UNCHANGED <<object, kernel, worker, reg, h>>

\* _beginthreadex: the new thread may run before the caller sees the handle.
Create(c) ==
  /\ At(c, "start.create")
  /\ \E t \in Threads, suspended \in BOOLEAN :
       /\ handle[t] = "none"
       /\ handle' = [handle EXCEPT ![t] = "open"]
       /\ suspends' = [suspends EXCEPT ![t] = IF suspended THEN 1 ELSE 0]
       /\ wpc' = [wpc EXCEPT ![t] = "body"]
       /\ h' = [h EXCEPT ![c] = t]
  /\ Goto(c, "start.assign")
  /\ UNCHANGED <<object, wh, reg>>

\* _beginthreadex fails and returns 0, which is not INVALID_HANDLE_VALUE.
CreateFails(c) ==
  /\ At(c, "start.create")
  /\ h' = [h EXCEPT ![c] = NULL]
  /\ Goto(c, "start.assign")
  /\ UNCHANGED <<object, kernel, worker, reg>>

AssignHandle(c) ==
  /\ At(c, "start.assign")
  /\ thread_handle_' = h[c]
  /\ h' = [h EXCEPT ![c] = INVALID]
  /\ reg' = [reg EXCEPT ![c] = h[c]]
  /\ Goto(c, "start.check")
  /\ UNCHANGED <<terminated_, suspended_, self_delete_, alive, kernel, worker>>

\* Line 60 reads the member again: by now it may have been taken out.
CheckHandle(c) ==
  /\ At(c, "start.check")
  /\ IF thread_handle_ = INVALID THEN Return(c) ELSE Goto(c, "start.notify")
  /\ UNCHANGED <<object, kernel, worker, reg, h>>

OnStart(c) ==
  /\ At(c, "start.notify")
  /\ Return(c)
  /\ UNCHANGED <<object, kernel, worker, reg, h>>

-----------------------------------------------------------------------------
(* resume_thread, called by a client (all or not) or by stop_thread. *)

ResumeThread(c) ==
  /\ Enter(c, "resume", "resume.read") \/ Enter(c, "resume_all", "resume.read")
  /\ UNCHANGED <<object, kernel, worker, reg, h>>

ResumeRead(c) ==
  /\ At(c, "resume.read")
  /\ reg' = [reg EXCEPT ![c] = thread_handle_]
  /\ Goto(c, "resume.call")
  /\ UNCHANGED <<object, kernel, worker, h>>

\* Mutant: the loop ends only when ResumeThread fails.
ResumeCallForever(c) ==
  LET t     == reg[c]
      valid == t \in Threads /\ handle[t] = "open"
      again == valid /\ call[c] # "resume"
  IN  /\ At(c, "resume.call")
      /\ suspends' = IF valid /\ suspends[t] > 0
                     THEN [suspends EXCEPT ![t] = @ - 1] ELSE suspends
      /\ \/ again /\ Goto(c, "resume.read")
         \/ ~again /\ call[c] = "stop" /\ Goto(c, "stop.swap")
         \/ ~again /\ call[c] # "stop" /\ Return(c)
      /\ UNCHANGED <<object, handle, worker, reg, h>>

\* ResumeThread returns the previous suspend count, or -1 for a bad handle; with
\* all, the loop goes on until that count was 0.
ResumeCall(c) ==
  LET t     == reg[c]
      valid == t \in Threads /\ handle[t] = "open"
      again == valid /\ suspends[t] > 0 /\ call[c] # "resume"
  IN  /\ At(c, "resume.call")
      /\ suspends' = IF valid /\ suspends[t] > 0
                     THEN [suspends EXCEPT ![t] = @ - 1] ELSE suspends
      /\ \/ again /\ Goto(c, "resume.read")
         \/ ~again /\ call[c] = "stop" /\ Goto(c, "stop.swap")
         \/ ~again /\ call[c] # "stop" /\ Return(c)
      /\ UNCHANGED <<object, handle, worker, reg, h>>

-----------------------------------------------------------------------------
(* stop_thread *)

StopThread(c) ==
  /\ Enter(c, "stop", "resume.read")
  /\ terminated_' = TRUE
  /\ UNCHANGED <<thread_handle_, suspended_, self_delete_, alive, kernel, worker, reg, h>>

\* The exchange: of all callers only one gets the handle, the others return false.
StopSwap(c) ==
  /\ At(c, "stop.swap")
  /\ SwapOut(c)
  /\ IF thread_handle_ = INVALID THEN Return(c) ELSE Goto(c, "stop.cancel")
  /\ UNCHANGED <<terminated_, suspended_, self_delete_, alive, kernel, worker, reg>>

CancelSelfDelete(c) ==
  /\ At(c, "stop.cancel")
  /\ self_delete_' = FALSE
  /\ Goto(c, "stop.wait")
  /\ UNCHANGED <<thread_handle_, terminated_, suspended_, alive, kernel, worker, reg, h>>

\* The wait is satisfied: on_stop(false).
StopWaitOver(c) ==
  /\ At(c, "stop.wait")
  /\ h[c] \in Threads /\ wpc[h[c]] = "ended"
  /\ Goto(c, "stop.clear")
  /\ UNCHANGED <<object, kernel, worker, reg, h>>

\* Mutant: after a timeout the thread is not killed.
StopWaitTimeoutSpares(c) ==
  /\ At(c, "stop.wait")
  /\ h[c] \in Threads => wpc[h[c]] # "ended"
  /\ Goto(c, "stop.clear")
  /\ UNCHANGED <<object, kernel, worker, reg, h>>

\* The wait times out, or fails on a null handle: on_stop(true).
StopWaitTimeout(c) ==
  /\ At(c, "stop.wait")
  /\ h[c] \in Threads => wpc[h[c]] # "ended"
  /\ Goto(c, "stop.kill")
  /\ UNCHANGED <<object, kernel, worker, reg, h>>

\* Kernel: TerminateThread ends the thread wherever it is.
Terminate(t) ==
  wpc' = IF t \in Threads /\ handle[t] = "open"
         THEN [wpc EXCEPT ![t] = "ended"] ELSE wpc

StopKill(c) ==
  /\ At(c, "stop.kill")
  /\ Terminate(h[c])
  /\ Goto(c, "stop.clear")
  /\ UNCHANGED <<object, kernel, wh, reg, h>>

\* Kernel: CloseHandle.
CloseHandle(t) ==
  handle' = IF t \in Threads THEN [handle EXCEPT ![t] = "closed"] ELSE handle

\* Mutant: stop_thread forgets to close the handle.
StopCloseLeaks(c) ==
  /\ At(c, "stop.clear")
  /\ h' = [h EXCEPT ![c] = INVALID]
  /\ Return(c)
  /\ UNCHANGED <<object, kernel, worker, reg>>

\* Clears thread_id_ and thread_info_, closes the handle and returns true.
StopClose(c) ==
  /\ At(c, "stop.clear")
  /\ CloseHandle(h[c])
  /\ h' = [h EXCEPT ![c] = INVALID]
  /\ Return(c)
  /\ UNCHANGED <<object, suspends, worker, reg>>

-----------------------------------------------------------------------------
(* suspend_thread, wait_for (with its default, INFINITE), set_terminate,   *)
(* set_autodelete                                                          *)

SuspendThread(c) ==
  /\ Enter(c, "suspend", "suspend.call")
  /\ reg' = [reg EXCEPT ![c] = thread_handle_]
  /\ UNCHANGED <<object, kernel, worker, h>>

\* Mutant: one suspension too many.
SuspendCallOverLimit(c) ==
  LET t  == reg[c]
      ok == t \in Threads /\ handle[t] = "open" /\ Running(t) /\ suspends[t] <= MaxSuspend
  IN  /\ At(c, "suspend.call")
      /\ suspends' = IF ok THEN [suspends EXCEPT ![t] = @ + 1] ELSE suspends
      /\ Return(c)
      /\ UNCHANGED <<object, handle, worker, reg, h>>

\* SuspendThread fails on a bad handle, on a thread that ended and at the limit.
SuspendCall(c) ==
  LET t  == reg[c]
      ok == t \in Threads /\ handle[t] = "open" /\ Running(t) /\ suspends[t] < MaxSuspend
  IN  /\ At(c, "suspend.call")
      /\ suspends' = IF ok THEN [suspends EXCEPT ![t] = @ + 1] ELSE suspends
      /\ Return(c)
      /\ UNCHANGED <<object, handle, worker, reg, h>>

WaitFor(c) ==
  /\ Enter(c, "wait", "wait.enter")
  /\ reg' = [reg EXCEPT ![c] = thread_handle_]
  /\ UNCHANGED <<object, kernel, worker, h>>

\* WaitForSingleObject fails at once on a null or closed handle.
\* INVALID_HANDLE_VALUE is also the pseudo-handle of the calling process, which
\* is a handle one can wait on.
WaitEnter(c) ==
  /\ At(c, "wait.enter")
  /\ IF reg[c] = NULL \/ (reg[c] \in Threads /\ handle[reg[c]] = "closed")
     THEN Return(c) ELSE Goto(c, "wait.block")
  /\ UNCHANGED <<object, kernel, worker, reg, h>>

WaitReturn(c) ==
  /\ At(c, "wait.block")
  /\ reg[c] \in Threads /\ wpc[reg[c]] = "ended"
  /\ Return(c)
  /\ UNCHANGED <<object, kernel, worker, reg, h>>

SetTerminate(c) ==
  /\ Callable(c, "set_terminate")
  /\ terminated_' = TRUE
  /\ UNCHANGED <<thread_handle_, suspended_, self_delete_, alive, kernel, worker, client>>

SetAutodelete(c) ==
  /\ Callable(c, "set_autodelete")
  /\ self_delete_' \in BOOLEAN
  /\ UNCHANGED <<thread_handle_, terminated_, suspended_, alive, kernel, worker, client>>

-----------------------------------------------------------------------------
(* The destructor, called by the owner when no client is inside a call. *)

DeleteObject(c) ==
  /\ c = Owner
  /\ \A d \in Clients : pc[d] = "idle"
  /\ Enter(c, "delete", "delete.swap")
  /\ UNCHANGED <<object, kernel, worker, reg, h>>

DeleteSwap(c) ==
  /\ At(c, "delete.swap")
  /\ SwapOut(c)
  /\ Goto(c, "delete.kill")
  /\ UNCHANGED <<terminated_, suspended_, self_delete_, alive, kernel, worker, reg>>

\* A wait of zero milliseconds, TerminateThread unless it was satisfied, and the
\* memory is released.  The handle is not closed.
DeleteFree(c) ==
  /\ At(c, "delete.kill")
  /\ Terminate(h[c])
  /\ alive' = FALSE
  /\ Return(c)
  /\ UNCHANGED <<thread_handle_, terminated_, suspended_, self_delete_, kernel, wh, reg, h>>

-----------------------------------------------------------------------------
(* execute(), in the started thread *)

\* Thread t is scheduled at label from, and may use the object if it has to.
Runs(t, from) == wpc[t] = from /\ suspends[t] = 0 /\ (from \in WorkerTouches => alive)

WGoto(t, to) == wpc' = [wpc EXCEPT ![t] = to]

WorkerFault(t) ==
  /\ wpc[t] \in WorkerTouches /\ suspends[t] = 0 /\ ~alive
  /\ WGoto(t, "fault")
  /\ UNCHANGED <<object, kernel, wh, client>>

\* on_execute returns, or throws and on_exception runs; then on_runover.
BodyOver(t) ==
  /\ Runs(t, "body")
  /\ WGoto(t, "swap")
  /\ UNCHANGED <<object, kernel, wh, client>>

\* Mutant: the thread cleans up also when somebody else took its handle.
WorkerSwapAlways(t) ==
  /\ Runs(t, "swap")
  /\ wh' = [wh EXCEPT ![t] = thread_handle_]
  /\ thread_handle_' = INVALID
  /\ WGoto(t, "clear")
  /\ UNCHANGED <<terminated_, suspended_, self_delete_, alive, kernel, client>>

WorkerSwap(t) ==
  /\ Runs(t, "swap")
  /\ wh' = [wh EXCEPT ![t] = thread_handle_]
  /\ thread_handle_' = INVALID
  /\ WGoto(t, IF thread_handle_ = INVALID THEN "ended" ELSE "clear")
  /\ UNCHANGED <<terminated_, suspended_, self_delete_, alive, kernel, client>>

\* Clears thread_info_ and closes the handle.
WorkerClose(t) ==
  /\ Runs(t, "clear")
  /\ CloseHandle(wh[t])
  /\ wh' = [wh EXCEPT ![t] = INVALID]
  /\ WGoto(t, "selfdelete")
  /\ UNCHANGED <<object, suspends, client>>

CheckSelfDelete(t) ==
  /\ Runs(t, "selfdelete")
  /\ WGoto(t, IF self_delete_ THEN "delete" ELSE "ended")
  /\ UNCHANGED <<object, kernel, wh, client>>

\* delete this: the destructor, run by the thread itself.
DeleteThis(t) ==
  /\ Runs(t, "delete")
  /\ wh' = [wh EXCEPT ![t] = thread_handle_]
  /\ thread_handle_' = INVALID
  /\ WGoto(t, "free")
  /\ UNCHANGED <<terminated_, suspended_, self_delete_, alive, kernel, client>>

\* Whatever thread the exchange returned is killed, then this one ends.
FreeThis(t) ==
  /\ Runs(t, "free")
  /\ wpc' = [u \in Threads |-> IF u \in {t, wh[t]} THEN "ended" ELSE wpc[u]]
  /\ alive' = FALSE
  /\ UNCHANGED <<thread_handle_, terminated_, suspended_, self_delete_, kernel, wh, client>>

-----------------------------------------------------------------------------
\* A client makes a call ...
ClientCall(c) ==
  \/ StartThread(c) \/ StopThread(c) \/ ResumeThread(c) \/ SuspendThread(c)
  \/ WaitFor(c) \/ SetTerminate(c) \/ SetAutodelete(c) \/ DeleteObject(c)

\* ... and carries it on.
ClientRun(c) ==
  \/ Create(c) \/ CreateFails(c) \/ AssignHandle(c) \/ CheckHandle(c) \/ OnStart(c)
  \/ ResumeRead(c) \/ ResumeCall(c)
  \/ StopSwap(c) \/ CancelSelfDelete(c) \/ StopWaitOver(c)
  \/ StopWaitTimeout(c) \/ StopKill(c) \/ StopClose(c)
  \/ SuspendCall(c) \/ WaitEnter(c) \/ WaitReturn(c)
  \/ DeleteSwap(c) \/ DeleteFree(c) \/ ClientFault(c)

\* What execute() does once on_execute is over.
WorkerRun(t) ==
  \/ WorkerSwap(t) \/ WorkerClose(t) \/ CheckSelfDelete(t)
  \/ DeleteThis(t) \/ FreeThis(t) \/ WorkerFault(t)

Next ==
  \/ \E c \in Clients : ClientCall(c) \/ ClientRun(c)
  \/ \E t \in Threads : BodyOver(t) \/ WorkerRun(t)

Spec == Init /\ [][Next]_vars

\* A call that was made goes on (a timed wait included), and so does a thread that is
\* not suspended; nothing says that on_execute ever returns.
FairSpec ==
  /\ Spec
  /\ \A c \in Clients : WF_vars(ClientRun(c))
  /\ \A t \in Threads : WF_vars(WorkerRun(t))

-----------------------------------------------------------------------------
\* The ranges of the variables.
TypeOK ==
  /\ thread_handle_ \in Handles
  /\ terminated_ \in BOOLEAN /\ suspended_ \in BOOLEAN /\ self_delete_ \in BOOLEAN
  /\ alive \in BOOLEAN
  /\ handle \in [Threads -> {"none", "open", "closed"}]
  /\ suspends \in [Threads -> 0..MaxSuspend]
  /\ wpc \in [Threads -> WorkerLabels]
  /\ wh \in [Threads -> Handles]
  /\ pc \in [Clients -> ClientLabels]
  /\ call \in [Clients -> CallNames]
  /\ reg \in [Clients -> Handles]
  /\ h \in [Clients -> Handles]

\* A thread's handle is in at most one place: the member thread_handle_, the local
\* of one client or the local of one execute().
SoleHolder ==
  \A t \in Threads :
    /\ \A c, d \in Clients : h[c] = t /\ h[d] = t => c = d
    /\ \A u, v \in Threads : wh[u] = t /\ wh[v] = t => u = v
    /\ \A c \in Clients, u \in Threads : ~(h[c] = t /\ wh[u] = t)
    /\ thread_handle_ = t => /\ \A c \in Clients : h[c] # t
                            /\ \A u \in Threads : wh[u] # t

HeldIsOpen ==
  /\ thread_handle_ \in Threads => handle[thread_handle_] = "open"
  /\ \A c \in Clients : h[c] \in Threads => handle[h[c]] = "open"
  /\ \A u \in Threads : wh[u] \in Threads => handle[wh[u]] = "open"

\* stop_thread, execute() and the destructor may race for the handle in any order,
\* also across restarts: it is never owned twice, and whoever waits on it, kills
\* through it or closes it has an open handle, so it is never closed twice.
HandleOwnership == SoleHolder /\ HeldIsOpen

\* As long as the object exists no open handle is lost: it is in the member or with
\* somebody who is on the way to store or close it.  In particular TerminateThread
\* never hits a thread between its exchange and its CloseHandle.
NoLostHandle ==
  alive => \A t \in Threads : handle[t] = "open" =>
    \/ thread_handle_ = t
    \/ \E c \in Clients : h[c] = t /\ pc[c] \notin {"idle", "fault"}
    \/ \E u \in Threads : wh[u] = t /\ wpc[u] = "clear"

\* The exchange in stop_thread (line 80) settles the race with a self-deleting thread:
\* as soon as a stop owns the handle, the thread it stops neither closes the handle
\* nor deletes the object, and the object outlives the call.
StopOwnsObject ==
  \A c \in Clients : call[c] = "stop" /\ h[c] \in Threads =>
    /\ alive
    /\ wpc[h[c]] \in {"body", "swap", "ended"}

\* A stop_thread that returns while nobody else starts or stops the thread leaves nothing
\* behind, whether it won the exchange, lost it to the thread or came after a failed
\* _beginthreadex: no thread is in on_execute, and thread_handle_ is what the assertion of
\* line 49 asks for, so that the thread can be started again.
StopLeavesIdle ==
  [][\A c \in Clients :
       /\ call[c] = "stop" /\ call'[c] = "none"
       /\ \A d \in Clients \ {c} : call[d] \notin {"start", "stop"}
       => thread_handle_' = INVALID /\ \A t \in Threads : wpc'[t] # "body"]_vars

\* stop_thread returns, whatever the thread does and however it was suspended, unless
\* the object deletes itself meanwhile.
StopReturns ==
  \A c \in Clients : (call[c] = "stop") ~> (call[c] # "stop" \/ pc[c] = "fault")

\* A thread whose handle a stop has taken comes to its end and its handle is closed.
StopEndsThread ==
  \A c \in Clients, t \in Threads :
    (call[c] = "stop" /\ h[c] = t) ~> (wpc[t] = "ended" /\ handle[t] = "closed")

\* Who waits in wait_for for a thread that another client stops is released, although
\* the stop may come between the load of the handle and the wait, may kill the thread,
\* and closes the handle that is waited on.
StopReleasesWaiters ==
  \A c, d \in Clients, t \in Threads :
    (call[c] = "wait" /\ reg[c] = t /\ call[d] = "stop" /\ h[d] = t) ~> (call[c] # "wait")

\* The handle of each thread goes through the life cycle of HandleLease.
LeaseOf ==
  [t \in Threads |-> IF handle[t] # "open" THEN IF handle[t] = "none" THEN "unborn" ELSE "closed"
                     ELSE IF thread_handle_ = t THEN "shared" ELSE "claimed"]

Over == {t \in Threads : wpc[t] = "ended"}

Lease == INSTANCE HandleLease WITH lease <- LeaseOf, over <- Over

LeaseSpec == Lease!Spec
=============================================================================
