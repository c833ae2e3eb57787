--------------------------- MODULE CThread_proofs ---------------------------
(* Proofs about CThread, for any sets of clients and threads. *)
EXTENDS CThread, TLAPS

\* The initial values are in the ranges of the variables.
LEMMA InitTypeOK == Init => TypeOK
  <1> SUFFICES ASSUME Init PROVE TypeOK
    OBVIOUS
  <1>1. "idle" \in ClientLabels /\ "none" \in WorkerLabels /\ "none" \in CallNames
    BY DEF ClientLabels, WorkerLabels, CallNames
  <1>2. INVALID \in Handles /\ 0 \in 0..MaxSuspend
    BY ConstantsAssumption DEF Handles
  <1> QED
    BY <1>1, <1>2, ConstantsAssumption DEF Init, TypeOK

\* A client that makes a call keeps every variable in its range.
LEMMA ClientCallTypeOK ==
  ASSUME TypeOK, NEW c \in Clients, ClientCall(c)
  PROVE  TypeOK'
  <1> USE DEF TypeOK, Enter, Callable, CallNames, object, kernel, worker, client
  <1>1. {"idle", "start.create", "resume.read", "suspend.call", "wait.enter", "delete.swap"}
           \subseteq ClientLabels
    BY DEF ClientLabels, ClientTouches
  <1>2. CASE StartThread(c)
    BY <1>1, <1>2 DEF StartThread
  <1>3. CASE StopThread(c)
    BY <1>1, <1>3 DEF StopThread
  <1>4. CASE ResumeThread(c)
    BY <1>1, <1>4 DEF ResumeThread
  <1>5. CASE SuspendThread(c)
    BY <1>1, <1>5 DEF SuspendThread
  <1>6. CASE WaitFor(c)
    BY <1>1, <1>6 DEF WaitFor
  <1>7. CASE SetTerminate(c)
    BY <1>7 DEF SetTerminate
  <1>8. CASE SetAutodelete(c)
    BY <1>8 DEF SetAutodelete
  <1>9. CASE DeleteObject(c)
    BY <1>1, <1>9 DEF DeleteObject
  <1> QED
    BY <1>2, <1>3, <1>4, <1>5, <1>6, <1>7, <1>8, <1>9 DEF ClientCall

\* So does every further step of a call ...
LEMMA ClientRunTypeOK ==
  ASSUME TypeOK, NEW c \in Clients, ClientRun(c)
  PROVE  TypeOK'
  <1> USE ConstantsAssumption
      DEF TypeOK, Goto, Return, At, Handles, CallNames, object, kernel, worker, client
  <1>1. {"idle", "start.assign", "start.check", "start.notify", "resume.read",
         "resume.call", "stop.swap", "stop.cancel", "stop.wait", "stop.kill", "stop.clear",
         "wait.block", "delete.kill", "fault"} \subseteq ClientLabels
    BY DEF ClientLabels, ClientTouches
  <1>2. {"body", "ended"} \subseteq WorkerLabels
    BY DEF WorkerLabels, WorkerTouches
  <1>3. CASE Create(c)
    BY <1>1, <1>2, <1>3 DEF Create
  <1>4. CASE CreateFails(c)
    BY <1>1, <1>4 DEF CreateFails
  <1>5. CASE AssignHandle(c)
    BY <1>1, <1>5 DEF AssignHandle
  <1>6. CASE CheckHandle(c)
    BY <1>1, <1>6 DEF CheckHandle
  <1>7. CASE OnStart(c)
    BY <1>1, <1>7 DEF OnStart
  <1>8. CASE ResumeRead(c)
    BY <1>1, <1>8 DEF ResumeRead
  <1>9. CASE ResumeCall(c)
    <2>1. suspends' \in [Threads -> 0..MaxSuspend]
      BY <1>9 DEF ResumeCall
    <2>2. pc' \in [Clients -> ClientLabels] /\ call' \in [Clients -> CallNames]
      BY <1>1, <1>9 DEF ResumeCall
    <2> QED
      BY <2>1, <2>2, <1>9 DEF ResumeCall
  <1>10. CASE StopSwap(c)
    BY <1>1, <1>10 DEF StopSwap, SwapOut
  <1>11. CASE CancelSelfDelete(c)
    BY <1>1, <1>11 DEF CancelSelfDelete
  <1>12. CASE StopWaitOver(c)
    BY <1>1, <1>12 DEF StopWaitOver
  <1>13. CASE StopWaitTimeout(c)
    BY <1>1, <1>13 DEF StopWaitTimeout
  <1>14. CASE StopKill(c)
    BY <1>1, <1>2, <1>14 DEF StopKill, Terminate
  <1>15. CASE StopClose(c)
    BY <1>1, <1>15 DEF StopClose, CloseHandle
  <1>16. CASE SuspendCall(c)
    <2>1. suspends' \in [Threads -> 0..MaxSuspend]
      BY <1>16 DEF SuspendCall
    <2> QED
      BY <2>1, <1>1, <1>16 DEF SuspendCall
  <1>17. CASE WaitEnter(c)
    BY <1>1, <1>17 DEF WaitEnter
  <1>18. CASE WaitReturn(c)
    BY <1>1, <1>18 DEF WaitReturn
  <1>19. CASE DeleteSwap(c)
    BY <1>1, <1>19 DEF DeleteSwap, SwapOut
  <1>20. CASE DeleteFree(c)
    BY <1>1, <1>2, <1>20 DEF DeleteFree, Terminate
  <1>21. CASE ClientFault(c)
    BY <1>1, <1>21 DEF ClientFault
  <1> QED
    BY <1>3, <1>4, <1>5, <1>6, <1>7, <1>8, <1>9, <1>10, <1>11, <1>12, <1>13, <1>14,
       <1>15, <1>16, <1>17, <1>18, <1>19, <1>20, <1>21 DEF ClientRun

\* ... and every step of a started thread.
LEMMA WorkerTypeOK ==
  ASSUME TypeOK, NEW t \in Threads, BodyOver(t) \/ WorkerRun(t)
  PROVE  TypeOK'
  <1> USE DEF TypeOK, Runs, WGoto, Handles, object, kernel, worker, client
  <1>1. {"swap", "clear", "selfdelete", "delete", "free", "ended", "fault"}
           \subseteq WorkerLabels
    BY DEF WorkerLabels, WorkerTouches
  <1>2. CASE BodyOver(t)
    BY <1>1, <1>2 DEF BodyOver
  <1>3. CASE WorkerSwap(t)
    BY <1>1, <1>3 DEF WorkerSwap
  <1>4. CASE WorkerClose(t)
    BY <1>1, <1>4 DEF WorkerClose, CloseHandle
  <1>5. CASE CheckSelfDelete(t)
    BY <1>1, <1>5 DEF CheckSelfDelete
  <1>6. CASE DeleteThis(t)
    BY <1>1, <1>6 DEF DeleteThis
  <1>7. CASE FreeThis(t)
    BY <1>1, <1>7 DEF FreeThis
  <1>8. CASE WorkerFault(t)
    BY <1>1, <1>8 DEF WorkerFault
  <1> QED
    BY <1>2, <1>3, <1>4, <1>5, <1>6, <1>7, <1>8 DEF WorkerRun

\* Every variable stays in its range, whatever the clients call.
THEOREM TypeCorrect == Spec => []TypeOK
  <1>1. TypeOK /\ [Next]_vars => TypeOK'
    <2> SUFFICES ASSUME TypeOK, [Next]_vars PROVE TypeOK'
      OBVIOUS
    <2>1. ASSUME NEW c \in Clients, ClientCall(c) \/ ClientRun(c) PROVE TypeOK'
      BY <2>1, ClientCallTypeOK, ClientRunTypeOK
    <2>2. ASSUME NEW t \in Threads, BodyOver(t) \/ WorkerRun(t) PROVE TypeOK'
      BY <2>2, WorkerTypeOK
    <2>3. CASE UNCHANGED vars
      BY <2>3 DEF TypeOK, vars, object, kernel, worker, client
    <2> QED
      BY <2>1, <2>2, <2>3 DEF Next
  <1> QED
    BY InitTypeOK, <1>1, PTL DEF Spec

-----------------------------------------------------------------------------
\* Where handles are kept: only steps that change one of these can disturb ownership.
places == <<thread_handle_, h, wh, handle>>

LEMMA FrameOwnership ==
  ASSUME HandleOwnership, UNCHANGED places
  PROVE  HandleOwnership'
  BY DEF HandleOwnership, SoleHolder, HeldIsOpen, places

\* The exchange moves the handle from the member to the caller's empty local.
LEMMA SwapOwnership ==
  ASSUME TypeOK, HandleOwnership, NEW c \in Clients, SwapOut(c), UNCHANGED <<wh, handle>>
  PROVE  HandleOwnership'
  <1> USE ConstantsAssumption DEF TypeOK, SwapOut
  <1>1. SoleHolder'
    BY DEF HandleOwnership, SoleHolder
  <1>2. HeldIsOpen'
    BY DEF HandleOwnership, HeldIsOpen
  <1> QED
    BY <1>1, <1>2 DEF HandleOwnership

\* Making a call moves no handle.
LEMMA ClientCallOwnership ==
  ASSUME HandleOwnership, NEW c \in Clients, ClientCall(c)
  PROVE  HandleOwnership'
  <1>1. UNCHANGED places
    BY DEF ClientCall, StartThread, StopThread, ResumeThread, SuspendThread, WaitFor,
           SetTerminate, SetAutodelete, DeleteObject, object, kernel, worker, client, places
  <1> QED
    BY <1>1, FrameOwnership

LEMMA ClientRunOwnership ==
  ASSUME TypeOK, HandleOwnership, NEW c \in Clients, ClientRun(c)
  PROVE  HandleOwnership'
  <1> USE DEF object, kernel, worker, client
  <1>1. CASE Create(c)
    <2>1. PICK t \in Threads : /\ handle[t] = "none"
                              /\ handle' = [handle EXCEPT ![t] = "open"]
                              /\ h' = [h EXCEPT ![c] = t]
      BY <1>1 DEF Create
    <2>2. UNCHANGED <<thread_handle_, wh>>
      BY <1>1 DEF Create
    <2>3. /\ thread_handle_ # t
          /\ \A d \in Clients : h[d] # t
          /\ \A u \in Threads : wh[u] # t
      BY <2>1 DEF HandleOwnership, HeldIsOpen
    <2>4. SoleHolder'
      BY <2>1, <2>2, <2>3 DEF HandleOwnership, SoleHolder, TypeOK
    <2>5. HeldIsOpen'
      BY <2>1, <2>2, <2>3 DEF HandleOwnership, HeldIsOpen, TypeOK
    <2> QED
      BY <2>4, <2>5 DEF HandleOwnership
  <1>2. CASE CreateFails(c)
    BY <1>2, ConstantsAssumption
    DEF CreateFails, HandleOwnership, SoleHolder, HeldIsOpen, TypeOK
  <1>3. CASE AssignHandle(c)
    <2> USE <1>3, ConstantsAssumption DEF AssignHandle, HandleOwnership, TypeOK
    <2>1. SoleHolder'
      BY DEF SoleHolder
    <2>2. HeldIsOpen'
      BY DEF HeldIsOpen
    <2> QED
      BY <2>1, <2>2
  <1>4. CASE StopSwap(c)
    BY <1>4, SwapOwnership DEF StopSwap
  <1>5. CASE DeleteSwap(c)
    BY <1>5, SwapOwnership DEF DeleteSwap
  <1>6. CASE StopClose(c)
    <2>1. /\ h' = [h EXCEPT ![c] = INVALID]
          /\ handle' = IF h[c] \in Threads THEN [handle EXCEPT ![h[c]] = "closed"]
                                          ELSE handle
          /\ UNCHANGED <<thread_handle_, wh>>
      BY <1>6 DEF StopClose, CloseHandle
    <2>2. SoleHolder'
      BY <2>1, ConstantsAssumption DEF HandleOwnership, SoleHolder, TypeOK
    <2>3. HeldIsOpen'
      BY <2>1, ConstantsAssumption DEF HandleOwnership, SoleHolder, HeldIsOpen, TypeOK
    <2> QED
      BY <2>2, <2>3 DEF HandleOwnership
  <1>7. CASE UNCHANGED places
    BY <1>7, FrameOwnership
  <1>8. CheckHandle(c) \/ OnStart(c) \/ ResumeRead(c) \/ ResumeCall(c)
        \/ CancelSelfDelete(c) \/ StopWaitOver(c) \/ StopWaitTimeout(c) \/ StopKill(c)
        \/ SuspendCall(c) \/ WaitEnter(c) \/ WaitReturn(c) \/ DeleteFree(c)
        \/ ClientFault(c) => UNCHANGED places
    BY DEF CheckHandle, OnStart, ResumeRead, ResumeCall, CancelSelfDelete, StopWaitOver,
           StopWaitTimeout, StopKill, SuspendCall, WaitEnter, WaitReturn, DeleteFree,
           ClientFault, places
  <1> QED
    BY <1>1, <1>2, <1>3, <1>4, <1>5, <1>6, <1>7, <1>8 DEF ClientRun

LEMMA WorkerOwnership ==
  ASSUME TypeOK, HandleOwnership, NEW t \in Threads, BodyOver(t) \/ WorkerRun(t)
  PROVE  HandleOwnership'
  <1> USE DEF object, kernel, worker, client
  <1>1. CASE WorkerSwap(t) \/ DeleteThis(t)
    <2>1. /\ wh' = [wh EXCEPT ![t] = thread_handle_]
          /\ thread_handle_' = INVALID
          /\ UNCHANGED <<h, handle>>
      BY <1>1 DEF WorkerSwap, DeleteThis
    <2>2. SoleHolder'
      BY <2>1, ConstantsAssumption DEF HandleOwnership, SoleHolder, TypeOK
    <2>3. HeldIsOpen'
      BY <2>1, ConstantsAssumption DEF HandleOwnership, HeldIsOpen, TypeOK
    <2> QED
      BY <2>2, <2>3 DEF HandleOwnership
  <1>2. CASE WorkerClose(t)
    <2>1. /\ wh' = [wh EXCEPT ![t] = INVALID]
          /\ handle' = IF wh[t] \in Threads THEN [handle EXCEPT ![wh[t]] = "closed"]
                                           ELSE handle
          /\ UNCHANGED <<thread_handle_, h>>
      BY <1>2 DEF WorkerClose, CloseHandle
    <2>2. SoleHolder'
      BY <2>1, ConstantsAssumption DEF HandleOwnership, SoleHolder, TypeOK
    <2>3. HeldIsOpen'
      BY <2>1, ConstantsAssumption DEF HandleOwnership, SoleHolder, HeldIsOpen, TypeOK
    <2> QED
      BY <2>2, <2>3 DEF HandleOwnership
  <1>3. BodyOver(t) \/ CheckSelfDelete(t) \/ FreeThis(t) \/ WorkerFault(t)
          => UNCHANGED places
    BY DEF BodyOver, CheckSelfDelete, FreeThis, WorkerFault, places
  <1> QED
    BY <1>1, <1>2, <1>3, FrameOwnership DEF WorkerRun

\* No handle is ever owned twice or closed twice, whoever calls stop_thread, and even if
\* the thread is restarted while an earlier one is still ending.
THEOREM OwnershipKept == Spec => []HandleOwnership
  <1>1. Init => HandleOwnership
    BY ConstantsAssumption DEF Init, HandleOwnership, SoleHolder, HeldIsOpen
  <1>2. TypeOK /\ HandleOwnership /\ [Next]_vars => HandleOwnership'
    <2> SUFFICES ASSUME TypeOK, HandleOwnership, [Next]_vars PROVE HandleOwnership'
      OBVIOUS
    <2>1. ASSUME NEW c \in Clients, ClientCall(c) \/ ClientRun(c) PROVE HandleOwnership'
      BY <2>1, ClientCallOwnership, ClientRunOwnership
    <2>2. ASSUME NEW t \in Threads, BodyOver(t) \/ WorkerRun(t) PROVE HandleOwnership'
      BY <2>2, WorkerOwnership
    <2>3. CASE UNCHANGED vars
      BY <2>3, FrameOwnership DEF vars, object, kernel, worker, client, places
    <2> QED
      BY <2>1, <2>2, <2>3 DEF Next
  <1> QED
    BY <1>1, <1>2, TypeCorrect, PTL DEF Spec

-----------------------------------------------------------------------------
\* Only the owner starts threads and, until it has stored the handle, the member stays
\* empty; a thread that was created has got a handle.
Starting ==
  /\ \A c \in Clients : call[c] = "start" => c = Owner
  /\ \A c \in Clients : pc[c] \in {"start.create", "start.assign"} =>
       call[c] = "start" /\ thread_handle_ = INVALID

Born == \A t \in Threads : wpc[t] # "none" => handle[t] # "none"

LInv == TypeOK /\ HandleOwnership /\ Starting /\ Born

LEMMA StartingStep ==
  ASSUME TypeOK, Starting, [Next]_vars
  PROVE  Starting'
  <1> USE DEF Starting, TypeOK, Goto, Return, At, object, kernel, worker, client
  <1>1. ASSUME NEW c \in Clients, ClientCall(c) PROVE Starting'
    BY <1>1 DEF ClientCall, StartThread, StopThread, ResumeThread, SuspendThread, WaitFor,
                SetTerminate, SetAutodelete, DeleteObject, Enter
  <1>2. ASSUME NEW c \in Clients, Create(c) \/ CreateFails(c) \/ AssignHandle(c)
                                   \/ CheckHandle(c) \/ OnStart(c)
        PROVE  Starting'
    BY <1>2 DEF Create, CreateFails, AssignHandle, CheckHandle, OnStart
  <1>3. ASSUME NEW c \in Clients, ResumeRead(c) \/ ResumeCall(c)
        PROVE  Starting'
    BY <1>3 DEF ResumeRead, ResumeCall
  <1>4. ASSUME NEW c \in Clients, StopSwap(c) \/ CancelSelfDelete(c) \/ StopWaitOver(c)
                                   \/ StopWaitTimeout(c) \/ StopKill(c) \/ StopClose(c)
        PROVE  Starting'
    BY <1>4 DEF StopSwap, SwapOut, CancelSelfDelete, StopWaitOver, StopWaitTimeout,
                StopKill, StopClose
  <1>5. ASSUME NEW c \in Clients, SuspendCall(c) \/ WaitEnter(c) \/ WaitReturn(c)
                                   \/ DeleteSwap(c) \/ DeleteFree(c) \/ ClientFault(c)
        PROVE  Starting'
    BY <1>5 DEF SuspendCall, WaitEnter, WaitReturn, DeleteSwap, SwapOut, DeleteFree,
                ClientFault
  <1>6. ASSUME NEW t \in Threads, BodyOver(t) \/ WorkerRun(t) PROVE Starting'
    BY <1>6 DEF BodyOver, WorkerRun, WorkerSwap, WorkerClose, CheckSelfDelete, DeleteThis,
                FreeThis, WorkerFault, Runs
  <1>7. CASE UNCHANGED vars
    BY <1>7 DEF vars
  <1> QED
    BY <1>1, <1>2, <1>3, <1>4, <1>5, <1>6, <1>7 DEF Next, ClientRun

LEMMA BornStep ==
  ASSUME TypeOK, HandleOwnership, Born, [Next]_vars
  PROVE  Born'
  <1> USE DEF Born, TypeOK, object, kernel, worker, client
  <1>1. ASSUME NEW c \in Clients, ClientCall(c) PROVE Born'
    BY <1>1 DEF ClientCall, StartThread, StopThread, ResumeThread, SuspendThread, WaitFor,
                SetTerminate, SetAutodelete, DeleteObject
  <1>2. ASSUME NEW c \in Clients, ClientRun(c) PROVE Born'
    <2>1. CASE Create(c)
      BY <2>1 DEF Create
    <2>2. CASE StopKill(c) \/ DeleteFree(c)
      BY <2>2 DEF StopKill, DeleteFree, Terminate
    <2>3. CASE StopClose(c)
      BY <2>3 DEF StopClose, CloseHandle
    <2>4. CASE UNCHANGED <<wpc, handle>>
      BY <2>4
    <2> QED
      BY <1>2, <2>1, <2>2, <2>3, <2>4
      DEF ClientRun, CreateFails, AssignHandle, CheckHandle, OnStart, ResumeRead, ResumeCall,
          StopSwap, CancelSelfDelete, StopWaitOver, StopWaitTimeout, SuspendCall, WaitEnter,
          WaitReturn, DeleteSwap, ClientFault
  <1>3. ASSUME NEW t \in Threads, BodyOver(t) \/ WorkerRun(t) PROVE Born'
    <2> USE DEF Runs, WGoto
    <2>1. CASE FreeThis(t)
      <3>1. wh[t] \in Threads => handle[wh[t]] = "open"
        BY DEF HandleOwnership, HeldIsOpen
      <3> QED
        BY <2>1, <3>1 DEF FreeThis
    <2>2. CASE WorkerClose(t)
      BY <2>2 DEF WorkerClose, CloseHandle
    <2>3. CASE BodyOver(t) \/ WorkerSwap(t) \/ CheckSelfDelete(t) \/ DeleteThis(t)
               \/ WorkerFault(t)
      BY <2>3 DEF BodyOver, WorkerSwap, CheckSelfDelete, DeleteThis, WorkerFault,
                  WorkerTouches
    <2> QED
      BY <1>3, <2>1, <2>2, <2>3 DEF WorkerRun
  <1>4. CASE UNCHANGED vars
    BY <1>4 DEF vars
  <1> QED
    BY <1>1, <1>2, <1>3, <1>4 DEF Next

LEMMA LInvariant == Spec => []LInv
  <1>1. Init => Starting /\ Born
    BY DEF Init, Starting, Born
  <1>2. TypeOK /\ HandleOwnership /\ Starting /\ Born /\ [Next]_vars => (Starting /\ Born)'
    BY StartingStep, BornStep
  <1> QED
    BY <1>1, <1>2, TypeCorrect, OwnershipKept, PTL DEF Spec, LInv

-----------------------------------------------------------------------------
\* Steps that touch neither handles nor ends of threads are stutters of the life cycle.
LEMMA LeaseStutter ==
  ASSUME UNCHANGED <<thread_handle_, handle, wpc>>
  PROVE  UNCHANGED Lease!vars
  BY DEF Lease!vars, LeaseOf, Over

\* A step that only ends threads that were created is an End of the life cycle.
LEMMA LeaseEnds ==
  ASSUME LInv, UNCHANGED <<thread_handle_, handle>>, NEW T \in SUBSET Threads,
         \A t \in T : handle[t] # "none", Over' = Over \cup T
  PROVE  [Lease!Next]_(Lease!vars)
  <1>1. LeaseOf' = LeaseOf
    BY DEF LeaseOf
  <1>2. \A t \in T : LeaseOf[t] # "unborn"
    BY DEF LeaseOf
  <1>3. Lease!End(T)
    BY <1>1, <1>2 DEF Lease!End
  <1> QED
    BY <1>3 DEF Lease!Next

\* Taking the handle out of the member claims it.
LEMMA LeaseClaim ==
  ASSUME LInv, UNCHANGED handle, thread_handle_' = INVALID, Over' = Over,
         thread_handle_ \in Threads
  PROVE  [Lease!Next]_(Lease!vars)
  <1> DEFINE t == thread_handle_
  <1>1. handle[t] = "open"
    BY DEF LInv, HandleOwnership, HeldIsOpen
  <1>2. LeaseOf[t] = "shared"
    BY <1>1 DEF LeaseOf
  <1>3. LeaseOf' = [LeaseOf EXCEPT ![t] = "claimed"]
    BY <1>1, ConstantsAssumption DEF LeaseOf
  <1>4. Lease!Claim(t)
    BY <1>2, <1>3 DEF Lease!Claim, Lease!Move
  <1> QED
    BY <1>4 DEF Lease!Next

\* Closing a handle that is in nobody else's hands closes its lease.
LEMMA LeaseClose ==
  ASSUME LInv, NEW t \in Threads, handle[t] = "open", thread_handle_ # t,
         UNCHANGED thread_handle_, handle' = [handle EXCEPT ![t] = "closed"], Over' = Over
  PROVE  [Lease!Next]_(Lease!vars)
  <1>1. LeaseOf[t] = "claimed"
    BY DEF LeaseOf
  <1>2. LeaseOf' = [LeaseOf EXCEPT ![t] = "closed"]
    BY DEF LeaseOf, LInv, TypeOK
  <1>3. Lease!Close(t)
    BY <1>1, <1>2 DEF Lease!Close, Lease!Move
  <1> QED
    BY <1>3 DEF Lease!Next

LEMMA ClientCallLease ==
  ASSUME NEW c \in Clients, ClientCall(c)
  PROVE  UNCHANGED Lease!vars
  <1>1. UNCHANGED <<thread_handle_, handle, wpc>>
    BY DEF ClientCall, StartThread, StopThread, ResumeThread, SuspendThread, WaitFor,
           SetTerminate, SetAutodelete, DeleteObject, object, kernel, worker, client
  <1> QED
    BY <1>1, LeaseStutter

LEMMA ClientRunLease ==
  ASSUME LInv, NEW c \in Clients, ClientRun(c)
  PROVE  [Lease!Next]_(Lease!vars)
  <1> USE DEF object, kernel, worker, client
  <1>1. CASE Create(c)
    <2>1. PICK t \in Threads : /\ handle[t] = "none"
                              /\ handle' = [handle EXCEPT ![t] = "open"]
                              /\ wpc' = [wpc EXCEPT ![t] = "body"]
      BY <1>1 DEF Create
    <2>2. UNCHANGED thread_handle_ /\ thread_handle_ # t /\ wpc[t] = "none"
      BY <1>1, <2>1 DEF Create, LInv, HandleOwnership, HeldIsOpen, Born, TypeOK
    <2>3. LeaseOf[t] = "unborn" /\ LeaseOf' = [LeaseOf EXCEPT ![t] = "claimed"]
      BY <2>1, <2>2 DEF LeaseOf, LInv, TypeOK
    <2>4. Over' = Over
      BY <2>1, <2>2 DEF Over, LInv, TypeOK
    <2>5. Lease!Create(t)
      BY <2>3, <2>4 DEF Lease!Create, Lease!Move
    <2> QED
      BY <2>5 DEF Lease!Next
  <1>2. CASE AssignHandle(c)
    <2>1. /\ thread_handle_ = INVALID /\ thread_handle_' = h[c]
          /\ UNCHANGED <<handle, wpc>>
      BY <1>2 DEF AssignHandle, At, LInv, Starting
    <2>2. CASE h[c] \in Threads
      <3> DEFINE t == h[c]
      <3>1. handle[t] = "open"
        BY <2>2 DEF LInv, HandleOwnership, HeldIsOpen
      <3>2. LeaseOf[t] = "claimed" /\ \A u \in Threads : LeaseOf[u] # "shared"
        BY <2>1, <2>2, <3>1, ConstantsAssumption DEF LeaseOf
      <3>3. LeaseOf' = [LeaseOf EXCEPT ![t] = "shared"] /\ Over' = Over
        BY <2>1, <2>2, <3>1, ConstantsAssumption DEF LeaseOf, Over
      <3>4. Lease!Share(t)
        BY <3>2, <3>3 DEF Lease!Share, Lease!Move
      <3> QED
        BY <2>2, <3>4 DEF Lease!Next
    <2>3. CASE h[c] \notin Threads
      <3>1. LeaseOf' = LeaseOf /\ Over' = Over
        BY <2>1, <2>3, ConstantsAssumption DEF LeaseOf, Over
      <3> QED
        BY <3>1 DEF Lease!vars
    <2> QED
      BY <2>2, <2>3
  <1>3. CASE StopSwap(c) \/ DeleteSwap(c)
    <2>1. thread_handle_' = INVALID /\ UNCHANGED <<handle, wpc>>
      BY <1>3 DEF StopSwap, DeleteSwap, SwapOut
    <2>2. CASE thread_handle_ \in Threads
      BY <2>1, <2>2, LeaseClaim DEF Over
    <2>3. CASE thread_handle_ \notin Threads
      <3>1. LeaseOf' = LeaseOf /\ Over' = Over
        BY <2>1, <2>3, ConstantsAssumption DEF LeaseOf, Over
      <3> QED
        BY <3>1 DEF Lease!vars
    <2> QED
      BY <2>2, <2>3
  <1>4. CASE StopKill(c) \/ DeleteFree(c)
    <2> DEFINE T == IF h[c] \in Threads /\ handle[h[c]] = "open" THEN {h[c]} ELSE {}
    <2>1. UNCHANGED <<thread_handle_, handle>> /\ Terminate(h[c])
      BY <1>4 DEF StopKill, DeleteFree
    <2>2. Over' = Over \cup T
      BY <2>1 DEF Terminate, Over, LInv, TypeOK
    <2>3. T \in SUBSET Threads /\ \A t \in T : handle[t] # "none"
      OBVIOUS
    <2> QED
      BY <2>1, <2>2, <2>3, LeaseEnds
  <1>5. CASE StopClose(c)
    <2>1. UNCHANGED <<thread_handle_, wpc>> /\ CloseHandle(h[c])
      BY <1>5 DEF StopClose
    <2>2. CASE h[c] \in Threads
      <3>1. handle[h[c]] = "open" /\ thread_handle_ # h[c]
        BY <2>2 DEF LInv, HandleOwnership, SoleHolder, HeldIsOpen
      <3> QED
        BY <2>1, <2>2, <3>1, LeaseClose DEF CloseHandle, Over
    <2>3. CASE h[c] \notin Threads
      BY <2>1, <2>3, LeaseStutter DEF CloseHandle
    <2> QED
      BY <2>2, <2>3
  <1>6. CASE UNCHANGED <<thread_handle_, handle, wpc>>
    BY <1>6, LeaseStutter
  <1>7. CreateFails(c) \/ CheckHandle(c) \/ OnStart(c) \/ ResumeRead(c) \/ ResumeCall(c)
        \/ CancelSelfDelete(c) \/ StopWaitOver(c) \/ StopWaitTimeout(c)
        \/ SuspendCall(c) \/ WaitEnter(c) \/ WaitReturn(c) \/ ClientFault(c)
          => UNCHANGED <<thread_handle_, handle, wpc>>
    BY DEF CreateFails, CheckHandle, OnStart, ResumeRead, ResumeCall, CancelSelfDelete,
           StopWaitOver, StopWaitTimeout, SuspendCall, WaitEnter, WaitReturn, ClientFault
  <1> QED
    BY <1>1, <1>2, <1>3, <1>4, <1>5, <1>6, <1>7 DEF ClientRun

LEMMA WorkerLease ==
  ASSUME LInv, NEW t \in Threads, BodyOver(t) \/ WorkerRun(t)
  PROVE  [Lease!Next]_(Lease!vars)
  <1> USE DEF object, kernel, worker, client, Runs, WGoto
  <1>1. wpc[t] # "none" => handle[t] # "none"
    BY DEF LInv, Born
  <1>2. CASE WorkerSwap(t)
    <2>1. CASE thread_handle_ \in Threads
      <3>1. thread_handle_' = INVALID /\ UNCHANGED handle /\ Over' = Over
        BY <1>2, <2>1, ConstantsAssumption DEF WorkerSwap, Over, LInv, TypeOK
      <3> QED
        BY <2>1, <3>1, LeaseClaim
    <2>2. CASE thread_handle_ = NULL
      <3>1. LeaseOf' = LeaseOf /\ Over' = Over
        BY <1>2, <2>2, ConstantsAssumption DEF WorkerSwap, LeaseOf, Over, LInv, TypeOK
      <3> QED
        BY <3>1 DEF Lease!vars
    <2>3. CASE thread_handle_ = INVALID
      <3>1. UNCHANGED <<thread_handle_, handle>> /\ Over' = Over \cup {t}
        BY <1>2, <2>3 DEF WorkerSwap, Over, LInv, TypeOK
      <3>2. {t} \in SUBSET Threads /\ \A u \in {t} : handle[u] # "none"
        BY <1>1, <1>2 DEF WorkerSwap
      <3> QED
        BY <3>1, <3>2, LeaseEnds
    <2> QED
      BY <2>1, <2>2, <2>3 DEF LInv, TypeOK, Handles
  <1>3. CASE DeleteThis(t)
    <2>1. thread_handle_' = INVALID /\ UNCHANGED handle /\ Over' = Over
      BY <1>3 DEF DeleteThis, Over, LInv, TypeOK
    <2>2. CASE thread_handle_ \in Threads
      BY <2>1, <2>2, LeaseClaim
    <2>3. CASE thread_handle_ \notin Threads
      <3>1. LeaseOf' = LeaseOf
        BY <2>1, <2>3, ConstantsAssumption DEF LeaseOf
      <3> QED
        BY <2>1, <3>1 DEF Lease!vars
    <2> QED
      BY <2>2, <2>3
  <1>4. CASE WorkerClose(t)
    <2>1. UNCHANGED thread_handle_ /\ CloseHandle(wh[t]) /\ Over' = Over
      BY <1>4 DEF WorkerClose, Over, LInv, TypeOK
    <2>2. CASE wh[t] \in Threads
      <3>1. handle[wh[t]] = "open" /\ thread_handle_ # wh[t]
        BY <2>2 DEF LInv, HandleOwnership, SoleHolder, HeldIsOpen
      <3> QED
        BY <2>1, <2>2, <3>1, LeaseClose DEF CloseHandle
    <2>3. CASE wh[t] \notin Threads
      <3>1. LeaseOf' = LeaseOf
        BY <2>1, <2>3 DEF CloseHandle, LeaseOf
      <3> QED
        BY <2>1, <3>1 DEF Lease!vars
    <2> QED
      BY <2>2, <2>3
  <1>5. CASE CheckSelfDelete(t)
    <2> DEFINE T == IF self_delete_ THEN {} ELSE {t}
    <2>1. UNCHANGED <<thread_handle_, handle>> /\ Over' = Over \cup T
      BY <1>5 DEF CheckSelfDelete, Over, LInv, TypeOK
    <2>2. T \in SUBSET Threads /\ \A u \in T : handle[u] # "none"
      BY <1>1, <1>5 DEF CheckSelfDelete
    <2> QED
      BY <2>1, <2>2, LeaseEnds
  <1>6. CASE FreeThis(t)
    <2> DEFINE T == Threads \cap {t, wh[t]}
    <2>1. UNCHANGED <<thread_handle_, handle>> /\ Over' = Over \cup T
      BY <1>6 DEF FreeThis, Over, LInv, TypeOK
    <2>2. T \in SUBSET Threads /\ \A u \in T : handle[u] # "none"
      BY <1>1, <1>6 DEF FreeThis, LInv, HandleOwnership, HeldIsOpen
    <2> QED
      BY <2>1, <2>2, LeaseEnds
  <1>7. CASE BodyOver(t) \/ WorkerFault(t)
    <2>1. LeaseOf' = LeaseOf /\ Over' = Over
      BY <1>7 DEF BodyOver, WorkerFault, WorkerTouches, LeaseOf, Over, LInv, TypeOK
    <2> QED
      BY <2>1 DEF Lease!vars
  <1> QED
    BY <1>2, <1>3, <1>4, <1>5, <1>6, <1>7 DEF WorkerRun

\* CThread implements HandleLease: every handle is shared by one store, claimed by one
\* exchange and closed once by the claimant, and is never closed while it is shared.
THEOREM LeaseImplemented == Spec => LeaseSpec
  <1>1. Init => Lease!Init
    BY DEF Init, Lease!Init, LeaseOf, Over
  <1>2. LInv /\ [Next]_vars => [Lease!Next]_(Lease!vars)
    <2> SUFFICES ASSUME LInv, [Next]_vars PROVE [Lease!Next]_(Lease!vars)
      OBVIOUS
    <2>1. CASE UNCHANGED vars
      BY <2>1, LeaseStutter DEF vars, object, kernel, worker
    <2>2. ASSUME NEW c \in Clients, ClientCall(c) \/ ClientRun(c)
          PROVE  [Lease!Next]_(Lease!vars)
      BY <2>2, ClientCallLease, ClientRunLease
    <2>3. ASSUME NEW t \in Threads, BodyOver(t) \/ WorkerRun(t)
          PROVE  [Lease!Next]_(Lease!vars)
      BY <2>3, WorkerLease
    <2> QED
      BY <2>1, <2>2, <2>3 DEF Next
  <1> QED
    BY <1>1, <1>2, LInvariant, PTL DEF Spec, LeaseSpec, Lease!Spec
-----------------------------------------------------------------------------
(* What holds when the owner starts the thread again only after the previous one is    *)
(* over and no stop is in progress (Serial).                                           *)

\* A thread that uses up the one place a serial object has for a thread: it runs, or its
\* handle still has to be closed.
Live(t) == handle[t] = "open" \/ Running(t)

StartLabels == {"start.create", "start.assign", "start.check", "start.notify"}
StopLabels  == {"stop.swap", "stop.cancel", "stop.wait", "stop.kill", "stop.clear"}
HandLabels  == {"start.assign", "stop.cancel", "stop.wait", "stop.kill", "stop.clear",
                "delete.kill"}

\* A client is where its call can take it, and the destructor runs alone.
InCall(c) ==
  /\ pc[c] = "idle" <=> call[c] = "none"
  /\ pc[c] \in StopLabels => call[c] = "stop"
  /\ pc[c] \in StartLabels => call[c] = "start"
  /\ pc[c] \in {"delete.swap", "delete.kill"} => call[c] = "delete"

CallsAgree ==
  /\ \A c \in Clients : InCall(c)
  /\ \A c, d \in Clients : call[c] = "delete" /\ call[d] # "none" => d = c

\* Nobody has used freed memory.
Unharmed ==
  /\ \A c \in Clients : pc[c] # "fault"
  /\ \A t \in Threads : wpc[t] # "fault"

\* Who has a handle is on the way to store it, to close it or to free the object.
HandsEmpty ==
  /\ \A c \in Clients : h[c] # INVALID => pc[c] \in HandLabels
  /\ \A t \in Threads : wh[t] # INVALID => wpc[t] = "clear"

\* execute() takes out its own handle and closes that one.
OwnHandle ==
  \A t \in Threads :
    /\ wpc[t] = "none" => handle[t] = "none"
    /\ wpc[t] \in {"body", "swap"} => handle[t] = "open"
    /\ wpc[t] = "clear" => wh[t] = t
    /\ wpc[t] \in {"selfdelete", "delete", "free"} => handle[t] = "closed"

\* No open handle is lost.
Held ==
  \A t \in Threads : handle[t] = "open" =>
    thread_handle_ = t \/ (\E c \in Clients : h[c] = t) \/ (\E u \in Threads : wh[u] = t)

\* A stop closes the handle of a thread that is over.
Killed == \A c \in Clients : pc[c] = "stop.clear" /\ h[c] \in Threads => wpc[h[c]] = "ended"

\* There is at most one thread at a time, none after _beginthreadex failed and none when it
\* is about to be called.
OneLive == \A t, u \in Threads : Live(t) /\ Live(u) => t = u

Idle ==
  thread_handle_ = NULL \/ (\E c \in Clients : h[c] = NULL) => \A t \in Threads : ~Live(t)

Creates ==
  \A c \in Clients : pc[c] = "start.create" =>
    (\A t \in Threads : ~Live(t)) /\ \A d \in Clients : h[d] = INVALID

\* The part about handles.
Hold == HandsEmpty /\ Held /\ OwnHandle /\ Killed /\ OneLive /\ Idle /\ Creates

Sane == CallsAgree /\ Unharmed /\ Hold

\* While the object exists; afterwards no stop is left that owns a handle.
SInv ==
  /\ alive => Sane
  /\ ~alive => \A c \in Clients : ~(call[c] = "stop" /\ h[c] \in Threads)

\* A step of client c leaves the labels and the calls of the others alone.
OthersStay(c) == \A d \in Clients \ {c} : pc'[d] = pc[d] /\ call'[d] = call[d]

LEMMA OneClientAgrees ==
  ASSUME CallsAgree, NEW c \in Clients, OthersStay(c), InCall(c)',
         call'[c] \in {"none", call[c]} \/
           /\ \A d \in Clients : call[d] # "delete"
           /\ call'[c] = "delete" => \A d \in Clients : call[d] = "none"
  PROVE  CallsAgree'
  <1> USE DEF OthersStay, CallsAgree
  <1>1. ASSUME NEW d \in Clients PROVE InCall(d)'
    BY <1>1 DEF InCall
  <1>2. ASSUME NEW d \in Clients, NEW e \in Clients, (call[d] = "delete" /\ call[e] # "none")'
        PROVE  e = d
    BY <1>2
  <1> QED
    BY <1>1, <1>2

LEMMA CallsAgreeStep ==
  ASSUME LInv, alive, Sane, [Next]_vars
  PROVE  CallsAgree'
  <1> USE DEF LInv, TypeOK, Goto, Return, At, object, kernel, worker, client
  <1>1. ASSUME NEW c \in Clients, ClientCall(c) PROVE CallsAgree'
    <2> USE DEF InCall, StartLabels, StopLabels
    <2>1. CASE UNCHANGED <<pc, call>>
      BY <2>1 DEF Sane, CallsAgree
    <2>2. CASE \/ StartThread(c) \/ StopThread(c) \/ ResumeThread(c) \/ SuspendThread(c)
               \/ WaitFor(c) \/ DeleteObject(c)
      <3>1. OthersStay(c) /\ InCall(c)'
        BY <2>2 DEF OthersStay, StartThread, StopThread, ResumeThread, SuspendThread, WaitFor,
                    DeleteObject, Enter
      <3>2. /\ \A d \in Clients : call[d] # "delete"
            /\ call'[c] = "delete" => \A d \in Clients : call[d] = "none"
        BY <2>2 DEF StartThread, StopThread, ResumeThread, SuspendThread, WaitFor,
                    DeleteObject, Enter, Callable, Sane, CallsAgree
      <3> QED
        BY <3>1, <3>2, OneClientAgrees DEF Sane
    <2> QED
      BY <1>1, <2>1, <2>2 DEF ClientCall, SetTerminate, SetAutodelete
  <1>2. ASSUME NEW c \in Clients, ClientRun(c) PROVE CallsAgree'
    <2>1. OthersStay(c) /\ InCall(c)' /\ call'[c] \in {"none", call[c]}
      <3> USE DEF OthersStay, InCall, StopLabels, StartLabels
      <3>1. InCall(c)
        BY DEF Sane, CallsAgree
      <3>2. CASE Create(c) \/ CreateFails(c) \/ AssignHandle(c) \/ CheckHandle(c) \/ OnStart(c)
        BY <3>1, <3>2 DEF Create, CreateFails, AssignHandle, CheckHandle, OnStart
      <3>3. CASE ResumeRead(c) \/ ResumeCall(c)
        BY <3>1, <3>3 DEF ResumeRead, ResumeCall
      <3>4. CASE StopSwap(c) \/ CancelSelfDelete(c) \/ StopWaitOver(c) \/ StopWaitTimeout(c)
                 \/ StopKill(c) \/ StopClose(c)
        BY <3>1, <3>4 DEF StopSwap, SwapOut, CancelSelfDelete, StopWaitOver, StopWaitTimeout,
                    StopKill, StopClose
      <3>5. CASE SuspendCall(c) \/ WaitEnter(c) \/ WaitReturn(c) \/ DeleteSwap(c)
                 \/ DeleteFree(c)
        BY <3>1, <3>5 DEF SuspendCall, WaitEnter, WaitReturn, DeleteSwap, SwapOut, DeleteFree
      <3> QED
        BY <1>2, <3>2, <3>3, <3>4, <3>5 DEF ClientRun, ClientFault
    <2> QED
      BY <2>1, OneClientAgrees DEF Sane
  <1>3. ASSUME NEW t \in Threads, BodyOver(t) \/ WorkerRun(t) PROVE CallsAgree'
    BY <1>3 DEF BodyOver, WorkerRun, WorkerSwap, WorkerClose, CheckSelfDelete, DeleteThis,
                FreeThis, WorkerFault, Runs, CallsAgree, Sane, InCall
  <1>4. CASE UNCHANGED vars
    BY <1>4 DEF vars, CallsAgree, Sane, InCall
  <1> QED
    BY <1>1, <1>2, <1>3, <1>4 DEF Next

-----------------------------------------------------------------------------
\* Steps of client c that move no handle and end no thread.
LEMMA MovesNothing ==
  ASSUME Hold, NEW c \in Clients, OthersStay(c),
         UNCHANGED <<thread_handle_, handle, wpc, wh, h>>,
         h[c] # INVALID => pc'[c] \in HandLabels,
         pc'[c] = "stop.clear" /\ h[c] \in Threads => wpc[h[c]] = "ended",
         pc'[c] = "start.create" => /\ \A t \in Threads : ~Live(t)
                                    /\ \A d \in Clients : h[d] = INVALID
  PROVE  Hold'
  <1> USE DEF Hold, OthersStay, Live, Running
  <1>1. HandsEmpty'
    BY DEF HandsEmpty
  <1>2. Held'
    BY DEF Held
  <1>3. OwnHandle'
    BY DEF OwnHandle
  <1>4. Killed'
    BY DEF Killed
  <1>5. OneLive'
    BY DEF OneLive
  <1>6. Idle'
    BY DEF Idle
  <1>7. Creates'
    BY DEF Creates
  <1> QED
    BY <1>1, <1>2, <1>3, <1>4, <1>5, <1>6, <1>7

\* A thread that runs and an open handle belong together.
LEMMA RunsAlone ==
  ASSUME Hold, HandleOwnership, NEW t \in Threads, Running(t)
  PROVE  /\ thread_handle_ # NULL
         /\ thread_handle_ \in Threads => thread_handle_ = t
         /\ \A u \in Threads \ {t} : handle[u] # "open" /\ ~Running(u)
  <1> USE DEF Live
  <1>1. thread_handle_ # NULL
    BY DEF Hold, Idle
  <1>2. thread_handle_ \in Threads => Live(thread_handle_)
    BY DEF HandleOwnership, HeldIsOpen
  <1> QED
    BY <1>1, <1>2 DEF Hold, OneLive

\* A handle that a client owns is not in a thread's hands, and the thread is not past its
\* exchange.
LEMMA Stopped ==
  ASSUME LInv, Hold, NEW c \in Clients, h[c] \in Threads, Unharmed
  PROVE  wpc[h[c]] \in {"body", "swap", "ended"} /\ wh[h[c]] = INVALID
  <1> DEFINE t == h[c]
  <1>1. handle[t] = "open"
    BY DEF LInv, HandleOwnership, HeldIsOpen
  <1>2. wpc[t] # "clear"
    BY DEF LInv, HandleOwnership, SoleHolder, Hold, OwnHandle
  <1>3. wpc[t] \in WorkerLabels /\ wpc[t] # "fault"
    BY DEF LInv, TypeOK, Unharmed
  <1>4. wpc[t] \notin {"none", "selfdelete", "delete", "free"}
    BY <1>1 DEF Hold, OwnHandle
  <1>5. wpc[t] \in {"body", "swap", "ended"}
    BY <1>2, <1>3, <1>4 DEF WorkerLabels, WorkerTouches
  <1> QED
    BY <1>2, <1>5 DEF Hold, HandsEmpty

LEMMA CreateHolds ==
  ASSUME LInv, Hold, NEW c \in Clients, Create(c)
  PROVE  Hold'
  <1> USE DEF Hold, Live, Running, LInv, TypeOK, HandLabels
  <1>1. PICK t \in Threads :
          /\ handle[t] = "none" /\ handle' = [handle EXCEPT ![t] = "open"]
          /\ wpc' = [wpc EXCEPT ![t] = "body"] /\ h' = [h EXCEPT ![c] = t]
    BY DEF Create
  <1>2. pc' = [pc EXCEPT ![c] = "start.assign"] /\ UNCHANGED <<thread_handle_, wh>>
    BY DEF Create, Goto, object
  <1>3. /\ pc[c] = "start.create" /\ thread_handle_ = INVALID
        /\ \A u \in Threads : handle[u] # "open" /\ wpc[u] \in {"none", "ended"}
        /\ \A d \in Clients : h[d] = INVALID
    BY DEF Create, At, Creates, Starting
  <1>4. \A u \in Threads : wh[u] = INVALID
    BY <1>3 DEF HandsEmpty
  <1>5. \A d \in Clients : pc[d] = "start.create" => d = c
    BY <1>3 DEF Starting
  <1>11. HandsEmpty'
    BY <1>1, <1>2, <1>3, <1>4, <1>5, ConstantsAssumption DEF HandsEmpty
  <1>12. Held'
    BY <1>1, <1>2, <1>3, <1>4, <1>5, ConstantsAssumption DEF Held
  <1>13. OwnHandle'
    BY <1>1, <1>2, <1>3, <1>4, <1>5, ConstantsAssumption DEF OwnHandle
  <1>14. Killed'
    BY <1>1, <1>2, <1>3, <1>4, <1>5, ConstantsAssumption DEF Killed
  <1>15. OneLive'
    BY <1>1, <1>2, <1>3, <1>4, <1>5, ConstantsAssumption DEF OneLive
  <1>16. Idle'
    BY <1>1, <1>2, <1>3, <1>4, <1>5, ConstantsAssumption DEF Idle
  <1>17. Creates'
    BY <1>1, <1>2, <1>3, <1>4, <1>5, ConstantsAssumption DEF Creates
  <1> QED
    BY <1>11, <1>12, <1>13, <1>14, <1>15, <1>16, <1>17 DEF Hold

LEMMA CreateFailsHolds ==
  ASSUME LInv, Hold, NEW c \in Clients, CreateFails(c)
  PROVE  Hold'
  <1> USE DEF Hold, Live, Running, LInv, TypeOK, HandLabels
  <1>1. /\ h' = [h EXCEPT ![c] = NULL] /\ pc' = [pc EXCEPT ![c] = "start.assign"]
        /\ UNCHANGED <<thread_handle_, handle, wpc, wh>>
    BY DEF CreateFails, Goto, object, kernel, worker
  <1>2. /\ pc[c] = "start.create" /\ thread_handle_ = INVALID
        /\ \A u \in Threads : ~Live(u)
        /\ \A d \in Clients : h[d] = INVALID
    BY DEF CreateFails, At, Creates, Starting
  <1>3. \A d \in Clients : pc[d] = "start.create" => d = c
    BY <1>2 DEF Starting
  <1>11. HandsEmpty'
    BY <1>1, <1>2, <1>3, ConstantsAssumption DEF HandsEmpty
  <1>12. Held'
    BY <1>1, <1>2, <1>3, ConstantsAssumption DEF Held
  <1>13. OwnHandle'
    BY <1>1, <1>2, <1>3, ConstantsAssumption DEF OwnHandle
  <1>14. Killed'
    BY <1>1, <1>2, <1>3, ConstantsAssumption DEF Killed
  <1>15. OneLive'
    BY <1>1, <1>2, <1>3, ConstantsAssumption DEF OneLive
  <1>16. Idle'
    BY <1>1, <1>2, <1>3, ConstantsAssumption DEF Idle
  <1>17. Creates'
    BY <1>1, <1>2, <1>3, ConstantsAssumption DEF Creates
  <1> QED
    BY <1>11, <1>12, <1>13, <1>14, <1>15, <1>16, <1>17 DEF Hold

LEMMA AssignHolds ==
  ASSUME LInv, Hold, NEW c \in Clients, AssignHandle(c)
  PROVE  Hold'
  <1> USE DEF Hold, Live, Running, LInv, TypeOK, HandLabels
  <1>1. /\ thread_handle_' = h[c] /\ h' = [h EXCEPT ![c] = INVALID]
        /\ pc' = [pc EXCEPT ![c] = "start.check"] /\ UNCHANGED <<handle, wpc, wh>>
    BY DEF AssignHandle, Goto, kernel, worker
  <1>2. thread_handle_ = INVALID
    BY DEF AssignHandle, At, Starting
  <1>11. HandsEmpty'
    BY <1>1, <1>2, ConstantsAssumption DEF HandsEmpty
  <1>12. Held'
    BY <1>1, <1>2, ConstantsAssumption DEF Held
  <1>13. OwnHandle'
    BY <1>1, <1>2, ConstantsAssumption DEF OwnHandle
  <1>14. Killed'
    BY <1>1, <1>2, ConstantsAssumption DEF Killed
  <1>15. OneLive'
    BY <1>1, <1>2, ConstantsAssumption DEF OneLive
  <1>16. Idle'
    BY <1>1, <1>2, ConstantsAssumption DEF Idle
  <1>17. Creates'
    BY <1>1, <1>2, ConstantsAssumption DEF Creates
  <1> QED
    BY <1>11, <1>12, <1>13, <1>14, <1>15, <1>16, <1>17 DEF Hold

\* The exchange of stop_thread and of the destructor.
LEMMA SwapHolds ==
  ASSUME LInv, Hold, NEW c \in Clients, SwapOut(c), OthersStay(c),
         pc[c] \in {"stop.swap", "delete.swap"},
         UNCHANGED <<handle, wpc, wh>>,
         thread_handle_ # INVALID => pc'[c] \in HandLabels,
         pc'[c] \notin {"stop.clear", "start.create"}
  PROVE  Hold'
  <1> USE DEF Hold, Live, Running, LInv, TypeOK, SwapOut, OthersStay
  <1>1. h[c] = INVALID
    BY DEF HandsEmpty, HandLabels
  <1>2. \A d \in Clients : pc[d] = "start.create" => thread_handle_ = INVALID
    BY DEF Starting
  <1>11. HandsEmpty'
    BY <1>1, <1>2, ConstantsAssumption DEF HandsEmpty
  <1>12. Held'
    BY <1>1, <1>2, ConstantsAssumption DEF Held
  <1>13. OwnHandle'
    BY <1>1, <1>2, ConstantsAssumption DEF OwnHandle
  <1>14. Killed'
    BY <1>1, <1>2, ConstantsAssumption DEF Killed
  <1>15. OneLive'
    BY <1>1, <1>2, ConstantsAssumption DEF OneLive
  <1>16. Idle'
    BY <1>1, <1>2, ConstantsAssumption DEF Idle
  <1>17. Creates'
    BY <1>1, <1>2, ConstantsAssumption DEF Creates
  <1> QED
    BY <1>11, <1>12, <1>13, <1>14, <1>15, <1>16, <1>17 DEF Hold

\* TerminateThread hits a thread that still has all its work before it, or none.
LEMMA KillHolds ==
  ASSUME LInv, Hold, Unharmed, NEW c \in Clients, StopKill(c)
  PROVE  Hold'
  <1> USE DEF Hold, Live, Running, LInv, TypeOK, HandLabels
  <1>1. /\ UNCHANGED <<thread_handle_, handle, wh, h>>
        /\ pc' = [pc EXCEPT ![c] = "stop.clear"] /\ pc[c] = "stop.kill"
        /\ wpc' = IF h[c] \in Threads /\ handle[h[c]] = "open"
                  THEN [wpc EXCEPT ![h[c]] = "ended"] ELSE wpc
    BY DEF StopKill, Goto, At, Terminate, object, kernel
  <1>2. h[c] \in Threads => wh[h[c]] = INVALID /\ handle[h[c]] = "open"
    BY Stopped DEF HandleOwnership, HeldIsOpen
  <1>11. HandsEmpty'
    BY <1>1, <1>2, ConstantsAssumption DEF HandsEmpty
  <1>12. Held'
    BY <1>1, <1>2, ConstantsAssumption DEF Held
  <1>13. OwnHandle'
    BY <1>1, <1>2, ConstantsAssumption DEF OwnHandle
  <1>14. Killed'
    BY <1>1, <1>2, ConstantsAssumption DEF Killed
  <1>15. OneLive'
    BY <1>1, <1>2, ConstantsAssumption DEF OneLive
  <1>16. Idle'
    BY <1>1, <1>2, ConstantsAssumption DEF Idle
  <1>17. Creates'
    BY <1>1, <1>2, ConstantsAssumption DEF Creates
  <1> QED
    BY <1>11, <1>12, <1>13, <1>14, <1>15, <1>16, <1>17 DEF Hold

LEMMA StopCloseHolds ==
  ASSUME LInv, Hold, NEW c \in Clients, StopClose(c)
  PROVE  Hold'
  <1> USE DEF Hold, Live, Running, LInv, TypeOK, HandLabels
  <1>1. /\ UNCHANGED <<thread_handle_, wpc, wh>>
        /\ pc' = [pc EXCEPT ![c] = "idle"] /\ pc[c] = "stop.clear"
        /\ h' = [h EXCEPT ![c] = INVALID]
        /\ handle' = IF h[c] \in Threads THEN [handle EXCEPT ![h[c]] = "closed"] ELSE handle
    BY DEF StopClose, Return, At, CloseHandle, object, worker
  <1>2. h[c] \in Threads => wpc[h[c]] = "ended"
    BY <1>1 DEF Killed
  <1>11. HandsEmpty'
    BY <1>1, <1>2, ConstantsAssumption DEF HandsEmpty
  <1>12. Held'
    BY <1>1, <1>2, ConstantsAssumption DEF Held
  <1>13. OwnHandle'
    BY <1>1, <1>2, ConstantsAssumption DEF OwnHandle
  <1>14. Killed'
    BY <1>1, <1>2, ConstantsAssumption DEF Killed
  <1>15. OneLive'
    BY <1>1, <1>2, ConstantsAssumption DEF OneLive
  <1>16. Idle'
    BY <1>1, <1>2, ConstantsAssumption DEF Idle
  <1>17. Creates'
    BY <1>1, <1>2, ConstantsAssumption DEF Creates
  <1> QED
    BY <1>11, <1>12, <1>13, <1>14, <1>15, <1>16, <1>17 DEF Hold

\* Thread t goes on and hands nothing over.
LEMMA WorkerMovesHolds ==
  ASSUME LInv, Hold, NEW t \in Threads, NEW to \in WorkerLabels,
         UNCHANGED <<thread_handle_, handle, wh, h, pc>>, WGoto(t, to),
         wpc[t] # "clear", Running(t), to \notin {"none", "clear"},
         to \in {"body", "swap"} => handle[t] = "open",
         to \in {"selfdelete", "delete", "free"} => handle[t] = "closed"
  PROVE  Hold'
  <1> USE DEF Hold, Live, Running, LInv, TypeOK, WGoto
  <1>11. HandsEmpty'
    BY ConstantsAssumption DEF HandsEmpty
  <1>12. Held'
    BY ConstantsAssumption DEF Held
  <1>13. OwnHandle'
    BY ConstantsAssumption DEF OwnHandle
  <1>14. Killed'
    BY ConstantsAssumption DEF Killed
  <1>15. OneLive'
    BY ConstantsAssumption DEF OneLive
  <1>16. Idle'
    BY ConstantsAssumption DEF Idle
  <1>17. Creates'
    BY ConstantsAssumption DEF Creates
  <1> QED
    BY <1>11, <1>12, <1>13, <1>14, <1>15, <1>16, <1>17 DEF Hold

LEMMA WorkerSwapHolds ==
  ASSUME LInv, Hold, NEW t \in Threads, WorkerSwap(t)
  PROVE  Hold'
  <1> USE DEF Hold, Live, Running, LInv, TypeOK
  <1>1. /\ wpc[t] = "swap" /\ UNCHANGED <<handle, h, pc>>
        /\ wh' = [wh EXCEPT ![t] = thread_handle_] /\ thread_handle_' = INVALID
        /\ wpc' = [wpc EXCEPT ![t] = IF thread_handle_ = INVALID THEN "ended" ELSE "clear"]
    BY DEF WorkerSwap, Runs, WGoto, kernel, client
  <1>2. thread_handle_ \in {INVALID, t}
    BY <1>1, RunsAlone DEF Handles
  <1>3. wh[t] = INVALID
    BY <1>1 DEF HandsEmpty
  <1>11. HandsEmpty'
    BY <1>1, <1>2, <1>3, ConstantsAssumption DEF HandsEmpty
  <1>12. Held'
    BY <1>1, <1>2, <1>3, ConstantsAssumption DEF Held
  <1>13. OwnHandle'
    BY <1>1, <1>2, <1>3, ConstantsAssumption DEF OwnHandle
  <1>14. Killed'
    BY <1>1, <1>2, <1>3, ConstantsAssumption DEF Killed
  <1>15. OneLive'
    BY <1>1, <1>2, <1>3, ConstantsAssumption DEF OneLive
  <1>16. Idle'
    BY <1>1, <1>2, <1>3, ConstantsAssumption DEF Idle
  <1>17. Creates'
    BY <1>1, <1>2, <1>3, ConstantsAssumption DEF Creates
  <1> QED
    BY <1>11, <1>12, <1>13, <1>14, <1>15, <1>16, <1>17 DEF Hold

LEMMA WorkerCloseHolds ==
  ASSUME LInv, Hold, NEW t \in Threads, WorkerClose(t)
  PROVE  Hold'
  <1> USE DEF Hold, Live, Running, LInv, TypeOK
  <1>1. /\ wpc[t] = "clear" /\ wh[t] = t /\ UNCHANGED <<thread_handle_, h, pc>>
        /\ wh' = [wh EXCEPT ![t] = INVALID] /\ handle' = [handle EXCEPT ![t] = "closed"]
        /\ wpc' = [wpc EXCEPT ![t] = "selfdelete"]
    BY DEF WorkerClose, Runs, WGoto, CloseHandle, OwnHandle, object, client
  <1>2. \A c \in Clients : h[c] # t
    BY <1>1 DEF HandleOwnership, SoleHolder
  <1>11. HandsEmpty'
    BY <1>1, <1>2, ConstantsAssumption DEF HandsEmpty
  <1>12. Held'
    BY <1>1, <1>2, ConstantsAssumption DEF Held
  <1>13. OwnHandle'
    BY <1>1, <1>2, ConstantsAssumption DEF OwnHandle
  <1>14. Killed'
    BY <1>1, <1>2, ConstantsAssumption DEF Killed
  <1>15. OneLive'
    BY <1>1, <1>2, ConstantsAssumption DEF OneLive
  <1>16. Idle'
    BY <1>1, <1>2, ConstantsAssumption DEF Idle
  <1>17. Creates'
    BY <1>1, <1>2, ConstantsAssumption DEF Creates
  <1> QED
    BY <1>11, <1>12, <1>13, <1>14, <1>15, <1>16, <1>17 DEF Hold

\* The destructor finds no handle when the thread runs it itself.
LEMMA DeleteThisHolds ==
  ASSUME LInv, Hold, NEW t \in Threads, DeleteThis(t)
  PROVE  Hold'
  <1> USE DEF Hold, Live, Running, LInv, TypeOK
  <1>1. /\ wpc[t] = "delete" /\ UNCHANGED <<handle, h, pc>>
        /\ wh' = [wh EXCEPT ![t] = thread_handle_] /\ thread_handle_' = INVALID
        /\ wpc' = [wpc EXCEPT ![t] = "free"]
    BY DEF DeleteThis, Runs, WGoto, kernel, client
  <1>2. handle[t] = "closed" /\ wh[t] = INVALID
    BY <1>1 DEF OwnHandle, HandsEmpty
  <1>3. thread_handle_ = INVALID
    BY <1>1, <1>2, RunsAlone DEF Handles, HandleOwnership, HeldIsOpen
  <1>11. HandsEmpty'
    BY <1>1, <1>2, <1>3, ConstantsAssumption DEF HandsEmpty
  <1>12. Held'
    BY <1>1, <1>2, <1>3, ConstantsAssumption DEF Held
  <1>13. OwnHandle'
    BY <1>1, <1>2, <1>3, ConstantsAssumption DEF OwnHandle
  <1>14. Killed'
    BY <1>1, <1>2, <1>3, ConstantsAssumption DEF Killed
  <1>15. OneLive'
    BY <1>1, <1>2, <1>3, ConstantsAssumption DEF OneLive
  <1>16. Idle'
    BY <1>1, <1>2, <1>3, ConstantsAssumption DEF Idle
  <1>17. Creates'
    BY <1>1, <1>2, <1>3, ConstantsAssumption DEF Creates
  <1> QED
    BY <1>11, <1>12, <1>13, <1>14, <1>15, <1>16, <1>17 DEF Hold

-----------------------------------------------------------------------------
\* Calls: only start_thread needs the owner's discipline.
LEMMA ClientCallHolds ==
  ASSUME LInv, Sane, Serial, NEW c \in Clients, ClientCall(c)
  PROVE  Hold'
  <1> USE DEF Sane, object, kernel, worker, client
  <1>1. UNCHANGED <<thread_handle_, handle, wpc, wh, h>> /\ OthersStay(c)
    BY DEF ClientCall, StartThread, StopThread, ResumeThread, SuspendThread, WaitFor,
           SetTerminate, SetAutodelete, DeleteObject, Enter, OthersStay, LInv, TypeOK
  <1>2. pc[c] = "idle" /\ pc'[c] # "stop.clear"
    BY DEF ClientCall, StartThread, StopThread, ResumeThread, SuspendThread, WaitFor,
           SetTerminate, SetAutodelete, DeleteObject, Enter, Callable, LInv, TypeOK
  <1>3. h[c] = INVALID
    BY <1>2 DEF Hold, HandsEmpty, HandLabels
  <1>4. ASSUME pc'[c] = "start.create"
        PROVE  /\ \A t \in Threads : ~Live(t)
               /\ \A d \in Clients : h[d] = INVALID
    <2>1. StartThread(c)
      BY <1>2, <1>4 DEF ClientCall, StopThread, ResumeThread, SuspendThread, WaitFor,
             SetTerminate, SetAutodelete, DeleteObject, Enter, LInv, TypeOK
    <2>2. /\ c = Owner /\ thread_handle_ = INVALID
          /\ \A d \in Clients : call[d] \notin {"stop", "delete"}
          /\ \A t \in Threads : ~Running(t)
      BY <2>1 DEF StartThread, Enter, Callable
    <2>3. ASSUME NEW d \in Clients PROVE h[d] = INVALID
      <3>1. call[d] = "start" => d = c
        BY <2>2 DEF LInv, Starting
      <3>2. pc[d] \notin HandLabels
        BY <1>2, <2>2, <3>1 DEF CallsAgree, InCall, HandLabels, StopLabels, StartLabels
      <3> QED
        BY <3>2 DEF Hold, HandsEmpty
    <2>4. ASSUME NEW t \in Threads PROVE wh[t] = INVALID
      BY <2>2 DEF Hold, HandsEmpty, Running
    <2>5. ASSUME NEW t \in Threads PROVE handle[t] # "open"
      BY <2>2, <2>3, <2>4, ConstantsAssumption DEF Hold, Held
    <2> QED
      BY <2>2, <2>3, <2>5 DEF Live
  <1> QED
    BY <1>1, <1>2, <1>3, <1>4, MovesNothing

\* Every further step of a call that leaves the object alone ...
LEMMA ClientRunHolds ==
  ASSUME LInv, Sane, alive, alive', NEW c \in Clients, ClientRun(c)
  PROVE  Hold'
  <1> USE DEF Sane, object, kernel, worker, client
  <1>1. CASE Create(c) \/ CreateFails(c) \/ AssignHandle(c)
    BY <1>1, CreateHolds, CreateFailsHolds, AssignHolds
  <1>2. CASE StopSwap(c)
    <2>1. /\ SwapOut(c) /\ OthersStay(c) /\ pc[c] = "stop.swap"
          /\ UNCHANGED <<handle, wpc, wh>>
          /\ pc'[c] = IF thread_handle_ = INVALID THEN "idle" ELSE "stop.cancel"
      BY <1>2 DEF StopSwap, At, Return, Goto, OthersStay, LInv, TypeOK
    <2> QED
      BY <2>1, SwapHolds DEF HandLabels
  <1>3. CASE DeleteSwap(c)
    <2>1. /\ SwapOut(c) /\ OthersStay(c) /\ pc[c] = "delete.swap"
          /\ UNCHANGED <<handle, wpc, wh>> /\ pc'[c] = "delete.kill"
      BY <1>3 DEF DeleteSwap, At, Goto, OthersStay, LInv, TypeOK
    <2> QED
      BY <2>1, SwapHolds DEF HandLabels
  <1>4. CASE StopKill(c) \/ StopClose(c)
    BY <1>4, KillHolds, StopCloseHolds
  <1>5. CASE CheckHandle(c) \/ OnStart(c) \/ ResumeRead(c) \/ ResumeCall(c) \/ SuspendCall(c)
             \/ WaitEnter(c) \/ WaitReturn(c)
    <2>1. /\ UNCHANGED <<thread_handle_, handle, wpc, wh, h>> /\ OthersStay(c)
          /\ pc[c] \notin HandLabels /\ pc'[c] \notin {"stop.clear", "start.create"}
      BY <1>5 DEF CheckHandle, OnStart, ResumeRead, ResumeCall, SuspendCall, WaitEnter,
                  WaitReturn, At, Goto, Return, OthersStay, HandLabels, LInv, TypeOK
    <2>2. h[c] = INVALID
      BY <2>1 DEF Hold, HandsEmpty
    <2> QED
      BY <2>1, <2>2, MovesNothing
  <1>6. CASE CancelSelfDelete(c) \/ StopWaitOver(c) \/ StopWaitTimeout(c)
    <2>1. /\ UNCHANGED <<thread_handle_, handle, wpc, wh, h>> /\ OthersStay(c)
          /\ pc'[c] \in {"stop.wait", "stop.kill", "stop.clear"}
          /\ pc'[c] = "stop.clear" => wpc[h[c]] = "ended"
      BY <1>6 DEF CancelSelfDelete, StopWaitOver, StopWaitTimeout, At, Goto, OthersStay,
                  LInv, TypeOK
    <2> QED
      BY <2>1, MovesNothing DEF HandLabels
  <1>7. ~DeleteFree(c) /\ ~ClientFault(c)
    BY DEF DeleteFree, ClientFault
  <1> QED
    BY <1>1, <1>2, <1>3, <1>4, <1>5, <1>6, <1>7 DEF ClientRun

\* ... and every such step of a thread.
LEMMA WorkerHolds ==
  ASSUME LInv, Sane, alive, alive', NEW t \in Threads, BodyOver(t) \/ WorkerRun(t)
  PROVE  Hold'
  <1> USE DEF Sane
  <1>1. CASE BodyOver(t) \/ CheckSelfDelete(t)
    <2>1. PICK to \in WorkerLabels :
            /\ UNCHANGED <<thread_handle_, handle, wh, h, pc>> /\ WGoto(t, to)
            /\ wpc[t] \in {"body", "selfdelete"} /\ to \in {"swap", "delete", "ended"}
            /\ wpc[t] = "body" <=> to = "swap"
      BY <1>1 DEF BodyOver, CheckSelfDelete, Runs, object, kernel, client, WorkerLabels,
                  WorkerTouches
    <2>2. /\ to = "swap" => handle[t] = "open"
          /\ to = "delete" => handle[t] = "closed"
      BY <2>1 DEF Hold, OwnHandle
    <2> QED
      BY <2>1, <2>2, WorkerMovesHolds DEF Running
  <1>2. CASE WorkerSwap(t) \/ WorkerClose(t) \/ DeleteThis(t)
    BY <1>2, WorkerSwapHolds, WorkerCloseHolds, DeleteThisHolds
  <1>3. ~FreeThis(t) /\ ~WorkerFault(t)
    BY DEF FreeThis, WorkerFault
  <1> QED
    BY <1>1, <1>2, <1>3 DEF WorkerRun

\* While there is an object nobody uses freed memory.
LEMMA UnharmedStep ==
  ASSUME LInv, Sane, alive, [Next]_vars
  PROVE  Unharmed'
  <1> USE DEF LInv, TypeOK, Sane, Unharmed, Goto, Return, object, kernel, worker, client
  <1>1. ASSUME NEW c \in Clients, ClientCall(c) PROVE Unharmed'
    BY <1>1 DEF ClientCall, StartThread, StopThread, ResumeThread, SuspendThread, WaitFor,
                SetTerminate, SetAutodelete, DeleteObject, Enter
  <1>2. ASSUME NEW c \in Clients, ClientRun(c) PROVE Unharmed'
    <2>1. /\ \A d \in Clients : pc'[d] = pc[d] \/ pc'[d] # "fault"
          /\ \A t \in Threads : wpc'[t] = wpc[t] \/ wpc'[t] \in {"body", "ended"}
      BY <1>2 DEF ClientRun, Create, CreateFails, AssignHandle, CheckHandle, OnStart,
                  ResumeRead, ResumeCall, StopSwap, SwapOut, CancelSelfDelete, StopWaitOver,
                  StopWaitTimeout, StopKill, StopClose, SuspendCall, WaitEnter, WaitReturn,
                  DeleteSwap, DeleteFree, ClientFault, Terminate
    <2> QED
      BY <2>1
  <1>3. ASSUME NEW t \in Threads, BodyOver(t) \/ WorkerRun(t) PROVE Unharmed'
    BY <1>3 DEF BodyOver, WorkerRun, WorkerSwap, WorkerClose, CheckSelfDelete, DeleteThis,
                FreeThis, WorkerFault, WGoto
  <1>4. CASE UNCHANGED vars
    BY <1>4 DEF vars
  <1> QED
    BY <1>1, <1>2, <1>3, <1>4 DEF Next

\* Whoever frees the object is alone with it: there is no stop left that has a handle.
LEMMA FreedAlone ==
  ASSUME LInv, Sane, alive, ~alive', [Next]_vars, NEW c \in Clients
  PROVE  ~(call'[c] = "stop" /\ h'[c] \in Threads)
  <1> USE DEF Sane, object, kernel, worker, client
  <1>1. ASSUME NEW d \in Clients, DeleteFree(d) PROVE call'[c] # "stop"
    <2>1. /\ call[d] = "delete"
          /\ call' = [call EXCEPT ![d] = "none"]
      BY <1>1 DEF DeleteFree, At, Return, CallsAgree, InCall
    <2> QED
      BY <2>1 DEF CallsAgree, LInv, TypeOK
  <1>2. ASSUME NEW t \in Threads, FreeThis(t), h[c] \in Threads PROVE FALSE
    <2>1. wpc[t] = "free" /\ handle[t] = "closed" /\ handle[h[c]] = "open"
      BY <1>2 DEF FreeThis, Runs, Hold, OwnHandle, LInv, HandleOwnership, HeldIsOpen
    <2> QED
      BY <1>2, <2>1, RunsAlone DEF LInv, Running
  <1>3. ASSUME NEW d \in Clients, ClientRun(d), ~DeleteFree(d) PROVE FALSE
    BY <1>3 DEF ClientRun, Create, CreateFails, AssignHandle, CheckHandle, OnStart,
                ResumeRead, ResumeCall, StopSwap, CancelSelfDelete, StopWaitOver,
                StopWaitTimeout, StopKill, StopClose, SuspendCall, WaitEnter, WaitReturn,
                DeleteSwap, ClientFault
  <1>4. ASSUME NEW d \in Clients, ClientCall(d) PROVE FALSE
    BY <1>4 DEF ClientCall, StartThread, StopThread, ResumeThread, SuspendThread, WaitFor,
                SetTerminate, SetAutodelete, DeleteObject
  <1>5. ASSUME NEW t \in Threads, BodyOver(t) \/ WorkerRun(t), ~FreeThis(t) PROVE FALSE
    BY <1>5 DEF BodyOver, WorkerRun, WorkerSwap, WorkerClose, CheckSelfDelete, DeleteThis,
                WorkerFault
  <1>6. ASSUME NEW t \in Threads, FreeThis(t) PROVE UNCHANGED <<call, h>>
    BY <1>6 DEF FreeThis
  <1> QED
    BY <1>1, <1>2, <1>3, <1>4, <1>5, <1>6 DEF Next, vars

\* Without the object no stop gets a handle any more.
LEMMA GoneStep ==
  ASSUME LInv, SInv, ~alive, [Next]_vars
  PROVE  SInv'
  <1> USE DEF SInv, LInv, TypeOK, Goto, Return, object, kernel, worker, client
  <1>1. ASSUME NEW c \in Clients, ClientCall(c) PROVE FALSE
    BY <1>1 DEF ClientCall, StartThread, StopThread, ResumeThread, SuspendThread, WaitFor,
                SetTerminate, SetAutodelete, DeleteObject, Enter, Callable
  <1>2. ASSUME NEW c \in Clients, ClientRun(c) PROVE SInv'
    <2>1. /\ ~alive' /\ \A d \in Clients : call'[d] \in {"none", call[d]}
          /\ \A d \in Clients : h'[d] \in {INVALID, h[d]}
      BY <1>2 DEF ClientRun, Create, CreateFails, AssignHandle, CheckHandle, OnStart,
                  ResumeRead, ResumeCall, StopSwap, CancelSelfDelete, StopWaitOver,
                  StopWaitTimeout, StopKill, StopClose, SuspendCall, WaitEnter, WaitReturn,
                  DeleteSwap, DeleteFree, ClientFault, At, ClientTouches
    <2> QED
      BY <2>1, ConstantsAssumption
  <1>3. ASSUME NEW t \in Threads, BodyOver(t) \/ WorkerRun(t) PROVE SInv'
    BY <1>3 DEF BodyOver, WorkerRun, WorkerSwap, WorkerClose, CheckSelfDelete, DeleteThis,
                FreeThis, WorkerFault, Runs, WorkerTouches
  <1>4. CASE UNCHANGED vars
    BY <1>4 DEF vars
  <1> QED
    BY <1>1, <1>2, <1>3, <1>4 DEF Next

LEMMA SerialInvariant ==
  ASSUME Serial
  PROVE  Spec => []SInv
  <1>1. Init => SInv
    <2> SUFFICES ASSUME Init PROVE Sane
      BY DEF Init, SInv
    <2>1. CallsAgree /\ Unharmed
      BY DEF Init, CallsAgree, InCall, Unharmed, StopLabels, StartLabels
    <2>2. HandsEmpty /\ Held /\ OwnHandle /\ Killed
      BY DEF Init, HandsEmpty, Held, OwnHandle, Killed
    <2>3. OneLive /\ Idle /\ Creates
      BY DEF Init, OneLive, Idle, Creates, Live, Running
    <2> QED
      BY <2>1, <2>2, <2>3 DEF Sane, Hold
  <1>2. LInv /\ SInv /\ [Next]_vars => SInv'
    <2> SUFFICES ASSUME LInv, SInv, [Next]_vars PROVE SInv'
      OBVIOUS
    <2>1. CASE ~alive
      BY <2>1, GoneStep
    <2>2. CASE alive /\ ~alive'
      BY <2>2, FreedAlone DEF SInv
    <2>3. CASE alive /\ alive'
      <3>1. ASSUME NEW c \in Clients, ClientCall(c) \/ ClientRun(c) PROVE Hold'
        BY <2>3, <3>1, ClientCallHolds, ClientRunHolds DEF SInv
      <3>2. ASSUME NEW t \in Threads, BodyOver(t) \/ WorkerRun(t) PROVE Hold'
        BY <2>3, <3>2, WorkerHolds DEF SInv
      <3>3. ASSUME UNCHANGED vars PROVE Hold'
        <4>1. UNCHANGED <<thread_handle_, handle, wpc, wh, h, pc>>
          BY <3>3 DEF vars, object, kernel, worker, client
        <4>2. HandsEmpty' /\ Held' /\ OwnHandle' /\ Killed'
          BY <2>3, <4>1 DEF SInv, Sane, Hold, HandsEmpty, Held, OwnHandle, Killed
        <4>3. OneLive' /\ Idle' /\ Creates'
          BY <2>3, <4>1 DEF SInv, Sane, Hold, OneLive, Idle, Creates, Live, Running
        <4> QED
          BY <4>2, <4>3 DEF Hold
      <3>4. Hold'
        BY <3>1, <3>2, <3>3 DEF Next
      <3>5. CallsAgree' /\ Unharmed'
        BY <2>3, CallsAgreeStep, UnharmedStep DEF SInv
      <3> QED
        BY <2>3, <3>4, <3>5 DEF SInv, Sane
    <2> QED
      BY <2>1, <2>2, <2>3
  <1> QED
    BY <1>1, <1>2, LInvariant, PTL DEF Spec

\* With serial starts no open handle is lost while the object exists, so TerminateThread
\* never hits a thread between its exchange and its CloseHandle.
THEOREM NoneLost ==
  ASSUME Serial
  PROVE  Spec => []NoLostHandle
  <1>1. SInv => NoLostHandle
    <2> SUFFICES ASSUME Sane, NEW t \in Threads, handle[t] = "open"
                 PROVE  \/ thread_handle_ = t
                        \/ \E c \in Clients : h[c] = t /\ pc[c] \notin {"idle", "fault"}
                        \/ \E u \in Threads : wh[u] = t /\ wpc[u] = "clear"
      BY DEF SInv, NoLostHandle
    <2> USE ConstantsAssumption DEF Sane, Hold, HandsEmpty, HandLabels
    <2>1. ASSUME NEW c \in Clients, h[c] = t PROVE pc[c] \notin {"idle", "fault"}
      BY <2>1
    <2>2. ASSUME NEW u \in Threads, wh[u] = t PROVE wpc[u] = "clear"
      BY <2>2
    <2> QED
      BY <2>1, <2>2 DEF Held
  <1> QED
    BY <1>1, SerialInvariant, PTL

\* With serial starts a stop that owns the handle owns the object until it has closed the
\* handle: the thread neither closes it nor deletes the object.
THEOREM StopIsSafe ==
  ASSUME Serial
  PROVE  Spec => []StopOwnsObject
  <1>1. LInv /\ SInv => StopOwnsObject
    BY Stopped DEF SInv, Sane, StopOwnsObject
  <1> QED
    BY <1>1, LInvariant, SerialInvariant, PTL

-----------------------------------------------------------------------------
(* What a stop leaves behind.                                                          *)

\* Who is in stop_thread is in one of its steps or in those of resume_thread, and has what it
\* took out after the exchange.
InStop ==
  \A c \in Clients :
    /\ call[c] = "stop" => pc[c] \in StopLabels \cup {"resume.read", "resume.call", "fault"}
    /\ pc[c] \in {"stop.cancel", "stop.wait", "stop.kill", "stop.clear"} => h[c] # INVALID

\* What _beginthreadex returned, a null handle too, is in one place, and nowhere when it is
\* about to be called again.
OnePlace ==
  /\ \A c, d \in Clients : h[c] # INVALID /\ h[d] # INVALID => c = d
  /\ thread_handle_ # INVALID => \A c \in Clients : h[c] = INVALID /\ pc[c] # "start.create"

PInv == InStop /\ (alive => OnePlace)

LEMMA InStopStep ==
  ASSUME TypeOK, InStop, [Next]_vars
  PROVE  InStop'
  <1> USE DEF InStop, TypeOK, StopLabels, Goto, Return, At
  <1>1. ASSUME NEW c \in Clients, ClientCall(c) PROVE InStop'
    BY <1>1 DEF ClientCall, StartThread, StopThread, ResumeThread, SuspendThread, WaitFor,
                SetTerminate, SetAutodelete, DeleteObject, Enter, client
  <1>2. ASSUME NEW c \in Clients, ClientRun(c) PROVE InStop'
    <2>1. CASE Create(c) \/ CreateFails(c) \/ AssignHandle(c) \/ CheckHandle(c) \/ OnStart(c)
      BY <2>1 DEF Create, CreateFails, AssignHandle, CheckHandle, OnStart
    <2>2. CASE ResumeRead(c) \/ ResumeCall(c)
      BY <2>2 DEF ResumeRead, ResumeCall
    <2>3. CASE StopSwap(c) \/ CancelSelfDelete(c) \/ StopWaitOver(c) \/ StopWaitTimeout(c)
               \/ StopKill(c) \/ StopClose(c)
      BY <2>3 DEF StopSwap, SwapOut, CancelSelfDelete, StopWaitOver, StopWaitTimeout, StopKill,
                  StopClose
    <2>4. CASE SuspendCall(c) \/ WaitEnter(c) \/ WaitReturn(c) \/ DeleteSwap(c)
               \/ DeleteFree(c) \/ ClientFault(c)
      BY <2>4 DEF SuspendCall, WaitEnter, WaitReturn, DeleteSwap, SwapOut, DeleteFree, ClientFault
    <2> QED
      BY <1>2, <2>1, <2>2, <2>3, <2>4 DEF ClientRun
  <1>3. ASSUME NEW t \in Threads, BodyOver(t) \/ WorkerRun(t) PROVE InStop'
    BY <1>3 DEF BodyOver, WorkerRun, WorkerSwap, WorkerClose, CheckSelfDelete, DeleteThis,
                FreeThis, WorkerFault, client
  <1>4. CASE UNCHANGED vars
    BY <1>4 DEF vars, client
  <1> QED
    BY <1>1, <1>2, <1>3, <1>4 DEF Next

LEMMA OnePlaceStep ==
  ASSUME Serial, LInv, Sane, OnePlace, alive, alive', [Next]_vars
  PROVE  OnePlace'
  <1> USE DEF OnePlace, LInv, TypeOK
  <1>1. ASSUME UNCHANGED <<thread_handle_, h>>,
               \A c \in Clients : pc'[c] = "start.create" => pc[c] = "start.create"
        PROVE  OnePlace'
    BY <1>1
  <1>2. ASSUME NEW c \in Clients, ClientCall(c) PROVE OnePlace'
    <2>1. UNCHANGED <<thread_handle_, h>>
      BY <1>2 DEF ClientCall, StartThread, StopThread, ResumeThread, SuspendThread, WaitFor,
                  SetTerminate, SetAutodelete, DeleteObject, object, client
    <2>2. CASE StartThread(c)
      BY <2>1, <2>2 DEF StartThread
    <2>3. CASE ~StartThread(c)
      <3>1. \A d \in Clients : pc'[d] = "start.create" => pc[d] = "start.create"
        BY <1>2, <2>3 DEF ClientCall, StopThread, ResumeThread, SuspendThread, WaitFor,
                          SetTerminate, SetAutodelete, DeleteObject, Enter, client
      <3> QED
        BY <1>1, <2>1, <3>1
    <2> QED
      BY <2>2, <2>3
  <1>3. ASSUME NEW c \in Clients, Create(c) \/ CreateFails(c) PROVE OnePlace'
    <2>1. pc[c] = "start.create" /\ thread_handle_' = thread_handle_
          /\ \A d \in Clients \ {c} : h'[d] = h[d]
      BY <1>3 DEF Create, CreateFails, At, object
    <2>2. thread_handle_ = INVALID /\ \A d \in Clients : h[d] = INVALID
      BY <2>1 DEF Sane, Hold, Creates
    <2> QED
      BY <2>1, <2>2
  <1>4. ASSUME NEW c \in Clients, AssignHandle(c) PROVE OnePlace'
    <2>1. /\ pc[c] = "start.assign" /\ thread_handle_' = h[c] /\ h' = [h EXCEPT ![c] = INVALID]
          /\ pc' = [pc EXCEPT ![c] = "start.check"]
      BY <1>4 DEF AssignHandle, At, Goto
    <2>2. CASE h[c] = INVALID
      BY <2>1, <2>2
    <2>3. CASE h[c] # INVALID
      <3>1. \A d \in Clients \ {c} : h[d] = INVALID
        BY <2>3
      <3>2. \A d \in Clients : pc[d] # "start.create"
        BY <2>3 DEF Sane, Hold, Creates
      <3> QED
        BY <2>1, <3>1, <3>2
    <2> QED
      BY <2>2, <2>3
  <1>5. ASSUME NEW c \in Clients, StopSwap(c) \/ DeleteSwap(c) PROVE OnePlace'
    <2>1. thread_handle_' = INVALID /\ h' = [h EXCEPT ![c] = thread_handle_]
      BY <1>5 DEF StopSwap, DeleteSwap, SwapOut
    <2> QED
      BY <2>1
  <1>6. ASSUME NEW c \in Clients, StopClose(c) PROVE OnePlace'
    <2>1. /\ h' = [h EXCEPT ![c] = INVALID] /\ thread_handle_' = thread_handle_
          /\ pc' = [pc EXCEPT ![c] = "idle"]
      BY <1>6 DEF StopClose, Return, object
    <2> QED
      BY <2>1
  <1>7. ASSUME NEW c \in Clients,
               \/ CheckHandle(c) \/ OnStart(c) \/ ResumeRead(c) \/ ResumeCall(c)
               \/ CancelSelfDelete(c) \/ StopWaitOver(c) \/ StopWaitTimeout(c) \/ StopKill(c)
               \/ SuspendCall(c) \/ WaitEnter(c) \/ WaitReturn(c) \/ DeleteFree(c)
               \/ ClientFault(c)
        PROVE  OnePlace'
    <2>1. UNCHANGED <<thread_handle_, h>>
      BY <1>7 DEF CheckHandle, OnStart, ResumeRead, ResumeCall, CancelSelfDelete, StopWaitOver,
                  StopWaitTimeout, StopKill, SuspendCall, WaitEnter, WaitReturn, DeleteFree,
                  ClientFault, object
    <2>2. \A d \in Clients : pc'[d] = "start.create" => pc[d] = "start.create"
      BY <1>7 DEF CheckHandle, OnStart, ResumeRead, ResumeCall, CancelSelfDelete, StopWaitOver,
                  StopWaitTimeout, StopKill, SuspendCall, WaitEnter, WaitReturn, DeleteFree,
                  ClientFault, Goto, Return
    <2> QED
      BY <1>1, <2>1, <2>2
  <1>8. ASSUME NEW t \in Threads, BodyOver(t) \/ WorkerRun(t) PROVE OnePlace'
    <2>1. UNCHANGED <<h, pc>> /\ thread_handle_' \in {thread_handle_, INVALID}
      BY <1>8 DEF BodyOver, WorkerRun, WorkerSwap, WorkerClose, CheckSelfDelete, DeleteThis,
                  FreeThis, WorkerFault, object, client
    <2> QED
      BY <2>1
  <1>9. CASE UNCHANGED vars
    BY <1>1, <1>9 DEF vars, object, client
  <1> QED
    BY <1>2, <1>3, <1>4, <1>5, <1>6, <1>7, <1>8, <1>9 DEF Next, ClientRun

\* There is no object where there was none.
LEMMA StaysGone ==
  ASSUME [Next]_vars, alive'
  PROVE  alive
  <1>1. ASSUME NEW c \in Clients, ClientCall(c) \/ ClientRun(c) PROVE alive
    BY <1>1 DEF ClientCall, StartThread, StopThread, ResumeThread, SuspendThread, WaitFor,
       SetTerminate, SetAutodelete, DeleteObject, ClientRun, Create, CreateFails, AssignHandle,
       CheckHandle, OnStart, ResumeRead, ResumeCall, StopSwap, CancelSelfDelete, StopWaitOver,
       StopWaitTimeout, StopKill, StopClose, SuspendCall, WaitEnter, WaitReturn, DeleteSwap,
       DeleteFree, ClientFault, object
  <1>2. ASSUME NEW t \in Threads, BodyOver(t) \/ WorkerRun(t) PROVE alive
    BY <1>2 DEF BodyOver, WorkerRun, WorkerSwap, WorkerClose, CheckSelfDelete, DeleteThis,
                FreeThis, WorkerFault, object
  <1> QED
    BY <1>1, <1>2 DEF Next, vars, object

LEMMA PlaceInvariant ==
  ASSUME Serial
  PROVE  Spec => []PInv
  <1>1. Init => PInv
    BY DEF Init, PInv, InStop, OnePlace
  <1>2. LInv /\ SInv /\ PInv /\ [Next]_vars => PInv'
    <2> SUFFICES ASSUME LInv, SInv, PInv, [Next]_vars PROVE PInv'
      OBVIOUS
    <2>1. InStop'
      BY InStopStep DEF PInv, LInv
    <2>2. ASSUME alive' PROVE OnePlace'
      BY <2>2, StaysGone, OnePlaceStep DEF PInv, SInv
    <2> QED
      BY <2>1, <2>2 DEF PInv
  <1> QED
    BY <1>1, <1>2, LInvariant, SerialInvariant, PTL DEF Spec

\* The step with which a stop returns.
LEMMA StopEnds ==
  ASSUME TypeOK, InStop, [Next]_vars, NEW c \in Clients,
         call[c] = "stop", call'[c] = "none"
  PROVE  /\ alive /\ alive' = alive
         /\ \/ thread_handle_' = INVALID
            \/ pc[c] = "stop.clear" /\ thread_handle_' = thread_handle_
         /\ \A d \in Clients \ {c} : call'[d] = call[d]
  <1> USE DEF TypeOK
  <1>1. ASSUME NEW d \in Clients, ClientCall(d) PROVE FALSE
    <2>1. (pc[d] = "idle" /\ c # d) \/ UNCHANGED call
      BY <1>1 DEF ClientCall, StartThread, StopThread, ResumeThread, SuspendThread, WaitFor,
                  SetTerminate, SetAutodelete, DeleteObject, Enter, Callable, InStop,
                  StopLabels, client
    <2>2. call'[c] = call[c]
      BY <1>1, <2>1 DEF ClientCall, StartThread, StopThread, ResumeThread, SuspendThread,
                  WaitFor, SetTerminate, SetAutodelete, DeleteObject, Enter, client
    <2> QED
      BY <2>2
  <1>2. ASSUME NEW d \in Clients, ClientRun(d), d # c PROVE FALSE
    <2>1. call'[c] = call[c]
      BY <1>2 DEF ClientRun, Create, CreateFails, AssignHandle, CheckHandle, OnStart,
         ResumeRead, ResumeCall, StopSwap, CancelSelfDelete, StopWaitOver, StopWaitTimeout,
         StopKill, StopClose, SuspendCall, WaitEnter, WaitReturn, DeleteSwap, DeleteFree,
         ClientFault, Goto, Return
    <2> QED
      BY <2>1
  <1>3. ASSUME ClientRun(c) PROVE StopSwap(c) \/ StopClose(c)
    <2>1. pc[c] \in StopLabels \cup {"resume.read", "resume.call", "fault"}
      BY DEF InStop
    <2>2. ~(Create(c) \/ CreateFails(c) \/ AssignHandle(c) \/ CheckHandle(c) \/ OnStart(c)
            \/ SuspendCall(c) \/ WaitEnter(c) \/ WaitReturn(c) \/ DeleteSwap(c) \/ DeleteFree(c))
      BY <2>1 DEF StopLabels, Create, CreateFails, AssignHandle, CheckHandle, OnStart,
                  SuspendCall, WaitEnter, WaitReturn, DeleteSwap, DeleteFree, At
    <2>3. ~(ResumeRead(c) \/ ResumeCall(c) \/ CancelSelfDelete(c) \/ StopWaitOver(c)
            \/ StopWaitTimeout(c) \/ StopKill(c) \/ ClientFault(c))
      BY DEF ResumeRead, ResumeCall, CancelSelfDelete, StopWaitOver, StopWaitTimeout, StopKill,
             ClientFault, Goto
    <2> QED
      BY <1>3, <2>2, <2>3 DEF ClientRun
  <1>4. ASSUME NEW t \in Threads, BodyOver(t) \/ WorkerRun(t) PROVE FALSE
    <2>1. UNCHANGED call
      BY <1>4 DEF BodyOver, WorkerRun, WorkerSwap, WorkerClose, CheckSelfDelete, DeleteThis,
                  FreeThis, WorkerFault, client
    <2> QED
      BY <2>1
  <1>5. ~UNCHANGED vars
    BY DEF vars, client
  <1>6. StopSwap(c) \/ StopClose(c)
    BY <1>1, <1>2, <1>3, <1>4, <1>5 DEF Next
  <1>7. /\ alive /\ alive' = alive
        /\ \A d \in Clients \ {c} : call'[d] = call[d]
    BY <1>6 DEF StopSwap, StopClose, At, ClientTouches, Return, Goto, object
  <1>8. \/ thread_handle_' = INVALID
        \/ pc[c] = "stop.clear" /\ thread_handle_' = thread_handle_
    BY <1>6 DEF StopSwap, SwapOut, StopClose, At, object
  <1> QED
    BY <1>7, <1>8

\* When nobody starts, stops or deletes, the member has the handle of the thread that is in
\* on_execute.
Reachable ==
  alive /\ (\A c \in Clients : call[c] \notin {"start", "stop", "delete"}) =>
    \A t \in Threads : wpc[t] = "body" => thread_handle_ = t

LEMMA BodyReachable == LInv /\ SInv => Reachable
  <1> SUFFICES ASSUME LInv, Sane, \A c \in Clients : call[c] \notin {"start", "stop", "delete"},
                      NEW t \in Threads, wpc[t] = "body"
               PROVE  thread_handle_ = t
    BY DEF SInv, Reachable
  <1> USE DEF Sane, Hold
  <1>1. handle[t] = "open" /\ wpc[t] = "body"
    BY DEF OwnHandle
  <1>2. \A c \in Clients : h[c] = INVALID
    BY DEF CallsAgree, InCall, HandsEmpty, HandLabels, StartLabels, StopLabels
  <1>3. ASSUME NEW u \in Threads, wh[u] = t PROVE FALSE
    <2>1. wpc[u] = "clear"
      BY <1>3, ConstantsAssumption DEF HandsEmpty
    <2>2. u = t
      BY <1>1, <2>1 DEF OneLive, Live, Running
    <2> QED
      BY <1>1, <2>1, <2>2
  <1> QED
    BY <1>1, <1>2, <1>3, ConstantsAssumption DEF Held

\* With serial starts a stop_thread that returns while nobody else starts or stops leaves no
\* thread in on_execute and no handle in the member, whoever won the exchange of line 80: the
\* assertion of line 49 holds for the next start.
THEOREM StopLeavesNothing ==
  ASSUME Serial
  PROVE  Spec => StopLeavesIdle
  <1>1. LInv /\ SInv /\ PInv /\ Reachable' /\ [Next]_vars
          => [\A c \in Clients :
                /\ call[c] = "stop" /\ call'[c] = "none"
                /\ \A d \in Clients \ {c} : call[d] \notin {"start", "stop"}
                => thread_handle_' = INVALID /\ \A t \in Threads : wpc'[t] # "body"]_vars
    <2> SUFFICES ASSUME LInv, SInv, PInv, Reachable', [Next]_vars, NEW c \in Clients,
                        call[c] = "stop", call'[c] = "none",
                        \A d \in Clients \ {c} : call[d] \notin {"start", "stop"}
                 PROVE  thread_handle_' = INVALID /\ \A t \in Threads : wpc'[t] # "body"
      OBVIOUS
    <2>1. /\ alive /\ alive' = alive
          /\ \/ thread_handle_' = INVALID
             \/ pc[c] = "stop.clear" /\ thread_handle_' = thread_handle_
          /\ \A d \in Clients \ {c} : call'[d] = call[d]
      BY StopEnds DEF LInv, PInv
    <2>2. thread_handle_' = INVALID
      <3>1. pc[c] = "stop.clear" => h[c] # INVALID
        BY DEF PInv, InStop
      <3> QED
        BY <2>1, <3>1 DEF PInv, OnePlace
    <2>3. \A d \in Clients : call'[d] \notin {"start", "stop", "delete"}
      <3>1. \A d \in Clients \ {c} : call[d] # "delete"
        BY <2>1 DEF SInv, Sane, CallsAgree
      <3> QED
        BY <2>1, <3>1
    <2>4. ASSUME NEW t \in Threads, wpc'[t] = "body" PROVE FALSE
      <3>1. alive'
        BY <2>1
      <3>2. thread_handle_' = t
        BY <2>3, <2>4, <3>1 DEF Reachable
      <3> QED
        BY <2>2, <3>2, ConstantsAssumption
    <2> QED
      BY <2>2, <2>4
  <1>2. LInv /\ SInv => Reachable
    BY BodyReachable
  <1> QED
    BY <1>1, <1>2, LInvariant, SerialInvariant, PlaceInvariant, PTL DEF Spec, StopLeavesIdle
=============================================================================
