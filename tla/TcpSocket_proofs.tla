--------------------------- MODULE TcpSocket_proofs ---------------------------
(***************************************************************************)
(* The types, the locks and the sockets of TcpSocket, proved for every set *)
(* of threads and objects, every number of sockets and calls, and both     *)
(* builds.                                                                 *)
(*                                                                         *)
(* Two invariants, the second resting on the first:                        *)
(*   LInv: the types, where a thread can be in the function it called, and *)
(*         which threads hold the lock of their object, and how often;     *)
(*   OInv: every socket that was not abandoned belongs to an object whose  *)
(*         member names it, its users know of it, the object that an       *)
(*         Accept fills is nobody else's, and a thread on its way through  *)
(*         Close() finds what it needs.                                    *)
(***************************************************************************)
EXTENDS TcpSocket, TLAPS

\* Where a thread can be in the function it called.
InCall(s) ==
  /\ s.pc = "idle" => s = Idle
  /\ s.pc = "lock" => s.call \in Locked
  /\ s.pc \in {"ioctl", "recv"} => s.call = "Receive"
  /\ s.pc = "send" => s.call = "Send"
  /\ s.pc = "select" => s.call = "TimedReceiveFrom"
  /\ s.pc = "recvfrom" => s.call \in {"ReceiveFrom", "TimedReceiveFrom"}
  /\ s.pc = "connect" => s.call = "Connect"
  /\ s.pc = "accept" => s.call = "Accept"
  /\ s.pc = "setsockopt" => s.call = "Create"
  /\ s.pc = "bind" => s.call \in {"Create", "Bind"}
  /\ s.pc \in {"close", "closesocket", "clear"} =>
       s.call \in {"Close", "delete", "Create", "Bind", "Connect"}

\* Its object, and the one that Accept is going to fill.
OKState(s) ==
  /\ s \in ThreadStates
  /\ InCall(s)
  /\ s.pc # "idle" => s.obj \in Objects
  /\ s.target \in Objects <=> s.call = "Accept"
  /\ s.pc \in {"closesocket", "clear"} => s.closes > 0

\* The threads.
Shape == th \in [Threads -> ThreadStates] /\ \A t \in Threads : OKState(th[t])

\* How many times a thread holds the lock of its object.
Depth(s) ==
  IF s.call \notin Locked \/ s.pc = "lock" THEN 0
  ELSE IF s.call = "TimedReceiveFrom" /\ s.pc = "recvfrom" THEN 2 ELSE 1

\* The lock and the build.
LockTypes == mult \in BOOLEAN /\ lock \in [Objects -> [holder : Threads \cup {Nobody}, depth : 0 .. 2]]

\* In the build with MULT_THREAD a thread holds the lock of its object exactly where Depth says so.
Locks ==
  \A o \in Objects :
    /\ lock[o].holder = Nobody => lock[o].depth = 0
    /\ \A t \in Threads :
         /\ lock[o].holder = t <=> mult /\ th[t].obj = o /\ Depth(th[t]) > 0
         /\ lock[o].holder = t => lock[o].depth = Depth(th[t])

\* A thread that is in no function is where it can be, holds no lock and is at no object.
LEMMA IdleState == OKState(Idle) /\ Depth(Idle) = 0 /\ Idle.obj \notin Objects
  BY ConstantsAssumption DEF OKState, Idle, ThreadStates, Labels, Calls, Locked, InCall, Depth

\* A thread holds a lock at most twice.
LEMMA DepthRange == ASSUME NEW s PROVE Depth(s) \in 0 .. 2
  BY DEF Depth

\* One thread moves to a place where it can be.
LEMMA ShapeStep ==
  ASSUME Shape, NEW t \in Threads, NEW s, OKState(s), th' = [th EXCEPT ![t] = s]
  PROVE  Shape'
  <1>1. s \in ThreadStates
    BY DEF OKState
  <1>2. th' \in [Threads -> ThreadStates]
    BY <1>1 DEF Shape
  <1> QED BY <1>2 DEF Shape

\* A step that neither takes nor gives back a lock keeps the locks right: the thread holds what
\* it held.
LEMMA LockKept ==
  ASSUME Shape, Locks, NEW t \in Threads, NEW s, th' = [th EXCEPT ![t] = s], mult' = mult, lock' = lock,
         Depth(s) = Depth(th[t]), Depth(s) > 0 => s.obj = th[t].obj
  PROVE  Locks'
  BY DepthRange DEF Shape, Locks

\* Lock(): the thread holds one lock more, and nobody else is inside.
LEMMA LockTaken ==
  ASSUME TypeOK, Shape, Locks, NEW t \in Threads, NEW s, NEW o \in Objects,
         th' = [th EXCEPT ![t] = s], mult' = mult,
         Lock(t, o), th[t].obj = o, s.obj = o, Depth(s) = Depth(th[t]) + 1
  PROVE  Locks' /\ (lock \in [Objects -> [holder : Threads \cup {Nobody}, depth : 0 .. 2]])'
  <1>1. CASE mult
    <2>1. lock[o].depth = Depth(th[t])
      BY <1>1, DepthRange, ConstantsAssumption DEF Shape, Locks, Lock, TypeOK
    <2>2. lock' = [lock EXCEPT ![o] = [holder |-> t, depth |-> Depth(s)]]
      BY <1>1, <2>1 DEF Lock
    <2>3. Depth(s) \in 0 .. 2 /\ Depth(s) > 0
      BY DepthRange
    <2>4. Depth(th[t]) > 0 => lock[o].holder = t
      BY <1>1 DEF Locks
    <2>5. \A u \in Threads \ {t} : ~(th[u].obj = o /\ Depth(th[u]) > 0)
      BY <1>1, ConstantsAssumption DEF Locks, Lock
    <2>6. (lock \in [Objects -> [holder : Threads \cup {Nobody}, depth : 0 .. 2]])'
      BY <2>2, <2>3 DEF TypeOK
    <2>7. Locks'
      BY <1>1, <2>2, <2>3, <2>5, ConstantsAssumption DEF Shape, Locks, TypeOK
    <2> QED BY <2>6, <2>7
  <1>2. CASE ~mult
    BY <1>2, DepthRange DEF Shape, Locks, Lock, TypeOK
  <1> QED BY <1>1, <1>2 DEF TypeOK

\* Return: the thread gives back as many locks as it holds, whatever path it took.
LEMMA LockReturned ==
  ASSUME TypeOK, Shape, Locks, NEW t \in Threads, Return(t), mult' = mult, th[t].pc \notin {"idle", "lock"}
  PROVE  Locks' /\ Shape' /\ (lock \in [Objects -> [holder : Threads \cup {Nobody}, depth : 0 .. 2]])'
  <1>1. Shape'
    BY IdleState, ShapeStep DEF Return
  <1>2. th' = [th EXCEPT ![t] = Idle] /\ th[t].obj \in Objects
    BY DEF Return, Shape, OKState
  <1>3. CASE th[t].call \notin Locked
    <2>1. lock' = lock /\ Depth(th[t]) = 0
      BY <1>3 DEF Return, Depth
    <2>2. Locks'
      <3>1. Depth(Idle) = Depth(th[t]) /\ ~(Depth(Idle) > 0)
        BY <2>1, IdleState
      <3> QED BY <1>2, <2>1, <3>1, LockKept
    <2> QED BY <1>1, <2>1, <2>2 DEF TypeOK
  <1>4. CASE th[t].call \in Locked
    <2>1. Unlock(th[t].obj, Depth(th[t])) /\ Depth(th[t]) > 0
      BY <1>4 DEF Return, Depth, At
    <2>2. CASE mult
      <3>1. lock[th[t].obj].holder = t /\ lock[th[t].obj].depth = Depth(th[t])
        BY <1>2, <2>1, <2>2 DEF Locks
      <3>2. lock' = [lock EXCEPT ![th[t].obj] = [holder |-> Nobody, depth |-> 0]]
        BY <2>1, <2>2, <3>1 DEF Unlock
      <3>3. \A u \in Threads \ {t} : ~(th[u].obj = th[t].obj /\ Depth(th[u]) > 0)
        BY <1>2, <2>2, <3>1 DEF Locks
      <3>4. Locks'
        BY <1>2, <2>2, <3>2, <3>3, IdleState, ConstantsAssumption DEF Shape, Locks, TypeOK
      <3>5. (lock \in [Objects -> [holder : Threads \cup {Nobody}, depth : 0 .. 2]])'
        <4>1. [holder |-> Nobody, depth |-> 0] \in [holder : Threads \cup {Nobody}, depth : 0 .. 2]
          OBVIOUS
        <4> QED BY <1>2, <3>2, <4>1 DEF TypeOK
      <3> QED BY <1>1, <3>4, <3>5
    <2>3. CASE ~mult
      BY <1>1, <1>2, <2>1, <2>3, IdleState, DepthRange DEF Unlock, Locks, Shape, TypeOK
    <2> QED BY <2>2, <2>3 DEF TypeOK
  <1> QED BY <1>3, <1>4

\* The functions that call Close().
Closers == {"Close", "delete", "Create", "Bind", "Connect"}

\* A function that may close goes to Close(), with n calls of it to make.
LEMMA ToClose ==
  ASSUME NEW s, OKState(s), s.call \in Closers, NEW n \in 0 .. 2
  PROVE  /\ OKState([s EXCEPT !.pc = "close", !.closes = n, !.reg = INVALID])
         /\ OKState([s EXCEPT !.pc = "close", !.closes = n])
         /\ s.pc = "close" => OKState([s EXCEPT !.closes = n])
  <1> USE DEF OKState, InCall, ThreadStates, Labels, Calls, Locked, Closers, Idle
  <1>0. s.pc # "idle" /\ s.obj \in Objects /\ s.target \notin Objects /\ s.call # "Accept" /\ s \in ThreadStates
    OBVIOUS
  <1>1. OKState([s EXCEPT !.pc = "close", !.closes = n, !.reg = INVALID])
    <2>1. [s EXCEPT !.pc = "close", !.closes = n, !.reg = INVALID] \in ThreadStates
      BY <1>0
    <2> QED BY <1>0, <2>1
  <1>2. OKState([s EXCEPT !.pc = "close", !.closes = n])
    <2>1. [s EXCEPT !.pc = "close", !.closes = n] \in ThreadStates
      BY <1>0
    <2> QED BY <1>0, <2>1
  <1>3. s.pc = "close" => OKState([s EXCEPT !.closes = n])
    OBVIOUS
  <1> QED BY <1>1, <1>2, <1>3

\* Close and the destructor start in Close().
LEMMA CallsClose ==
  ASSUME NEW o \in Objects, NEW f \in {"Close", "delete"}, NEW n \in 0 .. 2
  PROVE  OKState([Idle EXCEPT !.pc = "close", !.call = f, !.obj = o, !.closes = n])
  BY ConstantsAssumption DEF OKState, InCall, ThreadStates, Labels, Calls, Locked, Closers, Idle

\* The test of line 43 finds a handle.
LEMMA ToSocket ==
  ASSUME NEW s, OKState(s), s.pc = "close", s.closes > 0, NEW h \in Handles \cup {INVALID}, NEW d \in BOOLEAN
  PROVE  OKState([s EXCEPT !.pc = "closesocket", !.reg = h, !.disturbed = d])
  BY DEF OKState, InCall, ThreadStates, Labels, Calls, Locked, Closers, Idle

\* The members, the calls and the history.
Members ==
  /\ m_hSocket \in [Objects -> Handles \cup {INVALID}]
  /\ m_bServer \in [Objects -> BOOLEAN]
  /\ built \subseteq Objects
  /\ calls \in 0 .. MaxCalls
  /\ inUse \subseteq Objects /\ early \subseteq Objects /\ raw \subseteq Objects
  /\ abandoned \subseteq 0 .. MaxSockets /\ foreign \in BOOLEAN

\* The kernel.
KernelTypes == table \in [Handles -> 0 .. MaxSockets] /\ sk \in [Ids -> Sockets]

\* A handle stands for no socket, or for one through the table.
LEMMA NamedType ==
  ASSUME KernelTypes, NEW h \in Handles \cup {INVALID}
  PROVE  Named(h) \in 0 .. MaxSockets /\ (Named(h) # 0 => Named(h) \in Ids /\ h \in Handles /\ Named(h) = table[h])
  BY ConstantsAssumption DEF KernelTypes, Named, Ids

\* The kind of a socket changes.
LEMMA KindTyped ==
  ASSUME KernelTypes, NEW i \in Ids, NEW k \in {"none", "fresh", "listening", "live", "over", "closed"}, 
         sk' = [sk EXCEPT ![i].kind = k], table' = table
  PROVE  KernelTypes'
  BY DEF KernelTypes, Sockets

\* What waits at a socket changes.
LEMMA AvailTyped ==
  ASSUME KernelTypes, NEW i \in Ids, NEW n \in 0 .. MaxData, 
         sk' = [sk EXCEPT ![i].avail = n], table' = table
  PROVE  KernelTypes'
  BY DEF KernelTypes, Sockets

\* A connection comes to its end.
LEMMA EndTyped ==
  ASSUME KernelTypes, NEW i \in Ids, NEW n \in 0 .. MaxData, 
         sk' = [sk EXCEPT ![i].kind = "over", ![i].avail = n], table' = table
  PROVE  KernelTypes'
  BY DEF KernelTypes, Sockets

\* A socket becomes blocking or non-blocking.
LEMMA FlagTyped ==
  ASSUME KernelTypes, NEW i \in Ids, NEW b \in BOOLEAN, 
         sk' = [sk EXCEPT ![i].nonblocking = b], table' = table
  PROVE  KernelTypes'
  BY DEF KernelTypes, Sockets

\* What a thread has loaded is a handle or INVALID_SOCKET.
LEMMA ThreadReg ==
  ASSUME Shape, NEW t \in Threads
  PROVE  th[t].reg \in Handles \cup {INVALID}
  BY DEF Shape, OKState, ThreadStates

\* So is what a member holds.
LEMMA NamedMember ==
  ASSUME KernelTypes, Members, NEW o \in Objects
  PROVE  Named(m_hSocket[o]) \in 0 .. MaxSockets /\ m_hSocket[o] \in Handles \cup {INVALID}
  BY NamedType DEF Members

\* An assignment to m_hSocket keeps the types.
LEMMA AssignTypes ==
  ASSUME Members, KernelTypes, NEW o \in Objects, NEW h \in Handles \cup {INVALID}, Assign(o, h)
  PROVE  /\ (m_hSocket \in [Objects -> Handles \cup {INVALID}])'
         /\ (raw \subseteq Objects /\ early \subseteq Objects /\ abandoned \subseteq 0 .. MaxSockets)'
         /\ UNCHANGED <<m_bServer, built>>
  BY NamedMember DEF Members, Assign

\* The socket i is open.
Open(i) == sk[i].kind \notin {"none", "closed"}

\* A step may change what a socket holds, but opens and closes none.
SameSockets ==
  /\ table' = table
  /\ \A i \in Ids : (Open(i)' <=> Open(i)) /\ sk'[i].owner = sk[i].owner

\* A change of the kind of an open socket opens and closes nothing.
LEMMA KindSet ==
  ASSUME KernelTypes, NEW i \in Ids, Open(i), NEW k \in {"fresh", "listening", "live", "over"},
         sk' = [sk EXCEPT ![i].kind = k], table' = table
  PROVE  KernelTypes' /\ SameSockets
  BY KindTyped DEF KernelTypes, Sockets, SameSockets, Open

\* Nor does a change of what waits at it.
LEMMA AvailSet ==
  ASSUME KernelTypes, NEW i \in Ids, NEW n \in 0 .. MaxData,
         sk' = [sk EXCEPT ![i].avail = n], table' = table
  PROVE  KernelTypes' /\ SameSockets
  BY AvailTyped DEF KernelTypes, Sockets, SameSockets, Open

\* Nor does the end of a connection.
LEMMA EndSet ==
  ASSUME KernelTypes, NEW i \in Ids, Open(i), NEW n \in 0 .. MaxData,
         sk' = [sk EXCEPT ![i].kind = "over", ![i].avail = n], table' = table
  PROVE  KernelTypes' /\ SameSockets
  BY EndTyped DEF KernelTypes, Sockets, SameSockets, Open

\* Nor does a change of its mode.
LEMMA FlagSet ==
  ASSUME KernelTypes, NEW i \in Ids, NEW b \in BOOLEAN,
         sk' = [sk EXCEPT ![i].nonblocking = b], table' = table
  PROVE  KernelTypes' /\ SameSockets
  BY FlagTyped DEF KernelTypes, Sockets, SameSockets, Open

\* Arrive opens and closes nothing.
LEMMA ArriveTweaks ==
  ASSUME KernelTypes, NEW i \in Ids, Arrive(i)
  PROVE  KernelTypes' /\ SameSockets
  <1>1. sk[i].avail \in 0 .. MaxData /\ sk[i].avail < MaxData
    BY DEF Arrive, KernelTypes, Sockets
  <1>2. sk[i].avail + 1 \in 0 .. MaxData
    BY <1>1, ConstantsAssumption
  <1>3. sk' = [sk EXCEPT ![i].avail = sk[i].avail + 1]
    BY DEF Arrive
  <1> QED BY <1>2, <1>3, AvailSet DEF Arrive

\* PeerEnds opens and closes nothing: the handle stays open until the class closes it.
LEMMA PeerEndsTweaks ==
  ASSUME KernelTypes, NEW i \in Ids, PeerEnds(i)
  PROVE  KernelTypes' /\ SameSockets
  <1>1. Open(i) /\ {0, sk[i].avail} \subseteq 0 .. MaxData
    BY ConstantsAssumption DEF PeerEnds, KernelTypes, Sockets, Open
  <1>2. PICK n \in {0, sk[i].avail} : sk' = [sk EXCEPT ![i].kind = "over", ![i].avail = n]
    BY DEF PeerEnds
  <1> QED BY <1>1, <1>2, EndSet DEF PeerEnds

\* Listen and SetNonBlockingMode open and close nothing.
LEMMA CallTweaks ==
  ASSUME KernelTypes, Members, NEW t \in Threads, NEW o \in Objects,
         Listen(t, o) \/ \E b \in BOOLEAN : SetNonBlockingMode(t, o, b)
  PROVE  KernelTypes' /\ SameSockets
  <1>1. Named(m_hSocket[o]) \in Ids
    BY NamedMember, NamedType DEF Listen, SetNonBlockingMode, Is
  <1>2. CASE Listen(t, o)
    <2>1. Open(Named(m_hSocket[o]))
      BY <1>2 DEF Listen, Is, Open
    <2> QED BY <1>1, <1>2, <2>1, KindSet DEF Listen
  <1>3. CASE \E b \in BOOLEAN : SetNonBlockingMode(t, o, b)
    BY <1>1, <1>3, FlagSet DEF SetNonBlockingMode
  <1> QED BY <1>2, <1>3

\* bind, connect and recv open and close nothing.
LEMMA ThreadTweaks ==
  ASSUME KernelTypes, Shape, NEW t \in Threads, BindSucceeds(t) \/ Receives(t) \/ ConnectSucceeds(t)
  PROVE  KernelTypes' /\ SameSockets
  <1>1. Is(th[t].reg, {"fresh"}) \/ HasData(th[t].reg) => Named(th[t].reg) \in Ids /\ Open(Named(th[t].reg))
    BY ThreadReg, NamedType DEF Is, HasData, Open
  <1>2. CASE BindSucceeds(t)
    BY <1>1, <1>2, KindSet DEF BindSucceeds
  <1>3. CASE ConnectSucceeds(t)
    BY <1>1, <1>3, KindSet DEF ConnectSucceeds
  <1>4. CASE Receives(t)
    <2>1. CASE HasData(th[t].reg)
      <3> DEFINE i == Named(th[t].reg)
      <3>1. i \in Ids /\ sk[i].avail \in 0 .. MaxData /\ sk[i].avail > 0
        BY <1>1, <2>1 DEF HasData, KernelTypes, Sockets
      <3>2. sk[i].avail - 1 \in 0 .. MaxData
        BY <3>1, ConstantsAssumption
      <3>3. sk' = [sk EXCEPT ![i].avail = sk[i].avail - 1] /\ table' = table
        BY <1>4, <2>1 DEF Receives
      <3> HIDE DEF i
      <3> QED BY <3>1, <3>2, <3>3, AvailSet
    <2>2. CASE ~HasData(th[t].reg)
      BY <1>4, <2>2 DEF Receives, KernelTypes, SameSockets, Open
    <2> QED BY <2>1, <2>2
  <1> QED BY <1>2, <1>3, <1>4

\* The socket i is opened for o, under the free handle h.
Opens(h, i, o) ==
  /\ h \in Handles /\ table[h] = 0 /\ table' = [table EXCEPT ![h] = i]
  /\ i \in Ids /\ sk[i].kind = "none" /\ Open(i)' /\ sk'[i].owner = o
  /\ \A j \in Ids \ {i} : (Open(j)' <=> Open(j)) /\ sk'[j].owner = sk[j].owner

\* The socket that h stands for is closed.
Closes(h) ==
  /\ h \in Handles /\ table[h] \in Ids /\ table' = [table EXCEPT ![h] = 0]
  /\ sk'[table[h]].kind = "closed"
  /\ \A j \in Ids \ {table[h]} : (Open(j)' <=> Open(j)) /\ sk'[j].owner = sk[j].owner

\* Create opens one socket, for its object, and stores the handle there.
LEMMA CreateOpens ==
  ASSUME KernelTypes, NEW t \in Threads, NEW o \in Objects, Create(t, o)
  PROVE  KernelTypes' /\ \E h \in Handles, i \in Ids :
           Opens(h, i, o) /\ m_hSocket' = [m_hSocket EXCEPT ![o] = h]
  <1>1. PICK h \in Handles : NewSocket(h, o, "fresh") /\ m_hSocket' = [m_hSocket EXCEPT ![o] = h]
    BY DEF Create, Assign
  <1> DEFINE r == [kind |-> "fresh", avail |-> 0, nonblocking |-> FALSE, owner |-> o]
  <1>2. PICK i \in Ids : /\ sk[i].kind = "none" /\ table[h] = 0
                         /\ table' = [table EXCEPT ![h] = i] /\ sk' = [sk EXCEPT ![i] = r]
    BY <1>1 DEF NewSocket
  <1>3. r \in Sockets /\ r.kind \notin {"none", "closed"} /\ r.owner = o
    BY ConstantsAssumption DEF Sockets
  <1> HIDE DEF r
  <1>4. KernelTypes'
    BY <1>2, <1>3, ConstantsAssumption DEF KernelTypes, Ids
  <1>5. Opens(h, i, o)
    BY <1>2, <1>3 DEF Opens, Open, KernelTypes
  <1> QED BY <1>1, <1>4, <1>5

\* accept opens one socket, for the object it was given, and stores the handle there.
LEMMA AcceptOpens ==
  ASSUME KernelTypes, Shape, NEW t \in Threads, AcceptSucceeds(t)
  PROVE  KernelTypes' /\ \E h \in Handles, i \in Ids :
           Opens(h, i, th[t].target) /\ m_hSocket' = [m_hSocket EXCEPT ![th[t].target] = h]
  <1> DEFINE c == th[t].target
             i == Named(th[t].reg)
             r == [kind |-> "live", avail |-> 0, nonblocking |-> sk[i].nonblocking, owner |-> c]
  <1>1. i \in Ids /\ sk[i].kind = "listening" /\ sk[i].avail > 0 /\ sk[i] \in Sockets
    BY ThreadReg, NamedType DEF AcceptSucceeds, Is, KernelTypes
  <1>2. PICK h \in Handles, j \in Ids :
               /\ sk[j].kind = "none" /\ table[h] = 0 /\ table' = [table EXCEPT ![h] = j]
               /\ sk' = [sk EXCEPT ![i].avail = sk[i].avail - 1, ![j] = r]
               /\ m_hSocket' = [m_hSocket EXCEPT ![c] = h]
    BY DEF AcceptSucceeds, Assign
  <1>3. r \in Sockets /\ r.kind \notin {"none", "closed"} /\ r.owner = c
    <2>1. c \in Objects /\ sk[i].nonblocking \in BOOLEAN
      BY <1>1 DEF AcceptSucceeds, At, Shape, OKState, InCall, Sockets
    <2> QED BY <2>1, ConstantsAssumption DEF Sockets
  <1>4. i # j
    BY <1>1, <1>2
  <1> DEFINE q == [sk[i] EXCEPT !.avail = sk[i].avail - 1]
  <1>5. q \in Sockets /\ q.kind = "listening" /\ q.owner = sk[i].owner
    BY <1>1, ConstantsAssumption DEF Sockets
  <1>6. sk' = [sk EXCEPT ![i] = q, ![j] = r]
    BY <1>2
  <1> HIDE DEF q, r, i, c
  <1>7. KernelTypes'
    BY <1>1, <1>2, <1>3, <1>5, <1>6, ConstantsAssumption DEF KernelTypes, Ids
  <1>8. Opens(h, j, c)
    <2>1. sk'[j] = r /\ sk'[i] = q /\ \A k \in Ids \ {i, j} : sk'[k] = sk[k]
      BY <1>1, <1>2, <1>4, <1>6 DEF KernelTypes
    <2> QED BY <1>1, <1>2, <1>3, <1>5, <2>1 DEF Opens, Open
  <1> QED BY <1>2, <1>7, <1>8 DEF c

\* closesocket closes what the handle it was given stands for, if that is a socket.
LEMMA CloseSocketCloses ==
  ASSUME KernelTypes, Members, Shape, NEW t \in Threads, CloseSocket(t)
  PROVE  KernelTypes' /\ \E h \in {th[t].reg, m_hSocket[th[t].obj]} :
           \/ Named(h) = 0 /\ SameSockets /\ UNCHANGED <<kernel, foreign>>
           \/ Closes(h) /\ Touch(h, th[t].obj)
  <1>1. PICK h \in {th[t].reg, m_hSocket[th[t].obj]} :
          IF Named(h) = 0
          THEN UNCHANGED <<kernel, foreign>>
          ELSE /\ table' = [table EXCEPT ![h] = 0]
               /\ sk' = [sk EXCEPT ![Named(h)] = ClosedSocket]
               /\ Touch(h, th[t].obj)
    BY DEF CloseSocket
  <1>2. h \in Handles \cup {INVALID}
    <2>1. th[t].obj \in Objects
      BY DEF CloseSocket, At, Shape, OKState
    <2> QED BY <2>1, ThreadReg, NamedMember
  <1>3. CASE Named(h) = 0
    BY <1>1, <1>3 DEF KernelTypes, SameSockets, Open, kernel
  <1>4. CASE Named(h) # 0
    <2>1. ClosedSocket \in Sockets /\ ClosedSocket.kind = "closed"
      <3>1. NoSocket \in Sockets
        BY ConstantsAssumption DEF NoSocket, Sockets
      <3> QED BY <3>1 DEF ClosedSocket, Sockets
    <2>2. PICK i \in Ids : i = Named(h) /\ h \in Handles /\ i = table[h]
      BY <1>2, <1>4, NamedType
    <2>3. table' = [table EXCEPT ![h] = 0] /\ sk' = [sk EXCEPT ![i] = ClosedSocket]
      BY <1>1, <1>4, <2>2
    <2>4. KernelTypes'
      BY <2>1, <2>2, <2>3, ConstantsAssumption DEF KernelTypes, Ids
    <2>5. Closes(h)
      BY <2>1, <2>2, <2>3 DEF Closes, Open, KernelTypes
    <2> QED BY <1>1, <1>4, <2>4, <2>5
  <1> QED BY <1>3, <1>4

\* The locks do not depend on anything else than where the threads are.
LEMMA AllKept ==
  ASSUME Shape, Locks, mult' = mult, lock' = lock, th' \in [Threads -> ThreadStates],
         \A u \in Threads : Depth(th'[u]) = Depth(th[u]) /\ th'[u].obj = th[u].obj
  PROVE  Locks'
  BY DEF Shape, Locks

\* The threads and the locks.
ThreadsRight == Shape /\ Locks /\ LockTypes

\* No thread moves.
LEMMA NothingMoved ==
  ASSUME Shape, Locks, LockTypes, UNCHANGED <<mult, lock, th>>
  PROVE  ThreadsRight'
  BY DEF ThreadsRight, Shape, Locks, LockTypes

\* One thread moves and holds what it held.
LEMMA Moved ==
  ASSUME Shape, Locks, LockTypes, NEW t \in Threads, NEW s, OKState(s), th' = [th EXCEPT ![t] = s],
         UNCHANGED <<mult, lock>>, Depth(s) = Depth(th[t]), Depth(s) > 0 => s.obj = th[t].obj
  PROVE  ThreadsRight'
  BY ShapeStep, LockKept DEF ThreadsRight, LockTypes

\* A function that is called waits for the lock, or is at bind.
LEMMA EntersState ==
  ASSUME NEW o \in Objects, NEW h \in Handles \cup {INVALID}, NEW f, NEW l,
         (f \in Locked \ {"Accept"} /\ l = "lock") \/ (f = "Bind" /\ l = "bind")
  PROVE  OKState([Idle EXCEPT !.pc = l, !.call = f, !.obj = o, !.target = Nothing, !.reg = h])
  <1> DEFINE s == [Idle EXCEPT !.pc = l, !.call = f, !.obj = o, !.target = Nothing, !.reg = h]
  <1>0. Idle \in ThreadStates
    BY IdleState DEF OKState
  <1>1. s \in ThreadStates
    BY <1>0 DEF ThreadStates, Labels, Calls, Locked
  <1>2. s.pc = l /\ s.call = f /\ s.obj = o /\ s.target = Nothing
    BY <1>0 DEF ThreadStates
  <1> HIDE DEF s
  <1>3. OKState(s)
    BY <1>1, <1>2, ConstantsAssumption DEF OKState, InCall, Locked
  <1> QED BY <1>3 DEF s

\* Create goes on to setsockopt.
LEMMA CreatesState ==
  ASSUME NEW o \in Objects, NEW h \in Handles
  PROVE  LET s == [Idle EXCEPT !.pc = "setsockopt", !.call = "Create", !.obj = o, !.reg = h]
         IN  OKState(s) /\ Depth(s) = 0
  <1> DEFINE s == [Idle EXCEPT !.pc = "setsockopt", !.call = "Create", !.obj = o, !.reg = h]
  <1>0. Idle \in ThreadStates /\ Idle.target \notin Objects
    BY IdleState, ConstantsAssumption DEF OKState, Idle
  <1>1. s \in ThreadStates
    BY <1>0 DEF ThreadStates, Labels, Calls, Locked
  <1>2. s.pc = "setsockopt" /\ s.call = "Create" /\ s.obj = o /\ s.target = Idle.target
    BY <1>0 DEF ThreadStates
  <1> HIDE DEF s
  <1> QED BY <1>0, <1>1, <1>2 DEF s, OKState, InCall, Depth, Locked

\* A function goes to Close() and holds what it held.
LEMMA WentToClose ==
  ASSUME Shape, Locks, LockTypes, NEW t \in Threads, NEW n \in 0 .. 2, th[t].call \in Closers,
         th[t].call # "TimedReceiveFrom", th[t].pc # "lock", GoClose(t, n), UNCHANGED <<mult, lock>>
  PROVE  ThreadsRight'
  <1> DEFINE s == [th[t] EXCEPT !.pc = "close", !.closes = n, !.reg = INVALID]
  <1>1. th[t] \in ThreadStates /\ OKState(th[t]) /\ th \in [Threads -> ThreadStates]
    BY DEF Shape
  <1>2. OKState(s)
    BY <1>1, ToClose
  <1>3. th' = [th EXCEPT ![t] = s]
    BY <1>1 DEF GoClose
  <1>4. Depth(s) = Depth(th[t]) /\ s.obj = th[t].obj
    BY <1>1 DEF ThreadStates, Depth
  <1> HIDE DEF s
  <1> QED BY <1>2, <1>3, <1>4, Moved

\* Thread t goes on with s, and the threads that it disturbs know.
Disturbing(t, s) ==
  th' = [v \in Threads |-> IF v = t THEN s
           ELSE IF Disturbs(t, v) THEN [th[v] EXCEPT !.disturbed = TRUE] ELSE th[v]]

\* closesocket and the store of line 46 change, in the other threads, what these know and nothing
\* else.
LEMMA Disturbed ==
  ASSUME Shape, Locks, LockTypes, NEW t \in Threads, NEW s, OKState(s), Depth(s) = Depth(th[t]), s.obj = th[t].obj,
         Disturbing(t, s), th[t].pc # "idle", UNCHANGED <<mult, lock>>
  PROVE  ThreadsRight'
  <1>1. ASSUME NEW r, OKState(r), r.obj \in Objects
        PROVE  /\ OKState([r EXCEPT !.disturbed = TRUE])
               /\ Depth([r EXCEPT !.disturbed = TRUE]) = Depth(r)
               /\ [r EXCEPT !.disturbed = TRUE].obj = r.obj
    <2> DEFINE q == [r EXCEPT !.disturbed = TRUE]
    <2>1. r \in ThreadStates /\ r.pc # "idle"
      BY <1>1, ConstantsAssumption DEF OKState, InCall, Idle
    <2>2. /\ q \in ThreadStates /\ q.pc = r.pc /\ q.call = r.call /\ q.obj = r.obj
          /\ q.target = r.target /\ q.closes = r.closes
      BY <2>1 DEF ThreadStates
    <2> HIDE DEF q
    <2>3. OKState(q)
      BY <1>1, <2>1, <2>2 DEF OKState, InCall
    <2> QED BY <2>2, <2>3 DEF q, Depth
  <1>2. th[t].obj \in Objects /\ s \in ThreadStates
    BY DEF Shape, OKState
  <1>3. ASSUME NEW v \in Threads
        PROVE  /\ OKState(th'[v]) /\ th'[v] \in ThreadStates
               /\ Depth(th'[v]) = Depth(th[v]) /\ th'[v].obj = th[v].obj
    <2>1. CASE v = t
      BY <1>2, <2>1 DEF Disturbing
    <2>2. CASE v # t /\ Disturbs(t, v)
      <3>1. th[v].obj \in Objects /\ OKState(th[v]) /\ th'[v] = [th[v] EXCEPT !.disturbed = TRUE]
        BY <1>2, <2>2 DEF Disturbing, Disturbs, Shape
      <3> QED BY <1>1, <3>1 DEF OKState
    <2>3. CASE v # t /\ ~Disturbs(t, v)
      BY <2>3 DEF Disturbing, Shape
    <2> QED BY <2>1, <2>2, <2>3
  <1>4. th' \in [Threads -> ThreadStates]
    BY <1>3 DEF Disturbing
  <1>5. Shape'
    BY <1>3, <1>4 DEF Shape
  <1>6. Locks'
    BY <1>3, <1>4, AllKept
  <1> QED BY <1>5, <1>6 DEF ThreadsRight, LockTypes

\* Every step keeps the threads where they can be and the locks right.
LEMMA ThreadsStep == ASSUME TypeOK, Shape, Locks, LockTypes, [Next]_vars PROVE ThreadsRight'
  <1> USE DEF At, object, kernel, history
  <1>0. TypeOK /\ Shape /\ Locks /\ LockTypes
    OBVIOUS
  <1>1. ASSUME NEW i \in Ids, Arrive(i)
       PROVE  ThreadsRight'
    BY <1>0, <1>1, NothingMoved DEF Arrive
  <1>2. ASSUME NEW i \in Ids, PeerEnds(i)
       PROVE  ThreadsRight'
    BY <1>0, <1>2, NothingMoved DEF PeerEnds
  <1>3. ASSUME NEW t \in Threads, NEW o \in Objects, New(t, o)
       PROVE  ThreadsRight'
    BY <1>0, <1>3, NothingMoved DEF New
  <1>4. ASSUME NEW t \in Threads, NEW o \in Objects, NEW b \in BOOLEAN, NewAs(t, o, b)
       PROVE  ThreadsRight'
    BY <1>0, <1>4, NothingMoved DEF NewAs
  <1>5. ASSUME NEW t \in Threads, NEW o \in Objects, NEW f \in Locked, CallLocked(t, f, o)
       PROVE  ThreadsRight'
    <2> DEFINE s == [Idle EXCEPT !.pc = "lock", !.call = f, !.obj = o, !.target = Nothing, !.reg = INVALID]
    <2>1. th[t] \in ThreadStates /\ OKState(th[t]) /\ th \in [Threads -> ThreadStates]
      BY <1>0 DEF Shape
    <2>2. th' = [th EXCEPT ![t] = s] /\ UNCHANGED <<mult, lock>>
      BY <1>5, <2>1 DEF CallLocked, Callable, Enter, ThreadStates, At
    <2>3. OKState(s)
      BY <1>0, <1>5, EntersState DEF CallLocked, TypeOK, Locked
    <2>4. Depth(s) = Depth(th[t]) /\ (Depth(s) > 0 => s.obj = th[t].obj)
      BY <1>0, <1>5, <2>1
        DEF At, Depth, OKState, InCall, ThreadStates, Labels, Calls, Locked, Idle, CallLocked, Callable,
            Enter
    <2> HIDE DEF s
    <2> QED BY <1>0, <2>2, <2>3, <2>4, Moved
  <1>6. ASSUME NEW t \in Threads, NEW o \in Objects, NEW c \in Objects, CallAccept(t, o, c)
       PROVE  ThreadsRight'
    <2> DEFINE s == [Idle EXCEPT !.pc = "lock", !.call = "Accept", !.obj = o, !.target = c, !.reg = INVALID]
    <2>1. th[t] \in ThreadStates /\ OKState(th[t]) /\ th \in [Threads -> ThreadStates]
      BY <1>0 DEF Shape
    <2>2. th' = [th EXCEPT ![t] = s] /\ UNCHANGED <<mult, lock>>
      BY <1>6, <2>1 DEF CallAccept, Callable, Enter, ThreadStates, At
    <2>3. OKState(s)
      BY <1>0, <1>6, <2>1, ConstantsAssumption
        DEF TypeOK, At, HalfClosed, OKState, InCall, ThreadStates, Labels, Calls, Locked, Idle,
            CallAccept, Callable, Enter
    <2>4. Depth(s) = Depth(th[t]) /\ (Depth(s) > 0 => s.obj = th[t].obj)
      BY <1>0, <1>6, <2>1
        DEF At, Depth, OKState, InCall, ThreadStates, Labels, Calls, Locked, Idle, CallAccept, Callable,
            Enter
    <2> HIDE DEF s
    <2> QED BY <1>0, <2>2, <2>3, <2>4, Moved
  <1>7. ASSUME NEW t \in Threads, NEW o \in Objects, NEW f \in {"Close", "delete"}, CallClose(t, o, f)
       PROVE  ThreadsRight'
    <2> DEFINE s == [Idle EXCEPT !.pc = "close", !.call = f, !.obj = o, !.closes = 1]
    <2>1. th[t] \in ThreadStates /\ OKState(th[t]) /\ th \in [Threads -> ThreadStates]
      BY <1>0 DEF Shape
    <2>2. th' = [th EXCEPT ![t] = s] /\ UNCHANGED <<mult, lock>>
      BY <1>7, <2>1 DEF CallClose, Callable, ThreadStates, At
    <2>3. OKState(s)
      <3>1. 1 \in 0 .. 2
        OBVIOUS
      <3> QED BY <3>1, CallsClose
    <2>4. Depth(s) = Depth(th[t]) /\ (Depth(s) > 0 => s.obj = th[t].obj)
      BY <1>0, <1>7, <2>1
        DEF At, Depth, OKState, InCall, ThreadStates, Labels, Calls, Locked, Idle, CallClose, Callable
    <2> HIDE DEF s
    <2> QED BY <1>0, <2>2, <2>3, <2>4, Moved
  <1>8. ASSUME NEW t \in Threads, NEW o \in Objects, Create(t, o)
       PROVE  ThreadsRight'
    <2>1. UNCHANGED <<mult, lock>>
      BY <1>8 DEF Create
    <2>2. CASE th' = th
      BY <1>0, <2>1, <2>2, NothingMoved
    <2>3. ASSUME NEW h \in Handles,
                 th' = [th EXCEPT ![t] = [Idle EXCEPT !.pc = "setsockopt", !.call = "Create", !.obj = o, !.reg = h]]
          PROVE  ThreadsRight'
      <3> DEFINE s == [Idle EXCEPT !.pc = "setsockopt", !.call = "Create", !.obj = o, !.reg = h]
      <3>1. OKState(s) /\ Depth(s) = 0
        BY CreatesState
      <3>2. Depth(th[t]) = 0
        BY <1>0, <1>8
          DEF Create, Callable, At, Shape, Depth, OKState, InCall, ThreadStates, Labels, Calls, Locked,
              Idle
      <3>3. th' = [th EXCEPT ![t] = s]
        BY <2>3
      <3> HIDE DEF s
      <3>4. Depth(s) = Depth(th[t]) /\ ~(Depth(s) > 0)
        BY <3>1, <3>2
      <3> QED BY <1>0, <2>1, <3>1, <3>3, <3>4, Moved
    <2> QED BY <1>8, <2>2, <2>3 DEF Create
  <1>9. ASSUME NEW t \in Threads, NEW o \in Objects, CreateFails(t, o)
       PROVE  ThreadsRight'
    BY <1>0, <1>9, NothingMoved DEF CreateFails, Callable, Assign
  <1>10. ASSUME NEW t \in Threads, NEW o \in Objects, CallBind(t, o)
       PROVE  ThreadsRight'
    <2> DEFINE s == [Idle EXCEPT !.pc = "bind", !.call = "Bind", !.obj = o, !.target = Nothing, !.reg = m_hSocket[o]]
    <2>1. th[t] \in ThreadStates /\ OKState(th[t]) /\ th \in [Threads -> ThreadStates]
      BY <1>0 DEF Shape
    <2>2. th' = [th EXCEPT ![t] = s] /\ UNCHANGED <<mult, lock>>
      BY <1>10, <2>1 DEF CallBind, Callable, Enter, ThreadStates, At
    <2>3. OKState(s)
      BY <1>0, <1>10, EntersState DEF CallBind, TypeOK, Locked
    <2>4. Depth(s) = Depth(th[t]) /\ (Depth(s) > 0 => s.obj = th[t].obj)
      BY <1>0, <1>10, <2>1
        DEF At, Depth, OKState, InCall, ThreadStates, Labels, Calls, Locked, Idle, CallBind, Callable,
            Enter
    <2> HIDE DEF s
    <2> QED BY <1>0, <2>2, <2>3, <2>4, Moved
  <1>11. ASSUME NEW t \in Threads, NEW o \in Objects, Listen(t, o)
       PROVE  ThreadsRight'
    BY <1>0, <1>11, NothingMoved DEF Listen, Callable, Is, Named
  <1>12. ASSUME NEW t \in Threads, NEW o \in Objects, NEW flag \in BOOLEAN, SetNonBlockingMode(t, o, flag)
       PROVE  ThreadsRight'
    BY <1>0, <1>12, NothingMoved DEF SetNonBlockingMode, Callable, Named
  <1>13. ASSUME NEW t \in Threads, TakeLock(t)
       PROVE  ThreadsRight'
    <2> DEFINE s == [th[t] EXCEPT !.pc = First(th[t].call), !.reg = m_hSocket[th[t].obj],
                                  !.disturbed = HalfClosed(t)]
    <2>1. th[t] \in ThreadStates /\ OKState(th[t]) /\ th \in [Threads -> ThreadStates]
      BY <1>0 DEF Shape
    <2>2. th' = [th EXCEPT ![t] = s] /\ mult' = mult
      BY <1>13, <2>1 DEF TakeLock, Lock, ThreadStates, At
    <2>3. OKState(s)
      BY <1>0, <1>13, <2>1, ConstantsAssumption
        DEF TypeOK, At, HalfClosed, OKState, InCall, ThreadStates, Labels, Calls, Locked, Idle, TakeLock,
            Lock, First
    <2>4. Depth(s) = Depth(th[t]) + 1
      BY <1>0, <1>13, <2>1
        DEF At, Depth, OKState, InCall, ThreadStates, Labels, Calls, Locked, Idle, TakeLock, Lock, First
    <2>5. Lock(t, th[t].obj) /\ th[t].obj \in Objects /\ s.obj = th[t].obj
      BY <1>13, <2>1 DEF TakeLock, At, OKState, ThreadStates
    <2> HIDE DEF s
    <2>6. Shape'
      BY <1>0, <2>2, <2>3, ShapeStep
    <2> QED BY <1>0, <2>2, <2>4, <2>5, <2>6, LockTaken DEF ThreadsRight, LockTypes
  <1>14. ASSUME NEW t \in Threads, CloseReturns(t)
       PROVE  ThreadsRight'
    <2>1. Return(t) /\ mult' = mult /\ th[t].pc \notin {"idle", "lock"}
      BY <1>14 DEF At, CloseReturns
    <2> QED BY <1>0, <2>1, LockReturned DEF ThreadsRight, LockTypes
  <1>15. ASSUME NEW t \in Threads, CloseTest(t)
       PROVE  ThreadsRight'
    <2> DEFINE s == IF m_hSocket[th[t].obj] = INVALID THEN [th[t] EXCEPT !.closes = @ - 1]
                    ELSE [th[t] EXCEPT !.pc = "closesocket", !.reg = m_hSocket[th[t].obj],
                                       !.disturbed = @ \/ HalfClosed(t)]
    <2>1. th[t] \in ThreadStates /\ OKState(th[t]) /\ th \in [Threads -> ThreadStates]
      BY <1>0 DEF Shape
    <2>2. th' = [th EXCEPT ![t] = s] /\ UNCHANGED <<mult, lock>>
      BY <1>15, <2>1 DEF CloseTest, ThreadStates, At
    <2>3. OKState(s)
      <3>1. /\ th[t].pc = "close" /\ th[t].call \in Closers /\ th[t].closes > 0
            /\ th[t].closes - 1 \in 0 .. 2 /\ th[t].obj \in Objects /\ th[t].disturbed \in BOOLEAN
        BY <1>15, <2>1 DEF CloseTest, At, OKState, InCall, Closers, ThreadStates
      <3>2. m_hSocket[th[t].obj] \in Handles \cup {INVALID}
        BY <1>0, <3>1 DEF TypeOK
      <3>3. (th[t].disturbed \/ HalfClosed(t)) \in BOOLEAN
        BY DEF HalfClosed
      <3>4. OKState([th[t] EXCEPT !.closes = th[t].closes - 1])
        BY <2>1, <3>1, ToClose
      <3>5. OKState([th[t] EXCEPT !.pc = "closesocket", !.reg = m_hSocket[th[t].obj],
                                 !.disturbed = th[t].disturbed \/ HalfClosed(t)])
        BY <2>1, <3>1, <3>2, <3>3, ToSocket
      <3> QED BY <3>4, <3>5
    <2>4. Depth(s) = Depth(th[t]) /\ (Depth(s) > 0 => s.obj = th[t].obj)
      BY <1>0, <1>15, <2>1
        DEF At, Depth, OKState, InCall, ThreadStates, Labels, Calls, Locked, Idle, CloseTest
    <2> HIDE DEF s
    <2> QED BY <1>0, <2>2, <2>3, <2>4, Moved
  <1>16. ASSUME NEW t \in Threads, CloseSocket(t)
       PROVE  ThreadsRight'
    <2> DEFINE s == [th[t] EXCEPT !.pc = "clear", !.reg = INVALID]
    <2>1. th[t] \in ThreadStates /\ OKState(th[t]) /\ At(t, "closesocket") /\ UNCHANGED <<mult, lock>>
      BY <1>0, <1>16 DEF Shape, CloseSocket
    <2>2. OKState(s) /\ Depth(s) = Depth(th[t]) /\ s.obj = th[t].obj
      BY <2>1 DEF At, Depth, OKState, InCall, ThreadStates, Labels, Calls, Locked, Idle
    <2>3. Disturbing(t, s)
      BY <1>16 DEF CloseSocket, Disturbing
    <2> HIDE DEF s
    <2> QED BY <1>0, <2>1, <2>2, <2>3, Disturbed
  <1>17. ASSUME NEW t \in Threads, Clear(t)
       PROVE  ThreadsRight'
    <2> DEFINE s == [th[t] EXCEPT !.pc = "close", !.closes = th[t].closes - 1]
    <2>1. th[t] \in ThreadStates /\ OKState(th[t]) /\ At(t, "clear") /\ UNCHANGED <<mult, lock>>
      BY <1>0, <1>17 DEF Shape, Clear
    <2>2. OKState(s) /\ Depth(s) = Depth(th[t]) /\ s.obj = th[t].obj
      <3>1. th[t].call \in Closers /\ th[t].closes - 1 \in 0 .. 2 /\ th[t].call # "TimedReceiveFrom"
        BY <2>1 DEF At, OKState, InCall, ThreadStates, Closers
      <3>2. OKState(s)
        BY <2>1, <3>1, ToClose
      <3> QED BY <2>1, <3>1, <3>2 DEF At, Depth, ThreadStates
    <2>3. Disturbing(t, s)
      BY <1>17 DEF Clear, Disturbing
    <2> HIDE DEF s
    <2> QED BY <1>0, <2>1, <2>2, <2>3, Disturbed
  <1>18. ASSUME NEW t \in Threads, SetSockOpt(t)
       PROVE  ThreadsRight'
    <2>1. th[t] \in ThreadStates /\ OKState(th[t]) /\ th \in [Threads -> ThreadStates] /\ At(t, "setsockopt")
      BY <1>0, <1>18 DEF Shape, SetSockOpt
    <2>2. Depth(th[t]) = 0 /\ th[t].call = "Create" /\ th[t].obj \in Objects
      BY <2>1 DEF At, OKState, InCall, Depth, Locked
    <2>3. CASE Step(t, "bind")
      <3> DEFINE s == [th[t] EXCEPT !.pc = "bind", !.reg = m_hSocket[th[t].obj]]
      <3>1. OKState(s) /\ Depth(s) = 0
        BY <1>0, <2>1, <2>2
          DEF TypeOK, Depth, OKState, InCall, ThreadStates, Labels, Calls, Locked, Idle
      <3>2. th' = [th EXCEPT ![t] = s] /\ UNCHANGED <<mult, lock>>
        BY <1>18, <2>1, <2>3 DEF SetSockOpt, Step
      <3> HIDE DEF s
      <3>3. Depth(s) = Depth(th[t]) /\ ~(Depth(s) > 0)
        BY <2>2, <3>1
      <3> QED BY <1>0, <3>1, <3>2, <3>3, Moved
    <2>4. CASE GoClose(t, 1)
      BY <1>0, <1>18, <2>1, <2>2, <2>4, WentToClose DEF SetSockOpt, Closers, Locked
    <2> QED BY <1>18, <2>3, <2>4 DEF SetSockOpt
  <1>19. ASSUME NEW t \in Threads, BindAddress(t)
       PROVE  ThreadsRight'
    <2>1. th[t] \in ThreadStates /\ OKState(th[t]) /\ th \in [Threads -> ThreadStates] /\ At(t, "bind")
      BY <1>0, <1>19 DEF Shape, BindAddress
    <2>2. Depth(th[t]) = 0 /\ th[t].call \in {"Create", "Bind"} /\ UNCHANGED <<mult, lock>>
      BY <1>19, <2>1 DEF At, OKState, InCall, Depth, Locked, BindAddress
    <2>3. CASE th[t].call = "Create"
      BY <1>0, <1>19, <2>1, <2>2, <2>3, WentToClose DEF BindAddress, Closers, Locked
    <2>4. CASE th[t].call # "Create"
      <3>1. th' = [th EXCEPT ![t] = Idle]
        BY <1>19, <2>4 DEF BindAddress
      <3>2. OKState(Idle) /\ Depth(Idle) = Depth(th[t]) /\ ~(Depth(Idle) > 0)
        BY <2>2, IdleState
      <3> HIDE DEF Idle
      <3> QED BY <1>0, <2>2, <3>1, <3>2, Moved
    <2> QED BY <2>3, <2>4
  <1>20. ASSUME NEW t \in Threads, BindFails(t)
       PROVE  ThreadsRight'
    <2> DEFINE s == [th[t] EXCEPT !.pc = "close", !.closes = IF th[t].call = "Create" THEN 2 ELSE 1, !.reg = INVALID]
    <2>1. th[t] \in ThreadStates /\ OKState(th[t]) /\ th \in [Threads -> ThreadStates]
      BY <1>0 DEF Shape
    <2>2. th' = [th EXCEPT ![t] = s] /\ UNCHANGED <<mult, lock>>
      BY <1>20, <2>1 DEF BindFails, GoClose, ThreadStates, At
    <2>3. OKState(s)
      <3>1. th[t].call \in Closers /\ 1 \in 0 .. 2 /\ 2 \in 0 .. 2
        BY <1>20, <2>1 DEF BindFails, At, OKState, InCall, Closers
      <3> QED BY <2>1, <3>1, ToClose
    <2>4. Depth(s) = Depth(th[t]) /\ (Depth(s) > 0 => s.obj = th[t].obj)
      BY <1>0, <1>20, <2>1
        DEF At, Depth, OKState, InCall, ThreadStates, Labels, Calls, Locked, Idle, BindFails, GoClose
    <2> HIDE DEF s
    <2> QED BY <1>0, <2>2, <2>3, <2>4, Moved
  <1>21. ASSUME NEW t \in Threads, BindSucceeds(t)
       PROVE  ThreadsRight'
    <2> DEFINE s == Idle
    <2>1. th[t] \in ThreadStates /\ OKState(th[t]) /\ th \in [Threads -> ThreadStates]
      BY <1>0 DEF Shape
    <2>2. th' = [th EXCEPT ![t] = s] /\ UNCHANGED <<mult, lock>>
      BY <1>21, <2>1 DEF BindSucceeds, Is, Named, ThreadStates, At
    <2>3. OKState(s)
      BY <1>0, <1>21, <2>1, ConstantsAssumption
        DEF TypeOK, At, HalfClosed, OKState, InCall, ThreadStates, Labels, Calls, Locked, Idle,
            BindSucceeds, Is, Named
    <2>4. Depth(s) = Depth(th[t]) /\ (Depth(s) > 0 => s.obj = th[t].obj)
      BY <1>0, <1>21, <2>1
        DEF At, Depth, OKState, InCall, ThreadStates, Labels, Calls, Locked, Idle, BindSucceeds, Is,
            Named
    <2> HIDE DEF s
    <2> QED BY <1>0, <2>2, <2>3, <2>4, Moved
  <1>22. ASSUME NEW t \in Threads, IoctlNothing(t)
       PROVE  ThreadsRight'
    <2>1. Return(t) /\ mult' = mult /\ th[t].pc \notin {"idle", "lock"}
      BY <1>22 DEF At, IoctlNothing
    <2> QED BY <1>0, <2>1, LockReturned DEF ThreadsRight, LockTypes
  <1>23. ASSUME NEW t \in Threads, IoctlLength(t)
       PROVE  ThreadsRight'
    <2> DEFINE s == [th[t] EXCEPT !.pc = "recv", !.reg = m_hSocket[th[t].obj]]
    <2>1. th[t] \in ThreadStates /\ OKState(th[t]) /\ th \in [Threads -> ThreadStates]
      BY <1>0 DEF Shape
    <2>2. th' = [th EXCEPT ![t] = s] /\ UNCHANGED <<mult, lock>>
      BY <1>23, <2>1 DEF IoctlLength, Step, ThreadStates, At
    <2>3. OKState(s)
      BY <1>0, <1>23, <2>1, ConstantsAssumption
        DEF TypeOK, At, HalfClosed, OKState, InCall, ThreadStates, Labels, Calls, Locked, Idle,
            IoctlLength, Step
    <2>4. Depth(s) = Depth(th[t]) /\ (Depth(s) > 0 => s.obj = th[t].obj)
      BY <1>0, <1>23, <2>1
        DEF At, Depth, OKState, InCall, ThreadStates, Labels, Calls, Locked, Idle, IoctlLength, Step
    <2> HIDE DEF s
    <2> QED BY <1>0, <2>2, <2>3, <2>4, Moved
  <1>24. ASSUME NEW t \in Threads, Receives(t)
       PROVE  ThreadsRight'
    <2>1. Return(t) /\ mult' = mult /\ th[t].pc \notin {"idle", "lock"}
      BY <1>24 DEF At, Receives
    <2> QED BY <1>0, <2>1, LockReturned DEF ThreadsRight, LockTypes
  <1>25. ASSUME NEW t \in Threads, SelectEnds(t)
       PROVE  ThreadsRight'
    <2>1. Return(t) /\ mult' = mult /\ th[t].pc \notin {"idle", "lock"}
      BY <1>25 DEF At, SelectEnds
    <2> QED BY <1>0, <2>1, LockReturned DEF ThreadsRight, LockTypes
  <1>26. ASSUME NEW t \in Threads, SelectReady(t)
       PROVE  ThreadsRight'
    <2> DEFINE s == [th[t] EXCEPT !.pc = "recvfrom", !.reg = m_hSocket[th[t].obj]]
    <2>1. th[t] \in ThreadStates /\ OKState(th[t]) /\ th \in [Threads -> ThreadStates]
      BY <1>0 DEF Shape
    <2>2. th' = [th EXCEPT ![t] = s] /\ mult' = mult
      BY <1>26, <2>1 DEF SelectReady, Lock, Step, ThreadStates, At
    <2>3. OKState(s)
      BY <1>0, <1>26, <2>1, ConstantsAssumption
        DEF TypeOK, At, HalfClosed, OKState, InCall, ThreadStates, Labels, Calls, Locked, Idle,
            SelectReady, Lock, Step
    <2>4. Depth(s) = Depth(th[t]) + 1
      BY <1>0, <1>26, <2>1
        DEF At, Depth, OKState, InCall, ThreadStates, Labels, Calls, Locked, Idle, SelectReady, Lock,
            Step
    <2>5. Lock(t, th[t].obj) /\ th[t].obj \in Objects /\ s.obj = th[t].obj
      BY <1>26, <2>1 DEF SelectReady, At, OKState, ThreadStates
    <2> HIDE DEF s
    <2>6. Shape'
      BY <1>0, <2>2, <2>3, ShapeStep
    <2> QED BY <1>0, <2>2, <2>4, <2>5, <2>6, LockTaken DEF ThreadsRight, LockTypes
  <1>27. ASSUME NEW t \in Threads, Sends(t)
       PROVE  ThreadsRight'
    <2>1. Return(t) /\ mult' = mult /\ th[t].pc \notin {"idle", "lock"}
      BY <1>27 DEF At, Sends
    <2> QED BY <1>0, <2>1, LockReturned DEF ThreadsRight, LockTypes
  <1>28. ASSUME NEW t \in Threads, ConnectLookup(t)
       PROVE  ThreadsRight'
    <2>1. Return(t) /\ mult' = mult /\ th[t].pc \notin {"idle", "lock"}
      BY <1>28 DEF At, ConnectLookup
    <2> QED BY <1>0, <2>1, LockReturned DEF ThreadsRight, LockTypes
  <1>29. ASSUME NEW t \in Threads, ConnectSucceeds(t)
       PROVE  ThreadsRight'
    <2>1. Return(t) /\ mult' = mult /\ th[t].pc \notin {"idle", "lock"}
      BY <1>29 DEF At, ConnectSucceeds
    <2> QED BY <1>0, <2>1, LockReturned DEF ThreadsRight, LockTypes
  <1>30. ASSUME NEW t \in Threads, ConnectFails(t)
       PROVE  ThreadsRight'
    <2> DEFINE s == [th[t] EXCEPT !.pc = "close", !.closes = 1, !.reg = INVALID]
    <2>1. th[t] \in ThreadStates /\ OKState(th[t]) /\ th \in [Threads -> ThreadStates]
      BY <1>0 DEF Shape
    <2>2. th' = [th EXCEPT ![t] = s] /\ UNCHANGED <<mult, lock>>
      BY <1>30, <2>1 DEF ConnectFails, GoClose, ThreadStates, At
    <2>3. OKState(s)
      <3>1. th[t].call \in Closers /\ 1 \in 0 .. 2
        BY <1>30, <2>1 DEF ConnectFails, At, OKState, InCall, Closers
      <3> QED BY <2>1, <3>1, ToClose
    <2>4. Depth(s) = Depth(th[t]) /\ (Depth(s) > 0 => s.obj = th[t].obj)
      BY <1>0, <1>30, <2>1
        DEF At, Depth, OKState, InCall, ThreadStates, Labels, Calls, Locked, Idle, ConnectFails, GoClose
    <2> HIDE DEF s
    <2> QED BY <1>0, <2>2, <2>3, <2>4, Moved
  <1>31. ASSUME NEW t \in Threads, AcceptSucceeds(t)
       PROVE  ThreadsRight'
    <2>1. Return(t) /\ mult' = mult /\ th[t].pc \notin {"idle", "lock"}
      BY <1>31 DEF At, AcceptSucceeds
    <2> QED BY <1>0, <2>1, LockReturned DEF ThreadsRight, LockTypes
  <1>32. ASSUME NEW t \in Threads, AcceptFails(t)
       PROVE  ThreadsRight'
    <2>1. Return(t) /\ mult' = mult /\ th[t].pc \notin {"idle", "lock"}
      BY <1>32 DEF At, AcceptFails
    <2> QED BY <1>0, <2>1, LockReturned DEF ThreadsRight, LockTypes
  <1>33. CASE UNCHANGED vars
    BY <1>0, <1>33, NothingMoved DEF vars
  <1> QED BY <1>0, <1>1, <1>2, <1>3, <1>4, <1>5, <1>6, <1>7, <1>8, <1>9, <1>10, <1>11, <1>12, <1>13,
             <1>14, <1>15, <1>16, <1>17, <1>18, <1>19, <1>20, <1>21, <1>22, <1>23, <1>24, <1>25, <1>26,
             <1>27, <1>28, <1>29, <1>30, <1>31, <1>32, <1>33
      DEF Next, Continue, Call, Closing, Creating, Transfer, Connecting, Network

\* Handle values that are in use stand for different, open sockets, which belong to objects.
Kernel ==
  /\ \A h \in Handles : table[h] # 0 => Open(table[h])
  /\ \A g, h \in Handles : table[g] = table[h] /\ table[h] # 0 => g = h
  /\ \A i \in Ids : Open(i) => sk[i].owner \in Objects

\* The table stays right when no socket is opened or closed,
LEMMA KernelSame == ASSUME KernelTypes, Kernel, SameSockets PROVE Kernel'
  <1>1. \A h \in Handles : table[h] # 0 => table[h] \in Ids
    BY ConstantsAssumption DEF KernelTypes, Ids
  <1> QED BY <1>1 DEF Kernel, SameSockets, Open

\* when one is opened, under a handle value that was free,
LEMMA KernelOpens ==
  ASSUME KernelTypes, Kernel, NEW h, NEW i, NEW o \in Objects, Opens(h, i, o)
  PROVE  Kernel'
  <1>1. \A g \in Handles : table[g] # 0 => table[g] \in Ids /\ table[g] # i
    BY ConstantsAssumption DEF KernelTypes, Ids, Kernel, Opens, Open
  <1>2. \A g \in Handles : table'[g] = IF g = h THEN i ELSE table[g]
    BY DEF Opens, KernelTypes
  <1>3. \A j \in Ids \ {i} : (sk'[j].kind \notin {"none", "closed"} <=> Open(j)) /\ sk'[j].owner = sk[j].owner
    BY DEF Opens, Open
  <1>4. i \in Ids /\ sk'[i].kind \notin {"none", "closed"} /\ sk'[i].owner = o
    BY DEF Opens, Open
  <1>5. (\A g \in Handles : table[g] # 0 => Open(table[g]))'
    BY <1>1, <1>2, <1>3, <1>4 DEF Kernel, Open
  <1>6. (\A g, k \in Handles : table[g] = table[k] /\ table[k] # 0 => g = k)'
    BY <1>1, <1>2 DEF Kernel
  <1>7. (\A j \in Ids : Open(j) => sk[j].owner \in Objects)'
    BY <1>3, <1>4 DEF Kernel, Open
  <1> QED BY <1>5, <1>6, <1>7 DEF Kernel

\* and when one is closed.
LEMMA KernelCloses ==
  ASSUME KernelTypes, Kernel, NEW h, Closes(h)
  PROVE  Kernel'
  <1>1. \A g \in Handles : table[g] # 0 => table[g] \in Ids
    BY ConstantsAssumption DEF KernelTypes, Ids
  <1>2. \A g \in Handles : table'[g] = IF g = h THEN 0 ELSE table[g]
    BY DEF Closes, KernelTypes
  <1>3. \A j \in Ids \ {table[h]} : (sk'[j].kind \notin {"none", "closed"} <=> Open(j)) /\ sk'[j].owner = sk[j].owner
    BY DEF Closes, Open
  <1>4. sk'[table[h]].kind = "closed" /\ h \in Handles
    BY DEF Closes
  <1>5. (\A g \in Handles : table[g] # 0 => Open(table[g]))'
    BY <1>1, <1>2, <1>3, <1>4 DEF Kernel, Open
  <1>6. (\A g, k \in Handles : table[g] = table[k] /\ table[k] # 0 => g = k)'
    BY <1>1, <1>2 DEF Kernel
  <1>7. (\A j \in Ids : Open(j) => sk[j].owner \in Objects)'
    BY <1>3, <1>4 DEF Kernel, Open
  <1> QED BY <1>5, <1>6, <1>7 DEF Kernel

\* What a step may do to the kernel.
KernelStep ==
  \/ SameSockets
  \/ \E h \in Handles, i \in Ids, o \in Objects : Opens(h, i, o)
  \/ \E h \in Handles : Closes(h)

\* A thread in a function is in a function of an object, and accept has an object to fill.
LEMMA ThreadObject ==
  ASSUME Shape, NEW t \in Threads, th[t].pc # "idle"
  PROVE  th[t].obj \in Objects /\ (At(t, "accept") => th[t].target \in Objects)
  BY DEF Shape, OKState, InCall, At

\* A step that leaves the kernel alone opens and closes nothing.
LEMMA KernelUnchanged ==
  ASSUME KernelTypes, UNCHANGED kernel
  PROVE  KernelTypes' /\ SameSockets
  BY DEF KernelTypes, kernel, SameSockets, Open

\* What the steps do to the kernel: nothing that counts, one socket more, or one less.
LEMMA KernelSteps == ASSUME Members, KernelTypes, Shape, [Next]_vars PROVE KernelTypes' /\ KernelStep
  <1> USE DEF At, kernel, KernelStep
  <1>0. Members /\ KernelTypes /\ Shape
    OBVIOUS
  <1>1. ASSUME NEW i \in Ids, Arrive(i)
       PROVE  KernelTypes' /\ KernelStep
    BY <1>0, <1>1, ArriveTweaks
  <1>2. ASSUME NEW i \in Ids, PeerEnds(i)
       PROVE  KernelTypes' /\ KernelStep
    BY <1>0, <1>2, PeerEndsTweaks
  <1>3. ASSUME NEW t \in Threads, NEW o \in Objects, New(t, o)
       PROVE  KernelTypes' /\ KernelStep
    BY <1>0, <1>3, KernelUnchanged DEF New
  <1>4. ASSUME NEW t \in Threads, NEW o \in Objects, NEW b \in BOOLEAN, NewAs(t, o, b)
       PROVE  KernelTypes' /\ KernelStep
    BY <1>0, <1>4, KernelUnchanged DEF NewAs
  <1>5. ASSUME NEW t \in Threads, NEW o \in Objects, NEW f \in Locked, CallLocked(t, f, o)
       PROVE  KernelTypes' /\ KernelStep
    BY <1>0, <1>5, KernelUnchanged DEF CallLocked
  <1>6. ASSUME NEW t \in Threads, NEW o \in Objects, NEW c \in Objects, CallAccept(t, o, c)
       PROVE  KernelTypes' /\ KernelStep
    BY <1>0, <1>6, KernelUnchanged DEF CallAccept
  <1>7. ASSUME NEW t \in Threads, NEW o \in Objects, NEW f \in {"Close", "delete"}, CallClose(t, o, f)
       PROVE  KernelTypes' /\ KernelStep
    BY <1>0, <1>7, KernelUnchanged DEF CallClose
  <1>8. ASSUME NEW t \in Threads, NEW o \in Objects, Create(t, o)
       PROVE  KernelTypes' /\ KernelStep
    BY <1>0, <1>8, CreateOpens
  <1>9. ASSUME NEW t \in Threads, NEW o \in Objects, CreateFails(t, o)
       PROVE  KernelTypes' /\ KernelStep
    BY <1>0, <1>9, KernelUnchanged DEF CreateFails
  <1>10. ASSUME NEW t \in Threads, NEW o \in Objects, CallBind(t, o)
       PROVE  KernelTypes' /\ KernelStep
    BY <1>0, <1>10, KernelUnchanged DEF CallBind
  <1>11. ASSUME NEW t \in Threads, NEW o \in Objects, Listen(t, o)
       PROVE  KernelTypes' /\ KernelStep
    BY <1>0, <1>11, CallTweaks
  <1>12. ASSUME NEW t \in Threads, NEW o \in Objects, NEW flag \in BOOLEAN, SetNonBlockingMode(t, o, flag)
       PROVE  KernelTypes' /\ KernelStep
    BY <1>0, <1>12, CallTweaks
  <1>13. ASSUME NEW t \in Threads, TakeLock(t)
       PROVE  KernelTypes' /\ KernelStep
    BY <1>0, <1>13, KernelUnchanged DEF TakeLock
  <1>14. ASSUME NEW t \in Threads, CloseReturns(t)
       PROVE  KernelTypes' /\ KernelStep
    BY <1>0, <1>14, KernelUnchanged DEF CloseReturns
  <1>15. ASSUME NEW t \in Threads, CloseTest(t)
       PROVE  KernelTypes' /\ KernelStep
    BY <1>0, <1>15, KernelUnchanged DEF CloseTest
  <1>16. ASSUME NEW t \in Threads, CloseSocket(t)
       PROVE  KernelTypes' /\ KernelStep
    BY <1>0, <1>16, CloseSocketCloses DEF Closes
  <1>17. ASSUME NEW t \in Threads, Clear(t)
       PROVE  KernelTypes' /\ KernelStep
    BY <1>0, <1>17, KernelUnchanged DEF Clear
  <1>18. ASSUME NEW t \in Threads, SetSockOpt(t)
       PROVE  KernelTypes' /\ KernelStep
    BY <1>0, <1>18, KernelUnchanged DEF SetSockOpt
  <1>19. ASSUME NEW t \in Threads, BindAddress(t)
       PROVE  KernelTypes' /\ KernelStep
    BY <1>0, <1>19, KernelUnchanged DEF BindAddress
  <1>20. ASSUME NEW t \in Threads, BindFails(t)
       PROVE  KernelTypes' /\ KernelStep
    BY <1>0, <1>20, KernelUnchanged DEF BindFails
  <1>21. ASSUME NEW t \in Threads, BindSucceeds(t)
       PROVE  KernelTypes' /\ KernelStep
    BY <1>0, <1>21, ThreadTweaks
  <1>22. ASSUME NEW t \in Threads, IoctlNothing(t)
       PROVE  KernelTypes' /\ KernelStep
    BY <1>0, <1>22, KernelUnchanged DEF IoctlNothing
  <1>23. ASSUME NEW t \in Threads, IoctlLength(t)
       PROVE  KernelTypes' /\ KernelStep
    BY <1>0, <1>23, KernelUnchanged DEF IoctlLength
  <1>24. ASSUME NEW t \in Threads, Receives(t)
       PROVE  KernelTypes' /\ KernelStep
    BY <1>0, <1>24, ThreadTweaks
  <1>25. ASSUME NEW t \in Threads, SelectEnds(t)
       PROVE  KernelTypes' /\ KernelStep
    BY <1>0, <1>25, KernelUnchanged DEF SelectEnds
  <1>26. ASSUME NEW t \in Threads, SelectReady(t)
       PROVE  KernelTypes' /\ KernelStep
    BY <1>0, <1>26, KernelUnchanged DEF SelectReady
  <1>27. ASSUME NEW t \in Threads, Sends(t)
       PROVE  KernelTypes' /\ KernelStep
    BY <1>0, <1>27, KernelUnchanged DEF Sends
  <1>28. ASSUME NEW t \in Threads, ConnectLookup(t)
       PROVE  KernelTypes' /\ KernelStep
    BY <1>0, <1>28, KernelUnchanged DEF ConnectLookup
  <1>29. ASSUME NEW t \in Threads, ConnectSucceeds(t)
       PROVE  KernelTypes' /\ KernelStep
    BY <1>0, <1>29, ThreadTweaks
  <1>30. ASSUME NEW t \in Threads, ConnectFails(t)
       PROVE  KernelTypes' /\ KernelStep
    BY <1>0, <1>30, KernelUnchanged DEF ConnectFails
  <1>31. ASSUME NEW t \in Threads, AcceptSucceeds(t)
       PROVE  KernelTypes' /\ KernelStep
    BY <1>0, <1>31, AcceptOpens, ThreadObject DEF AcceptSucceeds
  <1>32. ASSUME NEW t \in Threads, AcceptFails(t)
       PROVE  KernelTypes' /\ KernelStep
    BY <1>0, <1>32, KernelUnchanged DEF AcceptFails
  <1>33. CASE UNCHANGED vars
    BY <1>0, <1>33, KernelUnchanged DEF vars
  <1> QED BY <1>0, <1>1, <1>2, <1>3, <1>4, <1>5, <1>6, <1>7, <1>8, <1>9, <1>10, <1>11, <1>12, <1>13,
             <1>14, <1>15, <1>16, <1>17, <1>18, <1>19, <1>20, <1>21, <1>22, <1>23, <1>24, <1>25, <1>26,
             <1>27, <1>28, <1>29, <1>30, <1>31, <1>32, <1>33
      DEF Next, Continue, Call, Closing, Creating, Transfer, Connecting, Network

\* Every step keeps the types of the members and of the history.
LEMMA MembersStep == ASSUME Members, KernelTypes, Shape, [Next]_vars PROVE Members'
  <1> USE DEF At, object, kernel, history
  <1>0. Members /\ KernelTypes /\ Shape
    OBVIOUS
  <1>1. ASSUME NEW i \in Ids, Arrive(i)
       PROVE  Members'
    BY <1>0, <1>1 DEF Members, Arrive
  <1>2. ASSUME NEW i \in Ids, PeerEnds(i)
       PROVE  Members'
    BY <1>0, <1>2 DEF Members, PeerEnds
  <1>3. ASSUME NEW t \in Threads, NEW o \in Objects, New(t, o)
       PROVE  Members'
    BY <1>0, <1>3, ThreadObject, ConstantsAssumption DEF Members, New
  <1>4. ASSUME NEW t \in Threads, NEW o \in Objects, NEW b \in BOOLEAN, NewAs(t, o, b)
       PROVE  Members'
    BY <1>0, <1>4, ThreadObject, ConstantsAssumption DEF Members, NewAs
  <1>5. ASSUME NEW t \in Threads, NEW o \in Objects, NEW f \in Locked, CallLocked(t, f, o)
       PROVE  Members'
    BY <1>0, <1>5, ThreadObject, ConstantsAssumption DEF Members, CallLocked, Callable
  <1>6. ASSUME NEW t \in Threads, NEW o \in Objects, NEW c \in Objects, CallAccept(t, o, c)
       PROVE  Members'
    BY <1>0, <1>6, ThreadObject, ConstantsAssumption DEF Members, CallAccept, Callable
  <1>7. ASSUME NEW t \in Threads, NEW o \in Objects, NEW f \in {"Close", "delete"}, CallClose(t, o, f)
       PROVE  Members'
    BY <1>0, <1>7, ThreadObject, ConstantsAssumption DEF Members, CallClose, Callable
  <1>8. ASSUME NEW t \in Threads, NEW o \in Objects, Create(t, o)
       PROVE  Members'
    BY <1>0, <1>8, AssignTypes, ConstantsAssumption DEF Members, Create, Callable
  <1>9. ASSUME NEW t \in Threads, NEW o \in Objects, CreateFails(t, o)
       PROVE  Members'
    BY <1>0, <1>9, AssignTypes, ConstantsAssumption DEF Members, CreateFails, Callable
  <1>10. ASSUME NEW t \in Threads, NEW o \in Objects, CallBind(t, o)
       PROVE  Members'
    BY <1>0, <1>10, ThreadObject, ConstantsAssumption DEF Members, CallBind, Callable
  <1>11. ASSUME NEW t \in Threads, NEW o \in Objects, Listen(t, o)
       PROVE  Members'
    BY <1>0, <1>11, ThreadObject, ConstantsAssumption DEF Members, Listen, Callable
  <1>12. ASSUME NEW t \in Threads, NEW o \in Objects, NEW flag \in BOOLEAN, SetNonBlockingMode(t, o, flag)
       PROVE  Members'
    BY <1>0, <1>12, ThreadObject, ConstantsAssumption DEF Members, SetNonBlockingMode, Callable
  <1>13. ASSUME NEW t \in Threads, TakeLock(t)
       PROVE  Members'
    BY <1>0, <1>13, ThreadObject, ConstantsAssumption DEF Members, TakeLock
  <1>14. ASSUME NEW t \in Threads, CloseReturns(t)
       PROVE  Members'
    BY <1>0, <1>14, ThreadObject, ConstantsAssumption DEF Members, CloseReturns
  <1>15. ASSUME NEW t \in Threads, CloseTest(t)
       PROVE  Members'
    BY <1>0, <1>15, ThreadObject, ConstantsAssumption DEF Members, CloseTest
  <1>16. ASSUME NEW t \in Threads, CloseSocket(t)
       PROVE  Members'
    BY <1>0, <1>16, ThreadObject, ConstantsAssumption DEF Members, CloseSocket, Touch
  <1>17. ASSUME NEW t \in Threads, Clear(t)
       PROVE  Members'
    BY <1>0, <1>17, ThreadObject, ConstantsAssumption DEF Members, Clear
  <1>18. ASSUME NEW t \in Threads, SetSockOpt(t)
       PROVE  Members'
    BY <1>0, <1>18, ThreadObject, ConstantsAssumption DEF Members, SetSockOpt
  <1>19. ASSUME NEW t \in Threads, BindAddress(t)
       PROVE  Members'
    BY <1>0, <1>19, ThreadObject, ConstantsAssumption DEF Members, BindAddress
  <1>20. ASSUME NEW t \in Threads, BindFails(t)
       PROVE  Members'
    BY <1>0, <1>20, ThreadObject, ConstantsAssumption DEF Members, BindFails
  <1>21. ASSUME NEW t \in Threads, BindSucceeds(t)
       PROVE  Members'
    BY <1>0, <1>21, ThreadObject, ConstantsAssumption DEF Members, BindSucceeds
  <1>22. ASSUME NEW t \in Threads, IoctlNothing(t)
       PROVE  Members'
    BY <1>0, <1>22, ThreadObject, ConstantsAssumption DEF Members, IoctlNothing
  <1>23. ASSUME NEW t \in Threads, IoctlLength(t)
       PROVE  Members'
    BY <1>0, <1>23, ThreadObject, ConstantsAssumption DEF Members, IoctlLength
  <1>24. ASSUME NEW t \in Threads, Receives(t)
       PROVE  Members'
    BY <1>0, <1>24, ThreadObject, ConstantsAssumption DEF Members, Receives, Touch
  <1>25. ASSUME NEW t \in Threads, SelectEnds(t)
       PROVE  Members'
    BY <1>0, <1>25, ThreadObject, ConstantsAssumption DEF Members, SelectEnds
  <1>26. ASSUME NEW t \in Threads, SelectReady(t)
       PROVE  Members'
    BY <1>0, <1>26, ThreadObject, ConstantsAssumption DEF Members, SelectReady
  <1>27. ASSUME NEW t \in Threads, Sends(t)
       PROVE  Members'
    BY <1>0, <1>27, ThreadObject, ConstantsAssumption DEF Members, Sends
  <1>28. ASSUME NEW t \in Threads, ConnectLookup(t)
       PROVE  Members'
    BY <1>0, <1>28, ThreadObject, ConstantsAssumption DEF Members, ConnectLookup
  <1>29. ASSUME NEW t \in Threads, ConnectSucceeds(t)
       PROVE  Members'
    BY <1>0, <1>29, ThreadObject, ConstantsAssumption DEF Members, ConnectSucceeds
  <1>30. ASSUME NEW t \in Threads, ConnectFails(t)
       PROVE  Members'
    BY <1>0, <1>30, ThreadObject, ConstantsAssumption DEF Members, ConnectFails
  <1>31. ASSUME NEW t \in Threads, AcceptSucceeds(t)
       PROVE  Members'
    BY <1>0, <1>31, AssignTypes, ThreadObject, ConstantsAssumption DEF Members, AcceptSucceeds, Touch
  <1>32. ASSUME NEW t \in Threads, AcceptFails(t)
       PROVE  Members'
    BY <1>0, <1>32, AssignTypes, ThreadObject, ConstantsAssumption DEF Members, AcceptFails
  <1>33. CASE UNCHANGED vars
    BY <1>0, <1>33 DEF vars, Members
  <1> QED BY <1>0, <1>1, <1>2, <1>3, <1>4, <1>5, <1>6, <1>7, <1>8, <1>9, <1>10, <1>11, <1>12, <1>13,
             <1>14, <1>15, <1>16, <1>17, <1>18, <1>19, <1>20, <1>21, <1>22, <1>23, <1>24, <1>25, <1>26,
             <1>27, <1>28, <1>29, <1>30, <1>31, <1>32, <1>33
      DEF Next, Continue, Call, Closing, Creating, Transfer, Connecting, Network

\* The object that an Accept is going to fill is nobody else's.
Targets ==
  \A t \in Threads : th[t].call = "Accept" =>
    /\ th[t].target \in built /\ th[t].target \notin inUse
    /\ \A u \in Threads : th[u].obj # th[t].target /\ (u # t => th[u].target # th[t].target)

\* Object o has an open socket that it can still close.
Has(i, o) == i \notin abandoned /\ Open(i) /\ sk[i].owner = o

\* It is the one that its member names.
Owner == \A i \in Ids, o \in Objects : Has(i, o) => o \in built /\ Named(m_hSocket[o]) = i

\* Its users know of it, or Create is still at work.
Settled ==
  \A i \in Ids, o \in Objects : Has(i, o) =>
    o \in inUse \/ o \in early \/ \E t \in Threads : th[t].obj = o /\ th[t].call = "Create"

\* A thread on its way through Close().
ClosesRight(s) ==
  /\ s.pc = "close" /\ s.closes = 0 => m_hSocket[s.obj] = INVALID
  /\ s.pc = "closesocket" => m_hSocket[s.obj] \in {s.reg, INVALID}
  /\ s.pc = "clear" => \A i \in Ids : ~Has(i, s.obj)

\* All of them.
CloseSteps == \A t \in Threads : ClosesRight(th[t])

\* The second invariant: sockets and the objects that can close them.
OInv == Kernel /\ Targets /\ Owner /\ Settled /\ CloseSteps

\* The first invariant: types, places and locks.
LInv == Members /\ KernelTypes /\ ThreadsRight

\* What an object has does not change in a step that opens and closes nothing.
LEMMA HasSame ==
  ASSUME SameSockets, abandoned' = abandoned, NEW i \in Ids, NEW o
  PROVE  (i \notin abandoned' /\ sk'[i].kind \notin {"none", "closed"} /\ sk'[i].owner = o) <=> Has(i, o)
  BY DEF SameSockets, Has, Open

\* A step of one thread that leaves the objects and the handle values alone.
LEMMA Quiet ==
  ASSUME LInv, OInv, SameSockets, UNCHANGED <<m_hSocket, built, abandoned>>,
         NEW t \in Threads, NEW s, th' = [th EXCEPT ![t] = s], LInv',
         s.call = "Accept" => th[t].call = "Accept" /\ s.target = th[t].target,
         s.obj \in Objects => s.obj = th[t].obj \/ \A u \in Threads : th[u].target # s.obj,
         th[t].call = "Create" =>
           (s.call = "Create" /\ s.obj = th[t].obj) \/ th[t].obj \in inUse' \cup early',
         ClosesRight(s), s.pc # "clear",
         \A o \in Objects : o \in inUse' \ inUse => o = th[t].obj,
         \A o \in Objects : o \in inUse \cup early => o \in inUse' \cup early'
  PROVE  OInv'
  <1>0. /\ Members /\ KernelTypes /\ Shape /\ th \in [Threads -> ThreadStates]
        /\ Kernel /\ Targets /\ Owner /\ Settled /\ CloseSteps
    BY DEF LInv, ThreadsRight, Shape, OInv
  <1>1. th'[t] = s /\ OKState(s) /\ \A u \in Threads : u # t => th'[u] = th[u]
    BY <1>0 DEF LInv, ThreadsRight, Shape
  <1>2. Kernel'
    BY <1>0, KernelSame
  <1>3. \A i \in Ids, o \in Objects : Has(i, o)' <=> Has(i, o)
    BY HasSame DEF Has, Open
  <1>4. \A h : Named(h)' = Named(h)
    BY DEF Named, SameSockets
  <1>5. Targets'
    <2>1. ASSUME NEW v \in Threads, th'[v].call = "Accept"
          PROVE  th[v].call = "Accept" /\ th'[v].target = th[v].target /\ th[v].target \in Objects
      BY <1>0, <1>1, <2>1 DEF Shape, OKState
    <2>2. ASSUME NEW v \in Threads, th'[v].obj \in Objects
          PROVE  th'[v].obj = th[v].obj \/ \A u \in Threads : th[u].target # th'[v].obj
      BY <1>1, <2>2
    <2>3. ASSUME NEW v \in Threads, th'[v].target \in Objects
          PROVE  th'[v].target = th[v].target
      BY <1>0, <1>1, <2>3 DEF OKState
    <2> QED BY <1>0, <1>1, <2>1, <2>2, <2>3 DEF Targets, Shape
  <1>6. Owner'
    BY <1>3, <1>4, <1>0 DEF Owner
  <1>7. Settled'
    BY <1>0, <1>1, <1>3 DEF Settled
  <1>8. CloseSteps'
    <2>1. ASSUME NEW v \in Threads
          PROVE  ClosesRight(th[v])'
      <3>1. CASE v = t
        BY <1>1, <3>1 DEF ClosesRight
      <3>2. CASE v # t
        <4>1. th'[v] = th[v] /\ ClosesRight(th[v]) /\ (th[v].pc = "clear" => th[v].obj \in Objects)
          BY <1>0, <1>1, <3>2 DEF CloseSteps, Shape, OKState
        <4> QED BY <1>3, <4>1 DEF ClosesRight
      <3> QED BY <3>1, <3>2
    <2> QED BY <2>1 DEF CloseSteps
  <1> QED BY <1>2, <1>5, <1>6, <1>7, <1>8 DEF OInv

\* Such a step, when the function returns.
LEMMA QuietReturn ==
  ASSUME LInv, LInv', OInv, SameSockets, UNCHANGED <<m_hSocket, built, abandoned>>,
         NEW t \in Threads, th' = [th EXCEPT ![t] = Idle],
         th[t].call = "Create" => th[t].obj \in inUse' \cup early',
         \A o \in Objects : o \in inUse' \ inUse => o = th[t].obj,
         \A o \in Objects : o \in inUse \cup early => o \in inUse' \cup early'
  PROVE  OInv'
  <1>1. Idle.call = "none" /\ Idle.obj \notin Objects /\ Idle.obj = Nothing /\ Idle.pc = "idle"
    BY ConstantsAssumption DEF Idle
  <1>2. ClosesRight(Idle)
    BY <1>1 DEF ClosesRight
  <1> HIDE DEF Idle
  <1> QED BY <1>1, <1>2, Quiet

\* Such a step, when the function goes on.
LEMMA QuietStay ==
  ASSUME LInv, LInv', OInv, SameSockets, UNCHANGED <<m_hSocket, built, abandoned, inUse, early>>,
         NEW t \in Threads, NEW s, th' = [th EXCEPT ![t] = s],
         s.call = th[t].call, s.obj = th[t].obj, s.target = th[t].target, ClosesRight(s), s.pc # "clear"
  PROVE  OInv'
  BY Quiet

\* Such a step, when a function is called.
LEMMA QuietCall ==
  ASSUME LInv, LInv', OInv, SameSockets, UNCHANGED <<m_hSocket, built, abandoned, inUse, early>>,
         NEW t \in Threads, NEW s, NEW o \in Objects, Callable(t, o), th' = [th EXCEPT ![t] = s],
         s.call # "Accept", s.obj = o, s.pc \notin {"closesocket", "clear"}, s.pc = "close" => s.closes # 0
  PROVE  OInv'
  <1>1. th[t].call # "Create" /\ \A u \in Threads : th[u].target # o
    BY DEF Callable, LInv, ThreadsRight, Shape, OKState, InCall, At, Idle
  <1>2. ClosesRight(s)
    BY DEF ClosesRight
  <1> QED BY <1>1, <1>2, Quiet

\* An assignment to the member of an object that nobody uses: whatever the object still had is
\* abandoned, and no other object loses its socket.
LEMMA AssignKeeps ==
  ASSUME LInv, LInv', OInv, NEW o \in Objects, o \in built, o \notin inUse,
         \A u \in Threads : ~(th[u].obj = o /\ th[u].call = "Create"),
         NEW h, Assign(o, h), SameSockets \/ \E i \in Ids : Opens(h, i, o)
  PROVE  /\ Kernel' /\ Owner'
         /\ \A j \in Ids, p \in Objects : p # o /\ Has(j, p)' => Has(j, p)
         /\ SameSockets => \A j \in Ids : ~Has(j, o)'
  <1>0. /\ Members /\ KernelTypes /\ Kernel /\ Owner /\ Settled
    BY DEF LInv, OInv
  <1>1. /\ \A p \in Objects : m_hSocket'[p] = IF p = o THEN h ELSE m_hSocket[p]
        /\ built' = built /\ abandoned \subseteq abandoned'
    BY <1>0 DEF Assign, Members
  <1>2. \A j \in Ids : Has(j, o) => j \in abandoned'
    BY <1>0 DEF Owner, Settled, Assign
  <1>3. CASE SameSockets
    <2>1. Kernel'
      BY <1>0, <1>3, KernelSame
    <2>2. \A j \in Ids, p \in Objects : Has(j, p)' => Has(j, p) /\ p # o
      BY <1>1, <1>2, <1>3 DEF Has, Open, SameSockets
    <2>3. \A g : Named(g)' = Named(g)
      BY <1>3 DEF Named, SameSockets
    <2>4. Owner'
      BY <1>0, <1>1, <2>2, <2>3 DEF Owner
    <2> QED BY <2>1, <2>2, <2>4
  <1>4. ASSUME NEW i \in Ids, Opens(h, i, o)
        PROVE  /\ Kernel' /\ Owner'
               /\ \A j \in Ids, p \in Objects : p # o /\ Has(j, p)' => Has(j, p)
               /\ ~SameSockets
    <2>1. Kernel'
      BY <1>0, <1>4, KernelOpens
    <2>2. \A j \in Ids, p \in Objects : Has(j, p)' => (Has(j, p) /\ p # o) \/ (j = i /\ p = o)
      BY <1>1, <1>2, <1>4 DEF Has, Open, Opens
    <2>3. /\ \A g \in Handles : g # h => table'[g] = table[g]
          /\ table'[h] = i /\ table[h] = 0 /\ h # INVALID
      BY <1>0, <1>4, ConstantsAssumption DEF Opens, KernelTypes
    <2>4. Owner'
      <3>1. ASSUME NEW j \in Ids, NEW p \in Objects, Has(j, p)'
            PROVE  (p \in built /\ Named(m_hSocket[p]) = j)'
        <4>1. CASE j = i /\ p = o
          BY <1>1, <2>3, <4>1 DEF Named
        <4>2. CASE Has(j, p) /\ p # o
          <5>1. p \in built /\ Named(m_hSocket[p]) = j /\ j # 0 /\ m_hSocket[p] \in Handles \cup {INVALID}
            BY <1>0, <4>2 DEF Owner, Ids, Members
          <5> QED BY <1>1, <2>3, <4>2, <5>1 DEF Named
        <4> QED BY <2>2, <3>1, <4>1, <4>2
      <3> QED BY <3>1 DEF Owner
    <2>5. ~SameSockets
      BY <1>4, ConstantsAssumption DEF SameSockets, Opens, KernelTypes, Ids, Open
    <2> QED BY <2>1, <2>2, <2>4, <2>5
  <1> QED BY <1>3, <1>4

\* It does not concern a thread on its way through Close().
LEMMA AssignCloseSteps ==
  ASSUME LInv, LInv', OInv, NEW o \in Objects, NEW h, Assign(o, h),
         \A j \in Ids, p \in Objects : p # o /\ Has(j, p)' => Has(j, p),
         \A u \in Threads : th[u].obj # o,
         \A u \in Threads : th'[u] = th[u] \/ th'[u].pc \notin {"close", "closesocket", "clear"}
  PROVE  CloseSteps'
  <1>1. \A p \in Objects : p # o => m_hSocket'[p] = m_hSocket[p]
    BY DEF Assign, LInv, Members
  <1>2. ASSUME NEW u \in Threads
        PROVE  ClosesRight(th[u])'
    <2>1. CASE th'[u].pc \notin {"close", "closesocket", "clear"}
      BY <2>1 DEF ClosesRight
    <2>2. CASE th'[u] = th[u] /\ th[u].pc \in {"close", "closesocket", "clear"}
      <3>1. ClosesRight(th[u]) /\ th[u].obj \in Objects /\ th[u].obj # o
        BY <2>2 DEF OInv, CloseSteps, LInv, ThreadsRight, Shape, OKState
      <3> QED BY <1>1, <2>2, <3>1 DEF ClosesRight
    <2> QED BY <2>1, <2>2
  <1> QED BY <1>2 DEF CloseSteps

\* A step in which no thread moves.
LEMMA QuietStill ==
  ASSUME LInv, OInv, SameSockets, UNCHANGED <<m_hSocket, built, abandoned, inUse, early, th>>
  PROVE  OInv'
  <1>0. /\ Members /\ KernelTypes /\ Shape
        /\ Kernel /\ Targets /\ Owner /\ Settled /\ CloseSteps
    BY DEF LInv, ThreadsRight, OInv
  <1>2. Kernel'
    BY <1>0, KernelSame
  <1>3. \A i \in Ids : \A o : Has(i, o)' <=> Has(i, o)
    BY HasSame DEF Has, Open
  <1>4. \A h : Named(h)' = Named(h)
    BY DEF Named, SameSockets
  <1>5. Targets'
    BY <1>0 DEF Targets
  <1>6. Owner'
    BY <1>3, <1>4, <1>0 DEF Owner
  <1>7. Settled'
    BY <1>0, <1>3 DEF Settled
  <1>8. CloseSteps'
    BY <1>0, <1>3 DEF CloseSteps, ClosesRight
  <1> QED BY <1>2, <1>5, <1>6, <1>7, <1>8 DEF OInv

\* Create keeps the sockets and their objects together.
LEMMA CreateOInv ==
  ASSUME LInv, LInv', OInv, NEW t \in Threads, NEW o \in Objects, Create(t, o) \/ CreateFails(t, o)
  PROVE  OInv'
  <1>0. /\ Members /\ KernelTypes /\ Shape /\ th \in [Threads -> ThreadStates]
        /\ Kernel /\ Targets /\ Owner /\ Settled /\ CloseSteps
    BY DEF LInv, ThreadsRight, Shape, OInv
  <1>1. /\ o \in built /\ o \notin inUse /\ \A u \in Threads : th[u].obj # o /\ th[u].target # o
        /\ th[t] = Idle
    BY <1>0 DEF Create, CreateFails, Callable, Alone, Uses, At, Shape, OKState, InCall
  <1>2. \E h : Assign(o, h) /\ (SameSockets \/ \E i \in Ids : Opens(h, i, o))
    <2>1. CASE Create(t, o)
      <3>1. PICK h \in Handles, i \in Ids : Opens(h, i, o) /\ m_hSocket' = [m_hSocket EXCEPT ![o] = h]
        BY <1>0, <2>1, CreateOpens
      <3>2. Assign(o, h)
        BY <2>1, <3>1 DEF Create, Assign
      <3> QED BY <3>1, <3>2
    <2>2. CASE CreateFails(t, o)
      BY <1>0, <2>2, KernelUnchanged DEF CreateFails
    <2> QED BY <2>1, <2>2
  <1>3. PICK h : Assign(o, h) /\ (SameSockets \/ \E i \in Ids : Opens(h, i, o))
    BY <1>2
  <1>4. /\ Kernel' /\ Owner'
        /\ \A j \in Ids, p \in Objects : p # o /\ Has(j, p)' => Has(j, p)
        /\ SameSockets => \A j \in Ids : ~Has(j, o)'
    BY <1>1, <1>3, AssignKeeps
  <1>5. built' = built /\ early' = early \ {o}
    BY <1>3 DEF Assign
  <1>6. /\ \A u \in Threads : u # t => th'[u] = th[u]
        /\ \/ th' = th
           \/ th'[t].call = "Create" /\ th'[t].obj = o /\ th'[t].target = Nothing /\ th'[t].pc = "setsockopt"
        /\ inUse \subseteq inUse' /\ inUse' \subseteq inUse \cup {o}
        /\ SameSockets \/ (th'[t].call = "Create" /\ th'[t].obj = o) \/ o \in inUse'
    <2>1. CASE Create(t, o) /\ m_bServer[o]
      <3>1. PICK g \in Handles :
               th' = [th EXCEPT ![t] = [Idle EXCEPT !.pc = "setsockopt", !.call = "Create", !.obj = o, !.reg = g]]
        BY <2>1 DEF Create
      <3>2. th'[t] = [Idle EXCEPT !.pc = "setsockopt", !.call = "Create", !.obj = o, !.reg = g]
        BY <1>0, <3>1
      <3>3. Idle \in ThreadStates /\ Idle.target = Nothing
        BY <1>0, <1>1 DEF Idle
      <3>4. th'[t].call = "Create" /\ th'[t].obj = o /\ th'[t].target = Nothing /\ th'[t].pc = "setsockopt"
        BY <3>2, <3>3 DEF ThreadStates
      <3> QED BY <1>0, <2>1, <3>1, <3>4 DEF Create
    <2>2. CASE Create(t, o) /\ ~m_bServer[o]
      BY <2>2 DEF Create
    <2>3. CASE CreateFails(t, o)
      BY <1>0, <2>3, KernelUnchanged DEF CreateFails
    <2> QED BY <2>1, <2>2, <2>3
  <1>7. Targets'
    <2>1. ASSUME NEW v \in Threads, th'[v].call = "Accept"
          PROVE  th'[v] = th[v] /\ th[v].target \in Objects
      BY <1>0, <1>1, <1>6, <2>1 DEF Idle, Shape, OKState
    <2>2. ASSUME NEW u \in Threads
          PROVE  (th'[u].obj = th[u].obj \/ th'[u].obj = o)
                 /\ (th'[u].target = th[u].target \/ th'[u].target = Nothing)
      BY <1>6
    <2> QED BY <1>0, <1>1, <1>5, <1>6, <2>1, <2>2, ConstantsAssumption DEF Targets
  <1>8. Settled'
    <2>1. ASSUME NEW j \in Ids, NEW p \in Objects, Has(j, p)'
          PROVE  p \in inUse' \/ p \in early' \/ \E u \in Threads : th'[u].obj = p /\ th'[u].call = "Create"
      <3>1. CASE p = o
        BY <1>4, <1>6, <2>1, <3>1
      <3>2. CASE p # o
        BY <1>0, <1>1, <1>4, <1>5, <1>6, <2>1, <3>2 DEF Settled, Idle
      <3> QED BY <3>1, <3>2
    <2> QED BY <2>1 DEF Settled
  <1>9. CloseSteps'
    BY <1>1, <1>3, <1>4, <1>6, AssignCloseSteps
  <1> QED BY <1>4, <1>7, <1>8, <1>9 DEF OInv

\* So does accept: the object it fills is nobody else's.
LEMMA AcceptOInv ==
  ASSUME LInv, LInv', OInv, NEW t \in Threads, AcceptSucceeds(t) \/ AcceptFails(t)
  PROVE  OInv'
  <1>0. /\ Members /\ KernelTypes /\ Shape /\ th \in [Threads -> ThreadStates]
        /\ Kernel /\ Targets /\ Owner /\ Settled /\ CloseSteps
    BY DEF LInv, ThreadsRight, Shape, OInv
  <1>1. PICK o \in Objects :
           /\ o = th[t].target /\ o \in built /\ o \notin inUse
           /\ \A u \in Threads : th[u].obj # o /\ (u # t => th[u].target # o)
           /\ th[t].call = "Accept"
    BY <1>0 DEF AcceptSucceeds, AcceptFails, Targets, At, Shape, OKState, InCall
  <1>2. \E h : Assign(o, h) /\ (SameSockets \/ \E i \in Ids : Opens(h, i, o))
    <2>1. CASE AcceptSucceeds(t)
      <3>1. PICK h \in Handles, i \in Ids : Opens(h, i, o) /\ m_hSocket' = [m_hSocket EXCEPT ![o] = h]
        BY <1>0, <1>1, <2>1, AcceptOpens
      <3>2. Assign(o, h)
        BY <1>1, <2>1, <3>1 DEF AcceptSucceeds, Assign
      <3> QED BY <3>1, <3>2
    <2>2. CASE AcceptFails(t)
      BY <1>0, <1>1, <2>2, KernelUnchanged DEF AcceptFails
    <2> QED BY <2>1, <2>2
  <1>3. PICK h : Assign(o, h) /\ (SameSockets \/ \E i \in Ids : Opens(h, i, o))
    BY <1>2
  <1>5. built' = built /\ early' = early \ {o}
    BY <1>3 DEF Assign
  <1>6. /\ th' = [th EXCEPT ![t] = Idle] /\ th'[t] = Idle /\ \A u \in Threads : u # t => th'[u] = th[u]
        /\ inUse \subseteq inUse' /\ inUse' \subseteq inUse \cup {o}
        /\ SameSockets \/ o \in inUse'
    <2>1. CASE AcceptSucceeds(t)
      BY <1>0, <1>1, <2>1 DEF AcceptSucceeds, Return
    <2>2. CASE AcceptFails(t)
      BY <1>0, <2>2, KernelUnchanged DEF AcceptFails, Return
    <2> QED BY <2>1, <2>2
  <1>i. Idle.call = "none" /\ Idle.obj = Nothing /\ Idle.target = Nothing /\ Idle.pc = "idle"
    BY DEF Idle
  <1> HIDE DEF Idle
  <1>4. /\ Kernel' /\ Owner'
        /\ \A j \in Ids, p \in Objects : p # o /\ Has(j, p)' => Has(j, p)
        /\ SameSockets => \A j \in Ids : ~Has(j, o)'
    BY <1>1, <1>3, AssignKeeps
  <1>7. Targets'
    <2>1. ASSUME NEW v \in Threads, th'[v].call = "Accept"
          PROVE  v # t /\ th'[v] = th[v] /\ th[v].target \in Objects
      BY <1>0, <1>6, <1>i, <2>1 DEF Shape, OKState
    <2>2. ASSUME NEW u \in Threads
          PROVE  (th'[u].obj = th[u].obj \/ th'[u].obj = Nothing)
                 /\ (th'[u].target = th[u].target \/ th'[u].target = Nothing)
      BY <1>6, <1>i
    <2> QED BY <1>0, <1>1, <1>5, <1>6, <2>1, <2>2, ConstantsAssumption DEF Targets
  <1>8. Settled'
    <2>1. ASSUME NEW j \in Ids, NEW p \in Objects, Has(j, p)'
          PROVE  p \in inUse' \/ p \in early' \/ \E u \in Threads : th'[u].obj = p /\ th'[u].call = "Create"
      <3>1. CASE p = o
        BY <1>4, <1>6, <2>1, <3>1
      <3>2. CASE p # o
        BY <1>0, <1>1, <1>4, <1>5, <1>6, <2>1, <3>2 DEF Settled
      <3> QED BY <3>1, <3>2
    <2> QED BY <2>1 DEF Settled
  <1>9. CloseSteps'
    <2>1. \A u \in Threads : th'[u] = th[u] \/ th'[u].pc \notin {"close", "closesocket", "clear"}
      BY <1>6, <1>i
    <2> QED BY <1>1, <1>3, <1>4, <2>1, AssignCloseSteps
  <1> QED BY <1>4, <1>7, <1>8, <1>9 DEF OInv

\* So do the constructors: an object that is not built has no socket.
LEMMA NewOInv ==
  ASSUME LInv, OInv, NEW t \in Threads, NEW o \in Objects, New(t, o) \/ \E b \in BOOLEAN : NewAs(t, o, b)
  PROVE  OInv'
  <1>0. /\ Members /\ KernelTypes /\ Shape /\ th \in [Threads -> ThreadStates]
        /\ Kernel /\ Targets /\ Owner /\ Settled /\ CloseSteps
    BY DEF LInv, ThreadsRight, Shape, OInv
  <1>1. /\ o \notin built /\ \A u \in Threads : th[u].obj # o /\ th[u].target # o
        /\ UNCHANGED <<kernel, th, inUse, early, abandoned>> /\ built' = built \cup {o}
    BY DEF New, NewAs, Alone, Uses, history
  <1>2. \A p \in Objects : p # o => m_hSocket'[p] = m_hSocket[p]
    BY <1>0 DEF New, NewAs, Members
  <1>3. SameSockets
    BY <1>0, <1>1, KernelUnchanged
  <1>4. \A i \in Ids : \A p : Has(i, p)' <=> Has(i, p)
    BY <1>1 DEF Has, Open, kernel
  <1>5. Kernel'
    BY <1>0, <1>3, KernelSame
  <1>6. Targets'
    BY <1>0, <1>1 DEF Targets
  <1>7. Owner'
    <2>1. table' = table
      BY <1>1 DEF kernel
    <2> QED BY <1>0, <1>1, <1>2, <1>4, <2>1 DEF Owner, Named
  <1>8. Settled'
    BY <1>0, <1>1, <1>4 DEF Settled
  <1>9. CloseSteps'
    <2>1. ASSUME NEW u \in Threads
          PROVE  ClosesRight(th[u])'
      <3>1. CASE th[u].pc \notin {"close", "closesocket", "clear"}
        BY <1>1, <3>1 DEF ClosesRight
      <3>2. CASE th[u].pc \in {"close", "closesocket", "clear"}
        <4>1. ClosesRight(th[u]) /\ th[u].obj \in Objects /\ th[u].obj # o
          BY <1>0, <1>1, <3>2 DEF CloseSteps, Shape, OKState
        <4> QED BY <1>1, <1>2, <1>4, <4>1 DEF ClosesRight
      <3> QED BY <3>1, <3>2
    <2> QED BY <2>1 DEF CloseSteps
  <1> QED BY <1>5, <1>6, <1>7, <1>8, <1>9 DEF OInv

\* So does the call of Accept.
LEMMA CallAcceptOInv ==
  ASSUME LInv, OInv, NEW t \in Threads, NEW o \in Objects, NEW c \in Objects, CallAccept(t, o, c)
  PROVE  OInv'
  <1>0. /\ Members /\ KernelTypes /\ Shape /\ th \in [Threads -> ThreadStates]
        /\ Kernel /\ Targets /\ Owner /\ Settled /\ CloseSteps
    BY DEF LInv, ThreadsRight, Shape, OInv
  <1>1. /\ c \in built /\ c # o /\ c \notin inUse /\ \A u \in Threads : th[u].obj # c /\ th[u].target # c
        /\ \A u \in Threads : th[u].target # o
        /\ UNCHANGED <<kernel, object, inUse, early, abandoned>> /\ th[t] = Idle
    BY <1>0 DEF CallAccept, Alone, Uses, Callable, history, At, Shape, OKState, InCall
  <1>2. /\ \A u \in Threads : u # t => th'[u] = th[u]
        /\ th'[t].obj = o /\ th'[t].target = c /\ th'[t].call = "Accept" /\ th'[t].pc = "lock"
    BY <1>0 DEF CallAccept, Enter, Idle
  <1>3. SameSockets
    BY <1>0, <1>1, KernelUnchanged
  <1>4. \A i \in Ids : \A p : Has(i, p)' <=> Has(i, p)
    BY <1>1 DEF Has, Open, kernel
  <1>5. Kernel'
    BY <1>0, <1>3, KernelSame
  <1>6. Targets'
    BY <1>0, <1>1, <1>2 DEF Targets, object
  <1>7. Owner'
    BY <1>0, <1>1, <1>4 DEF Owner, Named, object, kernel
  <1>8. Settled'
    BY <1>0, <1>1, <1>2, <1>4 DEF Settled, Idle
  <1>9. CloseSteps'
    BY <1>0, <1>1, <1>2, <1>4 DEF CloseSteps, ClosesRight, object
  <1> QED BY <1>5, <1>6, <1>7, <1>8, <1>9 DEF OInv

\* So does the return of Close(): the object has no socket, and may be destroyed.
LEMMA CloseReturnsOInv ==
  ASSUME LInv, OInv, NEW t \in Threads, CloseReturns(t)
  PROVE  OInv'
  <1>0. /\ Members /\ KernelTypes /\ Shape /\ th \in [Threads -> ThreadStates]
        /\ Kernel /\ Targets /\ Owner /\ Settled /\ CloseSteps
    BY DEF LInv, ThreadsRight, Shape, OInv
  <1>1. PICK o \in Objects : o = th[t].obj
    BY <1>0, ThreadObject DEF CloseReturns, At
  <1>2. m_hSocket[o] = INVALID
    BY <1>0, <1>1 DEF CloseReturns, CloseSteps, ClosesRight, At
  <1>3. /\ UNCHANGED <<kernel, m_hSocket, abandoned>> /\ inUse' = inUse \ {o} /\ early' = early \ {o}
        /\ built \ {o} \subseteq built'
        /\ th'[t] = Idle /\ \A u \in Threads : u # t => th'[u] = th[u]
    BY <1>0, <1>1 DEF CloseReturns, Return
  <1>4. \A i \in Ids : \A p : Has(i, p)' <=> Has(i, p)
    BY <1>3 DEF Has, Open, kernel
  <1>5. \A i \in Ids : ~Has(i, o)
    BY <1>0, <1>2 DEF Owner, Named, Ids
  <1>6. Kernel'
    BY <1>0, <1>3, KernelUnchanged, KernelSame
  <1>i. Idle.call = "none" /\ Idle.obj = Nothing /\ Idle.target = Nothing /\ Idle.pc = "idle"
    BY DEF Idle
  <1> HIDE DEF Idle
  <1>7. Targets'
    <2>1. ASSUME NEW v \in Threads, th'[v].call = "Accept"
          PROVE  v # t /\ th'[v] = th[v] /\ th[v].target \in Objects /\ th[v].target # o
      BY <1>0, <1>1, <1>3, <1>i, <2>1 DEF Shape, OKState, Targets
    <2> QED BY <1>0, <1>3, <1>i, <2>1, ConstantsAssumption DEF Targets
  <1>8. Owner'
    BY <1>0, <1>3, <1>4, <1>5 DEF Owner, Named, kernel
  <1>9. Settled'
    BY <1>0, <1>1, <1>3, <1>4, <1>5 DEF Settled
  <1>10. CloseSteps'
    BY <1>0, <1>3, <1>4, <1>i DEF CloseSteps, ClosesRight
  <1> QED BY <1>6, <1>7, <1>8, <1>9, <1>10 DEF OInv

\* Fields that a disturbance leaves alone.
Alike(r, s) ==
  /\ r.pc = s.pc /\ r.call = s.call /\ r.obj = s.obj /\ r.target = s.target
  /\ r.reg = s.reg /\ r.closes = s.closes

\* What closesocket and the store of line 46 do to the other threads.
LEMMA OthersAlike ==
  ASSUME Shape, NEW t \in Threads, NEW s, Disturbing(t, s)
  PROVE  /\ th'[t] = s
         /\ \A u \in Threads : u # t => Alike(th'[u], th[u])
         /\ \A u \in Threads : u # t => (th'[u].disturbed <=> th[u].disturbed \/ Disturbs(t, u))
  <1>1. \A u \in Threads : th[u] \in ThreadStates
    BY DEF Shape
  <1>2. \A u \in Threads : u # t => Alike(th'[u], th[u])
    BY <1>1 DEF Disturbing, ThreadStates, Alike
  <1>3. ASSUME NEW u \in Threads, u # t
        PROVE  th'[u].disturbed <=> th[u].disturbed \/ Disturbs(t, u)
    <2>1. CASE Disturbs(t, u)
      BY <1>1, <1>3, <2>1 DEF Disturbing, ThreadStates
    <2>2. CASE ~Disturbs(t, u)
      BY <1>3, <2>2 DEF Disturbing
    <2> QED BY <2>1, <2>2
  <1> QED BY <1>2, <1>3 DEF Disturbing

\* The threads after closesocket.
LEMMA CloseSocketThreads ==
  ASSUME Shape, NEW t \in Threads, CloseSocket(t)
  PROVE  /\ th'[t].pc = "clear" /\ th'[t].call = th[t].call
         /\ th'[t].obj = th[t].obj /\ th'[t].target = th[t].target
         /\ \A u \in Threads : u # t => Alike(th'[u], th[u])
         /\ \A u \in Threads : u # t => (th'[u].disturbed <=> th[u].disturbed \/ Disturbs(t, u))
  <1> DEFINE s == [th[t] EXCEPT !.pc = "clear", !.reg = INVALID]
  <1>1. Disturbing(t, s) /\ th[t] \in ThreadStates
    BY DEF CloseSocket, Disturbing, Shape
  <1>2. s.pc = "clear" /\ s.call = th[t].call /\ s.obj = th[t].obj /\ s.target = th[t].target
    BY <1>1 DEF ThreadStates
  <1> HIDE DEF s
  <1> QED BY <1>1, <1>2, OthersAlike

\* The threads after the store of line 46.
LEMMA ClearThreads ==
  ASSUME Shape, NEW t \in Threads, Clear(t)
  PROVE  /\ th'[t].pc = "close" /\ th'[t].call = th[t].call
         /\ th'[t].obj = th[t].obj /\ th'[t].target = th[t].target
         /\ \A u \in Threads : u # t => Alike(th'[u], th[u])
         /\ \A u \in Threads : u # t => (th'[u].disturbed <=> th[u].disturbed \/ Disturbs(t, u))
  <1> DEFINE s == [th[t] EXCEPT !.pc = "close", !.closes = th[t].closes - 1]
  <1>1. Disturbing(t, s) /\ th[t] \in ThreadStates
    BY DEF Clear, Disturbing, Shape
  <1>2. s.pc = "close" /\ s.call = th[t].call /\ s.obj = th[t].obj /\ s.target = th[t].target
    BY <1>1 DEF ThreadStates
  <1> HIDE DEF s
  <1> QED BY <1>1, <1>2, OthersAlike

\* So does closesocket: the object has no socket afterwards, whichever of the two values the
\* build passes.
LEMMA CloseSocketOInv ==
  ASSUME LInv, OInv, NEW t \in Threads, CloseSocket(t)
  PROVE  OInv'
  <1>0. /\ Members /\ KernelTypes /\ Shape /\ th \in [Threads -> ThreadStates]
        /\ Kernel /\ Targets /\ Owner /\ Settled /\ CloseSteps
    BY DEF LInv, ThreadsRight, Shape, OInv
  <1>1. PICK o \in Objects : o = th[t].obj
    BY <1>0, ThreadObject DEF CloseSocket, At
  <1>2. m_hSocket[o] \in {th[t].reg, INVALID}
    BY <1>0, <1>1 DEF CloseSocket, CloseSteps, ClosesRight, At
  <1>3. /\ \A u \in Threads : th'[u].call = th[u].call /\ th'[u].obj = th[u].obj /\ th'[u].target = th[u].target
        /\ \A u \in Threads : u # t => Alike(th'[u], th[u])
        /\ th'[t].pc = "clear"
        /\ UNCHANGED <<object, inUse, early, abandoned>>
    BY <1>0, CloseSocketThreads DEF CloseSocket, Alike
  <1>4. PICK h \in {th[t].reg, m_hSocket[o]} : (Named(h) = 0 /\ SameSockets) \/ Closes(h)
    BY <1>0, <1>1, CloseSocketCloses
  <1>5. /\ Kernel'
        /\ \A i \in Ids, p \in Objects : Has(i, p)' => Has(i, p) /\ (Closes(h) => i # table[h])
    <2>1. CASE SameSockets /\ ~Closes(h)
      BY <1>0, <1>3, <2>1, KernelSame DEF Has, Open, SameSockets
    <2>2. CASE Closes(h)
      BY <1>0, <1>3, <2>2, KernelCloses DEF Has, Open, Closes
    <2> QED BY <1>4, <2>1, <2>2
  <1>6. \A i \in Ids : ~Has(i, o)'
    <2>1. ASSUME NEW i \in Ids, Has(i, o)'
          PROVE  FALSE
      <3>1. Has(i, o) /\ Named(m_hSocket[o]) = i /\ i # 0
        BY <1>0, <1>5, <2>1 DEF Owner, Ids
      <3>2. m_hSocket[o] # INVALID /\ m_hSocket[o] = h
        BY <1>2, <1>4, <3>1 DEF Named
      <3> QED BY <1>4, <1>5, <2>1, <3>1, <3>2 DEF Named
    <2> QED BY <2>1
  <1>7. Targets'
    BY <1>0, <1>3 DEF Targets, object
  <1>8. Owner'
    <2>1. ASSUME NEW i \in Ids, NEW p \in Objects, Has(i, p)'
          PROVE  (p \in built /\ Named(m_hSocket[p]) = i)'
      <3>1. p \in built /\ Named(m_hSocket[p]) = i /\ (Closes(h) => i # table[h]) /\ i # 0
        BY <1>0, <1>5, <2>1 DEF Owner, Ids
      <3>2. m_hSocket[p] \in Handles /\ table[m_hSocket[p]] = i
        BY <1>0, <3>1 DEF Named, Members
      <3>3. table'[m_hSocket[p]] = i
        BY <1>0, <1>4, <3>1, <3>2 DEF SameSockets, Closes, KernelTypes
      <3> QED BY <1>3, <3>1, <3>2, <3>3, ConstantsAssumption DEF Named, object
    <2> QED BY <2>1 DEF Owner
  <1>9. Settled'
    BY <1>0, <1>3, <1>5 DEF Settled
  <1>10. CloseSteps'
    <2>1. ASSUME NEW u \in Threads
          PROVE  ClosesRight(th[u])'
      <3>1. CASE u = t
        BY <1>1, <1>3, <1>6, <3>1 DEF ClosesRight
      <3>2. CASE u # t
        <4>1. ClosesRight(th[u]) /\ Alike(th'[u], th[u]) /\ (th[u].pc = "clear" => th[u].obj \in Objects)
          BY <1>0, <1>3, <3>2 DEF CloseSteps, Shape, OKState
        <4> QED BY <1>3, <1>5, <4>1 DEF ClosesRight, Alike, object
      <3> QED BY <3>1, <3>2
    <2> QED BY <2>1 DEF CloseSteps
  <1> QED BY <1>5, <1>7, <1>8, <1>9, <1>10 DEF OInv

\* So does the store of line 46.
LEMMA ClearOInv ==
  ASSUME LInv, OInv, NEW t \in Threads, Clear(t)
  PROVE  OInv'
  <1>0. /\ Members /\ KernelTypes /\ Shape /\ th \in [Threads -> ThreadStates]
        /\ Kernel /\ Targets /\ Owner /\ Settled /\ CloseSteps
    BY DEF LInv, ThreadsRight, Shape, OInv
  <1>1. PICK o \in Objects : o = th[t].obj
    BY <1>0, ThreadObject DEF Clear, At
  <1>2. \A i \in Ids : ~Has(i, o)
    BY <1>0, <1>1 DEF Clear, CloseSteps, ClosesRight, At
  <1>3. /\ \A u \in Threads : th'[u].call = th[u].call /\ th'[u].obj = th[u].obj /\ th'[u].target = th[u].target
        /\ \A u \in Threads : u # t => Alike(th'[u], th[u])
        /\ th'[t].pc = "close"
        /\ UNCHANGED <<built, kernel, inUse, early, abandoned>>
        /\ \A p \in Objects : m_hSocket'[p] = IF p = o THEN INVALID ELSE m_hSocket[p]
    <2>1. \A p \in Objects : m_hSocket'[p] = IF p = o THEN INVALID ELSE m_hSocket[p]
      BY <1>0, <1>1 DEF Clear, Members
    <2> QED BY <1>0, <2>1, ClearThreads DEF Alike, Clear, history
  <1>4. \A i \in Ids : \A p : Has(i, p)' <=> Has(i, p)
    BY <1>3 DEF Has, Open, kernel
  <1>5. Kernel'
    BY <1>0, <1>3, KernelUnchanged, KernelSame
  <1>6. Targets'
    BY <1>0, <1>3 DEF Targets
  <1>7. Owner'
    BY <1>0, <1>2, <1>3, <1>4 DEF Owner, Named, kernel
  <1>8. Settled'
    BY <1>0, <1>3, <1>4 DEF Settled
  <1>9. CloseSteps'
    <2>1. ASSUME NEW u \in Threads
          PROVE  ClosesRight(th[u])'
      <3>1. CASE u = t
        BY <1>1, <1>3, <3>1 DEF ClosesRight
      <3>2. CASE u # t
        <4>1. ClosesRight(th[u]) /\ Alike(th'[u], th[u]) /\ (th[u].pc # "idle" => th[u].obj \in Objects)
          BY <1>0, <1>3, <3>2 DEF CloseSteps, Shape, OKState
        <4> QED BY <1>3, <1>4, <4>1 DEF ClosesRight, Alike
      <3> QED BY <3>1, <3>2
    <2> QED BY <2>1 DEF CloseSteps
  <1> QED BY <1>5, <1>6, <1>7, <1>8, <1>9 DEF OInv

\* So does the way into Close().
LEMMA WentToCloseOInv ==
  ASSUME LInv, LInv', OInv, SameSockets, UNCHANGED <<m_hSocket, built, abandoned, inUse, early>>,
         NEW t \in Threads, NEW n \in {1, 2}, GoClose(t, n)
  PROVE  OInv'
  <1> DEFINE s == [th[t] EXCEPT !.pc = "close", !.closes = n, !.reg = INVALID]
  <1>1. th[t] \in ThreadStates /\ th' = [th EXCEPT ![t] = s]
    BY DEF LInv, ThreadsRight, Shape, GoClose
  <1>2. /\ s.call = th[t].call /\ s.obj = th[t].obj /\ s.target = th[t].target
        /\ s.pc = "close" /\ s.closes = n
    BY <1>1 DEF ThreadStates
  <1>3. ClosesRight(s)
    BY <1>2 DEF ClosesRight
  <1> HIDE DEF s
  <1> QED BY <1>1, <1>2, <1>3, QuietStay

\* Every step keeps the sockets and their objects together.
LEMMA OInvStep == ASSUME LInv, LInv', OInv, [Next]_vars PROVE OInv'
  <1> USE DEF At, object, kernel, history
  <1>0. LInv /\ LInv' /\ OInv /\ Members /\ KernelTypes /\ Shape /\ th \in [Threads -> ThreadStates]
    BY DEF LInv, ThreadsRight, Shape
  <1>1. ASSUME NEW i \in Ids, Arrive(i)
       PROVE  OInv'
    BY <1>0, <1>1, ArriveTweaks, QuietStill DEF Arrive
  <1>2. ASSUME NEW i \in Ids, PeerEnds(i)
       PROVE  OInv'
    BY <1>0, <1>2, PeerEndsTweaks, QuietStill DEF PeerEnds
  <1>3. ASSUME NEW t \in Threads, NEW o \in Objects, New(t, o)
       PROVE  OInv'
    BY <1>0, <1>3, NewOInv
  <1>4. ASSUME NEW t \in Threads, NEW o \in Objects, NEW b \in BOOLEAN, NewAs(t, o, b)
       PROVE  OInv'
    BY <1>0, <1>4, NewOInv
  <1>5. ASSUME NEW t \in Threads, NEW o \in Objects, NEW f \in Locked, CallLocked(t, f, o)
       PROVE  OInv'
    <2> DEFINE s == [Idle EXCEPT !.pc = "lock", !.call = f, !.obj = o, !.target = Nothing, !.reg = INVALID]
    <2>1. th' = [th EXCEPT ![t] = s] /\ Callable(t, o)
      BY <1>5 DEF CallLocked, Enter
    <2>2. s.pc = "lock" /\ s.call = f /\ s.obj = o
      BY DEF Idle
    <2>3. s.call # "Accept"
      BY <1>5, <2>2 DEF CallLocked
    <2> HIDE DEF s
    <2> QED BY <1>0, <1>5, <2>1, <2>2, <2>3, KernelUnchanged, QuietCall DEF CallLocked
  <1>6. ASSUME NEW t \in Threads, NEW o \in Objects, NEW c \in Objects, CallAccept(t, o, c)
       PROVE  OInv'
    BY <1>0, <1>6, CallAcceptOInv
  <1>7. ASSUME NEW t \in Threads, NEW o \in Objects, NEW f \in {"Close", "delete"}, CallClose(t, o, f)
       PROVE  OInv'
    <2> DEFINE s == [Idle EXCEPT !.pc = "close", !.call = f, !.obj = o, !.closes = 1]
    <2>1. th' = [th EXCEPT ![t] = s] /\ Callable(t, o)
      BY <1>7 DEF CallClose, Enter
    <2>2. s.pc = "close" /\ s.call = f /\ s.obj = o /\ s.closes # 0
      BY DEF Idle
    <2>3. s.call # "Accept"
      BY <1>7, <2>2 DEF CallClose
    <2> HIDE DEF s
    <2> QED BY <1>0, <1>7, <2>1, <2>2, <2>3, KernelUnchanged, QuietCall DEF CallClose
  <1>8. ASSUME NEW t \in Threads, NEW o \in Objects, Create(t, o)
       PROVE  OInv'
    BY <1>0, <1>8, CreateOInv
  <1>9. ASSUME NEW t \in Threads, NEW o \in Objects, CreateFails(t, o)
       PROVE  OInv'
    BY <1>0, <1>9, CreateOInv
  <1>10. ASSUME NEW t \in Threads, NEW o \in Objects, CallBind(t, o)
       PROVE  OInv'
    <2> DEFINE s == [Idle EXCEPT !.pc = "bind", !.call = "Bind", !.obj = o, !.target = Nothing, !.reg = m_hSocket[o]]
    <2>1. th' = [th EXCEPT ![t] = s] /\ Callable(t, o)
      BY <1>10 DEF CallBind, Enter
    <2>2. s.pc = "bind" /\ s.call = "Bind" /\ s.obj = o
      BY DEF Idle
    <2>3. s.call # "Accept"
      BY <1>10, <2>2 DEF CallBind
    <2> HIDE DEF s
    <2> QED BY <1>0, <1>10, <2>1, <2>2, <2>3, KernelUnchanged, QuietCall DEF CallBind
  <1>11. ASSUME NEW t \in Threads, NEW o \in Objects, Listen(t, o)
       PROVE  OInv'
    BY <1>0, <1>11, CallTweaks, QuietStill DEF Listen
  <1>12. ASSUME NEW t \in Threads, NEW o \in Objects, NEW flag \in BOOLEAN, SetNonBlockingMode(t, o, flag)
       PROVE  OInv'
    BY <1>0, <1>12, CallTweaks, QuietStill DEF SetNonBlockingMode
  <1>13. ASSUME NEW t \in Threads, TakeLock(t)
       PROVE  OInv'
    <2> DEFINE s == [th[t] EXCEPT !.pc = First(th[t].call), !.reg = m_hSocket[th[t].obj],
                                  !.disturbed = HalfClosed(t)]
    <2>1. th' = [th EXCEPT ![t] = s] /\ th[t] \in ThreadStates
      BY <1>0, <1>13 DEF TakeLock, Step, GoClose
    <2>2. s.call = th[t].call /\ s.obj = th[t].obj /\ s.target = th[t].target
      BY <2>1 DEF ThreadStates
    <2>3. s.pc \notin {"close", "closesocket", "clear"}
      BY <1>0, <1>13, <2>1 DEF TakeLock, Shape, OKState, InCall, First, Locked, ThreadStates
    <2>4. ClosesRight(s)
      BY <2>3 DEF ClosesRight
    <2> HIDE DEF s
    <2> QED BY <1>0, <1>13, <2>1, <2>2, <2>3, <2>4, KernelUnchanged, QuietStay DEF TakeLock
  <1>14. ASSUME NEW t \in Threads, CloseReturns(t)
       PROVE  OInv'
    BY <1>0, <1>14, CloseReturnsOInv
  <1>15. ASSUME NEW t \in Threads, CloseTest(t)
       PROVE  OInv'
    <2> DEFINE s == IF m_hSocket[th[t].obj] = INVALID THEN [th[t] EXCEPT !.closes = @ - 1]
                    ELSE [th[t] EXCEPT !.pc = "closesocket", !.reg = m_hSocket[th[t].obj],
                                       !.disturbed = @ \/ HalfClosed(t)]
    <2>1. th' = [th EXCEPT ![t] = s] /\ th[t] \in ThreadStates
      BY <1>0, <1>15 DEF CloseTest, Step, GoClose
    <2>2. s.call = th[t].call /\ s.obj = th[t].obj /\ s.target = th[t].target
      BY <2>1 DEF ThreadStates
    <2>3. s.pc # "clear"
      BY <1>0, <1>15, <2>1 DEF CloseTest, ThreadStates
    <2>4. ClosesRight(s)
      <3>1. CASE m_hSocket[th[t].obj] = INVALID
        BY <1>15, <2>1, <2>2, <3>1 DEF CloseTest, ClosesRight, ThreadStates
      <3>2. CASE m_hSocket[th[t].obj] # INVALID
        <4>1. s.pc = "closesocket" /\ s.reg = m_hSocket[th[t].obj] /\ s.obj = th[t].obj
          BY <2>1, <3>2 DEF ThreadStates
        <4> QED BY <4>1 DEF ClosesRight
      <3> QED BY <3>1, <3>2
    <2> HIDE DEF s
    <2> QED BY <1>0, <1>15, <2>1, <2>2, <2>3, <2>4, KernelUnchanged, QuietStay DEF CloseTest
  <1>16. ASSUME NEW t \in Threads, CloseSocket(t)
       PROVE  OInv'
    BY <1>0, <1>16, CloseSocketOInv
  <1>17. ASSUME NEW t \in Threads, Clear(t)
       PROVE  OInv'
    BY <1>0, <1>17, ClearOInv
  <1>18. ASSUME NEW t \in Threads, SetSockOpt(t)
       PROVE  OInv'
    <2>1. th[t] \in ThreadStates
      BY <1>0
    <2>2. CASE GoClose(t, 1)
      BY <1>0, <1>18, <2>2, KernelUnchanged, WentToCloseOInv DEF SetSockOpt
    <2>3. CASE Step(t, "bind")
      <3> DEFINE s == [th[t] EXCEPT !.pc = "bind", !.reg = m_hSocket[th[t].obj]]
      <3>1. s.call = th[t].call /\ s.obj = th[t].obj /\ s.target = th[t].target /\ s.pc = "bind"
        BY <2>1 DEF ThreadStates
      <3>2. th' = [th EXCEPT ![t] = s]
        BY <2>3 DEF Step
      <3>3. ClosesRight(s)
        BY <3>1 DEF ClosesRight
      <3> HIDE DEF s
      <3> QED BY <1>0, <1>18, <3>1, <3>2, <3>3, KernelUnchanged, QuietStay DEF SetSockOpt
    <2> QED BY <1>18, <2>2, <2>3 DEF SetSockOpt
  <1>19. ASSUME NEW t \in Threads, BindAddress(t)
       PROVE  OInv'
    <2>1. CASE th[t].call = "Create"
      BY <1>0, <1>19, <2>1, KernelUnchanged, WentToCloseOInv DEF BindAddress
    <2>2. CASE th[t].call # "Create"
      <3>1. /\ th' = [th EXCEPT ![t] = Idle] /\ UNCHANGED <<m_hSocket, built, abandoned>>
            /\ inUse' = inUse \ {th[t].obj} /\ early' = early \cup {th[t].obj} /\ SameSockets
        BY <1>0, <1>19, <2>2, KernelUnchanged DEF BindAddress
      <3> QED BY <1>0, <2>2, <3>1, QuietReturn
    <2> QED BY <2>1, <2>2
  <1>20. ASSUME NEW t \in Threads, BindFails(t)
       PROVE  OInv'
    <2> DEFINE s == [th[t] EXCEPT !.pc = "close", !.closes = IF th[t].call = "Create" THEN 2 ELSE 1, !.reg = INVALID]
    <2>1. th' = [th EXCEPT ![t] = s] /\ th[t] \in ThreadStates
      BY <1>0, <1>20 DEF BindFails, Step, GoClose
    <2>2. s.call = th[t].call /\ s.obj = th[t].obj /\ s.target = th[t].target
      BY <2>1 DEF ThreadStates
    <2>3. s.pc = "close" /\ s.closes \in {1, 2}
      BY <2>1 DEF ThreadStates
    <2>4. ClosesRight(s)
      BY <2>3 DEF ClosesRight
    <2> HIDE DEF s
    <2> QED BY <1>0, <1>20, <2>1, <2>2, <2>3, <2>4, KernelUnchanged, QuietStay DEF BindFails
  <1>21. ASSUME NEW t \in Threads, BindSucceeds(t)
       PROVE  OInv'
    <2>1. /\ th' = [th EXCEPT ![t] = Idle] /\ SameSockets
          /\ th[t].call = "Create" => th[t].obj \in inUse'
          /\ UNCHANGED <<m_hSocket, built, abandoned>>
      BY <1>0, <1>21, ThreadTweaks DEF BindSucceeds, Return, Shape, OKState, InCall
    <2>2. /\ \A o \in Objects : o \in inUse' \ inUse => o = th[t].obj
          /\ \A o \in Objects : o \in inUse \cup early => o \in inUse' \cup early'
      BY <1>21 DEF BindSucceeds
    <2> QED BY <1>0, <2>1, <2>2, QuietReturn
  <1>22. ASSUME NEW t \in Threads, IoctlNothing(t)
       PROVE  OInv'
    <2>1. /\ th' = [th EXCEPT ![t] = Idle] /\ SameSockets
          /\ th[t].call = "Create" => th[t].obj \in inUse'
          /\ UNCHANGED <<m_hSocket, built, abandoned>>
      BY <1>0, <1>22, KernelUnchanged DEF IoctlNothing, Return, Shape, OKState, InCall
    <2>2. /\ \A o \in Objects : o \in inUse' \ inUse => o = th[t].obj
          /\ \A o \in Objects : o \in inUse \cup early => o \in inUse' \cup early'
      BY <1>22 DEF IoctlNothing
    <2> QED BY <1>0, <2>1, <2>2, QuietReturn
  <1>23. ASSUME NEW t \in Threads, IoctlLength(t)
       PROVE  OInv'
    <2> DEFINE s == [th[t] EXCEPT !.pc = "recv", !.reg = m_hSocket[th[t].obj]]
    <2>1. th' = [th EXCEPT ![t] = s] /\ th[t] \in ThreadStates
      BY <1>0, <1>23 DEF IoctlLength, Step, GoClose
    <2>2. s.call = th[t].call /\ s.obj = th[t].obj /\ s.target = th[t].target
      BY <2>1 DEF ThreadStates
    <2>3. s.pc = "recv"
      BY <2>1 DEF ThreadStates
    <2>4. ClosesRight(s)
      BY <2>3 DEF ClosesRight
    <2> HIDE DEF s
    <2> QED BY <1>0, <1>23, <2>1, <2>2, <2>3, <2>4, KernelUnchanged, QuietStay DEF IoctlLength
  <1>24. ASSUME NEW t \in Threads, Receives(t)
       PROVE  OInv'
    <2>1. /\ th' = [th EXCEPT ![t] = Idle] /\ SameSockets
          /\ th[t].call = "Create" => th[t].obj \in inUse'
          /\ UNCHANGED <<m_hSocket, built, abandoned>>
      BY <1>0, <1>24, ThreadTweaks DEF Receives, Return, Shape, OKState, InCall
    <2>2. /\ \A o \in Objects : o \in inUse' \ inUse => o = th[t].obj
          /\ \A o \in Objects : o \in inUse \cup early => o \in inUse' \cup early'
      BY <1>24 DEF Receives
    <2> QED BY <1>0, <2>1, <2>2, QuietReturn
  <1>25. ASSUME NEW t \in Threads, SelectEnds(t)
       PROVE  OInv'
    <2>1. /\ th' = [th EXCEPT ![t] = Idle] /\ SameSockets
          /\ th[t].call = "Create" => th[t].obj \in inUse'
          /\ UNCHANGED <<m_hSocket, built, abandoned>>
      BY <1>0, <1>25, KernelUnchanged DEF SelectEnds, Return, Shape, OKState, InCall
    <2>2. /\ \A o \in Objects : o \in inUse' \ inUse => o = th[t].obj
          /\ \A o \in Objects : o \in inUse \cup early => o \in inUse' \cup early'
      BY <1>25 DEF SelectEnds
    <2> QED BY <1>0, <2>1, <2>2, QuietReturn
  <1>26. ASSUME NEW t \in Threads, SelectReady(t)
       PROVE  OInv'
    <2> DEFINE s == [th[t] EXCEPT !.pc = "recvfrom", !.reg = m_hSocket[th[t].obj]]
    <2>1. th' = [th EXCEPT ![t] = s] /\ th[t] \in ThreadStates
      BY <1>0, <1>26 DEF SelectReady, Step, GoClose
    <2>2. s.call = th[t].call /\ s.obj = th[t].obj /\ s.target = th[t].target
      BY <2>1 DEF ThreadStates
    <2>3. s.pc = "recvfrom"
      BY <2>1 DEF ThreadStates
    <2>4. ClosesRight(s)
      BY <2>3 DEF ClosesRight
    <2> HIDE DEF s
    <2> QED BY <1>0, <1>26, <2>1, <2>2, <2>3, <2>4, KernelUnchanged, QuietStay DEF SelectReady
  <1>27. ASSUME NEW t \in Threads, Sends(t)
       PROVE  OInv'
    <2>1. /\ th' = [th EXCEPT ![t] = Idle] /\ SameSockets
          /\ th[t].call = "Create" => th[t].obj \in inUse'
          /\ UNCHANGED <<m_hSocket, built, abandoned>>
      BY <1>0, <1>27, KernelUnchanged DEF Sends, Return, Shape, OKState, InCall
    <2>2. /\ \A o \in Objects : o \in inUse' \ inUse => o = th[t].obj
          /\ \A o \in Objects : o \in inUse \cup early => o \in inUse' \cup early'
      BY <1>27 DEF Sends
    <2> QED BY <1>0, <2>1, <2>2, QuietReturn
  <1>28. ASSUME NEW t \in Threads, ConnectLookup(t)
       PROVE  OInv'
    <2>1. /\ th' = [th EXCEPT ![t] = Idle] /\ SameSockets
          /\ th[t].call = "Create" => th[t].obj \in inUse'
          /\ UNCHANGED <<m_hSocket, built, abandoned>>
      BY <1>0, <1>28, KernelUnchanged DEF ConnectLookup, Return, Shape, OKState, InCall
    <2>2. /\ \A o \in Objects : o \in inUse' \ inUse => o = th[t].obj
          /\ \A o \in Objects : o \in inUse \cup early => o \in inUse' \cup early'
      BY <1>28 DEF ConnectLookup
    <2> QED BY <1>0, <2>1, <2>2, QuietReturn
  <1>29. ASSUME NEW t \in Threads, ConnectSucceeds(t)
       PROVE  OInv'
    <2>1. /\ th' = [th EXCEPT ![t] = Idle] /\ SameSockets
          /\ th[t].call = "Create" => th[t].obj \in inUse'
          /\ UNCHANGED <<m_hSocket, built, abandoned>>
      BY <1>0, <1>29, ThreadTweaks DEF ConnectSucceeds, Return, Shape, OKState, InCall
    <2>2. /\ \A o \in Objects : o \in inUse' \ inUse => o = th[t].obj
          /\ \A o \in Objects : o \in inUse \cup early => o \in inUse' \cup early'
      BY <1>29 DEF ConnectSucceeds
    <2> QED BY <1>0, <2>1, <2>2, QuietReturn
  <1>30. ASSUME NEW t \in Threads, ConnectFails(t)
       PROVE  OInv'
    <2> DEFINE s == [th[t] EXCEPT !.pc = "close", !.closes = 1, !.reg = INVALID]
    <2>1. th' = [th EXCEPT ![t] = s] /\ th[t] \in ThreadStates
      BY <1>0, <1>30 DEF ConnectFails, Step, GoClose
    <2>2. s.call = th[t].call /\ s.obj = th[t].obj /\ s.target = th[t].target
      BY <2>1 DEF ThreadStates
    <2>3. s.pc = "close" /\ s.closes \in {1, 2}
      BY <2>1 DEF ThreadStates
    <2>4. ClosesRight(s)
      BY <2>3 DEF ClosesRight
    <2> HIDE DEF s
    <2> QED BY <1>0, <1>30, <2>1, <2>2, <2>3, <2>4, KernelUnchanged, QuietStay DEF ConnectFails
  <1>31. ASSUME NEW t \in Threads, AcceptSucceeds(t)
       PROVE  OInv'
    BY <1>0, <1>31, AcceptOInv
  <1>32. ASSUME NEW t \in Threads, AcceptFails(t)
       PROVE  OInv'
    BY <1>0, <1>32, AcceptOInv
  <1>33. CASE UNCHANGED vars
    BY <1>0, <1>33, KernelUnchanged, QuietStill DEF vars
  <1> QED BY <1>0, <1>1, <1>2, <1>3, <1>4, <1>5, <1>6, <1>7, <1>8, <1>9, <1>10, <1>11, <1>12, <1>13,
             <1>14, <1>15, <1>16, <1>17, <1>18, <1>19, <1>20, <1>21, <1>22, <1>23, <1>24, <1>25, <1>26,
             <1>27, <1>28, <1>29, <1>30, <1>31, <1>32, <1>33
      DEF Next, Continue, Call, Closing, Creating, Transfer, Connecting, Network

\* The first invariant implies the type invariant and that the locks are balanced.
LEMMA LInvTyped == LInv => TypeOK /\ LockBalanced
  <1> SUFFICES ASSUME LInv PROVE TypeOK /\ LockBalanced
    OBVIOUS
  <1>1. TypeOK
    BY DEF LInv, Members, KernelTypes, ThreadsRight, LockTypes, Shape, TypeOK
  <1>2. LockBalanced
    <2>1. ASSUME NEW o \in Objects, lock[o].holder # Nobody
          PROVE  LET t == lock[o].holder IN
                 /\ th[t].obj = o /\ th[t].call \in Locked /\ ~At(t, "lock")
                 /\ lock[o].depth = (IF th[t].call = "TimedReceiveFrom" /\ At(t, "recvfrom") THEN 2 ELSE 1)
      <3>1. PICK t \in Threads : t = lock[o].holder
        BY <2>1 DEF LInv, ThreadsRight, LockTypes
      <3>2. th[t].obj = o /\ Depth(th[t]) > 0 /\ lock[o].depth = Depth(th[t])
        BY <3>1 DEF LInv, ThreadsRight, Locks
      <3> QED BY <3>1, <3>2 DEF Depth, At
    <2>2. \A o \in Objects : lock[o].holder = Nobody => lock[o].depth = 0
      BY DEF LInv, ThreadsRight, Locks
    <2> QED BY <2>1, <2>2 DEF LockBalanced
  <1> QED BY <1>1, <1>2

\* Every step keeps the first invariant.
LEMMA LInvStep == ASSUME LInv, [Next]_vars PROVE LInv'
  BY LInvTyped, MembersStep, KernelSteps, ThreadsStep DEF LInv, ThreadsRight

\* It holds initially.
LEMMA LInvInit == Init => LInv
  <1> SUFFICES ASSUME Init PROVE LInv
    OBVIOUS
  <1>1. Members
    <2>1. 0 \in 0 .. MaxCalls
      BY ConstantsAssumption
    <2> QED BY <2>1 DEF Init, Members
  <1>2. KernelTypes
    <2>1. NoSocket \in Sockets
      BY ConstantsAssumption DEF NoSocket, Sockets
    <2>2. 0 \in 0 .. MaxSockets
      BY ConstantsAssumption
    <2> QED BY <2>1, <2>2 DEF Init, KernelTypes
  <1>3. Shape
    BY IdleState DEF Init, Shape, OKState
  <1>4. LockTypes
    <2>1. [holder |-> Nobody, depth |-> 0] \in [holder : Threads \cup {Nobody}, depth : 0 .. 2]
      OBVIOUS
    <2> QED BY <2>1, ConstantsAssumption DEF Init, LockTypes
  <1>5. Locks
    BY IdleState, ConstantsAssumption DEF Init, Locks
  <1> QED BY <1>1, <1>2, <1>3, <1>4, <1>5 DEF LInv, ThreadsRight

\* The second invariant holds initially.
LEMMA OInvInit == Init => OInv
  BY DEF Init, OInv, Kernel, Targets, Owner, Settled, CloseSteps, ClosesRight, Has, Open, NoSocket, Idle

\* It implies that no socket is lost.
LEMMA OInvHolds == LInv /\ OInv => NoSocketLost
  BY DEF OInv, Kernel, Owner, Has, Open, NoSocketLost

-----------------------------------------------------------------------------
\* Every variable of the socket class and of the kernel keeps its type.
THEOREM TypeCorrect == Spec => []TypeOK
  <1>1. LInv /\ [Next]_vars => LInv'
    BY LInvStep
  <1> QED BY <1>1, LInvInit, LInvTyped, PTL DEF Spec

\* Every path through Receive, Send, ReceiveFrom, Connect and Accept gives the lock back as often
\* as it took it, the nested call of the timed ReceiveFrom and the Close() of Connect included.
THEOREM LockKeptBalanced == Spec => []LockBalanced
  <1>1. LInv /\ [Next]_vars => LInv'
    BY LInvStep
  <1> QED BY <1>1, LInvInit, LInvTyped, PTL DEF Spec

\* No socket stays open that no object can close, but for one whose object was created or accepted
\* into again after a Connect or Bind that returned FALSE without closing it.
THEOREM SocketsKept == Spec => []NoSocketLost
  <1>1. LInv /\ OInv /\ [Next]_vars => (LInv /\ OInv)'
    BY LInvStep, OInvStep
  <1> QED BY <1>1, LInvInit, OInvInit, OInvHolds, PTL DEF Spec
=============================================================================
