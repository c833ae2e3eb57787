------------------------------ MODULE TcpSocket ------------------------------
(***************************************************************************)
(* CTcpAsyncSocket (TcpSocket.h, TcpSocket.cpp): a socket handle and, in   *)
(* the build that defines MULT_THREAD, a critical section which most of    *)
(* the member functions hold while they use the handle.  Create, Bind,     *)
(* Close, the destructor, IOCtl and Listen never take it.                  *)
(*                                                                         *)
(* Several threads call the member functions of several objects.  The      *)
(* kernel hands out handle values from a table and hands out the value of  *)
(* a closed socket again, so that a thread which loaded a handle before it *)
(* was closed may reach the socket of another object.                      *)
(*                                                                         *)
(* An action is what happens between two accesses to shared memory or to   *)
(* the kernel; entering the critical section is merged with the load of    *)
(* the handle that follows it, and leaving it with the call before it.     *)
(* m_blCanQuit, m_iClientPort and m_strClientIp are stored and never read  *)
(* by the class: they are left out, and so are the bytes sent and received *)
(* and the text that Send formats for a log.                               *)
(***************************************************************************)
EXTENDS Naturals, FiniteSets

CONSTANTS
  Threads,
  Objects,     \* memory for CTcpAsyncSocket objects
  Handles,     \* the values of valid SOCKET handles
  INVALID,     \* INVALID_SOCKET
  Nobody,      \* no thread
  Nothing,     \* no object
  MaxSockets,  \* bound: sockets the kernel creates in a behaviour
  MaxCalls,    \* bound: calls of member functions in a behaviour
  MaxData,     \* bound: portions of data or connections that wait at a socket
  Builds       \* TRUE: MULT_THREAD is defined, FALSE: it is not (TcpSocket.h:15)

ASSUME ConstantsAssumption ==
  /\ INVALID \notin Handles /\ Nobody \notin Threads /\ Nothing \notin Objects
  /\ MaxSockets \in Nat \ {0} /\ MaxData \in Nat \ {0} /\ MaxCalls \in Nat
  /\ Builds \subseteq BOOLEAN

VARIABLES
  mult,       \* MULT_THREAD is defined in this build
  m_hSocket, m_bServer,
  built,      \* objects that have been constructed and not destroyed
  lock,       \* m_objLock: who is inside and how many times
  table,      \* kernel: the socket each handle value stands for, 0 when free
  sk,         \* kernel: the sockets
  th,         \* the threads
  calls,      \* calls of member functions so far
  inUse,      \* objects that, for all their users know, have a socket
  early,      \* objects whose last Connect or Bind returned FALSE before the kernel call
  raw,        \* objects whose m_hSocket was never assigned
  abandoned,  \* sockets whose handle was overwritten in an object of early
  foreign     \* a thread has closed, read or accepted from the socket of another object

object  == <<m_hSocket, m_bServer, built>>
kernel  == <<table, sk>>
history == <<inUse, early, raw, abandoned, foreign>>
vars    == <<mult, object, lock, kernel, th, calls, history>>

Ids == 1 .. MaxSockets

Labels == {"idle", "lock", "ioctl", "recv", "send", "select", "recvfrom", "connect",
           "setsockopt", "bind", "accept", "close", "closesocket", "clear"}

\* Functions that hold the lock, and the kernel call each makes first.  SendTo does
\* what Send does, and may find that the address is not one before it.
Locked == {"Receive", "Send", "ReceiveFrom", "TimedReceiveFrom", "Connect", "Accept"}

First(f) ==
  CASE f = "Receive"          -> "ioctl"
    [] f = "Send"             -> "send"
    [] f = "ReceiveFrom"      -> "recvfrom"
    [] f = "TimedReceiveFrom" -> "select"
    [] f = "Connect"          -> "connect"
    [] f = "Accept"           -> "accept"

Calls == Locked \cup {"none", "Create", "Bind", "Close", "delete"}

Sockets == [kind : {"none", "fresh", "listening", "live", "over", "closed"},
            avail : 0 .. MaxData, nonblocking : BOOLEAN, owner : Objects \cup {Nothing}]

ThreadStates ==
  [pc : Labels, call : Calls, obj : Objects \cup {Nothing}, target : Objects \cup {Nothing},
   reg : Handles \cup {INVALID},  \* the handle loaded for the kernel call
   closes : 0 .. 2,               \* calls of Close() still to make before returning
   disturbed : BOOLEAN]           \* another thread has closed the object's socket meanwhile

NoSocket == [kind |-> "none", avail |-> 0, nonblocking |-> FALSE, owner |-> Nothing]
ClosedSocket == [NoSocket EXCEPT !.kind = "closed"]

Idle == [pc |-> "idle", call |-> "none", obj |-> Nothing, target |-> Nothing,
         reg |-> INVALID, closes |-> 0, disturbed |-> FALSE]

TypeOK ==
  /\ mult \in BOOLEAN
  /\ m_hSocket \in [Objects -> Handles \cup {INVALID}]
  /\ m_bServer \in [Objects -> BOOLEAN]
  /\ built \subseteq Objects
  /\ lock \in [Objects -> [holder : Threads \cup {Nobody}, depth : 0 .. 2]]
  /\ table \in [Handles -> 0 .. MaxSockets]
  /\ sk \in [Ids -> Sockets]
  /\ th \in [Threads -> ThreadStates]
  /\ calls \in 0 .. MaxCalls
  /\ inUse \subseteq Objects /\ early \subseteq Objects /\ raw \subseteq Objects
  /\ abandoned \subseteq 0 .. MaxSockets /\ foreign \in BOOLEAN

Init ==
  /\ mult \in Builds
  /\ m_hSocket = [o \in Objects |-> INVALID]
  /\ m_bServer = [o \in Objects |-> TRUE]
  /\ built = {}
  /\ lock = [o \in Objects |-> [holder |-> Nobody, depth |-> 0]]
  /\ table = [h \in Handles |-> 0]
  /\ sk = [i \in Ids |-> NoSocket]
  /\ th = [t \in Threads |-> Idle]
  /\ calls = 0
  /\ inUse = {} /\ early = {} /\ raw = {} /\ abandoned = {} /\ foreign = FALSE

-----------------------------------------------------------------------------
(* The kernel. *)

\* The socket a handle stands for, 0 when the handle is not valid.
Named(h) == IF h = INVALID THEN 0 ELSE table[h]

Is(h, kinds) == Named(h) # 0 /\ sk[Named(h)].kind \in kinds

HasData(h) == Is(h, {"live", "over"}) /\ sk[Named(h)].avail > 0

\* What select reports as readable.
Readable(h) == Named(h) # 0 /\ (sk[Named(h)].avail > 0 \/ Is(h, {"over"}))

\* A call made for o reaches the socket that h stands for.
Touch(h, o) == foreign' = (foreign \/ (Named(h) # 0 /\ sk[Named(h)].owner # o))

\* A call on a blocking socket that has nothing to give waits.
WouldBlock(h) ==
  Is(h, {"live", "listening"}) /\ sk[Named(h)].avail = 0 /\ ~sk[Named(h)].nonblocking

\* A new socket gets any free handle value.
NewSocket(h, o, k) ==
  \E i \in Ids :
    /\ sk[i].kind = "none" /\ \A j \in Ids : j < i => sk[j].kind # "none"
    /\ table[h] = 0
    /\ table' = [table EXCEPT ![h] = i]
    /\ sk' = [sk EXCEPT ![i] = [kind |-> k, avail |-> 0, nonblocking |-> FALSE, owner |-> o]]

\* What arrives from the network.
Arrive(i) ==
  /\ sk[i].kind \in {"live", "listening"} /\ sk[i].avail < MaxData
  /\ sk' = [sk EXCEPT ![i].avail = @ + 1]
  /\ UNCHANGED <<mult, calls, object, lock, table, th, history>>

\* The peer closes the connection, or resets it, and what was not read is gone.
PeerEnds(i) ==
  /\ sk[i].kind = "live"
  /\ \E n \in {0, sk[i].avail} : sk' = [sk EXCEPT ![i].kind = "over", ![i].avail = n]
  /\ UNCHANGED <<mult, object, lock, table, th, calls, history>>

Network == \E i \in Ids : Arrive(i) \/ PeerEnds(i)

-----------------------------------------------------------------------------
(* Calls and the lock. *)

At(t, l) == th[t].pc = l

\* Thread u is in a member function of o, or is going to store into it.
Uses(u, o) == th[u].obj = o \/ th[u].target = o

\* A caller enters f on o.  Construction, destruction, Create and the object that
\* Accept fills are for one thread alone; the other functions may overlap.
Alone(o) == \A u \in Threads : ~Uses(u, o)

Callable(t, o) ==
  /\ At(t, "idle") /\ o \in built
  /\ calls < MaxCalls /\ calls' = calls + 1
  /\ \A u \in Threads : th[u].target # o /\ (th[u].obj = o => th[u].call \notin {"Create", "delete"})

Enter(t, f, o, c, l, h) ==
  th' = [th EXCEPT ![t] = [Idle EXCEPT !.pc = l, !.call = f, !.obj = o, !.target = c, !.reg = h]]

\* Mutant: the lock lets everybody in.
LockLets(t, o) ==
  IF mult THEN lock' = [lock EXCEPT ![o] = [holder |-> t, depth |-> 1]] ELSE UNCHANGED lock

\* m_objLock.Lock(): a critical section lets its owner in again.
Lock(t, o) ==
  IF mult
  THEN /\ lock[o].holder \in {Nobody, t}
       /\ lock' = [lock EXCEPT ![o] = [holder |-> t, depth |-> @.depth + 1]]
  ELSE UNCHANGED lock

\* n calls of m_objLock.Unlock().
Unlock(o, n) ==
  IF mult
  THEN lock' = [lock EXCEPT ![o] = IF @.depth = n THEN [holder |-> Nobody, depth |-> 0]
                                                  ELSE [@ EXCEPT !.depth = @ - n]]
  ELSE UNCHANGED lock

\* Mutant: the timed ReceiveFrom unlocks for the nested call it did not make.
ReturnTwice(t) ==
  /\ th' = [th EXCEPT ![t] = Idle]
  /\ IF th[t].call \in Locked
     THEN Unlock(th[t].obj, IF th[t].call = "TimedReceiveFrom" THEN 2 ELSE 1)
     ELSE UNCHANGED lock

\* The function returns; the functions of Locked release what they hold.
Return(t) ==
  /\ th' = [th EXCEPT ![t] = Idle]
  /\ IF th[t].call \in Locked
     THEN Unlock(th[t].obj, IF th[t].call = "TimedReceiveFrom" /\ At(t, "recvfrom") THEN 2 ELSE 1)
     ELSE UNCHANGED lock

\* The next kernel call of the function, with the handle as it is now.
Step(t, l) == th' = [th EXCEPT ![t].pc = l, ![t].reg = m_hSocket[th[t].obj]]

\* Thread u is closing the object that t uses, and the lock does not keep them apart.
Apart(t, u) == mult /\ th[t].call \in Locked /\ th[u].call \in Locked

HalfClosed(t) ==
  \E u \in Threads \ {t} :
    th[u].obj = th[t].obj /\ th[u].pc \in {"closesocket", "clear"} /\ ~Apart(t, u)

\* A function of Locked is called.  Nobody sends or receives with an object that
\* never had a handle.
CallLocked(t, f, o) ==
  /\ Callable(t, o) /\ o \notin raw /\ f \in Locked \ {"Accept"}
  /\ Enter(t, f, o, Nothing, "lock", INVALID)
  /\ UNCHANGED <<mult, object, lock, kernel, history>>

\* Accept(rConnectedSocket) needs an object of its own that has no socket.
CallAccept(t, o, c) ==
  /\ Callable(t, o) /\ o \notin raw /\ c \in built \ {o} /\ c \notin inUse /\ Alone(c)
  /\ Enter(t, "Accept", o, c, "lock", INVALID)
  /\ UNCHANGED <<mult, object, lock, kernel, history>>

\* It gets the lock and loads the handle.
TakeLock(t) ==
  LET o == th[t].obj IN
  /\ At(t, "lock")
  /\ Lock(t, o)
  /\ th' = [th EXCEPT ![t].pc = First(th[t].call), ![t].reg = m_hSocket[o],
                      ![t].disturbed = HalfClosed(t)]
  /\ UNCHANGED <<mult, calls, object, kernel, history>>

-----------------------------------------------------------------------------
(* Construction. *)

\* CTcpAsyncSocket()
New(t, o) ==
  /\ At(t, "idle") /\ o \notin built /\ Alone(o)
  /\ built' = built \cup {o}
  /\ m_hSocket' = [m_hSocket EXCEPT ![o] = INVALID]
  /\ m_bServer' = [m_bServer EXCEPT ![o] = TRUE]
  /\ UNCHANGED <<mult, calls, lock, kernel, th, history>>

\* CTcpAsyncSocket(bServer) leaves m_hSocket as it finds the memory.
NewAs(t, o, bServer) ==
  /\ At(t, "idle") /\ o \notin built /\ Alone(o)
  /\ built' = built \cup {o}
  /\ \E h \in Handles \cup {INVALID} : m_hSocket' = [m_hSocket EXCEPT ![o] = h]
  /\ m_bServer' = [m_bServer EXCEPT ![o] = bServer]
  /\ raw' = raw \cup {o}
  /\ UNCHANGED <<mult, calls, lock, kernel, th, inUse, early, abandoned, foreign>>

-----------------------------------------------------------------------------
(* Close(), called by itself, by the destructor, Create, Bind and Connect. *)

\* The function goes on with n calls of Close().
GoClose(t, n) == th' = [th EXCEPT ![t].pc = "close", ![t].closes = n, ![t].reg = INVALID]

CallClose(t, o, f) ==
  /\ Callable(t, o) /\ f \in {"Close", "delete"}
  /\ f = "delete" => Alone(o)
  /\ th' = [th EXCEPT ![t] = [Idle EXCEPT !.pc = "close", !.call = f, !.obj = o, !.closes = 1]]
  /\ UNCHANGED <<mult, object, lock, kernel, history>>

\* After the last Close() the function returns: the users know that the object has
\* no socket any more, and a destroyed object is gone.
CloseReturns(t) ==
  LET o == th[t].obj IN
  /\ At(t, "close")
  /\ th[t].closes = 0
  /\ Return(t)
  /\ inUse' = inUse \ {o}
  /\ early' = early \ {o}
  /\ raw' = raw \ {o}
  /\ IF th[t].call = "delete"
     THEN built' = built \ {o} /\ m_bServer' = [m_bServer EXCEPT ![o] = TRUE]
     ELSE UNCHANGED <<built, m_bServer>>
  /\ UNCHANGED <<mult, calls, m_hSocket, kernel, abandoned, foreign>>

\* Line 43.
CloseTest(t) ==
  LET o == th[t].obj IN
  /\ At(t, "close") /\ th[t].closes > 0
  /\ th' = IF m_hSocket[o] = INVALID
           THEN [th EXCEPT ![t].closes = @ - 1]
           ELSE [th EXCEPT ![t].pc = "closesocket", ![t].reg = m_hSocket[o],
                           ![t].disturbed = @ \/ HalfClosed(t)]
  /\ UNCHANGED <<mult, calls, object, lock, kernel, history>>

\* Thread t closes the socket while v is in a function of the same object.
Disturbs(t, v) == v # t /\ th[v].obj = th[t].obj /\ ~At(v, "lock") /\ ~Apart(t, v)

\* Line 45.  The build may load the member again or keep the value it tested.
CloseSocket(t) ==
  LET o == th[t].obj IN
  /\ At(t, "closesocket")
  /\ \E h \in {th[t].reg, m_hSocket[o]} :
       /\ th' = [v \in Threads |->
                   IF v = t THEN [th[t] EXCEPT !.pc = "clear", !.reg = INVALID]
                   ELSE IF Disturbs(t, v) THEN [th[v] EXCEPT !.disturbed = TRUE] ELSE th[v]]
       /\ IF Named(h) = 0
          THEN UNCHANGED <<kernel, foreign>>
          ELSE /\ table' = [table EXCEPT ![h] = 0]
               /\ sk' = [sk EXCEPT ![Named(h)] = ClosedSocket]
               /\ Touch(h, o)
  /\ UNCHANGED <<mult, calls, object, lock, inUse, early, raw, abandoned>>

\* Mutant: the handle stays in the member after it was closed.
ClearForgets(t) ==
  /\ At(t, "clear")
  /\ th' = [v \in Threads |->
              IF v = t THEN [th[t] EXCEPT !.pc = "close", !.closes = @ - 1]
              ELSE IF Disturbs(t, v) THEN [th[v] EXCEPT !.disturbed = TRUE] ELSE th[v]]
  /\ UNCHANGED <<mult, calls, object, lock, kernel, history>>

\* Line 46.
Clear(t) ==
  /\ At(t, "clear")
  /\ m_hSocket' = [m_hSocket EXCEPT ![th[t].obj] = INVALID]
  /\ th' = [v \in Threads |->
              IF v = t THEN [th[t] EXCEPT !.pc = "close", !.closes = @ - 1]
              ELSE IF Disturbs(t, v) THEN [th[v] EXCEPT !.disturbed = TRUE] ELSE th[v]]
  /\ UNCHANGED <<mult, calls, m_bServer, built, lock, kernel, history>>

Closing(t) == CloseReturns(t) \/ CloseTest(t) \/ CloseSocket(t) \/ Clear(t)

-----------------------------------------------------------------------------
(* Create and Bind. *)

\* The member is assigned: what it held is lost if it was a socket of the object.
Assign(o, h) ==
  /\ m_hSocket' = [m_hSocket EXCEPT ![o] = h]
  /\ raw' = raw \ {o}
  /\ early' = early \ {o}
  /\ abandoned' = IF o \in early THEN abandoned \cup {Named(m_hSocket[o])} ELSE abandoned
  /\ UNCHANGED <<m_bServer, built>>

\* Lines 54-64: a client has its socket, a server goes on.
Create(t, o) ==
  /\ Callable(t, o) /\ Alone(o) /\ o \notin inUse
  /\ \E h \in Handles :
       /\ NewSocket(h, o, "fresh")
       /\ Assign(o, h)
       /\ IF m_bServer[o]
          THEN /\ th' = [th EXCEPT ![t] = [Idle EXCEPT !.pc = "setsockopt", !.call = "Create",
                                                        !.obj = o, !.reg = h]]
               /\ UNCHANGED inUse
          ELSE inUse' = inUse \cup {o} /\ UNCHANGED th
  /\ UNCHANGED <<mult, lock, foreign>>

CreateFails(t, o) ==
  /\ Callable(t, o) /\ Alone(o) /\ o \notin inUse
  /\ Assign(o, INVALID)
  /\ UNCHANGED <<mult, lock, kernel, th, inUse, foreign>>

\* Lines 69-76.
SetSockOpt(t) ==
  /\ At(t, "setsockopt")
  /\ Step(t, "bind") \/ GoClose(t, 1)
  /\ UNCHANGED <<mult, calls, object, lock, kernel, history>>

\* Bind called by itself.
CallBind(t, o) ==
  /\ Callable(t, o) /\ o \notin raw
  /\ Enter(t, "Bind", o, Nothing, "bind", m_hSocket[o])
  /\ UNCHANGED <<mult, object, lock, kernel, history>>

\* Mutant: Create relies on Bind to close the socket.
BindAddressKeeps(t) ==
  LET o == th[t].obj IN
  /\ At(t, "bind")
  /\ th' = [th EXCEPT ![t] = Idle]
  /\ inUse' = inUse \ {o}
  /\ early' = IF th[t].call = "Create" THEN early ELSE early \cup {o}
  /\ UNCHANGED <<mult, calls, object, lock, kernel, raw, abandoned, foreign>>

\* Lines 100-105: the address is not one.  Create closes the socket, Bind does not.
BindAddress(t) ==
  LET o == th[t].obj IN
  /\ At(t, "bind")
  /\ IF th[t].call = "Create"
     THEN GoClose(t, 1) /\ UNCHANGED <<inUse, early>>
     ELSE th' = [th EXCEPT ![t] = Idle] /\ inUse' = inUse \ {o} /\ early' = early \cup {o}
  /\ UNCHANGED <<mult, calls, object, lock, kernel, raw, abandoned, foreign>>

\* Lines 112-118, with the second Close() of Create (line 82).
BindFails(t) ==
  /\ At(t, "bind")
  /\ GoClose(t, IF th[t].call = "Create" THEN 2 ELSE 1)
  /\ UNCHANGED <<mult, calls, object, lock, kernel, history>>

\* A bound datagram socket gets data from then on.
BindSucceeds(t) ==
  LET o == th[t].obj IN
  /\ At(t, "bind") /\ Is(th[t].reg, {"fresh"})
  /\ \E k \in {"fresh", "live"} : sk' = [sk EXCEPT ![Named(th[t].reg)].kind = k]
  /\ th' = [th EXCEPT ![t] = Idle]
  /\ inUse' = IF th[t].call = "Create" THEN inUse \cup {o} ELSE inUse
  /\ UNCHANGED <<mult, calls, object, lock, table, early, raw, abandoned, foreign>>

Creating(t) == SetSockOpt(t) \/ BindAddress(t) \/ BindFails(t) \/ BindSucceeds(t)

-----------------------------------------------------------------------------
(* Receiving and sending. *)

\* Mutant: the early return forgets the lock.
IoctlNothingKeeps(t) ==
  /\ At(t, "ioctl") /\ ~HasData(th[t].reg)
  /\ th' = [th EXCEPT ![t] = Idle]
  /\ UNCHANGED <<mult, calls, object, lock, kernel, history>>

\* Lines 135-143: nothing to read, or no socket.
IoctlNothing(t) ==
  /\ At(t, "ioctl") /\ ~HasData(th[t].reg)
  /\ Return(t)
  /\ UNCHANGED <<mult, calls, object, kernel, history>>

IoctlLength(t) ==
  /\ At(t, "ioctl") /\ HasData(th[t].reg)
  /\ Step(t, "recv")
  /\ UNCHANGED <<mult, calls, object, lock, kernel, history>>

\* Line 144 or 262: recv and recvfrom wait for data, or fail.
Receives(t) ==
  LET h == th[t].reg IN
  /\ th[t].pc \in {"recv", "recvfrom"}
  /\ WouldBlock(h) => Is(h, {"listening"})
  /\ IF HasData(h) THEN sk' = [sk EXCEPT ![Named(h)].avail = @ - 1] ELSE UNCHANGED sk
  /\ Touch(h, th[t].obj)
  /\ Return(t)
  /\ UNCHANGED <<mult, calls, object, table, inUse, early, raw, abandoned>>

\* Lines 234-242: the time is over, or the handle is not a socket.
SelectEnds(t) ==
  /\ At(t, "select") /\ ~Readable(th[t].reg)
  /\ Return(t)
  /\ UNCHANGED <<mult, calls, object, kernel, history>>

\* Line 243: the other ReceiveFrom, which takes the lock again.
SelectReady(t) ==
  /\ At(t, "select") /\ Readable(th[t].reg)
  /\ Lock(t, th[t].obj)
  /\ Step(t, "recvfrom")
  /\ UNCHANGED <<mult, calls, object, kernel, history>>

\* Lines 157 and 206, and the address that is not one (line 199).
Sends(t) ==
  /\ At(t, "send")
  /\ Return(t)
  /\ UNCHANGED <<mult, calls, object, kernel, history>>

Transfer(t) ==
  IoctlNothing(t) \/ IoctlLength(t) \/ Receives(t) \/ SelectEnds(t) \/ SelectReady(t) \/ Sends(t)

-----------------------------------------------------------------------------
(* Connect, Listen, Accept and IOCtl. *)

\* Lines 303-310: the name is not known.
ConnectLookup(t) ==
  LET o == th[t].obj IN
  /\ At(t, "connect")
  /\ Return(t)
  /\ inUse' = inUse \ {o} /\ early' = early \cup {o}
  /\ UNCHANGED <<mult, calls, object, kernel, raw, abandoned, foreign>>

ConnectSucceeds(t) ==
  /\ At(t, "connect") /\ Is(th[t].reg, {"fresh"})
  /\ sk' = [sk EXCEPT ![Named(th[t].reg)].kind = "live"]
  /\ Return(t)
  /\ UNCHANGED <<mult, calls, object, table, history>>

\* Mutant: the lock is released before Close().
ConnectFailsUnlocked(t) ==
  /\ At(t, "connect")
  /\ GoClose(t, 1)
  /\ Unlock(th[t].obj, 1)
  /\ UNCHANGED <<mult, calls, object, kernel, history>>

\* Lines 315-318: Close() with the lock still held.
ConnectFails(t) ==
  /\ At(t, "connect")
  /\ GoClose(t, 1)
  /\ UNCHANGED <<mult, calls, object, lock, kernel, history>>

Listen(t, o) ==
  /\ Callable(t, o) /\ o \notin raw
  /\ Is(m_hSocket[o], {"fresh"})
  /\ sk' = [sk EXCEPT ![Named(m_hSocket[o])].kind = "listening"]
  /\ UNCHANGED <<mult, object, lock, table, th, history>>

\* IOCtl with FIONBIO, through SetNonBlockingMode.
SetNonBlockingMode(t, o, flag) ==
  /\ Callable(t, o) /\ o \notin raw
  /\ Named(m_hSocket[o]) # 0
  /\ sk' = [sk EXCEPT ![Named(m_hSocket[o])].nonblocking = flag]
  /\ UNCHANGED <<mult, object, lock, table, th, history>>

\* Lines 359-371 and 390-404: the new handle is stored into the other object.
AcceptSucceeds(t) ==
  LET c == th[t].target
      i == Named(th[t].reg) IN
  /\ At(t, "accept") /\ Is(th[t].reg, {"listening"}) /\ sk[i].avail > 0
  /\ \E h \in Handles, j \in Ids :
       /\ sk[j].kind = "none" /\ \A k \in Ids : k < j => sk[k].kind # "none"
       /\ table[h] = 0
       /\ table' = [table EXCEPT ![h] = j]
       /\ sk' = [sk EXCEPT ![i].avail = @ - 1,
                           ![j] = [kind |-> "live", avail |-> 0,
                                   nonblocking |-> sk[i].nonblocking, owner |-> c]]
       /\ Assign(c, h)
  /\ inUse' = inUse \cup {c}
  /\ Touch(th[t].reg, th[t].obj)
  /\ Return(t)
  /\ UNCHANGED <<mult, calls>>

\* accept waits for a connection on a blocking socket that listens.
AcceptFails(t) ==
  /\ At(t, "accept") /\ ~WouldBlock(th[t].reg)
  /\ Assign(th[t].target, INVALID)
  /\ Return(t)
  /\ UNCHANGED <<mult, calls, kernel, inUse, foreign>>

Connecting(t) ==
  ConnectLookup(t) \/ ConnectSucceeds(t) \/ ConnectFails(t) \/ AcceptSucceeds(t) \/ AcceptFails(t)

-----------------------------------------------------------------------------
\* A thread goes on with the function it is in.
Continue(t) ==
  TakeLock(t) \/ Closing(t) \/ Creating(t) \/ Transfer(t) \/ Connecting(t)

Call(t, o) ==
  \/ New(t, o) \/ \E b \in BOOLEAN : NewAs(t, o, b)
  \/ \E f \in Locked : CallLocked(t, f, o)
  \/ \E c \in Objects : CallAccept(t, o, c)
  \/ \E f \in {"Close", "delete"} : CallClose(t, o, f)
  \/ Create(t, o) \/ CreateFails(t, o) \/ CallBind(t, o)
  \/ Listen(t, o) \/ \E flag \in BOOLEAN : SetNonBlockingMode(t, o, flag)

Next ==
  \/ \E t \in Threads : Continue(t) \/ \E o \in Objects : Call(t, o)
  \/ Network

Spec == Init /\ [][Next]_vars

-----------------------------------------------------------------------------
\* What t does after it was disturbed, or after a foreign close, is not the class's
\* promise any more.
Undisturbed(t) == ~th[t].disturbed /\ ~foreign

\* The VERIFY of line 45: closesocket finds a socket, and the object's own, except
\* for an object that CTcpAsyncSocket(BOOL) left without a handle and for two
\* threads that close one object at a time.
CloseVerified ==
  \A t \in Threads :
    LET o == th[t].obj IN
    At(t, "closesocket") /\ o \notin raw /\ Undisturbed(t) =>
      \A h \in {th[t].reg, m_hSocket[o]} : Named(h) # 0 /\ sk[Named(h)].owner = o

\* No socket stays open that no object can close, except one whose object was
\* created or accepted into again after a Connect or Bind that returned FALSE
\* without closing it.
NoSocketLost ==
  \A i \in Ids \ abandoned :
    sk[i].kind \notin {"none", "closed"} => \E o \in built : Named(m_hSocket[o]) = i

\* With MULT_THREAD a thread that was told that there is data (FIONREAD or select)
\* does not wait in the recv that follows.
ReceiveWontBlock ==
  \A t \in Threads :
    /\ mult /\ Undisturbed(t)
    /\ At(t, "recv") \/ (At(t, "recvfrom") /\ th[t].call = "TimedReceiveFrom")
    => ~WouldBlock(th[t].reg)

\* A function reaches no other socket than its object's, although the kernel hands
\* out handle values again and, with MULT_THREAD, whoever else calls Connect.
SameSocket ==
  \A t \in Threads :
    /\ th[t].pc \in {"ioctl", "recv", "send", "select", "recvfrom", "connect", "accept"}
    /\ Undisturbed(t) /\ Named(th[t].reg) # 0
    => sk[Named(th[t].reg)].owner = th[t].obj

\* Every path through the functions gives the lock back, as often as it took it: its
\* holder is inside a function of that object and not waiting for another lock, so
\* that whoever waits for it waits for the peer of one socket at most.
LockBalanced ==
  \A o \in Objects :
    LET t == lock[o].holder IN
    IF t = Nobody THEN lock[o].depth = 0
    ELSE /\ th[t].obj = o /\ th[t].call \in Locked /\ ~At(t, "lock")
         /\ lock[o].depth = (IF th[t].call = "TimedReceiveFrom" /\ At(t, "recvfrom") THEN 2 ELSE 1)
=============================================================================
