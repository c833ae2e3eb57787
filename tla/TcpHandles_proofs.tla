-------------------------- MODULE TcpHandles_proofs --------------------------
(***************************************************************************)
(* What the threads of TcpSocket do with a handle after they loaded it:    *)
(* the kernel hands out the values of closed sockets again, so a handle is *)
(* good only as long as nobody has closed the object behind the thread's   *)
(* back.                                                                   *)
(*                                                                         *)
(* Two more invariants, resting on those of TcpSocket_proofs:              *)
(*   RInv: a thread that was not disturbed has loaded what the member      *)
(*         holds, and a member holds the object's own socket;              *)
(*   Fed:  what FIONREAD or select told a thread is still so, since the    *)
(*         only ones that could take it need the lock the thread holds.    *)
(***************************************************************************)
EXTENDS TcpSocket_proofs

\* A function is about to make a kernel call with the handle it loaded.
Engaged(s) ==
  s.pc \in {"ioctl", "recv", "send", "select", "recvfrom", "connect", "accept", "closesocket"}

\* It counts on the handle.
Counts(s) == Engaged(s) /\ ~s.disturbed

\* A handle of o that is INVALID, or the object's own socket.
Mine(h, o) == h = INVALID \/ (Named(h) # 0 /\ sk[Named(h)].owner = o)

\* Nobody sends or receives with an object that never had a handle.
NotRaw == \A t \in Threads : th[t].call \in Locked => th[t].obj \notin raw

\* The store of line 46 is still to come only for threads that know.
ClearSeen ==
  \A t, u \in Threads :
    u # t /\ Counts(th[t]) /\ th[u].obj = th[t].obj => th[u].pc # "clear"

\* It has loaded what the member holds.
LoadedIn(s) ==
  Counts(s) => m_hSocket[s.obj] = s.reg /\ (s.pc = "closesocket" => s.reg # INVALID)

\* All of them.
Loaded == \A t \in Threads : LoadedIn(th[t])

\* A member holds INVALID_SOCKET or the object's own socket, until line 46 was reached.
MembersOwn ==
  ~foreign => \A o \in Objects \ raw :
    Mine(m_hSocket[o], o) \/ \E u \in Threads : th[u].obj = o /\ th[u].pc = "clear"

\* It was told that there is something to receive.
WasTold(s) == s.pc = "recv" \/ (s.pc = "recvfrom" /\ s.call = "TimedReceiveFrom")

\* The socket i has something to receive, or has come to its end.
Ready(i) == sk[i].avail > 0 \/ sk[i].kind = "over"

\* What such a thread was told is still so.
Fed ==
  mult /\ ~foreign => \A t \in Threads :
    WasTold(th[t]) /\ ~th[t].disturbed /\ Named(th[t].reg) # 0 => Ready(Named(th[t].reg))

\* The third invariant: the handles that threads have loaded.
RInv == NotRaw /\ ClearSeen /\ Loaded /\ MembersOwn

\* Two threads in functions of one object that both hold its lock do not exist.
LEMMA OneInside ==
  ASSUME LInv, NEW t \in Threads, NEW u \in Threads, t # u, th[t].obj = th[u].obj,
         th[t].pc \notin {"idle", "lock"}, th[u].pc # "lock"
  PROVE  ~Apart(t, u)
  <1>1. th[t].obj \in Objects
    BY ThreadObject DEF LInv, ThreadsRight
  <1>2. ASSUME Apart(t, u)
        PROVE  FALSE
    <2>1. Depth(th[t]) > 0 /\ Depth(th[u]) > 0 /\ mult
      BY <1>2 DEF Apart, Depth
    <2> QED BY <1>1, <2>1 DEF LInv, ThreadsRight, Locks
  <1> QED BY <1>2

\* A thread that closes an object reaches every thread that is about to use its handle.
LEMMA AllDisturbed ==
  ASSUME LInv, NEW t \in Threads, NEW u \in Threads, t # u, th[t].obj = th[u].obj,
         th[t].pc \in {"closesocket", "clear"}, Engaged(th[u])
  PROVE  Disturbs(t, u)
  <1>1. th[u].pc # "lock" /\ th[t].pc \notin {"idle", "lock"}
    BY DEF Engaged
  <1> QED BY <1>1, OneInside DEF Disturbs, At

\* What a thread counts on is INVALID_SOCKET or its object's own socket.
LEMMA RegMine ==
  ASSUME LInv, RInv, ~foreign, NEW t \in Threads, Counts(th[t]), th[t].obj \notin raw
  PROVE  Mine(th[t].reg, th[t].obj)
  <1>1. th[t].obj \in Objects /\ th[t].pc # "clear"
    BY ThreadObject DEF LInv, ThreadsRight, Counts, Engaged
  <1>2. m_hSocket[th[t].obj] = th[t].reg
    BY DEF RInv, Loaded, LoadedIn
  <1>3. ~\E u \in Threads : th[u].obj = th[t].obj /\ th[u].pc = "clear"
    BY <1>1 DEF RInv, ClearSeen
  <1> QED BY <1>1, <1>2, <1>3 DEF RInv, MembersOwn

\* A step of one thread that leaves the objects and the handle values alone.
LEMMA QuietRInv ==
  ASSUME LInv, LInv', RInv, SameSockets, UNCHANGED <<m_hSocket, raw>>, foreign => foreign',
         NEW t \in Threads, NEW s, th' = [th EXCEPT ![t] = s],
         s.pc # "clear", th[t].pc # "clear",
         s.call \in Locked => s.obj \notin raw,
         Counts(s) => \A u \in Threads : u # t /\ th[u].obj = s.obj => th[u].pc # "clear",
         LoadedIn(s)
  PROVE  RInv'
  <1>0. /\ Members /\ KernelTypes /\ Shape /\ th \in [Threads -> ThreadStates]
        /\ NotRaw /\ ClearSeen /\ Loaded /\ MembersOwn
    BY DEF LInv, ThreadsRight, Shape, RInv
  <1>1. th'[t] = s /\ \A u \in Threads : u # t => th'[u] = th[u]
    BY <1>0
  <1>2. NotRaw'
    BY <1>0, <1>1 DEF NotRaw
  <1>3. ClearSeen'
    BY <1>0, <1>1 DEF ClearSeen, Counts, Engaged
  <1>4. Loaded'
    BY <1>0, <1>1 DEF Loaded, LoadedIn, Counts, Engaged
  <1>5. MembersOwn'
    <2>1. ASSUME ~foreign', NEW o \in Objects, o \notin raw
          PROVE  Mine(m_hSocket[o], o)' \/ \E u \in Threads : th'[u].obj = o /\ th'[u].pc = "clear"
      <3>1. CASE Mine(m_hSocket[o], o)
        <4>1. m_hSocket[o] # INVALID => table[m_hSocket[o]] \in Ids
          BY <1>0, <3>1, NamedMember, NamedType DEF Mine
        <4> QED BY <3>1, <4>1 DEF Mine, Named, SameSockets
      <3>2. ASSUME NEW u \in Threads, th[u].obj = o, th[u].pc = "clear"
            PROVE  \E v \in Threads : th'[v].obj = o /\ th'[v].pc = "clear"
        BY <1>1, <3>2
      <3> QED BY <1>0, <2>1, <3>1, <3>2 DEF MembersOwn
    <2> QED BY <2>1 DEF MembersOwn
  <1> QED BY <1>2, <1>3, <1>4, <1>5 DEF RInv

\* A step in which no thread moves.
LEMMA StillRInv ==
  ASSUME LInv, RInv, SameSockets, UNCHANGED <<m_hSocket, raw, th, foreign>>
  PROVE  RInv'
  <1>0. Members /\ KernelTypes /\ NotRaw /\ ClearSeen /\ Loaded /\ MembersOwn
    BY DEF LInv, RInv
  <1>1. NotRaw' /\ ClearSeen' /\ Loaded'
    BY <1>0 DEF NotRaw, ClearSeen, Loaded, LoadedIn, Counts, Engaged
  <1>2. \A o \in Objects : Mine(m_hSocket[o], o) => Mine(m_hSocket[o], o)'
    <2>1. \A o \in Objects : Mine(m_hSocket[o], o) /\ m_hSocket[o] # INVALID => table[m_hSocket[o]] \in Ids
      BY <1>0, NamedMember, NamedType DEF Mine
    <2> QED BY <2>1 DEF Mine, Named, SameSockets
  <1>3. MembersOwn'
    BY <1>0, <1>2 DEF MembersOwn
  <1> QED BY <1>1, <1>3 DEF RInv

\* An assignment to the member of an object that nobody uses.
LEMMA AssignRInv ==
  ASSUME LInv, LInv', OInv, RInv, NEW o \in Objects, NEW h \in Handles \cup {INVALID}, Assign(o, h),
         (SameSockets /\ h = INVALID) \/ \E i \in Ids : Opens(h, i, o),
         \A u \in Threads : th[u].obj # o, foreign => foreign',
         \A u \in Threads : \/ th'[u] = th[u]
                            \/ /\ ~Engaged(th'[u]) /\ th'[u].pc # "clear" /\ th[u].pc # "clear"
                               /\ th'[u].call \notin Locked
  PROVE  RInv'
  <1>0. Members /\ KernelTypes /\ Kernel /\ NotRaw /\ ClearSeen /\ Loaded /\ MembersOwn /\ Shape
    BY DEF LInv, OInv, RInv, ThreadsRight
  <1>1. /\ \A p \in Objects : m_hSocket'[p] = IF p = o THEN h ELSE m_hSocket[p]
        /\ raw' = raw \ {o}
    BY <1>0 DEF Assign, Members
  <1>2. NotRaw'
    BY <1>0, <1>1 DEF NotRaw
  <1>3. ClearSeen'
    BY <1>0 DEF ClearSeen, Counts
  <1>4. Loaded'
    <2>1. ASSUME NEW u \in Threads, Counts(th'[u])
          PROVE  /\ m_hSocket'[th'[u].obj] = th'[u].reg
                 /\ th'[u].pc = "closesocket" => th'[u].reg # INVALID
      <3>1. th'[u] = th[u] /\ th[u].obj \in Objects /\ th[u].obj # o
        BY <1>0, <2>1, ThreadObject DEF Counts, Engaged
      <3> QED BY <1>0, <1>1, <2>1, <3>1 DEF Loaded, LoadedIn
    <2> QED BY <2>1 DEF Loaded, LoadedIn, Counts, Engaged
  <1>5. Mine(h, o)'
    <2>1. CASE h = INVALID
      BY <2>1 DEF Mine
    <2>2. ASSUME NEW i \in Ids, Opens(h, i, o)
          PROVE  Mine(h, o)'
      <3>1. h # INVALID /\ table'[h] = i /\ sk'[i].owner = o /\ i # 0
        BY <1>0, <2>2, ConstantsAssumption DEF Opens, KernelTypes, Ids
      <3> QED BY <3>1 DEF Mine, Named
    <2> QED BY <2>1, <2>2
  <1>6. ASSUME NEW p \in Objects, p # o, Mine(m_hSocket[p], p)
        PROVE  Mine(m_hSocket[p], p)'
    <2>1. CASE m_hSocket[p] = INVALID
      BY <1>1, <1>6, <2>1 DEF Mine
    <2>2. CASE m_hSocket[p] # INVALID
      <3>1. PICK g \in Handles : g = m_hSocket[p] /\ table[g] \in Ids /\ sk[table[g]].owner = p
        BY <1>0, <1>6, <2>2, NamedMember, NamedType DEF Mine, Named
      <3>2. m_hSocket'[p] = g /\ g # INVALID
        BY <1>1, <1>6, <2>2, <3>1
      <3>3. table'[g] = table[g] /\ sk'[table[g]].owner = p /\ table[g] # 0
        <4>1. table[g] # 0 /\ Open(table[g])
          BY <1>0, <3>1 DEF Ids, Kernel
        <4>2. CASE SameSockets
          BY <3>1, <4>1, <4>2 DEF SameSockets
        <4>3. ASSUME NEW i \in Ids, Opens(h, i, o)
              PROVE  table'[g] = table[g] /\ sk'[table[g]].owner = p
          BY <1>0, <3>1, <4>1, <4>3 DEF Opens, KernelTypes, Open
        <4> QED BY <4>1, <4>2, <4>3
      <3> QED BY <3>2, <3>3 DEF Mine, Named
    <2> QED BY <2>1, <2>2
  <1>7. MembersOwn'
    <2>1. ASSUME ~foreign', NEW p \in Objects, p \notin raw'
          PROVE  Mine(m_hSocket[p], p)' \/ \E u \in Threads : th'[u].obj = p /\ th'[u].pc = "clear"
      <3>1. CASE p = o
        <4>1. m_hSocket'[p] = h
          BY <1>1, <3>1
        <4> QED BY <1>5, <3>1, <4>1 DEF Mine, Named
      <3>2. CASE p # o
        BY <1>0, <1>1, <1>6, <2>1, <3>2 DEF MembersOwn
      <3> QED BY <3>1, <3>2
    <2> QED BY <2>1 DEF MembersOwn
  <1> QED BY <1>2, <1>3, <1>4, <1>7 DEF RInv

\* The constructors.
LEMMA NewRInv ==
  ASSUME LInv, RInv, NEW t \in Threads, NEW o \in Objects, New(t, o) \/ \E b \in BOOLEAN : NewAs(t, o, b)
  PROVE  RInv'
  <1>0. Members /\ KernelTypes /\ Shape /\ NotRaw /\ ClearSeen /\ Loaded /\ MembersOwn
    BY DEF LInv, RInv, ThreadsRight
  <1>1. /\ \A u \in Threads : th[u].obj # o
        /\ UNCHANGED <<table, sk, th, foreign>>
        /\ (raw' = raw /\ m_hSocket'[o] = INVALID) \/ raw' = raw \cup {o}
        /\ \A p \in Objects : p # o => m_hSocket'[p] = m_hSocket[p]
    BY <1>0 DEF New, NewAs, Alone, Uses, history, kernel, Members
  <1>2. NotRaw'
    BY <1>0, <1>1 DEF NotRaw
  <1>3. ClearSeen'
    BY <1>0, <1>1 DEF ClearSeen, Counts, Engaged
  <1>4. Loaded'
    <2>1. ASSUME NEW u \in Threads, Counts(th[u])
          PROVE  m_hSocket'[th[u].obj] = th[u].reg /\ (th[u].pc = "closesocket" => th[u].reg # INVALID)
      <3>1. th[u].obj \in Objects /\ th[u].obj # o
        BY <1>0, <1>1, <2>1, ThreadObject DEF Counts, Engaged
      <3> QED BY <1>0, <1>1, <2>1, <3>1 DEF Loaded, LoadedIn
    <2> QED BY <1>1, <2>1 DEF Loaded, LoadedIn, Counts, Engaged
  <1>5. MembersOwn'
    BY <1>0, <1>1 DEF MembersOwn, Mine, Named
  <1> QED BY <1>2, <1>3, <1>4, <1>5 DEF RInv

\* The return of Close(): the member is INVALID_SOCKET.
LEMMA CloseReturnsRInv ==
  ASSUME LInv, OInv, RInv, NEW t \in Threads, CloseReturns(t)
  PROVE  RInv'
  <1>0. /\ Members /\ KernelTypes /\ Shape /\ th \in [Threads -> ThreadStates] /\ CloseSteps
        /\ NotRaw /\ ClearSeen /\ Loaded /\ MembersOwn
    BY DEF LInv, ThreadsRight, Shape, OInv, RInv
  <1>1. PICK o \in Objects : o = th[t].obj
    BY <1>0, ThreadObject DEF CloseReturns, At
  <1>2. m_hSocket[o] = INVALID
    BY <1>0, <1>1 DEF CloseReturns, CloseSteps, ClosesRight, At
  <1>3. /\ UNCHANGED <<table, sk, m_hSocket, foreign>> /\ raw' = raw \ {o} /\ th[t].pc = "close"
        /\ th'[t] = Idle /\ \A u \in Threads : u # t => th'[u] = th[u]
    BY <1>0, <1>1 DEF CloseReturns, Return, kernel, At
  <1>4. Idle.call \notin Locked /\ Idle.pc = "idle"
    BY DEF Idle, Locked
  <1> HIDE DEF Idle
  <1>5. NotRaw'
    BY <1>0, <1>3, <1>4 DEF NotRaw
  <1>6. ClearSeen'
    BY <1>0, <1>3, <1>4 DEF ClearSeen, Counts, Engaged
  <1>7. Loaded'
    BY <1>0, <1>3, <1>4 DEF Loaded, LoadedIn, Counts, Engaged
  <1>8. MembersOwn'
    <2>1. ASSUME ~foreign', NEW p \in Objects, p \notin raw'
          PROVE  Mine(m_hSocket[p], p)' \/ \E u \in Threads : th'[u].obj = p /\ th'[u].pc = "clear"
      <3>1. CASE p = o
        BY <1>2, <1>3, <3>1 DEF Mine
      <3>2. CASE p # o
        BY <1>0, <1>3, <2>1, <3>2 DEF MembersOwn, Mine, Named
      <3> QED BY <3>1, <3>2
    <2> QED BY <2>1 DEF MembersOwn
  <1> QED BY <1>5, <1>6, <1>7, <1>8 DEF RInv

\* A call that leaves foreign FALSE reached the object's own socket, or none.
LEMMA TouchMeans ==
  ASSUME NEW h, NEW o, Touch(h, o)
  PROVE  (foreign => foreign') /\ (~foreign' /\ Named(h) # 0 => sk[Named(h)].owner = o)
  BY DEF Touch

\* closesocket: everyone who counts on a handle of the object is disturbed.
LEMMA CloseSocketRInv ==
  ASSUME LInv, OInv, RInv, NEW t \in Threads, CloseSocket(t)
  PROVE  RInv'
  <1>0. /\ Members /\ KernelTypes /\ Shape /\ th \in [Threads -> ThreadStates] /\ Kernel
        /\ NotRaw /\ ClearSeen /\ Loaded /\ MembersOwn
    BY DEF LInv, ThreadsRight, Shape, OInv, RInv
  <1>1. PICK o \in Objects : o = th[t].obj
    BY <1>0, ThreadObject DEF CloseSocket, At
  <1>2. /\ th[t].pc = "closesocket" /\ th'[t].pc = "clear" /\ th'[t].obj = o /\ th'[t].call = th[t].call
        /\ \A u \in Threads : u # t => Alike(th'[u], th[u])
        /\ \A u \in Threads : u # t => (th'[u].disturbed <=> th[u].disturbed \/ Disturbs(t, u))
        /\ UNCHANGED <<m_hSocket, raw>>
    BY <1>0, <1>1, CloseSocketThreads DEF CloseSocket, At, object
  <1>3. \A u \in Threads : Counts(th'[u]) => u # t /\ Counts(th[u]) /\ th[u].obj # o
    BY <1>1, <1>2, AllDisturbed DEF Counts, Engaged, Alike
  <1>4. PICK h \in {th[t].reg, m_hSocket[o]} :
          (Named(h) = 0 /\ SameSockets /\ foreign' = foreign) \/ (Closes(h) /\ Touch(h, o))
    BY <1>0, <1>1, CloseSocketCloses
  <1>5. NotRaw'
    BY <1>0, <1>1, <1>2 DEF NotRaw, Alike
  <1>6. ClearSeen'
    BY <1>0, <1>2, <1>3 DEF ClearSeen, Alike
  <1>7. Loaded'
    BY <1>0, <1>2, <1>3 DEF Loaded, LoadedIn, Alike, Counts, Engaged
  <1>8. ASSUME NEW p \in Objects, p # o, ~foreign', Mine(m_hSocket[p], p)
        PROVE  Mine(m_hSocket[p], p)'
    <2>1. CASE m_hSocket[p] = INVALID
      BY <1>2, <2>1 DEF Mine
    <2>2. CASE m_hSocket[p] # INVALID
      <3>1. PICK g \in Handles : g = m_hSocket[p] /\ table[g] \in Ids /\ sk[table[g]].owner = p
        BY <1>0, <1>8, <2>2, NamedMember, NamedType DEF Mine, Named
      <3>2. table'[g] = table[g] /\ sk'[table[g]].owner = p /\ table[g] # 0
        <4>1. table[g] # 0
          BY <3>1 DEF Ids
        <4>2. CASE SameSockets
          BY <3>1, <4>1, <4>2 DEF SameSockets
        <4>3. CASE Closes(h) /\ Touch(h, o)
          <5>1. h \in Handles /\ h # INVALID /\ table[h] # 0 /\ sk[table[h]].owner = o
            BY <1>8, <4>3, TouchMeans, ConstantsAssumption DEF Closes, Named, Ids
          <5>2. g # h /\ table[g] # table[h]
            BY <1>8, <3>1, <5>1
          <5> QED BY <1>0, <3>1, <4>1, <4>3, <5>2 DEF Closes, KernelTypes
        <4> QED BY <1>4, <4>2, <4>3
      <3>3. m_hSocket'[p] = g
        BY <1>2, <3>1
      <3> QED BY <2>2, <3>1, <3>2, <3>3 DEF Mine, Named
    <2> QED BY <2>1, <2>2
  <1>9. foreign => foreign'
    BY <1>4, TouchMeans
  <1>10. MembersOwn'
    <2>1. ASSUME ~foreign', NEW p \in Objects, p \notin raw'
          PROVE  Mine(m_hSocket[p], p)' \/ \E u \in Threads : th'[u].obj = p /\ th'[u].pc = "clear"
      <3>1. CASE p = o
        BY <1>2, <3>1
      <3>2. CASE p # o
        <4>1. CASE Mine(m_hSocket[p], p)
          BY <1>8, <2>1, <3>2, <4>1
        <4>2. ASSUME NEW u \in Threads, th[u].obj = p, th[u].pc = "clear"
              PROVE  th'[u].obj = p /\ th'[u].pc = "clear"
          BY <1>2, <4>2 DEF Alike
        <4> QED BY <1>0, <1>2, <1>9, <2>1, <4>1, <4>2 DEF MembersOwn
      <3> QED BY <3>1, <3>2
    <2> QED BY <2>1 DEF MembersOwn
  <1> QED BY <1>5, <1>6, <1>7, <1>10 DEF RInv

\* The store of line 46: the same.
LEMMA ClearRInv ==
  ASSUME LInv, OInv, RInv, NEW t \in Threads, Clear(t)
  PROVE  RInv'
  <1>0. /\ Members /\ KernelTypes /\ Shape /\ th \in [Threads -> ThreadStates]
        /\ NotRaw /\ ClearSeen /\ Loaded /\ MembersOwn
    BY DEF LInv, ThreadsRight, Shape, RInv
  <1>1. PICK o \in Objects : o = th[t].obj
    BY <1>0, ThreadObject DEF Clear, At
  <1>2. /\ th[t].pc = "clear" /\ th'[t].pc = "close" /\ th'[t].obj = o /\ th'[t].call = th[t].call
        /\ \A u \in Threads : u # t => Alike(th'[u], th[u])
        /\ \A u \in Threads : u # t => (th'[u].disturbed <=> th[u].disturbed \/ Disturbs(t, u))
        /\ UNCHANGED <<table, sk, raw, foreign>>
        /\ \A p \in Objects : m_hSocket'[p] = IF p = o THEN INVALID ELSE m_hSocket[p]
    <2>1. \A p \in Objects : m_hSocket'[p] = IF p = o THEN INVALID ELSE m_hSocket[p]
      BY <1>0, <1>1 DEF Clear, Members
    <2> QED BY <1>0, <1>1, <2>1, ClearThreads DEF Clear, At, kernel, history
  <1>3. \A u \in Threads : Counts(th'[u]) => u # t /\ Counts(th[u]) /\ th[u].obj # o /\ th[u].obj \in Objects
    BY <1>0, <1>1, <1>2, AllDisturbed, ThreadObject DEF Counts, Engaged, Alike
  <1>4. NotRaw'
    BY <1>0, <1>1, <1>2 DEF NotRaw, Alike
  <1>5. ClearSeen'
    BY <1>0, <1>2, <1>3 DEF ClearSeen, Alike
  <1>6. Loaded'
    <2>1. ASSUME NEW u \in Threads, Counts(th'[u])
          PROVE  /\ m_hSocket'[th'[u].obj] = th'[u].reg
                 /\ th'[u].pc = "closesocket" => th'[u].reg # INVALID
      BY <1>0, <1>2, <1>3, <2>1 DEF Loaded, LoadedIn, Alike
    <2> QED BY <2>1 DEF Loaded, LoadedIn, Counts, Engaged
  <1>7. MembersOwn'
    <2>1. ASSUME ~foreign', NEW p \in Objects, p \notin raw'
          PROVE  Mine(m_hSocket[p], p)' \/ \E u \in Threads : th'[u].obj = p /\ th'[u].pc = "clear"
      <3>1. CASE p = o
        BY <1>2, <3>1 DEF Mine
      <3>2. CASE p # o
        <4>1. CASE Mine(m_hSocket[p], p)
          BY <1>2, <3>2, <4>1 DEF Mine, Named
        <4>2. ASSUME NEW u \in Threads, th[u].obj = p, th[u].pc = "clear"
              PROVE  th'[u].obj = p /\ th'[u].pc = "clear"
          BY <1>1, <1>2, <3>2, <4>2 DEF Alike
        <4> QED BY <1>0, <1>2, <2>1, <4>1, <4>2 DEF MembersOwn
      <3> QED BY <3>1, <3>2
    <2> QED BY <2>1 DEF MembersOwn
  <1> QED BY <1>4, <1>5, <1>6, <1>7 DEF RInv

\* A thread moves to where it counts on no handle.
LEMMA LeavesRInv ==
  ASSUME LInv, LInv', RInv, SameSockets, UNCHANGED <<m_hSocket, raw>>, foreign => foreign',
         NEW t \in Threads, NEW s, th' = [th EXCEPT ![t] = s],
         ~Engaged(s), s.pc # "clear", th[t].pc # "clear",
         s.call \in Locked => s.obj \notin raw
  PROVE  RInv'
  BY QuietRInv DEF Counts, LoadedIn

\* A function returns.
LEMMA ReturnRInv ==
  ASSUME LInv, LInv', RInv, SameSockets, UNCHANGED <<m_hSocket, raw>>, foreign => foreign',
         NEW t \in Threads, th' = [th EXCEPT ![t] = Idle], th[t].pc # "clear"
  PROVE  RInv'
  <1>1. ~Engaged(Idle) /\ Idle.pc # "clear" /\ Idle.call \notin Locked
    BY DEF Idle, Engaged, Locked
  <1> HIDE DEF Idle
  <1> QED BY <1>1, LeavesRInv

\* A function goes to Close().
LEMMA GoCloseRInv ==
  ASSUME LInv, LInv', RInv, SameSockets, UNCHANGED <<m_hSocket, raw, foreign>>,
         NEW t \in Threads, NEW n, GoClose(t, n), th[t].pc # "clear"
  PROVE  RInv'
  <1> DEFINE s == [th[t] EXCEPT !.pc = "close", !.closes = n, !.reg = INVALID]
  <1>1. th[t] \in ThreadStates /\ th' = [th EXCEPT ![t] = s] /\ NotRaw
    BY DEF LInv, ThreadsRight, Shape, GoClose, RInv
  <1>2. s.call = th[t].call /\ s.obj = th[t].obj /\ s.pc = "close"
    BY <1>1 DEF ThreadStates
  <1>3. ~Engaged(s) /\ s.pc # "clear" /\ (s.call \in Locked => s.obj \notin raw)
    BY <1>1, <1>2 DEF Engaged, NotRaw
  <1> HIDE DEF s
  <1> QED BY <1>1, <1>3, LeavesRInv

\* A function makes its next kernel call, with the handle as it is now.
LEMMA StepRInv ==
  ASSUME LInv, LInv', RInv, SameSockets, UNCHANGED <<m_hSocket, raw, foreign>>,
         NEW t \in Threads, th[t].pc # "clear", NEW l \in {"recv", "recvfrom", "bind"}, Step(t, l),
         Engaged(th[t]) \/ l = "bind"
  PROVE  RInv'
  <1> DEFINE s == [th[t] EXCEPT !.pc = l, !.reg = m_hSocket[th[t].obj]]
  <1>1. th[t] \in ThreadStates /\ th' = [th EXCEPT ![t] = s] /\ NotRaw /\ ClearSeen
    BY DEF LInv, ThreadsRight, Shape, Step, RInv
  <1>2. /\ s.call = th[t].call /\ s.obj = th[t].obj /\ s.pc = l /\ s.disturbed = th[t].disturbed
        /\ s.reg = m_hSocket[s.obj]
    BY <1>1 DEF ThreadStates
  <1> HIDE DEF s
  <1>3. /\ s.pc # "clear" /\ th[t].pc # "clear" /\ (s.call \in Locked => s.obj \notin raw)
        /\ LoadedIn(s)
    BY <1>1, <1>2 DEF Engaged, NotRaw, LoadedIn
  <1>4. Counts(s) => \A u \in Threads : u # t /\ th[u].obj = s.obj => th[u].pc # "clear"
    BY <1>1, <1>2 DEF ClearSeen, Counts, Engaged
  <1> QED BY <1>1, <1>3, <1>4, QuietRInv

\* Create.
LEMMA CreateRInv ==
  ASSUME LInv, LInv', OInv, RInv, NEW t \in Threads, NEW o \in Objects, Create(t, o) \/ CreateFails(t, o)
  PROVE  RInv'
  <1>0. Members /\ KernelTypes /\ Shape /\ th \in [Threads -> ThreadStates]
    BY DEF LInv, ThreadsRight, Shape
  <1>1. (\A u \in Threads : th[u].obj # o) /\ th[t].pc = "idle" /\ UNCHANGED foreign
    BY DEF Create, CreateFails, Callable, Alone, Uses, At
  <1>2. CASE Create(t, o)
    <2>1. PICK h \in Handles, i \in Ids : Opens(h, i, o) /\ m_hSocket' = [m_hSocket EXCEPT ![o] = h]
      BY <1>0, <1>2, CreateOpens
    <2>2. Assign(o, h)
      BY <1>2, <2>1 DEF Create, Assign
    <2>3. \A u \in Threads : \/ th'[u] = th[u]
                             \/ /\ ~Engaged(th'[u]) /\ th'[u].pc # "clear" /\ th[u].pc # "clear"
                                /\ th'[u].call \notin Locked
      <3>1. CASE th' = th
        BY <3>1
      <3>2. ASSUME NEW g,
                   th' = [th EXCEPT ![t] = [Idle EXCEPT !.pc = "setsockopt", !.call = "Create", !.obj = o, !.reg = g]]
            PROVE  /\ \A u \in Threads : u # t => th'[u] = th[u]
                   /\ th'[t].pc = "setsockopt" /\ th'[t].call = "Create"
        <4>1. th'[t] = [Idle EXCEPT !.pc = "setsockopt", !.call = "Create", !.obj = o, !.reg = g]
          BY <1>0, <3>2
        <4>2. Idle \in ThreadStates
          BY IdleState DEF OKState
        <4> QED BY <1>0, <3>2, <4>1, <4>2 DEF ThreadStates
      <3> QED BY <1>1, <1>2, <3>1, <3>2 DEF Create, Engaged, Locked
    <2> QED BY <1>1, <2>1, <2>2, <2>3, AssignRInv
  <1>3. CASE CreateFails(t, o)
    BY <1>0, <1>1, <1>3, KernelUnchanged, AssignRInv DEF CreateFails
  <1> QED BY <1>2, <1>3

\* Accept.
LEMMA AcceptRInv ==
  ASSUME LInv, LInv', OInv, RInv, NEW t \in Threads, AcceptSucceeds(t) \/ AcceptFails(t)
  PROVE  RInv'
  <1>0. Members /\ KernelTypes /\ Shape /\ th \in [Threads -> ThreadStates] /\ Targets
    BY DEF LInv, ThreadsRight, Shape, OInv
  <1>1. PICK o \in Objects : o = th[t].target /\ \A u \in Threads : th[u].obj # o
    BY <1>0 DEF AcceptSucceeds, AcceptFails, Targets, At, Shape, OKState, InCall
  <1>2. Idle.pc = "idle" /\ Idle.call \notin Locked
    BY DEF Idle, Locked
  <1>3. /\ \A u \in Threads : u # t => th'[u] = th[u]
        /\ th'[t] = Idle /\ th[t].pc = "accept"
    BY <1>0 DEF AcceptSucceeds, AcceptFails, Return, At
  <1> HIDE DEF Idle
  <1>4. \A u \in Threads : \/ th'[u] = th[u]
                           \/ /\ ~Engaged(th'[u]) /\ th'[u].pc # "clear" /\ th[u].pc # "clear"
                              /\ th'[u].call \notin Locked
    BY <1>2, <1>3 DEF Engaged
  <1>5. CASE AcceptSucceeds(t)
    <2>1. PICK h \in Handles, i \in Ids : Opens(h, i, o) /\ m_hSocket' = [m_hSocket EXCEPT ![o] = h]
      BY <1>0, <1>1, <1>5, AcceptOpens
    <2>2. Assign(o, h)
      BY <1>1, <1>5, <2>1 DEF AcceptSucceeds, Assign
    <2>3. foreign => foreign'
      BY <1>5, TouchMeans DEF AcceptSucceeds
    <2> QED BY <1>1, <1>4, <2>1, <2>2, <2>3, AssignRInv
  <1>6. CASE AcceptFails(t)
    BY <1>0, <1>1, <1>4, <1>6, KernelUnchanged, AssignRInv DEF AcceptFails
  <1> QED BY <1>5, <1>6

\* A thread that gets the lock: whoever is closing the object holds no lock, so HalfClosed sees him.
LEMMA TakeLockRInv ==
  ASSUME LInv, LInv', RInv, NEW t \in Threads, TakeLock(t)
  PROVE  RInv'
  <1> DEFINE s == [th[t] EXCEPT !.pc = First(th[t].call), !.reg = m_hSocket[th[t].obj],
                                  !.disturbed = HalfClosed(t)]
  <1>0. KernelTypes /\ Shape /\ th[t] \in ThreadStates /\ NotRaw /\ Locks
    BY DEF LInv, ThreadsRight, Shape, RInv
  <1>1. th' = [th EXCEPT ![t] = s] /\ Lock(t, th[t].obj) /\ th[t].pc = "lock" /\ th[t].obj \in Objects
        /\ UNCHANGED <<table, sk, m_hSocket, raw, foreign>>
    BY <1>0, ThreadObject DEF TakeLock, At, kernel, object, history
  <1>2. /\ s.call = th[t].call /\ s.obj = th[t].obj /\ s.reg = m_hSocket[s.obj] /\ s.pc = First(th[t].call)
        /\ s.disturbed <=> HalfClosed(t)
    BY <1>0 DEF ThreadStates
  <1>3. s.call \in Locked
    BY <1>0, <1>1, <1>2 DEF Shape, OKState, InCall
  <1> HIDE DEF s
  <1>4. s.pc \notin {"clear", "closesocket"}
    BY <1>2, <1>3 DEF First, Locked
  <1>5. ASSUME ~HalfClosed(t), NEW u \in Threads, u # t, th[u].obj = s.obj, th[u].pc = "clear"
        PROVE  FALSE
    <2>1. Apart(t, u)
      BY <1>2, <1>5 DEF HalfClosed
    <2>2. mult /\ Depth(th[u]) > 0
      BY <1>5, <2>1 DEF Apart, Depth
    <2>3. lock[th[t].obj].holder = u
      BY <1>0, <1>1, <1>2, <1>5, <2>2 DEF Locks
    <2> QED BY <1>1, <1>5, <2>2, <2>3, ConstantsAssumption DEF Lock
  <1>6. SameSockets
    BY <1>0, <1>1, KernelUnchanged DEF kernel
  <1>7. Counts(s) => \A u \in Threads : u # t /\ th[u].obj = s.obj => th[u].pc # "clear"
    BY <1>2, <1>5 DEF Counts
  <1>8. LoadedIn(s) /\ (s.call \in Locked => s.obj \notin raw)
    BY <1>0, <1>2, <1>4 DEF LoadedIn, NotRaw
  <1> QED BY <1>1, <1>4, <1>6, <1>7, <1>8, QuietRInv

\* The test of line 43: the same for another thread that closes the object.
LEMMA CloseTestRInv ==
  ASSUME LInv, LInv', RInv, NEW t \in Threads, CloseTest(t)
  PROVE  RInv'
  <1>0. KernelTypes /\ Shape /\ th[t] \in ThreadStates /\ NotRaw
    BY DEF LInv, ThreadsRight, Shape, RInv
  <1>1. /\ th[t].pc = "close" /\ th[t].obj \in Objects /\ SameSockets
        /\ UNCHANGED <<m_hSocket, raw, foreign>>
    BY <1>0, KernelUnchanged, ThreadObject DEF CloseTest, At, object, history
  <1>2. CASE m_hSocket[th[t].obj] = INVALID
    <2> DEFINE s == [th[t] EXCEPT !.closes = th[t].closes - 1]
    <2>1. th' = [th EXCEPT ![t] = s]
      BY <1>2 DEF CloseTest
    <2>2. s.call = th[t].call /\ s.obj = th[t].obj /\ s.pc = "close"
      BY <1>0, <1>1 DEF ThreadStates
    <2> HIDE DEF s
    <2>3. ~Engaged(s) /\ s.pc # "clear" /\ (s.call \in Locked => s.obj \notin raw)
      BY <1>0, <2>2 DEF Engaged, NotRaw
    <2> QED BY <1>1, <2>1, <2>3, LeavesRInv
  <1>3. CASE m_hSocket[th[t].obj] # INVALID
    <2> DEFINE s == [th[t] EXCEPT !.pc = "closesocket", !.reg = m_hSocket[th[t].obj],
                                  !.disturbed = th[t].disturbed \/ HalfClosed(t)]
    <2>1. th' = [th EXCEPT ![t] = s]
      BY <1>3 DEF CloseTest
    <2>2. /\ s.call = th[t].call /\ s.obj = th[t].obj /\ s.pc = "closesocket" /\ s.reg = m_hSocket[s.obj]
          /\ s.disturbed <=> th[t].disturbed \/ HalfClosed(t)
      BY <1>0 DEF ThreadStates
    <2> HIDE DEF s
    <2>3. s.pc # "clear" /\ (s.call \in Locked => s.obj \notin raw) /\ LoadedIn(s)
      BY <1>0, <1>3, <2>2 DEF NotRaw, LoadedIn
    <2>4. Counts(s) => \A u \in Threads : u # t /\ th[u].obj = s.obj => th[u].pc # "clear"
      <3>1. ASSUME ~HalfClosed(t), NEW u \in Threads, u # t, th[u].obj = s.obj, th[u].pc = "clear"
            PROVE  FALSE
        BY <1>1, <2>2, <3>1, OneInside DEF HalfClosed
      <3> QED BY <2>2, <3>1 DEF Counts
    <2> QED BY <1>1, <2>1, <2>3, <2>4, QuietRInv
  <1> QED BY <1>2, <1>3

\* Every step keeps the third invariant.
LEMMA RInvStep == ASSUME LInv, LInv', OInv, RInv, [Next]_vars PROVE RInv'
  <1> USE DEF At, object, kernel, history
  <1>0. LInv /\ LInv' /\ OInv /\ RInv /\ Members /\ KernelTypes /\ Shape /\ th \in [Threads -> ThreadStates]
    BY DEF LInv, ThreadsRight, Shape
  <1>1. ASSUME NEW i \in Ids, Arrive(i)
       PROVE  RInv'
    BY <1>0, <1>1, ArriveTweaks, StillRInv DEF Arrive
  <1>2. ASSUME NEW i \in Ids, PeerEnds(i)
       PROVE  RInv'
    BY <1>0, <1>2, PeerEndsTweaks, StillRInv DEF PeerEnds
  <1>3. ASSUME NEW t \in Threads, NEW o \in Objects, New(t, o)
       PROVE  RInv'
    BY <1>0, <1>3, NewRInv
  <1>4. ASSUME NEW t \in Threads, NEW o \in Objects, NEW b \in BOOLEAN, NewAs(t, o, b)
       PROVE  RInv'
    BY <1>0, <1>4, NewRInv
  <1>5. ASSUME NEW t \in Threads, NEW o \in Objects, NEW f \in Locked, CallLocked(t, f, o)
       PROVE  RInv'
    <2> DEFINE s == [Idle EXCEPT !.pc = "lock", !.call = f, !.obj = o, !.target = Nothing, !.reg = INVALID]
    <2>1. th' = [th EXCEPT ![t] = s] /\ th[t].pc # "clear"
      BY <1>5 DEF CallLocked, Enter, Callable
    <2>2. s.pc = "lock" /\ s.call = f /\ s.obj = o
      BY DEF Idle
    <2>3. o \notin raw
      BY <1>5, <2>2 DEF CallLocked, Locked
    <2> HIDE DEF s
    <2>4. ~Engaged(s)
      BY <2>2 DEF Engaged
    <2> QED BY <1>0, <1>5, <2>1, <2>2, <2>3, <2>4, KernelUnchanged, LeavesRInv DEF CallLocked
  <1>6. ASSUME NEW t \in Threads, NEW o \in Objects, NEW c \in Objects, CallAccept(t, o, c)
       PROVE  RInv'
    <2> DEFINE s == [Idle EXCEPT !.pc = "lock", !.call = "Accept", !.obj = o, !.target = c, !.reg = INVALID]
    <2>1. th' = [th EXCEPT ![t] = s] /\ th[t].pc # "clear"
      BY <1>6 DEF CallAccept, Enter, Callable
    <2>2. s.pc = "lock" /\ s.call = "Accept" /\ s.obj = o
      BY DEF Idle
    <2>3. o \notin raw
      BY <1>6, <2>2 DEF CallAccept, Locked
    <2> HIDE DEF s
    <2>4. ~Engaged(s)
      BY <2>2 DEF Engaged
    <2> QED BY <1>0, <1>6, <2>1, <2>2, <2>3, <2>4, KernelUnchanged, LeavesRInv DEF CallAccept
  <1>7. ASSUME NEW t \in Threads, NEW o \in Objects, NEW f \in {"Close", "delete"}, CallClose(t, o, f)
       PROVE  RInv'
    <2> DEFINE s == [Idle EXCEPT !.pc = "close", !.call = f, !.obj = o, !.closes = 1]
    <2>1. th' = [th EXCEPT ![t] = s] /\ th[t].pc # "clear"
      BY <1>7 DEF CallClose, Enter, Callable
    <2>2. s.pc = "close" /\ s.call = f /\ s.obj = o
      BY DEF Idle
    <2>3. s.call \notin Locked
      BY <1>7, <2>2 DEF CallClose, Locked
    <2> HIDE DEF s
    <2>4. ~Engaged(s)
      BY <2>2 DEF Engaged
    <2> QED BY <1>0, <1>7, <2>1, <2>2, <2>3, <2>4, KernelUnchanged, LeavesRInv DEF CallClose
  <1>8. ASSUME NEW t \in Threads, NEW o \in Objects, Create(t, o)
       PROVE  RInv'
    BY <1>0, <1>8, CreateRInv
  <1>9. ASSUME NEW t \in Threads, NEW o \in Objects, CreateFails(t, o)
       PROVE  RInv'
    BY <1>0, <1>9, CreateRInv
  <1>10. ASSUME NEW t \in Threads, NEW o \in Objects, CallBind(t, o)
       PROVE  RInv'
    <2> DEFINE s == [Idle EXCEPT !.pc = "bind", !.call = "Bind", !.obj = o, !.target = Nothing, !.reg = m_hSocket[o]]
    <2>1. th' = [th EXCEPT ![t] = s] /\ th[t].pc # "clear"
      BY <1>10 DEF CallBind, Enter, Callable
    <2>2. s.pc = "bind" /\ s.call = "Bind" /\ s.obj = o
      BY DEF Idle
    <2>3. s.call \notin Locked
      BY <1>10, <2>2 DEF CallBind, Locked
    <2> HIDE DEF s
    <2>4. ~Engaged(s)
      BY <2>2 DEF Engaged
    <2> QED BY <1>0, <1>10, <2>1, <2>2, <2>3, <2>4, KernelUnchanged, LeavesRInv DEF CallBind
  <1>11. ASSUME NEW t \in Threads, NEW o \in Objects, Listen(t, o)
       PROVE  RInv'
    BY <1>0, <1>11, CallTweaks, StillRInv DEF Listen
  <1>12. ASSUME NEW t \in Threads, NEW o \in Objects, NEW flag \in BOOLEAN, SetNonBlockingMode(t, o, flag)
       PROVE  RInv'
    BY <1>0, <1>12, CallTweaks, StillRInv DEF SetNonBlockingMode
  <1>13. ASSUME NEW t \in Threads, TakeLock(t)
       PROVE  RInv'
    BY <1>0, <1>13, TakeLockRInv
  <1>14. ASSUME NEW t \in Threads, CloseReturns(t)
       PROVE  RInv'
    BY <1>0, <1>14, CloseReturnsRInv
  <1>15. ASSUME NEW t \in Threads, CloseTest(t)
       PROVE  RInv'
    BY <1>0, <1>15, CloseTestRInv
  <1>16. ASSUME NEW t \in Threads, CloseSocket(t)
       PROVE  RInv'
    BY <1>0, <1>16, CloseSocketRInv
  <1>17. ASSUME NEW t \in Threads, Clear(t)
       PROVE  RInv'
    BY <1>0, <1>17, ClearRInv
  <1>18. ASSUME NEW t \in Threads, SetSockOpt(t)
       PROVE  RInv'
    BY <1>0, <1>18, KernelUnchanged, StepRInv, GoCloseRInv DEF SetSockOpt
  <1>19. ASSUME NEW t \in Threads, BindAddress(t)
       PROVE  RInv'
    BY <1>0, <1>19, KernelUnchanged, ReturnRInv, GoCloseRInv DEF BindAddress
  <1>20. ASSUME NEW t \in Threads, BindFails(t)
       PROVE  RInv'
    <2>1. th[t].pc # "clear" /\ \E n : GoClose(t, n)
      BY <1>20 DEF BindFails
    <2> QED BY <1>0, <1>20, <2>1, KernelUnchanged, GoCloseRInv DEF BindFails
  <1>21. ASSUME NEW t \in Threads, BindSucceeds(t)
       PROVE  RInv'
    <2>1. /\ th' = [th EXCEPT ![t] = Idle] /\ SameSockets /\ th[t].pc # "clear"
          /\ UNCHANGED <<m_hSocket, raw>> /\ (foreign => foreign')
      BY <1>0, <1>21, ThreadTweaks DEF BindSucceeds, Return
    <2> QED BY <1>0, <2>1, ReturnRInv
  <1>22. ASSUME NEW t \in Threads, IoctlNothing(t)
       PROVE  RInv'
    <2>1. /\ th' = [th EXCEPT ![t] = Idle] /\ SameSockets /\ th[t].pc # "clear"
          /\ UNCHANGED <<m_hSocket, raw>> /\ (foreign => foreign')
      BY <1>0, <1>22, KernelUnchanged DEF IoctlNothing, Return
    <2> QED BY <1>0, <2>1, ReturnRInv
  <1>23. ASSUME NEW t \in Threads, IoctlLength(t)
       PROVE  RInv'
    <2>1. Engaged(th[t])
      BY <1>23 DEF Engaged, IoctlLength
    <2> QED BY <1>0, <1>23, <2>1, KernelUnchanged, StepRInv DEF IoctlLength, Engaged
  <1>24. ASSUME NEW t \in Threads, Receives(t)
       PROVE  RInv'
    <2>1. /\ th' = [th EXCEPT ![t] = Idle] /\ SameSockets /\ th[t].pc # "clear"
          /\ UNCHANGED <<m_hSocket, raw>> /\ (foreign => foreign')
      BY <1>0, <1>24, ThreadTweaks, TouchMeans DEF Receives, Return
    <2> QED BY <1>0, <2>1, ReturnRInv
  <1>25. ASSUME NEW t \in Threads, SelectEnds(t)
       PROVE  RInv'
    <2>1. /\ th' = [th EXCEPT ![t] = Idle] /\ SameSockets /\ th[t].pc # "clear"
          /\ UNCHANGED <<m_hSocket, raw>> /\ (foreign => foreign')
      BY <1>0, <1>25, KernelUnchanged DEF SelectEnds, Return
    <2> QED BY <1>0, <2>1, ReturnRInv
  <1>26. ASSUME NEW t \in Threads, SelectReady(t)
       PROVE  RInv'
    <2>1. Engaged(th[t])
      BY <1>26 DEF Engaged, SelectReady
    <2> QED BY <1>0, <1>26, <2>1, KernelUnchanged, StepRInv DEF SelectReady, Engaged
  <1>27. ASSUME NEW t \in Threads, Sends(t)
       PROVE  RInv'
    <2>1. /\ th' = [th EXCEPT ![t] = Idle] /\ SameSockets /\ th[t].pc # "clear"
          /\ UNCHANGED <<m_hSocket, raw>> /\ (foreign => foreign')
      BY <1>0, <1>27, KernelUnchanged DEF Sends, Return
    <2> QED BY <1>0, <2>1, ReturnRInv
  <1>28. ASSUME NEW t \in Threads, ConnectLookup(t)
       PROVE  RInv'
    <2>1. /\ th' = [th EXCEPT ![t] = Idle] /\ SameSockets /\ th[t].pc # "clear"
          /\ UNCHANGED <<m_hSocket, raw>> /\ (foreign => foreign')
      BY <1>0, <1>28, KernelUnchanged DEF ConnectLookup, Return
    <2> QED BY <1>0, <2>1, ReturnRInv
  <1>29. ASSUME NEW t \in Threads, ConnectSucceeds(t)
       PROVE  RInv'
    <2>1. /\ th' = [th EXCEPT ![t] = Idle] /\ SameSockets /\ th[t].pc # "clear"
          /\ UNCHANGED <<m_hSocket, raw>> /\ (foreign => foreign')
      BY <1>0, <1>29, ThreadTweaks DEF ConnectSucceeds, Return
    <2> QED BY <1>0, <2>1, ReturnRInv
  <1>30. ASSUME NEW t \in Threads, ConnectFails(t)
       PROVE  RInv'
    BY <1>0, <1>30, KernelUnchanged, GoCloseRInv DEF ConnectFails
  <1>31. ASSUME NEW t \in Threads, AcceptSucceeds(t)
       PROVE  RInv'
    BY <1>0, <1>31, AcceptRInv
  <1>32. ASSUME NEW t \in Threads, AcceptFails(t)
       PROVE  RInv'
    BY <1>0, <1>32, AcceptRInv
  <1>33. CASE UNCHANGED vars
    BY <1>0, <1>33, KernelUnchanged, StillRInv DEF vars
  <1> QED BY <1>0, <1>1, <1>2, <1>3, <1>4, <1>5, <1>6, <1>7, <1>8, <1>9, <1>10, <1>11, <1>12, <1>13,
             <1>14, <1>15, <1>16, <1>17, <1>18, <1>19, <1>20, <1>21, <1>22, <1>23, <1>24, <1>25, <1>26,
             <1>27, <1>28, <1>29, <1>30, <1>31, <1>32, <1>33
      DEF Next, Continue, Call, Closing, Creating, Transfer, Connecting, Network

\* It holds initially.
LEMMA RInvInit == Init => RInv
  BY DEF Init, RInv, NotRaw, ClearSeen, Loaded, LoadedIn, MembersOwn, Mine, Counts, Engaged, Idle

\* It implies that closesocket finds the object's socket and that no function reaches another one.
LEMMA RInvHolds == LInv /\ RInv => CloseVerified /\ SameSocket
  <1> SUFFICES ASSUME LInv, RInv PROVE CloseVerified /\ SameSocket
    OBVIOUS
  <1>1. ASSUME NEW t \in Threads, At(t, "closesocket"), th[t].obj \notin raw, Undisturbed(t)
        PROVE  \A h \in {th[t].reg, m_hSocket[th[t].obj]} : Named(h) # 0 /\ sk[Named(h)].owner = th[t].obj
    <2>1. Counts(th[t]) /\ ~foreign
      BY <1>1 DEF Undisturbed, At, Counts, Engaged
    <2>2. Mine(th[t].reg, th[t].obj)
      BY <1>1, <2>1, RegMine
    <2>3. m_hSocket[th[t].obj] = th[t].reg /\ th[t].reg # INVALID
      BY <1>1, <2>1 DEF RInv, Loaded, LoadedIn, At
    <2> QED BY <2>2, <2>3 DEF Mine
  <1>2. ASSUME NEW t \in Threads,
               th[t].pc \in {"ioctl", "recv", "send", "select", "recvfrom", "connect", "accept"},
               Undisturbed(t), Named(th[t].reg) # 0
        PROVE  sk[Named(th[t].reg)].owner = th[t].obj
    <2>1. Counts(th[t]) /\ ~foreign
      BY <1>2 DEF Undisturbed, Counts, Engaged
    <2>2. th[t].call \in Locked
      BY <1>2 DEF LInv, ThreadsRight, Shape, OKState, InCall, Locked
    <2>3. Mine(th[t].reg, th[t].obj)
      BY <2>1, <2>2, RegMine DEF RInv, NotRaw
    <2> QED BY <1>2, <2>3 DEF Mine, Named
  <1> QED BY <1>1, <1>2 DEF CloseVerified, SameSocket

\* A socket with something to receive still has it, or has come to its end.
ReadyKept ==
  table' = table /\ \A i \in Ids : Ready(i) => sk'[i].avail > 0 \/ sk'[i].kind = "over"

\* Nothing is taken from a socket when the kernel does not move,
LEMMA ReadyUnchanged == ASSUME UNCHANGED kernel PROVE ReadyKept
  BY DEF ReadyKept, Ready, kernel

\* nor by the network,
LEMMA ReadyArrive ==
  ASSUME KernelTypes, NEW i \in Ids, Arrive(i) \/ PeerEnds(i)
  PROVE  ReadyKept
  <1>0. \A j \in Ids : sk[j] \in Sockets
    BY DEF KernelTypes
  <1>1. CASE Arrive(i)
    <2>1. table' = table /\ \A j \in Ids : j # i => sk'[j] = sk[j]
      BY <1>1 DEF Arrive, KernelTypes
    <2>2. sk'[i].avail = sk[i].avail + 1 /\ sk[i].avail \in 0 .. MaxData
      BY <1>0, <1>1 DEF Arrive, KernelTypes, Sockets
    <2>3. sk'[i].avail > 0
      BY <2>2, ConstantsAssumption
    <2> QED BY <2>1, <2>3 DEF ReadyKept, Ready
  <1>2. CASE PeerEnds(i)
    <2>1. table' = table /\ \A j \in Ids : j # i => sk'[j] = sk[j]
      BY <1>2 DEF PeerEnds, KernelTypes
    <2>2. sk'[i].kind = "over"
      BY <1>0, <1>2 DEF PeerEnds, KernelTypes, Sockets
    <2> QED BY <2>1, <2>2 DEF ReadyKept, Ready
  <1> QED BY <1>1, <1>2

\* nor by bind, connect, listen or the mode.
LEMMA ReadyTweaks ==
  ASSUME KernelTypes, Members, Shape, NEW t \in Threads,
         \/ \E o \in Objects : Listen(t, o) \/ \E b \in BOOLEAN : SetNonBlockingMode(t, o, b)
         \/ BindSucceeds(t) \/ ConnectSucceeds(t)
  PROVE  ReadyKept
  <1>1. ASSUME NEW h, NEW k, Is(h, {"fresh"}), Named(h) \in Ids, sk' = [sk EXCEPT ![Named(h)].kind = k], table' = table
        PROVE  ReadyKept
    <2>1. \A j \in Ids : sk[j] \in Sockets
      BY DEF KernelTypes
    <2>2. \A j \in Ids : j # Named(h) => sk'[j] = sk[j]
      BY <1>1 DEF KernelTypes
    <2>3. sk'[Named(h)].avail = sk[Named(h)].avail /\ sk[Named(h)].kind = "fresh"
      BY <1>1, <2>1 DEF KernelTypes, Sockets, Is
    <2> QED BY <1>1, <2>2, <2>3 DEF ReadyKept, Ready
  <1>2. ASSUME NEW o \in Objects, NEW b, SetNonBlockingMode(t, o, b)
        PROVE  ReadyKept
    <2>1. PICK i \in Ids : i = Named(m_hSocket[o])
      BY <1>2, NamedMember, NamedType DEF SetNonBlockingMode
    <2>2. \A j \in Ids : sk[j] \in Sockets
      BY DEF KernelTypes
    <2>3. /\ \A j \in Ids : j # i => sk'[j] = sk[j]
          /\ sk'[i].avail = sk[i].avail /\ sk'[i].kind = sk[i].kind /\ table' = table
      BY <1>2, <2>1, <2>2 DEF KernelTypes, Sockets, SetNonBlockingMode
    <2> QED BY <2>3 DEF ReadyKept, Ready
  <1>3. ASSUME NEW o \in Objects, Listen(t, o)
        PROVE  ReadyKept
    <2>1. Named(m_hSocket[o]) \in Ids
      BY <1>3, NamedMember, NamedType DEF Listen, Is
    <2> QED BY <1>1, <1>3, <2>1 DEF Listen
  <1>4. CASE BindSucceeds(t) \/ ConnectSucceeds(t)
    <2>1. Named(th[t].reg) \in Ids
      BY <1>4, ThreadReg, NamedType DEF BindSucceeds, ConnectSucceeds, Is
    <2> QED BY <1>1, <1>4, <2>1 DEF BindSucceeds, ConnectSucceeds
  <1> QED BY <1>2, <1>3, <1>4

\* The handle h stands for the same socket, with something to receive, or for none.
Stays(h) ==
  \/ table'[h] = 0
  \/ /\ table[h] # 0 /\ table'[h] = table[h]
     /\ Ready(table[h]) => sk'[table[h]].avail > 0 \/ sk'[table[h]].kind = "over"

\* A thread that was told still finds what it was told of, when its handle stays as it was.
LEMMA FedStep ==
  ASSUME Fed, mult' = mult, foreign => foreign',
         \A u \in Threads : mult /\ ~foreign' /\ WasTold(th'[u]) /\ ~th'[u].disturbed =>
           /\ th'[u].reg = th[u].reg /\ WasTold(th[u]) /\ ~th[u].disturbed
           /\ th[u].reg # INVALID => Stays(th[u].reg)
  PROVE  Fed'
  <1>1. ASSUME mult, ~foreign', NEW u \in Threads, WasTold(th'[u]), ~th'[u].disturbed, NEW h,
               h = th'[u].reg, h # INVALID, table'[h] # 0
        PROVE  sk'[table'[h]].avail > 0 \/ sk'[table'[h]].kind = "over"
    <2>1. th[u].reg = h /\ WasTold(th[u]) /\ ~th[u].disturbed /\ Stays(h) /\ ~foreign
      BY <1>1
    <2>2. Named(h) = table[h]
      BY <1>1 DEF Named
    <2> QED BY <1>1, <2>1, <2>2 DEF Fed, Stays
  <1> QED BY <1>1 DEF Fed, WasTold, Ready, Named

\* Every handle stays as it was when nothing is taken from a socket.
LEMMA StaysReady ==
  ASSUME KernelTypes, ReadyKept, NEW h \in Handles
  PROVE  Stays(h)
  BY ConstantsAssumption DEF KernelTypes, ReadyKept, Stays, Ids

\* A step in which no thread moves.
LEMMA FedStill ==
  ASSUME LInv, Fed, ReadyKept, UNCHANGED <<mult, th, foreign>>
  PROVE  Fed'
  <1>1. KernelTypes /\ Shape
    BY DEF LInv, ThreadsRight
  <1>2. \A u \in Threads : th[u].reg # INVALID => Stays(th[u].reg)
    BY <1>1, ThreadReg, StaysReady
  <1> QED BY <1>2, FedStep

\* A step of one thread to where it was told nothing.
LEMMA FedMove ==
  ASSUME LInv, Fed, ReadyKept, UNCHANGED <<mult, foreign>>,
         NEW t \in Threads, NEW s, th' = [th EXCEPT ![t] = s], ~WasTold(s)
  PROVE  Fed'
  <1>1. KernelTypes /\ Shape /\ th \in [Threads -> ThreadStates]
    BY DEF LInv, ThreadsRight, Shape
  <1>2. \A u \in Threads : th[u].reg # INVALID => Stays(th[u].reg)
    BY <1>1, ThreadReg, StaysReady
  <1>3. \A u \in Threads : WasTold(th'[u]) => th'[u] = th[u]
    BY <1>1
  <1> QED BY <1>2, <1>3, FedStep

\* A thread that is in no function was told nothing.
LEMMA IdleTold == ~WasTold(Idle)
  BY DEF Idle, WasTold

\* A function goes to Close().
LEMMA GoCloseFed ==
  ASSUME LInv, Fed, ReadyKept, UNCHANGED <<mult, foreign>>, NEW t \in Threads, NEW n, GoClose(t, n)
  PROVE  Fed'
  <1> DEFINE s == [th[t] EXCEPT !.pc = "close", !.closes = n, !.reg = INVALID]
  <1>1. th[t] \in ThreadStates /\ th' = [th EXCEPT ![t] = s]
    BY DEF LInv, ThreadsRight, Shape, GoClose
  <1>2. s.pc = "close"
    BY <1>1 DEF ThreadStates
  <1> HIDE DEF s
  <1>3. ~WasTold(s)
    BY <1>2 DEF WasTold
  <1> QED BY <1>1, <1>3, FedMove

\* FIONREAD and select tell of the socket that the next call uses, though the member is loaded again.
LEMMA LoadFed ==
  ASSUME LInv, RInv, Fed, NEW t \in Threads, IoctlLength(t) \/ SelectReady(t)
  PROVE  Fed'
  <1>1. KernelTypes /\ Shape /\ th \in [Threads -> ThreadStates] /\ Loaded
    BY DEF LInv, ThreadsRight, Shape, RInv
  <1>2. UNCHANGED <<mult, foreign, table, sk>> /\ Ready(Named(th[t].reg)) /\ Engaged(th[t])
    BY DEF IoctlLength, SelectReady, kernel, history, Engaged, At, Readable, HasData, Ready, Is
  <1>3. PICK l : th' = [th EXCEPT ![t].pc = l, ![t].reg = m_hSocket[th[t].obj]]
    BY DEF IoctlLength, SelectReady, Step
  <1>4. th'[t].disturbed = th[t].disturbed /\ th'[t].reg = m_hSocket[th[t].obj]
    <2>1. th'[t] = [th[t] EXCEPT !.pc = l, !.reg = m_hSocket[th[t].obj]] /\ th[t] \in ThreadStates
      BY <1>1, <1>3
    <2> QED BY <2>1 DEF ThreadStates
  <1>5. \A u \in Threads : u # t => th'[u] = th[u]
    BY <1>1, <1>3
  <1>6. ~th[t].disturbed => th'[t].reg = th[t].reg
    BY <1>1, <1>2, <1>4 DEF Loaded, LoadedIn, Counts
  <1>7. ASSUME mult, ~foreign, NEW u \in Threads, WasTold(th'[u]), ~th'[u].disturbed, NEW h,
               h = th'[u].reg, Named(h) # 0
        PROVE  Ready(Named(h))
    BY <1>2, <1>4, <1>5, <1>6, <1>7 DEF Fed
  <1> QED BY <1>2, <1>7 DEF Fed, WasTold, Ready, Named

\* What a thread was told of is its object's socket, when nobody has touched what is not his.
LEMMA ToldMine ==
  ASSUME LInv, RInv, ~foreign, NEW u \in Threads, WasTold(th[u]), ~th[u].disturbed, th[u].reg # INVALID
  PROVE  /\ th[u].reg \in Handles /\ table[th[u].reg] \in Ids /\ table[th[u].reg] # 0
         /\ sk[table[th[u].reg]].owner = th[u].obj /\ th[u].call \in Locked /\ th[u].pc # "lock"
  <1>1. KernelTypes /\ Shape /\ NotRaw
    BY DEF LInv, ThreadsRight, RInv
  <1>2. th[u].call \in Locked /\ Counts(th[u]) /\ th[u].pc # "lock"
    BY <1>1 DEF WasTold, Shape, OKState, InCall, Locked, Counts, Engaged
  <1>3. Mine(th[u].reg, th[u].obj)
    BY <1>1, <1>2, RegMine DEF NotRaw
  <1> QED BY <1>1, <1>2, <1>3, ThreadReg, NamedType DEF Mine, Named

\* A thread that takes from its own object's socket holds the lock, so it takes nothing that another
\* thread was told of.
LEMMA TakesOwn ==
  ASSUME LInv, RInv, mult, ~foreign, ~foreign', NEW t \in Threads, Touch(th[t].reg, th[t].obj),
         th[t].call \in Locked, th[t].pc \notin {"idle", "lock"}, Named(th[t].reg) # 0,
         NEW u \in Threads, u # t, WasTold(th[u]), ~th[u].disturbed, th[u].reg # INVALID
  PROVE  table[th[u].reg] # Named(th[t].reg)
  <1>1. sk[Named(th[t].reg)].owner = th[t].obj
    BY TouchMeans
  <1>2. sk[table[th[u].reg]].owner = th[u].obj /\ th[u].call \in Locked /\ th[u].pc # "lock"
    BY ToldMine
  <1>3. th[u].obj # th[t].obj
    BY <1>2, OneInside DEF Apart
  <1> QED BY <1>1, <1>2, <1>3

\* recv and recvfrom.
LEMMA ReceivesFed ==
  ASSUME LInv, RInv, Fed, NEW t \in Threads, Receives(t)
  PROVE  Fed'
  <1>1. KernelTypes /\ Shape /\ th \in [Threads -> ThreadStates]
    BY DEF LInv, ThreadsRight, Shape
  <1>2. /\ th[t].call \in Locked /\ th[t].pc \notin {"idle", "lock"} /\ Touch(th[t].reg, th[t].obj)
        /\ mult' = mult /\ table' = table /\ (foreign => foreign')
        /\ th'[t] = Idle /\ \A u \in Threads : u # t => th'[u] = th[u]
    BY <1>1, TouchMeans DEF Receives, Return, Shape, OKState, InCall, Locked
  <1>3. \A j \in Ids : j # Named(th[t].reg) => sk'[j] = sk[j]
    BY <1>1 DEF Receives, KernelTypes
  <1>4. HasData(th[t].reg) \/ sk' = sk
    BY DEF Receives
  <1>5. ASSUME NEW u \in Threads, mult, ~foreign', WasTold(th'[u]), ~th'[u].disturbed
        PROVE  /\ th'[u].reg = th[u].reg /\ WasTold(th[u]) /\ ~th[u].disturbed
               /\ th[u].reg # INVALID => Stays(th[u].reg)
    <2>1. u # t /\ th'[u] = th[u] /\ ~foreign
      BY <1>2, <1>5, IdleTold
    <2>2. ASSUME th[u].reg # INVALID
          PROVE  Stays(th[u].reg)
      <3>1. table[th[u].reg] \in Ids /\ table[th[u].reg] # 0
        BY <1>5, <2>1, <2>2, ToldMine
      <3>2. Named(th[t].reg) # 0 => table[th[u].reg] # Named(th[t].reg)
        BY <1>2, <1>5, <2>1, <2>2, TakesOwn
      <3>3. sk'[table[th[u].reg]] = sk[table[th[u].reg]]
        BY <1>3, <1>4, <3>1, <3>2
      <3> QED BY <1>2, <3>1, <3>3 DEF Stays, Ready
    <2> QED BY <1>5, <2>1, <2>2
  <1> QED BY <1>2, <1>5, FedStep

\* accept, which takes a connection and opens a socket.
LEMMA AcceptFed ==
  ASSUME LInv, RInv, Fed, OInv, NEW t \in Threads, AcceptSucceeds(t)
  PROVE  Fed'
  <1>1. KernelTypes /\ Shape /\ th \in [Threads -> ThreadStates] /\ Kernel
    BY DEF LInv, ThreadsRight, Shape, OInv
  <1>2. /\ th[t].call \in Locked /\ th[t].pc \notin {"idle", "lock"} /\ Touch(th[t].reg, th[t].obj)
        /\ mult' = mult /\ (foreign => foreign') /\ Named(th[t].reg) # 0
        /\ th'[t] = Idle /\ \A u \in Threads : u # t => th'[u] = th[u]
    BY <1>1, TouchMeans DEF AcceptSucceeds, Return, Shape, OKState, InCall, Locked, At, Is
  <1>3. PICK h \in Handles, j \in Ids :
           /\ table[h] = 0 /\ table' = [table EXCEPT ![h] = j] /\ sk[j].kind = "none"
           /\ \A k \in Ids : k # Named(th[t].reg) /\ k # j => sk'[k] = sk[k]
    <2> DEFINE i == Named(th[t].reg)
               q == [sk[i] EXCEPT !.avail = sk[i].avail - 1]
               r == [kind |-> "live", avail |-> 0, nonblocking |-> sk[i].nonblocking,
                     owner |-> th[t].target]
    <2>1. PICK h \in Handles, j \in Ids :
             /\ table[h] = 0 /\ table' = [table EXCEPT ![h] = j] /\ sk[j].kind = "none"
             /\ sk' = [sk EXCEPT ![i].avail = sk[i].avail - 1, ![j] = r]
      BY DEF AcceptSucceeds
    <2>2. sk' = [sk EXCEPT ![i] = q, ![j] = r]
      BY <2>1
    <2> HIDE DEF q, r, i
    <2>3. \A k \in Ids : k # i /\ k # j => sk'[k] = sk[k]
      BY <1>1, <2>2 DEF KernelTypes
    <2> QED BY <2>1, <2>3 DEF i
  <1>5. ASSUME NEW u \in Threads, mult, ~foreign', WasTold(th'[u]), ~th'[u].disturbed
        PROVE  /\ th'[u].reg = th[u].reg /\ WasTold(th[u]) /\ ~th[u].disturbed
               /\ th[u].reg # INVALID => Stays(th[u].reg)
    <2>1. u # t /\ th'[u] = th[u] /\ ~foreign
      BY <1>2, <1>5, IdleTold
    <2>2. ASSUME th[u].reg # INVALID
          PROVE  Stays(th[u].reg)
      <3>1. PICK g \in Handles : g = th[u].reg /\ table[g] \in Ids /\ table[g] # 0
        BY <1>5, <2>1, <2>2, ToldMine
      <3>2. table[g] # Named(th[t].reg)
        BY <1>2, <1>5, <2>1, <2>2, <3>1, TakesOwn
      <3>3. table[g] # j /\ g # h
        BY <1>1, <1>3, <3>1 DEF Kernel, Open
      <3>4. sk'[table[g]] = sk[table[g]] /\ table'[g] = table[g]
        BY <1>1, <1>3, <3>1, <3>2, <3>3 DEF KernelTypes
      <3> QED BY <3>1, <3>4 DEF Stays, Ready
    <2> QED BY <1>5, <2>1, <2>2
  <1> QED BY <1>2, <1>5, FedStep

\* Create, which may get a handle value that was in use.
LEMMA CreateFed ==
  ASSUME LInv, RInv, Fed, OInv, NEW t \in Threads, NEW o \in Objects, Create(t, o)
  PROVE  Fed'
  <1>1. KernelTypes /\ Shape /\ th \in [Threads -> ThreadStates] /\ Kernel
    BY DEF LInv, ThreadsRight, Shape, OInv
  <1>2. /\ UNCHANGED <<mult, foreign>>
        /\ \A u \in Threads : WasTold(th'[u]) => th'[u] = th[u]
    <2>1. CASE th' = th
      BY <2>1 DEF Create
    <2>2. ASSUME NEW g,
                 th' = [th EXCEPT ![t] = [Idle EXCEPT !.pc = "setsockopt", !.call = "Create", !.obj = o, !.reg = g]]
          PROVE  \A u \in Threads : WasTold(th'[u]) => th'[u] = th[u]
      <3>1. th'[t] = [Idle EXCEPT !.pc = "setsockopt", !.call = "Create", !.obj = o, !.reg = g]
        BY <1>1, <2>2
      <3>2. Idle \in ThreadStates
        BY IdleState DEF OKState
      <3>3. ~WasTold(th'[t])
        BY <3>1, <3>2 DEF ThreadStates, WasTold
      <3> QED BY <1>1, <2>2, <3>3
    <2> QED BY <2>1, <2>2 DEF Create
  <1>3. PICK h \in Handles, j \in Ids :
           /\ table[h] = 0 /\ table' = [table EXCEPT ![h] = j] /\ sk[j].kind = "none"
           /\ \A k \in Ids : k # j => sk'[k] = sk[k]
    BY <1>1 DEF Create, NewSocket, KernelTypes
  <1>5. ASSUME NEW u \in Threads, mult, ~foreign', WasTold(th'[u]), ~th'[u].disturbed
        PROVE  /\ th'[u].reg = th[u].reg /\ WasTold(th[u]) /\ ~th[u].disturbed
               /\ th[u].reg # INVALID => Stays(th[u].reg)
    <2>1. th'[u] = th[u] /\ ~foreign
      BY <1>2, <1>5
    <2>2. ASSUME th[u].reg # INVALID
          PROVE  Stays(th[u].reg)
      <3>1. PICK g \in Handles : g = th[u].reg /\ table[g] \in Ids /\ table[g] # 0
        BY <1>5, <2>1, <2>2, ToldMine
      <3>3. table[g] # j /\ g # h
        BY <1>1, <1>3, <3>1 DEF Kernel, Open
      <3>4. sk'[table[g]] = sk[table[g]] /\ table'[g] = table[g]
        BY <1>1, <1>3, <3>1, <3>3 DEF KernelTypes
      <3> QED BY <3>1, <3>4 DEF Stays, Ready
    <2> QED BY <1>5, <2>1, <2>2
  <1> QED BY <1>2, <1>5, FedStep

\* closesocket: a handle that is closed is no longer one that recv waits at.
LEMMA CloseSocketFed ==
  ASSUME LInv, RInv, Fed, OInv, NEW t \in Threads, CloseSocket(t)
  PROVE  Fed'
  <1>1. Members /\ KernelTypes /\ Shape /\ th \in [Threads -> ThreadStates] /\ Kernel
    BY DEF LInv, ThreadsRight, Shape, OInv
  <1>2. /\ th'[t].pc = "clear"
        /\ \A u \in Threads : u # t => Alike(th'[u], th[u])
        /\ \A u \in Threads : u # t => (th'[u].disturbed <=> th[u].disturbed \/ Disturbs(t, u))
    BY <1>1, CloseSocketThreads
  <1>3. ~WasTold(th'[t]) /\ mult' = mult
    BY <1>2 DEF WasTold, CloseSocket
  <1>4. PICK h :
          \/ UNCHANGED <<table, sk, foreign>>
          \/ /\ h \in Handles /\ table[h] \in Ids /\ table' = [table EXCEPT ![h] = 0]
             /\ \A j \in Ids : j # table[h] => sk'[j] = sk[j]
             /\ Touch(h, th[t].obj)
    <2>1. PICK h \in {th[t].reg, m_hSocket[th[t].obj]} :
             IF Named(h) = 0
             THEN UNCHANGED <<kernel, foreign>>
             ELSE /\ table' = [table EXCEPT ![h] = 0]
                  /\ sk' = [sk EXCEPT ![Named(h)] = ClosedSocket]
                  /\ Touch(h, th[t].obj)
      BY DEF CloseSocket
    <2>2. h \in Handles \cup {INVALID}
      BY <1>1, <2>1, ThreadReg, ThreadObject, NamedMember DEF CloseSocket, At
    <2>3. Named(h) # 0 => h \in Handles /\ table[h] \in Ids /\ Named(h) = table[h]
      BY <1>1, <2>2, NamedType
    <2> QED BY <1>1, <2>1, <2>3 DEF kernel, KernelTypes
  <1>5. ASSUME NEW u \in Threads, mult, ~foreign', WasTold(th'[u]), ~th'[u].disturbed
        PROVE  /\ th'[u].reg = th[u].reg /\ WasTold(th[u]) /\ ~th[u].disturbed
               /\ th[u].reg # INVALID => Stays(th[u].reg)
    <2>1. u # t /\ th'[u].reg = th[u].reg /\ WasTold(th[u]) /\ ~th[u].disturbed
      BY <1>2, <1>3, <1>5 DEF Alike, WasTold
    <2>2. ~foreign
      BY <1>4, <1>5, TouchMeans
    <2>3. ASSUME th[u].reg # INVALID
          PROVE  Stays(th[u].reg)
      <3>1. PICK g \in Handles : g = th[u].reg /\ table[g] \in Ids /\ table[g] # 0
        BY <1>5, <2>1, <2>2, <2>3, ToldMine
      <3>2. CASE UNCHANGED <<table, sk, foreign>>
        BY <3>1, <3>2 DEF Stays, Ready
      <3>3. CASE /\ h \in Handles /\ table[h] \in Ids /\ table' = [table EXCEPT ![h] = 0]
                 /\ \A j \in Ids : j # table[h] => sk'[j] = sk[j]
        <4>1. CASE g = h
          BY <1>1, <3>1, <3>3, <4>1 DEF Stays, KernelTypes
        <4>2. CASE g # h
          <5>1. table[g] # table[h] /\ table'[g] = table[g]
            BY <1>1, <3>1, <3>3, <4>2 DEF Kernel, KernelTypes
          <5> QED BY <3>1, <3>3, <5>1 DEF Stays, Ready
        <4> QED BY <4>1, <4>2
      <3> QED BY <1>4, <3>2, <3>3
    <2> QED BY <2>1, <2>3
  <1>6. foreign => foreign'
    BY <1>4, TouchMeans
  <1> QED BY <1>3, <1>5, <1>6, FedStep

\* The store of line 46.
LEMMA ClearFed ==
  ASSUME LInv, Fed, NEW t \in Threads, Clear(t)
  PROVE  Fed'
  <1>1. KernelTypes /\ Shape /\ th \in [Threads -> ThreadStates] /\ ReadyKept /\ UNCHANGED <<mult, foreign>>
    BY ReadyUnchanged DEF LInv, ThreadsRight, Shape, Clear, history
  <1>2. /\ th'[t].pc = "close"
        /\ \A u \in Threads : u # t => Alike(th'[u], th[u])
        /\ \A u \in Threads : u # t => (th'[u].disturbed <=> th[u].disturbed \/ Disturbs(t, u))
    BY <1>1, ClearThreads
  <1>5. \A u \in Threads : WasTold(th'[u]) /\ ~th'[u].disturbed =>
           th'[u].reg = th[u].reg /\ WasTold(th[u]) /\ ~th[u].disturbed
    BY <1>2 DEF Alike, WasTold
  <1>6. \A u \in Threads : th[u].reg # INVALID => Stays(th[u].reg)
    BY <1>1, ThreadReg, StaysReady
  <1> QED BY <1>1, <1>5, <1>6, FedStep

\* Every step keeps what the threads were told true.
LEMMA FedInvStep == ASSUME LInv, OInv, RInv, Fed, [Next]_vars PROVE Fed'
  <1> USE DEF At, object, kernel, history
  <1>0. LInv /\ OInv /\ RInv /\ Fed /\ Members /\ KernelTypes /\ Shape /\ th \in [Threads -> ThreadStates]
    BY DEF LInv, ThreadsRight, Shape
  <1>1. ASSUME NEW i \in Ids, Arrive(i)
       PROVE  Fed'
    BY <1>0, <1>1, ReadyArrive, FedStill DEF Arrive
  <1>2. ASSUME NEW i \in Ids, PeerEnds(i)
       PROVE  Fed'
    BY <1>0, <1>2, ReadyArrive, FedStill DEF PeerEnds
  <1>3. ASSUME NEW t \in Threads, NEW o \in Objects, New(t, o)
       PROVE  Fed'
    BY <1>0, <1>3, ReadyUnchanged, FedStill DEF New
  <1>4. ASSUME NEW t \in Threads, NEW o \in Objects, NEW b \in BOOLEAN, NewAs(t, o, b)
       PROVE  Fed'
    BY <1>0, <1>4, ReadyUnchanged, FedStill DEF NewAs
  <1>5. ASSUME NEW t \in Threads, NEW o \in Objects, NEW f \in Locked, CallLocked(t, f, o)
       PROVE  Fed'
    <2> DEFINE s == [Idle EXCEPT !.pc = "lock", !.call = f, !.obj = o, !.target = Nothing, !.reg = INVALID]
    <2>1. th' = [th EXCEPT ![t] = s] /\ th[t] \in ThreadStates
      BY <1>0, <1>5 DEF CallLocked, Enter, GoClose
    <2>2. ~WasTold(s)
      BY <2>1 DEF ThreadStates, WasTold, Idle
    <2> HIDE DEF s
    <2> QED BY <1>0, <1>5, <2>1, <2>2, ReadyUnchanged, FedMove DEF CallLocked
  <1>6. ASSUME NEW t \in Threads, NEW o \in Objects, NEW c \in Objects, CallAccept(t, o, c)
       PROVE  Fed'
    <2> DEFINE s == [Idle EXCEPT !.pc = "lock", !.call = "Accept", !.obj = o, !.target = c, !.reg = INVALID]
    <2>1. th' = [th EXCEPT ![t] = s] /\ th[t] \in ThreadStates
      BY <1>0, <1>6 DEF CallAccept, Enter, GoClose
    <2>2. ~WasTold(s)
      BY <2>1 DEF ThreadStates, WasTold, Idle
    <2> HIDE DEF s
    <2> QED BY <1>0, <1>6, <2>1, <2>2, ReadyUnchanged, FedMove DEF CallAccept
  <1>7. ASSUME NEW t \in Threads, NEW o \in Objects, NEW f \in {"Close", "delete"}, CallClose(t, o, f)
       PROVE  Fed'
    <2> DEFINE s == [Idle EXCEPT !.pc = "close", !.call = f, !.obj = o, !.closes = 1]
    <2>1. th' = [th EXCEPT ![t] = s] /\ th[t] \in ThreadStates
      BY <1>0, <1>7 DEF CallClose, Enter, GoClose
    <2>2. ~WasTold(s)
      BY <2>1 DEF ThreadStates, WasTold, Idle
    <2> HIDE DEF s
    <2> QED BY <1>0, <1>7, <2>1, <2>2, ReadyUnchanged, FedMove DEF CallClose
  <1>8. ASSUME NEW t \in Threads, NEW o \in Objects, Create(t, o)
       PROVE  Fed'
    BY <1>0, <1>8, CreateFed
  <1>9. ASSUME NEW t \in Threads, NEW o \in Objects, CreateFails(t, o)
       PROVE  Fed'
    BY <1>0, <1>9, ReadyUnchanged, FedStill DEF CreateFails
  <1>10. ASSUME NEW t \in Threads, NEW o \in Objects, CallBind(t, o)
       PROVE  Fed'
    <2> DEFINE s == [Idle EXCEPT !.pc = "bind", !.call = "Bind", !.obj = o, !.target = Nothing, !.reg = m_hSocket[o]]
    <2>1. th' = [th EXCEPT ![t] = s] /\ th[t] \in ThreadStates
      BY <1>0, <1>10 DEF CallBind, Enter, GoClose
    <2>2. ~WasTold(s)
      BY <2>1 DEF ThreadStates, WasTold, Idle
    <2> HIDE DEF s
    <2> QED BY <1>0, <1>10, <2>1, <2>2, ReadyUnchanged, FedMove DEF CallBind
  <1>11. ASSUME NEW t \in Threads, NEW o \in Objects, Listen(t, o)
       PROVE  Fed'
    BY <1>0, <1>11, ReadyTweaks, FedStill DEF Listen
  <1>12. ASSUME NEW t \in Threads, NEW o \in Objects, NEW flag \in BOOLEAN, SetNonBlockingMode(t, o, flag)
       PROVE  Fed'
    BY <1>0, <1>12, ReadyTweaks, FedStill DEF SetNonBlockingMode
  <1>13. ASSUME NEW t \in Threads, TakeLock(t)
       PROVE  Fed'
    <2> DEFINE s == [th[t] EXCEPT !.pc = First(th[t].call), !.reg = m_hSocket[th[t].obj],
                                  !.disturbed = HalfClosed(t)]
    <2>1. th' = [th EXCEPT ![t] = s] /\ th[t] \in ThreadStates
      BY <1>0, <1>13 DEF TakeLock, Enter, GoClose
    <2>2. ~WasTold(s)
      <3>1. th[t].call \in Locked
        BY <1>0, <1>13 DEF TakeLock, Shape, OKState, InCall
      <3>2. s.pc = First(th[t].call) /\ s.call = th[t].call
        BY <2>1 DEF ThreadStates
      <3> QED BY <3>1, <3>2 DEF First, Locked, WasTold
    <2> HIDE DEF s
    <2> QED BY <1>0, <1>13, <2>1, <2>2, ReadyUnchanged, FedMove DEF TakeLock
  <1>14. ASSUME NEW t \in Threads, CloseReturns(t)
       PROVE  Fed'
    <2>1. th' = [th EXCEPT ![t] = Idle] /\ UNCHANGED <<mult, foreign>>
      BY <1>14 DEF CloseReturns, Return
    <2> QED BY <1>0, <1>14, <2>1, ReadyUnchanged, IdleTold, FedMove DEF CloseReturns
  <1>15. ASSUME NEW t \in Threads, CloseTest(t)
       PROVE  Fed'
    <2> DEFINE s == IF m_hSocket[th[t].obj] = INVALID THEN [th[t] EXCEPT !.closes = @ - 1]
                    ELSE [th[t] EXCEPT !.pc = "closesocket", !.reg = m_hSocket[th[t].obj],
                                       !.disturbed = @ \/ HalfClosed(t)]
    <2>1. th' = [th EXCEPT ![t] = s] /\ th[t] \in ThreadStates
      BY <1>0, <1>15 DEF CloseTest, Enter, GoClose
    <2>2. ~WasTold(s)
      BY <1>15, <2>1 DEF CloseTest, ThreadStates, WasTold
    <2> HIDE DEF s
    <2> QED BY <1>0, <1>15, <2>1, <2>2, ReadyUnchanged, FedMove DEF CloseTest
  <1>16. ASSUME NEW t \in Threads, CloseSocket(t)
       PROVE  Fed'
    BY <1>0, <1>16, CloseSocketFed
  <1>17. ASSUME NEW t \in Threads, Clear(t)
       PROVE  Fed'
    BY <1>0, <1>17, ClearFed
  <1>18. ASSUME NEW t \in Threads, SetSockOpt(t)
       PROVE  Fed'
    <2>1. CASE Step(t, "bind")
      <3> DEFINE s == [th[t] EXCEPT !.pc = "bind", !.reg = m_hSocket[th[t].obj]]
      <3>1. th' = [th EXCEPT ![t] = s] /\ th[t] \in ThreadStates
        BY <1>0, <2>1 DEF Step
      <3>2. ~WasTold(s)
        BY <3>1 DEF ThreadStates, WasTold
      <3> HIDE DEF s
      <3> QED BY <1>0, <1>18, <3>1, <3>2, ReadyUnchanged, FedMove DEF SetSockOpt
    <2>2. CASE GoClose(t, 1)
      BY <1>0, <1>18, <2>2, ReadyUnchanged, GoCloseFed DEF SetSockOpt
    <2> QED BY <1>18, <2>1, <2>2 DEF SetSockOpt
  <1>19. ASSUME NEW t \in Threads, BindAddress(t)
       PROVE  Fed'
    <2>1. CASE th[t].call = "Create"
      BY <1>0, <1>19, <2>1, ReadyUnchanged, GoCloseFed DEF BindAddress
    <2>2. CASE th[t].call # "Create"
      BY <1>0, <1>19, <2>2, ReadyUnchanged, IdleTold, FedMove DEF BindAddress
    <2> QED BY <2>1, <2>2
  <1>20. ASSUME NEW t \in Threads, BindFails(t)
       PROVE  Fed'
    <2> DEFINE s == [th[t] EXCEPT !.pc = "close", !.closes = IF th[t].call = "Create" THEN 2 ELSE 1, !.reg = INVALID]
    <2>1. th' = [th EXCEPT ![t] = s] /\ th[t] \in ThreadStates
      BY <1>0, <1>20 DEF BindFails, Enter, GoClose
    <2>2. ~WasTold(s)
      BY <2>1 DEF ThreadStates, WasTold, Idle
    <2> HIDE DEF s
    <2> QED BY <1>0, <1>20, <2>1, <2>2, ReadyUnchanged, FedMove DEF BindFails
  <1>21. ASSUME NEW t \in Threads, BindSucceeds(t)
       PROVE  Fed'
    <2>1. th' = [th EXCEPT ![t] = Idle] /\ UNCHANGED <<mult, foreign>>
      BY <1>21 DEF BindSucceeds, Return
    <2> QED BY <1>0, <1>21, <2>1, ReadyTweaks, IdleTold, FedMove DEF BindSucceeds
  <1>22. ASSUME NEW t \in Threads, IoctlNothing(t)
       PROVE  Fed'
    <2>1. th' = [th EXCEPT ![t] = Idle] /\ UNCHANGED <<mult, foreign>>
      BY <1>22 DEF IoctlNothing, Return
    <2> QED BY <1>0, <1>22, <2>1, ReadyUnchanged, IdleTold, FedMove DEF IoctlNothing
  <1>23. ASSUME NEW t \in Threads, IoctlLength(t)
       PROVE  Fed'
    BY <1>0, <1>23, LoadFed
  <1>24. ASSUME NEW t \in Threads, Receives(t)
       PROVE  Fed'
    BY <1>0, <1>24, ReceivesFed
  <1>25. ASSUME NEW t \in Threads, SelectEnds(t)
       PROVE  Fed'
    <2>1. th' = [th EXCEPT ![t] = Idle] /\ UNCHANGED <<mult, foreign>>
      BY <1>25 DEF SelectEnds, Return
    <2> QED BY <1>0, <1>25, <2>1, ReadyUnchanged, IdleTold, FedMove DEF SelectEnds
  <1>26. ASSUME NEW t \in Threads, SelectReady(t)
       PROVE  Fed'
    BY <1>0, <1>26, LoadFed
  <1>27. ASSUME NEW t \in Threads, Sends(t)
       PROVE  Fed'
    <2>1. th' = [th EXCEPT ![t] = Idle] /\ UNCHANGED <<mult, foreign>>
      BY <1>27 DEF Sends, Return
    <2> QED BY <1>0, <1>27, <2>1, ReadyUnchanged, IdleTold, FedMove DEF Sends
  <1>28. ASSUME NEW t \in Threads, ConnectLookup(t)
       PROVE  Fed'
    <2>1. th' = [th EXCEPT ![t] = Idle] /\ UNCHANGED <<mult, foreign>>
      BY <1>28 DEF ConnectLookup, Return
    <2> QED BY <1>0, <1>28, <2>1, ReadyUnchanged, IdleTold, FedMove DEF ConnectLookup
  <1>29. ASSUME NEW t \in Threads, ConnectSucceeds(t)
       PROVE  Fed'
    <2>1. th' = [th EXCEPT ![t] = Idle] /\ UNCHANGED <<mult, foreign>>
      BY <1>29 DEF ConnectSucceeds, Return
    <2> QED BY <1>0, <1>29, <2>1, ReadyTweaks, IdleTold, FedMove DEF ConnectSucceeds
  <1>30. ASSUME NEW t \in Threads, ConnectFails(t)
       PROVE  Fed'
    <2> DEFINE s == [th[t] EXCEPT !.pc = "close", !.closes = 1, !.reg = INVALID]
    <2>1. th' = [th EXCEPT ![t] = s] /\ th[t] \in ThreadStates
      BY <1>0, <1>30 DEF ConnectFails, Enter, GoClose
    <2>2. ~WasTold(s)
      BY <2>1 DEF ThreadStates, WasTold, Idle
    <2> HIDE DEF s
    <2> QED BY <1>0, <1>30, <2>1, <2>2, ReadyUnchanged, FedMove DEF ConnectFails
  <1>31. ASSUME NEW t \in Threads, AcceptSucceeds(t)
       PROVE  Fed'
    BY <1>0, <1>31, AcceptFed
  <1>32. ASSUME NEW t \in Threads, AcceptFails(t)
       PROVE  Fed'
    <2>1. th' = [th EXCEPT ![t] = Idle] /\ UNCHANGED <<mult, foreign>>
      BY <1>32 DEF AcceptFails, Return
    <2> QED BY <1>0, <1>32, <2>1, ReadyUnchanged, IdleTold, FedMove DEF AcceptFails
  <1>33. CASE UNCHANGED vars
    BY <1>0, <1>33, ReadyUnchanged, FedStill DEF vars
  <1> QED BY <1>0, <1>1, <1>2, <1>3, <1>4, <1>5, <1>6, <1>7, <1>8, <1>9, <1>10, <1>11, <1>12, <1>13,
             <1>14, <1>15, <1>16, <1>17, <1>18, <1>19, <1>20, <1>21, <1>22, <1>23, <1>24, <1>25, <1>26,
             <1>27, <1>28, <1>29, <1>30, <1>31, <1>32, <1>33
      DEF Next, Continue, Call, Closing, Creating, Transfer, Connecting, Network

\* It is true initially.
LEMMA FedInit == Init => Fed
  BY DEF Init, Fed, WasTold, Idle

\* It implies that recv does not wait.
LEMMA FedHolds == LInv /\ Fed => ReceiveWontBlock
  <1> SUFFICES ASSUME LInv, Fed, NEW t \in Threads, mult, Undisturbed(t),
                      At(t, "recv") \/ (At(t, "recvfrom") /\ th[t].call = "TimedReceiveFrom"),
                      WouldBlock(th[t].reg)
               PROVE  FALSE
    BY DEF ReceiveWontBlock
  <1>1. Named(th[t].reg) # 0 /\ sk[Named(th[t].reg)].avail = 0 /\ sk[Named(th[t].reg)].kind # "over"
    BY DEF WouldBlock, Is
  <1>2. Ready(Named(th[t].reg))
    BY <1>1 DEF Fed, WasTold, At, Undisturbed
  <1> QED BY <1>1, <1>2 DEF Ready

-----------------------------------------------------------------------------
\* The whole invariant is kept.
LEMMA WholeStep ==
  LInv /\ OInv /\ RInv /\ Fed /\ [Next]_vars => (LInv /\ OInv /\ RInv /\ Fed)'
  BY LInvStep, OInvStep, RInvStep, FedInvStep

\* The VERIFY of line 45: closesocket finds a socket, and the object's own, in every thread that was
\* not disturbed, while nobody has reached the socket of another object.
THEOREM CloseFindsSocket == Spec => []CloseVerified
  BY WholeStep, LInvInit, OInvInit, RInvInit, FedInit, RInvHolds, PTL DEF Spec

\* Under the same conditions no function reaches another socket than its object's, although the
\* kernel hands out handle values again.
THEOREM HandleIsOwn == Spec => []SameSocket
  BY WholeStep, LInvInit, OInvInit, RInvInit, FedInit, RInvHolds, PTL DEF Spec

\* With MULT_THREAD and under the same conditions a thread that FIONREAD or select told that there
\* is data does not wait in the recv that follows.
THEOREM ToldMeansData == Spec => []ReceiveWontBlock
  BY WholeStep, LInvInit, OInvInit, RInvInit, FedInit, FedHolds, PTL DEF Spec
=============================================================================
