-------------------------- MODULE InlineHook_proofs --------------------------
(***************************************************************************)
(* Proofs about InlineHook, for any number of threads and of objects of    *)
(* both classes.                                                           *)
(*                                                                         *)
(* Each object knows only the bytes it found.  The argument is that these  *)
(* are what the objects below it in the stack would show: the jump of the  *)
(* newest one that is switched on (Chain).  The bytes of the function are  *)
(* what the whole stack shows whenever no thread is at work on them        *)
(* (Settled).  While threads are in the hook procedure of a CAPIHook the   *)
(* first bytes are its jump, or what it saved, and in the second case one  *)
(* of the threads will still write the jump (Mixed); a CHookClass has one  *)
(* thread at a time at work, and its flag tells which of the two it is     *)
(* (Turning).                                                              *)
(***************************************************************************)
EXTENDS InlineHook, SequenceTheorems, TLAPS

-----------------------------------------------------------------------------
(* The objects as a stack. *)

Elems(s)      == {s[i] : i \in 1 .. Len(s)}

\* x is newer than y.
Over(s, x, y) == \E i, j \in 1 .. Len(s) : i < j /\ s[i] = x /\ s[j] = y
Under(s, o)   == {x \in Elems(s) : Over(s, o, x)}

Stacks == {s \in Seq(Hooks) : IsInjective(s)}

LEMMA Distinct ==
  ASSUME NEW s \in Stacks, NEW i \in 1 .. Len(s), NEW j \in 1 .. Len(s), s[i] = s[j]
  PROVE  i = j
  BY DEF Stacks, IsInjective

\* Newer-than is an order on the objects.
LEMMA Order ==
  ASSUME NEW s \in Stacks
  PROVE  /\ \A x, y : Over(s, x, y) => x \in Elems(s) /\ y \in Elems(s) /\ x # y
         /\ \A x, y : Over(s, x, y) => ~Over(s, y, x)
         /\ \A x, y, z : Over(s, x, y) /\ Over(s, y, z) => Over(s, x, z)
         /\ \A x, y \in Elems(s) : x = y \/ Over(s, x, y) \/ Over(s, y, x)
  <1>1. s \in Seq(Hooks) /\ Len(s) \in Nat
    BY DEF Stacks
  <1>2. ASSUME NEW x, NEW y, Over(s, x, y)
        PROVE  x \in Elems(s) /\ y \in Elems(s) /\ x # y
    <2>1. PICK i, j \in 1 .. Len(s) : i < j /\ s[i] = x /\ s[j] = y
      BY <1>2 DEF Over
    <2>2. i # j
      BY <1>1, <2>1
    <2> QED
      BY <2>1, <2>2, Distinct DEF Elems
  <1>3. ASSUME NEW x, NEW y, NEW z, Over(s, x, y), Over(s, y, z)
        PROVE  Over(s, x, z)
    <2>1. PICK i, j \in 1 .. Len(s) : i < j /\ s[i] = x /\ s[j] = y
      BY <1>3 DEF Over
    <2>2. PICK k, l \in 1 .. Len(s) : k < l /\ s[k] = y /\ s[l] = z
      BY <1>3 DEF Over
    <2>3. j = k
      BY <2>1, <2>2, Distinct
    <2>4. i < l
      BY <1>1, <2>1, <2>2, <2>3
    <2> QED
      BY <2>1, <2>2, <2>4 DEF Over
  <1>4. ASSUME NEW x, NEW y, Over(s, x, y), Over(s, y, x)
        PROVE  FALSE
    BY <1>2, <1>3, <1>4
  <1>5. ASSUME NEW x \in Elems(s), NEW y \in Elems(s)
        PROVE  x = y \/ Over(s, x, y) \/ Over(s, y, x)
    <2>1. PICK i, j \in 1 .. Len(s) : s[i] = x /\ s[j] = y
      BY DEF Elems
    <2>2. i = j \/ i < j \/ j < i
      BY <1>1
    <2> QED
      BY <2>1, <2>2 DEF Over
  <1> QED
    BY <1>2, <1>3, <1>4, <1>5

\* Nothing is over the first object.
LEMMA Newest1 ==
  ASSUME NEW s \in Stacks, Elems(s) # {}
  PROVE  s[1] \in Elems(s) /\ \A x : ~Over(s, x, s[1])
  <1>1. s \in Seq(Hooks) /\ Len(s) \in Nat
    BY DEF Stacks
  <1>2. 1 \in 1 .. Len(s)
    BY <1>1 DEF Elems
  <1>3. ASSUME NEW x, Over(s, x, s[1])
        PROVE  FALSE
    <2>1. PICK i, j \in 1 .. Len(s) : i < j /\ s[i] = x /\ s[j] = s[1]
      BY <1>3 DEF Over
    <2>2. j = 1
      BY <1>2, <2>1, Distinct
    <2> QED
      BY <1>1, <2>1, <2>2
  <1> QED
    BY <1>2, <1>3 DEF Elems

\* A new object is over all others.
Pushes(s, o, s2) == s \in Stacks /\ o \in Hooks \ Elems(s) /\ s2 = <<o>> \o s

LEMMA Push ==
  ASSUME NEW s, NEW o, NEW s2, Pushes(s, o, s2)
  PROVE  /\ s2 \in Stacks /\ Elems(s2) = Elems(s) \cup {o} /\ s2[1] = o
         /\ \A x, y : Over(s2, x, y) <=> Over(s, x, y) \/ (x = o /\ y \in Elems(s))
  <1> USE DEF Pushes
  <1>1. s \in Seq(Hooks) /\ Len(s) \in Nat
    BY DEF Stacks
  <1>2. /\ s2 \in Seq(Hooks) /\ Len(s2) = Len(s) + 1 /\ s2[1] = o
        /\ \A i \in 1 .. Len(s) : s2[i + 1] = s[i]
    BY <1>1
  <1>3. \A i \in 1 .. Len(s) : s[i] # o
    BY DEF Elems
  <1>4. \A i \in 1 .. Len(s2) : i = 1 \/ (i - 1 \in 1 .. Len(s) /\ s2[i] = s[i - 1])
    <2>1. ASSUME NEW i \in 1 .. Len(s2), i # 1
          PROVE  i - 1 \in 1 .. Len(s) /\ s2[i] = s[i - 1]
      <3>1. i - 1 \in 1 .. Len(s) /\ (i - 1) + 1 = i
        BY <1>1, <1>2, <2>1
      <3> QED
        BY <1>2, <3>1
    <2> QED
      BY <2>1
  <1>5. IsInjective(s2)
    <2>1. ASSUME NEW i \in 1 .. Len(s2), NEW j \in 1 .. Len(s2), s2[i] = s2[j]
          PROVE  i = j
      <3>1. CASE i = 1 /\ j = 1
        BY <3>1
      <3>2. CASE (i = 1) # (j = 1)
        BY <1>2, <1>3, <1>4, <2>1, <3>2
      <3>3. CASE i # 1 /\ j # 1
        <4>1. i - 1 = j - 1
          BY <1>4, <2>1, <3>3, Distinct
        <4> QED
          BY <1>2, <4>1
      <3> QED
        BY <3>1, <3>2, <3>3
    <2>2. DOMAIN s2 = 1 .. Len(s2)
      BY <1>2
    <2> QED
      BY <2>1, <2>2 DEF IsInjective
  <1>6. \A i \in 1 .. Len(s) : i + 1 \in 1 .. Len(s2)
    BY <1>1, <1>2
  <1>7. 1 \in 1 .. Len(s2)
    BY <1>1, <1>2
  <1>8. Elems(s2) = Elems(s) \cup {o}
    <2>1. ASSUME NEW x \in Elems(s2)
          PROVE  x \in Elems(s) \cup {o}
      BY <1>2, <1>4 DEF Elems
    <2>2. ASSUME NEW x \in Elems(s)
          PROVE  x \in Elems(s2)
      BY <1>2, <1>6 DEF Elems
    <2>3. o \in Elems(s2)
      BY <1>2, <1>7 DEF Elems
    <2> QED
      BY <2>1, <2>2, <2>3
  <1>9. ASSUME NEW x, NEW y, Over(s2, x, y)
        PROVE  Over(s, x, y) \/ (x = o /\ y \in Elems(s))
    <2>1. PICK i, j \in 1 .. Len(s2) : i < j /\ s2[i] = x /\ s2[j] = y
      BY <1>9 DEF Over
    <2>2. j # 1 /\ j - 1 \in 1 .. Len(s) /\ s[j - 1] = y
      <3>1. j # 1
        BY <1>2, <2>1
      <3> QED
        BY <1>4, <2>1, <3>1
    <2>3. CASE i = 1
      BY <1>2, <2>1, <2>2, <2>3 DEF Elems
    <2>4. CASE i # 1
      <3>1. i - 1 \in 1 .. Len(s) /\ s[i - 1] = x
        BY <1>4, <2>1, <2>4
      <3>2. i - 1 < j - 1
        BY <1>2, <2>1
      <3> QED
        BY <2>2, <3>1, <3>2 DEF Over
    <2> QED
      BY <2>3, <2>4
  <1>10. ASSUME NEW x, NEW y, Over(s, x, y)
         PROVE  Over(s2, x, y)
    <2>1. PICK i, j \in 1 .. Len(s) : i < j /\ s[i] = x /\ s[j] = y
      BY <1>10 DEF Over
    <2>2. i + 1 < j + 1
      BY <1>1, <2>1
    <2> QED
      BY <1>2, <1>6, <2>1, <2>2 DEF Over
  <1>11. ASSUME NEW y \in Elems(s)
         PROVE  Over(s2, o, y)
    <2>1. PICK j \in 1 .. Len(s) : s[j] = y
      BY DEF Elems
    <2>2. 1 < j + 1
      BY <1>1
    <2> QED
      BY <1>2, <1>6, <1>7, <2>1, <2>2 DEF Over
  <1> QED
    BY <1>2, <1>5, <1>8, <1>9, <1>10, <1>11 DEF Stacks

\* What RemoveAt leaves.
LEMMA RemovedAt ==
  ASSUME NEW s \in Seq(Hooks), NEW i \in 1 .. Len(s), NEW s2, s2 = RemoveAt(s, i)
  PROVE  /\ s2 \in Seq(Hooks) /\ Len(s2) = Len(s) - 1
         /\ \A j \in 1 .. Len(s) - 1 : s2[j] = IF j < i THEN s[j] ELSE s[j + 1]
  <1> DEFINE a == SubSeq(s, 1, i - 1)
             b == SubSeq(s, i + 1, Len(s))
  <1>1. /\ a \in Seq(Hooks) /\ Len(a) = i - 1
        /\ \A j \in 1 .. i - 1 : a[j] = s[j]
    OBVIOUS
  <1>2. /\ b \in Seq(Hooks) /\ Len(b) = Len(s) - i
        /\ \A j \in 1 .. Len(s) - i : b[j] = s[i + j]
    OBVIOUS
  <1>3. s2 = a \o b
    BY DEF RemoveAt
  <1> HIDE DEF a, b
  <1>4. s2 \in Seq(Hooks) /\ Len(s2) = Len(s) - 1
    <2>1. s2 \in Seq(Hooks) /\ Len(s2) = Len(a) + Len(b)
      BY <1>1, <1>2, <1>3, ConcatProperties
    <2> QED
      BY <2>1, <1>1, <1>2
  <1>5. ASSUME NEW j \in 1 .. Len(s) - 1
        PROVE  s2[j] = IF j < i THEN s[j] ELSE s[j + 1]
    <2>1. s2[j] = IF j <= Len(a) THEN a[j] ELSE b[j - Len(a)]
      BY <1>1, <1>2, <1>3, ConcatProperties, SMTT(40)
    <2>2. CASE j < i
      <3>1. j <= Len(a) /\ j \in 1 .. i - 1
        BY <1>1, <2>2
      <3> QED
        BY <1>1, <2>1, <2>2, <3>1
    <2>3. CASE ~(j < i)
      <3>1. ~(j <= Len(a)) /\ j - Len(a) \in 1 .. Len(s) - i /\ i + (j - Len(a)) = j + 1
        BY <1>1, <2>3
      <3>2. b[j - Len(a)] = s[j + 1]
        BY <1>2, <3>1
      <3> QED
        BY <2>1, <2>3, <3>1, <3>2
    <2> QED
      BY <2>2, <2>3
  <1> QED
    BY <1>4, <1>5

\* A destroyed object leaves the others in their order.
LEMMA Drop ==
  ASSUME NEW s \in Stacks, NEW o \in Elems(s), NEW s2, s2 = RemoveFirst(s, o)
  PROVE  /\ s2 \in Stacks /\ Elems(s2) = Elems(s) \ {o}
         /\ \A x, y : Over(s2, x, y) <=> Over(s, x, y) /\ x # o /\ y # o
  <1>1. s \in Seq(Hooks) /\ Len(s) \in Nat
    BY DEF Stacks
  <1>2. PICK k \in 1 .. Len(s) : s[k] = o
    BY DEF Elems
  <1>3. \A j \in 1 .. Len(s) : s[j] = o => j = k
    BY <1>2, Distinct
  <1>4. s2 = RemoveAt(s, k)
    <2>1. {j \in 1 .. Len(s) : s[j] = o} = {k}
      BY <1>2, <1>3
    <2>2. Min({k}) = k
      BY <1>1 DEF Min
    <2>3. SelectInSeq(s, LAMBDA v : v = o) = k
      BY <2>1, <2>2 DEF SelectInSeq
    <2> QED
      BY <1>2, <2>3 DEF RemoveFirst
  <1>5. /\ s2 \in Seq(Hooks) /\ Len(s2) = Len(s) - 1
        /\ \A j \in 1 .. Len(s) - 1 : s2[j] = IF j < k THEN s[j] ELSE s[j + 1]
    BY <1>1, <1>4, RemovedAt
  <1> DEFINE at(j)   == IF j < k THEN j ELSE j + 1
             from(j) == IF j < k THEN j ELSE j - 1
  <1>6. \A j \in 1 .. Len(s2) : at(j) \in 1 .. Len(s) /\ s2[j] = s[at(j)] /\ at(j) # k
    BY <1>1, <1>5
  <1>7. \A i, j \in 1 .. Len(s2) : (i < j <=> at(i) < at(j)) /\ (at(i) = at(j) => i = j)
    BY <1>1, <1>5
  <1>8. \A j \in 1 .. Len(s) : j # k => from(j) \in 1 .. Len(s2) /\ at(from(j)) = j
    BY <1>1, <1>5
  <1> HIDE DEF at, from
  <1>9. IsInjective(s2)
    <2>1. ASSUME NEW i \in 1 .. Len(s2), NEW j \in 1 .. Len(s2), s2[i] = s2[j]
          PROVE  i = j
      <3>1. at(i) = at(j)
        BY <1>6, <2>1, Distinct
      <3> QED
        BY <1>7, <3>1
    <2>2. DOMAIN s2 = 1 .. Len(s2)
      BY <1>5
    <2> QED
      BY <2>1, <2>2 DEF IsInjective
  <1>10. Elems(s2) = Elems(s) \ {o}
    <2>1. ASSUME NEW x \in Elems(s2)
          PROVE  x \in Elems(s) /\ x # o
      BY <1>3, <1>6 DEF Elems
    <2>2. ASSUME NEW x \in Elems(s), x # o
          PROVE  x \in Elems(s2)
      <3>1. PICK j \in 1 .. Len(s) : s[j] = x
        BY DEF Elems
      <3>2. s2[from(j)] = x /\ from(j) \in 1 .. Len(s2)
        BY <1>2, <1>6, <1>8, <2>2, <3>1
      <3> QED
        BY <3>2 DEF Elems
    <2> QED
      BY <2>1, <2>2
  <1>11. ASSUME NEW x, NEW y, Over(s2, x, y)
         PROVE  Over(s, x, y) /\ x # o /\ y # o
    <2>1. PICK i, j \in 1 .. Len(s2) : i < j /\ s2[i] = x /\ s2[j] = y
      BY <1>11 DEF Over
    <2>2. at(i) < at(j) /\ s[at(i)] = x /\ s[at(j)] = y
      BY <1>6, <1>7, <2>1
    <2> QED
      BY <1>3, <1>6, <2>1, <2>2 DEF Over
  <1>12. ASSUME NEW x, NEW y, Over(s, x, y), x # o, y # o
         PROVE  Over(s2, x, y)
    <2>1. PICK i, j \in 1 .. Len(s) : i < j /\ s[i] = x /\ s[j] = y
      BY <1>12 DEF Over
    <2>2. i # k /\ j # k
      BY <1>2, <1>12, <2>1
    <2>3. from(i) < from(j) /\ s2[from(i)] = x /\ s2[from(j)] = y
      BY <1>6, <1>7, <1>8, <2>1, <2>2
    <2> QED
      BY <1>8, <2>1, <2>2, <2>3 DEF Over
  <1> QED
    BY <1>5, <1>9, <1>10, <1>11, <1>12 DEF Stacks

-----------------------------------------------------------------------------
(* What a part S of the stack s shows when the objects in A are switched on. *)

HeadOf(h, S, s, A) ==
  \/ h = Orig /\ S \cap A = {}
  \/ h \in S \cap A /\ \A x \in S \cap A : x = h \/ Over(s, h, x)
TailOf(b, S, A) == b = IF S \cap A \cap Api = {} THEN Orig ELSE "jmp"

\* It depends on those only that are switched on, and on their order.
LEMMA HeadSame ==
  ASSUME NEW s, NEW s2, NEW S, NEW S2, NEW A, NEW A2, S2 \cap A2 = S \cap A,
         \A x, y \in S \cap A : Over(s, x, y) => Over(s2, x, y),
         NEW h, HeadOf(h, S, s, A)
  PROVE  HeadOf(h, S2, s2, A2)
  BY DEF HeadOf

LEMMA TailSame ==
  ASSUME NEW S, NEW S2, NEW A, NEW A2, S2 \cap A2 \cap Api = S \cap A \cap Api, NEW b, TailOf(b, S, A)
  PROVE  TailOf(b, S2, A2)
  BY DEF TailOf

\* Nothing over o is switched on: o shows if it is, otherwise what is under it.
LEMMA HeadTop ==
  ASSUME NEW s \in Stacks, NEW A, NEW o \in Elems(s) \cap A, \A x \in Elems(s) : Over(s, x, o) => x \notin A
  PROVE  HeadOf(o, Elems(s), s, A)
  BY Order DEF HeadOf


-----------------------------------------------------------------------------
(* The types. *)

\* Where thread t can be in an operation: only Main creates, destroys and switches, the workers
\* are in the hook procedure.
Position(t, s) ==
  /\ s.pc = "out" => s = Out
  /\ s.pc = "wild" => t # Main /\ s.op = "none" /\ ~s.inside /\ s.obj = Orig
  /\ s.pc = "inner" => t # Main /\ s.op = "off" /\ s.inside /\ s.obj \in Hooks
  /\ s.pc \in {"test", "head", "tail", "flag"} =>
       /\ s.obj \in Hooks /\ s.op # "none" /\ (s.inside <=> t # Main)
       /\ s.op \in {"new", "delete"} => t = Main
       /\ s.op = "new" => s.obj \in Api
       /\ t = Main /\ s.op \in {"on", "off"} => s.obj \in Trap
  /\ s.pc \in {"test", "flag"} => s.obj \in Trap
  /\ s.pc = "tail" => s.obj \in Api

Positions == \A t \in Threads : Position(t, th[t])
MainLive  == Busy(Main) => th[Main].obj \in Live

PInv == TypeOK /\ Positions /\ MainLive

LEMMA LiveElems == Live = Elems(stack)
  BY DEF Live, Elems

LEMMA StackTyped == TypeOK => stack \in Stacks
  BY DEF TypeOK, Stacks

LEMMA OutState == Out \in ThreadStates /\ \A t \in Threads : Position(t, Out)
  BY DEF Out, ThreadStates, Labels, Position

\* Thread t goes to where it can be.
LEMMA Moves ==
  ASSUME PInv, NEW t \in Threads, NEW s \in ThreadStates, Position(t, s), th' = [th EXCEPT ![t] = s]
  PROVE  th' \in [Threads -> ThreadStates] /\ Positions'
  BY DEF PInv, TypeOK, Positions

\* An operation begins.
LEMMA Begins ==
  ASSUME PInv, NEW t \in Threads, NEW o \in Hooks, NEW op \in {"new", "delete", "on", "off"}, Begin(t, o, op),
         op \in {"new", "delete"} => t = Main, op = "new" => o \in Api,
         t = Main /\ op \in {"on", "off"} => o \in Trap,
         (th[t].inside <=> t # Main)
  PROVE  /\ th' \in [Threads -> ThreadStates] /\ Positions'
         /\ tangled' \in BOOLEAN /\ overlap' \subseteq Hooks
         /\ \A u \in Threads \ {t} : th'[u] = th[u]
         /\ th'[t].obj = o
  <1> DEFINE s == [th[t] EXCEPT !.pc = IF o \in Api THEN "head" ELSE "test", !.op = op, !.obj = o]
  <1>1. th[t] \in ThreadStates /\ th \in [Threads -> ThreadStates]
    BY DEF PInv, TypeOK
  <1>2. s \in ThreadStates /\ s.obj = o /\ s.op = op /\ s.inside = th[t].inside
        /\ s.pc = (IF o \in Api THEN "head" ELSE "test")
    BY <1>1 DEF ThreadStates, Labels
  <1>3. th' = [th EXCEPT ![t] = s]
    BY DEF Begin
  <1> HIDE DEF s
  <1>4. Position(t, s)
    BY <1>2 DEF Position, Hooks
  <1>5. th' \in [Threads -> ThreadStates] /\ Positions'
    BY <1>2, <1>3, <1>4, Moves
  <1>6. tangled' \in BOOLEAN /\ overlap' \subseteq Hooks
    <2>1. overlap \subseteq Hooks /\ tangled \in BOOLEAN
      BY DEF PInv, TypeOK
    <2>2. overlap' \subseteq Hooks
      BY <2>1 DEF Begin
    <2>3. tangled' \in BOOLEAN
      BY <2>1, Zenon DEF Begin
    <2> QED
      BY <2>2, <2>3
  <1> QED
    BY <1>1, <1>2, <1>3, <1>5, <1>6

\* An operation is over.
LEMMA Finishes ==
  ASSUME PInv, NEW t \in Threads, Busy(t), Finish(t)
  PROVE  /\ th' \in [Threads -> ThreadStates] /\ Positions'
         /\ \A u \in Threads \ {t} : th'[u] = th[u]
         /\ t = Main \/ th[t].op = "on" => th'[t] = Out
         /\ t # Main /\ th[t].op # "on" => th'[t] = [th[t] EXCEPT !.pc = "inner"]
         /\ ~Busy(t)'
  <1>1. th[t] \in ThreadStates /\ th \in [Threads -> ThreadStates] /\ Position(t, th[t])
    BY DEF PInv, TypeOK, Positions
  <1>2. (th[t].inside <=> t # Main) /\ (t # Main => th[t].op \in {"on", "off"}) /\ th[t].obj \in Hooks
    BY <1>1 DEF Position, Busy, ThreadStates
  <1>3. CASE t = Main \/ th[t].op = "on"
    <2>1. th' = [th EXCEPT ![t] = Out]
      BY <1>2, <1>3 DEF Finish
    <2>2. th'[t] = Out /\ \A u \in Threads \ {t} : th'[u] = th[u]
      BY <1>1, <2>1
    <2> QED
      BY <1>3, <2>1, <2>2, OutState, Moves DEF Busy, Out
  <1>4. CASE ~(t = Main \/ th[t].op = "on")
    <2> DEFINE s == [th[t] EXCEPT !.pc = "inner"]
    <2>1. th' = [th EXCEPT ![t] = s]
      BY <1>2, <1>4 DEF Finish
    <2>2. s \in ThreadStates /\ s.pc = "inner" /\ s.op = th[t].op /\ s.inside = th[t].inside /\ s.obj = th[t].obj
      BY <1>1 DEF ThreadStates, Labels
    <2> HIDE DEF s
    <2>3. Position(t, s)
      BY <1>2, <1>4, <2>2 DEF Position
    <2>4. th'[t] = s /\ \A u \in Threads \ {t} : th'[u] = th[u]
      BY <1>1, <2>1
    <2>5. th' \in [Threads -> ThreadStates] /\ Positions'
      BY <2>1, <2>2, <2>3, Moves
    <2>6. ~Busy(t)'
      BY <2>2, <2>4 DEF Busy
    <2> QED
      BY <1>4, <2>4, <2>5, <2>6 DEF s
  <1> QED
    BY <1>3, <1>4

\* The stack when an operation is over.
LEMMA Leaves ==
  ASSUME PInv, NEW t \in Threads, Busy(t), Leave(t)
  PROVE  /\ stack' \in Stacks
         /\ th[t].op # "delete" => stack' = stack
         /\ th[t].op = "delete" => /\ t = Main /\ th[t].obj \in Live
                                   /\ stack' = RemoveFirst(stack, th[t].obj)
                                   /\ Live' = Live \ {th[t].obj}
  <1>1. stack \in Stacks
    BY StackTyped DEF PInv
  <1>2. CASE th[t].op # "delete"
    BY <1>1, <1>2 DEF Leave
  <1>3. CASE th[t].op = "delete"
    <2>1. t = Main /\ th[t].obj \in Elems(stack)
      BY <1>3, LiveElems DEF PInv, Positions, Position, MainLive, Busy
    <2> DEFINE s2 == stack'
    <2>2. s2 = RemoveFirst(stack, th[t].obj)
      BY <1>3 DEF Leave
    <2>3. s2 \in Stacks /\ Elems(s2) = Elems(stack) \ {th[t].obj}
      <3> HIDE DEF s2
      <3> QED
        BY <1>1, <2>1, <2>2, Drop
    <2>4. Live' = Elems(s2)
      BY DEF Live, Elems
    <2> QED
      BY <1>3, <2>1, <2>2, <2>3, <2>4, LiveElems
  <1> QED
    BY <1>2, <1>3

\* Both at once.
LEMMA Over1 ==
  ASSUME PInv, NEW t \in Threads, Busy(t), Finish(t), Leave(t)
  PROVE  th' \in [Threads -> ThreadStates] /\ Positions' /\ MainLive' /\ stack' \in Stacks
  <1>1. th' \in [Threads -> ThreadStates] /\ Positions' /\ ~Busy(t)' /\ \A u \in Threads \ {t} : th'[u] = th[u]
    BY Finishes
  <1>2. stack' \in Stacks /\ (t # Main => stack' = stack)
    BY Leaves
  <1>3. MainLive'
    <2>1. CASE t = Main
      BY <1>1, <2>1 DEF MainLive
    <2>2. CASE t # Main
      <3>1. th'[Main] = th[Main] /\ stack' = stack
        BY <1>1, <1>2, <2>2 DEF Threads
      <3> QED
        BY <3>1 DEF PInv, MainLive, Busy, Live
    <2> QED
      BY <2>1, <2>2
  <1> QED
    BY <1>1, <1>2, <1>3

\* One thread goes on within its operation.
LEMMA GoesOn ==
  ASSUME PInv, NEW t \in Threads, Busy(t), NEW l \in {"head", "tail", "flag"},
         l = "tail" => th[t].obj \in Api, l = "flag" => th[t].obj \in Trap,
         th' = [th EXCEPT ![t].pc = l], stack' = stack
  PROVE  /\ th' \in [Threads -> ThreadStates] /\ Positions' /\ MainLive'
         /\ \A u \in Threads \ {t} : th'[u] = th[u]
         /\ th'[t].pc = l /\ th'[t].obj = th[t].obj /\ th'[t].op = th[t].op /\ th'[t].inside = th[t].inside
  <1>1. th[t] \in ThreadStates /\ th \in [Threads -> ThreadStates] /\ Position(t, th[t])
    BY DEF PInv, TypeOK, Positions
  <1> DEFINE s == [th[t] EXCEPT !.pc = l]
  <1>2. /\ s \in ThreadStates /\ s.pc = l /\ s.op = th[t].op /\ s.inside = th[t].inside
        /\ s.obj = th[t].obj
    BY <1>1 DEF ThreadStates, Labels
  <1>3. th' = [th EXCEPT ![t] = s]
    BY <1>1
  <1> HIDE DEF s
  <1>4. Position(t, s)
    BY <1>1, <1>2 DEF Position, Busy
  <1>5. th' \in [Threads -> ThreadStates] /\ Positions'
    BY <1>2, <1>3, <1>4, Moves
  <1>6. th'[t] = s /\ \A u \in Threads \ {t} : th'[u] = th[u]
    BY <1>1, <1>3
  <1>7. MainLive'
    <2>1. th'[Main].obj = th[Main].obj /\ (Busy(Main)' => Busy(Main))
      BY <1>2, <1>6 DEF Busy, Threads
    <2> QED
      BY <2>1 DEF PInv, MainLive, Live
  <1> QED
    BY <1>2, <1>5, <1>6, <1>7

\* Every step keeps the types.
LEMMA PNext == PInv /\ [Next]_vars => PInv'
  <1> SUFFICES ASSUME PInv, [Next]_vars
               PROVE  PInv'
    OBVIOUS
  <1> USE ConstantsAssumption
  <1>1. stack \in Stacks /\ TypeOK /\ Positions /\ MainLive
    BY StackTyped DEF PInv
  <1>2. Main \in Threads /\ Api \subseteq Hooks /\ Trap \subseteq Hooks /\ Workers \subseteq Threads
        /\ Main \notin Workers
    BY DEF Threads, Hooks
  <1>3. ASSUME stack' \in Stacks, th' \in [Threads -> ThreadStates], Positions', MainLive',
               head' \in Hooks \cup {Orig} /\ tail' \in {Orig, "jmp"} /\ executable' \in BOOLEAN /\ dep' \in BOOLEAN,
               m_pfnOrig' \in [Api -> BOOLEAN] /\ hProcess' \in [Trap -> BOOLEAN] /\ bTrapped' \in [Trap -> BOOLEAN],
               old' \in [Hooks -> [head : Hooks \cup {Orig}, tail : {Orig, "jmp"}]],
               created' \in 0 .. MaxObjects /\ tangled' \in BOOLEAN,
               overlap' \subseteq Hooks /\ failed' \subseteq Hooks
        PROVE  PInv'
    BY <1>3 DEF PInv, TypeOK, Stacks
  <1>4. th[Main] = Out => (th[Main].inside <=> Main # Main)
    BY DEF Out
  <1>5. ASSUME NEW o \in Hooks, Fresh(o)
        PROVE  o \notin Elems(stack) /\ created' \in 0 .. MaxObjects /\ th[Main] = Out
    BY <1>1, <1>5, LiveElems DEF Fresh, TypeOK
  <1>6. ASSUME NEW o \in Hooks, o \notin Elems(stack), stack' = <<o>> \o stack
        PROVE  stack' \in Stacks /\ Live' = Live \cup {o} /\ Live' = Elems(stack')
    <2> DEFINE s2 == stack'
    <2>1. Pushes(stack, o, s2)
      BY <1>1, <1>6 DEF Pushes
    <2>2. s2 \in Stacks /\ Elems(s2) = Elems(stack) \cup {o}
      <3> HIDE DEF s2
      <3> QED
        BY <2>1, Push
    <2> QED
      BY <2>2, LiveElems DEF Live, Elems
  <1>7. ASSUME NEW o \in Hooks, NewApi(o)
        PROVE  PInv'
    <2>1. Fresh(o) /\ o \in Api /\ stack' = <<o>> \o stack /\ Begin(Main, o, "new")
      BY <1>7 DEF NewApi
    <2>2. /\ th' \in [Threads -> ThreadStates] /\ Positions' /\ tangled' \in BOOLEAN /\ overlap' \subseteq Hooks
          /\ th'[Main].obj = o
      BY <1>2, <1>4, <1>5, <2>1, Begins
    <2>3. stack' \in Stacks /\ o \in Live' /\ created' \in 0 .. MaxObjects
      BY <1>5, <1>6, <2>1
    <2>4. MainLive'
      BY <2>2, <2>3 DEF MainLive
    <2>5. UNCHANGED <<head, tail, dep, hProcess, bTrapped, failed>> /\ executable' = FALSE
          /\ m_pfnOrig' = [m_pfnOrig EXCEPT ![o] = TRUE]
          /\ old' = [old EXCEPT ![o] = [head |-> head, tail |-> tail]]
      BY <1>7 DEF NewApi
    <2> QED
      BY <1>1, <1>3, <2>2, <2>3, <2>4, <2>5 DEF TypeOK
  <1>8. ASSUME th[Main] = Out, th' = th
        PROVE  th' \in [Threads -> ThreadStates] /\ Positions' /\ MainLive'
    BY <1>1, <1>8 DEF TypeOK, Positions, MainLive, Busy, Out
  <1>9. ASSUME NEW o \in Hooks, NewApiFails(o)
        PROVE  PInv'
    <2>1. Fresh(o) /\ o \in Api /\ stack' = <<o>> \o stack /\ th' = th
      BY <1>9 DEF NewApiFails
    <2>2. stack' \in Stacks /\ created' \in 0 .. MaxObjects /\ th[Main] = Out
      BY <1>5, <1>6, <2>1
    <2>3. UNCHANGED <<code, hProcess, old, bTrapped, th, tangled, overlap, failed>>
          /\ m_pfnOrig' = [m_pfnOrig EXCEPT ![o] = FALSE]
      BY <1>9 DEF NewApiFails
    <2> QED
      BY <1>1, <1>3, <1>8, <2>1, <2>2, <2>3 DEF TypeOK, code
  <1>10. ASSUME NEW o \in Hooks, NEW opened \in BOOLEAN, Create(o, opened)
         PROVE  PInv'
    <2>1. Fresh(o) /\ o \in Trap /\ stack' = <<o>> \o stack /\ th' = th
      BY <1>10 DEF Create
    <2>2. stack' \in Stacks /\ created' \in 0 .. MaxObjects /\ th[Main] = Out
      BY <1>5, <1>6, <2>1
    <2>3. UNCHANGED <<code, m_pfnOrig, th, overlap, failed>>
          /\ hProcess' = [hProcess EXCEPT ![o] = opened]
          /\ bTrapped' = [bTrapped EXCEPT ![o] = FALSE]
      BY <1>10 DEF Create
    <2>4. old' \in [Hooks -> [head : Hooks \cup {Orig}, tail : {Orig, "jmp"}]]
      <3>1. [head |-> head, tail |-> Orig] \in [head : Hooks \cup {Orig}, tail : {Orig, "jmp"}]
        BY <1>1 DEF TypeOK
      <3> QED
        BY <1>1, <1>10, <3>1 DEF Create, TypeOK
    <2>5. tangled' \in BOOLEAN
      <3>1. tangled \in BOOLEAN
        BY <1>1 DEF TypeOK
      <3> QED
        BY <1>10, <3>1, Zenon DEF Create
    <2> QED
      BY <1>1, <1>3, <1>8, <2>1, <2>2, <2>3, <2>4, <2>5 DEF TypeOK, code
  <1>21. ASSUME NEW o \in Hooks, CreateReadFails(o)
        PROVE  PInv'
    <2>1. Fresh(o) /\ o \in Trap /\ stack' = <<o>> \o stack /\ th' = th
      BY <1>21 DEF CreateReadFails
    <2>2. stack' \in Stacks /\ created' \in 0 .. MaxObjects /\ th[Main] = Out
      BY <1>5, <1>6, <2>1
    <2>3. UNCHANGED <<code, m_pfnOrig, th, tangled, overlap>>
          /\ hProcess' = [hProcess EXCEPT ![o] = TRUE]
          /\ bTrapped' = [bTrapped EXCEPT ![o] = FALSE]
          /\ failed' = failed \cup {o}
      BY <1>21 DEF CreateReadFails
    <2>4. old' \in [Hooks -> [head : Hooks \cup {Orig}, tail : {Orig, "jmp"}]]
      <3>1. PICK b \in Hooks \cup {Orig} : old' = [old EXCEPT ![o] = [head |-> b, tail |-> Orig]]
        <4>1. old[o].head \in Hooks \cup {Orig}
          BY <1>1 DEF TypeOK
        <4> QED
          BY <1>21, <4>1 DEF CreateReadFails, Hooks
      <3>2. [head |-> b, tail |-> Orig] \in [head : Hooks \cup {Orig}, tail : {Orig, "jmp"}]
        OBVIOUS
      <3> QED
        BY <1>1, <3>1, <3>2 DEF TypeOK
    <2>5. failed' \subseteq Hooks
      BY <1>1, <2>3 DEF TypeOK
    <2> QED
      BY <1>1, <1>3, <1>8, <2>1, <2>2, <2>3, <2>4, <2>5 DEF TypeOK, code
  <1>11. ASSUME NEW o \in Hooks, NEW op \in {"delete", "on", "off"}, th[Main] = Out, o \in Live,
                op # "delete" => o \in Trap, Begin(Main, o, op),
                UNCHANGED <<code, objects, created, failed>>
         PROVE  PInv'
    <2>1. /\ th' \in [Threads -> ThreadStates] /\ Positions' /\ tangled' \in BOOLEAN /\ overlap' \subseteq Hooks
          /\ th'[Main].obj = o
      BY <1>2, <1>4, <1>11, Begins
    <2>2. MainLive'
      BY <1>11, <2>1 DEF MainLive, objects, Live
    <2> QED
      BY <1>1, <1>3, <1>11, <2>1, <2>2 DEF TypeOK, code, objects
  <1>12. ASSUME NEW o \in Hooks, Delete(o)
         PROVE  PInv'
    BY <1>11, <1>12 DEF Delete
  <1>13. ASSUME NEW o \in Hooks, NEW op \in {"on", "off"}, Switch(o, op)
         PROVE  PInv'
    BY <1>11, <1>13 DEF Switch
  <1>14. ASSUME NEW o \in Hooks, DeleteInert(o)
         PROVE  PInv'
    <2> DEFINE s2 == stack'
    <2>1. s2 = RemoveFirst(stack, o) /\ o \in Elems(stack) /\ th[Main] = Out
      BY <1>14, LiveElems DEF DeleteInert
    <2>2. s2 \in Stacks
      <3> HIDE DEF s2
      <3> QED
        BY <1>1, <2>1, Drop
    <2>3. UNCHANGED <<code, m_pfnOrig, hProcess, old, bTrapped, th, history>>
      BY <1>14 DEF DeleteInert
    <2> QED
      BY <1>1, <1>3, <1>8, <2>1, <2>2, <2>3 DEF TypeOK, code, history
  <1>15. ASSUME NEW t \in Threads, Operate(t)
         PROVE  PInv'
    <2>1. th[t] \in ThreadStates /\ Position(t, th[t])
      BY <1>1 DEF TypeOK, Positions
    <2>2. Busy(t) => th[t].obj \in Hooks
      BY <2>1 DEF Position, Busy
    <2>3. CASE TestDone(t)
      <3>1. /\ Busy(t) /\ Finish(t) /\ Leave(t)
            /\ UNCHANGED <<code, m_pfnOrig, hProcess, old, bTrapped, history>>
        BY <2>3 DEF TestDone, Busy
      <3> QED
        BY <1>1, <1>3, <3>1, Over1 DEF TypeOK, code, history
    <2>4. CASE TestGoOn(t)
      <3>1. /\ Busy(t) /\ th' = [th EXCEPT ![t].pc = "head"]
            /\ UNCHANGED <<code, objects, history>>
        BY <2>4 DEF TestGoOn, Busy
      <3>2. th' \in [Threads -> ThreadStates] /\ Positions' /\ MainLive'
        BY <3>1, GoesOn DEF objects
      <3> QED
        BY <1>1, <1>3, <3>1, <3>2 DEF TypeOK, code, history, objects
    <2>5. CASE WriteHead(t)
      <3>1. /\ Busy(t) /\ th' = [th EXCEPT ![t].pc = IF th[t].obj \in Api THEN "tail" ELSE "flag"]
            /\ head' = (IF On(t) THEN th[t].obj ELSE old[th[t].obj].head)
            /\ executable' = (executable /\ th[t].obj \in Trap)
            /\ UNCHANGED <<tail, dep, objects, history>>
        BY <2>5 DEF WriteHead, Busy
      <3>2. th' \in [Threads -> ThreadStates] /\ Positions' /\ MainLive'
        <4> DEFINE l == IF th[t].obj \in Api THEN "tail" ELSE "flag"
        <4>1. /\ l \in {"head", "tail", "flag"} /\ (l = "tail" => th[t].obj \in Api)
              /\ (l = "flag" => th[t].obj \in Trap) /\ th' = [th EXCEPT ![t].pc = l]
          BY <2>2, <3>1 DEF Hooks
        <4> HIDE DEF l
        <4> QED
          BY <3>1, <4>1, GoesOn DEF objects
      <3>3. head' \in Hooks \cup {Orig}
        BY <1>1, <2>2, <3>1 DEF TypeOK
      <3>4. executable' \in BOOLEAN
        <4>1. executable \in BOOLEAN
          BY <1>1 DEF TypeOK
        <4> QED
          BY <3>1, <4>1, Zenon
      <3> QED
        BY <1>1, <1>3, <3>1, <3>2, <3>3, <3>4 DEF TypeOK, history, objects
    <2>6. CASE WriteTail(t)
      <3>1. /\ Busy(t) /\ Finish(t) /\ Leave(t)
            /\ tail' = (IF On(t) THEN "jmp" ELSE old[th[t].obj].tail)
            /\ UNCHANGED <<head, executable, dep, m_pfnOrig, hProcess, old, bTrapped, history>>
        BY <2>6 DEF WriteTail, Busy
      <3>2. tail' \in {Orig, "jmp"}
        BY <1>1, <2>2, <3>1 DEF TypeOK
      <3> QED
        BY <1>1, <1>3, <3>1, <3>2, Over1 DEF TypeOK, history
    <2>7. CASE WriteFails(t)
      <3>1. /\ Busy(t) /\ failed' = failed \cup {th[t].obj}
            /\ UNCHANGED <<head, tail, dep, m_pfnOrig, hProcess, old, bTrapped, created, tangled, overlap>>
        BY <2>7 DEF WriteFails, Busy
      <3>2. failed' \subseteq Hooks
        BY <1>1, <2>2, <3>1 DEF TypeOK
      <3>3. CASE th[t].obj \in Api
        <4>1. executable' = FALSE /\ Finish(t) /\ Leave(t)
          BY <2>7, <3>3 DEF WriteFails
        <4> QED
          BY <1>1, <1>3, <3>1, <3>2, <4>1, Over1 DEF TypeOK
      <3>4. CASE th[t].obj \notin Api
        <4>1. th' = [th EXCEPT ![t].pc = "flag"] /\ UNCHANGED <<executable, stack>>
          BY <2>7, <3>4 DEF WriteFails
        <4>2. th' \in [Threads -> ThreadStates] /\ Positions' /\ MainLive'
          BY <2>2, <3>1, <3>4, <4>1, GoesOn DEF Hooks
        <4> QED
          BY <1>1, <1>3, <3>1, <3>2, <4>1, <4>2 DEF TypeOK
      <3> QED
        BY <3>3, <3>4
    <2>8. CASE SetTrapped(t)
      <3>1. /\ Busy(t) /\ Finish(t) /\ Leave(t)
            /\ bTrapped' = [bTrapped EXCEPT ![th[t].obj] = On(t)]
            /\ UNCHANGED <<code, m_pfnOrig, hProcess, old, history>>
        BY <2>8 DEF SetTrapped, Busy
      <3>2. On(t) \in BOOLEAN
        BY DEF On
      <3>3. bTrapped' \in [Trap -> BOOLEAN]
        BY <1>1, <3>1, <3>2 DEF TypeOK
      <3> QED
        BY <1>1, <1>3, <3>1, <3>3, Over1 DEF TypeOK, history, code
    <2> QED
      BY <1>15, <2>3, <2>4, <2>5, <2>6, <2>7, <2>8 DEF Operate
  <1>16. ASSUME NEW t \in Workers, NEW s \in ThreadStates, Position(t, s), th' = [th EXCEPT ![t] = s],
                stack' = stack
         PROVE  th' \in [Threads -> ThreadStates] /\ Positions' /\ MainLive'
    <2>1. th' \in [Threads -> ThreadStates] /\ Positions'
      BY <1>2, <1>16, Moves
    <2>2. th'[Main] = th[Main]
      BY <1>1, <1>2, <1>16 DEF TypeOK
    <2> QED
      BY <1>1, <1>16, <2>1, <2>2 DEF MainLive, Busy, Live
  <1>17. ASSUME NEW t \in Workers, CallHooked(t)
         PROVE  PInv'
    <2> DEFINE s == [pc |-> IF head \in Api THEN "head" ELSE "test", op |-> "off", obj |-> head, inside |-> TRUE]
    <2>1. head \in Live /\ th' = [th EXCEPT ![t] = s] /\ UNCHANGED <<code, objects, created, failed>>
      BY <1>17 DEF CallHooked
    <2>2. head \in Hooks
      BY <1>1, <2>1 DEF TypeOK, Live
    <2>3. s \in ThreadStates /\ s.obj = head /\ s.op = "off" /\ s.inside /\ s.pc = (IF head \in Api THEN "head" ELSE "test")
      BY <2>2 DEF ThreadStates, Labels
    <2> HIDE DEF s
    <2>4. Position(t, s)
      BY <1>2, <2>2, <2>3 DEF Position, Hooks
    <2>5. th' \in [Threads -> ThreadStates] /\ Positions' /\ MainLive'
      BY <1>16, <2>1, <2>3, <2>4 DEF objects
    <2>6. overlap' \subseteq Hooks
      BY <1>1, <1>17, <2>2 DEF CallHooked, TypeOK
    <2>7. tangled' \in BOOLEAN
      <3>1. tangled \in BOOLEAN
        BY <1>1 DEF TypeOK
      <3> QED
        BY <1>17, <3>1, Zenon DEF CallHooked
    <2> QED
      BY <1>1, <1>3, <2>1, <2>5, <2>6, <2>7 DEF TypeOK, code, objects
  <1>18. ASSUME NEW t \in Workers, CallWild(t)
         PROVE  PInv'
    <2> DEFINE s == [th[t] EXCEPT !.pc = "wild"]
    <2>1. th[t] = Out /\ th' = [th EXCEPT ![t] = s] /\ UNCHANGED <<code, objects, history>>
      BY <1>1, <1>2, <1>18 DEF CallWild, TypeOK
    <2>2. s \in ThreadStates /\ s.pc = "wild" /\ s.op = "none" /\ ~s.inside /\ s.obj = Orig
      BY <2>1, OutState DEF Out, ThreadStates, Labels
    <2> HIDE DEF s
    <2>3. Position(t, s)
      BY <1>2, <2>2 DEF Position
    <2>4. th' \in [Threads -> ThreadStates] /\ Positions' /\ MainLive'
      BY <1>16, <2>1, <2>2, <2>3 DEF objects
    <2> QED
      BY <1>1, <1>3, <2>1, <2>4 DEF TypeOK, code, objects, history
  <1>19. ASSUME NEW t \in Workers, PutBack(t)
         PROVE  PInv'
    <2>1. th[t].pc = "inner" /\ Begin(t, th[t].obj, "on") /\ UNCHANGED <<code, objects, created, failed>>
      BY <1>19 DEF PutBack
    <2>2. th[t].inside /\ th[t].obj \in Hooks /\ t # Main /\ th[t].inside \in BOOLEAN
      BY <1>1, <1>2, <2>1 DEF Positions, Position, TypeOK, ThreadStates
    <2>3. (th[t].inside <=> t # Main)
      BY <2>2
    <2>4. /\ th' \in [Threads -> ThreadStates] /\ Positions' /\ tangled' \in BOOLEAN /\ overlap' \subseteq Hooks
          /\ th'[Main] = th[Main]
      BY <1>2, <2>1, <2>2, <2>3, Begins
    <2>5. MainLive'
      BY <1>1, <2>1, <2>4 DEF MainLive, Busy, Live, objects
    <2> QED
      BY <1>1, <1>3, <2>1, <2>4, <2>5 DEF TypeOK, code, objects
  <1>20. CASE UNCHANGED vars
    <2>1. UNCHANGED <<head, tail, executable, dep, stack, m_pfnOrig, hProcess, old, bTrapped, th,
                      created, tangled, overlap, failed>>
      BY <1>20 DEF vars, code, objects, history
    <2>2. Positions' /\ MainLive'
      BY <1>1, <2>1 DEF Positions, MainLive, Busy, Live
    <2> QED
      BY <1>1, <1>3, <2>1, <2>2 DEF TypeOK
  <1> QED
    BY <1>2, <1>7, <1>9, <1>10, <1>12, <1>13, <1>14, <1>15, <1>17, <1>18, <1>19, <1>20, <1>21 DEF Next

LEMMA PInit == Init => PInv
  <1> SUFFICES ASSUME Init
               PROVE  PInv
    OBVIOUS
  <1>1. stack = << >> /\ IsInjective(stack) /\ stack \in Seq(Hooks)
    BY DEF Init, IsInjective
  <1>2. TypeOK
    <2>1. /\ head \in Hooks \cup {Orig} /\ tail \in {Orig, "jmp"}
          /\ created \in 0 .. MaxObjects /\ overlap \subseteq Hooks /\ failed \subseteq Hooks
      BY ConstantsAssumption DEF Init
    <2>2. executable \in BOOLEAN /\ dep \in BOOLEAN /\ tangled \in BOOLEAN
      BY ConstantsAssumption, Zenon DEF Init
    <2>3. /\ m_pfnOrig \in [Api -> BOOLEAN] /\ hProcess \in [Trap -> BOOLEAN] /\ bTrapped \in [Trap -> BOOLEAN]
          /\ th \in [Threads -> ThreadStates]
      BY OutState DEF Init
    <2>4. old \in [Hooks -> [head : Hooks \cup {Orig}, tail : {Orig, "jmp"}]]
      BY DEF Init
    <2> QED
      BY <1>1, <2>1, <2>2, <2>3, <2>4 DEF TypeOK
  <1>3. Positions /\ MainLive
    BY OutState DEF Init, Positions, MainLive, Busy, Out, Threads
  <1> QED
    BY <1>2, <1>3 DEF PInv

LEMMA TypedAlways == Spec => []PInv
  BY PInit, PNext, PTL DEF Spec

\* Every variable keeps its type, no object is twice in the stack, and the threads are where the
\* operations of the two classes (Unhook, Rehook, Restore, Change) take them.
THEOREM TypeCorrect == Spec => []TypeOK
  <1>1. PInv => TypeOK
    BY DEF PInv
  <1> QED
    BY <1>1, TypedAlways, PTL

-----------------------------------------------------------------------------
(* The invariant, while objects are used newest first and one at a time, only CAPIHooks by *)
(* several threads, and no write fails.                                                     *)

Clean == ~tangled /\ overlap \subseteq Api /\ failed = {}

\* The objects that are switched on, and those that have saved bytes.
ActSet   == {x \in Hooks : IF x \in Api THEN m_pfnOrig[x] ELSE bTrapped[x]}
SavedSet == {x \in Hooks : IF x \in Api THEN m_pfnOrig[x] ELSE hProcess[x]}

\* Thread t is in an operation or a hook procedure.
Uses(t) == Busy(t) \/ th[t].inside

OneUsed == \A t, u \in Threads : Uses(t) /\ Uses(u) => th[t].obj = th[u].obj

\* The object in use is the newest one that has saved anything.
NewestUsed ==
  \A t \in Threads : Uses(t) =>
    /\ th[t].obj \in Live
    /\ th[t].obj \in Api \/ t # Main \/ th[t].pc \in {"head", "flag"} => th[t].obj \in SavedSet
    /\ \A x \in Live : Over(stack, x, th[t].obj) => x \notin SavedSet

TrapAlone == \A t, u \in Threads : Busy(t) /\ Busy(u) /\ th[t].obj = th[u].obj /\ th[t].obj \in Trap => t = u

\* A destructor runs when nobody is in the hook procedure.
DeleteAlone == th[Main].op = "delete" => \A t \in Threads : ~th[t].inside

Users == OneUsed /\ NewestUsed /\ TrapAlone /\ DeleteAlone

ActSaved == Live \cap ActSet \subseteq SavedSet

\* What an object saved is what the objects under it show.
Chain ==
  \A o \in Live \cap SavedSet :
    /\ HeadOf(old[o].head, Under(stack, o), stack, ActSet)
    /\ o \in Api => TailOf(old[o].tail, Under(stack, o), ActSet)

ApiUnused == \A t \in Threads : Uses(t) => th[t].obj \notin Api
NoFlag    == \A t \in Threads : th[t].pc # "flag"

\* The bytes of the function while no thread is at work on them.
Settled ==
  ApiUnused => /\ TailOf(tail, Live, ActSet)
               /\ NoFlag => HeadOf(head, Live, stack, ActSet)

\* Between the write and the flag of a CHookClass.
Turning ==
  \A t \in Threads : th[t].pc = "flag" =>
    head = IF On(t) THEN th[t].obj ELSE old[th[t].obj].head

\* Thread t will still write the first bytes.
Pending(t) == Uses(t) /\ ~(th[t].pc = "tail" /\ On(t))

\* While threads use a CAPIHook.
Mixed ==
  \A t \in Threads : Uses(t) /\ th[t].obj \in Api =>
    /\ head \in {th[t].obj, old[th[t].obj].head} /\ tail \in {"jmp", old[th[t].obj].tail}
    /\ head # th[t].obj => \E u \in Threads : Pending(u)
    /\ th[Main].op = "delete" /\ th[Main].pc = "tail" => head = old[th[t].obj].head

Bytes == ActSaved /\ Chain /\ Settled /\ Turning /\ Mixed

CInv == Clean => Users /\ Bytes

-----------------------------------------------------------------------------
(* Who uses what. *)

LEMMA UserObj ==
  ASSUME PInv, NEW t \in Threads, Uses(t)
  PROVE  /\ th[t].obj \in Hooks /\ (t = Main => Busy(t) /\ ~th[t].inside) /\ (t # Main => th[t].inside)
         /\ th[t] # Out
  <1>1. Position(t, th[t]) /\ th[t] \in ThreadStates
    BY DEF PInv, Positions, TypeOK
  <1> QED
    BY <1>1 DEF Position, Uses, Busy, ThreadStates, Labels, Out

LEMMA UsingIsUses ==
  ASSUME NEW t, NEW o
  PROVE  Using(t, o) <=> Uses(t) /\ th[t].obj = o
  BY DEF Using, Uses

\* Nobody uses an object.
LEMMA NoUsers ==
  ASSUME \A t \in Threads : ~Uses(t)
  PROVE  Users /\ Mixed /\ Turning /\ NoFlag /\ ApiUnused
  <1>1. \A t \in Threads : ~Busy(t) /\ ~th[t].inside /\ th[t].pc # "flag"
    BY DEF Uses, Busy
  <1> QED
    BY <1>1 DEF Users, OneUsed, NewestUsed, TrapAlone, DeleteAlone, Mixed, Turning, NoFlag, ApiUnused

\* Thread t goes on with the object that it uses, or ends.
LEMMA UsersStay ==
  ASSUME PInv, Users, NEW t \in Threads, \A u \in Threads \ {t} : th'[u] = th[u],
         stack' = stack, SavedSet' = SavedSet,
         Uses(t)' => Uses(t) /\ th'[t].obj = th[t].obj, Busy(t)' => Busy(t),
         Uses(t)' /\ t = Main /\ th'[t].pc \in {"head", "flag"} => th[t].obj \in SavedSet,
         th'[t].op = "delete" => th[t].op = "delete", th'[t].inside => th[t].inside
  PROVE  Users'
  <1>0. Live' = Live
    BY DEF Live
  <1>1. \A u \in Threads : /\ Uses(u)' => Uses(u) /\ th'[u].obj = th[u].obj
                           /\ Busy(u)' => Busy(u)
                           /\ th'[u].op = "delete" => th[u].op = "delete"
                           /\ th'[u].inside => th[u].inside
    BY DEF Uses, Busy
  <1>2. OneUsed'
    BY <1>1 DEF Users, OneUsed
  <1>3. NewestUsed'
    <2>1. ASSUME NEW u \in Threads, Uses(u)'
          PROVE  /\ th'[u].obj \in Live
                 /\ th'[u].obj \in Api \/ u # Main \/ th'[u].pc \in {"head", "flag"} => th'[u].obj \in SavedSet
                 /\ \A x \in Live : Over(stack, x, th'[u].obj) => x \notin SavedSet
      <3>1. CASE u = t
        BY <1>1, <2>1, <3>1 DEF Users, NewestUsed
      <3>2. CASE u # t
        BY <1>1, <2>1, <3>2 DEF Users, NewestUsed
      <3> QED
        BY <3>1, <3>2
    <2> QED
      BY <1>0, <2>1 DEF NewestUsed
  <1>4. TrapAlone'
    <2>1. \A u \in Threads : Busy(u)' => th'[u].obj = th[u].obj
      BY <1>1 DEF Uses
    <2> QED
      BY <1>1, <2>1 DEF Users, TrapAlone
  <1>5. DeleteAlone'
    BY <1>1 DEF Users, DeleteAlone, Threads
  <1> QED
    BY <1>2, <1>3, <1>4, <1>5 DEF Users

\* What is in use, and what nobody else can be doing.
LEMMA UserFacts ==
  ASSUME PInv, Users, ActSaved, NEW t \in Threads, Uses(t)
  PROVE  /\ th[t].obj \in Hooks /\ th[t].obj \in Live
         /\ \A u \in Threads : Uses(u) => th[u].obj = th[t].obj
         /\ \A x \in Live : Over(stack, x, th[t].obj) => x \notin SavedSet /\ x \notin ActSet
         /\ th[t].obj \in Api => ~ApiUnused /\ NoFlag
         /\ th[t].obj \notin Api => ApiUnused
         /\ th[Main].op = "delete" => t = Main
  <1>1. th[t].obj \in Hooks
    BY UserObj
  <1>2. \A u \in Threads : Uses(u) => th[u].obj = th[t].obj
    BY DEF Users, OneUsed
  <1>3. th[t].obj \in Live /\ \A x \in Live : Over(stack, x, th[t].obj) => x \notin SavedSet /\ x \notin ActSet
    BY DEF Users, NewestUsed, ActSaved
  <1>4. th[t].obj \in Api => NoFlag
    <2>1. \A u \in Threads : th[u].pc = "flag" => Uses(u) /\ th[u].obj \in Trap
      BY DEF PInv, Positions, Position, Uses, Busy
    <2> QED
      BY <1>2, <2>1, ConstantsAssumption DEF NoFlag
  <1>5. th[Main].op = "delete" => t = Main
    BY UserObj DEF Users, DeleteAlone
  <1> QED
    BY <1>1, <1>2, <1>3, <1>4, <1>5 DEF ApiUnused

LEMMA SavedSame == m_pfnOrig' = m_pfnOrig /\ hProcess' = hProcess => SavedSet' = SavedSet
  BY DEF SavedSet
LEMMA ActSame == m_pfnOrig' = m_pfnOrig /\ bTrapped' = bTrapped => ActSet' = ActSet
  BY DEF ActSet

-----------------------------------------------------------------------------
(* Objects that come and go. *)

\* A new object changes nothing for the others.
LEMMA PushSame ==
  ASSUME NEW s, NEW o, NEW s2, Pushes(s, o, s2), NEW A, NEW A2, A2 \cap Elems(s) = A \cap Elems(s)
  PROVE  /\ \A p \in Elems(s) : Under(s2, p) = Under(s, p)
         /\ Under(s2, o) = Elems(s)
         /\ \A S \in SUBSET Elems(s) : \A h : HeadOf(h, S, s, A) => HeadOf(h, S, s2, A2)
         /\ \A S \in SUBSET Elems(s) : \A b : TailOf(b, S, A) => TailOf(b, S, A2)
  <1>0. s \in Stacks /\ o \notin Elems(s)
    BY DEF Pushes
  <1>1. /\ s2 \in Stacks /\ Elems(s2) = Elems(s) \cup {o}
        /\ \A x, y : Over(s2, x, y) <=> Over(s, x, y) \/ (x = o /\ y \in Elems(s))
    BY Push
  <1>2. \A x, y : Over(s, x, y) => x \in Elems(s) /\ y \in Elems(s)
    BY <1>0, Order
  <1>3. \A p \in Elems(s) : Under(s2, p) = Under(s, p)
    BY <1>0, <1>1, <1>2 DEF Under
  <1>4. Under(s2, o) = Elems(s)
    BY <1>1, <1>2 DEF Under
  <1>5. ASSUME NEW S \in SUBSET Elems(s), NEW h, HeadOf(h, S, s, A)
        PROVE  HeadOf(h, S, s2, A2)
    <2>1. S \cap A2 = S \cap A
      OBVIOUS
    <2> QED
      BY <1>1, <1>5, <2>1, HeadSame
  <1>6. ASSUME NEW S \in SUBSET Elems(s), NEW b, TailOf(b, S, A)
        PROVE  TailOf(b, S, A2)
    <2>1. S \cap A2 \cap Api = S \cap A \cap Api
      OBVIOUS
    <2> QED
      BY <1>6, <2>1, TailSame
  <1> QED
    BY <1>3, <1>4, <1>5, <1>6

\* The step pushes o.
LEMMA Pushed ==
  ASSUME PInv, NEW o \in Hooks, o \notin Live, stack' = <<o>> \o stack,
         ActSet' \cap Live = ActSet \cap Live
  PROVE  /\ Live' = Live \cup {o} /\ stack' \in Stacks
         /\ \A x, y : Over(stack', x, y) <=> Over(stack, x, y) \/ (x = o /\ y \in Live)
         /\ \A p \in Live : Under(stack', p) = Under(stack, p) /\ Under(stack, p) \subseteq Live
         /\ Under(stack', o) = Live
         /\ \A S \in SUBSET Live : \A h : HeadOf(h, S, stack, ActSet) => HeadOf(h, S, stack', ActSet')
         /\ \A S \in SUBSET Live : \A b : TailOf(b, S, ActSet) => TailOf(b, S, ActSet')
  <1> DEFINE s2 == stack'
             A2 == ActSet'
  <1>1. stack \in Stacks /\ Live = Elems(stack) /\ Live' = Elems(s2)
    BY StackTyped, LiveElems DEF PInv, Live, Elems
  <1>2. Pushes(stack, o, s2) /\ A2 \cap Elems(stack) = ActSet \cap Elems(stack)
    BY <1>1 DEF Pushes
  <1>3. \A p \in Live : Under(stack, p) \subseteq Live
    BY <1>1 DEF Under
  <1> HIDE DEF s2, A2
  <1>4. /\ s2 \in Stacks /\ Elems(s2) = Elems(stack) \cup {o}
        /\ \A x, y : Over(s2, x, y) <=> Over(stack, x, y) \/ (x = o /\ y \in Elems(stack))
    BY <1>2, Push
  <1>5. /\ \A p \in Elems(stack) : Under(s2, p) = Under(stack, p)
        /\ Under(s2, o) = Elems(stack)
        /\ \A S \in SUBSET Elems(stack) : \A h : HeadOf(h, S, stack, ActSet) => HeadOf(h, S, s2, A2)
        /\ \A S \in SUBSET Elems(stack) : \A b : TailOf(b, S, ActSet) => TailOf(b, S, A2)
    BY <1>2, PushSame
  <1> QED
    BY <1>1, <1>3, <1>4, <1>5 DEF s2, A2

\* An object goes.
LEMMA Dropped ==
  ASSUME PInv, NEW o \in Live, stack' = RemoveFirst(stack, o)
  PROVE  /\ Live' = Live \ {o} /\ stack' \in Stacks
         /\ \A x, y : Over(stack', x, y) <=> Over(stack, x, y) /\ x # o /\ y # o
         /\ \A p \in Live' : Under(stack', p) = Under(stack, p) \ {o}
         /\ \A S, S2, A2, h : S2 \cap A2 = S \cap ActSet /\ o \notin S2 \cap A2 /\ HeadOf(h, S, stack, ActSet) =>
              HeadOf(h, S2, stack', A2)
  <1> DEFINE s2 == stack'
  <1>1. stack \in Stacks /\ Live = Elems(stack) /\ Live' = Elems(s2)
    BY StackTyped, LiveElems DEF PInv, Live, Elems
  <1>2. s2 = RemoveFirst(stack, o)
    OBVIOUS
  <1> HIDE DEF s2
  <1>3. /\ s2 \in Stacks /\ Elems(s2) = Elems(stack) \ {o}
        /\ \A x, y : Over(s2, x, y) <=> Over(stack, x, y) /\ x # o /\ y # o
    BY <1>1, <1>2, Drop
  <1>4. \A p \in Elems(s2) : Under(s2, p) = Under(stack, p) \ {o}
    BY <1>1, <1>3 DEF Under
  <1>5. ASSUME NEW S, NEW S2, NEW A2, NEW h, S2 \cap A2 = S \cap ActSet, o \notin S2 \cap A2,
               HeadOf(h, S, stack, ActSet)
        PROVE  HeadOf(h, S2, s2, A2)
    <2>1. \A x, y \in S \cap ActSet : Over(stack, x, y) => Over(s2, x, y)
      BY <1>3, <1>5
    <2> QED
      BY <1>5, <2>1, HeadSame
  <1> QED
    BY <1>1, <1>3, <1>4, <1>5 DEF s2

\* CAPIHook::CAPIHook
LEMMA CNewApi ==
  ASSUME PInv, PInv', CInv, NEW o \in Hooks, NewApi(o)
  PROVE  CInv'
  <1> SUFFICES ASSUME Clean'
               PROVE  Users' /\ Bytes'
    BY DEF CInv
  <1> USE ConstantsAssumption
  <1>1. /\ o \in Api /\ Fresh(o) /\ stack' = <<o>> \o stack /\ Begin(Main, o, "new")
        /\ m_pfnOrig' = [m_pfnOrig EXCEPT ![o] = TRUE]
        /\ old' = [old EXCEPT ![o] = [head |-> head, tail |-> tail]]
        /\ UNCHANGED <<head, tail, dep, hProcess, bTrapped, failed>>
    BY DEF NewApi
  <1>2. o \notin Live /\ th[Main] = Out /\ \A t \in Threads : th[t].obj # o
    BY <1>1 DEF Fresh
  <1>3. \A u \in Threads \ {Main} : \A p \in Hooks \ {o} : ~Using(u, p)
    BY <1>1 DEF Clean, Begin
  <1>4. \A t \in Threads : ~Uses(t)
    <2>1. ASSUME NEW t \in Threads, Uses(t)
          PROVE  FALSE
      <3>1. th[t].obj \in Hooks \ {o} /\ t # Main
        BY <1>2, <2>1, UserObj
      <3> QED
        BY <1>3, <2>1, <3>1, UsingIsUses
    <2> QED
      BY <2>1
  <1>5. Clean
    BY <1>1 DEF Clean, Begin
  <1>6. ActSaved /\ Chain /\ TailOf(tail, Live, ActSet) /\ HeadOf(head, Live, stack, ActSet)
    BY <1>4, <1>5, NoUsers DEF CInv, Bytes, Settled
  <1>7. th \in [Threads -> ThreadStates] /\ Main \in Threads /\ Orig \notin Hooks
    BY DEF PInv, TypeOK, Threads
  <1>8. /\ th'[Main].pc = "head" /\ th'[Main].op = "new" /\ th'[Main].obj = o /\ ~th'[Main].inside
        /\ \A u \in Threads \ {Main} : th'[u] = th[u]
    BY <1>1, <1>2, <1>7 DEF Begin, Out
  <1>9. Uses(Main)' /\ Busy(Main)' /\ \A u \in Threads \ {Main} : ~Uses(u)' /\ th'[u].pc # "flag"
    BY <1>4, <1>8 DEF Uses, Busy
  <1>10. /\ \A x \in Live : (x \in ActSet' <=> x \in ActSet) /\ (x \in SavedSet' <=> x \in SavedSet)
         /\ o \in ActSet' /\ o \in SavedSet'
    <2>1. m_pfnOrig \in [Api -> BOOLEAN]
      BY DEF PInv, TypeOK
    <2>2. m_pfnOrig'[o] /\ \A x \in Live \cap Api : m_pfnOrig'[x] = m_pfnOrig[x]
      BY <1>1, <1>2, <2>1
    <2> QED
      BY <1>1, <2>2 DEF ActSet, SavedSet
  <1>11. ActSet' \cap Live = ActSet \cap Live
    BY <1>10
  <1>12. /\ Live' = Live \cup {o} /\ stack' \in Stacks
         /\ \A x, y : Over(stack', x, y) <=> Over(stack, x, y) \/ (x = o /\ y \in Live)
         /\ \A p \in Live : Under(stack', p) = Under(stack, p) /\ Under(stack, p) \subseteq Live
         /\ Under(stack', o) = Live
         /\ \A S \in SUBSET Live : \A h : HeadOf(h, S, stack, ActSet) => HeadOf(h, S, stack', ActSet')
         /\ \A S \in SUBSET Live : \A b : TailOf(b, S, ActSet) => TailOf(b, S, ActSet')
    BY <1>1, <1>2, <1>11, Pushed
  <1>13. \A x : ~Over(stack', x, o)
    BY <1>2, <1>12, StackTyped, Order, LiveElems DEF PInv
  <1>14. old'[o] = [head |-> head, tail |-> tail] /\ \A p \in Hooks \ {o} : old'[p] = old[p]
    BY <1>1 DEF PInv, TypeOK
  <1>15. Users'
    <2>1. OneUsed'
      BY <1>9 DEF OneUsed
    <2>2. NewestUsed'
      BY <1>8, <1>9, <1>10, <1>12, <1>13 DEF NewestUsed
    <2>3. TrapAlone' /\ DeleteAlone'
      BY <1>8, <1>9 DEF TrapAlone, DeleteAlone, Uses
    <2> QED
      BY <2>1, <2>2, <2>3 DEF Users
  <1>16. ActSaved'
    BY <1>6, <1>10, <1>12 DEF ActSaved
  <1>17. Chain'
    <2>1. ASSUME NEW p \in Live', p \in SavedSet'
          PROVE  /\ HeadOf(old'[p].head, Under(stack', p), stack', ActSet')
                 /\ p \in Api => TailOf(old'[p].tail, Under(stack', p), ActSet')
      <3>1. CASE p = o
        BY <1>6, <1>12, <1>14, <3>1
      <3>2. CASE p # o
        <4>1. p \in Live /\ p \in SavedSet /\ old'[p] = old[p]
          BY <1>10, <1>12, <1>14, <2>1, <3>2 DEF SavedSet
        <4>2. Under(stack', p) = Under(stack, p) /\ Under(stack, p) \in SUBSET Live
          BY <1>12, <4>1
        <4> QED
          BY <1>6, <1>12, <4>1, <4>2 DEF Chain
      <3> QED
        BY <3>1, <3>2
    <2> QED
      BY <2>1 DEF Chain
  <1>18. Settled'
    BY <1>1, <1>7, <1>8, <1>9 DEF Settled, ApiUnused
  <1>19. Turning'
    BY <1>8, <1>9 DEF Turning
  <1>20. Mixed'
    <2>1. Pending(Main)'
      BY <1>8, <1>9 DEF Pending
    <2>2. th'[Main].op # "delete"
      BY <1>8
    <2> QED
      BY <1>1, <1>7, <1>8, <1>9, <1>14, <2>1, <2>2 DEF Mixed
  <1> QED
    BY <1>15, <1>16, <1>17, <1>18, <1>19, <1>20 DEF Bytes

\* What pushing an object that is not switched on leaves.
LEMMA PushedQuiet ==
  ASSUME PInv, NEW o \in Hooks, o \notin Live, stack' = <<o>> \o stack,
         o \notin ActSet', ActSet' \cap Live = ActSet \cap Live, SavedSet' \cap Live = SavedSet \cap Live,
         \A p \in Hooks \ {o} : old'[p] = old[p],
         o \in SavedSet' => o \notin Api /\ HeadOf(old'[o].head, Live, stack, ActSet),
         ActSaved, Chain
  PROVE  /\ ActSaved' /\ Chain'
         /\ \A h : HeadOf(h, Live, stack, ActSet) => HeadOf(h, Live, stack, ActSet)'
         /\ \A b : TailOf(b, Live, ActSet) => TailOf(b, Live, ActSet)'
  <1>1. /\ Live' = Live \cup {o} /\ stack' \in Stacks
        /\ \A p \in Live : Under(stack', p) = Under(stack, p) /\ Under(stack, p) \subseteq Live
        /\ Under(stack', o) = Live
        /\ \A S \in SUBSET Live : \A h : HeadOf(h, S, stack, ActSet) => HeadOf(h, S, stack', ActSet')
        /\ \A S \in SUBSET Live : \A b : TailOf(b, S, ActSet) => TailOf(b, S, ActSet')
    BY Pushed
  <1>2. Live' \cap ActSet' = Live \cap ActSet'
    BY <1>1
  <1>3. ActSaved'
    BY <1>1 DEF ActSaved
  <1>4. Chain'
    <2>1. ASSUME NEW p \in Live', p \in SavedSet'
          PROVE  /\ HeadOf(old'[p].head, Under(stack', p), stack', ActSet')
                 /\ p \in Api => TailOf(old'[p].tail, Under(stack', p), ActSet')
      <3>1. CASE p = o
        BY <1>1, <2>1, <3>1
      <3>2. CASE p # o
        <4>1. p \in Live /\ p \in SavedSet /\ p \in Hooks
          BY <1>1, <2>1, <3>2 DEF SavedSet
        <4>2. Under(stack', p) = Under(stack, p) /\ Under(stack, p) \in SUBSET Live /\ old'[p] = old[p]
          BY <1>1, <3>2, <4>1
        <4> QED
          BY <1>1, <4>1, <4>2 DEF Chain
      <3> QED
        BY <3>1, <3>2
    <2> QED
      BY <2>1 DEF Chain
  <1>5. ASSUME NEW h, HeadOf(h, Live, stack, ActSet)
        PROVE  HeadOf(h, Live, stack, ActSet)'
    <2>1. HeadOf(h, Live, stack', ActSet')
      BY <1>1, <1>5
    <2> QED
      BY <1>2, <2>1 DEF HeadOf
  <1>6. ASSUME NEW b, TailOf(b, Live, ActSet)
        PROVE  TailOf(b, Live, ActSet)'
    <2>1. TailOf(b, Live, ActSet')
      BY <1>1, <1>6
    <2> QED
      BY <1>2, <2>1 DEF TailOf
  <1> QED
    BY <1>3, <1>4, <1>5, <1>6

\* A CAPIHook that finds no function.
LEMMA CNewApiFails ==
  ASSUME PInv, CInv, NEW o \in Hooks, NewApiFails(o)
  PROVE  CInv'
  <1> SUFFICES ASSUME Clean'
               PROVE  Users' /\ Bytes'
    BY DEF CInv
  <1> USE ConstantsAssumption
  <1>1. /\ o \in Api /\ Fresh(o) /\ stack' = <<o>> \o stack
        /\ m_pfnOrig' = [m_pfnOrig EXCEPT ![o] = FALSE]
        /\ head' = head /\ tail' = tail /\ th' = th /\ old' = old /\ hProcess' = hProcess /\ bTrapped' = bTrapped
        /\ tangled' = tangled /\ overlap' = overlap /\ failed' = failed
    BY DEF NewApiFails, code
  <1>2. o \notin Live /\ \A t \in Threads : th[t].obj # o
    BY <1>1 DEF Fresh
  <1>3. Users /\ Bytes
    BY <1>1 DEF CInv, Clean
  <1>4. m_pfnOrig \in [Api -> BOOLEAN]
    BY DEF PInv, TypeOK
  <1>5. /\ \A x \in Hooks \ {o} : (x \in ActSet' <=> x \in ActSet) /\ (x \in SavedSet' <=> x \in SavedSet)
        /\ o \notin ActSet' /\ o \notin SavedSet'
    <2>1. ~m_pfnOrig'[o] /\ \A x \in Api \ {o} : m_pfnOrig'[x] = m_pfnOrig[x]
      BY <1>1, <1>4
    <2> QED
      BY <1>1, <2>1 DEF ActSet, SavedSet
  <1>6. ActSet' \cap Live = ActSet \cap Live /\ SavedSet' \cap Live = SavedSet \cap Live
    <2>1. Live \subseteq Hooks \ {o}
      BY <1>2 DEF PInv, TypeOK, Live
    <2> QED
      BY <1>5, <2>1
  <1>7. /\ ActSaved' /\ Chain'
        /\ \A h : HeadOf(h, Live, stack, ActSet) => HeadOf(h, Live, stack, ActSet)'
        /\ \A b : TailOf(b, Live, ActSet) => TailOf(b, Live, ActSet)'
    BY <1>1, <1>2, <1>3, <1>5, <1>6, PushedQuiet DEF Bytes
  <1>8. /\ Live' = Live \cup {o}
        /\ \A x, y : Over(stack', x, y) <=> Over(stack, x, y) \/ (x = o /\ y \in Live)
    BY <1>1, <1>2, <1>6, Pushed
  <1>9. \A t \in Threads : /\ Uses(t)' <=> Uses(t)
                           /\ Busy(t)' <=> Busy(t)
                           /\ Pending(t)' <=> Pending(t)
                           /\ On(t)' <=> On(t)
    BY <1>1 DEF Uses, Busy, Pending, On
  <1>10. Users'
    <2>1. OneUsed'
      BY <1>1, <1>3, <1>9 DEF Users, OneUsed
    <2>2. ASSUME NEW t \in Threads, Uses(t)
          PROVE  /\ th[t].obj \in Live'
                 /\ th[t].obj \in Api \/ t # Main \/ th[t].pc \in {"head", "flag"} => th[t].obj \in SavedSet'
                 /\ \A x \in Live' : Over(stack', x, th[t].obj) => x \notin SavedSet'
      <3>1. /\ th[t].obj \in Live
            /\ th[t].obj \in Api \/ t # Main \/ th[t].pc \in {"head", "flag"} => th[t].obj \in SavedSet
            /\ \A x \in Live : Over(stack, x, th[t].obj) => x \notin SavedSet
        BY <1>3, <2>2 DEF Users, NewestUsed
      <3>2. Live \subseteq Hooks \ {o}
        BY <1>2 DEF PInv, TypeOK, Live
      <3> QED
        BY <1>2, <1>5, <1>8, <3>1, <3>2
    <2>3. NewestUsed'
      BY <1>1, <1>9, <2>2 DEF NewestUsed
    <2>4. TrapAlone' /\ DeleteAlone'
      BY <1>1, <1>3, <1>9 DEF Users, TrapAlone, DeleteAlone
    <2> QED
      BY <2>1, <2>3, <2>4 DEF Users
  <1>11. Settled'
    BY <1>1, <1>3, <1>7, <1>9 DEF Bytes, Settled, ApiUnused, NoFlag
  <1>12. Turning' /\ Mixed'
    BY <1>1, <1>3, <1>9 DEF Bytes, Turning, Mixed
  <1> QED
    BY <1>7, <1>10, <1>11, <1>12 DEF Bytes

\* CHookClass::Create
LEMMA CCreate ==
  ASSUME PInv, CInv, NEW o \in Hooks, NEW opened \in BOOLEAN, Create(o, opened)
  PROVE  CInv'
  <1> SUFFICES ASSUME Clean'
               PROVE  Users' /\ Bytes'
    BY DEF CInv
  <1> USE ConstantsAssumption
  <1>1. /\ o \in Trap /\ Fresh(o) /\ stack' = <<o>> \o stack
        /\ hProcess' = [hProcess EXCEPT ![o] = opened]
        /\ old' = (IF opened THEN [old EXCEPT ![o] = [head |-> head, tail |-> Orig]] ELSE old)
        /\ bTrapped' = [bTrapped EXCEPT ![o] = FALSE]
        /\ head' = head /\ tail' = tail /\ th' = th /\ m_pfnOrig' = m_pfnOrig
    BY DEF Create, code
  <1>2. o \notin Live /\ th[Main] = Out
    BY <1>1 DEF Fresh
  <1>3. Clean /\ \A t \in Workers, p \in Hooks : ~Using(t, p)
    BY DEF Create, Clean
  <1>4. \A t \in Threads : ~Uses(t) /\ ~Uses(t)'
    <2>1. ASSUME NEW t \in Threads, Uses(t)
          PROVE  FALSE
      <3>1. th[t].obj \in Hooks /\ t # Main
        BY <1>2, <2>1, UserObj
      <3> QED
        BY <1>3, <2>1, <3>1, UsingIsUses DEF Threads
    <2>2. \A t \in Threads : Uses(t)' <=> Uses(t)
      BY <1>1 DEF Uses, Busy
    <2> QED
      BY <2>1, <2>2
  <1>5. ActSaved /\ Chain /\ TailOf(tail, Live, ActSet) /\ HeadOf(head, Live, stack, ActSet)
    BY <1>3, <1>4, NoUsers DEF CInv, Bytes, Settled
  <1>6. Users' /\ Mixed' /\ Turning'
    <2>1. \A t \in Threads : ~Busy(t)' /\ ~th'[t].inside /\ th'[t].pc # "flag"
      BY <1>4 DEF Uses, Busy
    <2> QED
      BY <1>4, <2>1 DEF Users, OneUsed, NewestUsed, TrapAlone, DeleteAlone, Mixed, Turning
  <1>7. hProcess \in [Trap -> BOOLEAN] /\ bTrapped \in [Trap -> BOOLEAN] /\ o \notin Api
    BY <1>1 DEF PInv, TypeOK
  <1>8. /\ \A x \in Hooks \ {o} : (x \in ActSet' <=> x \in ActSet) /\ (x \in SavedSet' <=> x \in SavedSet)
        /\ o \notin ActSet' /\ (o \in SavedSet' => opened)
    <2>1. /\ ~bTrapped'[o] /\ \A x \in Trap \ {o} : bTrapped'[x] = bTrapped[x]
          /\ hProcess'[o] = opened /\ \A x \in Trap \ {o} : hProcess'[x] = hProcess[x]
      BY <1>1, <1>7
    <2> QED
      BY <1>1, <1>7, <2>1 DEF ActSet, SavedSet, Hooks
  <1>9. ActSet' \cap Live = ActSet \cap Live /\ SavedSet' \cap Live = SavedSet \cap Live
    <2>1. Live \subseteq Hooks \ {o}
      BY <1>2 DEF PInv, TypeOK, Live
    <2> QED
      BY <1>8, <2>1
  <1>10. (opened => old'[o].head = head) /\ \A p \in Hooks \ {o} : old'[p] = old[p]
    <2>1. old \in [Hooks -> [head : Hooks \cup {Orig}, tail : {Orig, "jmp"}]]
      BY DEF PInv, TypeOK
    <2> QED
      BY <1>1, <2>1
  <1>11. /\ ActSaved' /\ Chain'
         /\ \A h : HeadOf(h, Live, stack, ActSet) => HeadOf(h, Live, stack, ActSet)'
         /\ \A b : TailOf(b, Live, ActSet) => TailOf(b, Live, ActSet)'
    BY <1>1, <1>2, <1>5, <1>7, <1>8, <1>9, <1>10, PushedQuiet
  <1>12. Settled'
    BY <1>1, <1>5, <1>11 DEF Settled
  <1> QED
    BY <1>6, <1>11, <1>12 DEF Bytes

\* What an object that goes leaves, if no other one counts on it.
LEMMA DroppedQuiet ==
  ASSUME PInv, NEW o \in Live, stack' = RemoveFirst(stack, o), old' = old,
         ActSet' \cap (Live \ {o}) = ActSet \cap (Live \ {o}),
         SavedSet' \cap (Live \ {o}) = SavedSet \cap (Live \ {o}),
         \A p \in Live \cap SavedSet : o \in Under(stack, p) => o \notin ActSet,
         ActSaved, Chain
  PROVE  /\ ActSaved' /\ Chain'
         /\ \A h : HeadOf(h, Live \ {o}, stack, ActSet) => HeadOf(h, Live, stack, ActSet)'
         /\ \A b : TailOf(b, Live \ {o}, ActSet) => TailOf(b, Live, ActSet)'
  <1>1. /\ Live' = Live \ {o}
        /\ \A p \in Live' : Under(stack', p) = Under(stack, p) \ {o}
        /\ \A S, S2, A2, h : S2 \cap A2 = S \cap ActSet /\ o \notin S2 \cap A2 /\ HeadOf(h, S, stack, ActSet) =>
             HeadOf(h, S2, stack', A2)
    BY Dropped
  <1>2. \A p \in Live : Under(stack, p) \subseteq Live
    BY LiveElems DEF Under
  <1>3. ActSaved'
    BY <1>1 DEF ActSaved
  <1>4. Live' \cap ActSet' = (Live \ {o}) \cap ActSet /\ o \notin Live' \cap ActSet'
    BY <1>1
  <1>5. Chain'
    <2>1. ASSUME NEW p \in Live', p \in SavedSet'
          PROVE  /\ HeadOf(old'[p].head, Under(stack', p), stack', ActSet')
                 /\ p \in Api => TailOf(old'[p].tail, Under(stack', p), ActSet')
      <3>1. p \in Live \cap SavedSet
        BY <1>1, <2>1
      <3>2. /\ HeadOf(old[p].head, Under(stack, p), stack, ActSet)
            /\ p \in Api => TailOf(old[p].tail, Under(stack, p), ActSet)
        BY <3>1 DEF Chain
      <3>3. Under(stack', p) \cap ActSet' = Under(stack, p) \cap ActSet /\ o \notin Under(stack', p) \cap ActSet'
        <4>1. Under(stack', p) = Under(stack, p) \ {o} /\ Under(stack, p) \subseteq Live
          BY <1>1, <1>2, <3>1
        <4>2. ~(o \in Under(stack, p) /\ o \in ActSet)
          BY <3>1
        <4> QED
          BY <4>1, <4>2
      <3>4. HeadOf(old[p].head, Under(stack', p), stack', ActSet')
        BY <1>1, <3>2, <3>3
      <3>5. p \in Api => TailOf(old[p].tail, Under(stack', p), ActSet')
        BY <3>2, <3>3 DEF TailOf
      <3> QED
        BY <3>4, <3>5
    <2> QED
      BY <2>1 DEF Chain
  <1>6. ASSUME NEW h, HeadOf(h, Live \ {o}, stack, ActSet)
        PROVE  HeadOf(h, Live, stack, ActSet)'
    BY <1>1, <1>4, <1>6
  <1>7. ASSUME NEW b, TailOf(b, Live \ {o}, ActSet)
        PROVE  TailOf(b, Live, ActSet)'
    BY <1>4, <1>7 DEF TailOf
  <1> QED
    BY <1>3, <1>5, <1>6, <1>7

\* An object that found no function is destroyed.
LEMMA CDeleteInert ==
  ASSUME PInv, CInv, NEW o \in Hooks, DeleteInert(o)
  PROVE  CInv'
  <1> SUFFICES ASSUME Clean'
               PROVE  Users' /\ Bytes'
    BY DEF CInv
  <1> USE ConstantsAssumption
  <1>1. /\ o \in Api /\ o \in Live /\ ~m_pfnOrig[o] /\ stack' = RemoveFirst(stack, o)
        /\ head' = head /\ tail' = tail /\ th' = th /\ old' = old /\ hProcess' = hProcess /\ bTrapped' = bTrapped
        /\ m_pfnOrig' = m_pfnOrig /\ tangled' = tangled /\ overlap' = overlap /\ failed' = failed
    BY DEF DeleteInert, code, history
  <1>2. Users /\ Bytes
    BY <1>1 DEF CInv, Clean
  <1>3. o \notin ActSet /\ o \notin SavedSet /\ ActSet' = ActSet /\ SavedSet' = SavedSet
    BY <1>1 DEF ActSet, SavedSet
  <1>4. /\ ActSaved' /\ Chain'
        /\ \A h : HeadOf(h, Live \ {o}, stack, ActSet) => HeadOf(h, Live, stack, ActSet)'
        /\ \A b : TailOf(b, Live \ {o}, ActSet) => TailOf(b, Live, ActSet)'
    BY <1>1, <1>2, <1>3, DroppedQuiet DEF Bytes
  <1>5. /\ \A h : HeadOf(h, Live, stack, ActSet) => HeadOf(h, Live \ {o}, stack, ActSet)
        /\ \A b : TailOf(b, Live, ActSet) => TailOf(b, Live \ {o}, ActSet)
    <2>1. Live \cap ActSet = (Live \ {o}) \cap ActSet
      BY <1>3
    <2> QED
      BY <2>1 DEF HeadOf, TailOf
  <1>6. /\ Live' = Live \ {o}
        /\ \A x, y : Over(stack', x, y) <=> Over(stack, x, y) /\ x # o /\ y # o
    BY <1>1, Dropped
  <1>7. \A t \in Threads : /\ Uses(t)' <=> Uses(t)
                           /\ Busy(t)' <=> Busy(t)
                           /\ Pending(t)' <=> Pending(t)
                           /\ On(t)' <=> On(t)
    BY <1>1 DEF Uses, Busy, Pending, On
  <1>8. Users'
    <2>1. OneUsed'
      BY <1>1, <1>2, <1>7 DEF Users, OneUsed
    <2>2. ASSUME NEW t \in Threads, Uses(t)
          PROVE  /\ th[t].obj \in Live'
                 /\ th[t].obj \in Api \/ t # Main \/ th[t].pc \in {"head", "flag"} => th[t].obj \in SavedSet'
                 /\ \A x \in Live' : Over(stack', x, th[t].obj) => x \notin SavedSet'
      <3>1. /\ th[t].obj \in Live
            /\ th[t].obj \in Api \/ t # Main \/ th[t].pc \in {"head", "flag"} => th[t].obj \in SavedSet
            /\ \A x \in Live : Over(stack, x, th[t].obj) => x \notin SavedSet
        BY <1>2, <2>2 DEF Users, NewestUsed
      <3> QED
        BY <1>1, <1>3, <1>6, <3>1
    <2>3. NewestUsed'
      BY <1>1, <1>7, <2>2 DEF NewestUsed
    <2>4. TrapAlone' /\ DeleteAlone'
      BY <1>1, <1>2, <1>7 DEF Users, TrapAlone, DeleteAlone
    <2> QED
      BY <2>1, <2>3, <2>4 DEF Users
  <1>9. Settled'
    BY <1>1, <1>2, <1>4, <1>5, <1>7 DEF Bytes, Settled, ApiUnused, NoFlag
  <1>10. Turning' /\ Mixed'
    BY <1>1, <1>2, <1>7 DEF Bytes, Turning, Mixed
  <1> QED
    BY <1>4, <1>8, <1>9, <1>10 DEF Bytes

-----------------------------------------------------------------------------
(* Operations begin. *)

\* Thread t enters an operation of the newest object.
Enters(t, o) ==
  /\ \A u \in Threads \ {t} : th'[u] = th[u]
  /\ th'[t].obj = o /\ th'[t].pc = (IF o \in Api THEN "head" ELSE "test") /\ th'[t].op # "new"
  /\ t # Main => th'[t].op \in {"on", "off"}
  /\ ~Busy(t)
  /\ Uses(t) => t # Main /\ th[t].obj = o
  /\ \A u \in Threads \ {t} : Uses(u) => th[u].obj = o
  /\ o \in Trap => \A u \in Threads \ {t} : ~(Busy(u) /\ th[u].obj = o)
  /\ o \in Api \/ t # Main => o \in SavedSet
  /\ t # Main => th[Main].op # "delete"
  /\ th'[t].op = "delete" => t = Main /\ ~th'[t].inside /\ \A u \in Threads \ {t} : ~th[u].inside

LEMMA CEnter ==
  ASSUME PInv, Users, Bytes, NEW t \in Threads, NEW o \in Live, o = stack[1], Enters(t, o),
         UNCHANGED <<head, tail, stack, m_pfnOrig, hProcess, old, bTrapped>>
  PROVE  Users' /\ Bytes'
  <1> USE ConstantsAssumption
  <1>1. o \in Hooks /\ (o \in Api <=> o \notin Trap)
    BY DEF PInv, TypeOK, Live, Hooks
  <1>2. Live' = Live /\ ActSet' = ActSet /\ SavedSet' = SavedSet
    BY SavedSame, ActSame DEF Live
  <1>3. \A u \in Threads \ {t} : /\ (Uses(u)' <=> Uses(u)) /\ (Busy(u)' <=> Busy(u)) /\ th'[u] = th[u]
                                 /\ (Pending(u)' <=> Pending(u)) /\ (On(u)' <=> On(u))
    BY DEF Enters, Uses, Busy, Pending, On
  <1>4. /\ Uses(t)' /\ Busy(t)' /\ th'[t].obj = o /\ Pending(t)' /\ th'[t].pc \notin {"flag", "tail"}
        /\ th'[t].pc = "head" => o \in Api
    BY DEF Enters, Uses, Busy, Pending
  <1>5. \A u \in Threads : Uses(u)' => th'[u].obj = o
    BY <1>3, <1>4 DEF Enters
  <1>6. \A x : ~Over(stack, x, o)
    <2>1. stack \in Stacks /\ Elems(stack) # {}
      BY StackTyped, LiveElems DEF PInv
    <2> QED
      BY <2>1, Newest1
  <1>7. Users'
    <2>1. OneUsed'
      BY <1>5 DEF OneUsed
    <2>2. NewestUsed'
      <3>1. ASSUME NEW u \in Threads, Uses(u)'
            PROVE  /\ th'[u].obj \in Live
                   /\ th'[u].obj \in Api \/ u # Main \/ th'[u].pc \in {"head", "flag"} => th'[u].obj \in SavedSet
                   /\ \A x \in Live : Over(stack, x, th'[u].obj) => x \notin SavedSet
        <4>1. CASE u = t
          BY <1>4, <1>6, <4>1 DEF Enters
        <4>2. CASE u # t
          BY <1>3, <1>5, <1>6, <3>1, <4>2 DEF Users, NewestUsed
        <4> QED
          BY <4>1, <4>2
      <3> QED
        BY <1>2, <3>1 DEF NewestUsed
    <2>3. TrapAlone'
      <3>1. ASSUME NEW u \in Threads, NEW v \in Threads, Busy(u)', Busy(v)', th'[u].obj = th'[v].obj, th'[u].obj \in Trap
            PROVE  u = v
        <4>1. CASE u # t /\ v # t
          BY <1>3, <3>1, <4>1 DEF Users, TrapAlone
        <4>2. CASE u = t \/ v = t
          BY <1>3, <1>4, <3>1, <4>2 DEF Enters
        <4> QED
          BY <4>1, <4>2
      <3> QED
        BY <3>1 DEF TrapAlone
    <2>4. DeleteAlone'
      BY <1>3 DEF Enters, Users, DeleteAlone, Threads
    <2> QED
      BY <2>1, <2>2, <2>3, <2>4 DEF Users
  <1>8. ActSaved' /\ Chain'
    BY <1>2 DEF Bytes, ActSaved, Chain
  <1>9. \A u \in Threads : th[u].pc = "flag" => u # t
    BY DEF Enters, Busy
  <1>10. Turning'
    BY <1>3, <1>4 DEF Bytes, Turning
  <1>11. Settled'
    <2>1. ApiUnused' => ApiUnused /\ (NoFlag' => NoFlag)
      BY <1>3, <1>4, <1>9 DEF ApiUnused, NoFlag, Enters
    <2> QED
      BY <1>2, <2>1 DEF Bytes, Settled
  <1>12. Mixed'
    <2>1. CASE o \notin Api
      BY <1>5, <2>1 DEF Mixed
    <2>2. CASE o \in Api
      <3>1. head \in {o, old[o].head} /\ tail \in {"jmp", old[o].tail}
        <4>1. CASE ApiUnused
          <5>1. NoFlag
            <6>1. ASSUME NEW u \in Threads, th[u].pc = "flag"
                  PROVE  FALSE
              <7>1. u # t /\ Uses(u) /\ th[u].obj \in Trap
                BY <1>9, <6>1 DEF PInv, Positions, Position, Uses, Busy
              <7> QED
                BY <1>1, <2>2, <7>1 DEF Enters
            <6> QED
              BY <6>1 DEF NoFlag
          <5>2. o \in ActSet
            BY <2>2, <1>1 DEF Enters, SavedSet, ActSet
          <5>3. HeadOf(head, Live, stack, ActSet) /\ TailOf(tail, Live, ActSet)
            BY <4>1, <5>1 DEF Bytes, Settled
          <5>4. head = o
            BY <1>6, <5>2, <5>3 DEF HeadOf
          <5>5. tail = "jmp"
            BY <2>2, <5>2, <5>3 DEF TailOf
          <5> QED
            BY <5>4, <5>5
        <4>2. CASE ~ApiUnused
          <5>1. PICK u \in Threads : Uses(u) /\ th[u].obj \in Api
            BY <4>2 DEF ApiUnused
          <5>2. th[u].obj = o
            BY <5>1 DEF Enters
          <5> QED
            BY <5>1, <5>2 DEF Bytes, Mixed
        <4> QED
          BY <4>1, <4>2
      <3>2. ~(th'[Main].op = "delete" /\ th'[Main].pc = "tail")
        BY <1>3, <1>4 DEF Enters, Threads
      <3> QED
        BY <1>4, <1>5, <3>1, <3>2 DEF Mixed
    <2> QED
      BY <2>1, <2>2
  <1> QED
    BY <1>7, <1>8, <1>10, <1>11, <1>12 DEF Bytes

\* The destructors, Change and Restore, called by Main.
LEMMA CMainBegins ==
  ASSUME PInv, CInv, NEW o \in Live, NEW op \in {"delete", "on", "off"}, th[Main] = Out, Begin(Main, o, op),
         op = "delete" => /\ o \in Api => m_pfnOrig[o]
                          /\ \A t \in Workers : th[t].obj # o,
         op # "delete" => o \in Trap,
         UNCHANGED <<code, objects, created, failed>>
  PROVE  CInv'
  <1> SUFFICES ASSUME Clean'
               PROVE  Users' /\ Bytes'
    BY DEF CInv
  <1> USE ConstantsAssumption
  <1>1. /\ tangled' = FALSE /\ ~tangled /\ o = stack[1]
        /\ \A u \in Threads \ {Main} : \A p \in Hooks \ {o} : ~Using(u, p)
    BY DEF Clean, Begin
  <1>2. UNCHANGED <<head, tail, stack, m_pfnOrig, hProcess, old, bTrapped, failed>>
    BY DEF code, objects
  <1>3. Users /\ Bytes
    <2>1. Clean
      BY <1>1, <1>2 DEF Clean, Begin
    <2> QED
      BY <2>1 DEF CInv
  <1>4. o \in Hooks /\ Main \in Threads /\ th \in [Threads -> ThreadStates]
    BY DEF PInv, TypeOK, Live, Threads
  <1>5. \A u \in Threads \ {Main} : Uses(u) => th[u].obj = o
    BY <1>1, UserObj, UsingIsUses
  <1>6. o \in Trap => \A u \in Threads \ {Main} : ~(Busy(u) /\ th[u].obj = o)
    <2>1. ASSUME o \in Trap, NEW u \in Threads \ {Main}, Busy(u), th[u].obj = o
          PROVE  FALSE
      <3>1. o \in overlap'
        BY <2>1 DEF Begin
      <3> QED
        BY <2>1, <3>1 DEF Clean
    <2> QED
      BY <2>1
  <1>7. /\ \A u \in Threads \ {Main} : th'[u] = th[u]
        /\ th'[Main].obj = o /\ th'[Main].pc = (IF o \in Api THEN "head" ELSE "test") /\ th'[Main].op = op
        /\ ~th'[Main].inside
    BY <1>4 DEF Begin, Out
  <1>8. ~Busy(Main) /\ ~Uses(Main)
    BY DEF Busy, Uses, Out
  <1>9. o \in Api => o \in SavedSet
    BY <1>4 DEF SavedSet
  <1>10. op = "delete" => \A u \in Threads \ {Main} : ~th[u].inside
    BY <1>5 DEF Uses, Threads
  <1>11. Enters(Main, o)
    BY <1>5, <1>6, <1>7, <1>8, <1>9, <1>10 DEF Enters
  <1> QED
    BY <1>1, <1>2, <1>3, <1>4, <1>11, CEnter

\* The hook procedure puts the hook back.
LEMMA CPutBack ==
  ASSUME PInv, CInv, NEW t \in Workers, PutBack(t)
  PROVE  CInv'
  <1> SUFFICES ASSUME Clean'
               PROVE  Users' /\ Bytes'
    BY DEF CInv
  <1> USE ConstantsAssumption
  <1> DEFINE o == th[t].obj
  <1>1. th[t].pc = "inner" /\ Begin(t, o, "on") /\ UNCHANGED <<code, objects, created, failed>>
    BY DEF PutBack
  <1>2. UNCHANGED <<head, tail, stack, m_pfnOrig, hProcess, old, bTrapped, failed>>
    BY <1>1 DEF code, objects
  <1>3. Users /\ Bytes
    <2>1. Clean
      BY <1>1, <1>2 DEF Clean, Begin
    <2> QED
      BY <2>1 DEF CInv
  <1>4. t \in Threads /\ t # Main /\ th \in [Threads -> ThreadStates] /\ th[t].inside /\ Uses(t) /\ ~Busy(t)
    BY <1>1 DEF PInv, TypeOK, Threads, Positions, Position, Uses, Busy
  <1>5. o \in Hooks /\ o \in Live /\ o \in SavedSet /\ th[Main].op # "delete"
    BY <1>3, <1>4, UserObj DEF Users, NewestUsed, DeleteAlone
  <1>6. /\ o = stack[1]
        /\ \A u \in Threads \ {t} : \A p \in Hooks \ {o} : ~Using(u, p)
    BY <1>1, <1>5 DEF Clean, Begin
  <1>7. \A u \in Threads \ {t} : Uses(u) => th[u].obj = o
    BY <1>6, UserObj, UsingIsUses
  <1>8. o \in Trap => \A u \in Threads \ {t} : ~(Busy(u) /\ th[u].obj = o)
    <2>1. ASSUME o \in Trap, NEW u \in Threads \ {t}, Busy(u), th[u].obj = o
          PROVE  FALSE
      <3>1. o \in overlap'
        BY <1>1, <2>1 DEF Begin
      <3> QED
        BY <2>1, <3>1 DEF Clean
    <2> QED
      BY <2>1
  <1>9. /\ \A u \in Threads \ {t} : th'[u] = th[u]
        /\ th'[t].obj = o /\ th'[t].pc = (IF o \in Api THEN "head" ELSE "test") /\ th'[t].op = "on"
    <2>1. th[t] \in ThreadStates
      BY <1>4
    <2> QED
      BY <1>1, <1>4, <2>1 DEF Begin, ThreadStates
  <1>10. Enters(t, o)
    BY <1>4, <1>5, <1>7, <1>8, <1>9 DEF Enters
  <1> HIDE DEF o
  <1> QED
    BY <1>2, <1>3, <1>4, <1>5, <1>6, <1>10, CEnter

\* A call of the function takes a worker into the hook procedure.
LEMMA CCallHooked ==
  ASSUME PInv, CInv, NEW t \in Workers, CallHooked(t)
  PROVE  CInv'
  <1> SUFFICES ASSUME Clean'
               PROVE  Users' /\ Bytes'
    BY DEF CInv
  <1> USE ConstantsAssumption
  <1> DEFINE o == head
  <1>1. /\ th[t] = Out /\ o \in Live /\ UNCHANGED <<code, objects, created, failed>>
        /\ th' = [th EXCEPT ![t] = [pc |-> IF o \in Api THEN "head" ELSE "test", op |-> "off",
                                    obj |-> o, inside |-> TRUE]]
    BY DEF CallHooked
  <1>2. UNCHANGED <<head, tail, stack, m_pfnOrig, hProcess, old, bTrapped, failed>>
    BY <1>1 DEF code, objects
  <1>3. /\ ~tangled /\ o = stack[1] /\ ~(th[Main].op = "delete" /\ th[Main].obj = o)
        /\ \A u \in Threads \ {t} : \A p \in Hooks \ {o} : ~Using(u, p)
    BY DEF CallHooked, Clean
  <1>4. Clean
    BY <1>2, <1>3 DEF Clean, CallHooked
  <1>5. Users /\ Bytes
    BY <1>4 DEF CInv
  <1>6. t \in Threads /\ t # Main /\ th \in [Threads -> ThreadStates] /\ ~Uses(t) /\ ~Busy(t) /\ Main \in Threads
    BY <1>1 DEF PInv, TypeOK, Threads, Uses, Busy, Out
  <1>7. o \in Hooks
    BY <1>1 DEF PInv, TypeOK, Live
  <1>8. \A u \in Threads \ {t} : Uses(u) => th[u].obj = o
    BY <1>3, UserObj, UsingIsUses
  <1>9. o \in Trap => \A u \in Threads \ {t} : ~(Busy(u) /\ th[u].obj = o)
    <2>1. ASSUME o \in Trap, NEW u \in Threads \ {t}, Busy(u), th[u].obj = o
          PROVE  FALSE
      <3>1. o \in overlap'
        BY <2>1 DEF CallHooked
      <3> QED
        BY <2>1, <3>1 DEF Clean
    <2> QED
      BY <2>1
  <1>10. th[Main].op # "delete"
    <2>1. ASSUME th[Main].op = "delete"
          PROVE  FALSE
      <3>1. Uses(Main)
        BY <1>6, <2>1 DEF PInv, TypeOK, Positions, Position, ThreadStates, Labels, Uses, Busy, Out
      <3> QED
        BY <1>3, <1>6, <1>8, <2>1, <3>1
    <2> QED
      BY <2>1
  <1>11. o \in SavedSet
    <2>1. CASE \E u \in Threads : Uses(u)
      <3>1. PICK u \in Threads : Uses(u)
        BY <2>1
      <3>2. u # t /\ th[u].obj = o
        BY <1>6, <1>8, <3>1
      <3>3. o \in Api \/ u # Main
        BY <1>7, <1>9, <3>1, <3>2, UserObj DEF Hooks
      <3> QED
        BY <1>5, <3>1, <3>2, <3>3 DEF Users, NewestUsed
    <2>2. CASE \A u \in Threads : ~Uses(u)
      <3>1. HeadOf(o, Live, stack, ActSet)
        BY <1>5, <2>2, NoUsers DEF Bytes, Settled
      <3>2. o \in ActSet
        BY <1>7, <3>1 DEF HeadOf
      <3> QED
        BY <1>1, <1>5, <3>2 DEF Bytes, ActSaved
    <2> QED
      BY <2>1, <2>2
  <1>12. /\ \A u \in Threads \ {t} : th'[u] = th[u]
         /\ th'[t].obj = o /\ th'[t].pc = (IF o \in Api THEN "head" ELSE "test") /\ th'[t].op = "off"
    BY <1>1, <1>6
  <1>13. Enters(t, o)
    BY <1>6, <1>8, <1>9, <1>10, <1>11, <1>12 DEF Enters
  <1> HIDE DEF o
  <1> QED
    BY <1>1, <1>2, <1>3, <1>5, <1>6, <1>13, CEnter

\* A call that runs into bytes that are no code.
LEMMA CCallWild ==
  ASSUME PInv, CInv, NEW t \in Workers, CallWild(t)
  PROVE  CInv'
  <1> SUFFICES ASSUME Clean'
               PROVE  Users' /\ Bytes'
    BY DEF CInv
  <1>1. th[t] = Out /\ th' = [th EXCEPT ![t].pc = "wild"] /\ UNCHANGED <<code, objects, history>>
    BY DEF CallWild
  <1>2. UNCHANGED <<head, tail, stack, m_pfnOrig, hProcess, old, bTrapped, failed, tangled, overlap>>
    BY <1>1 DEF code, objects, history
  <1>3. Users /\ Bytes
    BY <1>2 DEF CInv, Clean
  <1>4. t \in Threads /\ th \in [Threads -> ThreadStates] /\ t # Main
    BY ConstantsAssumption DEF PInv, TypeOK, Threads
  <1>5. /\ th'[t].pc = "wild" /\ th'[t].op = "none" /\ ~th'[t].inside
        /\ \A u \in Threads \ {t} : th'[u] = th[u]
    BY <1>1, <1>4 DEF Out
  <1>6. Live' = Live /\ ActSet' = ActSet /\ SavedSet' = SavedSet
    BY <1>2, SavedSame, ActSame DEF Live
  <1>7. ~Uses(t) /\ ~Uses(t)' /\ ~Busy(t)' /\ th[t].pc # "flag"
    BY <1>1, <1>5 DEF Uses, Busy, Out
  <1>8. Users'
    BY <1>2, <1>3, <1>4, <1>5, <1>6, <1>7, UsersStay
  <1>9. \A u \in Threads : /\ (Uses(u)' <=> Uses(u)) /\ (Uses(u) => th'[u] = th[u])
                           /\ (Pending(u)' <=> Pending(u)) /\ (th'[u].pc = "flag" <=> th[u].pc = "flag")
    BY <1>5, <1>7 DEF Uses, Busy, Pending, On
  <1>10. ActSaved' /\ Chain'
    BY <1>2, <1>3, <1>6 DEF Bytes, ActSaved, Chain
  <1>11. Settled'
    BY <1>2, <1>3, <1>6, <1>9 DEF Bytes, Settled, ApiUnused, NoFlag
  <1>12. Turning'
    BY <1>2, <1>3, <1>5 DEF Bytes, Turning, On
  <1>13. th'[Main] = th[Main]
    BY <1>4, <1>5 DEF Threads
  <1>14. Mixed'
    BY <1>2, <1>3, <1>9, <1>13 DEF Bytes, Mixed
  <1> QED
    BY <1>8, <1>10, <1>11, <1>12, <1>14 DEF Bytes

-----------------------------------------------------------------------------
(* Operations go on. *)

\* The flag of a CHookClass asks for a write.
LEMMA CTestGoOn ==
  ASSUME PInv, CInv, NEW t \in Threads, TestGoOn(t)
  PROVE  CInv'
  <1> SUFFICES ASSUME Clean'
               PROVE  Users' /\ Bytes'
    BY DEF CInv
  <1> USE ConstantsAssumption
  <1>1. /\ th[t].pc = "test" /\ hProcess[th[t].obj] /\ th' = [th EXCEPT ![t].pc = "head"]
        /\ UNCHANGED <<head, tail, stack, m_pfnOrig, hProcess, old, bTrapped, failed, tangled, overlap>>
    BY DEF TestGoOn, code, objects, history
  <1>2. Users /\ Bytes
    BY <1>1 DEF CInv, Clean
  <1>3. /\ Busy(t) /\ Uses(t) /\ th[t].obj \in Trap /\ th[t] \in ThreadStates /\ th \in [Threads -> ThreadStates]
    BY <1>1 DEF Busy, Uses, PInv, Positions, Position, TypeOK
  <1>4. /\ th'[t].pc = "head" /\ th'[t].op = th[t].op /\ th'[t].inside = th[t].inside
        /\ th'[t].obj = th[t].obj /\ \A u \in Threads \ {t} : th'[u] = th[u]
    BY <1>1, <1>3 DEF ThreadStates
  <1>5. Live' = Live /\ ActSet' = ActSet /\ SavedSet' = SavedSet
    BY <1>1, SavedSame, ActSame DEF Live
  <1>6. th[t].obj \in SavedSet
    BY <1>1, <1>3 DEF SavedSet, Hooks
  <1>7. Users'
    BY <1>1, <1>2, <1>3, <1>4, <1>5, <1>6, UsersStay
  <1>8. ApiUnused /\ ApiUnused'
    <2>1. ApiUnused
      BY <1>2, <1>3, UserFacts DEF Bytes
    <2>2. \A u \in Threads : Uses(u)' => Uses(u) /\ th'[u].obj = th[u].obj
      BY <1>3, <1>4 DEF Uses, Busy
    <2> QED
      BY <2>1, <2>2 DEF ApiUnused
  <1>9. ActSaved' /\ Chain'
    BY <1>1, <1>2, <1>5 DEF Bytes, ActSaved, Chain
  <1>10. \A u \in Threads : (th'[u].pc = "flag" <=> th[u].pc = "flag") /\ (th[u].pc = "flag" => u # t)
    BY <1>1, <1>4
  <1>11. Settled'
    BY <1>1, <1>2, <1>5, <1>8, <1>10 DEF Bytes, Settled, NoFlag
  <1>12. Turning'
    BY <1>1, <1>2, <1>4, <1>10 DEF Bytes, Turning, On
  <1>13. Mixed'
    BY <1>8 DEF ApiUnused, Mixed
  <1> QED
    BY <1>7, <1>9, <1>11, <1>12, <1>13 DEF Bytes

\* The first five bytes are written.
LEMMA CWriteHead ==
  ASSUME PInv, CInv, NEW t \in Threads, WriteHead(t)
  PROVE  CInv'
  <1> SUFFICES ASSUME Clean'
               PROVE  Users' /\ Bytes'
    BY DEF CInv
  <1> USE ConstantsAssumption
  <1> DEFINE o == th[t].obj
  <1>1. /\ th[t].pc = "head" /\ th' = [th EXCEPT ![t].pc = IF o \in Api THEN "tail" ELSE "flag"]
        /\ head' = (IF On(t) THEN o ELSE old[o].head)
        /\ UNCHANGED <<tail, stack, m_pfnOrig, hProcess, old, bTrapped, failed, tangled, overlap>>
    BY DEF WriteHead, objects, history
  <1>2. Users /\ Bytes
    BY <1>1 DEF CInv, Clean
  <1>3. /\ Busy(t) /\ Uses(t) /\ th[t] \in ThreadStates /\ th \in [Threads -> ThreadStates]
    BY <1>1 DEF Busy, Uses, PInv, TypeOK
  <1>4. /\ th'[t].pc = (IF o \in Api THEN "tail" ELSE "flag") /\ th'[t].op = th[t].op
        /\ th'[t].inside = th[t].inside /\ th'[t].obj = o /\ \A u \in Threads \ {t} : th'[u] = th[u]
    BY <1>1, <1>3 DEF ThreadStates
  <1>5. Live' = Live /\ ActSet' = ActSet /\ SavedSet' = SavedSet
    BY <1>1, SavedSame, ActSame DEF Live
  <1>6. /\ o \in Hooks /\ o \in Live /\ o \in SavedSet
        /\ \A u \in Threads : Uses(u) => th[u].obj = o
        /\ o \in Api => ~ApiUnused /\ NoFlag
        /\ o \notin Api => ApiUnused
        /\ th[Main].op = "delete" => t = Main
    BY <1>1, <1>2, <1>3, UserFacts DEF Bytes, Users, NewestUsed
  <1>7. Busy(t)' /\ Uses(t)'
    BY <1>4 DEF Busy, Uses
  <1>8. \A u \in Threads \ {t} : /\ (Uses(u)' <=> Uses(u)) /\ (Busy(u)' <=> Busy(u)) /\ (Pending(u)' <=> Pending(u))
                                 /\ (On(u)' <=> On(u))
    BY <1>4 DEF Uses, Busy, Pending, On
  <1>9. On(t)' <=> On(t)
    BY <1>4 DEF On
  <1>10. Users'
    BY <1>1, <1>2, <1>3, <1>4, <1>5, <1>6, UsersStay
  <1>11. ActSaved' /\ Chain'
    BY <1>1, <1>2, <1>5 DEF Bytes, ActSaved, Chain
  <1> HIDE DEF o
  <1>12. CASE o \notin Api
    <2>1. ApiUnused /\ ApiUnused'
      BY <1>4, <1>6, <1>8, <1>12 DEF ApiUnused
    <2>2. ~NoFlag'
      BY <1>4, <1>12 DEF NoFlag
    <2>3. Settled'
      BY <1>1, <1>2, <1>5, <2>1, <2>2 DEF Bytes, Settled
    <2>4. \A u \in Threads \ {t} : th'[u].pc # "flag"
      <3>1. ASSUME NEW u \in Threads \ {t}, th[u].pc = "flag"
            PROVE  FALSE
        <4>1. Busy(u) /\ Uses(u)
          BY <3>1 DEF Busy, Uses
        <4>2. th[u].obj = o /\ o \in Trap
          BY <1>6, <1>12, <4>1 DEF Hooks
        <4> QED
          BY <1>2, <1>3, <4>1, <4>2 DEF Users, TrapAlone, o
      <3> QED
        BY <1>4, <3>1
    <2>5. Turning'
      BY <1>1, <1>4, <1>9, <2>4 DEF Turning
    <2>6. Mixed'
      BY <2>1 DEF ApiUnused, Mixed
    <2> QED
      BY <1>10, <1>11, <2>3, <2>5, <2>6 DEF Bytes
  <1>13. CASE o \in Api
    <2>1. ~ApiUnused'
      BY <1>4, <1>7, <1>13 DEF ApiUnused
    <2>2. Settled'
      BY <2>1 DEF Settled
    <2>3. Turning'
      BY <1>4, <1>6, <1>13 DEF NoFlag, Turning
    <2>4. tail \in {"jmp", old[o].tail}
      BY <1>2, <1>3, <1>13 DEF Bytes, Mixed, o
    <2>5. head' \in {o, old[o].head} /\ (head' # o => Pending(t)')
      BY <1>1, <1>7, <1>9 DEF Pending
    <2>6. th'[Main].op = "delete" => head' = old[o].head
      <3>1. th'[Main].op = "delete" => th[Main].op = "delete"
        BY <1>4 DEF Threads
      <3>2. th'[Main].op = "delete" => ~On(t)
        BY <1>6, <3>1 DEF On
      <3> QED
        BY <1>1, <3>2
    <2>7. Mixed'
      <3>1. \A u \in Threads : Uses(u)' => th'[u].obj = o
        BY <1>4, <1>6, <1>8
      <3> QED
        BY <1>1, <2>4, <2>5, <2>6, <3>1 DEF Mixed
    <2> QED
      BY <1>10, <1>11, <2>2, <2>3, <2>7 DEF Bytes
  <1> QED
    BY <1>12, <1>13

-----------------------------------------------------------------------------
(* Operations end. *)

\* Who uses the object afterwards.
LEMMA AfterFinish ==
  ASSUME PInv, Users, NEW t \in Threads, Busy(t), Finish(t), Leave(t),
         m_pfnOrig' = m_pfnOrig, hProcess' = hProcess
  PROVE  /\ Users'
         /\ \A u \in Threads : Uses(u)' => Uses(u) /\ th'[u].obj = th[u].obj
         /\ \A u \in Threads \ {t} : th'[u] = th[u]
         /\ th'[t].pc # "flag"
         /\ th[t].op # "delete" => stack' = stack
         /\ th[t].op = "delete" => /\ th[t].obj \in Live /\ stack' = RemoveFirst(stack, th[t].obj)
                                   /\ \A u \in Threads : ~Uses(u)'
         /\ t # Main /\ th[t].op = "off" => Pending(t)'
         /\ ~(t # Main /\ th[t].op = "off") => ~Uses(t)'
  <1>1. th[t] \in ThreadStates /\ Position(t, th[t]) /\ th \in [Threads -> ThreadStates]
    BY DEF PInv, TypeOK, Positions
  <1>2. /\ \A u \in Threads \ {t} : th'[u] = th[u]
        /\ t = Main \/ th[t].op = "on" => th'[t] = Out
        /\ t # Main /\ th[t].op # "on" => th'[t] = [th[t] EXCEPT !.pc = "inner"]
        /\ ~Busy(t)'
    BY Finishes
  <1>3. t # Main => th[t].op \in {"on", "off"} /\ th[t].inside
    BY <1>1 DEF Position, Busy, ThreadStates
  <1>4. CASE t # Main /\ th[t].op = "off"
    <2>1. /\ th'[t].pc = "inner" /\ th'[t].op = "off" /\ th'[t].inside /\ th'[t].obj = th[t].obj
          /\ stack' = stack
      BY <1>1, <1>2, <1>3, <1>4, Leaves DEF ThreadStates
    <2>2. SavedSet' = SavedSet
      BY SavedSame
    <2>3. Uses(t) /\ Pending(t)' /\ Uses(t)'
      BY <2>1 DEF Uses, Pending, On
    <2>4. Users'
      BY <1>2, <1>3, <1>4, <2>1, <2>2, <2>3, UsersStay
    <2>5. \A u \in Threads : Uses(u)' => Uses(u) /\ th'[u].obj = th[u].obj
      BY <1>2, <2>1, <2>3 DEF Uses, Busy
    <2> QED
      BY <1>2, <1>4, <2>1, <2>3, <2>4, <2>5
  <1>5. CASE ~(t # Main /\ th[t].op = "off")
    <2>1. th'[t] = Out
      BY <1>2, <1>3, <1>5
    <2>2. ~Uses(t)' /\ th'[t].pc = "out" /\ th'[t].op = "none" /\ ~th'[t].inside
      BY <2>1 DEF Uses, Busy, Out
    <2>3. \A u \in Threads : Uses(u)' => Uses(u) /\ th'[u].obj = th[u].obj
      BY <1>2, <2>2 DEF Uses, Busy
    <2>4. CASE th[t].op # "delete"
      <3>1. stack' = stack
        BY <2>4, Leaves
      <3>2. SavedSet' = SavedSet
        BY SavedSame
      <3>3. Users'
        BY <1>2, <2>2, <3>1, <3>2, UsersStay
      <3> QED
        BY <1>2, <1>5, <2>2, <2>3, <2>4, <3>1, <3>3
    <2>5. CASE th[t].op = "delete"
      <3>1. t = Main /\ th[t].obj \in Live /\ stack' = RemoveFirst(stack, th[t].obj)
        BY <2>5, Leaves
      <3>2. \A u \in Threads : ~Uses(u)'
        <4>1. ASSUME NEW u \in Threads, Uses(u)'
              PROVE  FALSE
          <5>1. u # Main /\ Uses(u)
            BY <2>2, <2>3, <3>1, <4>1
          <5>2. th[u].inside
            BY <5>1, UserObj
          <5> QED
            BY <2>5, <3>1, <5>2 DEF Users, DeleteAlone
        <4> QED
          BY <4>1
      <3>3. \A u \in Threads : ~Busy(u)' /\ ~th'[u].inside
        BY <3>2 DEF Uses
      <3>4. Users'
        BY <3>2, <3>3 DEF Users, OneUsed, NewestUsed, TrapAlone, DeleteAlone
      <3> QED
        BY <1>2, <1>5, <2>2, <2>3, <2>5, <3>1, <3>2, <3>4
    <2> QED
      BY <2>4, <2>5
  <1> QED
    BY <1>4, <1>5

LEMMA UnderRest ==
  ASSUME NEW s \in Stacks, NEW A, NEW o \in Elems(s), \A x \in Elems(s) : Over(s, x, o) => x \notin A
  PROVE  /\ Under(s, o) \cap A = (Elems(s) \ {o}) \cap A
         /\ o \notin Under(s, o)
  BY Order DEF Under

\* CHookClass::Restore and Change, when the flag says that there is nothing to do.
LEMMA CTestDone ==
  ASSUME PInv, CInv, NEW t \in Threads, TestDone(t)
  PROVE  CInv'
  <1> SUFFICES ASSUME Clean'
               PROVE  Users' /\ Bytes'
    BY DEF CInv
  <1> USE ConstantsAssumption
  <1> DEFINE o == th[t].obj
  <1>1. /\ th[t].pc = "test" /\ (~hProcess[o] \/ bTrapped[o] = On(t)) /\ Finish(t) /\ Leave(t)
        /\ UNCHANGED <<head, tail, m_pfnOrig, hProcess, old, bTrapped, failed, tangled, overlap>>
    BY DEF TestDone, code, history
  <1>2. Users /\ Bytes
    BY <1>1 DEF CInv, Clean
  <1>3. Busy(t) /\ Uses(t) /\ o \in Trap /\ o \notin Api
    BY <1>1 DEF Busy, Uses, PInv, Positions, Position
  <1>4. /\ Users'
        /\ \A u \in Threads : Uses(u)' => Uses(u) /\ th'[u].obj = th[u].obj
        /\ \A u \in Threads \ {t} : th'[u] = th[u]
        /\ th'[t].pc # "flag"
        /\ th[t].op # "delete" => stack' = stack
        /\ th[t].op = "delete" => o \in Live /\ stack' = RemoveFirst(stack, o)
    BY <1>1, <1>2, <1>3, AfterFinish
  <1>5. ActSet' = ActSet /\ SavedSet' = SavedSet
    BY <1>1, SavedSame, ActSame
  <1>6. ApiUnused /\ ApiUnused' /\ \A u \in Threads : Uses(u) => th[u].obj = o
    <2>1. ApiUnused /\ \A u \in Threads : Uses(u) => th[u].obj = o
      BY <1>2, <1>3, UserFacts DEF Bytes
    <2> QED
      BY <1>3, <1>4, <2>1 DEF ApiUnused
  <1>7. \A u \in Threads : th'[u].pc = "flag" <=> th[u].pc = "flag"
    BY <1>1, <1>4
  <1>8. Turning'
    BY <1>1, <1>2, <1>4, <1>7 DEF Bytes, Turning, On
  <1>9. Mixed'
    BY <1>6 DEF ApiUnused, Mixed
  <1>10. TailOf(tail, Live, ActSet) /\ (NoFlag' => HeadOf(head, Live, stack, ActSet))
    BY <1>2, <1>6, <1>7 DEF Bytes, Settled, NoFlag
  <1>11. CASE th[t].op # "delete"
    <2>1. stack' = stack /\ Live' = Live
      BY <1>4, <1>11 DEF Live
    <2>2. ActSaved' /\ Chain'
      BY <1>1, <1>2, <1>5, <2>1 DEF Bytes, ActSaved, Chain
    <2>3. Settled'
      BY <1>1, <1>5, <1>10, <2>1 DEF Settled
    <2> QED
      BY <1>4, <1>8, <1>9, <2>2, <2>3 DEF Bytes
  <1>12. CASE th[t].op = "delete"
    <2>1. o \in Live /\ stack' = RemoveFirst(stack, o) /\ ActSaved /\ Chain
      BY <1>2, <1>4, <1>12 DEF Bytes
    <2>2. o \notin ActSet
      <3>1. CASE ~hProcess[o]
        BY <1>3, <2>1, <3>1 DEF ActSaved, SavedSet
      <3>2. CASE bTrapped[o] = On(t)
        BY <1>3, <1>12, <3>2 DEF On, ActSet
      <3> QED
        BY <1>1, <3>1, <3>2
    <2> HIDE DEF o
    <2>3. /\ ActSaved' /\ Chain'
          /\ \A h : HeadOf(h, Live \ {o}, stack, ActSet) => HeadOf(h, Live, stack, ActSet)'
          /\ \A b : TailOf(b, Live \ {o}, ActSet) => TailOf(b, Live, ActSet)'
      BY <1>1, <1>5, <2>1, <2>2, DroppedQuiet
    <2>4. Live \cap ActSet = (Live \ {o}) \cap ActSet
      BY <2>2
    <2>5. TailOf(tail, Live \ {o}, ActSet) /\ (NoFlag' => HeadOf(head, Live \ {o}, stack, ActSet))
      BY <1>10, <2>4 DEF TailOf, HeadOf
    <2>6. Settled'
      BY <1>1, <2>3, <2>5 DEF Settled
    <2> QED
      BY <1>4, <1>8, <1>9, <2>3, <2>6 DEF Bytes
  <1> QED
    BY <1>11, <1>12

\* CAPIHook: the last three bytes are written.
LEMMA CWriteTail ==
  ASSUME PInv, CInv, NEW t \in Threads, WriteTail(t)
  PROVE  CInv'
  <1> SUFFICES ASSUME Clean'
               PROVE  Users' /\ Bytes'
    BY DEF CInv
  <1> USE ConstantsAssumption
  <1> DEFINE o == th[t].obj
  <1>1. /\ th[t].pc = "tail" /\ Finish(t) /\ Leave(t)
        /\ tail' = (IF On(t) THEN "jmp" ELSE old[o].tail)
        /\ UNCHANGED <<head, m_pfnOrig, hProcess, old, bTrapped, failed, tangled, overlap>>
    BY DEF WriteTail, history
  <1>2. Users /\ Bytes
    BY <1>1 DEF CInv, Clean
  <1>3. Busy(t) /\ Uses(t) /\ o \in Api /\ Position(t, th[t]) /\ th[t] \in ThreadStates
    BY <1>1 DEF Busy, Uses, PInv, Positions, Position, TypeOK
  <1>4. /\ Users'
        /\ \A u \in Threads : Uses(u)' => Uses(u) /\ th'[u].obj = th[u].obj
        /\ \A u \in Threads \ {t} : th'[u] = th[u]
        /\ th'[t].pc # "flag"
        /\ th[t].op # "delete" => stack' = stack
        /\ th[t].op = "delete" => /\ o \in Live /\ stack' = RemoveFirst(stack, o)
                                  /\ \A u \in Threads : ~Uses(u)'
        /\ t # Main /\ th[t].op = "off" => Pending(t)'
        /\ ~(t # Main /\ th[t].op = "off") => ~Uses(t)'
    BY <1>1, <1>2, <1>3, AfterFinish
  <1>5. /\ ActSet' = ActSet /\ SavedSet' = SavedSet /\ stack \in Stacks /\ Live = Elems(stack)
        /\ ActSaved /\ Chain
    BY <1>1, <1>2, SavedSame, ActSame, StackTyped, LiveElems DEF PInv, Bytes
  <1>6. /\ o \in Live /\ NoFlag /\ \A u \in Threads : Uses(u) => th[u].obj = o
        /\ \A x \in Live : Over(stack, x, o) => x \notin SavedSet /\ x \notin ActSet
        /\ th[Main].op = "delete" => t = Main
    BY <1>2, <1>3, UserFacts DEF Bytes
  <1>7. o \in SavedSet /\ o \in ActSet
    BY <1>2, <1>3 DEF Users, NewestUsed, SavedSet, ActSet
  <1>8. /\ head \in {o, old[o].head} /\ tail \in {"jmp", old[o].tail}
        /\ head # o => \E u \in Threads : Pending(u)
        /\ th[Main].op = "delete" /\ th[Main].pc = "tail" => head = old[o].head
    BY <1>2, <1>3 DEF Bytes, Mixed
  <1>9. Turning'
    BY <1>4, <1>6 DEF NoFlag, Turning
  <1>10. \A u \in Threads \ {t} : Pending(u) => Pending(u)' /\ Uses(u)'
    BY <1>4 DEF Pending, Uses, Busy, On
  <1>11. th[t].op \in {"new", "delete", "on", "off"} /\ (th[t].op = "off" => t # Main)
         /\ (th[t].op = "delete" => t = Main)
    BY <1>1, <1>3 DEF Position, ThreadStates
  <1>12. On(t) <=> th[t].op \in {"new", "on"}
    BY DEF On
  <1>13. ~(th'[Main].op = "delete" /\ th'[Main].pc = "tail")
    <2>1. CASE t = Main
      <3>1. ~Uses(Main)'
        BY <1>4, <2>1
      <3> QED
        BY <3>1 DEF Uses, Busy
    <2>2. CASE t # Main
      BY <1>4, <1>6, <2>2 DEF Threads
    <2> QED
      BY <2>1, <2>2
  <1>14. ASSUME th[t].op # "delete"
         PROVE  Live' = Live /\ stack' = stack /\ ActSaved' /\ Chain'
    <2>1. stack' = stack /\ Live' = Live
      BY <1>4, <1>14 DEF Live
    <2> QED
      BY <1>1, <1>5, <2>1 DEF ActSaved, Chain
  <1> HIDE DEF o
  <1>15. CASE \E u \in Threads : Uses(u)'
    <2>1. th[t].op # "delete" /\ tail' \in {"jmp", old[o].tail}
      BY <1>1, <1>4, <1>15
    <2>2. ~ApiUnused'
      BY <1>3, <1>4, <1>6, <1>15 DEF ApiUnused, o
    <2>3. head # o => \E u \in Threads : Pending(u)'
      <3>1. CASE th[t].op = "off"
        BY <1>4, <1>11, <3>1
      <3>2. CASE th[t].op # "off"
        <4>1. On(t) /\ ~Pending(t)
          BY <1>1, <1>11, <1>12, <2>1, <3>2 DEF Pending
        <4> QED
          BY <1>8, <1>10, <4>1
      <3> QED
        BY <3>1, <3>2
    <2>4. Mixed'
      <3>1. \A u \in Threads : Uses(u)' => th'[u].obj = o
        BY <1>4, <1>6
      <3> QED
        BY <1>1, <1>8, <1>13, <2>1, <2>3, <3>1 DEF Mixed
    <2>5. Settled'
      BY <2>2 DEF Settled
    <2> QED
      BY <1>4, <1>9, <1>14, <2>1, <2>4, <2>5 DEF Bytes
  <1>16. CASE \A u \in Threads : ~Uses(u)'
    <2>1. th[t].op # "off"
      <3>1. Pending(t)' => Uses(t)'
        BY DEF Pending
      <3> QED
        BY <1>4, <1>11, <1>16, <3>1
    <2>2. Mixed'
      BY <1>16 DEF Mixed
    <2>3. CASE th[t].op # "delete"
      <3>1. On(t) /\ ~Pending(t)
        BY <1>1, <1>11, <1>12, <2>1, <2>3 DEF Pending
      <3>2. head = o /\ tail' = "jmp"
        BY <1>1, <1>8, <1>10, <1>16, <3>1
      <3>3. HeadOf(o, Live, stack, ActSet)
        BY <1>5, <1>6, <1>7, HeadTop
      <3>4. TailOf("jmp", Live, ActSet)
        BY <1>3, <1>6, <1>7 DEF TailOf, o
      <3>5. Settled'
        BY <1>1, <1>5, <1>14, <2>3, <3>2, <3>3, <3>4 DEF Settled
      <3> QED
        BY <1>4, <1>9, <1>14, <2>2, <2>3, <3>5 DEF Bytes
    <2>4. CASE th[t].op = "delete"
      <3>1. head = old[o].head /\ tail' = old[o].tail /\ stack' = RemoveFirst(stack, o)
        BY <1>1, <1>4, <1>8, <1>11, <1>12, <2>4
      <3>2. \A p \in Live \cap SavedSet : o \notin Under(stack, p)
        BY <1>6 DEF Under
      <3>3. /\ ActSaved' /\ Chain'
            /\ \A h : HeadOf(h, Live \ {o}, stack, ActSet) => HeadOf(h, Live, stack, ActSet)'
            /\ \A b : TailOf(b, Live \ {o}, ActSet) => TailOf(b, Live, ActSet)'
        BY <1>1, <1>5, <1>6, <3>1, <3>2, DroppedQuiet
      <3>4. Under(stack, o) \cap ActSet = (Live \ {o}) \cap ActSet
        BY <1>5, <1>6, UnderRest
      <3>5. HeadOf(old[o].head, Under(stack, o), stack, ActSet) /\ TailOf(old[o].tail, Under(stack, o), ActSet)
        BY <1>3, <1>5, <1>6, <1>7 DEF Chain, o
      <3>6. HeadOf(old[o].head, Live \ {o}, stack, ActSet) /\ TailOf(old[o].tail, Live \ {o}, ActSet)
        BY <3>4, <3>5 DEF HeadOf, TailOf
      <3>7. Settled'
        BY <1>1, <3>1, <3>3, <3>6 DEF Settled
      <3> QED
        BY <1>4, <1>9, <2>2, <3>3, <3>7 DEF Bytes
    <2> QED
      BY <2>3, <2>4
  <1> QED
    BY <1>15, <1>16

\* CHookClass: the flag after the write.
LEMMA CSetTrapped ==
  ASSUME PInv, CInv, NEW t \in Threads, SetTrapped(t)
  PROVE  CInv'
  <1> SUFFICES ASSUME Clean'
               PROVE  Users' /\ Bytes'
    BY DEF CInv
  <1> USE ConstantsAssumption
  <1> DEFINE o == th[t].obj
  <1>1. /\ th[t].pc = "flag" /\ Finish(t) /\ Leave(t)
        /\ bTrapped' = [bTrapped EXCEPT ![o] = On(t)]
        /\ UNCHANGED <<head, tail, m_pfnOrig, hProcess, old, failed, tangled, overlap>>
    BY DEF SetTrapped, code, history
  <1>2. Users /\ Bytes
    BY <1>1 DEF CInv, Clean
  <1>3. /\ Busy(t) /\ Uses(t) /\ o \in Trap /\ o \notin Api /\ o \in Hooks
        /\ bTrapped \in [Trap -> BOOLEAN]
    BY <1>1 DEF Busy, Uses, PInv, Positions, Position, TypeOK
  <1>4. /\ Users'
        /\ \A u \in Threads : Uses(u)' => Uses(u) /\ th'[u].obj = th[u].obj
        /\ \A u \in Threads \ {t} : th'[u] = th[u]
        /\ th'[t].pc # "flag"
        /\ th[t].op # "delete" => stack' = stack
        /\ th[t].op = "delete" => o \in Live /\ stack' = RemoveFirst(stack, o)
    BY <1>1, <1>2, <1>3, AfterFinish
  <1>5. SavedSet' = SavedSet /\ stack \in Stacks /\ Live = Elems(stack) /\ ActSaved /\ Chain
    BY <1>1, <1>2, SavedSame, StackTyped, LiveElems DEF PInv, Bytes
  <1>6. /\ o \in Live /\ ApiUnused /\ \A u \in Threads : Uses(u) => th[u].obj = o
        /\ \A x \in Live : Over(stack, x, o) => x \notin SavedSet /\ x \notin ActSet
    BY <1>2, <1>3, UserFacts DEF Bytes
  <1>7. o \in SavedSet
    BY <1>1, <1>2, <1>3 DEF Users, NewestUsed
  <1>8. ApiUnused'
    BY <1>3, <1>4, <1>6 DEF ApiUnused
  <1>9. NoFlag'
    <2>1. ASSUME NEW u \in Threads, th'[u].pc = "flag"
          PROVE  FALSE
      <3>1. u # t /\ Busy(u) /\ Uses(u)
        BY <1>4, <2>1 DEF Busy, Uses
      <3> QED
        BY <1>2, <1>3, <1>6, <3>1 DEF Users, TrapAlone
    <2> QED
      BY <2>1 DEF NoFlag
  <1>10. Turning' /\ Mixed'
    BY <1>8, <1>9 DEF NoFlag, Turning, ApiUnused, Mixed
  <1>11. /\ \A x \in Hooks \ {o} : x \in ActSet' <=> x \in ActSet
         /\ o \in ActSet' <=> On(t)
    <2>1. bTrapped'[o] = On(t) /\ \A x \in Trap \ {o} : bTrapped'[x] = bTrapped[x]
      BY <1>1, <1>3
    <2> QED
      BY <1>1, <1>3, <2>1 DEF ActSet, Hooks
  <1>12. Live \subseteq Hooks
    BY DEF PInv, TypeOK, Live
  <1>13. head = (IF On(t) THEN o ELSE old[o].head) /\ TailOf(tail, Live, ActSet)
    BY <1>1, <1>2, <1>6 DEF Bytes, Turning, Settled
  <1> HIDE DEF o
  <1>14. \A p \in Live \cap SavedSet : o \notin Under(stack, p)
    BY <1>6 DEF Under
  <1>15. /\ Under(stack, o) \cap ActSet = (Live \ {o}) \cap ActSet
         /\ HeadOf(old[o].head, Under(stack, o), stack, ActSet)
    <2>1. Under(stack, o) \cap ActSet = (Live \ {o}) \cap ActSet
      BY <1>5, <1>6, UnderRest
    <2> QED
      BY <1>5, <1>6, <1>7, <2>1 DEF Chain
  <1>16. HeadOf(old[o].head, Live \ {o}, stack, ActSet) /\ TailOf(tail, Live \ {o}, ActSet)
    <2>1. Live \cap ActSet \cap Api = (Live \ {o}) \cap ActSet \cap Api
      BY <1>3
    <2> QED
      BY <1>13, <1>15, <2>1 DEF HeadOf, TailOf
  <1>17. ActSet' \cap (Live \ {o}) = ActSet \cap (Live \ {o})
    BY <1>11, <1>12
  <1>18. CASE th[t].op # "delete"
    <2>1. stack' = stack /\ Live' = Live
      BY <1>4, <1>18 DEF Live
    <2>2. ActSaved'
      BY <1>5, <1>7, <1>17, <2>1 DEF ActSaved
    <2>3. Chain'
      <3>1. ASSUME NEW p \in Live, p \in SavedSet
            PROVE  /\ HeadOf(old[p].head, Under(stack, p), stack, ActSet')
                   /\ p \in Api => TailOf(old[p].tail, Under(stack, p), ActSet')
        <4>1. /\ HeadOf(old[p].head, Under(stack, p), stack, ActSet)
              /\ p \in Api => TailOf(old[p].tail, Under(stack, p), ActSet)
          BY <1>5, <3>1 DEF Chain
        <4>2. Under(stack, p) \cap ActSet' = Under(stack, p) \cap ActSet
          <5>1. Under(stack, p) \subseteq Live \ {o}
            BY <1>5, <1>14, <3>1 DEF Under
          <5> QED
            BY <1>17, <5>1
        <4> QED
          BY <4>1, <4>2 DEF HeadOf, TailOf
      <3> QED
        BY <1>1, <1>5, <2>1, <3>1 DEF Chain
    <2>4. HeadOf(head, Live, stack, ActSet')
      <3>1. CASE On(t)
        <4>1. \A x \in Live : Over(stack, x, o) => x \notin ActSet'
          <5>1. \A x : ~Over(stack, o, o)
            BY <1>5, Order
          <5> QED
            BY <1>6, <1>11, <1>12, <5>1
        <4> DEFINE A2 == ActSet'
        <4>2. o \in A2 /\ \A x \in Live : Over(stack, x, o) => x \notin A2
          BY <1>11, <3>1, <4>1
        <4> HIDE DEF A2
        <4>3. HeadOf(o, Live, stack, A2)
          BY <1>5, <1>6, <4>2, HeadTop
        <4> QED
          BY <1>13, <3>1, <4>3 DEF A2
      <3>2. CASE ~On(t)
        <4>1. Live \cap ActSet' = (Live \ {o}) \cap ActSet
          BY <1>11, <1>17, <3>2
        <4> QED
          BY <1>13, <1>16, <3>2, <4>1 DEF HeadOf
      <3> QED
        BY <3>1, <3>2
    <2>5. TailOf(tail, Live, ActSet')
      <3>1. Live \cap ActSet' \cap Api = (Live \ {o}) \cap ActSet \cap Api
        BY <1>3, <1>17
      <3> QED
        BY <1>16, <3>1 DEF TailOf
    <2>6. Settled'
      BY <1>1, <2>1, <2>4, <2>5 DEF Settled
    <2> QED
      BY <1>4, <1>10, <2>2, <2>3, <2>6 DEF Bytes
  <1>19. CASE th[t].op = "delete"
    <2>1. ~On(t) /\ stack' = RemoveFirst(stack, o)
      BY <1>4, <1>19 DEF On
    <2>2. /\ ActSaved' /\ Chain'
          /\ \A h : HeadOf(h, Live \ {o}, stack, ActSet) => HeadOf(h, Live, stack, ActSet)'
          /\ \A b : TailOf(b, Live \ {o}, ActSet) => TailOf(b, Live, ActSet)'
      BY <1>1, <1>5, <1>6, <1>14, <1>17, <2>1, DroppedQuiet
    <2>3. Settled'
      BY <1>1, <1>13, <1>16, <2>1, <2>2 DEF Settled
    <2> QED
      BY <1>4, <1>10, <2>2, <2>3 DEF Bytes
  <1> QED
    BY <1>18, <1>19

-----------------------------------------------------------------------------
(* The invariant holds. *)

LEMMA CInit == Init => CInv
  <1> SUFFICES ASSUME Init
               PROVE  Users /\ Bytes
    BY DEF CInv
  <1>1. Live = {} /\ \A t \in Threads : ~Uses(t)
    BY DEF Init, Live, Uses, Busy, Out
  <1>2. head = Orig /\ tail = Orig
    BY DEF Init
  <1>3. HeadOf(head, Live, stack, ActSet) /\ TailOf(tail, Live, ActSet)
    BY <1>1, <1>2 DEF HeadOf, TailOf
  <1> QED
    BY <1>1, <1>3, NoUsers DEF Bytes, ActSaved, Chain, Settled

\* After a read or a write that failed nothing is promised.
LEMMA CCreateReadFails ==
  ASSUME NEW o \in Hooks, CreateReadFails(o)
  PROVE  CInv'
  BY DEF CreateReadFails, CInv, Clean

LEMMA CWriteFails ==
  ASSUME NEW t \in Threads, WriteFails(t)
  PROVE  CInv'
  BY DEF WriteFails, CInv, Clean

LEMMA CNext == PInv /\ PInv' /\ CInv /\ [Next]_vars => CInv'
  <1> SUFFICES ASSUME PInv, PInv', CInv, [Next]_vars
               PROVE  CInv'
    OBVIOUS
  <1>1. ASSUME NEW o \in Hooks, Delete(o)
        PROVE  CInv'
    BY <1>1, CMainBegins DEF Delete
  <1>2. ASSUME NEW o \in Hooks, NEW op \in {"on", "off"}, Switch(o, op)
        PROVE  CInv'
    BY <1>2, CMainBegins DEF Switch
  <1>3. ASSUME NEW t \in Threads, Operate(t)
        PROVE  CInv'
    BY <1>3, CTestDone, CTestGoOn, CWriteHead, CWriteTail, CWriteFails, CSetTrapped DEF Operate
  <1>4. CASE UNCHANGED vars
    <2>1. UNCHANGED <<head, tail, stack, m_pfnOrig, hProcess, old, bTrapped, th, tangled, overlap, failed>>
      BY <1>4 DEF vars, code, objects, history
    <2>2. /\ Live' = Live /\ ActSet' = ActSet /\ SavedSet' = SavedSet
          /\ \A t \in Threads : /\ (Uses(t)' <=> Uses(t)) /\ (Busy(t)' <=> Busy(t))
                                /\ (Pending(t)' <=> Pending(t)) /\ (On(t)' <=> On(t))
      BY <2>1, SavedSame, ActSame DEF Live, Uses, Busy, Pending, On
    <2>3. Users' <=> Users
      BY <2>1, <2>2 DEF Users, OneUsed, NewestUsed, TrapAlone, DeleteAlone
    <2>4. (ActSaved' <=> ActSaved) /\ (Chain' <=> Chain)
      BY <2>1, <2>2 DEF ActSaved, Chain
    <2>5. Settled' <=> Settled
      BY <2>1, <2>2 DEF Settled, ApiUnused, NoFlag
    <2>6. (Turning' <=> Turning) /\ (Mixed' <=> Mixed)
      BY <2>1, <2>2 DEF Turning, Mixed
    <2> QED
      BY <2>1, <2>3, <2>4, <2>5, <2>6 DEF CInv, Clean, Bytes
  <1> QED
    BY <1>1, <1>2, <1>3, <1>4, CNewApi, CNewApiFails, CDeleteInert, CCreate, CCreateReadFails, CCallHooked, CCallWild, CPutBack DEF Next

LEMMA CAlways == Spec => [](PInv /\ CInv)
  <1>1. Init => PInv /\ CInv
    BY PInit, CInit
  <1>2. PInv /\ CInv /\ [Next]_vars => (PInv /\ CInv)'
    BY PNext, CNext
  <1> QED
    BY <1>1, <1>2, PTL DEF Spec

-----------------------------------------------------------------------------
(* What follows for the callers of the function. *)

\* While one CAPIHook is the only object, whatever threads are in its hook procedure: the jump is
\* missing only while one of them is inside and is going to write it again (Unhook, Rehook).
THEOREM OffInside == Spec => []OffOnlyInside
  <1>1. ASSUME PInv, CInv
        PROVE  OffOnlyInside
    <2> SUFFICES ASSUME NEW o \in Api, stack = <<o>>, m_pfnOrig[o], head # o, Clean,
                        \A t \in Threads : ~Using(t, o)
                 PROVE  FALSE
      BY DEF OffOnlyInside, Clean
    <2>1. Users /\ Bytes
      BY <1>1 DEF CInv
    <2>2. Live = {o}
      BY DEF Live
    <2>3. \A t \in Threads : ~Uses(t)
      BY <2>1, <2>2, UsingIsUses DEF Users, NewestUsed
    <2>4. HeadOf(head, Live, stack, ActSet)
      BY <2>1, <2>3, NoUsers DEF Bytes, Settled
    <2>5. o \in ActSet
      BY DEF ActSet, Hooks
    <2> QED
      BY <2>2, <2>4, <2>5 DEF HeadOf
  <1> QED
    BY <1>1, CAlways, PTL

\* What a part of the stack shows can be executed.
LEMMA ShownSound ==
  ASSUME NEW S, S \subseteq Hooks, HeadOf(head, S, stack, ActSet), TailOf(tail, S, ActSet)
  PROVE  Sound
  BY ConstantsAssumption DEF HeadOf, TailOf, Sound, Hooks

\* The first bytes are no whole code only while a thread is in an operation or a hook procedure
\* of a CAPIHook, which writes them in two parts; a CHookClass, also one over a CAPIHook, leaves
\* bytes that can be executed.
THEOREM WildInside == Spec => []WildOnlyInside
  <1>1. ASSUME PInv, CInv
        PROVE  WildOnlyInside
    <2> SUFFICES ASSUME Clean, \A t \in Threads, o \in Api : ~Using(t, o)
                 PROVE  Sound
      BY DEF WildOnlyInside, Clean
    <2>1. Users /\ Bytes
      BY <1>1 DEF CInv
    <2>2. ApiUnused
      BY UsingIsUses DEF ApiUnused
    <2>3. TailOf(tail, Live, ActSet) /\ (NoFlag => HeadOf(head, Live, stack, ActSet))
      BY <2>1, <2>2 DEF Bytes, Settled
    <2>4. Live \subseteq Hooks /\ stack \in Stacks /\ Live = Elems(stack)
      BY <1>1, StackTyped, LiveElems DEF PInv, TypeOK, Live
    <2>5. CASE NoFlag
      BY <2>3, <2>4, <2>5, ShownSound
    <2>6. CASE ~NoFlag
      <3>1. PICK t \in Threads : th[t].pc = "flag"
        BY <2>6 DEF NoFlag
      <3> DEFINE o == th[t].obj
      <3>2. Uses(t) /\ o \in Trap
        BY <1>1, <3>1 DEF Uses, Busy, PInv, Positions, Position
      <3>3. o \in Live /\ o \in SavedSet /\ \A x \in Live : Over(stack, x, o) => x \notin ActSet
        BY <1>1, <2>1, <3>1, <3>2, UserFacts DEF Bytes, Users, NewestUsed
      <3>4. head = IF On(t) THEN o ELSE old[o].head
        BY <2>1, <3>1 DEF Bytes, Turning
      <3> HIDE DEF o
      <3>5. CASE On(t)
        BY <3>2, <3>4, <3>5, ConstantsAssumption DEF Sound, Hooks
      <3>6. CASE ~On(t)
        <4>1. Under(stack, o) \cap ActSet = (Live \ {o}) \cap ActSet
          BY <2>4, <3>3, UnderRest
        <4>2. HeadOf(head, Under(stack, o), stack, ActSet)
          BY <2>1, <3>3, <3>4, <3>6 DEF Bytes, Chain
        <4>3. HeadOf(head, Live \ {o}, stack, ActSet)
          BY <4>1, <4>2 DEF HeadOf
        <4>4. TailOf(tail, Live \ {o}, ActSet)
          <5>1. Live \cap ActSet \cap Api = (Live \ {o}) \cap ActSet \cap Api
            BY <3>2, ConstantsAssumption
          <5> QED
            BY <2>3, <5>1 DEF TailOf
        <4> QED
          BY <2>4, <4>3, <4>4, ShownSound
      <3> QED
        BY <3>5, <3>6
    <2> QED
      BY <2>5, <2>6
  <1> QED
    BY <1>1, CAlways, PTL

\* The newest of S is the one over all others.
LEMMA NewestIs ==
  ASSUME stack \in Stacks, NEW S \in SUBSET Live, NEW h \in S, \A x \in S : x = h \/ Over(stack, h, x)
  PROVE  Newest(S) = h
  <1> DEFINE First(o) == \E i \in 1 .. Len(stack) : stack[i] = o /\ \A j \in 1 .. i - 1 : stack[j] \notin S
  <1>1. Len(stack) \in Nat
    BY DEF Stacks
  <1>2. First(h)
    <2>1. PICK i \in 1 .. Len(stack) : stack[i] = h
      BY DEF Live
    <2>2. ASSUME NEW j \in 1 .. i - 1, stack[j] \in S
          PROVE  FALSE
      <3>1. j \in 1 .. Len(stack) /\ j # i /\ j < i
        BY <1>1, <2>1
      <3>2. stack[j] # h
        BY <2>1, <3>1, Distinct
      <3>3. PICK k, l \in 1 .. Len(stack) : k < l /\ stack[k] = h /\ stack[l] = stack[j]
        BY <2>2, <3>2 DEF Over
      <3>4. k = i /\ l = j
        BY <2>1, <3>1, <3>3, Distinct
      <3> QED
        BY <1>1, <3>1, <3>3, <3>4
    <2> QED
      BY <2>1, <2>2
  <1>3. ASSUME NEW o \in S, First(o)
        PROVE  o = h
    <2>1. PICK i \in 1 .. Len(stack) : stack[i] = o /\ \A j \in 1 .. i - 1 : stack[j] \notin S
      BY <1>3
    <2>2. ASSUME o # h
          PROVE  FALSE
      <3>1. PICK k, l \in 1 .. Len(stack) : k < l /\ stack[k] = h /\ stack[l] = o
        BY <2>2 DEF Over
      <3>2. l = i
        BY <2>1, <3>1, Distinct
      <3>3. k \in 1 .. i - 1
        BY <1>1, <3>1, <3>2
      <3> QED
        BY <2>1, <3>1, <3>3
    <2> QED
      BY <2>2
  <1> HIDE DEF First
  <1>4. (CHOOSE o \in S : First(o)) = h
    BY <1>2, <1>3
  <1> QED
    BY <1>4 DEF Newest, First

\* When objects are used one at a time, the newest first: between the operations the function
\* begins with the whole jump of the newest object that is switched on, or with its own bytes,
\* although each object knows only the bytes it found (m_btOldBytes, Oldcode).
THEOREM CodeRight == Spec => []CodeTells
  <1>1. ASSUME PInv, CInv
        PROVE  CodeTells
    <2> SUFFICES ASSUME Quiet, ~tangled, overlap = {}, failed = {}
                 PROVE  /\ head = IF Active = {} THEN Orig ELSE Newest(Active)
                        /\ tail = IF Active \cap Api = {} THEN Orig ELSE "jmp"
      BY DEF CodeTells
    <2>1. Bytes /\ stack \in Stacks
      BY <1>1, StackTyped DEF CInv, Clean, PInv
    <2>2. \A t \in Threads : ~Uses(t)
      BY DEF Quiet, Uses
    <2>3. HeadOf(head, Live, stack, ActSet) /\ TailOf(tail, Live, ActSet)
      BY <2>1, <2>2, NoUsers DEF Bytes, Settled
    <2>4. Active = Live \cap ActSet
      BY <1>1 DEF Active, ActSet, PInv, TypeOK, Live
    <2>5. head = IF Active = {} THEN Orig ELSE Newest(Active)
      <3>1. CASE Active = {}
        BY <2>3, <2>4, <3>1 DEF HeadOf
      <3>2. CASE Active # {}
        <4>1. head \in Active /\ \A x \in Active : x = head \/ Over(stack, head, x)
          BY <2>3, <2>4, <3>2 DEF HeadOf
        <4>2. Active \in SUBSET Live
          BY <2>4
        <4>3. Newest(Active) = head
          BY <2>1, <4>1, <4>2, NewestIs
        <4> QED
          BY <3>2, <4>3
      <3> QED
        BY <3>1, <3>2
    <2> QED
      BY <2>3, <2>4, <2>5 DEF TailOf
  <1> QED
    BY <1>1, CAlways, PTL
=============================================================================
