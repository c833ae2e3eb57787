------------------------------ MODULE InlineHook ------------------------------
(***************************************************************************)
(* The two classes of StarLib/Hook that hook a function by writing a jump  *)
(* over its first bytes.  CAPIHook (APIHook.cpp) writes eight bytes, "mov  *)
(* eax, hook" and "jmp eax", when it is constructed; CHookClass            *)
(* (HookClass.cpp) writes the five bytes of "jmp hook" in Change() and     *)
(* remembers in bTrapped that it did.  Both put back the bytes they saved  *)
(* so that the hook procedure can call the function: Unhook and Rehook,    *)
(* Restore and Change.  The calls that would suspend the other threads     *)
(* meanwhile are commented out (HookClass.cpp:86, 93, 107, 114).           *)
(*                                                                         *)
(* All objects hook the same function.  Its first bytes are kept in two    *)
(* parts, the five that both classes write and the three that only         *)
(* CAPIHook writes, and are written part by part.  The main thread creates *)
(* and destroys the objects, the other threads call the function.          *)
(***************************************************************************)
EXTENDS Naturals, SequencesExt

CONSTANTS
  Main, Workers,   \* threads
  Api,             \* objects of class CAPIHook
  Trap,            \* objects of class CHookClass
  Orig,            \* the bytes of the function itself
  Systems,         \* TRUE: the system executes only pages marked executable
  MaxObjects       \* bound: objects created in a behaviour

Hooks   == Api \cup Trap
Threads == Workers \cup {Main}

ASSUME ConstantsAssumption ==
  /\ Main \notin Workers /\ Api \cap Trap = {} /\ Orig \notin Hooks
  /\ Systems \subseteq BOOLEAN /\ MaxObjects \in Nat

VARIABLES
  head,       \* bytes 1 to 5: the function's own, or the jump of an object
  tail,       \* bytes 6 to 8: the function's own, or "jmp eax"
  executable, \* the page of the function is executable
  dep,        \* the system looks at that
  stack,      \* the objects that exist, the newest first
  m_pfnOrig,  \* of the Api objects: the function was found
  hProcess,   \* of the Trap objects: the process was opened
  old,        \* m_btOldBytes, Oldcode
  bTrapped,
  th,         \* the threads
  created,    \* objects created so far
  tangled,    \* an older object was used, or two at a time, or one that was being destroyed
  overlap,    \* objects two threads have used at the same time
  failed      \* objects for which a read or a write of the code failed

code    == <<head, tail, executable, dep>>
objects == <<stack, m_pfnOrig, hProcess, old, bTrapped>>
history == <<created, tangled, overlap, failed>>
vars    == <<code, objects, th, history>>

Labels == {"out", "test", "head", "tail", "flag", "inner", "wild"}

ThreadStates == [pc : Labels, op : {"none", "new", "delete", "on", "off"},
                 obj : Hooks \cup {Orig}, inside : BOOLEAN]

Out == [pc |-> "out", op |-> "none", obj |-> Orig, inside |-> FALSE]

Live == {stack[i] : i \in 1 .. Len(stack)}

TypeOK ==
  /\ head \in Hooks \cup {Orig} /\ tail \in {Orig, "jmp"}
  /\ executable \in BOOLEAN /\ dep \in BOOLEAN
  /\ stack \in Seq(Hooks) /\ IsInjective(stack)
  /\ m_pfnOrig \in [Api -> BOOLEAN] /\ hProcess \in [Trap -> BOOLEAN]
  /\ old \in [Hooks -> [head : Hooks \cup {Orig}, tail : {Orig, "jmp"}]]
  /\ bTrapped \in [Trap -> BOOLEAN]
  /\ th \in [Threads -> ThreadStates]
  /\ created \in 0 .. MaxObjects /\ tangled \in BOOLEAN
  /\ overlap \subseteq Hooks /\ failed \subseteq Hooks

Init ==
  /\ head = Orig /\ tail = Orig
  /\ executable = TRUE /\ dep \in Systems
  /\ stack = << >>
  /\ m_pfnOrig = [o \in Api |-> FALSE] /\ hProcess = [o \in Trap |-> FALSE]
  /\ old = [o \in Hooks |-> [head |-> Orig, tail |-> Orig]]
  /\ bTrapped = [o \in Trap |-> FALSE]
  /\ th = [t \in Threads |-> Out]
  /\ created = 0 /\ tangled = FALSE /\ overlap = {} /\ failed = {}

-----------------------------------------------------------------------------
\* Thread t is in a member function of an object.
Busy(t) == th[t].pc \in {"test", "head", "tail", "flag"}

Using(t, o) == th[t].obj = o /\ (Busy(t) \/ th[t].inside)

\* An operation op of o begins in t: a write for Api, the test of bTrapped for Trap.
Begin(t, o, op) ==
  /\ th' = [th EXCEPT ![t] = [@ EXCEPT !.pc = IF o \in Api THEN "head" ELSE "test",
                                       !.op = op, !.obj = o]]
  /\ tangled' = (tangled \/ (Live # {} /\ op # "new" /\ o # stack[1])
                         \/ \E u \in Threads \ {t} : \E p \in Hooks \ {o} : Using(u, p))
  /\ overlap' = IF \E u \in Threads \ {t} : Busy(u) /\ th[u].obj = o
                THEN overlap \cup {o} ELSE overlap

\* What t does when the operation is over.
Finish(t) ==
  th' = [th EXCEPT ![t] = IF ~th[t].inside THEN Out
                          ELSE IF th[t].op = "off" THEN [@ EXCEPT !.pc = "inner"] ELSE Out]

-----------------------------------------------------------------------------
(* Main creates and destroys objects. *)

Fresh(o) ==
  /\ th[Main] = Out /\ o \notin Live
  /\ \A t \in Threads : th[t].obj # o
  /\ created < MaxObjects /\ created' = created + 1

\* Mutant: the two parts of the saved bytes are exchanged.
NewApiSwaps(o) ==
  /\ Fresh(o) /\ o \in Api
  /\ stack' = <<o>> \o stack
  /\ m_pfnOrig' = [m_pfnOrig EXCEPT ![o] = TRUE]
  /\ old' = [old EXCEPT ![o] = [head |-> tail, tail |-> head]]
  /\ executable' = FALSE
  /\ Begin(Main, o, "new")
  /\ UNCHANGED <<head, tail, dep, hProcess, bTrapped, failed>>

\* CAPIHook::CAPIHook, lines 15-33; the write follows.  The page is made writable, and
\* not executable, before the bytes are saved.
NewApi(o) ==
  /\ Fresh(o) /\ o \in Api
  /\ stack' = <<o>> \o stack
  /\ m_pfnOrig' = [m_pfnOrig EXCEPT ![o] = TRUE]
  /\ old' = [old EXCEPT ![o] = [head |-> head, tail |-> tail]]
  /\ executable' = FALSE
  /\ Begin(Main, o, "new")
  /\ UNCHANGED <<head, tail, dep, hProcess, bTrapped, failed>>

\* The module or the function is not found.
NewApiFails(o) ==
  /\ Fresh(o) /\ o \in Api
  /\ stack' = <<o>> \o stack
  /\ m_pfnOrig' = [m_pfnOrig EXCEPT ![o] = FALSE]
  /\ UNCHANGED <<code, hProcess, old, bTrapped, th, tangled, overlap, failed>>

\* CHookClass::Create.  When OpenProcess fails nothing is saved, and Change and Restore
\* do nothing.
Create(o, opened) ==
  /\ Fresh(o) /\ o \in Trap
  /\ stack' = <<o>> \o stack
  /\ hProcess' = [hProcess EXCEPT ![o] = opened]
  /\ old' = IF opened THEN [old EXCEPT ![o] = [head |-> head, tail |-> Orig]] ELSE old
  /\ bTrapped' = [bTrapped EXCEPT ![o] = FALSE]
  /\ tangled' = (tangled \/ \E t \in Workers, p \in Hooks : Using(t, p))
  /\ UNCHANGED <<code, m_pfnOrig, th, overlap, failed>>

\* The process is open, but ReadProcessMemory fails: a message box, and Oldcode keeps what
\* was in its memory, the bytes of an earlier object or any others; a jump of an Api
\* object, whose tail is missing, stands for those that are no code.
CreateReadFails(o) ==
  /\ Fresh(o) /\ o \in Trap
  /\ stack' = <<o>> \o stack
  /\ hProcess' = [hProcess EXCEPT ![o] = TRUE]
  /\ \E b \in Api \cup {old[o].head} : old' = [old EXCEPT ![o] = [head |-> b, tail |-> Orig]]
  /\ bTrapped' = [bTrapped EXCEPT ![o] = FALSE]
  /\ failed' = failed \cup {o}
  /\ UNCHANGED <<code, m_pfnOrig, th, tangled, overlap>>

\* The destructors; nobody is in the object's hook procedure.
Delete(o) ==
  /\ th[Main] = Out /\ o \in Live
  /\ \A t \in Workers : th[t].obj # o
  /\ o \in Api => m_pfnOrig[o]
  /\ Begin(Main, o, "delete")
  /\ UNCHANGED <<code, objects, created, failed>>

\* An object that found no function has nothing to put back.
DeleteInert(o) ==
  /\ th[Main] = Out /\ o \in Live /\ o \in Api
  /\ ~m_pfnOrig[o]
  /\ stack' = RemoveFirst(stack, o)
  /\ UNCHANGED <<code, m_pfnOrig, hProcess, old, bTrapped, th, history>>

\* Change (on) and Restore (off) called to switch a hook on and off.
Switch(o, op) ==
  /\ th[Main] = Out /\ o \in Live \cap Trap
  /\ Begin(Main, o, op)
  /\ UNCHANGED <<code, objects, created, failed>>

-----------------------------------------------------------------------------
(* The steps of the operations. *)

\* Mutant: Rehook writes the old bytes.
OnNew(t) == th[t].op = "new"

\* The jump is written (constructor, Rehook, Change), not the saved bytes.
On(t) == th[t].op \in {"new", "on"}

\* A destroyed object leaves the stack.
Leave(t) ==
  stack' = IF th[t].op = "delete" THEN RemoveFirst(stack, th[t].obj) ELSE stack

\* CHookClass::Restore and Change return when bTrapped says there is nothing to do.
TestDone(t) ==
  /\ th[t].pc = "test"
  /\ ~hProcess[th[t].obj] \/ bTrapped[th[t].obj] = On(t)
  /\ Finish(t) /\ Leave(t)
  /\ UNCHANGED <<code, m_pfnOrig, hProcess, old, bTrapped, history>>

TestGoOn(t) ==
  /\ th[t].pc = "test"
  /\ hProcess[th[t].obj] /\ bTrapped[th[t].obj] # On(t)
  /\ th' = [th EXCEPT ![t].pc = "head"]
  /\ UNCHANGED <<code, objects, history>>

\* The first five bytes.  CAPIHook makes the page writable, and not executable;
\* VirtualProtect without a place for the old protection does not change it back.
WriteHead(t) ==
  LET o == th[t].obj IN
  /\ th[t].pc = "head"
  /\ head' = IF On(t) THEN o ELSE old[o].head
  /\ executable' = (executable /\ o \in Trap)
  /\ th' = [th EXCEPT ![t].pc = IF o \in Api THEN "tail" ELSE "flag"]
  /\ UNCHANGED <<tail, dep, objects, history>>

\* Mutant: five bytes are put back, as for the other class.
WriteTailForgets(t) ==
  /\ th[t].pc = "tail"
  /\ tail' = IF On(t) THEN "jmp" ELSE tail
  /\ Finish(t) /\ Leave(t)
  /\ UNCHANGED <<head, executable, dep, m_pfnOrig, hProcess, old, bTrapped, history>>

\* The last three.
WriteTail(t) ==
  LET o == th[t].obj IN
  /\ th[t].pc = "tail"
  /\ tail' = IF On(t) THEN "jmp" ELSE old[o].tail
  /\ Finish(t) /\ Leave(t)
  /\ UNCHANGED <<head, executable, dep, m_pfnOrig, hProcess, old, bTrapped, history>>

\* WriteProcessMemory writes nothing: CHookClass says so in a message box and goes on.
WriteFails(t) ==
  LET o == th[t].obj IN
  /\ th[t].pc = "head"
  /\ failed' = failed \cup {o}
  /\ IF o \in Api
     THEN executable' = FALSE /\ Finish(t) /\ Leave(t)
     ELSE th' = [th EXCEPT ![t].pc = "flag"] /\ UNCHANGED <<executable, stack>>
  /\ UNCHANGED <<head, tail, dep, m_pfnOrig, hProcess, old, bTrapped, created, tangled, overlap>>

\* Mutant: Restore leaves the flag set.
SetTrappedOn(t) ==
  /\ th[t].pc = "flag"
  /\ bTrapped' = [bTrapped EXCEPT ![th[t].obj] = TRUE]
  /\ Finish(t) /\ Leave(t)
  /\ UNCHANGED <<code, m_pfnOrig, hProcess, old, history>>

\* bTrapped after the write.
SetTrapped(t) ==
  /\ th[t].pc = "flag"
  /\ bTrapped' = [bTrapped EXCEPT ![th[t].obj] = On(t)]
  /\ Finish(t) /\ Leave(t)
  /\ UNCHANGED <<code, m_pfnOrig, hProcess, old, history>>

Operate(t) ==
  TestDone(t) \/ TestGoOn(t) \/ WriteHead(t) \/ WriteTail(t) \/ WriteFails(t) \/ SetTrapped(t)

-----------------------------------------------------------------------------
(* The other threads call the function. *)

\* The bytes are those of one jump, or all the function's own.
Sound == (head \in Api => tail = "jmp") /\ (head = Orig => tail = Orig)

\* The call goes to the hook procedure of o, which takes the hook out.
CallHooked(t) ==
  /\ th[t] = Out /\ head \in Live /\ Sound /\ (dep => executable)
  /\ th' = [th EXCEPT ![t] = [pc |-> IF head \in Api THEN "head" ELSE "test", op |-> "off",
                              obj |-> head, inside |-> TRUE]]
  /\ tangled' = (tangled \/ head # stack[1] \/ (th[Main].op = "delete" /\ th[Main].obj = head)
                         \/ \E u \in Threads \ {t} : \E p \in Hooks \ {head} : Using(u, p))
  /\ overlap' = IF \E u \in Threads \ {t} : Busy(u) /\ th[u].obj = head
                THEN overlap \cup {head} ELSE overlap
  /\ UNCHANGED <<code, objects, created, failed>>

\* The call runs into bytes that are no code, or into a page that is not executable.
CallWild(t) ==
  /\ th[t] = Out
  /\ ~Sound \/ (dep /\ ~executable)
  /\ th' = [th EXCEPT ![t].pc = "wild"]
  /\ UNCHANGED <<code, objects, history>>

\* The hook procedure has called the function and puts the hook back.
PutBack(t) ==
  /\ th[t].pc = "inner"
  /\ Begin(t, th[t].obj, "on")
  /\ UNCHANGED <<code, objects, created, failed>>

Next ==
  \/ \E o \in Hooks : \/ NewApi(o) \/ NewApiFails(o) \/ Delete(o) \/ DeleteInert(o)
                      \/ \E opened \in BOOLEAN : Create(o, opened)
                      \/ CreateReadFails(o)
                      \/ \E op \in {"on", "off"} : Switch(o, op)
  \/ \E t \in Threads : Operate(t)
  \/ \E t \in Workers : CallHooked(t) \/ CallWild(t) \/ PutBack(t)

Spec == Init /\ [][Next]_vars

-----------------------------------------------------------------------------
Quiet == \A t \in Threads : ~Busy(t) /\ ~th[t].inside

\* The objects whose jump should be in the function.
Active == {o \in Live : IF o \in Api THEN m_pfnOrig[o] ELSE bTrapped[o]}

Newest(S) == CHOOSE o \in S : \E i \in 1 .. Len(stack) : stack[i] = o /\ \A j \in 1 .. i - 1 : stack[j] \notin S

\* Objects used one at a time, the newest first: between the operations the function
\* begins with the jump of the newest object that is switched on, whole, and with its
\* own bytes when there is none, although each object only knows what it saved.
CodeTells ==
  Quiet /\ ~tangled /\ overlap = {} /\ failed = {} =>
    /\ head = IF Active = {} THEN Orig ELSE Newest(Active)
    /\ tail = IF Active \cap Api = {} THEN Orig ELSE "jmp"

\* While one CAPIHook is the only object, whatever threads are in its hook procedure:
\* the function is without its jump only when one of them has taken it out and is
\* going to put it back.
OffOnlyInside ==
  \A o \in Api :
    /\ stack = <<o>> /\ m_pfnOrig[o] /\ head # o
    /\ ~tangled /\ overlap \subseteq Api /\ failed = {}
    =>
      \E t \in Threads : Using(t, o)

\* The first bytes are no whole code, neither the function's own nor a jump, only while
\* a thread is in an operation or a hook procedure of a CAPIHook: every other object,
\* also one of five bytes over one of eight, leaves bytes that can be executed.
WildOnlyInside ==
  ~Sound /\ ~tangled /\ overlap \subseteq Api /\ failed = {} => \E t \in Threads, o \in Api : Using(t, o)
=============================================================================
