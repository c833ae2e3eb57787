---------------------------- MODULE CAPIHook_New ----------------------------
(***************************************************************************)
(* src/StarLib/Hook/APIHook_new.cpp: hooking of imported functions.        *)
(*                                                                         *)
(* An object of CAPIHook_New stands for "calls of this function go to that *)
(* one": its constructor writes the new address into the import table of   *)
(* every loaded module, its destructor writes the old one back.  For what  *)
(* is loaded later the class hooks LoadLibrary and GetProcAddress as well, *)
(* with static objects of its own, and keeps all objects in the list       *)
(* sm_pHeader that the two replacements walk.  Nothing is locked: a thread *)
(* may load a library while another constructs or destroys an object.      *)
(*                                                                         *)
(* An address is named by the object whose m_pfnHook it is, or Orig.  The  *)
(* four LoadLibrary objects behave alike and are one.                      *)
(***************************************************************************)
EXTENDS FiniteSets

CONSTANTS
    Makers,     \* the threads that construct and destroy hook objects
    Callers,    \* the threads that load libraries and look up functions
    UserHooks,  \* the objects of the program, each constructed once at most
    Fn,         \* the function that each of them hooks
    Everywhere, \* those constructed with bExcludeAPIHookMod = FALSE
    Modules,    \* modules that may be loaded
    Initial,    \* those loaded from the start and never unloaded
    Own,        \* the one that CAPIHook_New is linked into
    Needs       \* the modules that Windows loads along with a module

Threads == Makers \cup Callers
Statics == {"sm_LoadLibrary", "sm_GetProcAddress"}
Hooks   == UserHooks \cup Statics

FuncOf(h) == CASE h = "sm_LoadLibrary"    -> "LoadLibrary"
               [] h = "sm_GetProcAddress" -> "GetProcAddress"
               [] OTHER                   -> Fn[h]
Funcs == {FuncOf(h) : h \in Hooks}

NULL == "NULL"
Orig == "Orig"

ASSUME HookConstants ==
    /\ UserHooks \cap (Statics \cup {NULL, Orig}) = {}
    /\ Everywhere \subseteq UserHooks
    /\ Initial \subseteq Modules
    /\ Own \in Initial
    /\ Needs \in [Modules -> SUBSET Modules]

VARIABLES
    head,     \* sm_pHeader
    next,     \* m_pNext of each object
    life,     \* of each object: raw, making, live, dying, gone
    loaded,   \* the modules in the process
    iat,      \* the import table of each: what a call of a function reaches
    pc,       \* where a thread is
    obj,      \* the object that a thread constructs or destroys
    todo,     \* the modules its ReplaceIATEntryInAllMods has still to visit
    mod,      \* the module that its HookNewlyLoadedModule works on
    p,        \* its position in the list
    want,     \* the function its GetProcAddress looks for
    crashed,  \* a thread touched freed memory or ran out of stack
    (* history, read by the properties only *)
    owed,     \* objects that a GetProcAddress must not fail to see
    wild,     \* modules that came in by no hooked LoadLibrary
    blind,    \* objects for which listing the modules failed
    overlap   \* objects that a library was loaded beside the destructor of

list == <<head, next, life>>
proc == <<loaded, iat>>
loc  == <<obj, todo, mod, p, want, owed>>
hist == <<wild, blind, overlap>>
vars == <<list, proc, pc, loc, crashed, hist>>

----------------------------------------------------------------------------

At(t, l)    == pc[t] = l /\ ~crashed
Goto(t, l)  == pc' = [pc EXCEPT ![t] = l]
Set(f, t, v) == [f EXCEPT ![t] = v]

(* The function returns and its local variables are gone. *)
Return(t) ==
    /\ Goto(t, "idle")
    /\ obj' = Set(obj, t, NULL)
    /\ todo' = Set(todo, t, {})
    /\ mod' = Set(mod, t, NULL)
    /\ p' = Set(p, t, NULL)
    /\ want' = Set(want, t, NULL)
    /\ owed' = Set(owed, t, {})

(* Access violation or stack overflow: the process is gone. *)
Crash == /\ crashed' = TRUE
         /\ UNCHANGED <<list, proc, pc, loc, hist>>

Loading(t) == pc[t] \in {"begin", "hook", "next"}
Dying      == {h \in Hooks : life[h] = "dying"}

(* The module that ReplaceIATEntryInAllMods leaves out for an object. *)
Spared(h) == IF h \in Everywhere THEN {} ELSE {Own}

Fresh == [f \in Funcs |-> Orig]

(* The address cur of function f in the table of module m becomes new. *)
ReplaceIATEntryInOneMod(f, cur, new, m) ==
    IF iat[m][f] = cur THEN [iat EXCEPT ![m][f] = new] ELSE iat

Init ==
    /\ head = "sm_GetProcAddress"
    /\ next = [h \in Hooks |-> IF h = "sm_GetProcAddress" THEN "sm_LoadLibrary" ELSE NULL]
    /\ life = [h \in Hooks |-> IF h \in Statics THEN "live" ELSE "raw"]
    /\ loaded = Initial
    /\ iat = [m \in Modules |->
                IF m \in Initial \ {Own}
                THEN [f \in Funcs |-> CASE f = "LoadLibrary"    -> "sm_LoadLibrary"
                                        [] f = "GetProcAddress" -> "sm_GetProcAddress"
                                        [] OTHER                -> Orig]
                ELSE Fresh]
    /\ pc = [t \in Threads |-> "idle"]
    /\ obj = [t \in Threads |-> NULL]
    /\ todo = [t \in Threads |-> {}]
    /\ mod = [t \in Threads |-> NULL]
    /\ p = [t \in Threads |-> NULL]
    /\ want = [t \in Threads |-> NULL]
    /\ crashed = FALSE
    /\ owed = [t \in Threads |-> {}]
    /\ wild = {} /\ blind = {} /\ overlap = {}

----------------------------------------------------------------------------
(* ReplaceIATEntryInAllMods: the list of modules, then one table after the *)
(* other.  A module that was unloaded in the meantime is still visited.    *)

Snapshot(t, there) ==
    /\ todo' = Set(todo, t, loaded)
    /\ Goto(t, there)
    /\ UNCHANGED <<list, proc, obj, mod, p, want, owed, crashed, hist>>

(* CreateToolhelp32Snapshot fails, the loop sees no module at all. *)
SnapshotFails(t, there) ==
    /\ blind' = blind \cup {obj[t]}
    /\ Goto(t, there)
    /\ UNCHANGED <<list, proc, loc, crashed, wild, overlap>>

ReplaceNext(t, cur, new) ==
    \E m \in todo[t] :
        \/ /\ m \notin loaded
           /\ Crash
        \/ /\ m \in loaded
           /\ todo' = Set(todo, t, todo[t] \ {m})
           /\ iat' = IF m \in Spared(obj[t])
                     THEN iat
                     ELSE ReplaceIATEntryInOneMod(FuncOf(obj[t]), cur, new, m)
           /\ UNCHANGED <<list, loaded, pc, obj, mod, p, want, owed, crashed, hist>>

----------------------------------------------------------------------------
(* The constructor. *)

(* A hooked GetProcAddress of the own module calls itself for ever. *)
Construct(t, h) ==
    /\ At(t, "idle")
    /\ life[h] = "raw"
    /\ \/ /\ iat[Own]["GetProcAddress"] # Orig
          /\ Crash
       \/ /\ iat[Own]["GetProcAddress"] = Orig
          /\ life' = Set(life, h, "making")
          /\ next' = Set(next, h, head)
          /\ obj' = Set(obj, t, h)
          /\ Goto(t, "link")
          /\ UNCHANGED <<head, proc, todo, mod, p, want, owed, crashed, hist>>

Link(t) ==
    /\ At(t, "link")
    /\ head' = obj[t]
    /\ Goto(t, "list")
    /\ UNCHANGED <<next, life, proc, loc, crashed, hist>>

MakeList(t) == At(t, "list") /\ (Snapshot(t, "make") \/ SnapshotFails(t, "make"))

MakeHook(t) == At(t, "make") /\ ReplaceNext(t, Orig, obj[t])

Made(t) ==
    /\ At(t, "make")
    /\ todo[t] = {}
    /\ life' = Set(life, obj[t], "live")
    /\ Return(t)
    /\ UNCHANGED <<head, next, proc, crashed, hist>>

----------------------------------------------------------------------------
(* The destructor: first the tables, then the list. *)

Destroy(t, h) ==
    /\ At(t, "idle")
    /\ life[h] = "live"
    /\ life' = Set(life, h, "dying")
    /\ obj' = Set(obj, t, h)
    /\ overlap' = IF \E u \in Threads : Loading(u) THEN overlap \cup {h} ELSE overlap
    /\ owed' = [u \in Threads |-> owed[u] \ {h}]
    /\ Goto(t, "undo")
    /\ UNCHANGED <<head, next, proc, todo, mod, p, want, crashed, wild, blind>>

UndoList(t) == At(t, "undo") /\ (Snapshot(t, "unmake") \/ SnapshotFails(t, "unmake"))

(* Faulty: the two addresses are passed in the constructor's order. *)
UndoHookSwapped(t) == At(t, "unmake") /\ ReplaceNext(t, Orig, obj[t])

UndoHook(t) == At(t, "unmake") /\ ReplaceNext(t, obj[t], Orig)

ReadHead(t) ==
    /\ At(t, "unmake")
    /\ todo[t] = {}
    /\ p' = Set(p, t, head)
    /\ Goto(t, "first")
    /\ UNCHANGED <<list, proc, obj, todo, mod, want, owed, crashed, hist>>

(* Faulty: the first object is unlinked by clearing sm_pHeader. *)
UnlinkFirstClears(t) ==
    /\ At(t, "first")
    /\ head' = IF p[t] = obj[t] THEN NULL ELSE head
    /\ Goto(t, IF p[t] = obj[t] THEN "free" ELSE "search")
    /\ UNCHANGED <<next, life, proc, loc, crashed, hist>>

UnlinkFirst(t) ==
    /\ At(t, "first")
    /\ head' = IF p[t] = obj[t] THEN next[obj[t]] ELSE head
    /\ Goto(t, IF p[t] = obj[t] THEN "free" ELSE "search")
    /\ UNCHANGED <<next, life, proc, loc, crashed, hist>>

UnlinkInner(t) ==
    /\ At(t, "search")
    /\ \/ /\ p[t] = NULL
          /\ Goto(t, "free")
          /\ UNCHANGED <<list, proc, loc, crashed, hist>>
       \/ /\ p[t] # NULL
          /\ life[p[t]] = "gone"
          /\ Crash
       \/ /\ p[t] # NULL
          /\ life[p[t]] # "gone"
          /\ next[p[t]] = obj[t]
          /\ next' = Set(next, p[t], next[obj[t]])
          /\ Goto(t, "free")
          /\ UNCHANGED <<head, life, proc, loc, crashed, hist>>
       \/ /\ p[t] # NULL
          /\ life[p[t]] # "gone"
          /\ next[p[t]] # obj[t]
          /\ p' = Set(p, t, next[p[t]])
          /\ UNCHANGED <<list, proc, pc, obj, todo, mod, want, owed, crashed, hist>>

(* The destructor returns and the storage of the object is reused. *)
Destroyed(t) ==
    /\ At(t, "free")
    /\ life' = Set(life, obj[t], "gone")
    /\ Return(t)
    /\ UNCHANGED <<head, next, proc, crashed, hist>>

----------------------------------------------------------------------------
(* A call of LoadLibrary in a module.  Its own table says where it goes.   *)

New(m) == ({m} \cup Needs[m]) \ loaded

RealLoad(m) ==
    /\ loaded' = loaded \cup New(m)
    /\ iat' = [k \in Modules |-> IF k \in New(m) THEN Fresh ELSE iat[k]]
    /\ overlap' = overlap \cup Dying

PlainLoad(t, caller, m) ==
    /\ At(t, "idle")
    /\ iat[caller]["LoadLibrary"] = Orig
    /\ RealLoad(m)
    /\ wild' = wild \cup New(m)
    /\ UNCHANGED <<list, pc, loc, crashed, blind>>

(* CAPIHook_New::LoadLibraryA: its own call may have been hooked as well.  *)
(* A call that fails, or maps a file as data, is not followed by a walk    *)
(* and changes nothing here.                                               *)
LoadLibrary(t, caller, m) ==
    /\ At(t, "idle")
    /\ iat[caller]["LoadLibrary"] # Orig
    /\ \/ /\ iat[Own]["LoadLibrary"] # Orig
          /\ Crash
       \/ /\ iat[Own]["LoadLibrary"] = Orig
          /\ RealLoad(m)
          /\ wild' = (wild \cup New(m)) \ {m}
          /\ mod' = Set(mod, t, m)
          /\ Goto(t, "begin")
          /\ UNCHANGED <<list, obj, todo, p, want, owed, crashed, blind>>

HookNewlyLoadedModule(t) ==
    /\ At(t, "begin")
    /\ \/ head = NULL /\ Return(t)
       \/ /\ head # NULL
          /\ p' = Set(p, t, head)
          /\ Goto(t, "hook")
          /\ UNCHANGED <<obj, todo, mod, want, owed>>
    /\ UNCHANGED <<list, proc, crashed, hist>>

(* Faulty: the search in the table does not stop at the wanted function. *)
HookOneEverywhere(t) ==
    /\ At(t, "hook")
    /\ iat' = [iat EXCEPT ![mod[t]] = [f \in Funcs |-> p[t]]]
    /\ Goto(t, "next")
    /\ UNCHANGED <<list, loaded, loc, crashed, hist>>

HookOne(t) ==
    /\ At(t, "hook")
    /\ \/ /\ life[p[t]] = "gone"
          /\ Crash
       \/ /\ life[p[t]] # "gone"
          /\ iat' = ReplaceIATEntryInOneMod(FuncOf(p[t]), Orig, p[t], mod[t])
          /\ Goto(t, "next")
          /\ UNCHANGED <<list, loaded, loc, crashed, hist>>

(* Faulty: the loop tests p->m_pNext, the last object of the list is left out. *)
HookStepShort(t) ==
    /\ At(t, "next")
    /\ \/ (next[p[t]] = NULL \/ next[next[p[t]]] = NULL) /\ Return(t)
       \/ /\ next[p[t]] # NULL
          /\ next[next[p[t]]] # NULL
          /\ p' = Set(p, t, next[p[t]])
          /\ Goto(t, "hook")
          /\ UNCHANGED <<obj, todo, mod, want, owed>>
    /\ UNCHANGED <<list, proc, crashed, hist>>

HookStep(t) ==
    /\ At(t, "next")
    /\ \/ /\ life[p[t]] = "gone"
          /\ Crash
       \/ /\ life[p[t]] # "gone"
          /\ next[p[t]] = NULL
          /\ Return(t)
          /\ UNCHANGED <<list, proc, crashed, hist>>
       \/ /\ life[p[t]] # "gone"
          /\ next[p[t]] # NULL
          /\ p' = Set(p, t, next[p[t]])
          /\ Goto(t, "hook")
          /\ UNCHANGED <<list, proc, obj, todo, mod, want, owed, crashed, hist>>

(* The last reference to a module is dropped. *)
FreeLibrary(m) ==
    /\ ~crashed
    /\ m \in loaded \ Initial
    /\ \A k \in loaded \ {m} : m \notin Needs[k]
    /\ \A t \in Threads : Loading(t) => mod[t] # m
    /\ loaded' = loaded \ {m}
    /\ iat' = Set(iat, m, Fresh)
    /\ wild' = wild \ {m}
    /\ UNCHANGED <<list, pc, loc, crashed, blind, overlap>>

----------------------------------------------------------------------------
(* CAPIHook_New::GetProcAddress, called in a module whose table leads to   *)
(* it.                                                                     *)

GetProcAddress(t, caller, f) ==
    /\ At(t, "idle")
    /\ iat[caller]["GetProcAddress"] # Orig
    /\ \/ /\ iat[Own]["GetProcAddress"] # Orig
          /\ Crash
       \/ /\ iat[Own]["GetProcAddress"] = Orig
          /\ want' = Set(want, t, f)
          /\ p' = Set(p, t, head)
          /\ owed' = Set(owed, t, {h \in Hooks : life[h] = "live" /\ FuncOf(h) = f})
          /\ Goto(t, "find")
          /\ UNCHANGED <<list, proc, obj, todo, mod, crashed, wild, blind, overlap>>

(* Return m_pfnHook of the first object for the function, or go on. *)
FindStep(t) ==
    /\ At(t, "find")
    /\ p[t] # NULL
    /\ \/ /\ life[p[t]] = "gone"
          /\ Crash
       \/ /\ life[p[t]] # "gone"
          /\ FuncOf(p[t]) = want[t]
          /\ Return(t)
          /\ UNCHANGED <<list, proc, crashed, hist>>
       \/ /\ life[p[t]] # "gone"
          /\ FuncOf(p[t]) # want[t]
          /\ p' = Set(p, t, next[p[t]])
          /\ UNCHANGED <<list, proc, pc, obj, todo, mod, want, owed, crashed, hist>>

(* The list is over: the caller gets the address of the real function. *)
FindEnds(t) ==
    /\ At(t, "find")
    /\ p[t] = NULL
    /\ Return(t)
    /\ UNCHANGED <<list, proc, crashed, hist>>

----------------------------------------------------------------------------

Maker(t) ==
    \/ \E h \in UserHooks : Construct(t, h) \/ Destroy(t, h)
    \/ Link(t) \/ MakeList(t) \/ MakeHook(t) \/ Made(t)
    \/ UndoList(t) \/ UndoHook(t) \/ ReadHead(t)
    \/ UnlinkFirst(t) \/ UnlinkInner(t) \/ Destroyed(t)

Caller(t) ==
    \/ \E c \in loaded, m \in Modules : PlainLoad(t, c, m) \/ LoadLibrary(t, c, m)
    \/ HookNewlyLoadedModule(t) \/ HookOne(t) \/ HookStep(t)
    \/ \E c \in loaded, f \in Funcs : GetProcAddress(t, c, f)
    \/ FindStep(t) \/ FindEnds(t)

Next ==
    \/ \E t \in Makers : Maker(t)
    \/ \E t \in Callers : Caller(t)
    \/ \E m \in Modules : FreeLibrary(m)

Spec == Init /\ [][Next]_vars

----------------------------------------------------------------------------

(* The slot of a function never holds the address of a hook for another    *)
(* one, and each thread's place in the code agrees with what it works on.  *)
TypeOK ==
    /\ head \in Hooks \cup {NULL}
    /\ next \in [Hooks -> Hooks \cup {NULL}]
    /\ life \in [Hooks -> {"raw", "making", "live", "dying", "gone"}]
    /\ loaded \in SUBSET Modules /\ Initial \subseteq loaded
    /\ DOMAIN iat = Modules
    /\ \A m \in Modules :
         /\ DOMAIN iat[m] = Funcs
         /\ \A f \in Funcs : iat[m][f] \in {Orig} \cup {h \in Hooks : FuncOf(h) = f}
    /\ pc \in [Threads -> {"idle", "link", "list", "make", "undo", "unmake", "first",
                           "search", "free", "begin", "hook", "next", "find"}]
    /\ obj \in [Threads -> UserHooks \cup {NULL}]
    /\ todo \in [Threads -> SUBSET Modules]
    /\ mod \in [Threads -> Modules \cup {NULL}]
    /\ p \in [Threads -> Hooks \cup {NULL}]
    /\ want \in [Threads -> Funcs \cup {NULL}]
    /\ crashed \in BOOLEAN
    /\ wild \in SUBSET Modules
    /\ blind \in SUBSET UserHooks
    /\ overlap \in SUBSET UserHooks
    /\ owed \in [Threads -> SUBSET Hooks]
    /\ \A t \in Threads :
         /\ pc[t] \in {"link", "list", "make", "undo", "unmake", "first", "search", "free"}
              => obj[t] \in UserHooks
         /\ Loading(t) => mod[t] \in Modules
         /\ pc[t] \in {"hook", "next"} => p[t] \in Hooks

(* The constructor puts the object on the list before it asks for the      *)
(* modules, LoadLibrary walks the list after the module is in (lines 24 to *)
(* 28 and 163 to 183): whatever the interleaving, a module that one of the *)
(* two saw calls the hook, unless another object claims the function too.  *)
NoModuleMissed ==
    \A h \in Hooks \ blind : \A m \in loaded \ (wild \cup Spared(h)) :
        ( /\ life[h] = "live"
          /\ \A g \in Hooks \ {h} : FuncOf(g) = FuncOf(h) => life[g] = "raw"
          /\ \A t \in Threads : Loading(t) => mod[t] # m )
        => iat[m][FuncOf(h)] = h

(* "Cancel the hook of the function in all modules" (line 33): when nobody *)
(* loaded a library beside the destructor, no module is left that calls    *)
(* the hook of a destroyed object, also of one that shared its function    *)
(* with others.                                                            *)
DeadHookGone ==
    \A h \in UserHooks \ (blind \cup overlap) : \A m \in loaded \ Spared(h) :
        life[h] = "gone" => iat[m][FuncOf(h)] # h

(* GetProcAddress tells the address of the real function only if no object *)
(* for it was there all along (lines 206 to 225), whatever was put on the  *)
(* list or taken off it during the search.                                 *)
SearchFindsHook ==
    \A t \in Threads : pc[t] = "find" /\ p[t] = NULL => owed[t] = {}

(* Line 77: "note: the functions of the current module are not hooked". *)
OwnModuleNotHooked ==
    \A f \in Funcs : iat[Own][f] \notin Hooks \ Everywhere

=============================================================================
