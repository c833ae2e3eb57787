------------------------- MODULE CAPIHook_New_proofs -------------------------
(***************************************************************************)
(* Proofs about CAPIHook_New, for any set of threads, modules, objects and *)
(* functions.                                                              *)
(*                                                                         *)
(* Any number of makers: the types, and that no hook of a destroyed object *)
(* stays in a table (DeadHookGone).  Each object under construction or     *)
(* destruction belongs to one thread (Owners), no load overlaps the        *)
(* destructor of an object outside overlap (Alone), and a table that still *)
(* names such an object is one that its destructor has yet to visit        *)
(* (Undone).                                                               *)
(*                                                                         *)
(* One maker: what the walks over sm_pHeader find (SearchFindsHook and     *)
(* NoModuleMissed).  The argument is about what is ahead of a walk: an     *)
(* object h is ahead of x when every set that holds x and follows m_pNext  *)
(* holds h.  A constructor puts its object before all others and a         *)
(* destructor takes out no object but its own, so neither takes anything   *)
(* else away from what is ahead of a walk that has already begun.  Two     *)
(* makers can lose an object from the list, since the constructor reads    *)
(* sm_pHeader and writes it in two steps.                                  *)
(***************************************************************************)
EXTENDS CAPIHook_New, TLAPS

\* Where the constructor and the destructor are.
Making   == {"link", "list", "make"}
Undoing  == {"undo", "unmake", "first", "search", "free"}

\* What the slot of a function may hold.
Slot(f) == {Orig} \cup {h \in Hooks : FuncOf(h) = f}

\* Import tables in which a slot holds the hooks of its own function only.
Tables(tab) ==
    /\ DOMAIN tab = Modules
    /\ \A m \in Modules :
         /\ DOMAIN tab[m] = Funcs
         /\ \A f \in Funcs : tab[m][f] \in Slot(f)

\* Each object that is constructed or destroyed belongs to the one thread that does it.
Owners ==
    /\ \A t \in Threads :
         /\ pc[t] \in Making  => life[obj[t]] = "making"
         /\ pc[t] \in Undoing => life[obj[t]] = "dying"
         /\ obj[t] # NULL => pc[t] \in Making \cup Undoing
    /\ \A t, u \in Threads : obj[t] = obj[u] /\ obj[t] # NULL => t = u
    /\ \A h \in Hooks : life[h] = "making" => \E t \in Threads : obj[t] = h /\ pc[t] \in Making

\* Nothing points to an object before its constructor runs.
RawUnseen ==
    \A h \in Hooks : life[h] = "raw" =>
        /\ head # h
        /\ \A g \in Hooks : next[g] # h
        /\ \A t \in Threads : p[t] # h
        /\ \A m \in Modules, f \in Funcs : iat[m][f] # h

\* While an object outside overlap is destroyed, no thread loads a library.
Alone ==
    \A h \in UserHooks \ overlap : life[h] = "dying" => \A t \in Threads : ~Loading(t)

\* A table that names an object that is being destroyed, or was, is still to be
\* visited by the destructor.
Undone ==
    \A h \in UserHooks \ (blind \cup overlap) : \A m \in loaded \ Spared(h) :
        life[h] \in {"dying", "gone"} /\ iat[m][FuncOf(h)] = h =>
            \E t \in Threads : /\ obj[t] = h
                               /\ pc[t] = "undo" \/ (pc[t] = "unmake" /\ m \in todo[t])

\* At most one thread constructs and destroys objects.
OneMaker == \A t, u \in Makers : t = u

\* h is ahead of x along n: whatever set contains x and follows n contains h.
Closed(n, S)   == \A h \in S \ {NULL} : n[h] \in S
Ahead(n, x, h) == \A S \in SUBSET (Hooks \cup {NULL}) : x \in S /\ Closed(n, S) => h \in S

\* The list holds every object that is alive, and the one under construction once
\* it is linked; what the one maker read of the head is still true.
Listed ==
    /\ \A h \in Hooks : life[h] = "live" => Ahead(next, head, h)
    /\ \A t \in Threads :
         /\ pc[t] \in {"list", "make"} => Ahead(next, head, obj[t])
         /\ pc[t] = "link"  => next[obj[t]] = head
         /\ pc[t] = "first" => p[t] = head
         /\ pc[t] \in Making \cup Undoing => t \in Makers

\* What a GetProcAddress must not fail to see is ahead of it.
Searching ==
    \A t \in Threads : pc[t] = "find" =>
        \A h \in owed[t] : FuncOf(h) = want[t] /\ life[h] = "live" /\ Ahead(next, p[t], h)

\* No other object was ever constructed for the function of h.
AloneFor(h) == \A g \in Hooks \ {h} : FuncOf(g) = FuncOf(h) => life[g] = "raw"

\* The constructor of h has yet to visit m.
ByMaker(h, m) ==
    \E t \in Threads : /\ obj[t] = h
                       /\ pc[t] \in {"link", "list"} \/ (pc[t] = "make" /\ m \in todo[t])
\* The LoadLibrary that brought m walks the list, and h is ahead of it.
ByLoader(h, m) ==
    \E t \in Threads : /\ mod[t] = m
                       /\ \/ pc[t] = "begin"
                          \/ pc[t] = "hook" /\ Ahead(next, p[t], h)
                          \/ pc[t] = "next" /\ Ahead(next, next[p[t]], h)

\* h should be called by m.
Claims(h, m) ==
    /\ h \notin blind /\ m \in loaded /\ m \notin wild /\ m \notin Spared(h)
    /\ life[h] \in {"making", "live"} /\ AloneFor(h)

\* A module that should call h does so or will be given to h.
Covered ==
    \A h \in Hooks, m \in Modules :
        Claims(h, m) => iat[m][FuncOf(h)] = h \/ ByMaker(h, m) \/ ByLoader(h, m)

\* The names of the objects are not those of the two constants.
LEMMA NamesDiffer ==
  /\ UserHooks \cap Statics = {} /\ NULL \notin Hooks /\ Orig \notin Hooks /\ NULL # Orig
  /\ \A h \in Hooks : FuncOf(h) \in Funcs
  /\ Makers \subseteq Threads /\ Callers \subseteq Threads /\ UserHooks \subseteq Hooks
  BY HookConstants DEF Hooks, Statics, NULL, Orig, Funcs, Threads

\* ReplaceIATEntryInOneMod changes at most the slot of the function in the one module.
LEMMA ReplaceMeans ==
  ASSUME Tables(iat), NEW f \in Funcs, NEW cur, NEW new \in Slot(f),
         NEW k \in Modules, NEW tab, tab = ReplaceIATEntryInOneMod(f, cur, new, k)
  PROVE  /\ Tables(tab)
         /\ \A m \in Modules, g \in Funcs :
              tab[m][g] = IF m = k /\ g = f /\ iat[m][g] = cur THEN new ELSE iat[m][g]
  <1>1. CASE iat[k][f] # cur
    BY <1>1 DEF ReplaceIATEntryInOneMod
  <1>2. CASE iat[k][f] = cur
    <2>1. tab = [iat EXCEPT ![k][f] = new]
      BY <1>2 DEF ReplaceIATEntryInOneMod
    <2> QED BY <1>2, <2>1 DEF Tables
  <1> QED BY <1>1, <1>2

\* One visit of ReplaceIATEntryInAllMods changes at most the slot of the object's
\* function in the module that is visited, or ends the process.
Visits(t, cur, new) ==
  /\ \E k \in todo[t] \cap loaded :
       /\ todo' = [todo EXCEPT ![t] = todo[t] \ {k}]
       /\ \A m \in Modules, g \in Funcs :
            iat'[m][g] = IF /\ m = k /\ k \notin Spared(obj[t])
                            /\ g = FuncOf(obj[t]) /\ iat[m][g] = cur
                         THEN new ELSE iat[m][g]
  /\ Tables(iat')
  /\ UNCHANGED <<list, loaded, pc, obj, mod, p, want, owed, crashed, hist>>

LEMMA VisitMeans ==
  ASSUME TypeOK, NEW t \in Threads, obj[t] \in UserHooks, NEW cur,
         NEW new \in {Orig, obj[t]}, ReplaceNext(t, cur, new)
  PROVE  Crash \/ Visits(t, cur, new)
  <1> DEFINE f == FuncOf(obj[t])
  <1>1. CASE Crash
    BY <1>1
  <1>2. CASE ~Crash
    <2>1. PICK k \in todo[t] :
            /\ k \in loaded /\ todo' = Set(todo, t, todo[t] \ {k})
            /\ iat' = IF k \in Spared(obj[t]) THEN iat ELSE ReplaceIATEntryInOneMod(f, cur, new, k)
            /\ UNCHANGED <<list, loaded, pc, obj, mod, p, want, owed, crashed, hist>>
      BY <1>2 DEF ReplaceNext
    <2>2. k \in Modules /\ f \in Funcs /\ new \in Slot(f) /\ Tables(iat)
      BY <2>1, NamesDiffer DEF TypeOK, Tables, Slot
    <2>3. todo' = [todo EXCEPT ![t] = todo[t] \ {k}]
      BY <2>1 DEF Set
    <2>4. CASE k \in Spared(obj[t])
      BY <2>1, <2>2, <2>3, <2>4 DEF Visits
    <2>5. CASE k \notin Spared(obj[t])
      <3>1. iat' = ReplaceIATEntryInOneMod(f, cur, new, k)
        BY <2>1, <2>5
      <3> HIDE DEF f
      <3>2. /\ Tables(iat')
            /\ \A m \in Modules, g \in Funcs :
                 iat'[m][g] = IF m = k /\ g = f /\ iat[m][g] = cur THEN new ELSE iat[m][g]
        BY <2>2, <3>1, ReplaceMeans
      <3> QED BY <2>1, <2>3, <2>5, <3>2 DEF f, Visits
    <2> QED BY <2>4, <2>5
  <1> QED BY <1>1, <1>2

\* The same for one object in the walk over the list.
LEMMA HookMeans ==
  ASSUME TypeOK, NEW t \in Threads, HookOne(t)
  PROVE  \/ Crash
         \/ /\ At(t, "hook") /\ p[t] \in Hooks /\ life[p[t]] # "gone" /\ mod[t] \in Modules
            /\ Goto(t, "next") /\ Tables(iat')
            /\ \A m \in Modules, g \in Funcs :
                 iat'[m][g] = IF m = mod[t] /\ g = FuncOf(p[t]) /\ iat[m][g] = Orig
                              THEN p[t] ELSE iat[m][g]
            /\ UNCHANGED <<list, loaded, loc, crashed, hist>>
  <1> DEFINE f == FuncOf(p[t])
             k == mod[t]
             new == p[t]
  <1>1. CASE Crash
    BY <1>1
  <1>2. CASE ~Crash
    <2>1. /\ At(t, "hook") /\ life[p[t]] # "gone" /\ Goto(t, "next")
          /\ iat' = ReplaceIATEntryInOneMod(f, Orig, new, k)
          /\ UNCHANGED <<list, loaded, loc, crashed, hist>>
      BY <1>2 DEF HookOne
    <2>2. /\ k \in Modules /\ f \in Funcs /\ new \in Hooks
          /\ new \in Slot(f) /\ Tables(iat)
      BY <2>1, NamesDiffer DEF TypeOK, Tables, Slot, At, Loading
    <2> HIDE DEF f, k, new
    <2>3. /\ Tables(iat')
          /\ \A m \in Modules, g \in Funcs :
               iat'[m][g] = IF m = k /\ g = f /\ iat[m][g] = Orig THEN new ELSE iat[m][g]
      BY <2>1, <2>2, ReplaceMeans
    <2> QED BY <2>1, <2>2, <2>3 DEF f, k, new
  <1> QED BY <1>1, <1>2

\* A fresh table has no hooks.
LEMMA FreshTyped == DOMAIN Fresh = Funcs /\ \A f \in Funcs : Fresh[f] = Orig
  BY DEF Fresh

\* LoadLibrary of the kernel keeps the tables of what was loaded before.
LEMMA LoadMeans ==
  ASSUME TypeOK, NEW m \in Modules, RealLoad(m)
  PROVE  /\ loaded' = loaded \cup New(m) /\ New(m) \in SUBSET Modules /\ New(m) \cap loaded = {}
         /\ m \in loaded' /\ Tables(iat')
         /\ \A k \in Modules, g \in Funcs :
              iat'[k][g] = IF k \in New(m) THEN Orig ELSE iat[k][g]
         /\ overlap' = overlap \cup Dying
  <1>1. New(m) \in SUBSET Modules /\ New(m) \cap loaded = {} /\ m \in loaded \cup New(m)
    BY HookConstants DEF New
  <1>2. \A k \in Modules : iat'[k] = IF k \in New(m) THEN Fresh ELSE iat[k]
    BY DEF RealLoad
  <1>3. DOMAIN iat' = Modules
    BY DEF RealLoad
  <1>4. Tables(iat')
    BY <1>2, <1>3, FreshTyped DEF Tables, Slot, TypeOK
  <1> QED BY <1>1, <1>2, <1>4, FreshTyped DEF RealLoad

\* The types, in four parts.
ListTypes ==
    /\ head \in Hooks \cup {NULL}
    /\ next \in [Hooks -> Hooks \cup {NULL}]
    /\ life \in [Hooks -> {"raw", "making", "live", "dying", "gone"}]
TableTypes == loaded \in SUBSET Modules /\ Initial \subseteq loaded /\ Tables(iat)
ThreadTypes ==
    /\ pc \in [Threads -> {"idle", "link", "list", "make", "undo", "unmake", "first",
                           "search", "free", "begin", "hook", "next", "find"}]
    /\ obj \in [Threads -> UserHooks \cup {NULL}]
    /\ todo \in [Threads -> SUBSET Modules]
    /\ mod \in [Threads -> Modules \cup {NULL}]
    /\ p \in [Threads -> Hooks \cup {NULL}]
    /\ want \in [Threads -> Funcs \cup {NULL}]
    /\ owed \in [Threads -> SUBSET Hooks]
    /\ \A t \in Threads :
         /\ pc[t] \in Making \cup Undoing => obj[t] \in UserHooks
         /\ Loading(t) => mod[t] \in Modules
         /\ pc[t] \in {"hook", "next"} => p[t] \in Hooks
HistTypes ==
    /\ crashed \in BOOLEAN /\ wild \in SUBSET Modules
    /\ blind \in SUBSET UserHooks /\ overlap \in SUBSET UserHooks

\* The class's own objects live as long as the process.
StaticsLive == \A h \in Statics : life[h] = "live"

TInv == TypeOK /\ StaticsLive

\* They make up the type invariant, in a state and after a step.
LEMMA TypeParts == TypeOK <=> ListTypes /\ TableTypes /\ ThreadTypes /\ HistTypes
  <1>1. ASSUME TypeOK PROVE ListTypes /\ TableTypes /\ HistTypes
    BY <1>1 DEF TypeOK, ListTypes, TableTypes, HistTypes, Tables, Slot
  <1>2. ASSUME TypeOK PROVE ThreadTypes
    BY <1>2 DEF TypeOK, ThreadTypes, Making, Undoing
  <1>3. ASSUME ListTypes, TableTypes, ThreadTypes, HistTypes PROVE TypeOK
    BY <1>3 DEF TypeOK, ListTypes, TableTypes, ThreadTypes, HistTypes, Tables, Slot, Making, Undoing
  <1> QED BY <1>1, <1>2, <1>3

\* The same of the state after a step, with the objects of the class.
LEMMA TypePartsNext ==
  ASSUME ListTypes', TableTypes', ThreadTypes', HistTypes', StaticsLive' PROVE TInv'
  BY DEF TypeOK, ListTypes, TableTypes, ThreadTypes, HistTypes, Tables, Slot, Making, Undoing, TInv

\* What the types say of the thread that takes a step.
LEMMA ThreadHas ==
  ASSUME TInv, NEW t \in Threads
  PROVE  /\ obj[t] \in UserHooks \cup {NULL} /\ p[t] \in Hooks \cup {NULL}
         /\ pc[t] \in Making \cup Undoing => obj[t] \in UserHooks
         /\ pc[t] \in {"hook", "next"} => p[t] \in Hooks
         /\ \A h \in Hooks : next[h] \in Hooks \cup {NULL}
         /\ head \in Hooks \cup {NULL} /\ loaded \in SUBSET Modules
         /\ overlap \in SUBSET UserHooks /\ Dying \in SUBSET UserHooks
  BY DEF TInv, TypeOK, Making, Undoing, StaticsLive, Dying, Hooks

\* A crash keeps what the threads, the list and the tables were.
LEMMA CrashTypes == ASSUME TInv, Crash PROVE TInv'
  BY DEF TInv, StaticsLive, TypeOK, Crash, list, proc, loc, hist, Loading

\* Every step keeps the types.
LEMMA TypesStep == ASSUME TInv, [Next]_vars PROVE TInv'
  <1> USE DEF list, proc, loc, hist, Goto, Set, Return, At, vars
  <1>1. ASSUME NEW t \in Makers, NEW h \in UserHooks, Construct(t, h)
       PROVE TInv'
    <2>1. t \in Threads
      BY <1>1, NamesDiffer
    <2> QED BY <1>1, <2>1, ThreadHas, NamesDiffer, CrashTypes
         DEF TInv, TypeOK, StaticsLive, Tables, Slot, Loading, Making, Undoing, Hooks, Construct
  <1>2. ASSUME NEW t \in Makers, NEW h \in UserHooks, Destroy(t, h)
       PROVE TInv'
    <2>1. t \in Threads
      BY <1>2, NamesDiffer
    <2> QED BY <1>2, <2>1, ThreadHas, NamesDiffer, CrashTypes
         DEF TInv, TypeOK, StaticsLive, Tables, Slot, Loading, Making, Undoing, Hooks, Destroy
  <1>3. ASSUME NEW t \in Threads, Link(t)
       PROVE TInv'
    BY <1>3, ThreadHas, NamesDiffer, CrashTypes
    DEF TInv, TypeOK, StaticsLive, Tables, Slot, Loading, Making, Undoing, Hooks, Link
  <1>4. ASSUME NEW t \in Threads, MakeList(t)
       PROVE TInv'
    BY <1>4, ThreadHas, NamesDiffer, CrashTypes
    DEF TInv, TypeOK, StaticsLive, Tables, Slot, Loading, Making, Undoing, Hooks, Snapshot,
        SnapshotFails, MakeList
  <1>5. ASSUME NEW t \in Threads, MakeHook(t)
       PROVE TInv'
    BY <1>5, ThreadHas, NamesDiffer, CrashTypes, VisitMeans
    DEF TInv, TypeOK, StaticsLive, Tables, Slot, Loading, Making, Undoing, Hooks, Visits, MakeHook
  <1>6. ASSUME NEW t \in Threads, Made(t)
       PROVE TInv'
    BY <1>6, ThreadHas, NamesDiffer, CrashTypes
    DEF TInv, TypeOK, StaticsLive, Tables, Slot, Loading, Making, Undoing, Hooks, Made
  <1>7. ASSUME NEW t \in Threads, UndoList(t)
       PROVE TInv'
    BY <1>7, ThreadHas, NamesDiffer, CrashTypes
    DEF TInv, TypeOK, StaticsLive, Tables, Slot, Loading, Making, Undoing, Hooks, Snapshot,
        SnapshotFails, UndoList
  <1>8. ASSUME NEW t \in Threads, UndoHook(t)
       PROVE TInv'
    BY <1>8, ThreadHas, NamesDiffer, CrashTypes, VisitMeans
    DEF TInv, TypeOK, StaticsLive, Tables, Slot, Loading, Making, Undoing, Hooks, Visits, UndoHook
  <1>9. ASSUME NEW t \in Threads, ReadHead(t)
       PROVE TInv'
    BY <1>9, ThreadHas, NamesDiffer, CrashTypes
    DEF TInv, TypeOK, StaticsLive, Tables, Slot, Loading, Making, Undoing, Hooks, ReadHead
  <1>10. ASSUME NEW t \in Threads, UnlinkFirst(t)
       PROVE TInv'
    BY <1>10, ThreadHas, NamesDiffer, CrashTypes
    DEF TInv, TypeOK, StaticsLive, Tables, Slot, Loading, Making, Undoing, Hooks, UnlinkFirst
  <1>11. ASSUME NEW t \in Threads, UnlinkInner(t)
       PROVE TInv'
    BY <1>11, ThreadHas, NamesDiffer, CrashTypes
    DEF TInv, TypeOK, StaticsLive, Tables, Slot, Loading, Making, Undoing, Hooks, UnlinkInner
  <1>12. ASSUME NEW t \in Threads, Destroyed(t)
       PROVE TInv'
    BY <1>12, ThreadHas, NamesDiffer, CrashTypes
    DEF TInv, TypeOK, StaticsLive, Tables, Slot, Loading, Making, Undoing, Hooks, Destroyed
  <1>13. ASSUME NEW t \in Threads, NEW c \in loaded, NEW m \in Modules, PlainLoad(t, c, m)
       PROVE TInv'
    BY <1>13, ThreadHas, NamesDiffer, CrashTypes, LoadMeans
    DEF TInv, TypeOK, StaticsLive, Tables, Slot, Loading, Making, Undoing, Hooks, RealLoad,
        Dying, PlainLoad
  <1>14. ASSUME NEW t \in Threads, NEW c \in loaded, NEW m \in Modules, LoadLibrary(t, c, m)
       PROVE TInv'
    <2>1. CASE Crash
      BY <2>1, CrashTypes
    <2>2. CASE ~Crash
      <3>1. ListTypes'
        BY <1>14, <2>2, ThreadHas, NamesDiffer, LoadMeans, TypeParts
        DEF TInv, ListTypes, Making, Undoing, RealLoad, Dying, LoadLibrary
      <3>2. TableTypes'
        BY <1>14, <2>2, ThreadHas, NamesDiffer, LoadMeans, TypeParts
        DEF TInv, TableTypes, Tables, RealLoad, Dying, LoadLibrary
      <3>3. ThreadTypes'
        BY <1>14, <2>2, ThreadHas, NamesDiffer, LoadMeans, TypeParts
        DEF TInv, ThreadTypes, Loading, Making, Undoing, RealLoad, Dying, LoadLibrary
      <3>4. HistTypes'
        BY <1>14, <2>2, ThreadHas, NamesDiffer, LoadMeans, TypeParts
        DEF TInv, HistTypes, Making, Undoing, RealLoad, Dying, LoadLibrary
      <3>5. StaticsLive'
        BY <1>14, <2>2, ThreadHas, NamesDiffer, LoadMeans, TypeParts
        DEF TInv, StaticsLive, ListTypes, Hooks, RealLoad, Dying, LoadLibrary
      <3> QED BY <3>1, <3>2, <3>3, <3>4, <3>5, TypePartsNext
    <2> QED BY <2>1, <2>2
  <1>15. ASSUME NEW t \in Threads, HookNewlyLoadedModule(t)
       PROVE TInv'
    BY <1>15, ThreadHas, NamesDiffer, CrashTypes
    DEF TInv, TypeOK, StaticsLive, Tables, Slot, Loading, Making, Undoing, Hooks,
        HookNewlyLoadedModule
  <1>16. ASSUME NEW t \in Threads, HookOne(t)
       PROVE TInv'
    BY <1>16, ThreadHas, NamesDiffer, CrashTypes, HookMeans
    DEF TInv, TypeOK, StaticsLive, Tables, Slot, Loading, Making, Undoing, Hooks
  <1>17. ASSUME NEW t \in Threads, HookStep(t)
       PROVE TInv'
    BY <1>17, ThreadHas, NamesDiffer, CrashTypes
    DEF TInv, TypeOK, StaticsLive, Tables, Slot, Loading, Making, Undoing, Hooks, HookStep
  <1>18. ASSUME NEW t \in Threads, NEW c \in loaded, NEW f \in Funcs, GetProcAddress(t, c, f)
       PROVE TInv'
    BY <1>18, ThreadHas, NamesDiffer, CrashTypes
    DEF TInv, TypeOK, StaticsLive, Tables, Slot, Loading, Making, Undoing, Hooks, GetProcAddress
  <1>19. ASSUME NEW t \in Threads, FindStep(t)
       PROVE TInv'
    BY <1>19, ThreadHas, NamesDiffer, CrashTypes
    DEF TInv, TypeOK, StaticsLive, Tables, Slot, Loading, Making, Undoing, Hooks, FindStep
  <1>20. ASSUME NEW t \in Threads, FindEnds(t)
       PROVE TInv'
    BY <1>20, ThreadHas, NamesDiffer, CrashTypes
    DEF TInv, TypeOK, StaticsLive, Tables, Slot, Loading, Making, Undoing, Hooks, FindEnds
  <1>21. ASSUME NEW m \in Modules, FreeLibrary(m)
       PROVE TInv'
    BY <1>21, NamesDiffer, FreshTyped DEF TInv, TypeOK, StaticsLive, Tables, Slot, Loading,
        FreeLibrary
  <1>22. CASE UNCHANGED vars
    BY <1>22, NamesDiffer DEF TInv, TypeOK, StaticsLive, Tables, Slot, Loading
  <1> QED BY NamesDiffer, <1>1, <1>2, <1>3, <1>4, <1>5, <1>6, <1>7, <1>8, <1>9, <1>10, <1>11, <1>12,
             <1>13, <1>14, <1>15, <1>16, <1>17, <1>18, <1>19, <1>20, <1>21, <1>22
      DEF Next, Maker, Caller

\* Every step keeps the owners of the objects.
LEMMA OwnersStep ==
  ASSUME TInv, Owners, [Next]_vars PROVE Owners'
  <1> USE DEF list, proc, loc, hist, Goto, Set, Return, At, Crash, vars
  <1>1. ASSUME NEW t \in Makers, NEW h \in UserHooks, Construct(t, h)
       PROVE Owners'
    <2>1. t \in Threads
      BY <1>1, NamesDiffer
    <2> QED BY <1>1, <2>1, ThreadHas, NamesDiffer
         DEF TInv, TypeOK, Owners, Making, Undoing, Construct
  <1>2. ASSUME NEW t \in Makers, NEW h \in UserHooks, Destroy(t, h)
       PROVE Owners'
    <2>1. t \in Threads
      BY <1>2, NamesDiffer
    <2> QED BY <1>2, <2>1, ThreadHas, NamesDiffer
         DEF TInv, TypeOK, Owners, Making, Undoing, Destroy
  <1>3. ASSUME NEW t \in Threads, Link(t)
       PROVE Owners'
    BY <1>3, ThreadHas, NamesDiffer
    DEF TInv, TypeOK, Owners, Making, Undoing, Link
  <1>4. ASSUME NEW t \in Threads, MakeList(t)
       PROVE Owners'
    BY <1>4, ThreadHas, NamesDiffer
    DEF TInv, TypeOK, Owners, Making, Undoing, Snapshot, SnapshotFails, MakeList
  <1>5. ASSUME NEW t \in Threads, MakeHook(t)
       PROVE Owners'
    <2>1. t \in Threads /\ obj[t] \in UserHooks /\ pc[t] = "make"
      BY <1>5, ThreadHas, NamesDiffer DEF MakeHook, Making, Undoing
    <2>2. CASE Crash
      BY <2>2 DEF Owners
    <2>3. CASE ~Crash
      <3>1. Visits(t, Orig, obj[t])
        BY <1>5, <2>1, <2>3, VisitMeans DEF TInv, MakeHook
      <3>2. PICK k \in todo[t] \cap loaded :
              /\ todo' = [todo EXCEPT ![t] = todo[t] \ {k}]
              /\ \A m \in Modules, g \in Funcs :
                   iat'[m][g] = IF /\ m = k /\ k \notin Spared(obj[t])
                                   /\ g = FuncOf(obj[t]) /\ iat[m][g] = Orig
                                THEN obj[t] ELSE iat[m][g]
        BY <3>1 DEF Visits
      <3>3. UNCHANGED <<head, next, life, loaded, pc, obj, mod, p, want, owed, wild, blind, overlap>>
        BY <3>1 DEF Visits
      <3> QED BY <2>1, <3>2, <3>3, NamesDiffer, ThreadHas
          DEF Owners, Making, Undoing, TInv, TypeOK
    <2> QED BY <2>2, <2>3
  <1>6. ASSUME NEW t \in Threads, Made(t)
       PROVE Owners'
    BY <1>6, ThreadHas, NamesDiffer
    DEF TInv, TypeOK, Owners, Making, Undoing, Made
  <1>7. ASSUME NEW t \in Threads, UndoList(t)
       PROVE Owners'
    BY <1>7, ThreadHas, NamesDiffer
    DEF TInv, TypeOK, Owners, Making, Undoing, Snapshot, SnapshotFails, UndoList
  <1>8. ASSUME NEW t \in Threads, UndoHook(t)
       PROVE Owners'
    <2>1. t \in Threads /\ obj[t] \in UserHooks /\ pc[t] = "unmake"
      BY <1>8, ThreadHas, NamesDiffer DEF UndoHook, Making, Undoing
    <2>2. CASE Crash
      BY <2>2 DEF Owners
    <2>3. CASE ~Crash
      <3>1. Visits(t, obj[t], Orig)
        BY <1>8, <2>1, <2>3, VisitMeans DEF TInv, UndoHook
      <3>2. PICK k \in todo[t] \cap loaded :
              /\ todo' = [todo EXCEPT ![t] = todo[t] \ {k}]
              /\ \A m \in Modules, g \in Funcs :
                   iat'[m][g] = IF /\ m = k /\ k \notin Spared(obj[t])
                                   /\ g = FuncOf(obj[t]) /\ iat[m][g] = obj[t]
                                THEN Orig ELSE iat[m][g]
        BY <3>1 DEF Visits
      <3>3. UNCHANGED <<head, next, life, loaded, pc, obj, mod, p, want, owed, wild, blind, overlap>>
        BY <3>1 DEF Visits
      <3> QED BY <2>1, <3>2, <3>3, NamesDiffer, ThreadHas
          DEF Owners, Making, Undoing, TInv, TypeOK
    <2> QED BY <2>2, <2>3
  <1>9. ASSUME NEW t \in Threads, ReadHead(t)
       PROVE Owners'
    BY <1>9, ThreadHas, NamesDiffer
    DEF TInv, TypeOK, Owners, Making, Undoing, ReadHead
  <1>10. ASSUME NEW t \in Threads, UnlinkFirst(t)
       PROVE Owners'
    BY <1>10, ThreadHas, NamesDiffer
    DEF TInv, TypeOK, Owners, Making, Undoing, UnlinkFirst
  <1>11. ASSUME NEW t \in Threads, UnlinkInner(t)
       PROVE Owners'
    BY <1>11, ThreadHas, NamesDiffer
    DEF TInv, TypeOK, Owners, Making, Undoing, UnlinkInner
  <1>12. ASSUME NEW t \in Threads, Destroyed(t)
       PROVE Owners'
    BY <1>12, ThreadHas, NamesDiffer
    DEF TInv, TypeOK, Owners, Making, Undoing, Destroyed
  <1>13. ASSUME NEW t \in Threads, NEW c \in loaded, NEW m \in Modules, PlainLoad(t, c, m)
       PROVE Owners'
    BY <1>13, ThreadHas, NamesDiffer, LoadMeans
    DEF TInv, TypeOK, Owners, Making, Undoing, PlainLoad
  <1>14. ASSUME NEW t \in Threads, NEW c \in loaded, NEW m \in Modules, LoadLibrary(t, c, m)
       PROVE Owners'
    BY <1>14, ThreadHas, NamesDiffer, LoadMeans
    DEF TInv, TypeOK, Owners, Making, Undoing, LoadLibrary
  <1>15. ASSUME NEW t \in Threads, HookNewlyLoadedModule(t)
       PROVE Owners'
    BY <1>15, ThreadHas, NamesDiffer
    DEF TInv, TypeOK, Owners, Making, Undoing, HookNewlyLoadedModule
  <1>16. ASSUME NEW t \in Threads, HookOne(t)
       PROVE Owners'
    <2>1. t \in Threads
      BY <1>16, NamesDiffer
    <2>2. CASE Crash
      BY <2>2 DEF Owners
    <2>3. CASE ~Crash
      <3>1. /\ pc[t] = "hook" /\ p[t] \in Hooks /\ life[p[t]] # "gone" /\ mod[t] \in Modules
            /\ pc' = [pc EXCEPT ![t] = "next"]
            /\ \A m \in Modules, g \in Funcs :
                 iat'[m][g] = IF m = mod[t] /\ g = FuncOf(p[t]) /\ iat[m][g] = Orig
                              THEN p[t] ELSE iat[m][g]
            /\ UNCHANGED <<head, next, life, loaded, obj, todo, mod, p, want, owed, wild, blind, overlap>>
        BY <1>16, <2>1, <2>3, HookMeans DEF TInv
      <3> QED BY <2>1, <3>1, NamesDiffer, ThreadHas
          DEF Owners, Making, Undoing, TInv, TypeOK
    <2> QED BY <2>2, <2>3
  <1>17. ASSUME NEW t \in Threads, HookStep(t)
       PROVE Owners'
    BY <1>17, ThreadHas, NamesDiffer
    DEF TInv, TypeOK, Owners, Making, Undoing, HookStep
  <1>18. ASSUME NEW t \in Threads, NEW c \in loaded, NEW f \in Funcs, GetProcAddress(t, c, f)
       PROVE Owners'
    BY <1>18, ThreadHas, NamesDiffer
    DEF TInv, TypeOK, Owners, Making, Undoing, GetProcAddress
  <1>19. ASSUME NEW t \in Threads, FindStep(t)
       PROVE Owners'
    BY <1>19, ThreadHas, NamesDiffer
    DEF TInv, TypeOK, Owners, Making, Undoing, FindStep
  <1>20. ASSUME NEW t \in Threads, FindEnds(t)
       PROVE Owners'
    BY <1>20, ThreadHas, NamesDiffer
    DEF TInv, TypeOK, Owners, Making, Undoing, FindEnds
  <1>21. ASSUME NEW m \in Modules, FreeLibrary(m)
       PROVE Owners'
    BY <1>21, NamesDiffer, FreshTyped DEF TInv, TypeOK, Owners, Making, Undoing, FreeLibrary
  <1>22. CASE UNCHANGED vars
    BY <1>22, NamesDiffer DEF TInv, TypeOK, Owners, Making, Undoing
  <1> QED BY NamesDiffer, <1>1, <1>2, <1>3, <1>4, <1>5, <1>6, <1>7, <1>8, <1>9, <1>10, <1>11, <1>12,
             <1>13, <1>14, <1>15, <1>16, <1>17, <1>18, <1>19, <1>20, <1>21, <1>22
      DEF Next, Maker, Caller

\* Every step keeps objects that were not constructed out of sight.
LEMMA RawStep ==
  ASSUME TInv, Owners, RawUnseen, [Next]_vars PROVE RawUnseen'
  <1> USE DEF list, proc, loc, hist, Goto, Set, Return, At, Crash, vars
  <1>1. ASSUME NEW t \in Makers, NEW h \in UserHooks, Construct(t, h)
       PROVE RawUnseen'
    <2>1. t \in Threads
      BY <1>1, NamesDiffer
    <2> QED BY <1>1, <2>1, ThreadHas, NamesDiffer
         DEF TInv, TypeOK, Owners, RawUnseen, Making, Undoing, Tables, Slot, Construct
  <1>2. ASSUME NEW t \in Makers, NEW h \in UserHooks, Destroy(t, h)
       PROVE RawUnseen'
    <2>1. t \in Threads
      BY <1>2, NamesDiffer
    <2> QED BY <1>2, <2>1, ThreadHas, NamesDiffer
         DEF TInv, TypeOK, Owners, RawUnseen, Making, Undoing, Tables, Slot, Destroy
  <1>3. ASSUME NEW t \in Threads, Link(t)
       PROVE RawUnseen'
    BY <1>3, ThreadHas, NamesDiffer
    DEF TInv, TypeOK, Owners, RawUnseen, Making, Undoing, Tables, Slot, Link
  <1>4. ASSUME NEW t \in Threads, MakeList(t)
       PROVE RawUnseen'
    BY <1>4, ThreadHas, NamesDiffer
    DEF TInv, TypeOK, Owners, RawUnseen, Making, Undoing, Tables, Slot, Snapshot, SnapshotFails,
        MakeList
  <1>5. ASSUME NEW t \in Threads, MakeHook(t)
       PROVE RawUnseen'
    <2>1. t \in Threads /\ obj[t] \in UserHooks /\ pc[t] = "make"
      BY <1>5, ThreadHas, NamesDiffer DEF MakeHook, Making, Undoing
    <2>2. CASE Crash
      BY <2>2 DEF RawUnseen
    <2>3. CASE ~Crash
      <3>1. Visits(t, Orig, obj[t])
        BY <1>5, <2>1, <2>3, VisitMeans DEF TInv, MakeHook
      <3>2. PICK k \in todo[t] \cap loaded :
              /\ todo' = [todo EXCEPT ![t] = todo[t] \ {k}]
              /\ \A m \in Modules, g \in Funcs :
                   iat'[m][g] = IF /\ m = k /\ k \notin Spared(obj[t])
                                   /\ g = FuncOf(obj[t]) /\ iat[m][g] = Orig
                                THEN obj[t] ELSE iat[m][g]
        BY <3>1 DEF Visits
      <3>3. UNCHANGED <<head, next, life, loaded, pc, obj, mod, p, want, owed, wild, blind, overlap>>
        BY <3>1 DEF Visits
      <3> QED BY <2>1, <3>2, <3>3, NamesDiffer, ThreadHas
          DEF Owners, RawUnseen, Making, Undoing, Tables, Slot, TInv, TypeOK
    <2> QED BY <2>2, <2>3
  <1>6. ASSUME NEW t \in Threads, Made(t)
       PROVE RawUnseen'
    BY <1>6, ThreadHas, NamesDiffer
    DEF TInv, TypeOK, Owners, RawUnseen, Making, Undoing, Tables, Slot, Made
  <1>7. ASSUME NEW t \in Threads, UndoList(t)
       PROVE RawUnseen'
    BY <1>7, ThreadHas, NamesDiffer
    DEF TInv, TypeOK, Owners, RawUnseen, Making, Undoing, Tables, Slot, Snapshot, SnapshotFails,
        UndoList
  <1>8. ASSUME NEW t \in Threads, UndoHook(t)
       PROVE RawUnseen'
    <2>1. t \in Threads /\ obj[t] \in UserHooks /\ pc[t] = "unmake"
      BY <1>8, ThreadHas, NamesDiffer DEF UndoHook, Making, Undoing
    <2>2. CASE Crash
      BY <2>2 DEF RawUnseen
    <2>3. CASE ~Crash
      <3>1. Visits(t, obj[t], Orig)
        BY <1>8, <2>1, <2>3, VisitMeans DEF TInv, UndoHook
      <3>2. PICK k \in todo[t] \cap loaded :
              /\ todo' = [todo EXCEPT ![t] = todo[t] \ {k}]
              /\ \A m \in Modules, g \in Funcs :
                   iat'[m][g] = IF /\ m = k /\ k \notin Spared(obj[t])
                                   /\ g = FuncOf(obj[t]) /\ iat[m][g] = obj[t]
                                THEN Orig ELSE iat[m][g]
        BY <3>1 DEF Visits
      <3>3. UNCHANGED <<head, next, life, loaded, pc, obj, mod, p, want, owed, wild, blind, overlap>>
        BY <3>1 DEF Visits
      <3> QED BY <2>1, <3>2, <3>3, NamesDiffer, ThreadHas
          DEF Owners, RawUnseen, Making, Undoing, Tables, Slot, TInv, TypeOK
    <2> QED BY <2>2, <2>3
  <1>9. ASSUME NEW t \in Threads, ReadHead(t)
       PROVE RawUnseen'
    BY <1>9, ThreadHas, NamesDiffer
    DEF TInv, TypeOK, Owners, RawUnseen, Making, Undoing, Tables, Slot, ReadHead
  <1>10. ASSUME NEW t \in Threads, UnlinkFirst(t)
       PROVE RawUnseen'
    BY <1>10, ThreadHas, NamesDiffer
    DEF TInv, TypeOK, Owners, RawUnseen, Making, Undoing, Tables, Slot, UnlinkFirst
  <1>11. ASSUME NEW t \in Threads, UnlinkInner(t)
       PROVE RawUnseen'
    BY <1>11, ThreadHas, NamesDiffer
    DEF TInv, TypeOK, Owners, RawUnseen, Making, Undoing, Tables, Slot, UnlinkInner
  <1>12. ASSUME NEW t \in Threads, Destroyed(t)
       PROVE RawUnseen'
    BY <1>12, ThreadHas, NamesDiffer
    DEF TInv, TypeOK, Owners, RawUnseen, Making, Undoing, Tables, Slot, Destroyed
  <1>13. ASSUME NEW t \in Threads, NEW c \in loaded, NEW m \in Modules, PlainLoad(t, c, m)
       PROVE RawUnseen'
    BY <1>13, ThreadHas, NamesDiffer, LoadMeans
    DEF TInv, TypeOK, Owners, RawUnseen, Making, Undoing, Tables, Slot, PlainLoad
  <1>14. ASSUME NEW t \in Threads, NEW c \in loaded, NEW m \in Modules, LoadLibrary(t, c, m)
       PROVE RawUnseen'
    BY <1>14, ThreadHas, NamesDiffer, LoadMeans
    DEF TInv, TypeOK, Owners, RawUnseen, Making, Undoing, Tables, Slot, LoadLibrary
  <1>15. ASSUME NEW t \in Threads, HookNewlyLoadedModule(t)
       PROVE RawUnseen'
    BY <1>15, ThreadHas, NamesDiffer
    DEF TInv, TypeOK, Owners, RawUnseen, Making, Undoing, Tables, Slot, HookNewlyLoadedModule
  <1>16. ASSUME NEW t \in Threads, HookOne(t)
       PROVE RawUnseen'
    <2>1. t \in Threads
      BY <1>16, NamesDiffer
    <2>2. CASE Crash
      BY <2>2 DEF RawUnseen
    <2>3. CASE ~Crash
      <3>1. /\ pc[t] = "hook" /\ p[t] \in Hooks /\ life[p[t]] # "gone" /\ mod[t] \in Modules
            /\ pc' = [pc EXCEPT ![t] = "next"]
            /\ \A m \in Modules, g \in Funcs :
                 iat'[m][g] = IF m = mod[t] /\ g = FuncOf(p[t]) /\ iat[m][g] = Orig
                              THEN p[t] ELSE iat[m][g]
            /\ UNCHANGED <<head, next, life, loaded, obj, todo, mod, p, want, owed, wild, blind, overlap>>
        BY <1>16, <2>1, <2>3, HookMeans DEF TInv
      <3> QED BY <2>1, <3>1, NamesDiffer, ThreadHas
          DEF Owners, RawUnseen, Making, Undoing, Tables, Slot, TInv, TypeOK
    <2> QED BY <2>2, <2>3
  <1>17. ASSUME NEW t \in Threads, HookStep(t)
       PROVE RawUnseen'
    BY <1>17, ThreadHas, NamesDiffer
    DEF TInv, TypeOK, Owners, RawUnseen, Making, Undoing, Tables, Slot, HookStep
  <1>18. ASSUME NEW t \in Threads, NEW c \in loaded, NEW f \in Funcs, GetProcAddress(t, c, f)
       PROVE RawUnseen'
    BY <1>18, ThreadHas, NamesDiffer
    DEF TInv, TypeOK, Owners, RawUnseen, Making, Undoing, Tables, Slot, GetProcAddress
  <1>19. ASSUME NEW t \in Threads, FindStep(t)
       PROVE RawUnseen'
    BY <1>19, ThreadHas, NamesDiffer
    DEF TInv, TypeOK, Owners, RawUnseen, Making, Undoing, Tables, Slot, FindStep
  <1>20. ASSUME NEW t \in Threads, FindEnds(t)
       PROVE RawUnseen'
    BY <1>20, ThreadHas, NamesDiffer
    DEF TInv, TypeOK, Owners, RawUnseen, Making, Undoing, Tables, Slot, FindEnds
  <1>21. ASSUME NEW m \in Modules, FreeLibrary(m)
       PROVE RawUnseen'
    BY <1>21, NamesDiffer, FreshTyped DEF TInv, TypeOK, Owners, RawUnseen, Making, Undoing,
        Tables, Slot, FreeLibrary
  <1>22. CASE UNCHANGED vars
    BY <1>22, NamesDiffer DEF TInv, TypeOK, Owners, RawUnseen, Making, Undoing, Tables, Slot
  <1> QED BY NamesDiffer, <1>1, <1>2, <1>3, <1>4, <1>5, <1>6, <1>7, <1>8, <1>9, <1>10, <1>11, <1>12,
             <1>13, <1>14, <1>15, <1>16, <1>17, <1>18, <1>19, <1>20, <1>21, <1>22
      DEF Next, Maker, Caller

\* Every step keeps loads away from the destructors that saw none.
LEMMA AloneStep ==
  ASSUME TInv, Owners, Alone, [Next]_vars PROVE Alone'
  <1> USE DEF list, proc, loc, hist, Goto, Set, Return, At, Crash, vars
  <1>1. ASSUME NEW t \in Makers, NEW h \in UserHooks, Construct(t, h)
       PROVE Alone'
    <2>1. t \in Threads
      BY <1>1, NamesDiffer
    <2> QED BY <1>1, <2>1, ThreadHas, NamesDiffer
         DEF TInv, TypeOK, Owners, Alone, Making, Undoing, Loading, Dying, Construct
  <1>2. ASSUME NEW t \in Makers, NEW h \in UserHooks, Destroy(t, h)
       PROVE Alone'
    <2>1. t \in Threads
      BY <1>2, NamesDiffer
    <2> QED BY <1>2, <2>1, ThreadHas, NamesDiffer
         DEF TInv, TypeOK, Owners, Alone, Making, Undoing, Loading, Dying, Destroy
  <1>3. ASSUME NEW t \in Threads, Link(t)
       PROVE Alone'
    BY <1>3, ThreadHas, NamesDiffer
    DEF TInv, TypeOK, Owners, Alone, Making, Undoing, Loading, Dying, Link
  <1>4. ASSUME NEW t \in Threads, MakeList(t)
       PROVE Alone'
    BY <1>4, ThreadHas, NamesDiffer
    DEF TInv, TypeOK, Owners, Alone, Making, Undoing, Loading, Dying, Snapshot, SnapshotFails,
        MakeList
  <1>5. ASSUME NEW t \in Threads, MakeHook(t)
       PROVE Alone'
    <2>1. t \in Threads /\ obj[t] \in UserHooks /\ pc[t] = "make"
      BY <1>5, ThreadHas, NamesDiffer DEF MakeHook, Making, Undoing
    <2>2. CASE Crash
      BY <2>2 DEF Alone, Loading
    <2>3. CASE ~Crash
      <3>1. Visits(t, Orig, obj[t])
        BY <1>5, <2>1, <2>3, VisitMeans DEF TInv, MakeHook
      <3>2. PICK k \in todo[t] \cap loaded :
              /\ todo' = [todo EXCEPT ![t] = todo[t] \ {k}]
              /\ \A m \in Modules, g \in Funcs :
                   iat'[m][g] = IF /\ m = k /\ k \notin Spared(obj[t])
                                   /\ g = FuncOf(obj[t]) /\ iat[m][g] = Orig
                                THEN obj[t] ELSE iat[m][g]
        BY <3>1 DEF Visits
      <3>3. UNCHANGED <<head, next, life, loaded, pc, obj, mod, p, want, owed, wild, blind, overlap>>
        BY <3>1 DEF Visits
      <3> QED BY <2>1, <3>2, <3>3, NamesDiffer, ThreadHas
          DEF Owners, Alone, Making, Undoing, Loading, Dying, TInv, TypeOK
    <2> QED BY <2>2, <2>3
  <1>6. ASSUME NEW t \in Threads, Made(t)
       PROVE Alone'
    BY <1>6, ThreadHas, NamesDiffer
    DEF TInv, TypeOK, Owners, Alone, Making, Undoing, Loading, Dying, Made
  <1>7. ASSUME NEW t \in Threads, UndoList(t)
       PROVE Alone'
    BY <1>7, ThreadHas, NamesDiffer
    DEF TInv, TypeOK, Owners, Alone, Making, Undoing, Loading, Dying, Snapshot, SnapshotFails,
        UndoList
  <1>8. ASSUME NEW t \in Threads, UndoHook(t)
       PROVE Alone'
    <2>1. t \in Threads /\ obj[t] \in UserHooks /\ pc[t] = "unmake"
      BY <1>8, ThreadHas, NamesDiffer DEF UndoHook, Making, Undoing
    <2>2. CASE Crash
      BY <2>2 DEF Alone, Loading
    <2>3. CASE ~Crash
      <3>1. Visits(t, obj[t], Orig)
        BY <1>8, <2>1, <2>3, VisitMeans DEF TInv, UndoHook
      <3>2. PICK k \in todo[t] \cap loaded :
              /\ todo' = [todo EXCEPT ![t] = todo[t] \ {k}]
              /\ \A m \in Modules, g \in Funcs :
                   iat'[m][g] = IF /\ m = k /\ k \notin Spared(obj[t])
                                   /\ g = FuncOf(obj[t]) /\ iat[m][g] = obj[t]
                                THEN Orig ELSE iat[m][g]
        BY <3>1 DEF Visits
      <3>3. UNCHANGED <<head, next, life, loaded, pc, obj, mod, p, want, owed, wild, blind, overlap>>
        BY <3>1 DEF Visits
      <3> QED BY <2>1, <3>2, <3>3, NamesDiffer, ThreadHas
          DEF Owners, Alone, Making, Undoing, Loading, Dying, TInv, TypeOK
    <2> QED BY <2>2, <2>3
  <1>9. ASSUME NEW t \in Threads, ReadHead(t)
       PROVE Alone'
    BY <1>9, ThreadHas, NamesDiffer
    DEF TInv, TypeOK, Owners, Alone, Making, Undoing, Loading, Dying, ReadHead
  <1>10. ASSUME NEW t \in Threads, UnlinkFirst(t)
       PROVE Alone'
    BY <1>10, ThreadHas, NamesDiffer
    DEF TInv, TypeOK, Owners, Alone, Making, Undoing, Loading, Dying, UnlinkFirst
  <1>11. ASSUME NEW t \in Threads, UnlinkInner(t)
       PROVE Alone'
    BY <1>11, ThreadHas, NamesDiffer
    DEF TInv, TypeOK, Owners, Alone, Making, Undoing, Loading, Dying, UnlinkInner
  <1>12. ASSUME NEW t \in Threads, Destroyed(t)
       PROVE Alone'
    BY <1>12, ThreadHas, NamesDiffer
    DEF TInv, TypeOK, Owners, Alone, Making, Undoing, Loading, Dying, Destroyed
  <1>13. ASSUME NEW t \in Threads, NEW c \in loaded, NEW m \in Modules, PlainLoad(t, c, m)
       PROVE Alone'
    BY <1>13, ThreadHas, NamesDiffer, LoadMeans
    DEF TInv, TypeOK, Owners, Alone, Making, Undoing, Loading, Dying, PlainLoad
  <1>14. ASSUME NEW t \in Threads, NEW c \in loaded, NEW m \in Modules, LoadLibrary(t, c, m)
       PROVE Alone'
    BY <1>14, ThreadHas, NamesDiffer, LoadMeans
    DEF TInv, TypeOK, Owners, Alone, Making, Undoing, Loading, Dying, LoadLibrary
  <1>15. ASSUME NEW t \in Threads, HookNewlyLoadedModule(t)
       PROVE Alone'
    BY <1>15, ThreadHas, NamesDiffer
    DEF TInv, TypeOK, Owners, Alone, Making, Undoing, Loading, Dying, HookNewlyLoadedModule
  <1>16. ASSUME NEW t \in Threads, HookOne(t)
       PROVE Alone'
    <2>1. t \in Threads
      BY <1>16, NamesDiffer
    <2>2. CASE Crash
      BY <2>2 DEF Alone, Loading
    <2>3. CASE ~Crash
      <3>1. /\ pc[t] = "hook" /\ p[t] \in Hooks /\ life[p[t]] # "gone" /\ mod[t] \in Modules
            /\ pc' = [pc EXCEPT ![t] = "next"]
            /\ \A m \in Modules, g \in Funcs :
                 iat'[m][g] = IF m = mod[t] /\ g = FuncOf(p[t]) /\ iat[m][g] = Orig
                              THEN p[t] ELSE iat[m][g]
            /\ UNCHANGED <<head, next, life, loaded, obj, todo, mod, p, want, owed, wild, blind, overlap>>
        BY <1>16, <2>1, <2>3, HookMeans DEF TInv
      <3> QED BY <2>1, <3>1, NamesDiffer, ThreadHas
          DEF Owners, Alone, Making, Undoing, Loading, Dying, TInv, TypeOK
    <2> QED BY <2>2, <2>3
  <1>17. ASSUME NEW t \in Threads, HookStep(t)
       PROVE Alone'
    BY <1>17, ThreadHas, NamesDiffer
    DEF TInv, TypeOK, Owners, Alone, Making, Undoing, Loading, Dying, HookStep
  <1>18. ASSUME NEW t \in Threads, NEW c \in loaded, NEW f \in Funcs, GetProcAddress(t, c, f)
       PROVE Alone'
    BY <1>18, ThreadHas, NamesDiffer
    DEF TInv, TypeOK, Owners, Alone, Making, Undoing, Loading, Dying, GetProcAddress
  <1>19. ASSUME NEW t \in Threads, FindStep(t)
       PROVE Alone'
    BY <1>19, ThreadHas, NamesDiffer
    DEF TInv, TypeOK, Owners, Alone, Making, Undoing, Loading, Dying, FindStep
  <1>20. ASSUME NEW t \in Threads, FindEnds(t)
       PROVE Alone'
    BY <1>20, ThreadHas, NamesDiffer
    DEF TInv, TypeOK, Owners, Alone, Making, Undoing, Loading, Dying, FindEnds
  <1>21. ASSUME NEW m \in Modules, FreeLibrary(m)
       PROVE Alone'
    BY <1>21, NamesDiffer, FreshTyped DEF TInv, TypeOK, Owners, Alone, Making, Undoing, Loading,
        Dying, FreeLibrary
  <1>22. CASE UNCHANGED vars
    BY <1>22, NamesDiffer DEF TInv, TypeOK, Owners, Alone, Making, Undoing, Loading, Dying
  <1> QED BY NamesDiffer, <1>1, <1>2, <1>3, <1>4, <1>5, <1>6, <1>7, <1>8, <1>9, <1>10, <1>11, <1>12,
             <1>13, <1>14, <1>15, <1>16, <1>17, <1>18, <1>19, <1>20, <1>21, <1>22
      DEF Next, Maker, Caller

\* Every step keeps the tables that name a dying object in its destructor's reach.
LEMMA UndoneStep ==
  ASSUME TInv, Owners, Alone, Undone, [Next]_vars PROVE Undone'
  <1> USE DEF list, proc, loc, hist, Goto, Set, Return, At, Crash, vars
  <1>1. ASSUME NEW t \in Makers, NEW h \in UserHooks, Construct(t, h)
       PROVE Undone'
    <2>1. t \in Threads
      BY <1>1, NamesDiffer
    <2> QED BY <1>1, <2>1, ThreadHas, NamesDiffer
         DEF TInv, TypeOK, Owners, Alone, Undone, Making, Undoing, Loading, Dying, Construct
  <1>2. ASSUME NEW t \in Makers, NEW h \in UserHooks, Destroy(t, h)
       PROVE Undone'
    <2>1. t \in Threads
      BY <1>2, NamesDiffer
    <2> QED BY <1>2, <2>1, ThreadHas, NamesDiffer
         DEF TInv, TypeOK, Owners, Alone, Undone, Making, Undoing, Loading, Dying, Destroy
  <1>3. ASSUME NEW t \in Threads, Link(t)
       PROVE Undone'
    BY <1>3, ThreadHas, NamesDiffer
    DEF TInv, TypeOK, Owners, Alone, Undone, Making, Undoing, Loading, Dying, Link
  <1>4. ASSUME NEW t \in Threads, MakeList(t)
       PROVE Undone'
    BY <1>4, ThreadHas, NamesDiffer
    DEF TInv, TypeOK, Owners, Alone, Undone, Making, Undoing, Loading, Dying, Snapshot,
        SnapshotFails, MakeList
  <1>5. ASSUME NEW t \in Threads, MakeHook(t)
       PROVE Undone'
    <2>1. t \in Threads /\ obj[t] \in UserHooks /\ pc[t] = "make"
      BY <1>5, ThreadHas, NamesDiffer DEF MakeHook, Making, Undoing
    <2>2. CASE Crash
      BY <2>2 DEF Undone
    <2>3. CASE ~Crash
      <3>1. Visits(t, Orig, obj[t])
        BY <1>5, <2>1, <2>3, VisitMeans DEF TInv, MakeHook
      <3>2. PICK k \in todo[t] \cap loaded :
              /\ todo' = [todo EXCEPT ![t] = todo[t] \ {k}]
              /\ \A m \in Modules, g \in Funcs :
                   iat'[m][g] = IF /\ m = k /\ k \notin Spared(obj[t])
                                   /\ g = FuncOf(obj[t]) /\ iat[m][g] = Orig
                                THEN obj[t] ELSE iat[m][g]
        BY <3>1 DEF Visits
      <3>3. UNCHANGED <<head, next, life, loaded, pc, obj, mod, p, want, owed, wild, blind, overlap>>
        BY <3>1 DEF Visits
      <3> QED BY <2>1, <3>2, <3>3, NamesDiffer, ThreadHas
          DEF Owners, Alone, Undone, Making, Undoing, Loading, Dying, TInv, TypeOK
    <2> QED BY <2>2, <2>3
  <1>6. ASSUME NEW t \in Threads, Made(t)
       PROVE Undone'
    BY <1>6, ThreadHas, NamesDiffer
    DEF TInv, TypeOK, Owners, Alone, Undone, Making, Undoing, Loading, Dying, Made
  <1>7. ASSUME NEW t \in Threads, UndoList(t)
       PROVE Undone'
    BY <1>7, ThreadHas, NamesDiffer
    DEF TInv, TypeOK, Owners, Alone, Undone, Making, Undoing, Loading, Dying, Snapshot,
        SnapshotFails, UndoList
  <1>8. ASSUME NEW t \in Threads, UndoHook(t)
       PROVE Undone'
    <2>1. t \in Threads /\ obj[t] \in UserHooks /\ pc[t] = "unmake"
      BY <1>8, ThreadHas, NamesDiffer DEF UndoHook, Making, Undoing
    <2>2. CASE Crash
      BY <2>2 DEF Undone
    <2>3. CASE ~Crash
      <3>1. Visits(t, obj[t], Orig)
        BY <1>8, <2>1, <2>3, VisitMeans DEF TInv, UndoHook
      <3>2. PICK k \in todo[t] \cap loaded :
              /\ todo' = [todo EXCEPT ![t] = todo[t] \ {k}]
              /\ \A m \in Modules, g \in Funcs :
                   iat'[m][g] = IF /\ m = k /\ k \notin Spared(obj[t])
                                   /\ g = FuncOf(obj[t]) /\ iat[m][g] = obj[t]
                                THEN Orig ELSE iat[m][g]
        BY <3>1 DEF Visits
      <3>3. UNCHANGED <<head, next, life, loaded, pc, obj, mod, p, want, owed, wild, blind, overlap>>
        BY <3>1 DEF Visits
      <3> QED BY <2>1, <3>2, <3>3, NamesDiffer, ThreadHas
          DEF Owners, Alone, Undone, Making, Undoing, Loading, Dying, TInv, TypeOK
    <2> QED BY <2>2, <2>3
  <1>9. ASSUME NEW t \in Threads, ReadHead(t)
       PROVE Undone'
    BY <1>9, ThreadHas, NamesDiffer
    DEF TInv, TypeOK, Owners, Alone, Undone, Making, Undoing, Loading, Dying, ReadHead
  <1>10. ASSUME NEW t \in Threads, UnlinkFirst(t)
       PROVE Undone'
    BY <1>10, ThreadHas, NamesDiffer
    DEF TInv, TypeOK, Owners, Alone, Undone, Making, Undoing, Loading, Dying, UnlinkFirst
  <1>11. ASSUME NEW t \in Threads, UnlinkInner(t)
       PROVE Undone'
    BY <1>11, ThreadHas, NamesDiffer
    DEF TInv, TypeOK, Owners, Alone, Undone, Making, Undoing, Loading, Dying, UnlinkInner
  <1>12. ASSUME NEW t \in Threads, Destroyed(t)
       PROVE Undone'
    BY <1>12, ThreadHas, NamesDiffer
    DEF TInv, TypeOK, Owners, Alone, Undone, Making, Undoing, Loading, Dying, Destroyed
  <1>13. ASSUME NEW t \in Threads, NEW c \in loaded, NEW m \in Modules, PlainLoad(t, c, m)
       PROVE Undone'
    BY <1>13, ThreadHas, NamesDiffer, LoadMeans
    DEF TInv, TypeOK, Owners, Alone, Undone, Making, Undoing, Loading, Dying, PlainLoad
  <1>14. ASSUME NEW t \in Threads, NEW c \in loaded, NEW m \in Modules, LoadLibrary(t, c, m)
       PROVE Undone'
    BY <1>14, ThreadHas, NamesDiffer, LoadMeans
    DEF TInv, TypeOK, Owners, Alone, Undone, Making, Undoing, Loading, Dying, LoadLibrary
  <1>15. ASSUME NEW t \in Threads, HookNewlyLoadedModule(t)
       PROVE Undone'
    BY <1>15, ThreadHas, NamesDiffer
    DEF TInv, TypeOK, Owners, Alone, Undone, Making, Undoing, Loading, Dying, HookNewlyLoadedModule
  <1>16. ASSUME NEW t \in Threads, HookOne(t)
       PROVE Undone'
    <2>1. t \in Threads
      BY <1>16, NamesDiffer
    <2>2. CASE Crash
      BY <2>2 DEF Undone
    <2>3. CASE ~Crash
      <3>1. /\ pc[t] = "hook" /\ p[t] \in Hooks /\ life[p[t]] # "gone" /\ mod[t] \in Modules
            /\ pc' = [pc EXCEPT ![t] = "next"]
            /\ \A m \in Modules, g \in Funcs :
                 iat'[m][g] = IF m = mod[t] /\ g = FuncOf(p[t]) /\ iat[m][g] = Orig
                              THEN p[t] ELSE iat[m][g]
            /\ UNCHANGED <<head, next, life, loaded, obj, todo, mod, p, want, owed, wild, blind, overlap>>
        BY <1>16, <2>1, <2>3, HookMeans DEF TInv
      <3> QED BY <2>1, <3>1, NamesDiffer, ThreadHas
          DEF Owners, Alone, Undone, Making, Undoing, Loading, Dying, TInv, TypeOK
    <2> QED BY <2>2, <2>3
  <1>17. ASSUME NEW t \in Threads, HookStep(t)
       PROVE Undone'
    BY <1>17, ThreadHas, NamesDiffer
    DEF TInv, TypeOK, Owners, Alone, Undone, Making, Undoing, Loading, Dying, HookStep
  <1>18. ASSUME NEW t \in Threads, NEW c \in loaded, NEW f \in Funcs, GetProcAddress(t, c, f)
       PROVE Undone'
    BY <1>18, ThreadHas, NamesDiffer
    DEF TInv, TypeOK, Owners, Alone, Undone, Making, Undoing, Loading, Dying, GetProcAddress
  <1>19. ASSUME NEW t \in Threads, FindStep(t)
       PROVE Undone'
    BY <1>19, ThreadHas, NamesDiffer
    DEF TInv, TypeOK, Owners, Alone, Undone, Making, Undoing, Loading, Dying, FindStep
  <1>20. ASSUME NEW t \in Threads, FindEnds(t)
       PROVE Undone'
    BY <1>20, ThreadHas, NamesDiffer
    DEF TInv, TypeOK, Owners, Alone, Undone, Making, Undoing, Loading, Dying, FindEnds
  <1>21. ASSUME NEW m \in Modules, FreeLibrary(m)
       PROVE Undone'
    BY <1>21, NamesDiffer, FreshTyped DEF TInv, TypeOK, Owners, Alone, Undone, Making, Undoing,
        Loading, Dying, FreeLibrary
  <1>22. CASE UNCHANGED vars
    BY <1>22, NamesDiffer DEF TInv, TypeOK, Owners, Alone, Undone, Making, Undoing, Loading, Dying
  <1> QED BY NamesDiffer, <1>1, <1>2, <1>3, <1>4, <1>5, <1>6, <1>7, <1>8, <1>9, <1>10, <1>11, <1>12,
             <1>13, <1>14, <1>15, <1>16, <1>17, <1>18, <1>19, <1>20, <1>21, <1>22
      DEF Next, Maker, Caller

\* An object is ahead of itself.
LEMMA AheadSelf == \A n, x : Ahead(n, x, x)
  BY DEF Ahead

\* Nothing is ahead of the end of the list.
LEMMA AheadNull == ASSUME NEW n, NEW h \in Hooks PROVE ~Ahead(n, NULL, h)
  <1>1. {NULL} \in SUBSET (Hooks \cup {NULL}) /\ Closed(n, {NULL})
    BY DEF Closed
  <1> QED BY <1>1, NamesDiffer DEF Ahead

\* What is ahead of an object and is another one is ahead of the next object.
LEMMA AheadStep ==
  ASSUME NEW n, NEW x \in Hooks, NEW h \in Hooks, Ahead(n, x, h), h # x
  PROVE  Ahead(n, n[x], h)
  <1> SUFFICES ASSUME NEW S \in SUBSET (Hooks \cup {NULL}), n[x] \in S, Closed(n, S)
               PROVE  h \in S
    BY DEF Ahead
  <1>1. Closed(n, S \cup {x}) /\ S \cup {x} \in SUBSET (Hooks \cup {NULL})
    BY DEF Closed
  <1> QED BY <1>1 DEF Ahead

\* What is ahead of the next object is ahead of this one.
LEMMA AheadBack ==
  ASSUME NEW n, NEW x \in Hooks, NEW h, Ahead(n, n[x], h)
  PROVE  Ahead(n, x, h)
  BY NamesDiffer DEF Ahead, Closed

\* The object that a constructor puts before the list hides nothing.
LEMMA AheadPush ==
  ASSUME NEW n \in [Hooks -> Hooks \cup {NULL}], NEW g \in Hooks, NEW v, NEW m,
         m = [n EXCEPT ![g] = v], \A z \in Hooks : n[z] # g,
         NEW x \in Hooks \cup {NULL}, x # g, NEW h, Ahead(n, x, h)
  PROVE  Ahead(m, x, h)
  <1> SUFFICES ASSUME NEW S \in SUBSET (Hooks \cup {NULL}), x \in S, Closed(m, S)
               PROVE  h \in S
    BY DEF Ahead
  <1>1. Closed(n, S \ {g}) /\ S \ {g} \in SUBSET (Hooks \cup {NULL}) /\ x \in S \ {g}
    BY DEF Closed
  <1> QED BY <1>1 DEF Ahead

\* The object that a destructor takes out of the list hides nothing but itself,
\* wherever a walk has come to, and also if the walk stands on that object.
LEMMA AheadUnlink ==
  ASSUME NEW n \in [Hooks -> Hooks \cup {NULL}], NEW q \in Hooks, NEW o \in Hooks, n[q] = o,
         NEW v, v = n[o], NEW m, m = [n EXCEPT ![q] = v],
         NEW x \in Hooks \cup {NULL}, NEW h \in Hooks, h # o, Ahead(n, x, h)
  PROVE  Ahead(m, x, h)
  <1> SUFFICES ASSUME NEW S \in SUBSET (Hooks \cup {NULL}), x \in S, Closed(m, S)
               PROVE  h \in S
    BY DEF Ahead
  <1>1. CASE q \in S
    <2>1. Closed(n, S \cup {o}) /\ S \cup {o} \in SUBSET (Hooks \cup {NULL})
      BY <1>1, NamesDiffer DEF Closed
    <2> QED BY <2>1 DEF Ahead
  <1>2. CASE q \notin S
    <2>1. Closed(n, S)
      BY <1>2 DEF Closed
    <2> QED BY <2>1 DEF Ahead
  <1> QED BY <1>1, <1>2

\* Taking an object out of the list hides no other object from a walk.
LEMMA UnlinkKeeps ==
  ASSUME TInv, NEW t \in Threads, obj[t] \in Hooks, UnlinkInner(t),
         NEW x \in Hooks \cup {NULL}, NEW h \in Hooks, h # obj[t], Ahead(next, x, h)
  PROVE  Ahead(next', x, h)
  <1>1. CASE next' = next
    BY <1>1
  <1>2. CASE next' # next
    <2>1. p[t] \in Hooks /\ next[p[t]] = obj[t] /\ next' = [next EXCEPT ![p[t]] = next[obj[t]]]
      BY <1>2, ThreadHas DEF UnlinkInner, list, Crash, Set
    <2> DEFINE q == p[t]
               v == next[obj[t]]
    <2>2. next \in [Hooks -> Hooks \cup {NULL}]
      BY DEF TInv, TypeOK
    <2>3. q \in Hooks /\ next[q] = obj[t] /\ next' = [next EXCEPT ![q] = v] /\ v = next[obj[t]]
      BY <2>1
    <2> HIDE DEF q, v
    <2> QED BY <2>2, <2>3, AheadUnlink
  <1> QED BY <1>1, <1>2

\* Every step of one maker keeps the list.
LEMMA ListedStep ==
  ASSUME OneMaker, TInv, Owners, RawUnseen, Listed, [Next]_vars PROVE Listed'
  <1> USE DEF list, proc, loc, hist, Goto, Set, Return, At, Crash, vars
  <1>1. ASSUME NEW t \in Makers, NEW h \in UserHooks, Construct(t, h)
       PROVE Listed'
    <2>1. t \in Threads
      BY <1>1, NamesDiffer
    <2>2. CASE Crash
      BY <2>2 DEF Listed, Making, Undoing
    <2>3. CASE ~Crash
      <3>1. /\ life[h] = "raw" /\ life' = [life EXCEPT ![h] = "making"]
            /\ next' = [next EXCEPT ![h] = head] /\ obj' = [obj EXCEPT ![t] = h]
            /\ pc[t] = "idle" /\ pc' = [pc EXCEPT ![t] = "link"] /\ UNCHANGED <<head, p>>
        BY <1>1, <2>3 DEF Construct
      <3>2. /\ head # h /\ \A z \in Hooks : next[z] # h
            /\ next \in [Hooks -> Hooks \cup {NULL}] /\ head \in Hooks \cup {NULL} /\ h \in Hooks
        BY <3>1, NamesDiffer DEF RawUnseen, TInv, TypeOK
      <3>3. \A g \in Hooks : life'[g] = "live" => Ahead(next', head', g)
        BY <3>1, <3>2, AheadPush DEF Listed, TInv, TypeOK
      <3>4. \A u \in Threads : u # t => pc'[u] \notin Making \cup Undoing
        BY <1>1, <2>1, <3>1 DEF Listed, OneMaker, TInv, TypeOK
      <3>5. pc'[t] = "link" /\ next'[obj'[t]] = head' /\ t \in Makers
        BY <2>1, <3>1, <3>2 DEF TInv, TypeOK
      <3> QED BY <3>3, <3>4, <3>5 DEF Listed, Making, Undoing
    <2> QED BY <2>2, <2>3
  <1>2. ASSUME NEW t \in Makers, NEW h \in UserHooks, Destroy(t, h)
       PROVE Listed'
    <2>1. t \in Threads
      BY <1>2, NamesDiffer
    <2> QED BY <1>2, <2>1, ThreadHas, NamesDiffer
         DEF TInv, TypeOK, OneMaker, Listed, Owners, RawUnseen, Making, Undoing, Hooks, Destroy
  <1>3. ASSUME NEW t \in Threads, Link(t)
       PROVE Listed'
    <2>1. t \in Threads /\ obj[t] \in Hooks /\ next[obj[t]] = head
      BY <1>3, NamesDiffer, ThreadHas DEF Link, Listed, Making
    <2>2. \A g \in Hooks : life[g] = "live" => Ahead(next, obj[t], g)
      BY <2>1, AheadBack DEF Listed
    <2> QED BY <1>3, <2>1, <2>2, AheadSelf DEF Link, Listed, OneMaker, Making, Undoing, TInv, TypeOK
  <1>4. ASSUME NEW t \in Threads, MakeList(t)
       PROVE Listed'
    BY <1>4, ThreadHas, NamesDiffer
    DEF TInv, TypeOK, OneMaker, Listed, Owners, RawUnseen, Making, Undoing, Hooks, Snapshot,
        SnapshotFails, MakeList
  <1>5. ASSUME NEW t \in Threads, MakeHook(t)
       PROVE Listed'
    <2>1. t \in Threads /\ obj[t] \in UserHooks /\ pc[t] = "make"
      BY <1>5, ThreadHas, NamesDiffer DEF MakeHook, Making, Undoing
    <2>2. CASE Crash
      BY <2>2 DEF Listed
    <2>3. CASE ~Crash
      <3>1. Visits(t, Orig, obj[t])
        BY <1>5, <2>1, <2>3, VisitMeans DEF TInv, MakeHook
      <3>2. PICK k \in todo[t] \cap loaded :
              /\ todo' = [todo EXCEPT ![t] = todo[t] \ {k}]
              /\ \A m \in Modules, g \in Funcs :
                   iat'[m][g] = IF /\ m = k /\ k \notin Spared(obj[t])
                                   /\ g = FuncOf(obj[t]) /\ iat[m][g] = Orig
                                THEN obj[t] ELSE iat[m][g]
        BY <3>1 DEF Visits
      <3>3. UNCHANGED <<head, next, life, loaded, pc, obj, mod, p, want, owed, wild, blind, overlap>>
        BY <3>1 DEF Visits
      <3> QED BY <2>1, <3>2, <3>3, NamesDiffer, ThreadHas
          DEF OneMaker, Listed, Owners, RawUnseen, Making, Undoing, Hooks, TInv, TypeOK
    <2> QED BY <2>2, <2>3
  <1>6. ASSUME NEW t \in Threads, Made(t)
       PROVE Listed'
    BY <1>6, ThreadHas, NamesDiffer
    DEF TInv, TypeOK, OneMaker, Listed, Owners, RawUnseen, Making, Undoing, Hooks, Made
  <1>7. ASSUME NEW t \in Threads, UndoList(t)
       PROVE Listed'
    BY <1>7, ThreadHas, NamesDiffer
    DEF TInv, TypeOK, OneMaker, Listed, Owners, RawUnseen, Making, Undoing, Hooks, Snapshot,
        SnapshotFails, UndoList
  <1>8. ASSUME NEW t \in Threads, UndoHook(t)
       PROVE Listed'
    <2>1. t \in Threads /\ obj[t] \in UserHooks /\ pc[t] = "unmake"
      BY <1>8, ThreadHas, NamesDiffer DEF UndoHook, Making, Undoing
    <2>2. CASE Crash
      BY <2>2 DEF Listed
    <2>3. CASE ~Crash
      <3>1. Visits(t, obj[t], Orig)
        BY <1>8, <2>1, <2>3, VisitMeans DEF TInv, UndoHook
      <3>2. PICK k \in todo[t] \cap loaded :
              /\ todo' = [todo EXCEPT ![t] = todo[t] \ {k}]
              /\ \A m \in Modules, g \in Funcs :
                   iat'[m][g] = IF /\ m = k /\ k \notin Spared(obj[t])
                                   /\ g = FuncOf(obj[t]) /\ iat[m][g] = obj[t]
                                THEN Orig ELSE iat[m][g]
        BY <3>1 DEF Visits
      <3>3. UNCHANGED <<head, next, life, loaded, pc, obj, mod, p, want, owed, wild, blind, overlap>>
        BY <3>1 DEF Visits
      <3> QED BY <2>1, <3>2, <3>3, NamesDiffer, ThreadHas
          DEF OneMaker, Listed, Owners, RawUnseen, Making, Undoing, Hooks, TInv, TypeOK
    <2> QED BY <2>2, <2>3
  <1>9. ASSUME NEW t \in Threads, ReadHead(t)
       PROVE Listed'
    BY <1>9, ThreadHas, NamesDiffer
    DEF TInv, TypeOK, OneMaker, Listed, Owners, RawUnseen, Making, Undoing, Hooks, ReadHead
  <1>10. ASSUME NEW t \in Threads, UnlinkFirst(t)
       PROVE Listed'
    <2>1. t \in Threads /\ obj[t] \in Hooks /\ p[t] = head /\ life[obj[t]] = "dying"
      BY <1>10, NamesDiffer, ThreadHas DEF UnlinkFirst, Listed, Owners, Undoing
    <2>2. \A g \in Hooks : life[g] = "live" /\ p[t] = obj[t] => Ahead(next, next[obj[t]], g)
      BY <2>1, AheadStep DEF Listed
    <2> QED BY <1>10, <2>1, <2>2 DEF UnlinkFirst, Listed, OneMaker, Making, Undoing, TInv, TypeOK
  <1>11. ASSUME NEW t \in Threads, UnlinkInner(t)
       PROVE Listed'
    <2>1. t \in Threads /\ obj[t] \in Hooks /\ life[obj[t]] = "dying"
      BY <1>11, NamesDiffer, ThreadHas DEF UnlinkInner, Owners, Undoing
    <2>2. \A u \in Threads : pc'[u] \in Making \cup Undoing => u = t /\ t \in Makers
      BY <1>11, <2>1 DEF UnlinkInner, Listed, OneMaker, Making, Undoing, TInv, TypeOK
    <2>3. pc'[t] \in {"free", "search"} /\ UNCHANGED <<life, head>>
      BY <1>11, <2>1 DEF UnlinkInner, TInv, TypeOK
    <2>4. ASSUME NEW g \in Hooks, life[g] = "live"
          PROVE  Ahead(next', head, g)
      BY <1>11, <2>1, <2>4, UnlinkKeeps DEF Listed, TInv, TypeOK
    <2> QED BY <2>2, <2>3, <2>4 DEF Listed, Making, Undoing
  <1>12. ASSUME NEW t \in Threads, Destroyed(t)
       PROVE Listed'
    BY <1>12, ThreadHas, NamesDiffer
    DEF TInv, TypeOK, OneMaker, Listed, Owners, RawUnseen, Making, Undoing, Hooks, Destroyed
  <1>13. ASSUME NEW t \in Threads, NEW c \in loaded, NEW m \in Modules, PlainLoad(t, c, m)
       PROVE Listed'
    BY <1>13, ThreadHas, NamesDiffer, LoadMeans
    DEF TInv, TypeOK, OneMaker, Listed, Owners, RawUnseen, Making, Undoing, Hooks, PlainLoad
  <1>14. ASSUME NEW t \in Threads, NEW c \in loaded, NEW m \in Modules, LoadLibrary(t, c, m)
       PROVE Listed'
    BY <1>14, ThreadHas, NamesDiffer, LoadMeans
    DEF TInv, TypeOK, OneMaker, Listed, Owners, RawUnseen, Making, Undoing, Hooks, LoadLibrary
  <1>15. ASSUME NEW t \in Threads, HookNewlyLoadedModule(t)
       PROVE Listed'
    BY <1>15, ThreadHas, NamesDiffer
    DEF TInv, TypeOK, OneMaker, Listed, Owners, RawUnseen, Making, Undoing, Hooks,
        HookNewlyLoadedModule
  <1>16. ASSUME NEW t \in Threads, HookOne(t)
       PROVE Listed'
    <2>1. t \in Threads
      BY <1>16, NamesDiffer
    <2>2. CASE Crash
      BY <2>2 DEF Listed
    <2>3. CASE ~Crash
      <3>1. /\ pc[t] = "hook" /\ p[t] \in Hooks /\ life[p[t]] # "gone" /\ mod[t] \in Modules
            /\ pc' = [pc EXCEPT ![t] = "next"]
            /\ \A m \in Modules, g \in Funcs :
                 iat'[m][g] = IF m = mod[t] /\ g = FuncOf(p[t]) /\ iat[m][g] = Orig
                              THEN p[t] ELSE iat[m][g]
            /\ UNCHANGED <<head, next, life, loaded, obj, todo, mod, p, want, owed, wild, blind, overlap>>
        BY <1>16, <2>1, <2>3, HookMeans DEF TInv
      <3> QED BY <2>1, <3>1, NamesDiffer, ThreadHas
          DEF OneMaker, Listed, Owners, RawUnseen, Making, Undoing, Hooks, TInv, TypeOK
    <2> QED BY <2>2, <2>3
  <1>17. ASSUME NEW t \in Threads, HookStep(t)
       PROVE Listed'
    BY <1>17, ThreadHas, NamesDiffer
    DEF TInv, TypeOK, OneMaker, Listed, Owners, RawUnseen, Making, Undoing, Hooks, HookStep
  <1>18. ASSUME NEW t \in Threads, NEW c \in loaded, NEW f \in Funcs, GetProcAddress(t, c, f)
       PROVE Listed'
    BY <1>18, ThreadHas, NamesDiffer
    DEF TInv, TypeOK, OneMaker, Listed, Owners, RawUnseen, Making, Undoing, Hooks, GetProcAddress
  <1>19. ASSUME NEW t \in Threads, FindStep(t)
       PROVE Listed'
    BY <1>19, ThreadHas, NamesDiffer
    DEF TInv, TypeOK, OneMaker, Listed, Owners, RawUnseen, Making, Undoing, Hooks, FindStep
  <1>20. ASSUME NEW t \in Threads, FindEnds(t)
       PROVE Listed'
    BY <1>20, ThreadHas, NamesDiffer
    DEF TInv, TypeOK, OneMaker, Listed, Owners, RawUnseen, Making, Undoing, Hooks, FindEnds
  <1>21. ASSUME NEW m \in Modules, FreeLibrary(m)
       PROVE Listed'
    BY <1>21, NamesDiffer, FreshTyped DEF TInv, TypeOK, OneMaker, Listed, Owners, RawUnseen,
        Making, Undoing, Hooks, FreeLibrary
  <1>22. CASE UNCHANGED vars
    BY <1>22, NamesDiffer DEF TInv, TypeOK, OneMaker, Listed, Owners, RawUnseen, Making, Undoing,
        Hooks
  <1> QED BY NamesDiffer, <1>1, <1>2, <1>3, <1>4, <1>5, <1>6, <1>7, <1>8, <1>9, <1>10, <1>11, <1>12,
             <1>13, <1>14, <1>15, <1>16, <1>17, <1>18, <1>19, <1>20, <1>21, <1>22
      DEF Next, Maker, Caller

\* Every step keeps what a search must see ahead of it.
LEMMA SearchingStep ==
  ASSUME TInv, Owners, RawUnseen, Listed, Searching, [Next]_vars PROVE Searching'
  <1> USE DEF list, proc, loc, hist, Goto, Set, Return, At, Crash, vars
  <1>1. ASSUME NEW t \in Makers, NEW h \in UserHooks, Construct(t, h)
       PROVE Searching'
    <2>1. t \in Threads
      BY <1>1, NamesDiffer
    <2>2. CASE Crash
      BY <2>2 DEF Searching
    <2>3. CASE ~Crash
      <3>1. /\ life[h] = "raw" /\ life' = [life EXCEPT ![h] = "making"]
            /\ next' = [next EXCEPT ![h] = head] /\ h \in Hooks
            /\ pc[t] = "idle" /\ pc' = [pc EXCEPT ![t] = "link"] /\ UNCHANGED <<p, want, owed>>
        BY <1>1, <2>3, NamesDiffer DEF Construct
      <3>2. ASSUME NEW u \in Threads, pc'[u] = "find", NEW g \in owed[u]
            PROVE  FuncOf(g) = want[u] /\ life'[g] = "live" /\ Ahead(next', p[u], g)
        <4>1. pc[u] = "find" /\ g \in Hooks /\ life[g] = "live" /\ FuncOf(g) = want[u]
              /\ Ahead(next, p[u], g)
          BY <2>1, <3>1, <3>2 DEF Searching, TInv, TypeOK
        <4>2. Ahead(next', p[u], g)
          <5>1. /\ next \in [Hooks -> Hooks \cup {NULL}] /\ p[u] \in Hooks \cup {NULL}
                /\ p[u] # h /\ \A z \in Hooks : next[z] # h
            BY <3>1, ThreadHas DEF RawUnseen, TInv, TypeOK
          <5> QED BY <3>1, <4>1, <5>1, AheadPush
        <4> QED BY <3>1, <4>1, <4>2 DEF TInv, TypeOK
      <3> QED BY <3>1, <3>2 DEF Searching
    <2> QED BY <2>2, <2>3
  <1>2. ASSUME NEW t \in Makers, NEW h \in UserHooks, Destroy(t, h)
       PROVE Searching'
    <2>1. t \in Threads
      BY <1>2, NamesDiffer
    <2> QED BY <1>2, <2>1, ThreadHas, NamesDiffer
         DEF TInv, TypeOK, Searching, Listed, Owners, Making, Undoing, Destroy
  <1>3. ASSUME NEW t \in Threads, Link(t)
       PROVE Searching'
    BY <1>3, ThreadHas, NamesDiffer
    DEF TInv, TypeOK, Searching, Listed, Owners, Making, Undoing, Link
  <1>4. ASSUME NEW t \in Threads, MakeList(t)
       PROVE Searching'
    BY <1>4, ThreadHas, NamesDiffer
    DEF TInv, TypeOK, Searching, Listed, Owners, Making, Undoing, Snapshot, SnapshotFails, MakeList
  <1>5. ASSUME NEW t \in Threads, MakeHook(t)
       PROVE Searching'
    <2>1. t \in Threads /\ obj[t] \in UserHooks /\ pc[t] = "make"
      BY <1>5, ThreadHas, NamesDiffer DEF MakeHook, Making, Undoing
    <2>2. CASE Crash
      BY <2>2 DEF Searching
    <2>3. CASE ~Crash
      <3>1. Visits(t, Orig, obj[t])
        BY <1>5, <2>1, <2>3, VisitMeans DEF TInv, MakeHook
      <3>2. PICK k \in todo[t] \cap loaded :
              /\ todo' = [todo EXCEPT ![t] = todo[t] \ {k}]
              /\ \A m \in Modules, g \in Funcs :
                   iat'[m][g] = IF /\ m = k /\ k \notin Spared(obj[t])
                                   /\ g = FuncOf(obj[t]) /\ iat[m][g] = Orig
                                THEN obj[t] ELSE iat[m][g]
        BY <3>1 DEF Visits
      <3>3. UNCHANGED <<head, next, life, loaded, pc, obj, mod, p, want, owed, wild, blind, overlap>>
        BY <3>1 DEF Visits
      <3> QED BY <2>1, <3>2, <3>3, NamesDiffer, ThreadHas
          DEF Searching, Listed, Owners, Making, Undoing, TInv, TypeOK
    <2> QED BY <2>2, <2>3
  <1>6. ASSUME NEW t \in Threads, Made(t)
       PROVE Searching'
    BY <1>6, ThreadHas, NamesDiffer
    DEF TInv, TypeOK, Searching, Listed, Owners, Making, Undoing, Made
  <1>7. ASSUME NEW t \in Threads, UndoList(t)
       PROVE Searching'
    BY <1>7, ThreadHas, NamesDiffer
    DEF TInv, TypeOK, Searching, Listed, Owners, Making, Undoing, Snapshot, SnapshotFails, UndoList
  <1>8. ASSUME NEW t \in Threads, UndoHook(t)
       PROVE Searching'
    <2>1. t \in Threads /\ obj[t] \in UserHooks /\ pc[t] = "unmake"
      BY <1>8, ThreadHas, NamesDiffer DEF UndoHook, Making, Undoing
    <2>2. CASE Crash
      BY <2>2 DEF Searching
    <2>3. CASE ~Crash
      <3>1. Visits(t, obj[t], Orig)
        BY <1>8, <2>1, <2>3, VisitMeans DEF TInv, UndoHook
      <3>2. PICK k \in todo[t] \cap loaded :
              /\ todo' = [todo EXCEPT ![t] = todo[t] \ {k}]
              /\ \A m \in Modules, g \in Funcs :
                   iat'[m][g] = IF /\ m = k /\ k \notin Spared(obj[t])
                                   /\ g = FuncOf(obj[t]) /\ iat[m][g] = obj[t]
                                THEN Orig ELSE iat[m][g]
        BY <3>1 DEF Visits
      <3>3. UNCHANGED <<head, next, life, loaded, pc, obj, mod, p, want, owed, wild, blind, overlap>>
        BY <3>1 DEF Visits
      <3> QED BY <2>1, <3>2, <3>3, NamesDiffer, ThreadHas
          DEF Searching, Listed, Owners, Making, Undoing, TInv, TypeOK
    <2> QED BY <2>2, <2>3
  <1>9. ASSUME NEW t \in Threads, ReadHead(t)
       PROVE Searching'
    BY <1>9, ThreadHas, NamesDiffer
    DEF TInv, TypeOK, Searching, Listed, Owners, Making, Undoing, ReadHead
  <1>10. ASSUME NEW t \in Threads, UnlinkFirst(t)
       PROVE Searching'
    BY <1>10, ThreadHas, NamesDiffer
    DEF TInv, TypeOK, Searching, Listed, Owners, Making, Undoing, UnlinkFirst
  <1>11. ASSUME NEW t \in Threads, UnlinkInner(t)
       PROVE Searching'
    <2>1. t \in Threads /\ obj[t] \in Hooks /\ life[obj[t]] = "dying"
      BY <1>11, NamesDiffer, ThreadHas DEF UnlinkInner, Owners, Undoing
    <2>2. ASSUME NEW u \in Threads, pc'[u] = "find", NEW g \in owed'[u]
          PROVE  FuncOf(g) = want'[u] /\ life'[g] = "live" /\ Ahead(next', p'[u], g)
      <3>1. /\ pc[u] = "find" /\ g \in owed[u] /\ g \in Hooks
            /\ UNCHANGED <<life, want>> /\ p'[u] = p[u]
        BY <1>11, <2>1, <2>2 DEF UnlinkInner, TInv, TypeOK
      <3>2. FuncOf(g) = want[u] /\ life[g] = "live" /\ Ahead(next, p[u], g)
        BY <3>1 DEF Searching
      <3> QED BY <1>11, <2>1, <3>1, <3>2, UnlinkKeeps DEF TInv, TypeOK
    <2> QED BY <2>2 DEF Searching
  <1>12. ASSUME NEW t \in Threads, Destroyed(t)
       PROVE Searching'
    BY <1>12, ThreadHas, NamesDiffer
    DEF TInv, TypeOK, Searching, Listed, Owners, Making, Undoing, Destroyed
  <1>13. ASSUME NEW t \in Threads, NEW c \in loaded, NEW m \in Modules, PlainLoad(t, c, m)
       PROVE Searching'
    BY <1>13, ThreadHas, NamesDiffer, LoadMeans
    DEF TInv, TypeOK, Searching, Listed, Owners, Making, Undoing, PlainLoad
  <1>14. ASSUME NEW t \in Threads, NEW c \in loaded, NEW m \in Modules, LoadLibrary(t, c, m)
       PROVE Searching'
    BY <1>14, ThreadHas, NamesDiffer, LoadMeans
    DEF TInv, TypeOK, Searching, Listed, Owners, Making, Undoing, LoadLibrary
  <1>15. ASSUME NEW t \in Threads, HookNewlyLoadedModule(t)
       PROVE Searching'
    BY <1>15, ThreadHas, NamesDiffer
    DEF TInv, TypeOK, Searching, Listed, Owners, Making, Undoing, HookNewlyLoadedModule
  <1>16. ASSUME NEW t \in Threads, HookOne(t)
       PROVE Searching'
    <2>1. t \in Threads
      BY <1>16, NamesDiffer
    <2>2. CASE Crash
      BY <2>2 DEF Searching
    <2>3. CASE ~Crash
      <3>1. /\ pc[t] = "hook" /\ p[t] \in Hooks /\ life[p[t]] # "gone" /\ mod[t] \in Modules
            /\ pc' = [pc EXCEPT ![t] = "next"]
            /\ \A m \in Modules, g \in Funcs :
                 iat'[m][g] = IF m = mod[t] /\ g = FuncOf(p[t]) /\ iat[m][g] = Orig
                              THEN p[t] ELSE iat[m][g]
            /\ UNCHANGED <<head, next, life, loaded, obj, todo, mod, p, want, owed, wild, blind, overlap>>
        BY <1>16, <2>1, <2>3, HookMeans DEF TInv
      <3> QED BY <2>1, <3>1, NamesDiffer, ThreadHas
          DEF Searching, Listed, Owners, Making, Undoing, TInv, TypeOK
    <2> QED BY <2>2, <2>3
  <1>17. ASSUME NEW t \in Threads, HookStep(t)
       PROVE Searching'
    BY <1>17, ThreadHas, NamesDiffer
    DEF TInv, TypeOK, Searching, Listed, Owners, Making, Undoing, HookStep
  <1>18. ASSUME NEW t \in Threads, NEW c \in loaded, NEW f \in Funcs, GetProcAddress(t, c, f)
       PROVE Searching'
    BY <1>18, ThreadHas, NamesDiffer
    DEF TInv, TypeOK, Searching, Listed, Owners, Making, Undoing, GetProcAddress
  <1>19. ASSUME NEW t \in Threads, FindStep(t)
       PROVE Searching'
    <2>1. t \in Threads
      BY <1>19, NamesDiffer
    <2>2. CASE UNCHANGED <<pc, p>>
      BY <1>19, <2>2 DEF FindStep, Searching, TInv, TypeOK
    <2>3. CASE ~UNCHANGED <<pc, p>>
      <3>1. \A g \in Hooks : Ahead(next, p[t], g) /\ FuncOf(g) # FuncOf(p[t]) => Ahead(next, next[p[t]], g)
        BY <1>19, <2>1, ThreadHas, AheadStep DEF FindStep
      <3> QED BY <1>19, <2>1, <2>3, <3>1 DEF FindStep, Searching, TInv, TypeOK
    <2> QED BY <2>2, <2>3
  <1>20. ASSUME NEW t \in Threads, FindEnds(t)
       PROVE Searching'
    BY <1>20, ThreadHas, NamesDiffer
    DEF TInv, TypeOK, Searching, Listed, Owners, Making, Undoing, FindEnds
  <1>21. ASSUME NEW m \in Modules, FreeLibrary(m)
       PROVE Searching'
    BY <1>21, NamesDiffer, FreshTyped DEF TInv, TypeOK, Searching, Listed, Owners, Making,
        Undoing, FreeLibrary
  <1>22. CASE UNCHANGED vars
    BY <1>22, NamesDiffer DEF TInv, TypeOK, Searching, Listed, Owners, Making, Undoing
  <1> QED BY NamesDiffer, <1>1, <1>2, <1>3, <1>4, <1>5, <1>6, <1>7, <1>8, <1>9, <1>10, <1>11, <1>12,
             <1>13, <1>14, <1>15, <1>16, <1>17, <1>18, <1>19, <1>20, <1>21, <1>22
      DEF Next, Maker, Caller

\* The same from the object after the one that a walk stands on.
LEMMA UnlinkKeepsNext ==
  ASSUME TInv, NEW t \in Threads, obj[t] \in Hooks, UnlinkInner(t),
         NEW x \in Hooks, NEW h \in Hooks, h # obj[t], Ahead(next, next[x], h)
  PROVE  Ahead(next', next'[x], h)
  <1>1. next \in [Hooks -> Hooks \cup {NULL}] /\ next[x] \in Hooks \cup {NULL}
    BY DEF TInv, TypeOK
  <1>2. CASE next'[x] = next[x]
    BY <1>1, <1>2, UnlinkKeeps
  <1>3. CASE next'[x] # next[x]
    <2>1. next[x] = obj[t] /\ next'[x] = next[obj[t]]
      BY <1>1, <1>3, ThreadHas DEF UnlinkInner, list, Crash, Set
    <2>2. Ahead(next, next[obj[t]], h)
      BY <2>1, AheadStep
    <2>3. next[obj[t]] \in Hooks \cup {NULL}
      BY <1>1
    <2> QED BY <2>1, <2>2, <2>3, UnlinkKeeps
  <1> QED BY <1>2, <1>3

\* A step of a thread that neither constructs nor loads keeps what others will do.
LEMMA CoveredQuiet ==
  ASSUME Covered, NEW t \in Threads, pc[t] \notin Making, ~Loading(t),
         UNCHANGED <<next, loaded, iat, wild>>, blind \subseteq blind',
         \A h \in Hooks : /\ life'[h] = "raw" => life[h] = "raw"
                          /\ life'[h] \in {"making", "live"} => life[h] \in {"making", "live"},
         \A u \in Threads \ {t} : /\ pc'[u] = pc[u] /\ obj'[u] = obj[u] /\ todo'[u] = todo[u]
                                  /\ mod'[u] = mod[u] /\ p'[u] = p[u]
  PROVE  Covered'
  <1> SUFFICES ASSUME NEW h \in Hooks, NEW m \in Modules, Claims(h, m)'
               PROVE  iat[m][FuncOf(h)] = h \/ ByMaker(h, m)' \/ ByLoader(h, m)'
    BY DEF Covered
  <1>1. Claims(h, m)
    BY DEF Claims, AloneFor
  <1>2. ByMaker(h, m) => ByMaker(h, m)'
    BY DEF ByMaker, Making
  <1>3. ByLoader(h, m) => ByLoader(h, m)'
    BY DEF ByLoader, Loading
  <1> QED BY <1>1, <1>2, <1>3 DEF Covered

\* Every step keeps the modules that should call an object called by it or on the way.
LEMMA CoveredStep ==
  ASSUME OneMaker, TInv, Owners, RawUnseen, Listed, Covered, [Next]_vars PROVE Covered'
  <1> USE DEF list, proc, loc, hist, Goto, Set, Return, At, Crash, vars
  <1>1. ASSUME NEW t \in Makers, NEW h \in UserHooks, Construct(t, h)
       PROVE Covered'
    <2>1. t \in Threads /\ h \in Hooks
      BY <1>1, NamesDiffer
    <2>2. CASE Crash
      BY <2>2 DEF Covered, Claims, AloneFor, ByMaker, ByLoader
    <2>3. CASE ~Crash
      <3>1. /\ life[h] = "raw" /\ life' = [life EXCEPT ![h] = "making"]
            /\ next' = [next EXCEPT ![h] = head] /\ obj' = [obj EXCEPT ![t] = h]
            /\ pc[t] = "idle" /\ pc' = [pc EXCEPT ![t] = "link"]
            /\ UNCHANGED <<loaded, iat, todo, mod, p, wild, blind>>
        BY <1>1, <2>3 DEF Construct
      <3>2. ASSUME NEW g \in Hooks, NEW m \in Modules, Claims(g, m)', g # h
            PROVE  iat[m][FuncOf(g)] = g \/ ByMaker(g, m)' \/ ByLoader(g, m)'
        <4>1. Claims(g, m)
          BY <2>1, <3>1, <3>2 DEF Claims, AloneFor, TInv, TypeOK
        <4>2. CASE iat[m][FuncOf(g)] = g
          BY <4>2
        <4>3. CASE ByMaker(g, m)
          BY <2>1, <3>1, <4>3 DEF ByMaker, TInv, TypeOK
        <4>4. CASE ByLoader(g, m)
          <5>1. PICK u \in Threads : /\ mod[u] = m
                                     /\ \/ pc[u] = "begin"
                                        \/ pc[u] = "hook" /\ Ahead(next, p[u], g)
                                        \/ pc[u] = "next" /\ Ahead(next, next[p[u]], g)
            BY <4>4 DEF ByLoader
          <5>2. /\ next \in [Hooks -> Hooks \cup {NULL}]
                /\ pc[u] \in {"hook", "next"} => p[u] \in Hooks /\ next[p[u]] \in Hooks \cup {NULL}
            BY DEF TInv, TypeOK
          <5>3. p[u] # h /\ \A z \in Hooks : next[z] # h
            BY <2>1, <3>1 DEF RawUnseen
          <5>4. pc[u] = "hook" => Ahead(next', p[u], g)
            BY <2>1, <3>1, <5>1, <5>2, <5>3, AheadPush
          <5>5. pc[u] = "next" => Ahead(next', next[p[u]], g) /\ next'[p[u]] = next[p[u]]
            BY <2>1, <3>1, <5>1, <5>2, <5>3, AheadPush
          <5>6. u # t /\ pc'[u] = pc[u]
            BY <3>1, <5>1 DEF TInv, TypeOK
          <5> QED BY <3>1, <5>1, <5>4, <5>5, <5>6 DEF ByLoader
        <4> QED BY <4>1, <4>2, <4>3, <4>4 DEF Covered
      <3>3. \A m \in Modules : ByMaker(h, m)'
        BY <2>1, <3>1 DEF ByMaker, TInv, TypeOK
      <3> QED BY <3>1, <3>2, <3>3 DEF Covered
    <2> QED BY <2>2, <2>3
  <1>2. ASSUME NEW t \in Makers, NEW h \in UserHooks, Destroy(t, h)
       PROVE Covered'
    <2>1. t \in Threads
      BY <1>2, NamesDiffer
    <2> QED BY <1>2, <2>1, CoveredQuiet DEF Destroy, Making, Loading, TInv, TypeOK
  <1>3. ASSUME NEW t \in Threads, Link(t)
       PROVE Covered'
    BY <1>3, ThreadHas, NamesDiffer
    DEF TInv, TypeOK, Covered, Claims, AloneFor, ByMaker, ByLoader, Listed, Owners, RawUnseen,
        Making, Undoing, Link
  <1>4. ASSUME NEW t \in Threads, MakeList(t)
       PROVE Covered'
    BY <1>4, ThreadHas, NamesDiffer
    DEF TInv, TypeOK, Covered, Claims, AloneFor, ByMaker, ByLoader, Listed, Owners, RawUnseen,
        Making, Undoing, Snapshot, SnapshotFails, MakeList
  <1>5. ASSUME NEW t \in Threads, MakeHook(t)
       PROVE Covered'
    <2>1. t \in Threads /\ obj[t] \in UserHooks /\ pc[t] = "make"
      BY <1>5, ThreadHas, NamesDiffer DEF MakeHook, Making, Undoing
    <2>2. CASE Crash
      BY <2>2 DEF Covered, Claims, AloneFor, ByMaker, ByLoader
    <2>3. CASE ~Crash
      <3>1. Visits(t, Orig, obj[t])
        BY <1>5, <2>1, <2>3, VisitMeans DEF TInv, MakeHook
      <3>2. PICK k \in todo[t] \cap loaded :
              /\ todo' = [todo EXCEPT ![t] = todo[t] \ {k}]
              /\ \A m \in Modules, g \in Funcs :
                   iat'[m][g] = IF /\ m = k /\ k \notin Spared(obj[t])
                                   /\ g = FuncOf(obj[t]) /\ iat[m][g] = Orig
                                THEN obj[t] ELSE iat[m][g]
        BY <3>1 DEF Visits
      <3>3. UNCHANGED <<head, next, life, loaded, pc, obj, mod, p, want, owed, wild, blind, overlap>>
        BY <3>1 DEF Visits
      <3> QED BY <2>1, <3>2, <3>3, NamesDiffer, ThreadHas
          DEF Covered, Claims, AloneFor, ByMaker, ByLoader, Listed, Owners, RawUnseen, Making,
              Undoing, TInv, TypeOK, Hooks
    <2> QED BY <2>2, <2>3
  <1>6. ASSUME NEW t \in Threads, Made(t)
       PROVE Covered'
    BY <1>6, ThreadHas, NamesDiffer
    DEF TInv, TypeOK, Covered, Claims, AloneFor, ByMaker, ByLoader, Listed, Owners, RawUnseen,
        Making, Undoing, Made
  <1>7. ASSUME NEW t \in Threads, UndoList(t)
       PROVE Covered'
    BY <1>7, CoveredQuiet DEF UndoList, Snapshot, SnapshotFails, Making, Loading, TInv, TypeOK
  <1>8. ASSUME NEW t \in Threads, UndoHook(t)
       PROVE Covered'
    <2>1. t \in Threads /\ obj[t] \in UserHooks /\ pc[t] = "unmake"
      BY <1>8, ThreadHas, NamesDiffer DEF UndoHook, Making, Undoing
    <2>2. CASE Crash
      BY <2>2 DEF Covered, Claims, AloneFor, ByMaker, ByLoader
    <2>3. CASE ~Crash
      <3>1. Visits(t, obj[t], Orig)
        BY <1>8, <2>1, <2>3, VisitMeans DEF TInv, UndoHook
      <3>2. PICK k \in todo[t] \cap loaded :
              /\ todo' = [todo EXCEPT ![t] = todo[t] \ {k}]
              /\ \A m \in Modules, g \in Funcs :
                   iat'[m][g] = IF /\ m = k /\ k \notin Spared(obj[t])
                                   /\ g = FuncOf(obj[t]) /\ iat[m][g] = obj[t]
                                THEN Orig ELSE iat[m][g]
        BY <3>1 DEF Visits
      <3>3. UNCHANGED <<head, next, life, loaded, pc, obj, mod, p, want, owed, wild, blind, overlap>>
        BY <3>1 DEF Visits
      <3> QED BY <2>1, <3>2, <3>3, NamesDiffer, ThreadHas
          DEF Covered, Claims, AloneFor, ByMaker, ByLoader, Listed, Owners, RawUnseen, Making,
              Undoing, TInv, TypeOK, Hooks
    <2> QED BY <2>2, <2>3
  <1>9. ASSUME NEW t \in Threads, ReadHead(t)
       PROVE Covered'
    BY <1>9, CoveredQuiet DEF ReadHead, Making, Loading, TInv, TypeOK
  <1>10. ASSUME NEW t \in Threads, UnlinkFirst(t)
       PROVE Covered'
    BY <1>10, CoveredQuiet DEF UnlinkFirst, Making, Loading, TInv, TypeOK
  <1>11. ASSUME NEW t \in Threads, UnlinkInner(t)
       PROVE Covered'
    <2>1. t \in Threads /\ obj[t] \in Hooks /\ life[obj[t]] = "dying"
      BY <1>11, NamesDiffer, ThreadHas DEF UnlinkInner, Owners, Undoing
    <2>2. /\ UNCHANGED <<life, loaded, iat, obj, todo, mod, wild, blind>> /\ pc[t] = "search"
          /\ \A u \in Threads \ {t} : pc'[u] = pc[u] /\ p'[u] = p[u]
      BY <1>11, <2>1 DEF UnlinkInner, TInv, TypeOK
    <2>3. ASSUME NEW g \in Hooks, NEW m \in Modules, Claims(g, m)'
          PROVE  iat[m][FuncOf(g)] = g \/ ByMaker(g, m)' \/ ByLoader(g, m)'
      <3>1. Claims(g, m) /\ g # obj[t]
        BY <2>1, <2>2, <2>3 DEF Claims, AloneFor
      <3>2. CASE iat[m][FuncOf(g)] = g
        BY <3>2
      <3>3. CASE ByMaker(g, m)
        BY <2>1, <2>2, <3>3 DEF ByMaker
      <3>4. CASE ByLoader(g, m)
        <4>1. PICK u \in Threads : /\ mod[u] = m
                                   /\ \/ pc[u] = "begin"
                                      \/ pc[u] = "hook" /\ Ahead(next, p[u], g)
                                      \/ pc[u] = "next" /\ Ahead(next, next[p[u]], g)
          BY <3>4 DEF ByLoader
        <4>2. u # t /\ pc'[u] = pc[u] /\ p'[u] = p[u] /\ mod'[u] = m
          BY <2>2, <4>1
        <4>3. pc[u] = "hook" => Ahead(next', p[u], g)
          BY <1>11, <2>1, <3>1, <4>1, ThreadHas, UnlinkKeeps
        <4>4. pc[u] = "next" => Ahead(next', next'[p[u]], g)
          BY <1>11, <2>1, <3>1, <4>1, ThreadHas, UnlinkKeepsNext
        <4> QED BY <4>1, <4>2, <4>3, <4>4 DEF ByLoader
      <3> QED BY <3>1, <3>2, <3>3, <3>4 DEF Covered
    <2> QED BY <2>2, <2>3 DEF Covered
  <1>12. ASSUME NEW t \in Threads, Destroyed(t)
       PROVE Covered'
    <2>1. obj[t] \in Hooks /\ life[obj[t]] = "dying"
      BY <1>12, ThreadHas, NamesDiffer DEF Destroyed, Owners, Undoing
    <2> QED BY <1>12, <2>1, CoveredQuiet DEF Destroyed, Making, Loading, TInv, TypeOK
  <1>13. ASSUME NEW t \in Threads, NEW c \in loaded, NEW m \in Modules, PlainLoad(t, c, m)
       PROVE Covered'
    BY <1>13, ThreadHas, NamesDiffer, LoadMeans
    DEF TInv, TypeOK, Covered, Claims, AloneFor, ByMaker, ByLoader, Listed, Owners, RawUnseen,
        Making, Undoing, PlainLoad
  <1>14. ASSUME NEW t \in Threads, NEW c \in loaded, NEW m \in Modules, LoadLibrary(t, c, m)
       PROVE Covered'
    <2>1. CASE Crash
      BY <2>1 DEF Covered, Claims, AloneFor, ByMaker, ByLoader
    <2>2. CASE ~Crash
      <3>1. /\ pc[t] = "idle" /\ RealLoad(m) /\ wild' = (wild \cup New(m)) \ {m}
            /\ mod' = [mod EXCEPT ![t] = m] /\ pc' = [pc EXCEPT ![t] = "begin"]
            /\ UNCHANGED <<next, life, obj, todo, p, blind>>
        BY <1>14, <2>2 DEF LoadLibrary
      <3>2. ASSUME NEW g \in Hooks, NEW k \in Modules, Claims(g, k)'
            PROVE  iat'[k][FuncOf(g)] = g \/ ByMaker(g, k)' \/ ByLoader(g, k)'
        <4>1. CASE k = m
          BY <3>1, <4>1 DEF ByLoader, TInv, TypeOK
        <4>2. CASE k # m
          <5>1. Claims(g, k) /\ iat'[k][FuncOf(g)] = iat[k][FuncOf(g)]
            BY <3>1, <3>2, <4>2, LoadMeans, NamesDiffer DEF Claims, AloneFor, TInv
          <5>2. ByMaker(g, k) => ByMaker(g, k)'
            BY <3>1 DEF ByMaker, TInv, TypeOK
          <5>3. ByLoader(g, k) => ByLoader(g, k)'
            BY <3>1 DEF ByLoader, TInv, TypeOK
          <5> QED BY <5>1, <5>2, <5>3 DEF Covered
        <4> QED BY <4>1, <4>2
      <3> QED BY <3>2 DEF Covered
    <2> QED BY <2>1, <2>2
  <1>15. ASSUME NEW t \in Threads, HookNewlyLoadedModule(t)
       PROVE Covered'
    <2>1. t \in Threads
      BY <1>15, NamesDiffer
    <2>2. ASSUME NEW g \in Hooks, NEW m \in Modules, Claims(g, m)'
          PROVE  iat'[m][FuncOf(g)] = g \/ ByMaker(g, m)' \/ ByLoader(g, m)'
      <3>1. Claims(g, m) /\ UNCHANGED <<iat, next, life>> /\ pc[t] = "begin"
        BY <1>15, <2>2 DEF HookNewlyLoadedModule, Claims, AloneFor
      <3>2. CASE iat[m][FuncOf(g)] = g
        BY <3>1, <3>2
      <3>3. CASE ByMaker(g, m)
        BY <1>15, <2>1, <3>3 DEF HookNewlyLoadedModule, ByMaker, TInv, TypeOK
      <3>4. CASE ~ByMaker(g, m) /\ ByLoader(g, m)
        <4>1. Ahead(next, head, g)
          <5>1. CASE life[g] = "live"
            BY <5>1 DEF Listed
          <5>2. CASE life[g] = "making"
            <6>1. PICK u \in Threads : obj[u] = g /\ pc[u] \in Making
              BY <5>2 DEF Owners
            <6> QED BY <3>4, <6>1 DEF Making, ByMaker, Listed
          <5> QED BY <3>1, <5>1, <5>2 DEF Claims
        <4>2. head # NULL
          BY <4>1, AheadNull
        <4>3. p' = [p EXCEPT ![t] = head] /\ pc' = [pc EXCEPT ![t] = "hook"] /\ UNCHANGED mod
          BY <1>15, <4>2 DEF HookNewlyLoadedModule
        <4>4. PICK u \in Threads : /\ mod[u] = m
                                   /\ \/ pc[u] = "begin"
                                      \/ pc[u] = "hook" /\ Ahead(next, p[u], g)
                                      \/ pc[u] = "next" /\ Ahead(next, next[p[u]], g)
          BY <3>4 DEF ByLoader
        <4>5. CASE u = t
          BY <2>1, <3>1, <4>1, <4>3, <4>4, <4>5 DEF ByLoader, TInv, TypeOK
        <4>6. CASE u # t
          BY <2>1, <3>1, <4>3, <4>4, <4>6 DEF ByLoader, TInv, TypeOK
        <4> QED BY <4>5, <4>6
      <3> QED BY <3>1, <3>2, <3>3, <3>4 DEF Covered
    <2> QED BY <2>2 DEF Covered
  <1>16. ASSUME NEW t \in Threads, HookOne(t)
       PROVE Covered'
    <2>1. t \in Threads
      BY <1>16, NamesDiffer
    <2>2. CASE Crash
      BY <2>2 DEF Covered, Claims, AloneFor, ByMaker, ByLoader
    <2>3. CASE ~Crash
      <3>1. /\ pc[t] = "hook" /\ p[t] \in Hooks /\ mod[t] \in Modules
            /\ pc' = [pc EXCEPT ![t] = "next"]
            /\ \A m \in Modules, g \in Funcs :
                 iat'[m][g] = IF m = mod[t] /\ g = FuncOf(p[t]) /\ iat[m][g] = Orig
                              THEN p[t] ELSE iat[m][g]
            /\ UNCHANGED <<next, life, loaded, obj, todo, mod, p, wild, blind>>
        BY <1>16, <2>1, <2>3, HookMeans DEF TInv
      <3>2. ASSUME NEW g \in Hooks, NEW m \in Modules, Claims(g, m)'
            PROVE  iat'[m][FuncOf(g)] = g \/ ByMaker(g, m)' \/ ByLoader(g, m)'
        <4>1. Claims(g, m) /\ FuncOf(g) \in Funcs /\ g # Orig
          BY <3>1, <3>2, NamesDiffer DEF Claims, AloneFor
        <4>2. CASE iat[m][FuncOf(g)] = g
          BY <3>1, <4>1, <4>2
        <4>3. CASE ByMaker(g, m)
          BY <2>1, <3>1, <4>3 DEF ByMaker, TInv, TypeOK
        <4>4. CASE ByLoader(g, m)
          <5>1. PICK u \in Threads : /\ mod[u] = m
                                     /\ \/ pc[u] = "begin"
                                        \/ pc[u] = "hook" /\ Ahead(next, p[u], g)
                                        \/ pc[u] = "next" /\ Ahead(next, next[p[u]], g)
            BY <4>4 DEF ByLoader
          <5>2. CASE u # t
            BY <2>1, <3>1, <5>1, <5>2 DEF ByLoader, TInv, TypeOK
          <5>3. CASE u = t /\ p[t] = g
            <6>1. iat[m][FuncOf(g)] \in {Orig, g}
              BY <4>1 DEF Claims, AloneFor, RawUnseen, TInv, TypeOK
            <6> QED BY <3>1, <4>1, <5>1, <5>3, <6>1
          <5>4. CASE u = t /\ p[t] # g
            <6>1. Ahead(next, next[p[t]], g)
              BY <3>1, <5>1, <5>4, AheadStep
            <6> QED BY <2>1, <3>1, <5>1, <5>4, <6>1 DEF ByLoader, TInv, TypeOK
          <5> QED BY <5>2, <5>3, <5>4
        <4> QED BY <4>1, <4>2, <4>3, <4>4 DEF Covered
      <3> QED BY <3>2 DEF Covered
    <2> QED BY <2>2, <2>3
  <1>17. ASSUME NEW t \in Threads, HookStep(t)
       PROVE Covered'
    <2>1. t \in Threads
      BY <1>17, NamesDiffer
    <2>2. CASE Crash
      BY <2>2 DEF Covered, Claims, AloneFor, ByMaker, ByLoader
    <2>3. CASE ~Crash
      <3>1. pc[t] = "next" /\ UNCHANGED <<next, life, loaded, iat, wild, blind>>
        BY <1>17, <2>3 DEF HookStep
      <3>2. ASSUME NEW g \in Hooks, NEW m \in Modules, Claims(g, m)'
            PROVE  iat[m][FuncOf(g)] = g \/ ByMaker(g, m)' \/ ByLoader(g, m)'
        <4>1. Claims(g, m)
          BY <3>1, <3>2 DEF Claims, AloneFor
        <4>2. CASE iat[m][FuncOf(g)] = g
          BY <4>2
        <4>3. CASE ByMaker(g, m)
          BY <1>17, <2>1, <2>3, <4>3 DEF HookStep, ByMaker, TInv, TypeOK
        <4>4. CASE ByLoader(g, m)
          <5>1. PICK u \in Threads : /\ mod[u] = m
                                     /\ \/ pc[u] = "begin"
                                        \/ pc[u] = "hook" /\ Ahead(next, p[u], g)
                                        \/ pc[u] = "next" /\ Ahead(next, next[p[u]], g)
            BY <4>4 DEF ByLoader
          <5>2. CASE u # t
            <6>1. pc'[u] = pc[u] /\ p'[u] = p[u] /\ mod'[u] = mod[u]
              BY <1>17, <2>1, <2>3, <5>2 DEF HookStep, TInv, TypeOK
            <6> QED BY <3>1, <5>1, <6>1 DEF ByLoader
          <5>3. CASE u = t
            <6>1. Ahead(next, next[p[t]], g)
              BY <3>1, <5>1, <5>3
            <6>2. next[p[t]] # NULL
              BY <6>1, AheadNull
            <6>3. p'[t] = next[p[t]] /\ pc'[t] = "hook" /\ mod'[t] = mod[t]
              BY <1>17, <2>1, <2>3, <6>2 DEF HookStep, TInv, TypeOK
            <6> QED BY <2>1, <3>1, <5>1, <5>3, <6>1, <6>3 DEF ByLoader
          <5> QED BY <5>2, <5>3
        <4> QED BY <4>1, <4>2, <4>3, <4>4 DEF Covered
      <3> QED BY <3>1, <3>2 DEF Covered
    <2> QED BY <2>2, <2>3
  <1>18. ASSUME NEW t \in Threads, NEW c \in loaded, NEW f \in Funcs, GetProcAddress(t, c, f)
       PROVE Covered'
    BY <1>18, CoveredQuiet DEF GetProcAddress, Making, Loading, TInv, TypeOK
  <1>19. ASSUME NEW t \in Threads, FindStep(t)
       PROVE Covered'
    BY <1>19, CoveredQuiet DEF FindStep, Making, Loading, TInv, TypeOK
  <1>20. ASSUME NEW t \in Threads, FindEnds(t)
       PROVE Covered'
    BY <1>20, CoveredQuiet DEF FindEnds, Making, Loading, TInv, TypeOK
  <1>21. ASSUME NEW m \in Modules, FreeLibrary(m)
       PROVE Covered'
    BY <1>21, NamesDiffer, FreshTyped DEF TInv, TypeOK, Covered, Claims, AloneFor, ByMaker,
        ByLoader, Listed, Owners, RawUnseen, Making, Undoing, FreeLibrary
  <1>22. CASE UNCHANGED vars
    BY <1>22, NamesDiffer DEF TInv, TypeOK, Covered, Claims, AloneFor, ByMaker, ByLoader, Listed,
        Owners, RawUnseen, Making, Undoing
  <1> QED BY NamesDiffer, <1>1, <1>2, <1>3, <1>4, <1>5, <1>6, <1>7, <1>8, <1>9, <1>10, <1>11, <1>12,
             <1>13, <1>14, <1>15, <1>16, <1>17, <1>18, <1>19, <1>20, <1>21, <1>22
      DEF Next, Maker, Caller

\* The objects of the class itself and what they hook.
LEMMA StaticFuncs ==
  /\ FuncOf("sm_LoadLibrary") = "LoadLibrary" /\ FuncOf("sm_GetProcAddress") = "GetProcAddress"
  /\ "sm_LoadLibrary" \in Hooks /\ "sm_GetProcAddress" \in Hooks
  /\ "LoadLibrary" \in Funcs /\ "GetProcAddress" \in Funcs
  BY DEF FuncOf, Hooks, Statics, Funcs

\* The tables at the start.
LEMMA TablesInit ==
  ASSUME Init
  PROVE  /\ Tables(iat)
         /\ \A m \in Modules, f \in Funcs :
              /\ iat[m][f] \in Statics \cup {Orig}
              /\ m \in Initial \ {Own} /\ f = "LoadLibrary" => iat[m][f] = "sm_LoadLibrary"
              /\ m \in Initial \ {Own} /\ f = "GetProcAddress" => iat[m][f] = "sm_GetProcAddress"
  <1> DEFINE first == [f \in Funcs |-> CASE f = "LoadLibrary"    -> "sm_LoadLibrary"
                                          [] f = "GetProcAddress" -> "sm_GetProcAddress"
                                          [] OTHER                -> Orig]
  <1>1. /\ DOMAIN first = Funcs
        /\ \A f \in Funcs :
             /\ first[f] \in Slot(f)
             /\ first[f] \in Statics \cup {Orig}
             /\ f = "LoadLibrary" => first[f] = "sm_LoadLibrary"
             /\ f = "GetProcAddress" => first[f] = "sm_GetProcAddress"
    BY StaticFuncs DEF Statics, Slot
  <1>2. DOMAIN iat = Modules /\ \A m \in Modules : iat[m] = IF m \in Initial \ {Own} THEN first ELSE Fresh
    BY DEF Init
  <1> HIDE DEF first
  <1> QED BY <1>1, <1>2, FreshTyped DEF Tables, Slot

\* Every state of the start satisfies the types and what holds for any makers.
LEMMA InitHolds == ASSUME Init PROVE TInv /\ Owners /\ RawUnseen /\ Alone /\ Undone
  <1>1. TInv
    <2>1. ListTypes
      BY StaticFuncs, NamesDiffer DEF Init, ListTypes
    <2>2. TableTypes
      BY TablesInit, HookConstants DEF Init, TableTypes
    <2>3. ThreadTypes
      BY DEF Init, ThreadTypes, Making, Undoing, Loading
    <2>4. HistTypes /\ StaticsLive
      BY DEF Init, HistTypes, StaticsLive, Hooks
    <2> QED BY <2>1, <2>2, <2>3, <2>4, TypeParts DEF TInv
  <1>2. Owners /\ Alone
    BY NamesDiffer DEF Init, Owners, Alone, Making, Undoing, Loading
  <1>3. RawUnseen
    BY TablesInit, NamesDiffer DEF Init, RawUnseen, Statics
  <1>4. Undone
    BY NamesDiffer DEF Init, Undone
  <1> QED BY <1>1, <1>2, <1>3, <1>4

\* And what holds with one maker.
LEMMA InitListed == ASSUME Init PROVE Listed /\ Searching /\ Covered
  <1>1. Listed
    <2>1. next["sm_GetProcAddress"] = "sm_LoadLibrary" /\ head = "sm_GetProcAddress"
      BY StaticFuncs DEF Init
    <2>2. \A h \in Hooks : life[h] = "live" => h \in Statics
      BY DEF Init
    <2>3. \A h \in Statics : Ahead(next, head, h)
      BY <2>1, AheadSelf, AheadBack, StaticFuncs DEF Statics
    <2> QED BY <2>2, <2>3 DEF Init, Listed, Making, Undoing
  <1>2. Searching
    BY DEF Init, Searching
  <1>3. Covered
    <2> SUFFICES ASSUME NEW h \in Hooks, NEW m \in Modules, Claims(h, m) PROVE iat[m][FuncOf(h)] = h
      BY DEF Covered
    <2>1. h \in Statics
      BY DEF Init, Claims
    <2>2. m \in Initial \ {Own}
      BY <2>1, HookConstants DEF Init, Claims, Spared, Statics
    <2> QED BY <2>1, <2>2, TablesInit, StaticFuncs DEF Statics
  <1> QED BY <1>1, <1>2, <1>3

\* The type invariant, which says that the slot of a function only ever holds hooks of
\* that function (APIHook_new.cpp:86-140), holds for any number of makers and callers.
THEOREM TypeCorrect == Spec => []TypeOK
  <1>1. Init => TInv
    BY InitHolds
  <1>2. TInv /\ [Next]_vars => TInv'
    BY TypesStep
  <1>3. TInv => TypeOK
    BY DEF TInv
  <1> QED BY <1>1, <1>2, <1>3, PTL DEF Spec

\* The destructor leaves no module that calls the hook of a destroyed object, when no
\* load ran beside it (lines 31 to 56): with any number of threads that construct,
\* destroy and load, and for objects that share a function.
THEOREM HooksUndone == Spec => []DeadHookGone
  <1> DEFINE I == TInv /\ Owners /\ Alone /\ Undone
  <1>1. Init => I
    BY InitHolds
  <1>2. I /\ [Next]_vars => I'
    BY TypesStep, OwnersStep, AloneStep, UndoneStep
  <1>3. I => DeadHookGone
    <2> SUFFICES ASSUME I, NEW h \in UserHooks \ (blind \cup overlap), NEW m \in loaded \ Spared(h),
                        life[h] = "gone", iat[m][FuncOf(h)] = h
                 PROVE  FALSE
      BY DEF DeadHookGone
    <2>1. PICK t \in Threads : obj[t] = h /\ pc[t] \in Undoing
      BY DEF Undone, Undoing
    <2> QED BY <2>1 DEF Owners
  <1> QED BY <1>1, <1>2, <1>3, PTL DEF Spec

\* A GetProcAddress that ends with the real function missed no object that was there
\* throughout (lines 206 to 225), if one thread at a time constructs and destroys.
THEOREM SearchTells == ASSUME OneMaker PROVE Spec => []SearchFindsHook
  <1> DEFINE I == TInv /\ Owners /\ RawUnseen /\ Listed /\ Searching
  <1>1. Init => I
    BY InitHolds, InitListed
  <1>2. I /\ [Next]_vars => I'
    BY TypesStep, OwnersStep, RawStep, ListedStep, SearchingStep
  <1>3. I => SearchFindsHook
    BY AheadNull DEF SearchFindsHook, Searching, TInv, TypeOK
  <1> QED BY <1>1, <1>2, <1>3, PTL DEF Spec

\* Whatever the interleaving of one constructor with the loads of other threads, every
\* module that one of the two saw calls the hook (lines 24 to 28 and 163 to 183).
THEOREM NoneMissed == ASSUME OneMaker PROVE Spec => []NoModuleMissed
  <1> DEFINE I == TInv /\ Owners /\ RawUnseen /\ Listed /\ Covered
  <1>1. Init => I
    BY InitHolds, InitListed
  <1>2. I /\ [Next]_vars => I'
    BY TypesStep, OwnersStep, RawStep, ListedStep, CoveredStep
  <1>3. I => NoModuleMissed
    <2> SUFFICES ASSUME I, NEW h \in Hooks \ blind, NEW m \in loaded \ (wild \cup Spared(h)),
                        life[h] = "live", AloneFor(h), \A t \in Threads : Loading(t) => mod[t] # m
                 PROVE  iat[m][FuncOf(h)] = h
      BY DEF NoModuleMissed, AloneFor
    <2>1. ~ByLoader(h, m)
      BY DEF ByLoader, Loading
    <2>2. ~ByMaker(h, m)
      BY DEF ByMaker, Owners, Making
    <2> QED BY <2>1, <2>2 DEF Covered, Claims, TInv, TypeOK
  <1> QED BY <1>1, <1>2, <1>3, PTL DEF Spec

================================================================================
