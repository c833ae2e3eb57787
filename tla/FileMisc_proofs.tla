--------------------------- MODULE FileMisc_proofs ---------------------------
(***************************************************************************)
(* Proofs about FileMisc, for every tree of folders, every mask and any    *)
(* sequence of calls.                                                      *)
(***************************************************************************)
EXTENDS FileMisc, SequenceTheorems, TLAPS

-----------------------------------------------------------------------------
(* The stack of functions. *)

Walkers == {"CopyFolder", "DeleteFolderContents"}
Callers == {"MoveFolder", "RemoveFolder"}

Frames ==
  [fn : Walkers \cup Callers,
   pc : {"enter", "pass", "loop", "back", "copied", "deleted", "emptied"},
   dir : Dirs, sub : BOOLEAN, masked : BOOLEAN, term : BOOLEAN,
   pass : 0 .. 2, todo : SUBSET (Items \cup {Dot}), res : BOOLEAN, cur : Dirs \cup {Dot}]

CallsOf == [name : {"none"} \cup Walkers \cup Callers, sub : BOOLEAN, masked : BOOLEAN, term : BOOLEAN]

\* In a stack s that runs the call o: the number of frames that walk the tree, the function
\* that does, and whether a move has begun to delete.
Top(s, o)      == IF o.name \in Callers THEN Len(s) - 1 ELSE Len(s)
Deleting(s, o) == o.name = "MoveFolder" /\ s[Len(s)].pc = "deleted"
WalkFn(s, o) ==
  IF o.name = "CopyFolder" \/ (o.name = "MoveFolder" /\ ~Deleting(s, o))
  THEN "CopyFolder" ELSE "DeleteFolderContents"

PassesOf(f) == IF f.sub /\ f.masked THEN 2 ELSE 1

\* What the position of a walker says of its other fields.
Turn(f) ==
  /\ f.pc \in {"enter", "pass", "loop", "back"}
  /\ \A e \in f.todo : e # Dot => Parent[e] = f.dir
  /\ f.pc = "enter" => f.pass = 0 /\ f.res
  /\ f.pc = "pass" => f.pass <= PassesOf(f) /\ (f.pass = 0 => f.res)
  /\ f.pc = "loop" => f.pass < PassesOf(f)
  /\ f.pc \in {"loop", "back"} /\ f.masked /\ f.pass = 0 => f.todo \subseteq Matching
  /\ f.pc = "back" => /\ f.pass = PassesOf(f) - 1 /\ f.sub
                      /\ f.cur \in Dirs \ {Src} /\ Parent[f.cur] = f.dir
                      /\ f.cur \notin Dotted

\* The parameters with which walker i of the stack was called.
Called(s, o, i) ==
  LET f == s[i] IN
  /\ f.fn = WalkFn(s, o)
  /\ f.term = (o.term /\ ~Deleting(s, o))
  /\ i = Top(s, o) => f.dir = Src /\ f.sub = o.sub /\ f.masked = o.masked
  /\ i < Top(s, o) => /\ f.dir = s[i + 1].cur /\ f.dir # Src /\ Plain[f.dir]
                      /\ o.sub /\ f.sub
                      /\ f.masked = (o.masked /\ WalkFn(s, o) = "DeleteFolderContents")

Bottom(f, o) ==
  /\ f.fn = o.name /\ f.sub = o.sub /\ f.masked = o.masked /\ f.dir = Src /\ f.todo = {}
  /\ f.pc \in (IF o.name = "MoveFolder" THEN {"copied", "deleted"} ELSE {"emptied"})
  /\ o.name = "RemoveFolder" => o.sub /\ ~o.masked

Shape(s, o) ==
  s # << >> =>
    /\ o.name # "none"
    /\ o.name \in Callers => Bottom(s[Len(s)], o)
    /\ \A i \in 1 .. Top(s, o) : /\ Called(s, o, i) /\ Turn(s[i])
                                 /\ i > 1 => s[i].pc = "back"

TInv ==
  /\ src \subseteq Files \cup Dirs /\ dst \subseteq Files \cup Dirs
  /\ start \subseteq Files \cup Dirs
  /\ unread \subseteq Items /\ op \in CallsOf /\ stack \in Seq(Frames)
  /\ ret \in BOOLEAN /\ signalled \in BOOLEAN /\ autoReset \in BOOLEAN /\ atRoot \in BOOLEAN
  /\ asked \in BOOLEAN /\ after \in 0 .. 2
  /\ Shape(stack, op)

-----------------------------------------------------------------------------
(* What has been copied. *)

\* No item is there without its folder.
Rooted(S) == \A e \in S \cap Items : Parent[e] \in S

\* The items that CopyFolder has to bring over from the folder d.
DueIn(S, d, sub, masked) ==
  {e \in S \cap Items : /\ Parent[e] = d /\ e \notin Dotted
                        /\ e \in Files /\ masked => e \in Matching
                        /\ e \in Dirs => sub}

\* Everything in the folder d has arrived, and in the folders below it.
ClosedIn(K, S, D) ==
  \A d \in K : \A e \in DueIn(S, d, TRUE, FALSE) : e \in D \/ e \in K
Complete(d, S, D) ==
  \E K \in SUBSET Dirs : d \in K /\ ClosedIn(K, S, D \cap Files)

Got(e, S, D) == (e \in Files /\ e \in D) \/ (e \in Dirs /\ Complete(e, S, D))

\* The pass that takes an item, and whether frame f still comes to it.
PassFor(f, e) == IF e \in Dirs THEN PassesOf(f) - 1 ELSE 0
Will(f, e) ==
  \/ f.pc = "enter"
  \/ f.pc = "pass" /\ f.pass <= PassFor(f, e)
  \/ f.pc \in {"loop", "back"} /\ (f.pass < PassFor(f, e) \/ (f.pass = PassFor(f, e) /\ e \in f.todo))

\* Frame f has failed and does not forget it.
Failed(f) == f.pc \in {"pass", "loop"} /\ ~f.res

OnTrack(f, S, D) ==
  \A e \in DueIn(S, f.dir, f.sub, f.masked) :
    Will(f, e) \/ Got(e, S, D) \/ (f.pc = "back" /\ e = f.cur)

\* A copying frame has failed, or is on track; after a failure the rest of a listing is dropped.
Doing(f, S, D) ==
  /\ Failed(f) \/ OnTrack(f, S, D)
  /\ f.pc = "loop" /\ ~f.res => f.todo = {} \/ Dot \in f.todo

AllCopied(o, S, D) == \A e \in DueIn(S, Src, o.sub, o.masked) : Got(e, S, D)

\* While CopyFolder runs: every function does its part, and what has returned TRUE has done it.
CopyInv(s, o, r, S, D) ==
  /\ \A i \in 1 .. Top(s, o) : Doing(s[i], S, D)
  /\ s[1].pc = "back" /\ r => Complete(s[1].cur, S, D)
  /\ s[1].pc = "copied" /\ r => AllCopied(o, S, D)

Copying == stack # << >> /\ WalkFn(stack, op) = "CopyFolder"
Lenient == TwoPasses /\ atRoot

\* What the call has to account for: what was there, but for what a failed search left out.
Due == start \ unread

CInv ==
  /\ Rooted(src) /\ Rooted(Due)
  /\ Copying \/ (stack = << >> /\ op.name = "CopyFolder") => start \subseteq src
  /\ Copying /\ ~Lenient => CopyInv(stack, op, ret, Due, dst)
  /\ stack # << >> /\ Deleting(stack, op) /\ ~Lenient => AllCopied(op, Due, dst)
  /\ stack = << >> /\ ret /\ op.name \in {"CopyFolder", "MoveFolder"} /\ ~Lenient =>
       AllCopied(op, Due, dst)

-----------------------------------------------------------------------------
\* The running function only returns FALSE to its caller.
Ending ==
  LET f == Head(stack) IN
  \/ f.pc \in {"back", "copied", "emptied"} /\ ~ret
  \/ f.pc = "loop" /\ ~f.res /\ f.todo = {} /\ f.pass = PassesOf(f) - 1
  \/ f.pc = "pass" /\ ~f.res /\ f.pass = PassesOf(f)

SInv ==
  /\ asked => op.term
  /\ asked /\ ~autoReset => signalled
  /\ signalled => asked
  /\ op.name \in {"CopyFolder", "MoveFolder"} \/ ~autoReset =>
       /\ after < 2
       /\ ~asked => after = 0
       /\ stack # << >> /\ ~Committed /\ asked /\ (~signalled \/ after = 1) => Ending

-----------------------------------------------------------------------------
(* Plain is the least set of items that holds the source folder and, with a *)
(* folder, what is in it under a name without a dot: its recursive          *)
(* definition has a solution, and may be unfolded.                          *)

Downward(S) == Src \in S /\ \A x \in Items \ Dotted : Parent[x] \in S => x \in S

LEMMA SrcNoItem == Src \notin Items
  BY Tree DEF Items

LEMMA ParentDir == \A e \in Items : Parent[e] \in Dirs /\ Parent[e] \in Items \cup {Src}
  BY Tree DEF Items

LEMMA PlainUnfolds ==
  \A e \in Items \cup {Src} : Plain[e] = (e = Src \/ (e \notin Dotted /\ Plain[Parent[e]]))
  <1> DEFINE All == Items \cup {Src}
             Body(f) == [e \in All |-> e = Src \/ (e \notin Dotted /\ f[Parent[e]])]
             F == [e \in All |-> \A S \in SUBSET All : Downward(S) => e \in S]
  <1>1. F[Src]
    BY DEF Downward
  <1>2. ASSUME NEW e \in Items, e \notin Dotted, F[Parent[e]] PROVE F[e]
    BY <1>2, ParentDir DEF Downward
  <1>3. ASSUME NEW e \in Items, F[e] PROVE e \notin Dotted /\ F[Parent[e]]
    <2> DEFINE S == {x \in All : F[x]} \ {e}
    <2>1. SUFFICES ASSUME ~(e \notin Dotted /\ F[Parent[e]]) PROVE FALSE
      OBVIOUS
    <2>2. Src \in S
      BY <1>1, SrcNoItem
    <2>3. ASSUME NEW x \in Items \ Dotted, Parent[x] \in S PROVE x \in S
      BY <1>2, <2>1, <2>3
    <2>4. S \in SUBSET All /\ Downward(S)
      BY <2>2, <2>3 DEF Downward
    <2>5. e \in S
      BY <1>3, <2>4
    <2> QED
      BY <2>5
  <1>4. F = Body(F)
    <2>1. \A e \in All : F[e] = (e = Src \/ (e \notin Dotted /\ F[Parent[e]]))
      BY <1>1, <1>2, <1>3
    <2> QED
      BY <2>1, Zenon
  <1>5. \E f : f = Body(f)
    BY <1>4
  <1>6. Plain = Body(Plain)
    BY <1>5 DEF Plain
  <1> HIDE DEF Body
  <1>7. \A e \in All : Plain[e] = Body(Plain)[e]
    BY <1>6
  <1> QED
    BY <1>7 DEF Body

-----------------------------------------------------------------------------
(* The three things a step does to the stack. *)

LEMMA BecomeStack ==
  ASSUME NEW s \in Seq(Frames), s # << >>, NEW f \in Frames,
         NEW s2, s2 = <<f>> \o Tail(s)
  PROVE  /\ s2 \in Seq(Frames) /\ s2 # << >> /\ Len(s2) = Len(s) /\ Head(s2) = f /\ s2[1] = f
         /\ \A i \in 2 .. Len(s) : s2[i] = s[i]
  <1>1. Tail(s) \in Seq(Frames) /\ Len(Tail(s)) = Len(s) - 1 /\ Len(s) \in Nat \ {0}
    OBVIOUS
  <1>2. <<f>> \in Seq(Frames) /\ Len(<<f>>) = 1
    OBVIOUS
  <1>3. s2 \in Seq(Frames) /\ Len(s2) = Len(s)
    BY <1>1, <1>2
  <1>4. s2[1] = f /\ \A i \in 2 .. Len(s) : s2[i] = s[i]
    BY <1>1, <1>2
  <1> QED
    BY <1>1, <1>3, <1>4

LEMMA CallStack ==
  ASSUME NEW s \in Seq(Frames), s # << >>, NEW f \in Frames, NEW new \in Frames,
         NEW s2, s2 = <<new, f>> \o Tail(s)
  PROVE  /\ s2 \in Seq(Frames) /\ s2 # << >> /\ Len(s2) = Len(s) + 1
         /\ Head(s2) = new /\ s2[1] = new /\ s2[2] = f
         /\ \A i \in 3 .. Len(s) + 1 : s2[i] = s[i - 1]
  <1>1. Tail(s) \in Seq(Frames) /\ Len(Tail(s)) = Len(s) - 1 /\ Len(s) \in Nat \ {0}
    OBVIOUS
  <1>2. <<new, f>> \in Seq(Frames) /\ Len(<<new, f>>) = 2
    OBVIOUS
  <1>3. s2 \in Seq(Frames) /\ Len(s2) = Len(s) + 1
    BY <1>1, <1>2
  <1>4. s2[1] = new /\ s2[2] = f /\ \A i \in 3 .. Len(s) + 1 : s2[i] = s[i - 1]
    BY <1>1, <1>2
  <1> QED
    BY <1>1, <1>3, <1>4

LEMMA ReturnStack ==
  ASSUME NEW s \in Seq(Frames), s # << >>
  PROVE  /\ Tail(s) \in Seq(Frames) /\ Len(Tail(s)) = Len(s) - 1 /\ Len(s) \in Nat \ {0}
         /\ \A i \in 1 .. Len(s) - 1 : Tail(s)[i] = s[i + 1]
         /\ Head(s) = s[1] /\ s[1] \in Frames /\ s[Len(s)] \in Frames
         /\ Tail(s) # << >> => Len(s) > 1 /\ Head(Tail(s)) = s[2]
         /\ Len(s) > 1 => Tail(s) # << >>
  <1>1. Len(s) \in Nat \ {0} /\ Tail(s) \in Seq(Frames) /\ Len(Tail(s)) = Len(s) - 1
    OBVIOUS
  <1>2. \A i \in 1 .. Len(s) - 1 : Tail(s)[i] = s[i + 1]
    BY <1>1
  <1>3. Head(s) = s[1] /\ s[1] \in Frames /\ s[Len(s)] \in Frames
    BY <1>1
  <1>4. ASSUME Tail(s) # << >> PROVE Len(s) > 1 /\ Head(Tail(s)) = s[2]
    <2>1. Len(Tail(s)) > 0
      BY <1>1, <1>4
    <2>2. Tail(s)[1] = s[2]
      BY <1>1, <1>2, <2>1
    <2> QED
      BY <1>1, <2>1, <2>2
  <1>5. ASSUME Len(s) > 1, Tail(s) = << >> PROVE FALSE
    <2>1. Len(<< >>) = 0
      OBVIOUS
    <2>2. Len(Tail(s)) = 0
      BY <1>5, <2>1, Zenon
    <2> QED
      BY <1>1, <1>5, <2>2
  <1> QED
    BY <1>1, <1>2, <1>3, <1>4, <1>5

\* Two frames of the same call.
SameCall(f, g) ==
  f.fn = g.fn /\ f.dir = g.dir /\ f.sub = g.sub /\ f.masked = g.masked /\ f.term = g.term

LEMMA BecomeShape ==
  ASSUME NEW s \in Seq(Frames), s # << >>, NEW o \in CallsOf, Shape(s, o), Top(s, o) >= 1,
         NEW f \in Frames, SameCall(f, s[1]), Turn(f), NEW s2, s2 = <<f>> \o Tail(s)
  PROVE  /\ Shape(s2, o) /\ Top(s2, o) = Top(s, o) /\ WalkFn(s2, o) = WalkFn(s, o)
         /\ Deleting(s2, o) = Deleting(s, o)
  <1>1. /\ Len(s2) = Len(s) /\ s2[1] = f /\ Len(s) \in Nat \ {0} /\ s2 # << >>
        /\ \A i \in 2 .. Len(s) : s2[i] = s[i]
    BY BecomeStack, ReturnStack
  <1>2. Top(s2, o) = Top(s, o) /\ Top(s, o) \in Nat /\ Top(s, o) <= Len(s)
    BY <1>1 DEF Top
  <1>3. o.name \in Callers => s2[Len(s)] = s[Len(s)]
    BY <1>1 DEF Top
  <1>4. Deleting(s2, o) = Deleting(s, o) /\ WalkFn(s2, o) = WalkFn(s, o)
    BY <1>1, <1>3 DEF Deleting, WalkFn, Callers
  <1>5. ASSUME NEW i \in 1 .. Top(s2, o)
        PROVE  Called(s2, o, i) /\ Turn(s2[i]) /\ (i > 1 => s2[i].pc = "back")
    <2>1. Called(s, o, i) /\ Turn(s[i]) /\ (i > 1 => s[i].pc = "back")
      BY <1>1, <1>2, <1>5 DEF Shape
    <2>2. i < Top(s, o) => s2[i + 1] = s[i + 1]
      BY <1>1, <1>2, <1>5
    <2>3. CASE i = 1
      BY <1>1, <1>2, <1>4, <2>1, <2>2, <2>3 DEF Called, SameCall
    <2>4. CASE i > 1
      <3>1. s2[i] = s[i]
        BY <1>1, <1>2, <1>5, <2>4
      <3> QED
        BY <1>2, <1>4, <2>1, <2>2, <3>1 DEF Called
    <2> QED
      BY <1>2, <1>5, <2>3, <2>4
  <1>6. o.name # "none" /\ (o.name \in Callers => Bottom(s2[Len(s2)], o))
    BY <1>1, <1>3 DEF Shape
  <1> QED
    BY <1>2, <1>4, <1>5, <1>6 DEF Shape

\* The running function f of the stack s calls itself: s2 is the stack with the frame new on top.
Calls(s, o, f, new, s2) ==
  /\ s \in Seq(Frames) /\ s # << >> /\ o \in CallsOf /\ Shape(s, o) /\ Top(s, o) >= 1
  /\ f \in Frames /\ SameCall(f, s[1]) /\ Turn(f) /\ f.pc = "back"
  /\ new \in Frames /\ Turn(new) /\ Plain[new.dir]
  /\ new.fn = f.fn /\ new.dir = f.cur /\ new.term = f.term /\ new.sub
  /\ new.masked = (f.masked /\ f.fn = "DeleteFolderContents")
  /\ s2 = <<new, f>> \o Tail(s)

LEMMA CallShape ==
  ASSUME NEW s, NEW o, NEW f, NEW new, NEW s2, Calls(s, o, f, new, s2)
  PROVE  /\ Shape(s2, o) /\ Top(s2, o) = Top(s, o) + 1 /\ WalkFn(s2, o) = WalkFn(s, o)
         /\ Deleting(s2, o) = Deleting(s, o)
  <1> USE DEF Calls
  <1>1. /\ Len(s2) = Len(s) + 1 /\ s2[1] = new /\ s2[2] = f /\ Len(s) \in Nat \ {0} /\ s2 # << >>
        /\ \A i \in 3 .. Len(s) + 1 : s2[i] = s[i - 1]
    BY CallStack, ReturnStack
  <1>2. Top(s2, o) = Top(s, o) + 1 /\ Top(s, o) \in Nat /\ Top(s, o) <= Len(s)
    BY <1>1 DEF Top
  <1>3. o.name \in Callers => s2[Len(s2)] = s[Len(s)]
    BY <1>1 DEF Top
  <1>4. Deleting(s2, o) = Deleting(s, o) /\ WalkFn(s2, o) = WalkFn(s, o)
    BY <1>1, <1>3 DEF Deleting, WalkFn, Callers
  <1>5. ASSUME NEW i \in 1 .. Top(s2, o)
        PROVE  Called(s2, o, i) /\ Turn(s2[i]) /\ (i > 1 => s2[i].pc = "back")
    <2>1. CASE i = 1
      <3>1. Called(s, o, 1)
        BY <1>2 DEF Shape
      <3>2. f.dir = s[1].dir /\ f.cur # Src /\ f.sub
        BY DEF SameCall, Turn
      <3>3. /\ s[1].sub = o.sub \/ o.sub
            /\ s[1].masked = o.masked
                 \/ s[1].masked = (o.masked /\ WalkFn(s, o) = "DeleteFolderContents")
            /\ s[1].fn = WalkFn(s, o) /\ s[1].term = (o.term /\ ~Deleting(s, o))
        BY <1>2, <3>1 DEF Called
      <3>4. o.sub
        BY <3>2, <3>3 DEF SameCall
      <3>5. new.masked = (o.masked /\ WalkFn(s, o) = "DeleteFolderContents")
        BY <3>3 DEF SameCall
      <3>6. new.fn = WalkFn(s, o) /\ new.term = (o.term /\ ~Deleting(s, o))
        BY <3>3 DEF SameCall
      <3>7. s2[i] = new /\ s2[i + 1] = f /\ i < Top(s2, o)
        BY <1>1, <1>2, <2>1
      <3>8. ~(i = Top(s2, o)) /\ new.dir = f.cur /\ f.cur # Src
        BY <3>2, <3>7
      <3>9. Called(s2, o, i)
        BY <1>4, <3>4, <3>5, <3>6, <3>7, <3>8, Zenon DEF Called
      <3> QED
        BY <2>1, <3>7, <3>9
    <2>2. CASE i = 2
      <3>1. Called(s, o, 1)
        BY <1>2 DEF Shape
      <3>2. s2[i] = f /\ (1 < Top(s, o) => i < Top(s2, o) /\ s2[i + 1] = s[2])
        BY <1>1, <1>2, <2>2
      <3>3. (i = Top(s2, o) <=> 1 = Top(s, o)) /\ (i < Top(s2, o) <=> 1 < Top(s, o))
        BY <1>2, <2>2
      <3>4. f.fn = WalkFn(s, o) /\ f.term = (o.term /\ ~Deleting(s, o))
        BY <3>1 DEF Called, SameCall
      <3>5. 1 = Top(s, o) => f.dir = Src /\ f.sub = o.sub /\ f.masked = o.masked
        BY <3>1 DEF Called, SameCall
      <3>6. 1 < Top(s, o) => f.dir = s[2].cur /\ f.dir # Src /\ Plain[f.dir] /\ o.sub /\ f.sub
        BY <3>1 DEF Called, SameCall
      <3>7. 1 < Top(s, o) =>
              f.masked = (o.masked /\ WalkFn(s, o) = "DeleteFolderContents")
        BY <3>1 DEF Called, SameCall
      <3>8. Called(s2, o, i)
        BY <1>4, <3>2, <3>3, <3>4, <3>5, <3>6, <3>7, Zenon DEF Called
      <3> QED
        BY <2>2, <3>2, <3>8
    <2>3. CASE i > 2
      <3>1. i - 1 \in 1 .. Top(s, o) /\ i - 1 > 1
        BY <1>2, <1>5, <2>3
      <3>2. Called(s, o, i - 1) /\ Turn(s[i - 1]) /\ s[i - 1].pc = "back"
        BY <3>1 DEF Shape
      <3>3. s2[i] = s[i - 1] /\ (i - 1 < Top(s, o) => s2[i + 1] = s[i])
        BY <1>1, <1>2, <3>1
      <3>4. (i - 1) + 1 = i
        BY <1>5
      <3> QED
        BY <1>2, <1>4, <1>5, <3>2, <3>3, <3>4 DEF Called
    <2> QED
      BY <1>2, <1>5, <2>1, <2>2, <2>3
  <1>6. o.name # "none" /\ (o.name \in Callers => Bottom(s2[Len(s2)], o))
    BY <1>1, <1>3 DEF Shape
  <1> QED
    BY <1>2, <1>4, <1>5, <1>6 DEF Shape

LEMMA ReturnShape ==
  ASSUME NEW s \in Seq(Frames), s # << >>, NEW o \in CallsOf, Shape(s, o), Top(s, o) >= 1
  PROVE  /\ Shape(Tail(s), o)
         /\ Tail(s) # << >> => /\ Top(Tail(s), o) = Top(s, o) - 1
                               /\ WalkFn(Tail(s), o) = WalkFn(s, o)
                               /\ Deleting(Tail(s), o) = Deleting(s, o)
  <1> DEFINE s2 == Tail(s)
  <1>1. SUFFICES ASSUME s2 # << >>
                 PROVE  /\ Shape(s2, o) /\ Top(s2, o) = Top(s, o) - 1
                        /\ WalkFn(s2, o) = WalkFn(s, o) /\ Deleting(s2, o) = Deleting(s, o)
    BY DEF Shape
  <1>2. /\ Len(s2) = Len(s) - 1 /\ Len(s) \in Nat /\ Len(s) > 1
        /\ \A i \in 1 .. Len(s) - 1 : s2[i] = s[i + 1]
    BY <1>1, ReturnStack
  <1> HIDE DEF s2
  <1>3. Top(s2, o) = Top(s, o) - 1 /\ Top(s, o) \in Nat /\ Top(s, o) <= Len(s)
    BY <1>2 DEF Top
  <1>4. s2[Len(s2)] = s[Len(s)]
    BY <1>2
  <1>5. Deleting(s2, o) = Deleting(s, o) /\ WalkFn(s2, o) = WalkFn(s, o)
    BY <1>4 DEF Deleting, WalkFn
  <1>6. ASSUME NEW i \in 1 .. Top(s2, o)
        PROVE  Called(s2, o, i) /\ Turn(s2[i]) /\ (i > 1 => s2[i].pc = "back")
    <2>1. i + 1 \in 1 .. Top(s, o) /\ i + 1 > 1
      BY <1>3, <1>6
    <2>2. Called(s, o, i + 1) /\ Turn(s[i + 1]) /\ s[i + 1].pc = "back"
      BY <1>1, <1>2, <2>1 DEF Shape
    <2>3. s2[i] = s[i + 1] /\ (i + 1 < Top(s, o) => s2[i + 1] = s[(i + 1) + 1])
      BY <1>2, <1>3, <2>1
    <2> QED
      BY <1>3, <1>5, <1>6, <2>2, <2>3 DEF Called
  <1>7. o.name # "none" /\ (o.name \in Callers => Bottom(s2[Len(s2)], o))
    BY <1>2, <1>4 DEF Shape
  <1> QED
    BY <1>3, <1>5, <1>6, <1>7 DEF Shape

-----------------------------------------------------------------------------
(* The running function. *)

LEMMA WalkerRuns ==
  ASSUME TInv, stack # << >>, Fr.fn \in Walkers
  PROVE  /\ Top(stack, op) \in Nat /\ Top(stack, op) >= 1
         /\ Fr = stack[1] /\ Fr \in Frames /\ Called(stack, op, 1) /\ Turn(Fr)
         /\ Fr.fn = WalkFn(stack, op)
  <1>1. /\ Fr = stack[1] /\ Fr \in Frames /\ stack \in Seq(Frames) /\ Len(stack) \in Nat \ {0}
        /\ Shape(stack, op)
    BY ReturnStack DEF TInv, Fr
  <1>2. Top(stack, op) \in Nat
    BY <1>1 DEF Top
  <1>3. Top(stack, op) >= 1
    <2>1. SUFFICES ASSUME Top(stack, op) = 0 PROVE FALSE
      BY <1>2
    <2>2. op.name \in Callers /\ Len(stack) = 1
      BY <1>1, <2>1 DEF Top
    <2>3. Fr.fn = op.name
      BY <1>1, <2>2 DEF Shape, Bottom
    <2> QED
      BY <2>2, <2>3 DEF Callers, Walkers
  <1>4. Called(stack, op, 1) /\ Turn(stack[1])
    BY <1>1, <1>2, <1>3 DEF Shape
  <1>5. Fr.fn = WalkFn(stack, op)
    BY <1>1, <1>4 DEF Called
  <1> QED
    BY <1>1, <1>2, <1>3, <1>4, <1>5

LEMMA CallerRuns ==
  ASSUME TInv, stack # << >>, Fr.fn \in Callers
  PROVE  /\ Fr = stack[1] /\ Fr \in Frames /\ Len(stack) = 1 /\ Tail(stack) = << >>
         /\ op.name \in Callers /\ Bottom(Fr, op) /\ op.name = Fr.fn /\ Top(stack, op) = 0
  <1>1. /\ Fr = stack[1] /\ Fr \in Frames /\ stack \in Seq(Frames) /\ Len(stack) \in Nat \ {0}
        /\ Shape(stack, op)
    BY ReturnStack DEF TInv, Fr
  <1>2. Top(stack, op) \in Nat
    BY <1>1 DEF Top
  <1>3. Top(stack, op) = 0
    <2>1. SUFFICES ASSUME Top(stack, op) >= 1 PROVE FALSE
      BY <1>2
    <2>2. Called(stack, op, 1)
      BY <1>1, <1>2, <2>1 DEF Shape
    <2> QED
      BY <1>1, <2>2 DEF Called, WalkFn, Walkers, Callers
  <1>4. op.name \in Callers /\ Len(stack) = 1
    BY <1>1, <1>3 DEF Top
  <1>5. Bottom(Fr, op)
    BY <1>1, <1>4 DEF Shape
  <1>6. Tail(stack) = << >>
    BY <1>1, <1>4, ReturnStack
  <1> QED
    BY <1>1, <1>3, <1>4, <1>5, <1>6 DEF Bottom

\* Frame g with the rest t of the listing and the result r.
Update(f, g, t, r) ==
  /\ f \in Frames /\ SameCall(f, g) /\ f.pc = g.pc /\ f.pass = g.pass /\ f.cur = g.cur
  /\ f.todo = t /\ f.res = r

LEMMA SameFrame == ASSUME Fr \in Frames PROVE Update(Fr, Fr, Fr.todo, Fr.res)
  BY DEF Update, SameCall, Frames

LEMMA ResultFrame ==
  ASSUME Fr \in Frames, NEW r \in BOOLEAN PROVE Update([Fr EXCEPT !.res = r], Fr, Fr.todo, r)
  BY DEF Update, SameCall, Frames

LEMMA RestFrame ==
  ASSUME Fr \in Frames, NEW e PROVE Update(Rest(e), Fr, Fr.todo \ {e}, Fr.res)
  BY DEF Update, SameCall, Frames, Rest

LEMMA ItemFrame ==
  ASSUME Fr \in Frames, NEW e, NEW r \in BOOLEAN
  PROVE  Update([Rest(e) EXCEPT !.res = r], Fr, Fr.todo \ {e}, r)
  BY DEF Update, SameCall, Frames, Rest

\* Frame g as it goes on with the loop of its pass.
Looping(f, g, t, r) ==
  /\ f \in Frames /\ SameCall(f, g) /\ f.pc = "loop" /\ f.pass = g.pass
  /\ f.todo = (IF r THEN t ELSE {}) /\ f.res = r

\* A walker comes to the end of its loop body: it is stopped, or it goes on.
LEMMA NextItemTakes ==
  ASSUME TInv, stack # << >>, Fr.fn \in Walkers, Fr.pc \in {"loop", "back"},
         NEW f, NEW t \in SUBSET Fr.todo, NEW r \in BOOLEAN, Update(f, Fr, t, r), NextItem(f)
  PROVE  /\ signalled' \in BOOLEAN
         /\ \/ Stopped /\ Return(FALSE)
            \/ /\ ~Stopped /\ UNCHANGED ret
               /\ \E g : Looping(g, Fr, t, r) /\ Turn(g) /\ stack' = <<g>> \o Tail(stack)
  <1>1. signalled' \in BOOLEAN
    BY DEF NextItem, Looked, TInv
  <1>2. Stopped => Return(FALSE)
    BY DEF NextItem
  <1>3. ASSUME ~Stopped
        PROVE  \E g : Looping(g, Fr, t, r) /\ Turn(g) /\ stack' = <<g>> \o Tail(stack)
    <2> DEFINE g == [f EXCEPT !.pc = "loop", !.todo = IF f.res THEN f.todo ELSE {}]
    <2>1. f \in Frames /\ f.res = r /\ f.todo = t /\ SameCall(f, Fr) /\ f.pass = Fr.pass
      BY DEF Update
    <2>2. Looping(g, Fr, t, r)
      BY <2>1 DEF Looping, SameCall, Frames
    <2>3. stack' = <<g>> \o Tail(stack)
      BY <1>3 DEF NextItem, Become
    <2> HIDE DEF g
    <2>4. g.todo \subseteq Fr.todo /\ g.pc = "loop" /\ g.pass = Fr.pass /\ SameCall(g, Fr)
      BY <2>2 DEF Looping
    <2>5. PassesOf(g) = PassesOf(Fr) /\ g.dir = Fr.dir /\ g.masked = Fr.masked
      BY <2>4 DEF SameCall, PassesOf
    <2>6. Turn(Fr) /\ Fr \in Frames
      BY WalkerRuns
    <2>7. Fr.pass < PassesOf(Fr)
      BY <2>6 DEF Turn, Frames, PassesOf
    <2>8. Turn(g)
      BY <2>4, <2>5, <2>6, <2>7 DEF Turn
    <2> QED
      BY <2>2, <2>3, <2>8
  <1> QED
    BY <1>1, <1>2, <1>3 DEF NextItem, Become

-----------------------------------------------------------------------------
(* The types, and the shape of the stack. *)

StackTyped(s) == s \in Seq(Frames) /\ Shape(s, op)

\* The walkers of a call go on as what they are.
Kept(s) ==
  s # << >> => /\ WalkFn(s, op) = WalkFn(stack, op)
               /\ Deleting(s, op) = Deleting(stack, op)

LEMMA WalkerMoves ==
  ASSUME TInv, stack # << >>, Fr.fn \in Walkers,
         \/ \E r \in BOOLEAN : Return(r)
         \/ /\ UNCHANGED ret
            /\ \E g \in Frames : SameCall(g, Fr) /\ Turn(g) /\ stack' = <<g>> \o Tail(stack)
  PROVE  StackTyped(stack') /\ Kept(stack') /\ ret' \in BOOLEAN
  <1>1. Top(stack, op) >= 1 /\ Fr = stack[1]
    BY WalkerRuns
  <1>2. stack \in Seq(Frames) /\ op \in CallsOf /\ Shape(stack, op) /\ ret \in BOOLEAN
    BY DEF TInv
  <1>3. ASSUME NEW r \in BOOLEAN, Return(r)
        PROVE  StackTyped(stack') /\ Kept(stack') /\ ret' \in BOOLEAN
    <2>1. stack' = Tail(stack) /\ ret' = r
      BY <1>3 DEF Return
    <2>2. Tail(stack) \in Seq(Frames) /\ Shape(Tail(stack), op) /\ Kept(Tail(stack))
      BY <1>1, <1>2, ReturnStack, ReturnShape DEF Kept
    <2> QED
      BY <2>1, <2>2 DEF StackTyped
  <1>4. ASSUME NEW g \in Frames, UNCHANGED ret, SameCall(g, Fr), Turn(g),
               stack' = <<g>> \o Tail(stack)
        PROVE  StackTyped(stack') /\ Kept(stack') /\ ret' \in BOOLEAN
    <2> DEFINE s2 == stack'
    <2>1. s2 \in Seq(Frames)
      BY <1>2, <1>4, BecomeStack
    <2>2. Shape(s2, op) /\ Kept(s2)
      BY <1>1, <1>2, <1>4, BecomeShape DEF Kept
    <2> QED
      BY <1>2, <1>4, <2>1, <2>2 DEF StackTyped
  <1> QED
    BY <1>3, <1>4

LEMMA ItemTyped ==
  ASSUME TInv, stack # << >>, Fr.fn \in Walkers, Fr.pc \in {"loop", "back"},
         NEW f, NEW t \in SUBSET Fr.todo, NEW r \in BOOLEAN, Update(f, Fr, t, r), NextItem(f)
  PROVE  StackTyped(stack') /\ Kept(stack') /\ ret' \in BOOLEAN /\ signalled' \in BOOLEAN
  <1>1. signalled' \in BOOLEAN
    BY NextItemTakes
  <1>2. CASE Stopped /\ Return(FALSE)
    BY <1>1, <1>2, WalkerMoves
  <1>3. ASSUME NEW g, UNCHANGED ret, Looping(g, Fr, t, r), Turn(g), stack' = <<g>> \o Tail(stack)
        PROVE  StackTyped(stack') /\ Kept(stack') /\ ret' \in BOOLEAN
    BY <1>3, WalkerMoves DEF Looping
  <1> QED
    BY <1>1, <1>2, <1>3, NextItemTakes

\* A walker goes on to its next pass, or to the listing of one.
LEMMA PassFrame ==
  ASSUME TInv, stack # << >>, Fr.fn \in Walkers, Fr.pc = "enter",
         Become([Fr EXCEPT !.pc = "pass"])
  PROVE  /\ UNCHANGED ret
         /\ \E g \in Frames : /\ SameCall(g, Fr) /\ Turn(g) /\ stack' = <<g>> \o Tail(stack)
                              /\ g.pc = "pass" /\ g.pass = 0 /\ g.res
  <1> DEFINE g == [Fr EXCEPT !.pc = "pass"]
  <1>1. Fr \in Frames /\ Turn(Fr)
    BY WalkerRuns
  <1>2. /\ g \in Frames /\ SameCall(g, Fr) /\ g.pc = "pass" /\ g.pass = Fr.pass /\ g.res = Fr.res
        /\ g.todo = Fr.todo
    BY <1>1 DEF SameCall, Frames
  <1>3. stack' = <<g>> \o Tail(stack) /\ UNCHANGED ret
    BY DEF Become
  <1> HIDE DEF g
  <1>4. g.pass = 0 /\ g.res
    BY <1>1, <1>2 DEF Turn
  <1>5. Turn(g)
    BY <1>1, <1>2, <1>4 DEF Turn, SameCall, PassesOf
  <1> QED
    BY <1>2, <1>3, <1>4, <1>5

LEMMA ListingFrame ==
  ASSUME TInv, stack # << >>, Fr.fn \in Walkers, Fr.pc = "pass", Fr.pass # Passes,
         Become([Fr EXCEPT !.pc = "loop", !.todo = Listing])
  PROVE  /\ UNCHANGED ret
         /\ \E g \in Frames : /\ SameCall(g, Fr) /\ Turn(g) /\ stack' = <<g>> \o Tail(stack)
                              /\ g.pc = "loop" /\ g.pass = Fr.pass /\ g.res = Fr.res
                              /\ g.todo = Listing
  <1> DEFINE g == [Fr EXCEPT !.pc = "loop", !.todo = Listing]
  <1>1. Fr \in Frames /\ Turn(Fr)
    BY WalkerRuns
  <1>2. /\ Listing \subseteq Items \cup {Dot}
        /\ \A e \in Listing : e # Dot => Parent[e] = Fr.dir
        /\ Fr.masked /\ Fr.pass = 0 => Listing \subseteq Matching
    BY DEF Listing, Here
  <1>3. /\ g \in Frames /\ SameCall(g, Fr) /\ g.pc = "loop" /\ g.pass = Fr.pass /\ g.res = Fr.res
        /\ g.todo = Listing
    BY <1>1, <1>2 DEF SameCall, Frames
  <1>4. stack' = <<g>> \o Tail(stack) /\ UNCHANGED ret
    BY DEF Become
  <1> HIDE DEF g
  <1>5. Fr.pass < PassesOf(Fr)
    BY <1>1 DEF Turn, Passes, PassesOf, Frames
  <1>6. Turn(g)
    BY <1>1, <1>2, <1>3, <1>5 DEF Turn, SameCall, PassesOf
  <1> QED
    BY <1>3, <1>4, <1>6

LEMMA BrokenFrame ==
  ASSUME TInv, stack # << >>, Fr.fn \in Walkers, Fr.pc = "loop",
         Become([Fr EXCEPT !.todo = {}])
  PROVE  /\ UNCHANGED ret
         /\ \E g \in Frames : /\ SameCall(g, Fr) /\ Turn(g) /\ stack' = <<g>> \o Tail(stack)
                              /\ g.pc = "loop" /\ g.pass = Fr.pass /\ g.res = Fr.res
                              /\ g.todo = {}
  <1> DEFINE g == [Fr EXCEPT !.todo = {}]
  <1>1. Fr \in Frames /\ Turn(Fr)
    BY WalkerRuns
  <1>2. /\ g \in Frames /\ SameCall(g, Fr) /\ g.pc = "loop" /\ g.pass = Fr.pass /\ g.res = Fr.res
        /\ g.todo = {}
    BY <1>1 DEF SameCall, Frames
  <1>3. stack' = <<g>> \o Tail(stack) /\ UNCHANGED ret
    BY DEF Become
  <1> HIDE DEF g
  <1>4. Turn(g)
    BY <1>1, <1>2 DEF Turn, SameCall, PassesOf
  <1> QED
    BY <1>2, <1>3, <1>4

LEMMA EndPassFrame ==
  ASSUME TInv, stack # << >>, Fr.fn \in Walkers, Fr.pc = "loop",
         Become([Fr EXCEPT !.pc = "pass", !.pass = Fr.pass + 1])
  PROVE  /\ UNCHANGED ret
         /\ \E g \in Frames : /\ SameCall(g, Fr) /\ Turn(g) /\ stack' = <<g>> \o Tail(stack)
                              /\ g.pc = "pass" /\ g.pass = Fr.pass + 1 /\ g.res = Fr.res
  <1> DEFINE g == [Fr EXCEPT !.pc = "pass", !.pass = Fr.pass + 1]
  <1>1. Fr \in Frames /\ Turn(Fr)
    BY WalkerRuns
  <1>2. Fr.pass \in 0 .. 2 /\ Fr.pass + 1 <= PassesOf(Fr) /\ Fr.pass + 1 \in 0 .. 2
    BY <1>1 DEF Turn, PassesOf, Frames
  <1>3. /\ g \in Frames /\ SameCall(g, Fr) /\ g.pc = "pass" /\ g.pass = Fr.pass + 1
        /\ g.res = Fr.res /\ g.todo = Fr.todo
    BY <1>1, <1>2 DEF SameCall, Frames
  <1>4. stack' = <<g>> \o Tail(stack) /\ UNCHANGED ret
    BY DEF Become
  <1> HIDE DEF g
  <1>5. Turn(g)
    BY <1>1, <1>2, <1>3 DEF Turn, SameCall, PassesOf
  <1> QED
    BY <1>3, <1>4, <1>5

\* A walker calls itself for a folder of its listing.
LEMMA DescendFrames ==
  ASSUME TInv, NEW e \in Dirs, Listed(e), Wanted(e),
         Call([Rest(e) EXCEPT !.pc = "back", !.cur = e], SubFrame(e))
  PROVE  /\ stack # << >> /\ Fr.fn \in Walkers /\ Fr.pc = "loop" /\ UNCHANGED ret
         /\ e \in Items /\ Parent[e] = Fr.dir /\ e \in Fr.todo
         /\ e \notin Dotted /\ Dot \notin Fr.todo
         /\ Plain[e]
         /\ \E f \in Frames, new \in Frames :
              /\ stack' = <<new, f>> \o Tail(stack)
              /\ SameCall(f, Fr) /\ Turn(f) /\ f.pc = "back" /\ f.pass = Fr.pass /\ f.res = Fr.res
              /\ f.todo = Fr.todo \ {e} /\ f.cur = e
              /\ Turn(new) /\ new.pc = "enter" /\ new.fn = f.fn /\ new.dir = e /\ new.term = f.term
              /\ new.sub /\ new.masked = (f.masked /\ f.fn = "DeleteFolderContents")
  <1> DEFINE f   == [Rest(e) EXCEPT !.pc = "back", !.cur = e]
             new == SubFrame(e)
  <1>1. stack # << >> /\ Fr.fn \in Walkers /\ Fr.pc = "loop" /\ e \in Fr.todo
    BY DEF Listed, Walking, Walkers
  <1>2. /\ Fr \in Frames /\ Turn(Fr) /\ Called(stack, op, 1) /\ Top(stack, op) >= 1
        /\ Top(stack, op) \in Nat /\ Fr = stack[1]
    BY <1>1, WalkerRuns
  <1>3. e # Dot /\ e \notin Dotted /\ Fr.sub /\ Fr.pass = PassesOf(Fr) - 1
    BY DEF Wanted, Passes, PassesOf
  <1>4. e \in Items \cap (Dirs \ {Src})
    BY <1>1, <1>2, <1>3, Tree DEF Frames, Items
  <1>5. Parent[e] = Fr.dir
    BY <1>1, <1>2, <1>3 DEF Turn
  <1>6. Plain[Fr.dir]
    <2>1. Plain[Src]
      BY PlainUnfolds
    <2> QED
      BY <1>2, <2>1 DEF Called
  <1>7. Plain[e]
    BY <1>3, <1>4, <1>5, <1>6, PlainUnfolds
  <1>8. /\ f \in Frames /\ SameCall(f, Fr) /\ f.pc = "back" /\ f.pass = Fr.pass /\ f.res = Fr.res
        /\ f.todo = Fr.todo \ {e} /\ f.cur = e
    BY <1>2 DEF SameCall, Frames, Rest
  <1>9. /\ new \in Frames /\ new.pc = "enter" /\ new.fn = Fr.fn /\ new.dir = e /\ new.term = Fr.term
        /\ new.sub /\ new.masked = (Fr.masked /\ Fr.fn = "DeleteFolderContents")
        /\ new.todo = {} /\ new.pass = 0 /\ new.res
    BY <1>2 DEF Frames, SubFrame, Frame
  <1>10. stack' = <<new, f>> \o Tail(stack) /\ UNCHANGED ret
    BY DEF Call
  <1> HIDE DEF f, new
  <1>11. PassesOf(f) = PassesOf(Fr) /\ f.dir = Fr.dir /\ f.sub = Fr.sub /\ f.masked = Fr.masked
    BY <1>8 DEF SameCall, PassesOf
  <1>12. Turn(f)
    <2>1. \A x \in f.todo : x # Dot => Parent[x] = f.dir
      BY <1>2, <1>8, <1>11 DEF Turn
    <2>2. f.masked /\ f.pass = 0 => f.todo \subseteq Matching
      BY <1>1, <1>2, <1>8, <1>11 DEF Turn
    <2>3. /\ f.pass = PassesOf(f) - 1 /\ f.sub
          /\ f.cur \in Dirs \ {Src} /\ Parent[f.cur] = f.dir /\ f.cur \notin Dotted
      BY <1>3, <1>4, <1>5, <1>8, <1>11
    <2> QED
      BY <1>8, <2>1, <2>2, <2>3 DEF Turn
  <1>13. Turn(new)
    BY <1>9 DEF Turn
  <1>14. new.fn = f.fn /\ new.term = f.term
         /\ new.masked = (f.masked /\ f.fn = "DeleteFolderContents")
    BY <1>8, <1>9 DEF SameCall
  <1>15. Dot \notin Fr.todo
    BY <1>3 DEF Listed
  <1> QED
    BY <1>1, <1>3, <1>4, <1>5, <1>7, <1>8, <1>9, <1>10, <1>12, <1>13, <1>14, <1>15

LEMMA DescendKept ==
  ASSUME TInv, NEW e \in Dirs, Listed(e), Wanted(e),
         Call([Rest(e) EXCEPT !.pc = "back", !.cur = e], SubFrame(e))
  PROVE  StackTyped(stack') /\ Kept(stack') /\ UNCHANGED ret
  <1>1. PICK f \in Frames, new \in Frames :
              /\ stack' = <<new, f>> \o Tail(stack)
              /\ SameCall(f, Fr) /\ Turn(f) /\ f.pc = "back" /\ f.pass = Fr.pass /\ f.res = Fr.res
              /\ f.todo = Fr.todo \ {e} /\ f.cur = e
              /\ Turn(new) /\ new.pc = "enter" /\ new.fn = f.fn /\ new.dir = e /\ new.term = f.term
              /\ new.sub /\ new.masked = (f.masked /\ f.fn = "DeleteFolderContents")
    BY DescendFrames
  <1>2. stack # << >> /\ Fr.fn \in Walkers /\ UNCHANGED ret /\ Plain[e]
    BY DescendFrames
  <1>3. Top(stack, op) >= 1 /\ Fr = stack[1]
    BY <1>2, WalkerRuns
  <1>4. SameCall(f, stack[1]) /\ new.dir = f.cur /\ Plain[new.dir]
    BY <1>1, <1>2, <1>3
  <1>5. stack \in Seq(Frames) /\ op \in CallsOf /\ Shape(stack, op)
    BY DEF TInv
  <1> DEFINE s2 == stack'
  <1>6. s2 \in Seq(Frames)
    BY <1>1, <1>2, <1>5, CallStack
  <1>7. s2 = <<new, f>> \o Tail(stack)
    BY <1>1
  <1> HIDE DEF s2
  <1>8. Calls(stack, op, f, new, s2)
    BY <1>1, <1>2, <1>3, <1>4, <1>5, <1>7 DEF Calls
  <1>9. /\ Shape(s2, op) /\ WalkFn(s2, op) = WalkFn(stack, op)
        /\ Deleting(s2, op) = Deleting(stack, op)
    BY <1>8, CallShape
  <1>10. StackTyped(s2) /\ Kept(s2)
    BY <1>6, <1>9 DEF StackTyped, Kept
  <1> QED
    BY <1>2, <1>10 DEF s2
\* A function that the program calls.
LEMMA FirstFrame ==
  ASSUME NEW fn \in Walkers, NEW sub \in BOOLEAN, NEW masked \in BOOLEAN, NEW term \in BOOLEAN,
         NEW f, f = Frame(fn, "enter", Src, sub, masked, term)
  PROVE  /\ f \in Frames /\ Turn(f) /\ f.fn = fn /\ f.pc = "enter" /\ f.dir = Src /\ f.todo = {}
         /\ f.sub = sub /\ f.masked = masked /\ f.term = term /\ f.res /\ f.pass = 0
  BY Tree DEF Frame, Frames, Turn, Walkers

LEMMA CallerFrame ==
  ASSUME NEW fn \in Callers, NEW pc \in {"copied", "deleted", "emptied"},
         NEW sub \in BOOLEAN, NEW masked \in BOOLEAN, NEW term \in BOOLEAN,
         NEW f, f = Frame(fn, pc, Src, sub, masked, term)
  PROVE  /\ f \in Frames /\ f.fn = fn /\ f.pc = pc /\ f.dir = Src /\ f.todo = {}
         /\ f.sub = sub /\ f.masked = masked
  BY Tree DEF Frame, Frames, Callers

LEMMA OneShape ==
  ASSUME NEW f \in Frames, Turn(f), NEW o \in CallsOf, o.name \in Walkers,
         f.fn = o.name, f.dir = Src, f.sub = o.sub, f.masked = o.masked, f.term = o.term
  PROVE  <<f>> \in Seq(Frames) /\ Shape(<<f>>, o)
  <1> DEFINE s == <<f>>
  <1>1. s \in Seq(Frames) /\ Len(s) = 1 /\ s[1] = f /\ s # << >>
    OBVIOUS
  <1> HIDE DEF s
  <1>2. Top(s, o) = 1 /\ o.name # "none" /\ o.name \notin Callers
    BY <1>1 DEF Top, Callers, Walkers
  <1>3. ~Deleting(s, o) /\ WalkFn(s, o) = o.name
    BY <1>2 DEF Deleting, WalkFn, Callers, Walkers
  <1>4. Called(s, o, 1)
    BY <1>1, <1>2, <1>3 DEF Called, CallsOf
  <1>5. \A i \in 1 .. Top(s, o) : i = 1
    BY <1>2
  <1>6. Shape(s, o)
    BY <1>1, <1>2, <1>4, <1>5 DEF Shape
  <1> QED
    BY <1>1, <1>6 DEF s

LEMMA TwoShape ==
  ASSUME NEW f \in Frames, Turn(f), NEW b \in Frames, NEW o \in CallsOf, o.name \in Callers,
         Bottom(b, o), f.dir = Src, f.sub = o.sub, f.masked = o.masked,
         b.pc = "copied" => f.fn = "CopyFolder" /\ f.term = o.term,
         b.pc = "deleted" => f.fn = "DeleteFolderContents" /\ f.term = FALSE,
         b.pc = "emptied" => f.fn = "DeleteFolderContents" /\ f.term = o.term
  PROVE  /\ <<f, b>> \in Seq(Frames) /\ Shape(<<f, b>>, o) /\ Top(<<f, b>>, o) = 1
         /\ Deleting(<<f, b>>, o) <=> b.pc = "deleted"
  <1> DEFINE s == <<f, b>>
  <1>1. s \in Seq(Frames) /\ Len(s) = 2 /\ s[1] = f /\ s[2] = b /\ s # << >>
    OBVIOUS
  <1> HIDE DEF s
  <1>2. Top(s, o) = 1 /\ o.name # "none"
    BY <1>1 DEF Top, Callers
  <1>3. Deleting(s, o) <=> b.pc = "deleted"
    BY <1>1 DEF Deleting, Bottom
  <1>4. f.fn = WalkFn(s, o)
    BY <1>1, <1>3 DEF Bottom, WalkFn, Callers
  <1>5. f.term = (o.term /\ ~Deleting(s, o))
    <2>1. b.pc \in {"copied", "deleted", "emptied"} /\ o.term \in BOOLEAN
      BY DEF Bottom, CallsOf
    <2>2. CASE b.pc = "deleted"
      BY <1>3, <2>2
    <2>3. CASE b.pc # "deleted"
      <3>1. f.term = o.term
        BY <2>1, <2>3
      <3>2. Deleting(s, o) = FALSE
        BY <1>3, <2>3 DEF Deleting
      <3> QED
        BY <2>1, <3>1, <3>2
    <2> QED
      BY <2>2, <2>3
  <1>6. Called(s, o, 1)
    <2>1. ~(1 < Top(s, o))
      BY <1>2
    <2> QED
      BY <1>1, <1>2, <1>4, <1>5, <2>1, Zenon DEF Called
  <1>7. \A i \in 1 .. Top(s, o) : i = 1
    BY <1>2
  <1>8. Shape(s, o)
    BY <1>1, <1>2, <1>6, <1>7 DEF Shape
  <1>9. s = <<f, b>>
    BY DEF s
  <1> QED
    BY <1>1, <1>2, <1>3, <1>8, <1>9

LEMMA BeginTyped ==
  ASSUME TInv, NEW name \in Walkers \cup Callers,
         NEW sub \in BOOLEAN, NEW masked \in BOOLEAN, NEW term \in BOOLEAN,
         Begin(name, sub, masked, term),
         stack' \in Seq(Frames), Shape(stack', op')
  PROVE  TInv'
  <1>1. op' \in CallsOf
    BY DEF Begin, CallsOf
  <1>2. signalled' \in BOOLEAN /\ asked' \in BOOLEAN
    BY DEF Begin
  <1> QED
    BY <1>1, <1>2 DEF TInv, Begin, kind

LEMMA TInit == Init => TInv
  <1> SUFFICES ASSUME Init PROVE TInv
    OBVIOUS
  <1>1. << >> \in Seq(Frames)
    OBVIOUS
  <1>2. stack \in Seq(Frames) /\ Shape(stack, op)
    BY <1>1 DEF Init, Shape
  <1>3. op \in CallsOf
    BY DEF Init, CallsOf
  <1>4. /\ src \subseteq Files \cup Dirs /\ dst \subseteq Files \cup Dirs
        /\ start \subseteq Files \cup Dirs
        /\ unread \subseteq Items
    BY DEF Init
  <1>5. /\ ret \in BOOLEAN /\ signalled \in BOOLEAN /\ autoReset \in BOOLEAN /\ atRoot \in BOOLEAN
        /\ asked \in BOOLEAN
    BY Zenon DEF Init
  <1>6. after \in 0 .. 2
    BY DEF Init
  <1> QED
    BY <1>2, <1>3, <1>4, <1>5, <1>6 DEF TInv

LEMMA HandledTyped == ASSUME after \in 0 .. 2, Handled PROVE after' \in 0 .. 2
  BY DEF Handled

\* The rest of TInv': the variables that a walker's step may change besides the stack.
LEMMA WalkerTyped ==
  ASSUME TInv, StackTyped(stack'), UNCHANGED op, ret' \in BOOLEAN, signalled' \in BOOLEAN,
         UNCHANGED <<kind, start, asked>>, unread' \subseteq Items, after' \in 0 .. 2,
         src' \subseteq Files \cup Dirs, dst' \subseteq Files \cup Dirs
  PROVE  TInv'
  BY DEF TInv, StackTyped, kind

WalkerAction ==
  \/ EnterCopy \/ EnterDelete \/ StartPass \/ SearchFails \/ EndPass
  \/ SkipItem \/ CopyFile \/ DeleteFile \/ Descend \/ Copied \/ Deleted

\* Every step of a walker keeps the shape of the stack.
LEMMA WalkerKept ==
  ASSUME TInv, WalkerAction
  PROVE  /\ stack # << >> /\ Fr.fn \in Walkers /\ StackTyped(stack') /\ Kept(stack')
         /\ ret' \in BOOLEAN /\ signalled' \in BOOLEAN
  <1>0. ret \in BOOLEAN /\ signalled \in BOOLEAN
    BY DEF TInv
  <1> DEFINE Goal == /\ stack # << >> /\ Fr.fn \in Walkers /\ StackTyped(stack') /\ Kept(stack')
                     /\ ret' \in BOOLEAN /\ signalled' \in BOOLEAN
  <1>1. CASE EnterCopy \/ EnterDelete
    <2>1. stack # << >> /\ Fr.fn \in Walkers /\ Fr.pc = "enter"
      BY <1>1 DEF EnterCopy, EnterDelete, Running, Walkers
    <2>2. signalled' \in BOOLEAN
      BY <1>0, <1>1 DEF EnterCopy, EnterDelete, NotLooked, Looked
    <2>3. Return(TRUE) \/ Return(FALSE) \/ Become([Fr EXCEPT !.pc = "pass"])
      BY <1>1 DEF EnterCopy, EnterDelete
    <2> QED
      BY <2>1, <2>2, <2>3, PassFrame, WalkerMoves
  <1>2. CASE StartPass
    <2>1. stack # << >> /\ Fr.fn \in Walkers /\ Fr.pc = "pass" /\ signalled' = signalled
      BY <1>2 DEF StartPass, Walking, Walkers
    <2>2. Fr.res \in BOOLEAN
      BY <2>1, WalkerRuns DEF Frames
    <2> QED
      BY <1>0, <1>2, <2>1, <2>2, ListingFrame, WalkerMoves DEF StartPass
  <1>3. CASE EndPass
    <2>1. stack # << >> /\ Fr.fn \in Walkers /\ Fr.pc = "loop" /\ signalled' = signalled
      BY <1>3 DEF EndPass, Walking, Walkers
    <2> QED
      BY <1>0, <1>3, <2>1, EndPassFrame, WalkerMoves DEF EndPass
  <1>4. CASE SkipItem
    <2>1. PICK e \in Files \cup Dirs \cup {Dot} : Listed(e) /\ NextItem(Rest(e))
      BY <1>4 DEF SkipItem
    <2>2. stack # << >> /\ Fr.fn \in Walkers /\ Fr.pc = "loop"
      BY <2>1 DEF Listed, Walking, Walkers
    <2>3. Update(Rest(e), Fr, Fr.todo \ {e}, Fr.res) /\ Fr.res \in BOOLEAN
      BY <2>2, WalkerRuns, RestFrame DEF Frames
    <2> QED
      BY <2>1, <2>2, <2>3, ItemTyped
  <1>5. CASE CopyFile \/ DeleteFile
    <2>1. PICK e \in Files, ok \in BOOLEAN : Listed(e) /\ NextItem([Rest(e) EXCEPT !.res = ok])
      BY <1>5 DEF CopyFile, DeleteFile
    <2>2. stack # << >> /\ Fr.fn \in Walkers /\ Fr.pc = "loop"
      BY <2>1 DEF Listed, Walking, Walkers
    <2>3. Update([Rest(e) EXCEPT !.res = ok], Fr, Fr.todo \ {e}, ok)
      <3>1. Fr \in Frames
        BY <2>2, WalkerRuns
      <3> QED
        BY <3>1, ItemFrame
    <2> QED
      BY <2>1, <2>2, <2>3, ItemTyped
  <1>6. CASE Descend
    <2>1. PICK e \in Dirs : /\ Listed(e) /\ Wanted(e)
                            /\ Call([Rest(e) EXCEPT !.pc = "back", !.cur = e], SubFrame(e))
      BY <1>6 DEF Descend
    <2>2. stack # << >> /\ Fr.fn \in Walkers /\ signalled' = signalled
      BY <1>6, <2>1 DEF Descend, Listed, Walking, Walkers
    <2> QED
      BY <1>0, <2>1, <2>2, DescendKept
  <1>7. CASE Copied
    <2>1. stack # << >> /\ Fr.fn \in Walkers /\ Fr.pc = "back" /\ NextItem([Fr EXCEPT !.res = ret])
      BY <1>7 DEF Copied, Running, Walkers
    <2>2. Update([Fr EXCEPT !.res = ret], Fr, Fr.todo, ret)
      BY <1>0, <2>1, WalkerRuns, ResultFrame
    <2> QED
      BY <1>0, <2>1, <2>2, ItemTyped
  <1>8. CASE Deleted
    <2>1. stack # << >> /\ Fr.fn \in Walkers /\ Fr.pc = "back"
      BY <1>8 DEF Deleted, Running, Walkers
    <2>2. Fr \in Frames /\ Fr.res \in BOOLEAN
      BY <2>1, WalkerRuns DEF Frames
    <2>3. CASE NextItem(Fr)
      BY <2>1, <2>2, <2>3, SameFrame, ItemTyped
    <2>4. ASSUME NEW ok \in BOOLEAN, NextItem([Fr EXCEPT !.res = ok]) PROVE Goal
      BY <2>1, <2>2, <2>4, ResultFrame, ItemTyped
    <2> QED
      BY <1>8, <2>3, <2>4 DEF Deleted
  <1>9. CASE SearchFails
    <2>1. stack # << >> /\ Fr.fn \in Walkers /\ Fr.pc = "loop" /\ signalled' = signalled
      BY <1>9 DEF SearchFails, Walking, Walkers
    <2> QED
      BY <1>0, <1>9, <2>1, BrokenFrame, WalkerMoves DEF SearchFails
  <1> QED
    BY <1>1, <1>2, <1>3, <1>4, <1>5, <1>6, <1>7, <1>8, <1>9 DEF WalkerAction

LEMMA TNext == TInv /\ [Next]_vars => TInv'
  <1> SUFFICES ASSUME TInv, [Next]_vars PROVE TInv'
    OBVIOUS
  <1>0. /\ src \subseteq Files \cup Dirs /\ dst \subseteq Files \cup Dirs /\ op \in CallsOf
        /\ unread \subseteq Items
        /\ ret \in BOOLEAN /\ signalled \in BOOLEAN /\ after \in 0 .. 2
        /\ stack \in Seq(Frames) /\ Shape(stack, op)
    BY DEF TInv
  <1>1. ASSUME NEW sub \in BOOLEAN, NEW masked \in BOOLEAN, NEW term \in BOOLEAN,
               CopyFolder(sub, masked, term)
        PROVE  TInv'
    <2>1. op' = [name |-> "CopyFolder", sub |-> sub, masked |-> masked, term |-> term]
      BY <1>1 DEF CopyFolder, Begin
    <2>2. op' \in CallsOf
      BY <2>1 DEF CallsOf, Walkers
    <2>3. stack' \in Seq(Frames) /\ Shape(stack', op')
      BY <1>1, <2>1, <2>2, FirstFrame, OneShape DEF CopyFolder, Walkers
    <2> QED
      BY <1>1, <2>3, BeginTyped DEF CopyFolder, Walkers
  <1>2. ASSUME NEW sub \in BOOLEAN, NEW masked \in BOOLEAN, NEW term \in BOOLEAN,
               DeleteFolderContents(sub, masked, term)
        PROVE  TInv'
    <2>1. op' = [name |-> "DeleteFolderContents", sub |-> sub, masked |-> masked, term |-> term]
      BY <1>2 DEF DeleteFolderContents, Begin
    <2>2. op' \in CallsOf
      BY <2>1 DEF CallsOf, Walkers
    <2>3. stack' \in Seq(Frames) /\ Shape(stack', op')
      BY <1>2, <2>1, <2>2, FirstFrame, OneShape DEF DeleteFolderContents, Walkers
    <2> QED
      BY <1>2, <2>3, BeginTyped DEF DeleteFolderContents, Walkers
  <1>3. ASSUME NEW sub \in BOOLEAN, NEW masked \in BOOLEAN, NEW term \in BOOLEAN,
               MoveFolder(sub, masked, term)
        PROVE  TInv'
    <2>1. op' = [name |-> "MoveFolder", sub |-> sub, masked |-> masked, term |-> term]
      BY <1>3 DEF MoveFolder, Begin
    <2>2. op' \in CallsOf
      BY <2>1 DEF CallsOf, Callers
    <2> DEFINE f == Frame("CopyFolder", "enter", Src, sub, masked, term)
               b == Frame("MoveFolder", "copied", Src, sub, masked, term)
    <2>3. /\ f \in Frames /\ Turn(f) /\ f.fn = "CopyFolder" /\ f.dir = Src /\ f.sub = sub
          /\ f.masked = masked /\ f.term = term
      BY FirstFrame DEF Walkers
    <2>4. /\ b \in Frames /\ b.pc = "copied" /\ b.fn = "MoveFolder" /\ b.dir = Src /\ b.sub = sub
          /\ b.masked = masked /\ b.todo = {}
      BY CallerFrame DEF Callers
    <2>5. stack' = <<f, b>>
      BY <1>3 DEF MoveFolder
    <2> HIDE DEF f, b
    <2>6. Bottom(b, op')
      BY <2>1, <2>4 DEF Bottom
    <2>7. stack' \in Seq(Frames) /\ Shape(stack', op')
      BY <2>1, <2>2, <2>3, <2>4, <2>5, <2>6, TwoShape DEF Callers
    <2> QED
      BY <1>3, <2>7, BeginTyped DEF MoveFolder, Callers
  <1>4. ASSUME NEW term \in BOOLEAN, RemoveFolder(term) PROVE TInv'
    <2>1. op' = [name |-> "RemoveFolder", sub |-> TRUE, masked |-> FALSE, term |-> term]
      BY <1>4 DEF RemoveFolder, Begin
    <2>2. op' \in CallsOf
      BY <2>1 DEF CallsOf, Callers
    <2> DEFINE f == Frame("DeleteFolderContents", "enter", Src, TRUE, FALSE, term)
               b == Frame("RemoveFolder", "emptied", Src, TRUE, FALSE, term)
    <2>3. /\ f \in Frames /\ Turn(f) /\ f.fn = "DeleteFolderContents" /\ f.dir = Src
          /\ f.sub = TRUE /\ f.masked = FALSE /\ f.term = term
      BY Tree DEF Frame, Frames, Turn, Walkers
    <2>4. /\ b \in Frames /\ b.pc = "emptied" /\ b.fn = "RemoveFolder" /\ b.dir = Src
          /\ b.sub = TRUE /\ b.masked = FALSE /\ b.todo = {}
      BY Tree DEF Frame, Frames, Callers
    <2>5. stack' = <<f, b>>
      BY <1>4 DEF RemoveFolder
    <2> HIDE DEF f, b
    <2>6. Bottom(b, op')
      BY <2>1, <2>4 DEF Bottom
    <2>7. stack' \in Seq(Frames) /\ Shape(stack', op')
      BY <2>1, <2>2, <2>3, <2>4, <2>5, <2>6, TwoShape DEF Callers
    <2> QED
      BY <1>4, <2>7, BeginTyped DEF RemoveFolder, Callers
  <1>5. CASE MoveCopied
    <2>1. /\ stack # << >> /\ Fr.fn = "MoveFolder" /\ Fr.pc = "copied"
          /\ UNCHANGED <<src, dst, op, signalled, kind, start, unread, asked, after>>
      BY <1>5 DEF MoveCopied, Running
    <2>2. /\ Fr \in Frames /\ Tail(stack) = << >> /\ Bottom(Fr, op) /\ op.name = "MoveFolder"
      BY <2>1, CallerRuns DEF Callers
    <2>3. CASE ret
      <3> DEFINE b == [Fr EXCEPT !.pc = "deleted"]
                 f == Frame("DeleteFolderContents", "enter", Src, Fr.sub, Fr.masked, FALSE)
      <3>1. b \in Frames /\ b.pc = "deleted" /\ SameCall(b, Fr) /\ b.todo = Fr.todo
        BY <2>2 DEF Frames, SameCall
      <3>2. /\ f \in Frames /\ Turn(f) /\ f.fn = "DeleteFolderContents" /\ f.dir = Src
            /\ f.sub = Fr.sub /\ f.masked = Fr.masked /\ f.term = FALSE
        <4>1. Fr.sub \in BOOLEAN /\ Fr.masked \in BOOLEAN
          BY <2>2 DEF Frames
        <4> QED
          BY <4>1, Tree DEF Frame, Frames, Turn, Walkers
      <3>3. stack' = <<f, b>> \o Tail(stack) /\ UNCHANGED ret
        BY <1>5, <2>3 DEF MoveCopied, Call
      <3> HIDE DEF f, b
      <3>4. stack' = <<f, b>>
        <4>1. stack' = <<f, b>> \o << >>
          BY <2>2, <3>3, Zenon
        <4> QED
          BY <3>1, <3>2, <4>1
      <3>5. Bottom(b, op)
        BY <2>2, <3>1 DEF Bottom, SameCall
      <3>6. Fr.sub = op.sub /\ Fr.masked = op.masked
        BY <2>2 DEF Bottom
      <3>7. stack' \in Seq(Frames) /\ Shape(stack', op)
        BY <1>0, <2>2, <3>1, <3>2, <3>4, <3>5, <3>6, TwoShape DEF Callers
      <3> QED
        BY <2>1, <3>3, <3>7, <1>0, WalkerTyped DEF StackTyped
    <2>4. CASE ~ret
      <3>1. stack' = << >> /\ ret' = FALSE
        BY <1>5, <2>2, <2>4 DEF MoveCopied, Return
      <3>2. stack' \in Seq(Frames) /\ Shape(stack', op)
        BY <3>1 DEF Shape
      <3> QED
        BY <2>1, <3>1, <3>2, <1>0, WalkerTyped DEF StackTyped
    <2> QED
      BY <2>3, <2>4
  <1>6. CASE MoveDeleted
    <2>1. Tail(stack) = << >>
      BY <1>6, CallerRuns DEF MoveDeleted, Running, Callers
    <2>2. stack' = << >> /\ ret' = TRUE
      BY <1>6, <2>1 DEF MoveDeleted, Return
    <2>3. StackTyped(stack')
      BY <2>2 DEF StackTyped, Shape
    <2> QED
      BY <1>0, <1>6, <2>2, <2>3, WalkerTyped DEF MoveDeleted
  <1>7. CASE RemoveEmptied
    <2>1. Tail(stack) = << >>
      BY <1>7, CallerRuns DEF RemoveEmptied, Running, Callers
    <2>2. stack' = << >> /\ ret' \in BOOLEAN /\ after' \in 0 .. 2 /\ src' \subseteq src
      BY <1>0, <1>7, <2>1, HandledTyped DEF RemoveEmptied, Return, RemoveDirectory
    <2>3. StackTyped(stack')
      BY <2>2 DEF StackTyped, Shape
    <2>4. UNCHANGED <<dst, op, signalled, kind, start, unread, asked>>
      BY <1>7 DEF RemoveEmptied
    <2> QED
      BY <1>0, <2>2, <2>3, <2>4, WalkerTyped
  <1>8. CASE WalkerAction
    <2>1. StackTyped(stack') /\ ret' \in BOOLEAN /\ signalled' \in BOOLEAN /\ stack # << >>
          /\ Fr.fn \in Walkers
      BY <1>8, WalkerKept
    <2>2. UNCHANGED op /\ UNCHANGED <<kind, start, asked>>
      BY <1>8 DEF WalkerAction, EnterCopy, EnterDelete, StartPass, SearchFails, EndPass, SkipItem,
                  CopyFile, DeleteFile, Descend, Copied, Deleted
    <2>3. after' \in 0 .. 2
      <3>1. Handled \/ UNCHANGED after
        BY <1>8 DEF WalkerAction, EnterCopy, EnterDelete, StartPass, SearchFails, EndPass,
                    SkipItem, CopyFile, DeleteFile, Descend, Copied, Deleted
      <3> QED
        BY <1>0, <3>1, HandledTyped
    <2>4. src' \subseteq src
      BY <1>8 DEF WalkerAction, EnterCopy, EnterDelete, StartPass, SearchFails, EndPass, SkipItem,
                  CopyFile, DeleteFile, Descend, Copied, Deleted, RemoveDirectory
    <2>5. dst' \subseteq Files \cup Dirs
      <3>1. Fr.dir \in Dirs
        BY <2>1, WalkerRuns DEF Frames
      <3> QED
        BY <1>0, <1>8, <3>1 DEF WalkerAction, EnterCopy, EnterDelete, StartPass, SearchFails,
                                EndPass, SkipItem, CopyFile, DeleteFile, Descend, Copied, Deleted
    <2>6. unread' \subseteq Items
      <3>1. UNCHANGED unread \/ unread' = unread \cup Below(Fr.dir)
        BY <1>8 DEF WalkerAction, EnterCopy, EnterDelete, StartPass, SearchFails, EndPass,
                    SkipItem, CopyFile, DeleteFile, Descend, Copied, Deleted
      <3> QED
        BY <1>0, <3>1 DEF Below
    <2> QED
      BY <1>0, <2>1, <2>2, <2>3, <2>4, <2>5, <2>6, WalkerTyped
  <1>9. CASE SetEvent
    BY <1>9 DEF SetEvent, TInv, kind
  <1>10. CASE NewFile
    BY <1>10, Tree DEF NewFile, TInv, kind
  <1>11. CASE UNCHANGED vars
    BY <1>11 DEF vars, TInv, kind
  <1> QED
    BY <1>1, <1>2, <1>3, <1>4, <1>5, <1>6, <1>7, <1>8, <1>9, <1>10, <1>11 DEF Next, WalkerAction

LEMMA TypedAlways == Spec => []TInv
  BY TInit, TNext, PTL DEF Spec

LEMMA StackTypes ==
  ASSUME TInv
  PROVE  /\ \A i \in 1..Len(stack) : IsFrame(stack[i])
         /\ \A i \in 1..Len(stack) - 1 :
              IF stack[i + 1].fn \in {"MoveFolder", "RemoveFolder"}
              THEN stack[i].dir = Src
              ELSE /\ stack[i].dir # Src
                   /\ stack[i + 1].dir = Parent[stack[i].dir]
                   /\ stack[i + 1].cur = stack[i].dir
  <1>0. stack \in Seq(Frames) /\ Shape(stack, op)
    BY DEF TInv
  <1>1. Len(stack) \in Nat
    BY <1>0
  <1>2. \A i \in 1 .. Len(stack) : stack[i] \in Frames
    BY <1>0
  <1>3. stack # << >> => Top(stack, op) \in Nat /\ Top(stack, op) \in {Len(stack), Len(stack) - 1}
    BY <1>0 DEF Top
  <1>4. ASSUME NEW i \in 1 .. Len(stack)
        PROVE  /\ stack # << >>
               /\ \/ i \in 1 .. Top(stack, op)
                  \/ i = Len(stack) /\ Top(stack, op) = Len(stack) - 1 /\ op.name \in Callers
    <2>1. stack # << >>
      BY <1>0
    <2> QED
      BY <1>1, <1>3, <2>1 DEF Top
  <1>5. ASSUME NEW i \in 1 .. Len(stack)
        PROVE  \A e \in stack[i].todo : e \in {x \in Items : Parent[x] = stack[i].dir} \cup {Dot}
    <2>1. stack[i].todo \subseteq Items \cup {Dot}
      BY <1>2 DEF Frames
    <2>2. CASE i \in 1 .. Top(stack, op)
      <3>1. Turn(stack[i])
        BY <1>0, <1>4, <2>2 DEF Shape
      <3> QED
        BY <2>1, <3>1 DEF Turn
    <2>3. CASE i = Len(stack) /\ op.name \in Callers
      BY <1>0, <1>4, <2>3 DEF Shape, Bottom
    <2> QED
      BY <1>4, <2>2, <2>3
  <1>6. ASSUME NEW i \in 1 .. Len(stack) PROVE IsFrame(stack[i])
    <2>1. stack[i] \in Frames
      BY <1>2
    <2>2. stack[i].todo \subseteq {e \in Items : Parent[e] = stack[i].dir} \cup {Dot}
      BY <1>5
    <2> QED
      BY <2>1, <2>2 DEF IsFrame, Frames, Walkers, Callers
  <1>7. ASSUME NEW i \in 1 .. Len(stack) - 1
        PROVE  IF stack[i + 1].fn \in {"MoveFolder", "RemoveFolder"}
               THEN stack[i].dir = Src
               ELSE /\ stack[i].dir # Src
                    /\ stack[i + 1].dir = Parent[stack[i].dir]
                    /\ stack[i + 1].cur = stack[i].dir
    <2>1. i \in 1 .. Len(stack) /\ i + 1 \in 1 .. Len(stack) /\ stack # << >>
      BY <1>1, <1>4
    <2>2. i \in 1 .. Top(stack, op)
      BY <1>3, <2>1
    <2>3. Called(stack, op, i)
      BY <1>0, <2>1, <2>2 DEF Shape
    <2>4. CASE i + 1 \in 1 .. Top(stack, op)
      <3>1. Called(stack, op, i + 1) /\ Turn(stack[i + 1]) /\ stack[i + 1].pc = "back"
        BY <1>0, <2>1, <2>4 DEF Shape
      <3>2. stack[i + 1].fn \notin {"MoveFolder", "RemoveFolder"}
        BY <3>1 DEF Called, WalkFn
      <3>3. stack[i].dir = stack[i + 1].cur /\ stack[i].dir # Src
        <4>1. i < Top(stack, op)
          BY <1>3, <2>1, <2>4
        <4> QED
          BY <2>3, <4>1 DEF Called
      <3>4. Parent[stack[i + 1].cur] = stack[i + 1].dir
        BY <3>1 DEF Turn
      <3> QED
        BY <3>2, <3>3, <3>4
    <2>5. CASE i + 1 = Len(stack) /\ Top(stack, op) = Len(stack) - 1 /\ op.name \in Callers
      <3>1. stack[i + 1].fn \in Callers
        BY <1>0, <2>1, <2>5 DEF Shape, Bottom
      <3>2. stack[i].dir = Src
        BY <1>1, <2>2, <2>3, <2>5 DEF Called
      <3> QED
        BY <3>1, <3>2 DEF Callers
    <2> QED
      BY <1>4, <2>1, <2>4, <2>5
  <1> QED
    BY <1>6, <1>7

\* Every variable keeps its type, and every function on the stack works on a folder of the one
\* that called it (the calls of DeleteFolderContents and CopyFolder to themselves, lines 339 and
\* 656 of filemisc.cpp): the recursion is no deeper than the tree.
THEOREM TypeCorrect == Spec => []TypeOK
  <1>1. TInv => TypeOK
    <2> SUFFICES ASSUME TInv PROVE TypeOK
      OBVIOUS
    <2>1. /\ op.name \in {"none", "CopyFolder", "DeleteFolderContents", "MoveFolder", "RemoveFolder"}
          /\ op.sub \in BOOLEAN /\ op.masked \in BOOLEAN /\ op.term \in BOOLEAN
      BY DEF TInv, CallsOf, Walkers, Callers
    <2>2. {ret, signalled, autoReset, atRoot, asked} \subseteq BOOLEAN
      BY DEF TInv
    <2> QED
      BY <2>1, <2>2, StackTypes DEF TInv, TypeOK
  <1> QED
    BY <1>1, TypedAlways, PTL

-----------------------------------------------------------------------------
(* The event that stops a call. *)

Watched == op.name \in {"CopyFolder", "MoveFolder"} \/ ~autoReset
Stopping == Watched /\ stack # << >> /\ ~Committed /\ asked /\ (~signalled \/ after = 1)

LEMMA CommittedMeans ==
  ASSUME NEW s \in Seq(Frames), NEW o, Shape(s, o), s # << >>
  PROVE  s[Len(s)].pc = "deleted" <=> Deleting(s, o)
  <1>1. Len(s) \in Nat \ {0}
    BY ReturnStack
  <1>2. CASE o.name \in Callers
    BY <1>1, <1>2 DEF Shape, Bottom, Deleting, Callers
  <1>3. CASE o.name \notin Callers
    <2>1. Turn(s[Len(s)])
      BY <1>1, <1>3 DEF Shape, Top
    <2> QED
      BY <1>3, <2>1 DEF Turn, Deleting, Callers
  <1> QED
    BY <1>2, <1>3

\* A function that is stopped, or fails, leaves its caller with nothing else to do.
LEMMA StopsReturn ==
  ASSUME TInv, stack # << >>, Return(FALSE)
  PROVE  stack' # << >> /\ ~Committed' => Ending'
  <1>1. SUFFICES ASSUME stack' # << >>, ~Committed' PROVE Ending'
    OBVIOUS
  <1>2. /\ stack' = Tail(stack) /\ ret' = FALSE /\ Head(stack') = stack[2]
        /\ Len(stack) \in Nat /\ Len(stack) > 1
        /\ stack'[Len(stack')] = stack[Len(stack)]
    <2>1. stack' = Tail(stack) /\ ret' = FALSE
      BY DEF Return
    <2>2. /\ Len(Tail(stack)) = Len(stack) - 1 /\ Len(stack) \in Nat /\ Len(stack) > 1
          /\ Head(Tail(stack)) = stack[2]
          /\ \A i \in 1 .. Len(stack) - 1 : Tail(stack)[i] = stack[i + 1]
      BY <1>1, <2>1, ReturnStack DEF TInv
    <2>3. Tail(stack)[Len(stack) - 1] = stack[Len(stack)]
      BY <2>2
    <2> QED
      BY <2>1, <2>2, <2>3
  <1>3. Shape(stack, op) /\ Top(stack, op) \in {Len(stack), Len(stack) - 1}
    BY DEF TInv, Top
  <1>4. stack[2].pc \in {"back", "copied", "emptied"}
    <2>1. CASE 2 \in 1 .. Top(stack, op)
      BY <1>3, <2>1 DEF Shape
    <2>2. CASE ~(2 \in 1 .. Top(stack, op))
      <3>1. Len(stack) = 2 /\ op.name \in Callers
        <4>1. Top(stack, op) < 2
          BY <1>2, <1>3, <2>2
        <4>2. Top(stack, op) # Len(stack)
          BY <1>2, <4>1
        <4>3. Top(stack, op) = Len(stack) - 1
          BY <1>3, <4>2
        <4>4. Len(stack) \in Nat /\ Len(stack) > 1
          BY <1>2
        <4>5. Len(stack) - 1 < 2
          BY <4>1, <4>3, Zenon
        <4>6. \A n \in Nat : n > 1 /\ n - 1 < 2 => n = 2
          OBVIOUS
        <4>7. Len(stack) = 2
          BY <4>4, <4>5, <4>6, Zenon
        <4> QED
          BY <4>2, <4>7 DEF Top
      <3>2. Bottom(stack[2], op)
        BY <1>3, <3>1 DEF Shape
      <3>3. stack[2].pc # "deleted"
        BY <1>1, <1>2, <3>1 DEF Committed
      <3> QED
        BY <3>2, <3>3 DEF Bottom
    <2> QED
      BY <2>1, <2>2
  <1> QED
    BY <1>2, <1>4 DEF Ending

\* A walker that is not stopped once it was asked to has nothing else to do.
LEMMA NotStopped ==
  ASSUME TInv, SInv, stack # << >>, Fr.fn \in Walkers, Watched, asked, ~Committed, ~Stopped
  PROVE  Ending /\ ~signalled
  <1>1. Called(stack, op, 1) /\ Fr = stack[1]
    BY WalkerRuns
  <1>2. ~Deleting(stack, op)
    BY CommittedMeans DEF TInv, Committed
  <1>3. Fr.term
    BY <1>1, <1>2 DEF Called, SInv
  <1>4. ~signalled
    BY <1>3 DEF Stopped
  <1> QED
    BY <1>4 DEF SInv, Watched

LEMMA WalkerStops ==
  ASSUME TInv, SInv, TInv', stack # << >>, Fr.fn \in Walkers, UNCHANGED <<op, kind, asked>>,
         NotLooked \/ Looked, UNCHANGED after \/ Handled, Kept(stack'),
         Watched /\ asked /\ ~Committed /\ Ending => UNCHANGED after,
         Watched /\ stack' # << >> /\ ~Committed' /\ ~Committed /\ asked
           /\ (~signalled' \/ after' = 1) => Ending'
  PROVE  SInv'
  <1>1. /\ asked' = asked /\ op' = op /\ autoReset' = autoReset /\ Watched' = Watched
        /\ signalled \in BOOLEAN /\ autoReset \in BOOLEAN /\ asked \in BOOLEAN /\ after \in 0 .. 2
    BY DEF kind, TInv, Watched
  <1>2. /\ signalled' => signalled
        /\ ~autoReset /\ signalled => signalled'
    <2>1. CASE NotLooked
      BY <2>1 DEF NotLooked
    <2>2. CASE Looked
      <3>1. signalled' = (signalled /\ ~(Fr.term /\ autoReset))
        BY <2>2 DEF Looked
      <3> QED
        BY <3>1
    <2> QED
      BY <2>1, <2>2
  <1>3. (asked => op.term) /\ (asked /\ ~autoReset => signalled') /\ (signalled' => asked)
    BY <1>2 DEF SInv
  <1>4. ASSUME Watched PROVE after' < 2 /\ (~asked => after' = 0)
    <2>1. after < 2 /\ (~asked => after = 0)
      BY <1>4 DEF SInv, Watched
    <2>2. CASE UNCHANGED after
      BY <2>1, <2>2
    <2>3. CASE Handled /\ ~UNCHANGED after
      <3>1. asked /\ ~Committed /\ after' = after + 1
        BY <2>3 DEF Handled
      <3>2. after # 1
        BY <1>4, <2>3, <3>1 DEF SInv, Watched
      <3> QED
        BY <1>1, <2>1, <3>1, <3>2
    <2> QED
      BY <2>2, <2>3
  <1>5. stack' # << >> => (Committed' <=> Committed)
    <2>1. SUFFICES ASSUME stack' # << >> PROVE Committed' <=> Committed
      OBVIOUS
    <2>2. Committed <=> Deleting(stack, op)
      BY CommittedMeans DEF TInv, Committed
    <2>3. Committed' <=> Deleting(stack', op)
      <3> DEFINE s2 == stack'
      <3>1. s2 \in Seq(Frames) /\ Shape(s2, op) /\ s2 # << >>
        BY <1>1, <2>1 DEF TInv
      <3>2. s2[Len(s2)].pc = "deleted" <=> Deleting(s2, op)
        BY <3>1, CommittedMeans
      <3> QED
        BY <3>2 DEF Committed
    <2> QED
      BY <2>1, <2>2, <2>3 DEF Kept
  <1>6. Watched /\ stack' # << >> /\ ~Committed' /\ asked /\ (~signalled' \/ after' = 1) => Ending'
    BY <1>5
  <1> QED
    BY <1>1, <1>3, <1>4, <1>6 DEF SInv, Watched

\* Head of the stack after a walker has gone on.
LEMMA GoneOn ==
  ASSUME TInv, stack # << >>, NEW g \in Frames, stack' = <<g>> \o Tail(stack)
  PROVE  stack' # << >> /\ Head(stack') = g
  <1> DEFINE s2 == stack'
  <1>1. stack \in Seq(Frames)
    BY DEF TInv
  <1>2. s2 # << >> /\ Head(s2) = g
    BY <1>1, BecomeStack
  <1> QED
    BY <1>2

LEMMA ItemStops ==
  ASSUME TInv, SInv, TInv', stack # << >>, Fr.fn \in Walkers, Fr.pc \in {"loop", "back"},
         UNCHANGED <<op, kind, asked>>, UNCHANGED after \/ Handled,
         NEW f, NEW t \in SUBSET Fr.todo, NEW r \in BOOLEAN, Update(f, Fr, t, r), NextItem(f),
         Watched /\ asked /\ ~Committed /\ Ending => UNCHANGED after,
         ASSUME Watched, asked, ~Committed, Ending, ~signalled
         PROVE  ~r /\ Fr.pass = PassesOf(Fr) - 1
  PROVE  SInv'
  <1>1. Looked
    BY DEF NextItem
  <1>2. Kept(stack')
    BY ItemTyped
  <1>3. ASSUME Watched, stack' # << >>, ~Committed', ~Committed, asked
        PROVE  Ending'
    <2>1. CASE Return(FALSE)
      BY <1>3, <2>1, StopsReturn
    <2>2. ASSUME NEW g, ~Stopped, UNCHANGED ret, Looping(g, Fr, t, r), Turn(g),
                 stack' = <<g>> \o Tail(stack)
          PROVE  Ending'
      <3>1. ~r /\ Fr.pass = PassesOf(Fr) - 1
        BY <1>3, <2>2, NotStopped
      <3>2. Head(stack') = g
        BY <2>2, GoneOn DEF Looping
      <3>3. g.pc = "loop" /\ ~g.res /\ g.todo = {} /\ g.pass = PassesOf(g) - 1
        BY <2>2, <3>1 DEF Looping, SameCall, PassesOf
      <3> QED
        BY <3>2, <3>3 DEF Ending
    <2> QED
      BY <2>1, <2>2, NextItemTakes
  <1> QED
    BY <1>1, <1>2, <1>3, WalkerStops

LEMMA SInit == Init => SInv
  BY DEF Init, SInv

LEMMA SBegin ==
  ASSUME NEW name, NEW sub, NEW masked, NEW term \in BOOLEAN, Begin(name, sub, masked, term)
  PROVE  SInv'
  <1>1. PICK s \in BOOLEAN : signalled' = (s /\ term) /\ asked' = (s /\ term)
    BY DEF Begin
  <1>2. op'.term = term /\ after' = 0
    BY DEF Begin
  <1>3. asked' => signalled'
    BY <1>1
  <1>4. signalled' => asked'
    BY <1>1
  <1>5. asked' => op'.term
    BY <1>1, <1>2
  <1> QED
    BY <1>2, <1>3, <1>4, <1>5 DEF SInv

\* A caller's step, or one of another program.
LEMMA CallerStops ==
  ASSUME TInv, SInv, UNCHANGED <<op, kind, asked, signalled>>,
         UNCHANGED after \/ Handled,
         Watched /\ asked /\ ~Committed /\ stack # << >> /\ Ending => UNCHANGED after,
         Handled /\ ~UNCHANGED after => stack # << >>,
         stack' = << >> \/ Committed' \/ UNCHANGED <<stack, ret, after>>
  PROVE  SInv'
  <1>1. /\ asked' = asked /\ op' = op /\ autoReset' = autoReset /\ signalled' = signalled
        /\ Watched' = Watched /\ after \in 0 .. 2
    BY DEF kind, TInv, Watched
  <1>2. ASSUME Watched PROVE after' < 2 /\ (~asked => after' = 0)
    <2>1. after < 2 /\ (~asked => after = 0)
      BY <1>2 DEF SInv, Watched
    <2>2. CASE UNCHANGED after
      BY <2>1, <2>2
    <2>3. CASE Handled /\ ~UNCHANGED after
      <3>1. asked /\ ~Committed /\ after' = after + 1 /\ stack # << >>
        BY <2>3 DEF Handled
      <3>2. after # 1
        BY <1>2, <2>3, <3>1 DEF SInv, Watched
      <3> QED
        BY <1>1, <2>1, <3>1, <3>2
    <2> QED
      BY <2>2, <2>3
  <1>3. Watched /\ stack' # << >> /\ ~Committed' /\ asked' /\ (~signalled' \/ after' = 1) => Ending'
    <2>1. CASE UNCHANGED <<stack, ret, after>>
      <3>1. Committed' = Committed /\ Ending' = Ending
        BY <2>1 DEF Committed, Ending
      <3> QED
        BY <1>1, <2>1, <3>1 DEF SInv, Watched
    <2> QED
      BY <2>1
  <1> QED
    BY <1>1, <1>2, <1>3 DEF SInv, Watched

LEMMA SNext == TInv /\ SInv /\ TInv' /\ [Next]_vars => SInv'
  <1> SUFFICES ASSUME TInv, SInv, TInv', [Next]_vars PROVE SInv'
    OBVIOUS
  <1>1. ASSUME NEW sub \in BOOLEAN, NEW masked \in BOOLEAN, NEW term \in BOOLEAN,
               CopyFolder(sub, masked, term) \/ DeleteFolderContents(sub, masked, term)
                 \/ MoveFolder(sub, masked, term)
        PROVE  SInv'
    <2>1. \E name : Begin(name, sub, masked, term)
      BY <1>1 DEF CopyFolder, DeleteFolderContents, MoveFolder
    <2> QED
      BY <2>1, SBegin
  <1>2. ASSUME NEW term \in BOOLEAN, RemoveFolder(term) PROVE SInv'
    <2>1. \E name, sub, masked : Begin(name, sub, masked, term)
      BY <1>2 DEF RemoveFolder
    <2> QED
      BY <2>1, SBegin
  <1>3. CASE MoveCopied
    <2>1. UNCHANGED <<op, kind, asked, signalled>> /\ UNCHANGED after
      BY <1>3 DEF MoveCopied
    <2>2. stack # << >> /\ Fr.fn = "MoveFolder"
      BY <1>3 DEF MoveCopied, Running
    <2>3. Tail(stack) = << >> /\ Fr \in Frames
      BY <2>2, CallerRuns DEF Callers
    <2>4. CASE ret
      <3> DEFINE b == [Fr EXCEPT !.pc = "deleted"]
                 f == Frame("DeleteFolderContents", "enter", Src, Fr.sub, Fr.masked, FALSE)
      <3>1. stack' = <<f, b>> \o Tail(stack)
        BY <1>3, <2>4 DEF MoveCopied, Call
      <3>2. stack' = <<f, b>> \o << >>
        BY <2>3, <3>1, Zenon
      <3>3. b.pc = "deleted"
        BY <2>3 DEF Frames
      <3> HIDE DEF f, b
      <3>4. stack' = <<f, b>>
        BY <3>2
      <3>5. Committed'
        BY <3>3, <3>4 DEF Committed
      <3> QED
        BY <2>1, <3>5, CallerStops
    <2>5. CASE ~ret
      <3>1. stack' = << >>
        BY <1>3, <2>3, <2>5 DEF MoveCopied, Return
      <3> QED
        BY <2>1, <3>1, CallerStops
    <2> QED
      BY <2>4, <2>5
  <1>4. CASE MoveDeleted
    <2>1. UNCHANGED <<op, kind, asked, signalled>> /\ UNCHANGED after
      BY <1>4 DEF MoveDeleted
    <2>2. stack' = << >>
      BY <1>4, CallerRuns DEF MoveDeleted, Running, Callers, Return
    <2> QED
      BY <2>1, <2>2, CallerStops
  <1>5. CASE RemoveEmptied
    <2>1. UNCHANGED <<op, kind, asked, signalled>> /\ stack # << >>
      BY <1>5 DEF RemoveEmptied, Running
    <2>2. stack' = << >>
      BY <1>5, CallerRuns DEF RemoveEmptied, Running, Callers, Return
    <2>3. Handled \/ UNCHANGED after
      BY <1>5 DEF RemoveEmptied
    <2>4. Ending => ~ret
      BY <1>5 DEF RemoveEmptied, Running, Ending, Fr
    <2>5. Ending => UNCHANGED after
      BY <1>5, <2>4 DEF RemoveEmptied
    <2> QED
      BY <2>1, <2>2, <2>3, <2>5, CallerStops
  <1>6. CASE EnterCopy
    <2>1. /\ stack # << >> /\ Fr.fn \in Walkers /\ Fr.pc = "enter"
          /\ UNCHANGED <<op, kind, asked>>
      BY <1>6 DEF EnterCopy, Running, Walkers
    <2>2. (Handled \/ UNCHANGED after) /\ (NotLooked \/ Looked)
      BY <1>6 DEF EnterCopy
    <2>3. ~Ending
      BY <2>1 DEF Ending, Fr
    <2>5. Kept(stack')
      BY <1>6, WalkerKept DEF WalkerAction
    <2>6. ASSUME Watched, asked, ~Committed PROVE Return(FALSE)
      BY <1>6, <2>1, <2>3, <2>6, NotStopped DEF EnterCopy
    <2>7. Watched /\ stack' # << >> /\ ~Committed' /\ ~Committed /\ asked => Ending'
      BY <2>1, <2>6, StopsReturn
    <2> QED
      BY <2>1, <2>2, <2>3, <2>5, <2>7, WalkerStops
  <1>7. CASE EnterDelete
    <2>1. /\ stack # << >> /\ Fr.fn \in Walkers /\ Fr.pc = "enter"
          /\ UNCHANGED <<op, kind, asked>> /\ UNCHANGED after
      BY <1>7 DEF EnterDelete, Running, Walkers
    <2>2. NotLooked \/ Looked
      BY <1>7 DEF EnterDelete
    <2>3. ~Ending
      BY <2>1 DEF Ending, Fr
    <2>5. Kept(stack')
      BY <1>7, WalkerKept DEF WalkerAction
    <2>6. ASSUME Watched, asked, ~Committed PROVE Return(FALSE) \/ NotLooked
      BY <1>7, <2>1, <2>3, <2>6, NotStopped DEF EnterDelete
    <2>7. ASSUME Watched, asked, ~Committed, NotLooked, ~signalled' \/ after' = 1 PROVE FALSE
      BY <2>1, <2>3, <2>7 DEF NotLooked, SInv, Watched
    <2>8. Watched /\ stack' # << >> /\ ~Committed' /\ ~Committed /\ asked
            /\ (~signalled' \/ after' = 1) => Ending'
      BY <2>1, <2>6, <2>7, StopsReturn
    <2> QED
      BY <2>1, <2>2, <2>5, <2>8, WalkerStops
  <1>8. CASE StartPass
    <2>1. /\ stack # << >> /\ Fr.fn \in Walkers /\ Fr.pc = "pass" /\ NotLooked
          /\ UNCHANGED <<op, kind, asked>> /\ UNCHANGED after
      BY <1>8 DEF StartPass, Walking, Walkers, NotLooked
    <2>2. Fr.res \in BOOLEAN
      BY <2>1, WalkerRuns DEF Frames
    <2>3. Kept(stack')
      BY <1>8, WalkerKept DEF WalkerAction
    <2>4. ASSUME Watched, ~Committed, asked, ~signalled' \/ after' = 1
          PROVE  Return(FALSE)
      <3>1. Ending
        BY <2>1, <2>4 DEF NotLooked, SInv, Watched
      <3>2. ~Fr.res /\ Fr.pass = Passes
        BY <2>1, <3>1 DEF Ending, Fr, Passes, PassesOf
      <3> QED
        BY <1>8, <2>2, <3>2 DEF StartPass, Return
    <2>5. Watched /\ stack' # << >> /\ ~Committed' /\ ~Committed /\ asked
            /\ (~signalled' \/ after' = 1) => Ending'
      BY <2>1, <2>4, StopsReturn
    <2> QED
      BY <2>1, <2>3, <2>5, WalkerStops
  <1>9. CASE EndPass
    <2>1. /\ stack # << >> /\ Fr.fn \in Walkers /\ Fr.pc = "loop" /\ NotLooked
          /\ UNCHANGED <<op, kind, asked>> /\ UNCHANGED after
      BY <1>9 DEF EndPass, Walking, Walkers, NotLooked
    <2>2. /\ UNCHANGED ret
          /\ \E g \in Frames : /\ SameCall(g, Fr) /\ Turn(g) /\ stack' = <<g>> \o Tail(stack)
                               /\ g.pc = "pass" /\ g.pass = Fr.pass + 1 /\ g.res = Fr.res
      BY <1>9, <2>1, EndPassFrame DEF EndPass
    <2>3. Kept(stack')
      BY <1>9, WalkerKept DEF WalkerAction
    <2>4. ASSUME Watched, ~Committed, asked, ~signalled' \/ after' = 1
          PROVE  Ending'
      <3>1. Ending
        BY <2>1, <2>4 DEF NotLooked, SInv, Watched
      <3>2. ~Fr.res /\ Fr.pass = PassesOf(Fr) - 1 /\ PassesOf(Fr) \in Nat
        BY <2>1, <3>1 DEF Ending, Fr, PassesOf
      <3>3. PICK g \in Frames : /\ SameCall(g, Fr) /\ stack' = <<g>> \o Tail(stack)
                                /\ g.pc = "pass" /\ g.pass = Fr.pass + 1 /\ g.res = Fr.res
        BY <2>2
      <3>4. Head(stack') = g
        BY <2>1, <3>3, GoneOn
      <3>5. PassesOf(g) = PassesOf(Fr)
        BY <3>3 DEF SameCall, PassesOf
      <3>6. g.pass = PassesOf(g)
        BY <3>2, <3>3, <3>5
      <3> QED
        BY <3>2, <3>3, <3>4, <3>6 DEF Ending
    <2> QED
      BY <2>1, <2>3, <2>4, WalkerStops
  <1>10. CASE SkipItem
    <2>1. PICK e \in Files \cup Dirs \cup {Dot} : Listed(e) /\ NextItem(Rest(e))
      BY <1>10 DEF SkipItem
    <2>2. /\ stack # << >> /\ Fr.fn \in Walkers /\ Fr.pc = "loop" /\ e \in Fr.todo
          /\ UNCHANGED <<op, kind, asked>> /\ UNCHANGED after
      BY <1>10, <2>1 DEF SkipItem, Listed, Walking, Walkers
    <2>3. Update(Rest(e), Fr, Fr.todo \ {e}, Fr.res) /\ Fr.res \in BOOLEAN
      BY <2>2, WalkerRuns, RestFrame DEF Frames
    <2>4. ~Ending
      BY <2>2 DEF Ending, Fr
    <2> QED
      BY <2>1, <2>2, <2>3, <2>4, ItemStops
  <1>11. CASE CopyFile \/ DeleteFile
    <2>1. PICK e \in Files, ok \in BOOLEAN : Listed(e) /\ NextItem([Rest(e) EXCEPT !.res = ok])
      BY <1>11 DEF CopyFile, DeleteFile
    <2>2. /\ stack # << >> /\ Fr.fn \in Walkers /\ Fr.pc = "loop" /\ e \in Fr.todo
          /\ UNCHANGED <<op, kind, asked>> /\ Handled
      BY <1>11, <2>1 DEF CopyFile, DeleteFile, Listed, Walking, Walkers
    <2>3. Update([Rest(e) EXCEPT !.res = ok], Fr, Fr.todo \ {e}, ok)
      <3>1. Fr \in Frames
        BY <2>2, WalkerRuns
      <3> QED
        BY <3>1, ItemFrame
    <2>4. ~Ending
      BY <2>2 DEF Ending, Fr
    <2> QED
      BY <2>1, <2>2, <2>3, <2>4, ItemStops
  <1>12. CASE Descend
    <2>1. PICK e \in Dirs : /\ Listed(e) /\ Wanted(e)
                            /\ Call([Rest(e) EXCEPT !.pc = "back", !.cur = e], SubFrame(e))
      BY <1>12 DEF Descend
    <2>2. /\ stack # << >> /\ Fr.fn \in Walkers /\ Fr.pc = "loop" /\ e \in Fr.todo /\ NotLooked
          /\ UNCHANGED <<op, kind, asked>> /\ UNCHANGED after
      BY <1>12, <2>1 DEF Descend, Listed, Walking, Walkers, NotLooked
    <2>3. ~Ending
      BY <2>2 DEF Ending, Fr
    <2>4. ASSUME Watched, asked, ~Committed, ~signalled' \/ after' = 1 PROVE FALSE
      BY <2>2, <2>3, <2>4 DEF NotLooked, SInv, Watched
    <2>5. Kept(stack')
      BY <1>12, WalkerKept DEF WalkerAction
    <2> QED
      BY <2>2, <2>4, <2>5, WalkerStops
  <1>13. CASE Copied
    <2>1. /\ stack # << >> /\ Fr.fn \in Walkers
          /\ Fr.pc = "back" /\ NextItem([Fr EXCEPT !.res = ret])
          /\ UNCHANGED <<op, kind, asked>> /\ UNCHANGED after
      BY <1>13 DEF Copied, Running, Walkers
    <2>2. Update([Fr EXCEPT !.res = ret], Fr, Fr.todo, ret) /\ Turn(Fr) /\ ret \in BOOLEAN
      BY <2>1, WalkerRuns, ResultFrame DEF TInv
    <2>3. Ending => ~ret /\ Fr.pass = PassesOf(Fr) - 1
      BY <2>1, <2>2 DEF Ending, Fr, Turn
    <2> QED
      BY <2>1, <2>2, <2>3, ItemStops
  <1>14. CASE Deleted
    <2>1. /\ stack # << >> /\ Fr.fn \in Walkers /\ Fr.pc = "back" /\ Fr.fn = "DeleteFolderContents"
          /\ UNCHANGED <<op, kind, asked>> /\ (UNCHANGED after \/ Handled)
      BY <1>14 DEF Deleted, Running, Walkers
    <2>2. Fr \in Frames /\ Fr.res \in BOOLEAN
      BY <2>1, WalkerRuns DEF Frames
    <2>3. Ending => UNCHANGED after
      BY <1>14, <2>1 DEF Ending, Fr, Deleted
    <2>4. ASSUME Watched, asked, ~Committed, ~signalled PROVE FALSE
      <3>1. op.name \in {"CopyFolder", "MoveFolder"}
        BY <2>4 DEF SInv, Watched
      <3>2. ~Deleting(stack, op)
        BY <2>1, <2>4, CommittedMeans DEF TInv, Committed
      <3>3. Fr.fn = "CopyFolder"
        BY <2>1, <3>1, <3>2, WalkerRuns DEF WalkFn
      <3> QED
        BY <2>1, <3>3
    <2>5. CASE NextItem(Fr)
      BY <2>1, <2>2, <2>3, <2>4, <2>5, SameFrame, ItemStops
    <2>6. ASSUME NEW ok \in BOOLEAN, NextItem([Fr EXCEPT !.res = ok]) PROVE SInv'
      BY <2>1, <2>2, <2>3, <2>4, <2>6, ResultFrame, ItemStops
    <2> QED
      BY <1>14, <2>5, <2>6 DEF Deleted
  <1>15. CASE SetEvent
    <2>1. /\ op' = op /\ autoReset' = autoReset /\ signalled' = TRUE
          /\ asked' = TRUE /\ after' = after
          /\ op.term /\ ~asked
      BY <1>15 DEF SetEvent, kind
    <2>2. Watched' = Watched /\ (Watched => after' = 0)
      BY <2>1 DEF SInv, Watched
    <2>3. (asked' => op'.term) /\ (asked' /\ ~autoReset' => signalled') /\ (signalled' => asked')
      BY <2>1
    <2>4. signalled' /\ asked'
      BY <2>1
    <2>5. 0 < 2 /\ 0 # 1
      OBVIOUS
    <2> QED
      BY <2>2, <2>3, <2>4, <2>5, Zenon DEF SInv, Watched
  <1>17. CASE SearchFails
    <2>1. /\ stack # << >> /\ Fr.fn \in Walkers /\ Fr.pc = "loop" /\ Fr.todo # {} /\ NotLooked
          /\ UNCHANGED <<op, kind, asked>> /\ UNCHANGED after
      BY <1>17 DEF SearchFails, Walking, Walkers, NotLooked
    <2>2. Kept(stack')
      BY <1>17, WalkerKept DEF WalkerAction
    <2>3. ~Ending
      BY <2>1 DEF Ending, Fr
    <2>4. ASSUME Watched, ~Committed, asked, ~signalled' \/ after' = 1 PROVE FALSE
      BY <2>1, <2>3, <2>4 DEF NotLooked, SInv, Watched
    <2> QED
      BY <2>1, <2>2, <2>4, WalkerStops
  <1>16. CASE NewFile \/ UNCHANGED vars
    <2>1. UNCHANGED <<op, kind, asked, signalled>> /\ UNCHANGED <<stack, ret, after>>
      BY <1>16 DEF NewFile, vars
    <2> QED
      BY <2>1, CallerStops
  <1> QED
    BY <1>1, <1>2, <1>3, <1>4, <1>5, <1>6, <1>7, <1>8, <1>9, <1>10, <1>11, <1>12, <1>13, <1>14,
       <1>15, <1>16, <1>17 DEF Next

\* Once it has been told to stop, a call handles at most one more item (hTerminate is looked at
\* at lines 314, 351, 626 and 664 of filemisc.cpp), as long as the event that says so stays
\* signalled or only CopyFolder takes it.
THEOREM StopsSoon == Spec => []StopSoon
  <1>1. SInv => StopSoon
    BY DEF SInv, StopSoon
  <1>2. Spec => [](TInv /\ SInv)
    BY TypedAlways, TInit, TNext, SInit, SNext, PTL DEF Spec
  <1> QED
    BY <1>1, <1>2, PTL

-----------------------------------------------------------------------------
(* What has been copied. *)

\* More has arrived, or less is due.
LEMMA GotKept ==
  ASSUME NEW S, NEW S2, S2 \subseteq S, NEW D, NEW D2, D \subseteq D2
  PROVE  /\ \A d : Complete(d, S, D) => Complete(d, S2, D2)
         /\ \A e : Got(e, S, D) => Got(e, S2, D2)
         /\ \A o : AllCopied(o, S, D) => AllCopied(o, S2, D2)
  <1>0. \A d, sub, masked : DueIn(S2, d, sub, masked) \subseteq DueIn(S, d, sub, masked)
    BY DEF DueIn
  <1>1. ASSUME NEW d, Complete(d, S, D) PROVE Complete(d, S2, D2)
    <2>1. PICK K \in SUBSET Dirs : d \in K /\ ClosedIn(K, S, D \cap Files)
      BY <1>1 DEF Complete
    <2>2. ClosedIn(K, S2, D2 \cap Files)
      BY <1>0, <2>1 DEF ClosedIn
    <2> QED
      BY <2>1, <2>2 DEF Complete
  <1>2. ASSUME NEW e, Got(e, S, D) PROVE Got(e, S2, D2)
    BY <1>1, <1>2 DEF Got
  <1>3. ASSUME NEW o, AllCopied(o, S, D) PROVE AllCopied(o, S2, D2)
    BY <1>0, <1>2, <1>3 DEF AllCopied
  <1> QED
    BY <1>1, <1>2, <1>3

LEMMA DoingKept ==
  ASSUME NEW f, NEW S, NEW S2, S2 \subseteq S, NEW D, NEW D2, D \subseteq D2, Doing(f, S, D)
  PROVE  Doing(f, S2, D2)
  <1>1. DueIn(S2, f.dir, f.sub, f.masked) \subseteq DueIn(S, f.dir, f.sub, f.masked)
    BY DEF DueIn
  <1> QED
    BY <1>1, GotKept DEF Doing, OnTrack

\* A folder is complete once everything in it has arrived.
LEMMA FolderDone ==
  ASSUME NEW d \in Dirs, NEW S, NEW D, \A e \in DueIn(S, d, TRUE, FALSE) : Got(e, S, D)
  PROVE  Complete(d, S, D)
  <1> DEFINE K == {c \in Dirs : Complete(c, S, D)} \cup {d}
  <1>1. ASSUME NEW c \in K, NEW e \in DueIn(S, c, TRUE, FALSE) PROVE e \in D \cap Files \/ e \in K
    <2>1. CASE c = d
      BY <1>1, <2>1 DEF Got
    <2>2. CASE c # d
      <3>1. PICK L \in SUBSET Dirs : c \in L /\ ClosedIn(L, S, D \cap Files)
        BY <2>2 DEF Complete
      <3>2. e \in D \cap Files \/ e \in L
        BY <1>1, <3>1 DEF ClosedIn
      <3>3. e \in L => Complete(e, S, D)
        BY <3>1 DEF Complete
      <3> QED
        BY <3>1, <3>2, <3>3
    <2> QED
      BY <2>1, <2>2
  <1>2. ClosedIn(K, S, D \cap Files)
    BY <1>1 DEF ClosedIn
  <1>3. K \in SUBSET Dirs /\ d \in K
    OBVIOUS
  <1> QED
    BY <1>2, <1>3 DEF Complete

\* Everything that a call with the parameters o is about has arrived.
LEMMA ScopeArrives ==
  ASSUME NEW S, S \subseteq Files \cup Dirs, Rooted(S), NEW D, AllCopied(op, S, D)
  PROVE  \A e \in S : InScope(e) => e \in D
  <1> SUFFICES ASSUME NEW e \in S, InScope(e) PROVE e \in D
    OBVIOUS
  <1>1. /\ e \in Items /\ e \in Files /\ e \notin Dirs /\ e \notin Dotted /\ Plain[Parent[e]]
        /\ Parent[e] \in Dirs /\ Parent[e] \in S
    <2>1. e \in Items /\ e \in Files /\ e \notin Dirs /\ e # Src /\ Plain[e]
      BY Tree DEF InScope, Items
    <2>2. e \notin Dotted /\ Plain[Parent[e]]
      BY <2>1, PlainUnfolds
    <2> QED
      BY <2>1, <2>2, ParentDir DEF Rooted
  <1>2. CASE Parent[e] = Src
    <2>1. e \in DueIn(S, Src, op.sub, op.masked)
      BY <1>1, <1>2 DEF DueIn, InScope
    <2> QED
      BY <1>1, <2>1 DEF AllCopied, Got
  <1>3. CASE Parent[e] # Src
    <2> DEFINE B == {d \in Dirs \ {Src} : d \in S /\ Plain[d] /\ ~Complete(d, S, D)}
    <2>1. op.sub
      BY <1>3 DEF InScope
    <2>2. ASSUME NEW d \in B PROVE Parent[d] \in B
      <3>1. /\ d \in Items /\ d # Src /\ d \notin Dotted /\ Plain[Parent[d]]
            /\ Parent[d] \in Dirs /\ Parent[d] \in S /\ d \in Dirs /\ d \notin Files
        <4>1. d \in Items /\ d # Src /\ d \in S /\ d \in Dirs /\ d \notin Files
          BY Tree DEF Items
        <4>2. d \notin Dotted /\ Plain[Parent[d]]
          BY <4>1, PlainUnfolds
        <4> QED
          BY <4>1, <4>2, ParentDir DEF Rooted
      <3>2. Parent[d] # Src
        <4>1. SUFFICES ASSUME Parent[d] = Src PROVE FALSE
          OBVIOUS
        <4>2. d \in DueIn(S, Src, op.sub, op.masked)
          BY <2>1, <3>1, <4>1 DEF DueIn
        <4> QED
          BY <3>1, <4>2 DEF AllCopied, Got
      <3>3. ~Complete(Parent[d], S, D)
        <4>1. SUFFICES ASSUME Complete(Parent[d], S, D) PROVE FALSE
          OBVIOUS
        <4>2. PICK K \in SUBSET Dirs : Parent[d] \in K /\ ClosedIn(K, S, D \cap Files)
          BY <4>1 DEF Complete
        <4>3. d \in DueIn(S, Parent[d], TRUE, FALSE)
          BY <3>1 DEF DueIn
        <4>4. d \in K
          BY <3>1, <4>2, <4>3 DEF ClosedIn
        <4> QED
          BY <4>2, <4>4 DEF Complete
      <3> QED
        BY <3>1, <3>2, <3>3
    <2>3. B \in SUBSET (Dirs \ {Src})
      OBVIOUS
    <2> HIDE DEF B
    <2>4. B = {}
      BY <2>2, <2>3, Tree
    <2>5. Complete(Parent[e], S, D)
      BY <1>1, <1>3, <2>4 DEF B
    <2>6. PICK K \in SUBSET Dirs : Parent[e] \in K /\ ClosedIn(K, S, D \cap Files)
      BY <2>5 DEF Complete
    <2>7. e \in DueIn(S, Parent[e], TRUE, FALSE)
      BY <1>1 DEF DueIn
    <2> QED
      BY <1>1, <2>6, <2>7 DEF ClosedIn
  <1> QED
    BY <1>2, <1>3

\* The frames of a copy.
CopyStack(s, o) ==
  /\ s \in Seq(Frames) /\ s # << >> /\ o \in CallsOf /\ Shape(s, o)
  /\ Top(s, o) \in Nat /\ Top(s, o) >= 1 /\ WalkFn(s, o) = "CopyFolder"

LEMMA CopyBecome ==
  ASSUME NEW s, NEW o, CopyStack(s, o), NEW r, NEW S, NEW S2, S2 \subseteq S,
         NEW D, NEW D2, D \subseteq D2, CopyInv(s, o, r, S, D),
         NEW g \in Frames, SameCall(g, s[1]), Turn(g), g.pc # "back", Doing(g, S2, D2),
         NEW s2, s2 = <<g>> \o Tail(s)
  PROVE  CopyInv(s2, o, r, S2, D2)
  <1>1. /\ Len(s2) = Len(s) /\ s2[1] = g /\ \A i \in 2 .. Len(s) : s2[i] = s[i]
        /\ Len(s) \in Nat
    BY BecomeStack, ReturnStack DEF CopyStack
  <1>2. Top(s2, o) = Top(s, o) /\ Top(s, o) \in Nat /\ Top(s, o) <= Len(s)
    BY <1>1 DEF Top
  <1>3. ASSUME NEW i \in 1 .. Top(s2, o) PROVE Doing(s2[i], S2, D2)
    <2>1. CASE i = 1
      BY <1>1, <2>1
    <2>2. CASE i > 1
      <3>1. s2[i] = s[i] /\ i \in 1 .. Top(s, o)
        BY <1>1, <1>2, <1>3, <2>2
      <3>2. Doing(s[i], S, D)
        BY <3>1 DEF CopyInv
      <3> QED
        BY <3>1, <3>2, DoingKept
    <2> QED
      BY <1>2, <1>3, <2>1, <2>2
  <1>4. g.pc # "copied"
    BY DEF Turn
  <1> QED
    BY <1>1, <1>3, <1>4 DEF CopyInv

LEMMA CopyCall ==
  ASSUME NEW s, NEW o, CopyStack(s, o), NEW r, NEW S, NEW D, CopyInv(s, o, r, S, D),
         NEW f \in Frames, Doing(f, S, D), NEW new \in Frames, new.pc = "enter", Doing(new, S, D),
         NEW s2, s2 = <<new, f>> \o Tail(s)
  PROVE  CopyInv(s2, o, r, S, D)
  <1>1. /\ Len(s2) = Len(s) + 1 /\ s2[1] = new /\ s2[2] = f
        /\ \A i \in 3 .. Len(s) + 1 : s2[i] = s[i - 1]
        /\ Len(s) \in Nat
    BY CallStack, ReturnStack DEF CopyStack
  <1>2. Top(s2, o) = Top(s, o) + 1 /\ Top(s, o) \in Nat /\ Top(s, o) <= Len(s)
    BY <1>1 DEF Top
  <1>3. ASSUME NEW i \in 1 .. Top(s2, o) PROVE Doing(s2[i], S, D)
    <2>1. CASE i = 1
      BY <1>1, <2>1
    <2>2. CASE i = 2
      BY <1>1, <2>2
    <2>3. CASE i > 2
      <3>1. s2[i] = s[i - 1] /\ i - 1 \in 1 .. Top(s, o)
        BY <1>1, <1>2, <1>3, <2>3
      <3>2. Doing(s[i - 1], S, D)
        BY <3>1 DEF CopyInv
      <3> QED
        BY <3>1, <3>2
    <2> QED
      BY <1>2, <1>3, <2>1, <2>2, <2>3
  <1> QED
    BY <1>1, <1>3 DEF CopyInv

LEMMA CopyReturn ==
  ASSUME NEW s, NEW o, CopyStack(s, o), NEW r, NEW S, NEW D, NEW D2, D \subseteq D2,
         CopyInv(s, o, r, S, D), Tail(s) # << >>, NEW r2,
         r2 => \A e \in DueIn(S, s[1].dir, s[1].sub, s[1].masked) : Got(e, S, D2)
  PROVE  CopyInv(Tail(s), o, r2, S, D2)
  <1> DEFINE s2 == Tail(s)
  <1>1. /\ Len(s2) = Len(s) - 1 /\ Len(s) \in Nat /\ Len(s) > 1
        /\ \A i \in 1 .. Len(s) - 1 : s2[i] = s[i + 1]
    BY ReturnStack DEF CopyStack
  <1>2. s2[1] = s[2] /\ s[1] \in Frames
    BY <1>1, ReturnStack DEF CopyStack
  <1> HIDE DEF s2
  <1>3. Top(s2, o) = Top(s, o) - 1 /\ Top(s, o) \in Nat /\ Top(s, o) <= Len(s)
    BY <1>1 DEF Top
  <1>4. ASSUME NEW i \in 1 .. Top(s2, o) PROVE Doing(s2[i], S, D2)
    <2>1. s2[i] = s[i + 1] /\ i + 1 \in 1 .. Top(s, o)
      BY <1>1, <1>3, <1>4
    <2>2. Doing(s[i + 1], S, D)
      BY <2>1 DEF CopyInv
    <2> QED
      BY <2>1, <2>2, DoingKept
  <1>5. Called(s, o, 1) /\ s[1].dir \in Dirs
    BY <1>2 DEF CopyStack, Shape, Frames
  <1>6. ASSUME s2[1].pc = "back", r2 PROVE Complete(s2[1].cur, S, D2)
    <2>1. 1 < Top(s, o)
      <3>1. SUFFICES ASSUME Top(s, o) = 1 PROVE FALSE
        BY DEF CopyStack
      <3>2. o.name \in Callers /\ Len(s) - 1 = 1
        BY <1>1, <3>1 DEF Top
      <3>3. Bottom(s[Len(s)], o)
        BY <3>2 DEF CopyStack, Shape
      <3>4. \A n \in Nat : n - 1 = 1 => n = 2
        OBVIOUS
      <3>5. s[2] = s[Len(s)]
        BY <1>1, <3>2, <3>4, Zenon
      <3> QED
        BY <1>2, <1>6, <3>3, <3>5 DEF Bottom
    <2>2. s[1].dir = s[2].cur /\ s[1].sub /\ ~s[1].masked
      <3>1. 1 + 1 = 2 /\ WalkFn(s, o) # "DeleteFolderContents"
        BY DEF CopyStack
      <3>2. s[1].dir = s[1 + 1].cur /\ s[1].sub
        BY <1>5, <2>1 DEF Called
      <3>3. s[1].masked = (o.masked /\ WalkFn(s, o) = "DeleteFolderContents")
        BY <1>5, <2>1 DEF Called
      <3> QED
        BY <3>1, <3>2, <3>3
    <2>3. s[1].sub = TRUE /\ s[1].masked = FALSE
      BY <1>2, <2>2 DEF Frames
    <2>4. \A e \in DueIn(S, s[1].dir, TRUE, FALSE) : Got(e, S, D2)
      BY <1>6, <2>3
    <2> QED
      BY <1>2, <1>5, <2>2, <2>4, FolderDone
  <1>7. ASSUME s2[1].pc = "copied", r2 PROVE AllCopied(o, S, D2)
    <2>1. Top(s, o) = 1
      <3>1. SUFFICES ASSUME 2 \in 1 .. Top(s, o) PROVE FALSE
        BY <1>3 DEF CopyStack
      <3>2. s[2].pc = "back"
        BY <3>1 DEF CopyStack, Shape
      <3> QED
        BY <1>2, <1>7, <3>2
    <2>2. s[1].dir = Src /\ s[1].sub = o.sub /\ s[1].masked = o.masked
      BY <1>5, <2>1 DEF Called
    <2> QED
      BY <1>7, <2>2 DEF AllCopied
  <1> QED
    BY <1>4, <1>6, <1>7 DEF CopyInv, s2

\* The last walker of a copy returns to the program.
LEMMA CopyEnds ==
  ASSUME NEW s, NEW o, CopyStack(s, o), Tail(s) = << >>, NEW S, NEW D,
         \A e \in DueIn(S, s[1].dir, s[1].sub, s[1].masked) : Got(e, S, D)
  PROVE  AllCopied(o, S, D)
  <1>1. Len(s) \in Nat /\ ~(Len(s) > 1)
    BY ReturnStack DEF CopyStack
  <1>2. Top(s, o) = 1
    <2>1. Top(s, o) <= Len(s)
      BY <1>1 DEF Top
    <2> QED
      BY <1>1, <2>1 DEF CopyStack
  <1>3. Called(s, o, 1)
    BY <1>2 DEF CopyStack, Shape
  <1>4. s[1].dir = Src /\ s[1].sub = o.sub /\ s[1].masked = o.masked
    BY <1>2, <1>3 DEF Called
  <1> QED
    BY <1>4 DEF AllCopied

LEMMA CopyRuns ==
  ASSUME TInv, stack # << >>, Fr.fn = "CopyFolder"
  PROVE  /\ Copying /\ CopyStack(stack, op) /\ ~Deleting(stack, op) /\ Fr = stack[1]
         /\ op.name \in {"CopyFolder", "MoveFolder"} /\ Fr \in Frames /\ Turn(Fr)
         /\ Called(stack, op, 1)
  <1>1. /\ Fr = stack[1] /\ Fr \in Frames /\ Turn(Fr) /\ Fr.fn = WalkFn(stack, op)
        /\ Top(stack, op) \in Nat /\ Top(stack, op) >= 1 /\ Called(stack, op, 1)
    BY WalkerRuns DEF Walkers
  <1>2. ~Deleting(stack, op) /\ op.name \in {"CopyFolder", "MoveFolder"}
    BY <1>1 DEF WalkFn, Deleting
  <1>3. stack \in Seq(Frames) /\ op \in CallsOf /\ Shape(stack, op)
    BY DEF TInv
  <1> QED
    BY <1>1, <1>2, <1>3 DEF Copying, CopyStack

LEMMA CopyStep ==
  ASSUME TInv, CInv, stack # << >>, Fr.fn = "CopyFolder", UNCHANGED <<src, op, kind, start, unread>>,
         dst \subseteq dst',
         \/ \E r \in BOOLEAN :
              /\ Return(r)
              /\ r /\ ~Lenient =>
                   \A e \in DueIn(Due, Fr.dir, Fr.sub, Fr.masked) : Got(e, Due, dst')
         \/ /\ UNCHANGED ret
            /\ \E g \in Frames : /\ SameCall(g, Fr) /\ Turn(g) /\ g.pc # "back"
                                 /\ stack' = <<g>> \o Tail(stack)
                                 /\ ~Lenient => Doing(g, Due, dst')
  PROVE  CInv'
  <1>1. /\ Copying /\ CopyStack(stack, op) /\ ~Deleting(stack, op) /\ Fr = stack[1]
        /\ op.name \in {"CopyFolder", "MoveFolder"}
    BY CopyRuns
  <1>2. Kept(stack')
    BY WalkerMoves DEF Walkers
  <1>3. /\ src' = src /\ start' = start /\ Due' = Due
        /\ op' = op /\ atRoot' = atRoot /\ Lenient' = Lenient
    BY DEF kind, Lenient, TwoPasses, Due
  <1>4. Rooted(src) /\ Rooted(Due) /\ start \subseteq src
    BY <1>1 DEF CInv
  <1>5. ~Lenient => CopyInv(stack, op, ret, Due, dst)
    BY <1>1 DEF CInv
  <1>6. ASSUME stack' # << >>, ~Lenient PROVE CopyInv(stack', op, ret', Due, dst')
    <2>1. ASSUME NEW r \in BOOLEAN, Return(r),
                 r => \A e \in DueIn(Due, Fr.dir, Fr.sub, Fr.masked) : Got(e, Due, dst')
          PROVE  CopyInv(stack', op, ret', Due, dst')
      <3>1. stack' = Tail(stack) /\ ret' = r /\ Tail(stack) # << >>
        BY <1>6, <2>1 DEF Return
      <3>2. CopyInv(Tail(stack), op, r, Due, dst')
        BY <1>1, <1>5, <1>6, <2>1, <3>1, CopyReturn
      <3> QED
        BY <3>1, <3>2
    <2>2. ASSUME NEW g \in Frames, UNCHANGED ret, SameCall(g, Fr), Turn(g), g.pc # "back",
                 stack' = <<g>> \o Tail(stack), Doing(g, Due, dst')
          PROVE  CopyInv(stack', op, ret', Due, dst')
      <3> DEFINE s2 == stack'
      <3>1. CopyInv(s2, op, ret, Due, dst')
        BY <1>1, <1>5, <1>6, <2>2, CopyBecome
      <3> QED
        BY <2>2, <3>1
    <2> QED
      BY <1>6, <2>1, <2>2
  <1>7. ASSUME stack' = << >>, ret', ~Lenient PROVE AllCopied(op, Due, dst')
    <2>1. ASSUME NEW r \in BOOLEAN, Return(r),
                 r => \A e \in DueIn(Due, Fr.dir, Fr.sub, Fr.masked) : Got(e, Due, dst')
          PROVE  AllCopied(op, Due, dst')
      <3>1. Tail(stack) = << >> /\ r
        BY <1>7, <2>1 DEF Return
      <3> QED
        BY <1>1, <2>1, <3>1, CopyEnds
    <2>2. ASSUME NEW g \in Frames, stack' = <<g>> \o Tail(stack) PROVE FALSE
      BY <1>7, <2>2, GoneOn
    <2> QED
      BY <1>7, <2>1, <2>2
  <1>8. stack' # << >> => Copying' /\ ~Deleting(stack', op)
    BY <1>1, <1>2, <1>3 DEF Copying, Kept
  <1> QED
    BY <1>3, <1>4, <1>6, <1>7, <1>8 DEF CInv, Copying

\* The frame of a copy, and its listing.
LEMMA PassForBound ==
  \A f, e : PassFor(f, e) \in Nat /\ PassFor(f, e) < PassesOf(f) /\ PassesOf(f) \in Nat
  BY DEF PassFor, PassesOf

LEMMA SamePasses ==
  ASSUME NEW f, NEW g, SameCall(f, g)
  PROVE  /\ PassesOf(f) = PassesOf(g) /\ \A e : PassFor(f, e) = PassFor(g, e)
         /\ \A S : DueIn(S, f.dir, f.sub, f.masked) = DueIn(S, g.dir, g.sub, g.masked)
  BY DEF SameCall, PassesOf, PassFor

LEMMA DoingPass ==
  ASSUME NEW g, g.pc = "pass", g.pass = 0, NEW S, NEW D
  PROVE  Doing(g, S, D)
  BY PassForBound DEF Doing, OnTrack, Will

LEMMA DoingEnter ==
  ASSUME NEW g, g.pc = "enter", NEW S, NEW D
  PROVE  Doing(g, S, D)
  BY DEF Doing, OnTrack, Will

\* The last pass is over and nothing has failed.
LEMMA DoingDone ==
  ASSUME NEW f \in Frames, f.pc = "pass", f.pass = PassesOf(f), f.res, NEW S, NEW D, Doing(f, S, D)
  PROVE  \A e \in DueIn(S, f.dir, f.sub, f.masked) : Got(e, S, D)
  <1>1. OnTrack(f, S, D)
    BY DEF Doing, Failed
  <1>2. \A e : ~Will(f, e)
    BY PassForBound DEF Will
  <1> QED
    BY <1>1, <1>2 DEF OnTrack

\* The listing of a pass names what is due in it.
LEMMA DoingListing ==
  ASSUME TInv, CInv, stack # << >>, Fr.fn = "CopyFolder", Fr.pc = "pass", Fr.pass # Passes, ~Lenient,
         NEW g \in Frames, SameCall(g, Fr), g.pc = "loop", g.pass = Fr.pass, g.res = Fr.res,
         g.todo = Listing
  PROVE  Doing(g, Due, dst)
  <1>1. /\ Copying /\ CopyStack(stack, op) /\ Fr = stack[1] /\ Fr \in Frames /\ Turn(Fr)
        /\ Called(stack, op, 1)
    BY CopyRuns
  <1>a. 1 \in 1 .. Top(stack, op)
    BY <1>1 DEF CopyStack
  <1>b. CopyInv(stack, op, ret, Due, dst)
    BY <1>1 DEF CInv
  <1>2. /\ Doing(Fr, Due, dst)
        /\ start \subseteq src /\ Due \subseteq start
    <2>1. Doing(Fr, Due, dst)
      BY <1>1, <1>a, <1>b DEF CopyInv
    <2>2. start \subseteq src
      BY <1>1 DEF CInv
    <2> QED
      BY <2>1, <2>2 DEF Due
  <1>3. CASE ~Fr.res
    <2>1. Fr.pass = 1 /\ Fr.sub /\ Fr.masked
      BY <1>1, <1>3 DEF Turn, Passes, PassesOf, Frames
    <2>2. 1 = Top(stack, op) \/ 1 < Top(stack, op)
      BY <1>1 DEF CopyStack
    <2>3. 1 = Top(stack, op)
      BY <1>1, <2>1, <2>2 DEF Called, CopyStack
    <2>4. op.sub /\ op.masked
      BY <1>1, <2>1, <2>3 DEF Called
    <2>5. ~atRoot
      BY <2>4 DEF Lenient, TwoPasses
    <2>6. Dot \in Listing
      BY <2>1, <2>5 DEF Listing
    <2> QED
      BY <1>3, <2>6 DEF Doing, Failed
  <1>4. CASE Fr.res
    <2>1. OnTrack(Fr, Due, dst)
      BY <1>2, <1>4 DEF Doing, Failed
    <2>2. ASSUME NEW e \in DueIn(Due, g.dir, g.sub, g.masked)
          PROVE  Will(g, e) \/ Got(e, Due, dst)
      <3>1. e \in DueIn(Due, Fr.dir, Fr.sub, Fr.masked) /\ PassFor(g, e) = PassFor(Fr, e)
        BY <2>2, SamePasses
      <3>2. Will(Fr, e) \/ Got(e, Due, dst)
        BY <2>1, <3>1 DEF OnTrack
      <3>3. ASSUME Will(Fr, e) PROVE Will(g, e)
        <4>1. Fr.pass <= PassFor(Fr, e) /\ Fr.pass \in Nat /\ PassFor(Fr, e) \in Nat
          BY <1>1, <3>3, PassForBound DEF Will, Frames
        <4>2. CASE Fr.pass < PassFor(Fr, e)
          BY <3>1, <4>2 DEF Will
        <4>3. CASE Fr.pass = PassFor(Fr, e)
          <5>1. e \in Here(Fr.dir)
            BY <1>2, <3>1 DEF DueIn, Here
          <5>2. ASSUME Fr.masked, Fr.pass = 0 PROVE e \in Matching
            <6>1. e \in Dirs => Fr.sub
              BY <3>1 DEF DueIn
            <6>2. e \notin Dirs
              BY <4>3, <5>2, <6>1 DEF PassFor, PassesOf
            <6> QED
              BY <3>1, <5>2, <6>2 DEF DueIn, Items
          <5>3. e \in Listing
            BY <5>1, <5>2 DEF Listing
          <5> QED
            BY <3>1, <4>3, <5>3 DEF Will
        <4> QED
          BY <4>1, <4>2, <4>3
      <3> QED
        BY <3>2, <3>3
    <2> QED
      BY <1>4, <2>2 DEF Doing, OnTrack
  <1> QED
    BY <1>3, <1>4

LEMMA DoingEndPass ==
  ASSUME NEW f \in Frames, f.pc = "loop", f.todo = {}, NEW S, NEW D, Doing(f, S, D),
         NEW g \in Frames, SameCall(g, f), g.pc = "pass", g.pass = f.pass + 1, g.res = f.res
  PROVE  Doing(g, S, D)
  <1>1. CASE ~f.res
    BY <1>1 DEF Doing, Failed
  <1>2. CASE f.res
    <2>1. OnTrack(f, S, D)
      BY <1>2 DEF Doing, Failed
    <2>2. ASSUME NEW e \in DueIn(S, g.dir, g.sub, g.masked) PROVE Will(g, e) \/ Got(e, S, D)
      <3>1. e \in DueIn(S, f.dir, f.sub, f.masked) /\ PassFor(g, e) = PassFor(f, e)
        BY <2>2, SamePasses
      <3>2. Will(f, e) \/ Got(e, S, D)
        BY <2>1, <3>1 DEF OnTrack
      <3>3. Will(f, e) => f.pass < PassFor(f, e)
        BY DEF Will
      <3>4. f.pass < PassFor(f, e) => Will(g, e)
        BY <3>1, PassForBound DEF Will, Frames
      <3> QED
        BY <3>2, <3>3, <3>4
    <2> QED
      BY <1>2, <2>2 DEF Doing, OnTrack
  <1> QED
    BY <1>1, <1>2

\* What is listed after the folder itself is not listed after a failure.
LEMMA NotFailed ==
  ASSUME NEW e, Listed(e), e # Dot, NEW S, NEW D, Doing(Fr, S, D)
  PROVE  Fr.res /\ OnTrack(Fr, S, D)
  BY DEF Doing, Failed, Listed, Walking

\* The item e is taken from the listing, and the loop goes on.
LEMMA DoingItem ==
  ASSUME NEW f \in Frames, f.pc \in {"loop", "back"}, NEW S, NEW D, NEW D2, D \subseteq D2,
         OnTrack(f, S, D), NEW t, NEW r \in BOOLEAN, NEW g, Looping(g, f, t, r),
         ASSUME r, NEW e \in DueIn(S, f.dir, f.sub, f.masked), f.pass = PassFor(f, e), e \in f.todo
         PROVE  e \in t \/ Got(e, S, D2),
         r /\ f.pc = "back" => Got(f.cur, S, D2)
  PROVE  Doing(g, S, D2)
  <1>1. CASE ~r
    BY <1>1 DEF Looping, Doing, Failed
  <1>2. CASE r
    <2>1. g.pc = "loop" /\ g.todo = t /\ g.pass = f.pass /\ SameCall(g, f) /\ g.res
      BY <1>2 DEF Looping
    <2>2. ASSUME NEW e \in DueIn(S, g.dir, g.sub, g.masked) PROVE Will(g, e) \/ Got(e, S, D2)
      <3>1. e \in DueIn(S, f.dir, f.sub, f.masked) /\ PassFor(g, e) = PassFor(f, e)
        BY <2>1, <2>2, SamePasses
      <3>2. Will(f, e) \/ Got(e, S, D) \/ (f.pc = "back" /\ e = f.cur)
        BY <3>1 DEF OnTrack
      <3>3. CASE Will(f, e)
        <4>1. CASE f.pass < PassFor(f, e)
          BY <2>1, <3>1, <4>1 DEF Will
        <4>2. CASE f.pass = PassFor(f, e) /\ e \in f.todo
          BY <1>2, <2>1, <3>1, <4>2 DEF Will
        <4> QED
          BY <3>3, <4>1, <4>2 DEF Will
      <3>4. CASE Got(e, S, D)
        BY <3>4, GotKept
      <3>5. CASE f.pc = "back" /\ e = f.cur
        BY <1>2, <3>5
      <3> QED
        BY <3>2, <3>3, <3>4, <3>5
    <2> QED
      BY <2>1, <2>2 DEF Doing, OnTrack
  <1> QED
    BY <1>1, <1>2

LEMMA CopyItem ==
  ASSUME TInv, CInv, stack # << >>, Fr.fn = "CopyFolder", Fr.pc \in {"loop", "back"},
         UNCHANGED <<src, op, kind, start, unread>>, dst \subseteq dst',
         NEW f, NEW t \in SUBSET Fr.todo, NEW r \in BOOLEAN, Update(f, Fr, t, r), NextItem(f),
         ASSUME ~Lenient, NEW g, Looping(g, Fr, t, r) PROVE Doing(g, Due, dst')
  PROVE  CInv'
  <1>1. CASE Return(FALSE)
    BY <1>1, CopyStep
  <1>2. ASSUME NEW g, UNCHANGED ret, Looping(g, Fr, t, r), Turn(g), stack' = <<g>> \o Tail(stack)
        PROVE  CInv'
    <2>1. g \in Frames /\ SameCall(g, Fr) /\ g.pc # "back" /\ (~Lenient => Doing(g, Due, dst'))
      BY <1>2 DEF Looping
    <2> QED
      BY <1>2, <2>1, CopyStep
  <1> QED
    BY <1>1, <1>2, NextItemTakes DEF Walkers

LEMMA DeleteStep ==
  ASSUME TInv, CInv, stack # << >>, Fr.fn = "DeleteFolderContents",
         UNCHANGED <<dst, op, kind, start, unread>>, Rooted(src'), Kept(stack'),
         stack' # << >> \/ Tail(stack) = << >>
  PROVE  CInv'
  <1>1. /\ WalkFn(stack, op) = "DeleteFolderContents" /\ Top(stack, op) \in Nat
        /\ Top(stack, op) >= 1
    BY WalkerRuns DEF Walkers
  <1>2. dst' = dst /\ start' = start /\ Due' = Due /\ op' = op /\ Lenient' = Lenient
    BY DEF kind, Lenient, TwoPasses, Due
  <1>3. stack' # << >> => ~Copying' /\ Deleting(stack', op) = Deleting(stack, op)
    BY <1>1, <1>2 DEF Copying, Kept
  <1>4. stack' = << >> => op.name \notin {"CopyFolder", "MoveFolder"}
    <2>1. SUFFICES ASSUME Tail(stack) = << >> PROVE op.name \notin {"CopyFolder", "MoveFolder"}
      OBVIOUS
    <2>2. Len(stack) \in Nat /\ ~(Len(stack) > 1)
      BY <2>1, ReturnStack DEF TInv
    <2>3. op.name \notin Callers
      BY <1>1, <2>2 DEF Top
    <2> QED
      BY <1>1, <2>3 DEF WalkFn, Callers
  <1>5. stack' = << >> => ~Copying'
    BY DEF Copying
  <1> QED
    BY <1>2, <1>3, <1>4, <1>5 DEF CInv

LEMMA DeleteItem ==
  ASSUME TInv, CInv, stack # << >>, Fr.fn = "DeleteFolderContents", Fr.pc \in {"loop", "back"},
         UNCHANGED <<dst, op, kind, start, unread>>, Rooted(src'),
         NEW f, NEW t \in SUBSET Fr.todo, NEW r \in BOOLEAN, Update(f, Fr, t, r), NextItem(f)
  PROVE  CInv'
  <1>1. Kept(stack')
    BY ItemTyped DEF Walkers
  <1>2. stack' # << >> \/ Tail(stack) = << >>
    <2>1. CASE Return(FALSE)
      BY <2>1 DEF Return
    <2>2. ASSUME NEW g, Looping(g, Fr, t, r), stack' = <<g>> \o Tail(stack)
          PROVE  stack' # << >>
      BY <2>2, GoneOn DEF Looping
    <2> QED
      BY <2>1, <2>2, NextItemTakes DEF Walkers
  <1> QED
    BY <1>1, <1>2, DeleteStep

\* Files and empty folders go, other files come.
LEMMA RootedFiles ==
  ASSUME Rooted(src), src \subseteq Files \cup Dirs
  PROVE  /\ \A e \in Files : Rooted(src \ {e})
         /\ \A d \in Dirs : Here(d) = {} => Rooted(src \ {d})
         /\ \A e \in Files : Parent[e] \in src => Rooted(src \cup {e})
  <1>1. ASSUME NEW e \in Files PROVE Rooted(src \ {e})
    <2>1. \A x \in Items : Parent[x] # e
      BY ParentDir, Tree
    <2> QED
      BY <2>1 DEF Rooted
  <1>2. ASSUME NEW d \in Dirs, Here(d) = {} PROVE Rooted(src \ {d})
    BY <1>2 DEF Rooted, Here
  <1>3. ASSUME NEW e \in Files, Parent[e] \in src PROVE Rooted(src \cup {e})
    BY <1>3 DEF Rooted
  <1> QED
    BY <1>1, <1>2, <1>3

LEMMA RootedRemoved ==
  ASSUME Rooted(src), src \subseteq Files \cup Dirs, NEW d \in Dirs, NEW ok \in BOOLEAN,
         RemoveDirectory(d, ok)
  PROVE  Rooted(src')
  BY RootedFiles DEF RemoveDirectory

LEMMA CInit == Init => CInv
  <1> SUFFICES ASSUME Init PROVE CInv
    OBVIOUS
  <1>1. Rooted(src)
    BY ParentDir DEF Init, Rooted
  <1>2. Rooted(Due) /\ stack = << >> /\ op.name = "none"
    BY DEF Init, Rooted, Due
  <1> QED
    BY <1>1, <1>2 DEF CInv, Copying

\* A call begins: nothing is copied yet.
LEMMA CBegin ==
  ASSUME TInv, TInv', CInv, NEW name, NEW sub \in BOOLEAN, NEW masked \in BOOLEAN,
         NEW term \in BOOLEAN, Begin(name, sub, masked, term),
         stack' # << >>, stack'[1].pc = "enter", Top(stack', op') = 1, ~Deleting(stack', op')
  PROVE  CInv'
  <1>1. start' = src /\ Due' = src /\ src' = src /\ dst' = dst /\ Rooted(src)
    BY DEF Begin, CInv, Due
  <1>2. ASSUME NEW i \in 1 .. Top(stack', op') PROVE Doing(stack'[i], Due', dst')
    <2>1. i = 1
      BY <1>2
    <2> QED
      BY <2>1, DoingEnter
  <1>3. CopyInv(stack', op', ret', Due', dst')
    BY <1>2 DEF CopyInv
  <1> QED
    BY <1>1, <1>3 DEF CInv

LEMMA BeginOne ==
  ASSUME NEW fn \in Walkers, NEW sub, NEW masked, NEW term, NEW o, o.name = fn,
         NEW s, s = <<Frame(fn, "enter", Src, sub, masked, term)>>
  PROVE  s # << >> /\ s[1].pc = "enter" /\ Top(s, o) = 1 /\ ~Deleting(s, o)
  <1> DEFINE f == Frame(fn, "enter", Src, sub, masked, term)
  <1>1. f.pc = "enter"
    BY DEF Frame
  <1> HIDE DEF f
  <1>2. Len(s) = 1 /\ s[1] = f /\ s # << >>
    BY DEF f
  <1> QED
    BY <1>1, <1>2 DEF Top, Deleting, Walkers, Callers

LEMMA BeginTwo ==
  ASSUME NEW f, f.pc = "enter", NEW b, b.pc \in {"copied", "emptied"},
         NEW o, o.name \in Callers, NEW s, s = <<f, b>>
  PROVE  s # << >> /\ s[1].pc = "enter" /\ Top(s, o) = 1 /\ ~Deleting(s, o)
  <1>1. Len(s) = 2 /\ s[1] = f /\ s[2] = b /\ s # << >>
    OBVIOUS
  <1>2. Top(s, o) = 1
    BY <1>1 DEF Top
  <1>3. s[Len(s)].pc # "deleted"
    BY <1>1
  <1> QED
    BY <1>1, <1>2, <1>3 DEF Deleting

\* Nothing below a folder remains due when its search fails.
LEMMA NothingDueBelow ==
  ASSUME TInv, NEW d, start' = start, unread' = unread \cup Below(d)
  PROVE  /\ Due' \subseteq Due
         /\ \A e \in Due' \cap Items : Parent[e] # d
         /\ Rooted(Due) => Rooted(Due')
  <1>1. \A e \in Items : Parent[e] \in Below(d) \cup {d} => e \in Below(d)
    BY DEF Below
  <1>2. Due' = Due \ Below(d)
    BY DEF Due
  <1>3. ASSUME Rooted(Due) PROVE Rooted(Due')
    BY <1>1, <1>2, <1>3 DEF Rooted
  <1> QED
    BY <1>1, <1>2, <1>3

LEMMA CopySearchFails ==
  ASSUME TInv, CInv, SearchFails, Fr.fn = "CopyFolder"
  PROVE  CInv'
  <1>1. /\ stack # << >> /\ Fr.fn \in Walkers /\ Fr.pc = "loop"
        /\ UNCHANGED <<src, dst, op, kind, start>> /\ unread' = unread \cup Below(Fr.dir)
    BY DEF SearchFails, Walking, Walkers
  <1>2. /\ Copying /\ CopyStack(stack, op) /\ ~Deleting(stack, op) /\ Fr = stack[1]
        /\ op.name \in {"CopyFolder", "MoveFolder"}
    BY <1>1, CopyRuns
  <1>3. PICK g \in Frames : /\ SameCall(g, Fr) /\ Turn(g) /\ stack' = <<g>> \o Tail(stack)
                            /\ g.pc = "loop" /\ g.pass = Fr.pass /\ g.res = Fr.res /\ g.todo = {}
    BY <1>1, BrokenFrame DEF SearchFails
  <1>4. UNCHANGED ret
    BY DEF SearchFails, Become
  <1>5. Due' \subseteq Due /\ Rooted(Due') /\ \A e \in Due' \cap Items : Parent[e] # Fr.dir
    BY <1>1, NothingDueBelow DEF CInv
  <1>6. Kept(stack') /\ stack' # << >>
    BY <1>1, <1>3, <1>4, WalkerMoves, GoneOn
  <1>7. src' = src /\ dst' = dst /\ start' = start /\ op' = op /\ Lenient' = Lenient
    BY <1>1 DEF kind, Lenient, TwoPasses
  <1>8. Doing(g, Due', dst)
    <2>1. DueIn(Due', g.dir, g.sub, g.masked) = {}
      BY <1>3, <1>5 DEF DueIn, SameCall
    <2> QED
      BY <1>3, <2>1 DEF Doing, OnTrack
  <1>9. ASSUME ~Lenient PROVE CopyInv(stack', op, ret, Due', dst)
    <2> DEFINE s2 == stack'
               S2 == Due'
    <2>1. CopyInv(stack, op, ret, Due, dst)
      BY <1>2, <1>9 DEF CInv
    <2>2. Doing(g, S2, dst) /\ S2 \subseteq Due /\ s2 = <<g>> \o Tail(stack)
      BY <1>3, <1>5, <1>8
    <2> HIDE DEF s2, S2
    <2>3. CopyInv(s2, op, ret, S2, dst)
      BY <1>2, <1>3, <2>1, <2>2, CopyBecome
    <2> QED
      BY <2>3 DEF s2, S2
  <1>10. Copying' /\ ~Deleting(stack', op)
    BY <1>2, <1>6, <1>7 DEF Copying, Kept
  <1>11. Rooted(src) /\ start \subseteq src
    BY <1>2 DEF CInv
  <1> QED
    BY <1>4, <1>5, <1>6, <1>7, <1>9, <1>10, <1>11 DEF CInv

LEMMA CNext == TInv /\ TInv' /\ CInv /\ [Next]_vars => CInv'
  <1> SUFFICES ASSUME TInv, TInv', CInv, [Next]_vars PROVE CInv'
    OBVIOUS
  <1>0. Rooted(src) /\ src \subseteq Files \cup Dirs
    BY DEF CInv, TInv
  <1>1. ASSUME NEW sub \in BOOLEAN, NEW masked \in BOOLEAN, NEW term \in BOOLEAN,
               NEW fn \in Walkers, Begin(fn, sub, masked, term),
               stack' = <<Frame(fn, "enter", Src, sub, masked, term)>>
        PROVE  CInv'
    <2>1. op'.name = fn
      BY <1>1 DEF Begin
    <2>2. stack' # << >> /\ stack'[1].pc = "enter" /\ Top(stack', op') = 1 /\ ~Deleting(stack', op')
      BY <1>1, <2>1, BeginOne
    <2> QED
      BY <1>1, <2>2, CBegin
  <1>2. ASSUME NEW sub \in BOOLEAN, NEW masked \in BOOLEAN, NEW term \in BOOLEAN,
               MoveFolder(sub, masked, term)
        PROVE  CInv'
    <2>1. op'.name = "MoveFolder"
      BY <1>2 DEF MoveFolder, Begin
    <2>2. PICK f, b : stack' = <<f, b>> /\ f.pc = "enter" /\ b.pc = "copied"
      BY <1>2 DEF MoveFolder, Frame
    <2>3. stack' # << >> /\ stack'[1].pc = "enter" /\ Top(stack', op') = 1 /\ ~Deleting(stack', op')
      BY <2>1, <2>2, BeginTwo DEF Callers
    <2> QED
      BY <1>2, <2>3, CBegin DEF MoveFolder
  <1>3. ASSUME NEW term \in BOOLEAN, RemoveFolder(term) PROVE CInv'
    <2>1. op'.name = "RemoveFolder"
      BY <1>3 DEF RemoveFolder, Begin
    <2>2. PICK f, b : stack' = <<f, b>> /\ f.pc = "enter" /\ b.pc = "emptied"
      BY <1>3 DEF RemoveFolder, Frame
    <2>3. stack' # << >> /\ stack'[1].pc = "enter" /\ Top(stack', op') = 1 /\ ~Deleting(stack', op')
      BY <2>1, <2>2, BeginTwo DEF Callers
    <2>4. TRUE \in BOOLEAN /\ FALSE \in BOOLEAN
      OBVIOUS
    <2> QED
      BY <1>3, <2>3, <2>4, CBegin DEF RemoveFolder
  <1>4. CASE MoveCopied
    <2>1. /\ stack # << >> /\ Fr.fn = "MoveFolder" /\ Fr.pc = "copied"
          /\ src' = src /\ dst' = dst /\ op' = op
          /\ start' = start /\ Due' = Due /\ Lenient' = Lenient
      BY <1>4 DEF MoveCopied, Running, kind, Lenient, TwoPasses, Due
    <2>2. /\ Tail(stack) = << >> /\ Fr \in Frames /\ Fr = stack[1] /\ op.name = "MoveFolder"
          /\ Len(stack) = 1
      BY <2>1, CallerRuns DEF Callers
    <2>3. WalkFn(stack, op) = "CopyFolder"
      BY <2>1, <2>2 DEF WalkFn, Deleting
    <2>4. CASE ret
      <3> DEFINE b == [Fr EXCEPT !.pc = "deleted"]
                 f == Frame("DeleteFolderContents", "enter", Src, Fr.sub, Fr.masked, FALSE)
      <3>1. stack' = <<f, b>> \o Tail(stack)
        BY <1>4, <2>4 DEF MoveCopied, Call
      <3>2. stack' = <<f, b>> \o << >>
        BY <2>2, <3>1, Zenon
      <3>3. b.pc = "deleted"
        BY <2>2 DEF Frames
      <3> HIDE DEF f, b
      <3>4. stack' = <<f, b>>
        BY <3>2
      <3>5. stack'[Len(stack')].pc = "deleted" /\ stack' # << >>
        BY <3>3, <3>4
      <3>6. Deleting(stack', op') /\ WalkFn(stack', op') # "CopyFolder"
        BY <2>1, <2>2, <3>5 DEF Deleting, WalkFn
      <3>7. ~Lenient => AllCopied(op, Due, dst)
        BY <2>1, <2>2, <2>3, <2>4 DEF CInv, Copying, CopyInv
      <3> QED
        BY <2>1, <3>5, <3>6, <3>7 DEF CInv, Copying
    <2>5. CASE ~ret
      <3>1. stack' = << >> /\ ret' = FALSE
        BY <1>4, <2>2, <2>5 DEF MoveCopied, Return
      <3> QED
        BY <2>1, <2>2, <3>1 DEF CInv, Copying
    <2> QED
      BY <2>4, <2>5
  <1>5. CASE MoveDeleted
    <2>1. /\ stack # << >> /\ Fr.fn = "MoveFolder" /\ Fr.pc = "deleted"
          /\ src' = src /\ dst' = dst /\ op' = op
          /\ start' = start /\ Due' = Due /\ Lenient' = Lenient
      BY <1>5 DEF MoveDeleted, Running, kind, Lenient, TwoPasses, Due
    <2>2. Tail(stack) = << >> /\ Fr = stack[1] /\ op.name = "MoveFolder" /\ Len(stack) = 1
      BY <2>1, CallerRuns DEF Callers
    <2>3. Deleting(stack, op)
      BY <2>1, <2>2 DEF Deleting
    <2>4. stack' = << >>
      BY <1>5, <2>2 DEF MoveDeleted, Return
    <2> QED
      BY <2>1, <2>2, <2>3, <2>4 DEF CInv, Copying
  <1>6. CASE RemoveEmptied
    <2>1. /\ stack # << >> /\ Fr.fn = "RemoveFolder"
          /\ dst' = dst /\ op' = op /\ start' = start /\ Due' = Due /\ Lenient' = Lenient
      BY <1>6 DEF RemoveEmptied, Running, kind, Lenient, TwoPasses, Due
    <2>2. Tail(stack) = << >> /\ op.name = "RemoveFolder"
      BY <2>1, CallerRuns DEF Callers
    <2>3. stack' = << >>
      BY <1>6, <2>2 DEF RemoveEmptied, Return
    <2>4. src' = src \/ \E ok \in BOOLEAN : RemoveDirectory(Src, ok)
      BY <1>6 DEF RemoveEmptied
    <2>5. Rooted(src')
      BY <1>0, <2>4, RootedRemoved, Tree
    <2> QED
      BY <2>1, <2>2, <2>3, <2>5 DEF CInv, Copying
  <1>7. CASE EnterCopy
    <2>1. /\ stack # << >> /\ Fr.fn = "CopyFolder" /\ Fr.pc = "enter"
          /\ UNCHANGED <<src, op, kind, start, unread>> /\ dst \subseteq dst'
      BY <1>7 DEF EnterCopy, Running
    <2>2. Return(FALSE) \/ Become([Fr EXCEPT !.pc = "pass"])
      BY <1>7 DEF EnterCopy
    <2>3. CASE Return(FALSE)
      BY <2>1, <2>3, CopyStep
    <2>4. CASE Become([Fr EXCEPT !.pc = "pass"])
      <3>1. PICK g \in Frames : /\ SameCall(g, Fr) /\ Turn(g) /\ stack' = <<g>> \o Tail(stack)
                                /\ g.pc = "pass" /\ g.pass = 0 /\ g.res
        BY <2>1, <2>4, PassFrame DEF Walkers
      <3>2. UNCHANGED ret
        BY <2>4 DEF Become
      <3>3. Doing(g, Due, dst')
        BY <3>1, DoingPass
      <3> QED
        BY <2>1, <3>1, <3>2, <3>3, CopyStep
    <2> QED
      BY <2>2, <2>3, <2>4
  <1>8. CASE EnterDelete
    <2>1. /\ stack # << >> /\ Fr.fn = "DeleteFolderContents" /\ Fr.pc = "enter"
          /\ UNCHANGED <<src, dst, op, kind, start, unread>>
      BY <1>8 DEF EnterDelete, Running
    <2>2. Return(TRUE) \/ Return(FALSE) \/ Become([Fr EXCEPT !.pc = "pass"])
      BY <1>8 DEF EnterDelete
    <2>3. Kept(stack')
      BY <2>1, <2>2, PassFrame, WalkerMoves DEF Walkers
    <2>4. stack' # << >> \/ Tail(stack) = << >>
      BY <2>1, <2>2, PassFrame, GoneOn DEF Return, Walkers
    <2> QED
      BY <1>0, <2>1, <2>3, <2>4, DeleteStep
  <1>9. CASE StartPass
    <2>1. /\ stack # << >> /\ Fr.fn \in Walkers /\ Fr.pc = "pass"
          /\ UNCHANGED <<src, dst, op, kind, start, unread>>
      BY <1>9 DEF StartPass, Walking, Walkers
    <2>2. Fr \in Frames /\ Fr.res \in BOOLEAN
      BY <2>1, WalkerRuns DEF Frames
    <2>3. CASE Fr.pass = Passes
      <3>1. Return(Fr.res)
        BY <1>9, <2>3 DEF StartPass
      <3>2. CASE Fr.fn = "CopyFolder"
        <4>1. ASSUME Fr.res, ~Lenient
              PROVE  \A e \in DueIn(Due, Fr.dir, Fr.sub, Fr.masked) : Got(e, Due, dst)
          <5>1. Doing(Fr, Due, dst)
            BY <2>1, <3>2, <4>1, CopyRuns DEF CInv, CopyInv, CopyStack
          <5> QED
            BY <2>1, <2>2, <2>3, <4>1, <5>1, DoingDone DEF Passes, PassesOf
        <4>2. dst' = dst
          BY <2>1
        <4> QED
          BY <2>1, <2>2, <3>1, <3>2, <4>1, <4>2, CopyStep
      <3>3. CASE Fr.fn = "DeleteFolderContents"
        BY <1>0, <2>1, <2>2, <3>1, <3>3, WalkerMoves, DeleteStep DEF Return
      <3> QED
        BY <2>1, <3>2, <3>3 DEF Walkers
    <2>4. CASE Fr.pass # Passes
      <3>1. Become([Fr EXCEPT !.pc = "loop", !.todo = Listing])
        BY <1>9, <2>4 DEF StartPass
      <3>2. PICK g \in Frames : /\ SameCall(g, Fr) /\ Turn(g) /\ stack' = <<g>> \o Tail(stack)
                                /\ g.pc = "loop" /\ g.pass = Fr.pass /\ g.res = Fr.res
                                /\ g.todo = Listing
        BY <2>1, <2>4, <3>1, ListingFrame
      <3>3. UNCHANGED ret
        BY <3>1 DEF Become
      <3>4. CASE Fr.fn = "CopyFolder"
        <4>1. ~Lenient => Doing(g, Due, dst)
          BY <2>1, <2>4, <3>2, <3>4, DoingListing
        <4>2. dst' = dst
          BY <2>1
        <4> QED
          BY <2>1, <3>2, <3>3, <3>4, <4>1, <4>2, CopyStep
      <3>5. CASE Fr.fn = "DeleteFolderContents"
        <4>1. stack' # << >> /\ Kept(stack')
          BY <2>1, <3>2, <3>3, GoneOn, WalkerMoves
        <4> QED
          BY <1>0, <2>1, <3>5, <4>1, DeleteStep
      <3> QED
        BY <2>1, <3>4, <3>5 DEF Walkers
    <2> QED
      BY <2>3, <2>4
  <1>10. CASE EndPass
    <2>1. /\ stack # << >> /\ Fr.fn \in Walkers /\ Fr.pc = "loop" /\ Fr.todo = {}
          /\ UNCHANGED <<src, dst, op, kind, start, unread>>
      BY <1>10 DEF EndPass, Walking, Walkers
    <2>2. PICK g \in Frames : /\ SameCall(g, Fr) /\ Turn(g) /\ stack' = <<g>> \o Tail(stack)
                              /\ g.pc = "pass" /\ g.pass = Fr.pass + 1 /\ g.res = Fr.res
      BY <1>10, <2>1, EndPassFrame DEF EndPass
    <2>3. UNCHANGED ret
      BY <1>10 DEF EndPass, Become
    <2>4. CASE Fr.fn = "CopyFolder"
      <3>1. ASSUME ~Lenient PROVE Doing(g, Due, dst)
        <4>1. Doing(Fr, Due, dst) /\ Fr \in Frames
          BY <2>1, <2>4, <3>1, CopyRuns DEF CInv, CopyInv, CopyStack
        <4> QED
          BY <2>1, <2>2, <4>1, DoingEndPass
      <3>2. dst' = dst
        BY <2>1
      <3> QED
        BY <2>1, <2>2, <2>3, <2>4, <3>1, <3>2, CopyStep
    <2>5. CASE Fr.fn = "DeleteFolderContents"
      <3>1. stack' # << >> /\ Kept(stack')
        BY <2>1, <2>2, <2>3, GoneOn, WalkerMoves
      <3> QED
        BY <1>0, <2>1, <2>5, <3>1, DeleteStep
    <2> QED
      BY <2>1, <2>4, <2>5 DEF Walkers
  <1>11. CASE SkipItem
    <2>1. PICK e \in Files \cup Dirs \cup {Dot} : Listed(e) /\ ~Wanted(e) /\ NextItem(Rest(e))
      BY <1>11 DEF SkipItem
    <2>2. /\ stack # << >> /\ Fr.fn \in Walkers /\ Fr.pc = "loop" /\ e \in Fr.todo
          /\ src' = src /\ dst' = dst /\ UNCHANGED <<op, kind, start, unread>>
      BY <1>11, <2>1 DEF SkipItem, Listed, Walking, Walkers
    <2>3. /\ Fr \in Frames /\ Update(Rest(e), Fr, Fr.todo \ {e}, Fr.res) /\ Fr.res \in BOOLEAN
          /\ Fr.pass \in 0 .. 2
      BY <2>2, WalkerRuns, RestFrame DEF Frames
    <2>4. CASE Fr.fn = "CopyFolder"
      <3>1. ASSUME ~Lenient, NEW g, Looping(g, Fr, Fr.todo \ {e}, Fr.res)
            PROVE  Doing(g, Due, dst)
        <4>1. Doing(Fr, Due, dst)
          BY <2>2, <2>4, <3>1, CopyRuns DEF CInv, CopyInv, CopyStack
        <4>2. CASE ~Fr.res
          BY <3>1, <4>2 DEF Looping, Doing, Failed
        <4>3. CASE Fr.res
          <5>1. OnTrack(Fr, Due, dst)
            BY <4>1, <4>3 DEF Doing, Failed
          <5>2. ASSUME NEW x \in DueIn(Due, Fr.dir, Fr.sub, Fr.masked), Fr.pass = PassFor(Fr, x)
                PROVE  x # e
            <6>1. SUFFICES ASSUME x = e PROVE Wanted(e)
              BY <2>1
            <6>2. x \notin Dotted /\ x # Dot /\ (x \in Dirs => Fr.sub)
              BY <5>2, Tree DEF DueIn, Items
            <6>3. x \in Dirs => Fr.pass = Passes - 1
              BY <5>2 DEF PassFor, Passes, PassesOf
            <6>4. x \in Files => Fr.pass = 0
              BY <5>2, Tree DEF PassFor
            <6> QED
              BY <6>1, <6>2, <6>3, <6>4 DEF Wanted
          <5> QED
            BY <2>2, <2>3, <3>1, <4>3, <5>1, <5>2, DoingItem
        <4> QED
          BY <4>2, <4>3
      <3> QED
        BY <2>1, <2>2, <2>3, <2>4, <3>1, CopyItem
    <2>5. CASE Fr.fn = "DeleteFolderContents"
      BY <1>0, <2>1, <2>2, <2>3, <2>5, DeleteItem
    <2> QED
      BY <2>2, <2>4, <2>5 DEF Walkers
  <1>12. CASE CopyFile
    <2>1. PICK e \in Files, ok \in BOOLEAN :
            /\ Listed(e) /\ Fr.fn = "CopyFolder" /\ NextItem([Rest(e) EXCEPT !.res = ok])
            /\ dst' = IF ok THEN dst \cup {e} ELSE dst
      BY <1>12 DEF CopyFile
    <2>2. /\ stack # << >> /\ Fr.fn \in Walkers /\ Fr.pc = "loop" /\ e \in Fr.todo
          /\ UNCHANGED <<src, op, kind, start, unread>> /\ dst \subseteq dst' /\ e # Dot
      BY <1>12, <2>1, Tree DEF CopyFile, Listed, Walking, Walkers
    <2>3. Fr \in Frames
      BY <2>2, WalkerRuns
    <2>4. Update([Rest(e) EXCEPT !.res = ok], Fr, Fr.todo \ {e}, ok)
      BY <2>3, ItemFrame
    <2>5. ASSUME ~Lenient, NEW g, Looping(g, Fr, Fr.todo \ {e}, ok)
          PROVE  Doing(g, Due, dst')
      <3>1. Doing(Fr, Due, dst)
        BY <2>1, <2>2, <2>5, CopyRuns DEF CInv, CopyInv, CopyStack
      <3>2. OnTrack(Fr, Due, dst)
        BY <2>1, <2>2, <3>1, NotFailed
      <3>3. ok => Got(e, Due, dst')
        BY <2>1 DEF Got
      <3> QED
        BY <2>2, <2>3, <2>5, <3>2, <3>3, DoingItem
    <2> QED
      BY <2>1, <2>2, <2>4, <2>5, CopyItem
  <1>13. CASE DeleteFile
    <2>1. PICK e \in Files, ok \in BOOLEAN :
            /\ Listed(e) /\ Fr.fn = "DeleteFolderContents" /\ NextItem([Rest(e) EXCEPT !.res = ok])
            /\ src' = IF ok THEN src \ {e} ELSE src
      BY <1>13 DEF DeleteFile
    <2>2. /\ stack # << >> /\ Fr.fn \in Walkers /\ Fr.pc = "loop" /\ e \in Fr.todo
          /\ UNCHANGED <<dst, op, kind, start, unread>>
      BY <1>13, <2>1 DEF DeleteFile, Listed, Walking, Walkers
    <2>3. Fr \in Frames
      BY <2>2, WalkerRuns
    <2>4. Update([Rest(e) EXCEPT !.res = ok], Fr, Fr.todo \ {e}, ok)
      BY <2>3, ItemFrame
    <2>5. Rooted(src')
      BY <1>0, <2>1, RootedFiles
    <2> QED
      BY <2>1, <2>2, <2>4, <2>5, DeleteItem
  <1>14. CASE Descend
    <2>1. PICK e \in Dirs : /\ Listed(e) /\ Wanted(e)
                            /\ Call([Rest(e) EXCEPT !.pc = "back", !.cur = e], SubFrame(e))
      BY <1>14 DEF Descend
    <2>2. /\ stack # << >> /\ Fr.fn \in Walkers /\ Fr.pc = "loop" /\ e \in Fr.todo /\ e # Dot
          /\ src' = src /\ dst' = dst /\ start' = start
          /\ Due' = Due /\ op' = op /\ Lenient' = Lenient
          /\ UNCHANGED <<src, dst, op, kind, start, unread>>
      BY <1>14, <2>1 DEF Descend, Listed, Walking, Walkers, Wanted, kind, Lenient, TwoPasses, Due
    <2>3. PICK f \in Frames, new \in Frames :
              /\ stack' = <<new, f>> \o Tail(stack)
              /\ SameCall(f, Fr) /\ Turn(f) /\ f.pc = "back" /\ f.pass = Fr.pass /\ f.res = Fr.res
              /\ f.todo = Fr.todo \ {e} /\ f.cur = e
              /\ Turn(new) /\ new.pc = "enter" /\ new.fn = f.fn /\ new.dir = e /\ new.term = f.term
              /\ new.sub /\ new.masked = (f.masked /\ f.fn = "DeleteFolderContents")
      BY <2>1, DescendFrames
    <2>4. Kept(stack') /\ UNCHANGED ret
      BY <2>1, DescendKept
    <2>5. stack' # << >>
      <3> DEFINE s2 == stack'
      <3>1. stack \in Seq(Frames)
        BY DEF TInv
      <3>2. s2 # << >>
        BY <2>2, <2>3, <3>1, CallStack
      <3> QED
        BY <3>2
    <2>6. CASE Fr.fn = "CopyFolder"
      <3>1. /\ Copying /\ CopyStack(stack, op) /\ ~Deleting(stack, op) /\ Fr = stack[1]
            /\ Fr \in Frames
        BY <2>2, <2>6, CopyRuns
      <3>2. ASSUME ~Lenient PROVE CopyInv(stack', op, ret, Due, dst)
        <4>1. CopyInv(stack, op, ret, Due, dst)
          BY <3>1, <3>2 DEF CInv
        <4>2. OnTrack(Fr, Due, dst)
          BY <2>1, <2>2, <3>1, <4>1, NotFailed DEF CopyInv, CopyStack
        <4>3. ASSUME NEW x \in DueIn(Due, f.dir, f.sub, f.masked)
              PROVE  Will(f, x) \/ Got(x, Due, dst) \/ x = f.cur
          <5>1. x \in DueIn(Due, Fr.dir, Fr.sub, Fr.masked) /\ PassFor(f, x) = PassFor(Fr, x)
            BY <2>3, <4>3, SamePasses
          <5>2. Will(Fr, x) \/ Got(x, Due, dst)
            BY <2>2, <4>2, <5>1 DEF OnTrack
          <5>3. Will(Fr, x) => Will(f, x) \/ x = e
            BY <2>2, <2>3, <5>1 DEF Will
          <5> QED
            BY <2>3, <5>2, <5>3
        <4>4. Doing(f, Due, dst)
          BY <2>3, <4>3 DEF Doing, OnTrack
        <4>5. Doing(new, Due, dst)
          BY <2>3, DoingEnter
        <4> DEFINE s2 == stack'
        <4>6. CopyInv(s2, op, ret, Due, dst)
          BY <2>3, <3>1, <4>1, <4>4, <4>5, CopyCall
        <4> QED
          BY <4>6
      <3>3. Copying' /\ ~Deleting(stack', op')
        BY <2>2, <2>4, <2>5, <3>1 DEF Kept, Copying
      <3> QED
        BY <2>2, <2>4, <2>5, <3>1, <3>2, <3>3 DEF CInv
    <2>7. CASE Fr.fn = "DeleteFolderContents"
      BY <1>0, <2>2, <2>4, <2>5, <2>7, DeleteStep
    <2> QED
      BY <2>2, <2>6, <2>7 DEF Walkers
  <1>15. CASE Copied
    <2>1. /\ stack # << >> /\ Fr.fn = "CopyFolder"
          /\ Fr.pc = "back" /\ NextItem([Fr EXCEPT !.res = ret])
          /\ src' = src /\ dst' = dst /\ UNCHANGED <<op, kind, start, unread>>
      BY <1>15 DEF Copied, Running
    <2>2. ret \in BOOLEAN /\ Fr \in Frames /\ Turn(Fr)
      BY <2>1, CopyRuns DEF TInv
    <2>3. Update([Fr EXCEPT !.res = ret], Fr, Fr.todo, ret)
      BY <2>2, ResultFrame
    <2>4. ASSUME ~Lenient, NEW g, Looping(g, Fr, Fr.todo, ret) PROVE Doing(g, Due, dst)
      <3>1. Doing(Fr, Due, dst) /\ (ret => Complete(Fr.cur, Due, dst))
        BY <2>1, <2>4, CopyRuns DEF CInv, CopyInv, CopyStack
      <3>2. OnTrack(Fr, Due, dst)
        BY <2>1, <3>1 DEF Doing, Failed
      <3>3. ret => Got(Fr.cur, Due, dst)
        BY <2>1, <2>2, <3>1 DEF Got, Turn
      <3> QED
        BY <2>1, <2>2, <2>4, <3>2, <3>3, DoingItem
    <2> QED
      BY <2>1, <2>2, <2>3, <2>4, CopyItem
  <1>16. CASE Deleted
    <2>1. /\ stack # << >> /\ Fr.fn = "DeleteFolderContents" /\ Fr.pc = "back"
          /\ UNCHANGED <<dst, op, kind, start, unread>>
      BY <1>16 DEF Deleted, Running
    <2>2. Fr \in Frames /\ Fr.res \in BOOLEAN /\ Fr.cur \in Dirs
      BY <2>1, WalkerRuns DEF Frames, Turn, Walkers
    <2>3. CASE NextItem(Fr) /\ src' = src
      BY <1>0, <2>1, <2>2, <2>3, SameFrame, DeleteItem
    <2>4. ASSUME NEW ok \in BOOLEAN, RemoveDirectory(Fr.cur, ok), NextItem([Fr EXCEPT !.res = ok])
          PROVE  CInv'
      <3>1. Rooted(src')
        BY <1>0, <2>2, <2>4, RootedRemoved
      <3> QED
        BY <2>1, <2>2, <2>4, <3>1, ResultFrame, DeleteItem
    <2> QED
      BY <1>16, <2>3, <2>4 DEF Deleted
  <1>17. CASE SetEvent \/ UNCHANGED vars
    <2>1. /\ src' = src /\ dst' = dst /\ op' = op /\ stack' = stack
          /\ ret' = ret /\ start' = start /\ Due' = Due
          /\ atRoot' = atRoot
      BY <1>17 DEF SetEvent, vars, kind, Due
    <2> QED
      BY <2>1 DEF CInv, Copying, Lenient, TwoPasses
  <1>18. CASE NewFile
    <2>1. /\ dst' = dst /\ op' = op /\ stack' = stack /\ ret' = ret
          /\ start' = start /\ Due' = Due /\ atRoot' = atRoot
      BY <1>18 DEF NewFile, kind, Due
    <2>2. Rooted(src') /\ src \subseteq src'
      BY <1>0, <1>18, RootedFiles, Tree DEF NewFile
    <2> QED
      BY <2>1, <2>2 DEF CInv, Copying, Lenient, TwoPasses
  <1>19. ASSUME NEW sub \in BOOLEAN, NEW masked \in BOOLEAN, NEW term \in BOOLEAN,
                CopyFolder(sub, masked, term) \/ DeleteFolderContents(sub, masked, term)
         PROVE  CInv'
    BY <1>1, <1>19 DEF CopyFolder, DeleteFolderContents, Walkers
  <1>20. CASE SearchFails
    <2>1. /\ stack # << >> /\ Fr.fn \in Walkers /\ Fr.pc = "loop"
          /\ UNCHANGED <<src, dst, op, kind, start>>
      BY <1>20 DEF SearchFails, Walking, Walkers
    <2>2. CASE Fr.fn = "CopyFolder"
      BY <1>20, <2>2, CopySearchFails
    <2>3. CASE Fr.fn = "DeleteFolderContents"
      <3>1. UNCHANGED unread
        BY <1>20, <2>3 DEF SearchFails
      <3>2. stack' # << >> /\ Kept(stack')
        BY <1>20, <2>1, BrokenFrame, GoneOn, WalkerMoves DEF SearchFails
      <3> QED
        BY <1>0, <2>1, <2>3, <3>1, <3>2, DeleteStep
    <2> QED
      BY <2>1, <2>2, <2>3 DEF Walkers
  <1> QED
    BY <1>2, <1>3, <1>4, <1>5, <1>6, <1>7, <1>8, <1>9, <1>10, <1>11, <1>12, <1>13, <1>14, <1>15,
       <1>16, <1>17, <1>18, <1>19, <1>20 DEF Next

LEMMA CopyAlways == Spec => [](TInv /\ CInv)
  BY TypedAlways, TInit, TNext, CInit, CNext, PTL DEF Spec

\* When CopyFolder returns TRUE (line 672 of filemisc.cpp), every file that was there at the
\* beginning and that it was asked for has been copied, unless it is in or below a folder of
\* which a search failed: lines 636 and 666 drop that error.
THEOREM CopiedMeansAll == Spec => []TrueMeansCopied
  <1>1. TInv /\ CInv => TrueMeansCopied
    <2> SUFFICES ASSUME TInv, CInv, stack = << >>, ret,
                        op.name \in {"CopyFolder", "MoveFolder"}, ~Lenient
                 PROVE  \A e \in Due : InScope(e) => e \in dst
      BY DEF TrueMeansCopied, Lenient, Due
    <2>1. AllCopied(op, Due, dst) /\ Rooted(Due) /\ Due \subseteq Files \cup Dirs
      BY DEF CInv, TInv, Due
    <2> QED
      BY <2>1, ScopeArrives
  <1> QED
    BY <1>1, CopyAlways, PTL

-----------------------------------------------------------------------------
(* What is deleted. *)

\* Outside the two passes, DeleteFolderContents takes only files that the call is about.
LEMMA DeletedInScope ==
  ASSUME TInv, ~TwoPasses, NEW e \in Files, Listed(e), Wanted(e), Fr.fn = "DeleteFolderContents"
  PROVE  InScope(e)
  <1>1. stack # << >> /\ Fr.fn \in Walkers /\ Fr.pc = "loop" /\ e \in Fr.todo
    BY DEF Listed, Walking, Walkers
  <1>2. /\ Fr = stack[1] /\ Fr \in Frames /\ Called(stack, op, 1) /\ Turn(Fr)
        /\ Top(stack, op) \in Nat /\ Top(stack, op) >= 1
    BY <1>1, WalkerRuns
  <1>3. e \in Items /\ e # Dot /\ e \notin Dotted /\ e # Src
    BY Tree DEF Items, Wanted
  <1>4. Parent[e] = Fr.dir
    BY <1>1, <1>2, <1>3 DEF Turn
  <1>5. CASE 1 = Top(stack, op)
    <2>1. Fr.dir = Src /\ Fr.sub = op.sub /\ Fr.masked = op.masked
      BY <1>2, <1>5 DEF Called
    <2>2. Plain[e]
      BY <1>3, <1>4, <2>1, PlainUnfolds
    <2>3. ASSUME op.masked PROVE e \in Matching
      <3>1. ~Fr.sub /\ Fr.masked
        BY <2>1, <2>3 DEF TwoPasses
      <3>2. Fr.pass = 0
        BY <1>1, <1>2, <3>1 DEF Turn, PassesOf, Frames
      <3> QED
        BY <1>1, <1>2, <3>1, <3>2 DEF Turn
    <2> QED
      BY <1>4, <2>1, <2>2, <2>3 DEF InScope
  <1>6. CASE 1 < Top(stack, op)
    <2>1. Fr.dir # Src /\ Plain[Fr.dir] /\ op.sub
      BY <1>2, <1>6 DEF Called
    <2>2. Plain[e]
      BY <1>3, <1>4, <2>1, PlainUnfolds
    <2> QED
      BY <1>4, <2>1, <2>2 DEF InScope
  <1> QED
    BY <1>2, <1>5, <1>6

\* A move deletes only what has arrived or was missed.
LEMMA DeletedArrived ==
  ASSUME TInv, CInv, ~TwoPasses, stack # << >>, Deleting(stack, op)
  PROVE  \A e \in Due : InScope(e) => e \in dst
  <1>1. AllCopied(op, Due, dst) /\ Rooted(Due) /\ Due \subseteq Files \cup Dirs
    BY DEF CInv, TInv, Lenient, Due
  <1> QED
    BY <1>1, ScopeArrives

\* The files of the source and of the destination as a step may change them.
FilesStay == src' \cap Files = src \cap Files /\ dst' \cap Files = dst \cap Files

LEMMA WalkerFiles ==
  ASSUME TInv, WalkerAction
  PROVE  \/ FilesStay
         \/ \E e \in src \cap Files : CopyFile /\ dst' = dst \cup {e} /\ src' = src
         \/ \E e \in Files : /\ Listed(e) /\ Wanted(e) /\ Fr.fn = "DeleteFolderContents"
                             /\ src' = src \ {e} /\ dst' = dst
  <1>1. CASE EnterCopy
    <2>1. Fr.dir \in Dirs
      BY <1>1, WalkerRuns DEF EnterCopy, Running, Walkers, Frames
    <2> QED
      BY <1>1, <2>1, Tree DEF EnterCopy, FilesStay
  <1>2. CASE EnterDelete \/ StartPass \/ SearchFails \/ EndPass \/ SkipItem \/ Descend \/ Copied
    BY <1>2 DEF EnterDelete, StartPass, SearchFails, EndPass, SkipItem, Descend, Copied, FilesStay
  <1>3. CASE CopyFile
    BY <1>3 DEF CopyFile, FilesStay
  <1>4. CASE DeleteFile
    BY <1>4 DEF DeleteFile, FilesStay
  <1>5. CASE Deleted
    <2>1. Fr.cur \in Dirs
      BY <1>5, WalkerRuns DEF Deleted, Running, Walkers, Turn
    <2> QED
      BY <1>5, <2>1, Tree DEF Deleted, RemoveDirectory, FilesStay
  <1> QED
    BY <1>1, <1>2, <1>3, <1>4, <1>5 DEF WalkerAction

LEMMA LostNext == TInv /\ CInv /\ NoFileLost /\ [Next]_vars => NoFileLost'
  <1> SUFFICES ASSUME TInv, CInv, NoFileLost, [Next]_vars PROVE NoFileLost'
    OBVIOUS
  <1>1. ASSUME NEW name, NEW sub, NEW masked, NEW term, Begin(name, sub, masked, term)
        PROVE  NoFileLost'
    BY <1>1 DEF Begin, NoFileLost
  <1>2. ASSUME op' = op, start' = start, unread \subseteq unread',
               src \cap Files \subseteq src', dst \cap Files \subseteq dst'
        PROVE  NoFileLost'
    BY <1>2 DEF NoFileLost, TwoPasses
  <1>3. CASE WalkerAction
    <2>1. /\ op' = op /\ start' = start /\ unread \subseteq unread'
          /\ stack # << >> /\ Fr.fn \in Walkers
      BY <1>3, WalkerKept DEF WalkerAction, EnterCopy, EnterDelete, StartPass, SearchFails,
                              EndPass, SkipItem, CopyFile, DeleteFile, Descend, Copied, Deleted
    <2>2. CASE FilesStay
      BY <1>2, <2>1, <2>2 DEF FilesStay
    <2>3. CASE \E e \in src \cap Files : CopyFile /\ dst' = dst \cup {e} /\ src' = src
      BY <1>2, <2>1, <2>3
    <2>4. ASSUME NEW e \in Files, Listed(e), Wanted(e), Fr.fn = "DeleteFolderContents",
                 src' = src \ {e}, dst' = dst
          PROVE  NoFileLost'
      <3>1. SUFFICES ASSUME op.name \in {"CopyFolder", "MoveFolder"}, ~TwoPasses
                     PROVE  \A x \in Due \cap Files : x \in src' \cup dst'
        BY <2>1 DEF NoFileLost, TwoPasses, Due
      <3>2. WalkFn(stack, op) = "DeleteFolderContents"
        BY <2>1, <2>4, WalkerRuns
      <3>3. Deleting(stack, op)
        BY <3>1, <3>2 DEF WalkFn
      <3>4. e \in Due => e \in dst
        BY <2>1, <2>4, <3>1, <3>3, DeletedInScope, DeletedArrived
      <3>5. \A x \in Due \cap Files : x \in src \cup dst
        BY <3>1 DEF NoFileLost, Due
      <3> QED
        BY <2>4, <3>4, <3>5
    <2> QED
      BY <1>3, <2>2, <2>3, <2>4, WalkerFiles
  <1>4. CASE MoveCopied \/ MoveDeleted \/ SetEvent \/ UNCHANGED vars
    BY <1>2, <1>4 DEF MoveCopied, MoveDeleted, SetEvent, vars
  <1>5. CASE RemoveEmptied
    BY <1>2, <1>5, Tree DEF RemoveEmptied, RemoveDirectory
  <1>6. CASE NewFile
    BY <1>2, <1>6 DEF NewFile
  <1>7. ASSUME NEW sub \in BOOLEAN, NEW masked \in BOOLEAN, NEW term \in BOOLEAN,
               \/ CopyFolder(sub, masked, term)
               \/ DeleteFolderContents(sub, masked, term)
               \/ MoveFolder(sub, masked, term)
        PROVE  NoFileLost'
    BY <1>1, <1>7 DEF CopyFolder, DeleteFolderContents, MoveFolder
  <1>8. ASSUME NEW term \in BOOLEAN, RemoveFolder(term) PROVE NoFileLost'
    BY <1>1, <1>8 DEF RemoveFolder
  <1> QED
    BY <1>3, <1>4, <1>5, <1>6, <1>7, <1>8 DEF Next, WalkerAction

\* MoveFolder deletes the source only after CopyFolder returned TRUE (lines 597 to 603 of
\* filemisc.cpp): a file that was there at the beginning is in the source or in the destination,
\* whenever the call is stopped and whatever fails, but for a search of its folder or of one above
\* it during the copy.
THEOREM NothingLost == Spec => []NoFileLost
  <1>1. Init => NoFileLost
    BY DEF Init, NoFileLost
  <1> QED
    BY <1>1, CopyAlways, LostNext, PTL DEF Spec

-----------------------------------------------------------------------------
(* The functions implement FolderMove. *)

LEMMA PhaseGoes ==
  ASSUME TInv, TInv', stack # << >>, UNCHANGED op, Kept(stack')
  PROVE  PhaseOf # "rest" /\ PhaseOf' \in {PhaseOf, "rest"}
  <1>1. op' = op /\ TwoPasses' = TwoPasses
    BY DEF TwoPasses
  <1>2. Committed <=> Deleting(stack, op)
    BY CommittedMeans DEF TInv, Committed
  <1>3. ASSUME stack' # << >> PROVE Committed' <=> Deleting(stack', op)
    <2> DEFINE s2 == stack'
    <2>1. s2 \in Seq(Frames) /\ Shape(s2, op) /\ s2 # << >>
      BY <1>1, <1>3 DEF TInv
    <2>2. s2[Len(s2)].pc = "deleted" <=> Deleting(s2, op)
      BY <2>1, CommittedMeans
    <2> QED
      BY <2>2 DEF Committed
  <1>4. stack' # << >> => (Committed' <=> Committed)
    BY <1>2, <1>3 DEF Kept
  <1>5. PhaseOf # "rest"
    BY DEF PhaseOf
  <1>6. CASE stack' = << >>
    BY <1>5, <1>6 DEF PhaseOf
  <1>7. CASE stack' # << >>
    BY <1>1, <1>4, <1>5, <1>7 DEF PhaseOf
  <1> QED
    BY <1>5, <1>6, <1>7

ScopeOf == {e \in start \cap Files : InScope(e)}

LEMMA ScopeStays == ASSUME op' = op, start' = start PROVE ScopeOf' = ScopeOf
  BY DEF ScopeOf, InScope

\* Steps that change no file: they go on, or end the call.
LEMMA QuietStep ==
  ASSUME FilesStay, op' = op, start' = start, unread' = unread,
         PhaseOf' = PhaseOf \/ (PhaseOf # "rest" /\ PhaseOf' = "rest")
  PROVE  [Move!Next]_(Move!vars)
  <1>1. ScopeOf' = ScopeOf
    BY ScopeStays
  <1>2. CASE PhaseOf' = PhaseOf
    BY <1>1, <1>2 DEF Move!vars, FilesStay, ScopeOf
  <1>3. CASE PhaseOf # "rest" /\ PhaseOf' = "rest"
    BY <1>1, <1>3 DEF Move!Next, Move!End, FilesStay, ScopeOf
  <1> QED
    BY <1>2, <1>3

LEMMA MoveBegins ==
  ASSUME NEW name \in Walkers \cup Callers, NEW sub, NEW masked, NEW term,
         Begin(name, sub, masked, term), stack' # << >>, stack'[Len(stack')].pc # "deleted"
  PROVE  Move!Next
  <1>1. PhaseOf = "rest" /\ src' = src /\ dst' = dst /\ start' = src /\ unread' = {}
    BY DEF Begin, PhaseOf
  <1>2. ~Committed'
    BY DEF Committed
  <1>3. PhaseOf' \in {"copying", "clearing", "free"}
    BY <1>2 DEF PhaseOf
  <1>4. {e \in start' \cap Files : InScope(e)'} \subseteq src \cap Files
    BY <1>1
  <1>5. Move!Begin
    BY <1>1, <1>3, <1>4 DEF Move!Begin
  <1> QED
    BY <1>5 DEF Move!Next

LEMMA MoveNext == TInv /\ TInv' /\ CInv /\ [Next]_vars => [Move!Next]_(Move!vars)
  <1> SUFFICES ASSUME TInv, TInv', CInv, [Next]_vars PROVE [Move!Next]_(Move!vars)
    OBVIOUS
  <1>1. ASSUME NEW sub \in BOOLEAN, NEW masked \in BOOLEAN, NEW term \in BOOLEAN,
               \/ CopyFolder(sub, masked, term)
               \/ DeleteFolderContents(sub, masked, term)
        PROVE  Move!Next
    <2>1. PICK name \in Walkers : /\ Begin(name, sub, masked, term)
                                  /\ \E f : stack' = <<f>> /\ f.pc = "enter"
      BY <1>1 DEF CopyFolder, DeleteFolderContents, Walkers, Frame
    <2>2. stack' # << >> /\ stack'[Len(stack')].pc # "deleted"
      BY <2>1
    <2> QED
      BY <2>1, <2>2, MoveBegins
  <1>2. ASSUME NEW sub \in BOOLEAN, NEW masked \in BOOLEAN, NEW term \in BOOLEAN,
               MoveFolder(sub, masked, term)
        PROVE  Move!Next
    <2>1. PICK f, b : stack' = <<f, b>> /\ b.pc = "copied"
      BY <1>2 DEF MoveFolder, Frame
    <2>2. stack' # << >> /\ stack'[Len(stack')].pc # "deleted"
      BY <2>1
    <2> QED
      BY <1>2, <2>2, MoveBegins DEF MoveFolder, Callers
  <1>3. ASSUME NEW term \in BOOLEAN, RemoveFolder(term) PROVE Move!Next
    <2>1. PICK f, b : stack' = <<f, b>> /\ b.pc = "emptied"
      BY <1>3 DEF RemoveFolder, Frame
    <2>2. stack' # << >> /\ stack'[Len(stack')].pc # "deleted"
      BY <2>1
    <2>3. \E sub, masked : Begin("RemoveFolder", sub, masked, term)
      BY <1>3 DEF RemoveFolder
    <2> QED
      BY <2>2, <2>3, MoveBegins DEF Callers
  <1>4. CASE MoveCopied
    <2>1. /\ stack # << >> /\ Fr.fn = "MoveFolder" /\ Fr.pc = "copied"
          /\ src' = src /\ dst' = dst /\ op' = op
          /\ start' = start /\ unread' = unread /\ TwoPasses' = TwoPasses
      BY <1>4 DEF MoveCopied, Running, TwoPasses
    <2>2. /\ Tail(stack) = << >> /\ Fr \in Frames /\ Fr = stack[1] /\ op.name = "MoveFolder"
          /\ Len(stack) = 1
      BY <2>1, CallerRuns DEF Callers
    <2>3. PhaseOf = IF TwoPasses THEN "free" ELSE "copying"
      BY <2>1, <2>2 DEF PhaseOf, Committed
    <2>4. CASE ret
      <3> DEFINE b == [Fr EXCEPT !.pc = "deleted"]
                 f == Frame("DeleteFolderContents", "enter", Src, Fr.sub, Fr.masked, FALSE)
      <3>1. stack' = <<f, b>> \o Tail(stack)
        BY <1>4, <2>4 DEF MoveCopied, Call
      <3>2. stack' = <<f, b>> \o << >>
        BY <2>2, <3>1, Zenon
      <3>3. b.pc = "deleted"
        BY <2>2 DEF Frames
      <3> HIDE DEF f, b
      <3>4. stack' = <<f, b>>
        BY <3>2
      <3>5. stack' # << >> /\ Committed'
        BY <3>3, <3>4 DEF Committed
      <3>6. PhaseOf' = IF TwoPasses THEN "free" ELSE "deleting"
        BY <2>1, <2>2, <3>5 DEF PhaseOf
      <3>7. CASE TwoPasses
        BY <2>1, <2>3, <3>6, <3>7, QuietStep DEF FilesStay
      <3>8. CASE ~TwoPasses
        <4>1. WalkFn(stack, op) = "CopyFolder"
          BY <2>1, <2>2 DEF WalkFn, Deleting
        <4>2. AllCopied(op, Due, dst) /\ Rooted(Due) /\ Due \subseteq Files \cup Dirs
          BY <2>1, <2>2, <2>4, <3>8, <4>1 DEF CInv, Copying, CopyInv, TInv, Lenient, Due
        <4>3. ScopeOf \ (unread \cap Files) \subseteq dst \cap Files
          BY <4>2, ScopeArrives DEF ScopeOf, Due
        <4>4. ScopeOf' = ScopeOf
          BY <2>1, ScopeStays
        <4>5. Move!Commit
          BY <2>1, <2>3, <3>6, <3>8, <4>3, <4>4 DEF Move!Commit, ScopeOf
        <4> QED
          BY <4>5 DEF Move!Next
      <3> QED
        BY <3>7, <3>8
    <2>5. CASE ~ret
      <3>1. stack' = << >>
        BY <1>4, <2>2, <2>5 DEF MoveCopied, Return
      <3>2. PhaseOf' = "rest" /\ PhaseOf # "rest"
        BY <2>3, <3>1 DEF PhaseOf
      <3> QED
        BY <2>1, <3>2, QuietStep DEF FilesStay
    <2> QED
      BY <2>4, <2>5
  <1>5. CASE MoveDeleted \/ RemoveEmptied
    <2>1. /\ stack # << >> /\ Fr.fn \in Callers /\ op' = op
          /\ start' = start /\ unread' = unread /\ dst' = dst
      BY <1>5 DEF MoveDeleted, RemoveEmptied, Running, Callers
    <2>2. stack' = << >>
      BY <1>5, <2>1, CallerRuns DEF MoveDeleted, RemoveEmptied, Return
    <2>3. FilesStay
      BY <1>5, Tree DEF MoveDeleted, RemoveEmptied, RemoveDirectory, FilesStay
    <2>4. PhaseOf # "rest" /\ PhaseOf' = "rest"
      BY <2>1, <2>2 DEF PhaseOf
    <2> QED
      BY <2>1, <2>3, <2>4, QuietStep
  <1>6. CASE WalkerAction /\ ~SearchFails
    <2>1. /\ op' = op /\ start' = start /\ unread' = unread
          /\ stack # << >> /\ Kept(stack') /\ Fr.fn \in Walkers
      BY <1>6, WalkerKept DEF WalkerAction, EnterCopy, EnterDelete, StartPass, SearchFails,
                              EndPass, SkipItem, CopyFile, DeleteFile, Descend, Copied, Deleted
    <2>2. PhaseOf # "rest" /\ PhaseOf' \in {PhaseOf, "rest"} /\ ScopeOf' = ScopeOf
      BY <2>1, PhaseGoes, ScopeStays
    <2>3. CASE FilesStay
      BY <2>1, <2>2, <2>3, QuietStep
    <2>4. ASSUME NEW e \in src \cap Files, CopyFile, dst' = dst \cup {e}, src' = src
          PROVE  Move!Copy(e)
      <3>1. ~Deleting(stack, op) /\ op.name \in {"CopyFolder", "MoveFolder"}
        BY <2>1, <2>4, CopyRuns DEF CopyFile
      <3>2. ~Committed
        BY <2>1, <3>1, CommittedMeans DEF TInv, Committed
      <3>3. PhaseOf \in {"copying", "free"}
        BY <2>1, <3>1, <3>2 DEF PhaseOf
      <3> QED
        BY <2>1, <2>2, <2>4, <3>3 DEF Move!Copy, Move!GoOn, ScopeOf
    <2>5. ASSUME NEW e \in Files, Listed(e), Wanted(e), Fr.fn = "DeleteFolderContents",
                 src' = src \ {e}, dst' = dst
          PROVE  Move!Delete(e)
      <3>1. ~TwoPasses => InScope(e)
        BY <2>5, DeletedInScope
      <3>2. WalkFn(stack, op) = "DeleteFolderContents"
        BY <2>1, <2>5, WalkerRuns
      <3>3. \/ PhaseOf = "free"
            \/ PhaseOf = "clearing" /\ ~TwoPasses
            \/ PhaseOf = "deleting" /\ ~TwoPasses /\ Deleting(stack, op)
        <4>1. CASE TwoPasses
          BY <2>1, <4>1 DEF PhaseOf
        <4>2. CASE ~TwoPasses /\ op.name \in {"DeleteFolderContents", "RemoveFolder"}
          BY <2>1, <4>2 DEF PhaseOf
        <4>3. CASE ~TwoPasses /\ op.name \notin {"DeleteFolderContents", "RemoveFolder"}
          <5>1. Deleting(stack, op)
            BY <2>1, <3>2, <4>3 DEF WalkFn, TInv, CallsOf, Walkers, Callers, Shape
          <5>2. Committed
            BY <2>1, <5>1, CommittedMeans DEF TInv, Committed
          <5> QED
            BY <2>1, <4>3, <5>1, <5>2 DEF PhaseOf
        <4> QED
          BY <4>1, <4>2, <4>3
      <3>4. e \in start \cap Files =>
              \/ PhaseOf = "free"
              \/ PhaseOf = "clearing" /\ e \in ScopeOf
              \/ /\ PhaseOf = "deleting" /\ e \in ScopeOf
                 /\ e \in (dst \cap Files) \cup (unread \cap Files)
        BY <2>1, <3>1, <3>3, DeletedArrived DEF ScopeOf, Due
      <3> QED
        BY <2>1, <2>2, <2>5, <3>3, <3>4 DEF Move!Delete, Move!GoOn, ScopeOf
    <2> QED
      BY <1>6, <2>3, <2>4, <2>5, WalkerFiles DEF Move!Next
  <1>7. CASE SetEvent \/ UNCHANGED vars
    <2>1. /\ src' = src /\ dst' = dst /\ op' = op
          /\ start' = start /\ unread' = unread /\ stack' = stack
      BY <1>7 DEF SetEvent, vars
    <2>2. PhaseOf' = PhaseOf
      BY <2>1 DEF PhaseOf, Committed, TwoPasses
    <2> QED
      BY <2>1, <2>2, QuietStep DEF FilesStay
  <1>8. CASE NewFile
    <2>1. PICK e \in Late : src' = src \cup {e}
      BY <1>8 DEF NewFile
    <2>2. /\ dst' = dst /\ op' = op /\ start' = start
          /\ unread' = unread /\ stack' = stack /\ e \in Files
      BY <1>8, Tree DEF NewFile
    <2>3. PhaseOf' = PhaseOf /\ ScopeOf' = ScopeOf
      BY <2>2, ScopeStays DEF PhaseOf, Committed, TwoPasses
    <2>4. Move!Appear(e)
      BY <2>1, <2>2, <2>3 DEF Move!Appear, ScopeOf
    <2> QED
      BY <2>2, <2>4 DEF Move!Next
  <1>9. CASE SearchFails
    <2>1. /\ stack # << >> /\ Fr.fn \in Walkers /\ Kept(stack')
          /\ src' = src /\ dst' = dst /\ op' = op /\ start' = start
      BY <1>9, WalkerKept DEF SearchFails, WalkerAction
    <2>2. stack' # << >>
      BY <1>9, <2>1, BrokenFrame, GoneOn DEF SearchFails, Walking
    <2>3. PhaseOf' = PhaseOf /\ ScopeOf' = ScopeOf
      <3>1. PhaseOf' # "rest"
        BY <2>2 DEF PhaseOf
      <3> QED
        BY <2>1, <3>1, PhaseGoes, ScopeStays
    <2>4. CASE Fr.fn = "CopyFolder"
      <3>1. ~Deleting(stack, op) /\ op.name \in {"CopyFolder", "MoveFolder"}
        BY <2>1, <2>4, CopyRuns
      <3>2. ~Committed
        BY <2>1, <3>1, CommittedMeans DEF TInv, Committed
      <3>3. PhaseOf \in {"copying", "free"}
        BY <2>1, <3>1, <3>2 DEF PhaseOf
      <3>4. unread' = unread \cup Below(Fr.dir)
        BY <1>9, <2>4 DEF SearchFails
      <3>5. PICK S \in SUBSET Files : unread' \cap Files = (unread \cap Files) \cup S
        BY <3>4
      <3>6. Move!Miss(S)
        BY <2>1, <2>3, <3>3, <3>5 DEF Move!Miss, ScopeOf
      <3> QED
        BY <3>6 DEF Move!Next
    <2>5. CASE Fr.fn # "CopyFolder"
      <3>1. unread' = unread
        BY <1>9, <2>5 DEF SearchFails
      <3> QED
        BY <2>1, <2>3, <3>1, QuietStep DEF FilesStay
    <2> QED
      BY <2>4, <2>5
  <1> QED
    BY <1>1, <1>2, <1>3, <1>4, <1>5, <1>6, <1>7, <1>8, <1>9 DEF Next, WalkerAction

\* The four functions implement FolderMove: no step of a copy deletes, MoveFolder deletes only
\* after every file that it is about has been copied or missed because a search failed (lines 597
\* to 603 of filemisc.cpp), and no file is deleted that the mask, a dot in its path or
\* bIncludeSubFolders leave out.
THEOREM MoveImplemented == Spec => MoveSpec
  <1>1. Init => Move!Init
    BY DEF Init, Move!Init, PhaseOf
  <1>2. Spec => [](TInv /\ CInv)
    BY CopyAlways
  <1> QED
    BY <1>1, <1>2, MoveNext, PTL DEF Spec, MoveSpec, Move!Spec
=============================================================================
