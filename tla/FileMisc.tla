------------------------------ MODULE FileMisc ------------------------------
(***************************************************************************)
(* The folder operations of src/StarLib/File/filemisc.cpp: CopyFolder,     *)
(* DeleteFolderContents, and MoveFolder and RemoveFolder made of the two.  *)
(*                                                                         *)
(* They walk a tree of folders recursively, optionally restricted to the   *)
(* files that match a mask, and look at an event between two items that    *)
(* stops them.  Any call to the file system may fail, the search for the   *)
(* items of a folder too, and another program may put files into the       *)
(* source folder meanwhile.  The recursion is an explicit stack, the       *)
(* running function at its head; ret is the value that the last function   *)
(* returned.                                                               *)
(***************************************************************************)
EXTENDS Naturals, Sequences

CONSTANTS
    Dirs, Files,  \* the source folder with all below it, and their files
    Src,          \* the source folder itself
    Parent,       \* the folder of every file and of every other folder
    Matching,     \* the files that match the mask
    Dotted,       \* the files and folders whose name begins with a dot
    Late          \* the files that another program creates

Items == Files \cup (Dirs \ {Src})
Dot   == "."

ASSUME Tree ==
    /\ Src \in Dirs
    /\ Dirs \cap Files = {}
    /\ Dot \notin Dirs \cup Files
    /\ Parent \in [Items -> Dirs]
    /\ Matching \subseteq Files
    /\ Dotted \subseteq Items
    /\ Late \subseteq Files
    /\ \A S \in SUBSET (Dirs \ {Src}) :  \* every folder is below the source folder
         (\A d \in S : Parent[d] \in S) => S = {}

VARIABLES
    src,        \* the files and folders of the source that exist
    dst,        \* those of which the destination has a copy
    op,         \* the call that the program made last
    stack,      \* the functions that are running
    ret,        \* what the last one returned
    signalled,  \* hTerminate
    autoReset,  \* the event is reset by the wait that sees it
    atRoot,     \* the source is the root of a drive, which lists no "."
    (* history, read by the properties only *)
    start,      \* src when op began
    unread,     \* what is in the folders of which a search failed in op's copy
    asked,      \* hTerminate was signalled since
    after       \* items handled since then: none, one, or more

kind == <<autoReset, atRoot>>
vars == <<src, dst, op, stack, ret, signalled, kind, start, unread, asked, after>>

----------------------------------------------------------------------------

Frame(fn, pc, d, sub, masked, term) ==
    [fn |-> fn, pc |-> pc, dir |-> d, sub |-> sub, masked |-> masked, term |-> term,
     pass |-> 0, todo |-> {}, res |-> TRUE, cur |-> Dot]

Fr        == Head(stack)
Running(fn, pc) == stack # <<>> /\ Fr.fn = fn /\ Fr.pc = pc
Walking(pc)     == stack # <<>> /\ Fr.fn \in {"CopyFolder", "DeleteFolderContents"} /\ Fr.pc = pc

Become(f)    == stack' = <<f>> \o Tail(stack) /\ UNCHANGED ret
Call(f, new) == stack' = <<new, f>> \o Tail(stack) /\ UNCHANGED ret
Return(r)    == stack' = Tail(stack) /\ ret' = r

(* MoveFolder has begun to delete, hTerminate does not count any more. *)
Committed == stack[Len(stack)].pc = "deleted"

(* An item is copied, created or deleted that hTerminate could have saved. *)
Handled == after' = IF asked /\ ~Committed /\ after < 2 THEN after + 1 ELSE after

(* WaitForSingleObject(hTerminate, 0) == WAIT_OBJECT_0 *)
Stopped   == Fr.term /\ signalled
Looked    == signalled' = (signalled /\ ~(Fr.term /\ autoReset))
NotLooked == UNCHANGED signalled

Here(d) == {e \in Items : Parent[e] = d} \cap src

(* Everything in the folder d, and in the folders below it. *)
Below(d) ==
    {e \in Items : \A S \in SUBSET Items :
        (\A x \in Items : Parent[x] \in S \cup {d} => x \in S) => e \in S}

Init ==
    /\ src = (Files \ Late) \cup Dirs
    /\ dst = {}
    /\ op = [name |-> "none", sub |-> FALSE, masked |-> FALSE, term |-> FALSE]
    /\ stack = <<>>
    /\ ret = TRUE
    /\ signalled = FALSE
    /\ autoReset \in BOOLEAN /\ atRoot \in BOOLEAN
    /\ start = {} /\ unread = {} /\ asked = FALSE /\ after = 0

----------------------------------------------------------------------------
(* The program calls one of the four functions. *)

Begin(name, sub, masked, term) ==
    /\ stack = <<>>
    /\ op' = [name |-> name, sub |-> sub, masked |-> masked, term |-> term]
    /\ \E s \in BOOLEAN : signalled' = (s /\ term) /\ asked' = (s /\ term)
    /\ start' = src /\ unread' = {}
    /\ after' = 0
    /\ UNCHANGED <<src, dst, ret, kind>>

CopyFolder(sub, masked, term) ==
    /\ Begin("CopyFolder", sub, masked, term)
    /\ stack' = <<Frame("CopyFolder", "enter", Src, sub, masked, term)>>

DeleteFolderContents(sub, masked, term) ==
    /\ Begin("DeleteFolderContents", sub, masked, term)
    /\ stack' = <<Frame("DeleteFolderContents", "enter", Src, sub, masked, term)>>

MoveFolder(sub, masked, term) ==
    /\ Begin("MoveFolder", sub, masked, term)
    /\ stack' = <<Frame("CopyFolder", "enter", Src, sub, masked, term),
                  Frame("MoveFolder", "copied", Src, sub, masked, term)>>

RemoveFolder(term) ==
    /\ Src \in src
    /\ Begin("RemoveFolder", TRUE, FALSE, term)
    /\ stack' = <<Frame("DeleteFolderContents", "enter", Src, TRUE, FALSE, term),
                  Frame("RemoveFolder", "emptied", Src, TRUE, FALSE, term)>>

(* Faulty: the source is deleted whatever CopyFolder returned. *)
MoveCopiedAnyway ==
    /\ Running("MoveFolder", "copied")
    /\ Call([Fr EXCEPT !.pc = "deleted"],
            Frame("DeleteFolderContents", "enter", Src, Fr.sub, Fr.masked, FALSE))
    /\ UNCHANGED <<src, dst, op, signalled, kind, start, unread, asked, after>>

(* The deletion is not given hTerminate and its result is not looked at. *)
MoveCopied ==
    /\ Running("MoveFolder", "copied")
    /\ IF ret
       THEN Call([Fr EXCEPT !.pc = "deleted"],
                 Frame("DeleteFolderContents", "enter", Src, Fr.sub, Fr.masked, FALSE))
       ELSE Return(FALSE)
    /\ UNCHANGED <<src, dst, op, signalled, kind, start, unread, asked, after>>

MoveDeleted ==
    /\ Running("MoveFolder", "deleted")
    /\ Return(TRUE)
    /\ UNCHANGED <<src, dst, op, signalled, kind, start, unread, asked, after>>

(* RemoveDirectory of an empty folder; it may fail like any other call. *)
RemoveDirectory(d, ok) ==
    /\ ok => Here(d) = {} /\ ~(d = Src /\ atRoot)
    /\ src' = IF ok THEN src \ {d} ELSE src

RemoveEmptied ==
    /\ Running("RemoveFolder", "emptied")
    /\ \/ /\ ~ret
          /\ Return(FALSE)
          /\ UNCHANGED <<src, after>>
       \/ /\ ret
          /\ \E ok \in BOOLEAN : RemoveDirectory(Src, ok) /\ Return(ok)
          /\ Handled
    /\ UNCHANGED <<dst, op, signalled, kind, start, unread, asked>>

----------------------------------------------------------------------------
(* CopyFolder and DeleteFolderContents: the tests at their beginning. *)

(* What FolderExists may answer: GetFileAttributes may fail. *)
FolderExists(d) == IF d \in src THEN BOOLEAN ELSE {FALSE}

(* The destination is created before the source is looked for. *)
EnterCopy ==
    /\ Running("CopyFolder", "enter")
    /\ \/ /\ Fr.dir \notin dst
          /\ Return(FALSE)
          /\ UNCHANGED <<dst, after>>
          /\ NotLooked
       \/ /\ dst' = dst \cup {Fr.dir}
          /\ IF Fr.dir \in dst THEN UNCHANGED after ELSE Handled
          /\ \E exists \in FolderExists(Fr.dir) :
               IF ~exists
               THEN Return(FALSE) /\ NotLooked
               ELSE /\ IF Stopped THEN Return(FALSE) ELSE Become([Fr EXCEPT !.pc = "pass"])
                    /\ Looked
    /\ UNCHANGED <<src, op, kind, start, unread, asked>>

EnterDelete ==
    /\ Running("DeleteFolderContents", "enter")
    /\ \E exists \in FolderExists(Fr.dir) :
         IF ~exists
         THEN Return(TRUE) /\ NotLooked
         ELSE /\ IF Stopped THEN Return(FALSE) ELSE Become([Fr EXCEPT !.pc = "pass"])
              /\ Looked
    /\ UNCHANGED <<src, dst, op, kind, start, unread, asked, after>>

(* One pass, or with a mask and subfolders one for each of the two. *)
Passes == IF Fr.sub /\ Fr.masked THEN 2 ELSE 1

(* What FindFirstFile and FindNextFile list, if they do not fail. *)
Listing == IF Fr.masked /\ Fr.pass = 0
           THEN Here(Fr.dir) \cap Matching
           ELSE Here(Fr.dir) \cup (IF Fr.dir = Src /\ atRoot THEN {} ELSE {Dot})

StartPass ==
    /\ Walking("pass")
    /\ IF Fr.pass = Passes
       THEN Return(Fr.res)
       ELSE Become([Fr EXCEPT !.pc = "loop", !.todo = Listing])
    /\ UNCHANGED <<src, dst, op, signalled, kind, start, unread, asked, after>>

(* FindFirstFile fails, or FindNextFile before the end: what has not been  *)
(* listed is left out, and bResult does not tell.                          *)
SearchFails ==
    /\ Walking("loop")
    /\ Fr.todo # {}
    /\ Become([Fr EXCEPT !.todo = {}])
    /\ unread' = IF Fr.fn = "CopyFolder" THEN unread \cup Below(Fr.dir) ELSE unread
    /\ UNCHANGED <<src, dst, op, signalled, kind, start, asked, after>>

EndPass ==
    /\ Walking("loop")
    /\ Fr.todo = {}
    /\ Become([Fr EXCEPT !.pc = "pass", !.pass = Fr.pass + 1])
    /\ UNCHANGED <<src, dst, op, signalled, kind, start, unread, asked, after>>

----------------------------------------------------------------------------
(* One item of the listing. *)

(* Faulty: the loop goes on after an item that failed. *)
NextItemRegardless(f) ==
    /\ IF Stopped THEN Return(FALSE) ELSE Become([f EXCEPT !.pc = "loop"])
    /\ Looked

(* The end of the loop body: a stop leaves the function, a failure the pass. *)
NextItem(f) ==
    /\ IF Stopped
       THEN Return(FALSE)
       ELSE Become([f EXCEPT !.pc = "loop", !.todo = IF f.res THEN f.todo ELSE {}])
    /\ Looked

(* "." is listed first, the rest in any order. *)
Listed(e) == /\ Walking("loop")
             /\ e \in Fr.todo
             /\ Dot \in Fr.todo => e = Dot

Rest(e) == [Fr EXCEPT !.todo = Fr.todo \ {e}]

(* Names with a dot are left out; CopyFolder leaves the files out of the   *)
(* second pass, DeleteFolderContents does not.                             *)
Wanted(e) ==
    /\ e \notin Dotted \cup {Dot}
    /\ e \in Dirs  => Fr.sub /\ Fr.pass = Passes - 1
    /\ e \in Files /\ Fr.fn = "CopyFolder" => Fr.pass = 0

SkipItem ==
    /\ \E e \in Files \cup Dirs \cup {Dot} : Listed(e) /\ ~Wanted(e) /\ NextItem(Rest(e))
    /\ UNCHANGED <<src, dst, op, kind, start, unread, asked, after>>

CopyFile ==
    /\ \E e \in Files, ok \in BOOLEAN :
         /\ Listed(e) /\ Wanted(e)
         /\ Fr.fn = "CopyFolder"
         /\ ok => e \in src
         /\ dst' = IF ok THEN dst \cup {e} ELSE dst
         /\ NextItem([Rest(e) EXCEPT !.res = ok])
    /\ Handled
    /\ UNCHANGED <<src, op, kind, start, unread, asked>>

DeleteFile ==
    /\ \E e \in Files, ok \in BOOLEAN :
         /\ Listed(e) /\ Wanted(e)
         /\ Fr.fn = "DeleteFolderContents"
         /\ src' = IF ok THEN src \ {e} ELSE src
         /\ NextItem([Rest(e) EXCEPT !.res = ok])
    /\ Handled
    /\ UNCHANGED <<dst, op, kind, start, unread, asked>>

(* Faulty: the folder is searched again instead of the subfolder. *)
SubFrameSame(e) ==
    Frame(Fr.fn, "enter", Fr.dir, TRUE, Fr.masked /\ Fr.fn = "DeleteFolderContents", Fr.term)

(* Faulty: hTerminate is not handed on. *)
SubFrameUnstoppable(e) ==
    Frame(Fr.fn, "enter", e, TRUE, Fr.masked /\ Fr.fn = "DeleteFolderContents", FALSE)

(* Below the source folder CopyFolder takes every file, mask or not. *)
SubFrame(e) ==
    Frame(Fr.fn, "enter", e, TRUE, Fr.masked /\ Fr.fn = "DeleteFolderContents", Fr.term)

Descend ==
    /\ \E e \in Dirs :
         /\ Listed(e) /\ Wanted(e)
         /\ Call([Rest(e) EXCEPT !.pc = "back", !.cur = e], SubFrame(e))
    /\ UNCHANGED <<src, dst, op, signalled, kind, start, unread, asked, after>>

(* Faulty: the result of the subfolder is dropped. *)
CopiedIgnored ==
    /\ Running("CopyFolder", "back")
    /\ NextItem(Fr)
    /\ UNCHANGED <<src, dst, op, kind, start, unread, asked, after>>

Copied ==
    /\ Running("CopyFolder", "back")
    /\ NextItem([Fr EXCEPT !.res = ret])
    /\ UNCHANGED <<src, dst, op, kind, start, unread, asked, after>>

(* An emptied folder is removed; a failure below leaves bResult alone. *)
Deleted ==
    /\ Running("DeleteFolderContents", "back")
    /\ \/ /\ ~ret \/ Fr.masked
          /\ NextItem(Fr)
          /\ UNCHANGED <<src, after>>
       \/ /\ ret /\ ~Fr.masked
          /\ \E ok \in BOOLEAN : /\ RemoveDirectory(Fr.cur, ok)
                                 /\ NextItem([Fr EXCEPT !.res = ok])
          /\ Handled
    /\ UNCHANGED <<dst, op, kind, start, unread, asked>>

----------------------------------------------------------------------------
(* The rest of the program and other programs. *)

SetEvent ==
    /\ stack # <<>>
    /\ op.term
    /\ ~asked
    /\ signalled' = TRUE
    /\ asked' = TRUE
    /\ UNCHANGED <<src, dst, op, stack, ret, kind, start, unread, after>>

NewFile ==
    /\ \E e \in Late \ src : Parent[e] \in src /\ src' = src \cup {e}
    /\ UNCHANGED <<dst, op, stack, ret, signalled, kind, start, unread, asked, after>>

Next ==
    \/ \E sub, masked, term \in BOOLEAN :
         \/ CopyFolder(sub, masked, term)
         \/ DeleteFolderContents(sub, masked, term)
         \/ MoveFolder(sub, masked, term)
    \/ \E term \in BOOLEAN : RemoveFolder(term)
    \/ MoveCopied \/ MoveDeleted \/ RemoveEmptied
    \/ EnterCopy \/ EnterDelete \/ StartPass \/ SearchFails \/ EndPass
    \/ SkipItem \/ CopyFile \/ DeleteFile \/ Descend \/ Copied \/ Deleted
    \/ SetEvent \/ NewFile

Spec == Init /\ [][Next]_vars

----------------------------------------------------------------------------

IsFrame(f) ==
    /\ f.fn \in {"CopyFolder", "DeleteFolderContents", "MoveFolder", "RemoveFolder"}
    /\ f.pc \in {"enter", "pass", "loop", "back", "copied", "deleted", "emptied"}
    /\ f.dir \in Dirs
    /\ f.sub \in BOOLEAN /\ f.masked \in BOOLEAN /\ f.term \in BOOLEAN /\ f.res \in BOOLEAN
    /\ f.pass \in 0..2
    /\ f.todo \subseteq {e \in Items : Parent[e] = f.dir} \cup {Dot}
    /\ f.cur \in Dirs \cup {Dot}

(* Every function works on its own folder and its caller on the parent of  *)
(* that one, so that the recursion is no deeper than the tree.             *)
TypeOK ==
    /\ src \subseteq Files \cup Dirs
    /\ dst \subseteq Files \cup Dirs
    /\ op.name \in {"none", "CopyFolder", "DeleteFolderContents", "MoveFolder", "RemoveFolder"}
    /\ op.sub \in BOOLEAN /\ op.masked \in BOOLEAN /\ op.term \in BOOLEAN
    /\ \A i \in 1..Len(stack) : IsFrame(stack[i])
    /\ \A i \in 1..Len(stack) - 1 :
         IF stack[i + 1].fn \in {"MoveFolder", "RemoveFolder"}
         THEN stack[i].dir = Src
         ELSE /\ stack[i].dir # Src
              /\ stack[i + 1].dir = Parent[stack[i].dir]
              /\ stack[i + 1].cur = stack[i].dir
    /\ {ret, signalled, autoReset, atRoot, asked} \subseteq BOOLEAN
    /\ start \subseteq Files \cup Dirs /\ unread \subseteq Items
    /\ after \in 0..2

(* The files that a call with op's parameters is about: no dot in their    *)
(* path, and for those in the source folder itself, the mask.              *)
Plain[e \in Items \cup {Src}] == e = Src \/ (e \notin Dotted /\ Plain[Parent[e]])
InScope(e) == /\ e \in Files /\ Plain[e]
              /\ IF Parent[e] = Src THEN op.masked => e \in Matching ELSE op.sub

(* A mask together with subfolders: the second pass of line 346 then also  *)
(* deletes the files that do not match, which CopyFolder left out.         *)
TwoPasses == op.masked /\ op.sub

(* MoveFolder deletes the source only after CopyFolder returned TRUE       *)
(* (lines 597 to 603).  Whatever else fails, whenever it is stopped and    *)
(* after any sequence of earlier calls, a file that was there at the       *)
(* beginning is in the source or in the destination, unless a search of    *)
(* its folder, or of one above it, failed while that was copied (lines 636 *)
(* and 666 drop that error, and the deletion follows).                     *)
NoFileLost ==
    op.name \in {"CopyFolder", "MoveFolder"} /\ ~TwoPasses =>
        \A e \in (start \ unread) \cap Files : e \in src \cup dst

(* The functions implement FolderMove: besides NoFileLost, no step of a    *)
(* copy deletes, a move commits only when every file it is about has been  *)
(* copied but for those that a failed search left out, and no file is      *)
(* deleted, by MoveFolder or DeleteFolderContents, that the mask, a dot in *)
(* its path or bIncludeSubFolders leave out, whichever search fails.       *)
PhaseOf ==
    IF stack = <<>> THEN "rest"
    ELSE IF TwoPasses THEN "free"
    ELSE IF op.name \in {"DeleteFolderContents", "RemoveFolder"} THEN "clearing"
    ELSE IF Committed THEN "deleting" ELSE "copying"

Move == INSTANCE FolderMove
          WITH from <- src \cap Files, to <- dst \cap Files, phase <- PhaseOf,
               promised <- start \cap Files, scope <- {e \in start \cap Files : InScope(e)},
               missed <- unread \cap Files

MoveSpec == Move!Spec

(* CopyFolder returns TRUE (line 672) only when every file that was there  *)
(* and that it was asked for has been copied, but for those in or below a  *)
(* folder of which a search failed (lines 636 and 666 drop that error); at *)
(* the root of a drive this holds for a single pass only, since there the  *)
(* second one forgets the failure of the first.                            *)
TrueMeansCopied ==
    ( /\ stack = <<>> /\ ret
      /\ op.name \in {"CopyFolder", "MoveFolder"}
      /\ ~(TwoPasses /\ atRoot) )
    => \A e \in start \ unread : InScope(e) => e \in dst

(* hTerminate is looked at after every item and after every return from a  *)
(* subfolder (lines 351 and 664): it lets one more item through at most.   *)
(* DeleteFolderContents needs an event that stays signalled for that.      *)
StopSoon == (op.name # "CopyFolder" /\ op.name # "MoveFolder" => ~autoReset) => after < 2
=============================================================================
