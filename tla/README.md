# lib2 in TLA+

lib2 is a collection of Windows C++ libraries: `StarLib`, `viksoe`, `TcpSocket`, `commonres` and `Compress` are the
repository's own code, the rest is third-party code and prebuilt binaries. There is no program that joins the parts; a
component is a class or a namespace that an application links. This project models the components whose correctness
depends on threads, on failures half-way or on the order of calls.

| Module | Component | Kind |
|---|---|---|
| `CThread` | thread wrapper, `StarLib/LicenseLib/Thread.{h,cpp}` | detailed specification |
| `HandleLease` | life cycle of a thread handle | abstract specification that `CThread` implements |
| `CThread_proofs` | | proofs about `CThread` |
| `MCThread`, `CThreadClaims` | | instances; a claim of a comment that fails |
| `HttpDownload` | download dialog and worker, `commonres/HttpDownloadDlg.cpp`, `commonres.cpp` | detailed specification |
| `HttpDownload_proofs` | | proofs about `HttpDownload` |
| `MCHttpDownload` | | instances and a claim that fails |
| `CAPIHook_New` | import table hooks, `StarLib/Hook/APIHook_new.cpp` | detailed specification |
| `CAPIHook_New_proofs` | | proofs about `CAPIHook_New` |
| `MCAPIHook_New` | | instance |
| `FileMisc` | folder operations, `StarLib/File/filemisc.cpp` | detailed specification |
| `FolderMove` | what a copy, move or deletion does to single files | abstract specification that `FileMisc` implements |
| `FileMisc_proofs` | | proofs about `FileMisc` |
| `MCFileMisc` | | instance |
| `TcpSocket` | socket class, `TcpSocket/TcpSocket.{h,cpp}` | detailed specification |
| `TcpSocket_proofs`, `TcpHandles_proofs` | | proofs about `TcpSocket`: types, locks and sockets; what threads do with a loaded handle |
| `MCTcpSocket` | | instance |
| `InlineHook` | inline hooks, `StarLib/Hook/APIHook.cpp`, `HookClass.cpp` | detailed specification |
| `MCInlineHook` | | instance |
| `InlineHook_proofs` | | proofs about `InlineHook` |
| `DateHelper` | date arithmetic, `StarLib/TimeHelper/DateHelper.cpp` | algorithms against the calendar |
| `DateHelper_proofs` | | proofs about `DateHelper` |
| `MCDateHelper` | | instance |

`PROJECT.json` maps every definition to its source lines and lists the hazards at the lines where they bite.

## Inventory

**CThread.** State: `thread_handle_`, `terminated_`, `suspended_`, `self_delete_` of the object; handle, suspend count
and position of every thread it started. Operations: start, stop, suspend, resume, wait, terminate flag, self-deletion
flag, destructor; `execute()` in the new thread. Nothing is locked, the handle is passed with `InterlockedExchange`.
Hard: three parties race for the handle; the object may delete itself under a caller; a timed wait races with the end
of the thread; restarts. Correct when a handle has one holder, is closed once, and a stop ends the thread.

**CHttpDownloadDlg.** State: the dialog (UI thread), the worker, the abort flag, the file, three WinInet handles, the
message queue. The worker's `SetWindowText` calls are messages to the UI thread, `OnDestroy` waits for the worker.
Hard: abort at any point, any WinInet or file call failing, two threads waiting for each other. Correct when IDOK means
a complete file, nothing partial is left, and the dialog always goes away.

**CAPIHook_New.** State: the list `sm_pHeader` of objects, the import table of every module. The constructor and
destructor rewrite all tables; replaced `LoadLibrary` and `GetProcAddress` walk the list. Nothing is locked. Hard: a
load beside a construction or destruction, several objects for one function, recursion through the own import table.
Correct when no module is missed, no module calls the hook of a dead object, and a lookup sees every object.

**FileMisc.** State: the source and destination trees and the recursion. Hard: any item may fail, a stop event may come
at any time, two passes with a mask, another program writes meanwhile, deletion after copying. Correct when nothing is
lost, TRUE means done, and a stop is obeyed soon.

**CTcpAsyncSocket.** State: one socket handle per object and, with `MULT_THREAD`, a critical section; the kernel's
sockets and its table of handle values. `Close`, `Create`, `Bind`, `Listen` and `IOCtl` work without the lock, `Accept`
writes into another object, `ReceiveFrom` and `Accept` wait with the lock held. Hard: a close beside any other function,
handle values that are handed out again, data that somebody else takes between the question and the read, failures that
close the socket or do not. Correct when a function acts on its own object's socket, no socket is lost, and the lock is
always given back.

**CAPIHook, CHookClass** (inline hooks). State: the first bytes of a function and, per object, the bytes it saved. They
put the saved bytes back so that the hook procedure can call the function. Hard: other threads call the function
meanwhile, several objects save each other's jumps, the two classes write different lengths, writes fail. Correct when
the function begins with one whole jump or with its own bytes, and is itself again at the end.

**CDateHelper.** No state but the clock it reads. Hard: months of four lengths, leap years and centuries, 16 bit
arithmetic with negative amounts, loops that stride over a month, two readings of the clock. Correct when it agrees
with the calendar.

**The rest** is sequential: wrappers of one Windows call per function (`viksoe`: registry, services, directories,
drives, ini files, links, versions; `StarLib`: ini files, registry, sockets, shared memory, locks), ciphers and
compression, time and code page conversion, serial numbers and machine identity, image arithmetic. These keep no state
between calls that a model could get wrong, or are data-only algorithms. `CExecProg` waits for a process in a loop that
cannot end because the handle lacks SYNCHRONIZE. Vendored code (Detours, OpenSSL, zlib, libpng, Lua, SDL, ...) is left
alone.

The components do not call each other. The one dependency is on Windows, whose part is modelled where it is used:
handles, suspend counts, message dispatch, module loading, the file system.

## Thread wrapper: `CThread`

An action is what lies between two accesses to shared memory or to the kernel; `pc[c]` is where client `c` is in the
member function it called, `wpc[t]` where thread `t` is in `execute()`. Clients call any function in `Calls` at any
time while they know the object; only `Owner` starts the thread and deletes the object. A client or thread at a
statement that uses the object's memory after it was freed goes to `fault` (`ClientFault`, `WorkerFault`).
`_beginthreadex` may fail (`CreateFails`). The wait of `stop_thread` (one second by default, never INFINITE) may time out whenever the
thread is not over. The destructor runs when no client is inside a call, as for any object. `ResumeCall` is one round of the loop in `resume_thread(true)`.

Abstractions: `TerminateThread` takes effect at once; Windows does not give a closed handle's value to another object;
`thread_id_` and `thread_info_` are left out, but writing them counts as using the object.

* `thread_races` (two clients, two threads, `MaxSuspend = 2`, restarts at any time): `TypeOK`; `HandleOwnership`, each
  handle has one holder and is open while held, so that none is closed twice; `LeaseSpec`, the refinement of
  `HandleLease`. Two clients and two threads are the least with a stop against a stop, a thread's end against both, and an old thread
  taking a new thread's handle; a suspend count of 2 needs two rounds of the loop.
* `thread_serial` (`Serial`: the owner restarts only when the previous thread is over): `NoLostHandle`,
  `StopOwnsObject`, `StopLeavesIdle` (a stop that returns while nobody else starts or stops leaves no thread in
  `on_execute`, and the handle as the assertion of line 49 wants it for the next start) and, under fairness, `StopReturns`, `StopEndsThread` and `StopReleasesWaiters` (a
  `wait_for` on a thread that is stopped returns, though the handle it waits on is closed). These fail without `Serial`, for
  instance because the old thread takes the new handle, and the liveness ones fail if clients call `suspend_thread`, which can
  undo every round of the resume loop; the instance therefore leaves it out.
* `thread_stopsafe`: the counterexample to a comment, see Findings.

Both passing runs allow the system to stop: all clients may be idle, the object deleted and the threads used up.

Fairness: weak fairness of every step of a call that was made and of every runnable thread outside `on_execute`, which
a preemptive scheduler gives; a wait with a timeout is over some time. Nothing is assumed of `on_execute`, which may run
for ever.

## Download dialog: `HttpDownload`

`ui` is what the UI thread does (`show`, `init`, the message `loop`, a message box, `destroy`, `over`), `w` the
position of the worker in `DownloadThread`, `msgs` the posted messages. A worker step that sends a message requires
`Pumping`. Every WinInet and file call may fail. `server` says whether the server sends the file, a denial, or neither
without end. The body is `Chunks` reads; `MaxRetries` bounds the loop through the login dialog.

A read of 0 bytes ends the loop at the end of the body or when the connection closes early, which the code does not tell
apart (`cut`); `DeleteFile` may fail, which nobody looks at (`undeleted`). Both are history, as is `declined`, a login that
the user declined: they name the cases that `OkMeansComplete` and `NoPartialFile` except.

Abstractions: progress arithmetic is left out; the login dialog is the choice between retry and decline.

* `http` (3 chunks, 2 retries): `NoDestroyDeadlock`, `DestroyedClean`, `OkMeansComplete`, `NoPartialFile` and, under
  fairness, `AbortCloses`. Three chunks give a first, a middle and a last read; two retries let a handle be reused
  twice. The process stops when the dialog is over.
* `http_abort`: see Findings.

Fairness: the UI thread dispatches what is pending, the user closes message boxes and answers the login dialog, calls
return. An abort is never assumed. `AbortCloses` excepts the loop at line 465, which reads a 401 body to its end and
does not look at `m_bAbort`.

## Import table hooks: `CAPIHook_New`

`head`, `next` and `life` are the list and its objects, `iat[m][f]` is what a call of `f` in module `m` reaches: `Orig`
or the object whose `m_pfnHook` it is. The constructor is `Construct` (next pointer), `Link`, `MakeList` (the module
snapshot), `MakeHook` (one module), `Made`; the destructor is `Destroy`, `UndoList`, `UndoHook`, `ReadHead`, `UnlinkFirst`,
`UnlinkInner`, `Destroyed`; a hooked load is `LoadLibrary`, `HookNewlyLoadedModule`, `HookOne`, `HookStep`. Using a destroyed object or
an unloaded module, and a replacement that calls itself through the own table, set `crashed`, which ends the behaviour.

Abstractions: the layout of import tables; the four `LoadLibrary` objects are one; failed loads and data files change
nothing. `owed`, `wild`, `blind` and `overlap` are history: they name the cases for which the code makes no provision, and
the properties except exactly these (dependencies that Windows loads along, a failed snapshot, a load beside a
destructor).

* `hook` (one thread that makes objects, one that loads; two objects for one function; a library that brings
  another): `NoModuleMissed`, `DeadHookGone`, `SearchFindsHook`. Two objects for one function give every order of
  construction and destruction; the dependency gives an unhooked caller of `LoadLibrary`. The objects are
  interchangeable, which is the symmetry used. One maker only: two makers lose list entries (lines 24, 25).
* `hook_own`: see Findings.

## Folder operations: `FileMisc`

The recursion is a stack of frames; `Frame` has the parameters and locals of one call, `pc` its position, `todo` what
`FindNextFile` will still list. `CopyFolder`, `DeleteFolderContents`, `MoveFolder` and `RemoveFolder` begin a call,
`EnterCopy`/`EnterDelete` are the tests at the beginning, `StartPass`/`EndPass` the loop over the passes,
`SkipItem`, `CopyFile`, `DeleteFile`, `Descend`, `Copied`, `Deleted` one item. Every call of the file system may fail,
the search too: `SearchFails` is a `FindFirstFile` or `FindNextFile` that fails and ends the loop as the last item would.
`SetEvent` signals `hTerminate`, `NewFile` is another program.

Abstractions: the listing is what is there when it begins, in any order with "." first (a drive root lists no
"."), as far as the search gets; the destination lies outside the source; `ProcessMsgLoop` appears only as another writer.

* `folder` (a folder with a file that matches the mask and one that does not and arrives late, a subfolder with a file and
  one whose name begins with a dot): `NoFileLost`, `TrueMeansCopied`, `StopSoon`, over any sequence of calls with any
  parameters, and `MoveSpec`, the refinement of `FolderMove`. In a move the `CopyFolder` of the
  upper folder has both a caller and a callee.

The exceptions in the properties are what the code does: what a failed search of the copy left out (`unread`: everything in and below
that folder) is excepted from `NoFileLost`, `TrueMeansCopied` and `MoveSpec`; a mask with subfolders (the second pass of line 346 deletes files that do not match) is excepted from
`NoFileLost`; at a drive root the second pass overwrites the failure of the first (`TrueMeansCopied`); an event that
resets itself is used up by the call for a subfolder and the caller goes on deleting (`StopSoon`).

`FolderMove` knows only files: where each one is, which a failed search has left out (`missed`), and the phase of the call.
A move commits when every file it is about has arrived, but for those left out, and deletes afterwards, and nothing is deleted that the mask, a dot or `bIncludeSubFolders` leaves out. The
mapping `PhaseOf` reads the phase from the stack; a mask with subfolders maps to the phase `free`, which promises
nothing. A file that another program adds after the call began may be deleted uncopied, there as in the code.

## Socket class: `TcpSocket`

`m_hSocket`, `m_bServer` and `lock` are the objects, `table` and `sk` the kernel: which socket a handle value stands for,
and for each socket its kind, what waits to be read, and the object it was made for. `th[t]` says in which member
function of which object a thread is, before which kernel call, and with which handle in `reg`. `Close` is three steps,
the test (`CloseTest`), `closesocket` with a handle that the build may load again or keep (`CloseSocket`), and the store
(`Clear`); `closes` counts the calls of `Close` a failing `Create`, `Bind` or `Connect` still makes. `mult` is the build:
`TcpSocket.h:15` leaves `MULT_THREAD` undefined. Construction, destruction, `Create` and the object given to `Accept`
are left to one thread; everything else may overlap.

Abstractions: `SendTo` and `Send` are one; sending never waits; a portion of data is a unit; addresses and log texts
are left out. `early`, `raw`, `abandoned`, `disturbed` and `foreign` are history. They name the cases for which the class
makes no provision, and the properties except exactly these: a `Connect` with an unknown name or a `Bind` with a bad
address, which keep the socket; an object of the constructor with a parameter, which leaves `m_hSocket` unset; a thread
whose socket another one closed meanwhile; everything after a thread has reached another object's socket. An `accept` with
a handle that is no longer the object's own counts as that too: it takes a connection away from the other object, whose
thread was told of one and then waits. This takes more threads or sockets than the run has, and showed only when
`ReceiveWontBlock` was to be proved.

* `tcp` (two threads, two objects, two handle values, two sockets, four calls, one portion of data, both builds):
  `CloseVerified` (the `VERIFY` of line 45, and that it is the own socket), `NoSocketLost`, `ReceiveWontBlock` (with
  `MULT_THREAD`), `SameSocket`, `LockBalanced`. Two sockets and as many values are the least in which a value is
  handed out again; four calls allow one or two to set an object up, and two or three to race. Threads, objects and handle values are
  interchangeable. All threads may be idle, or wait for a peer: the system may stop.

## Inline hooks: `InlineHook`

`head` and `tail` are the first five and the next three bytes of the function; `CHookClass` writes the former,
`CAPIHook` both, one part after the other. `stack` holds the objects, the newest first, `old` what each saved. An operation
is the test of `bTrapped` (`TestDone`, `TestGoOn`), the writes (`WriteHead`, `WriteTail`, or `WriteFails`) and the flag
(`SetTrapped`); `On` says which bytes it writes. `Main` makes, switches and destroys objects, the workers call the function: a jump
leads to the hook procedure, which takes the hook out, calls the function and puts it back (`CallHooked`, `PutBack`).

`tangled`, `overlap` and `failed` are history: objects used in another order than newest first or two at a time, two
threads in one object at a time, a read or a write of the code that failed (`CreateReadFails`, `WriteFails`).

* `inline` (two workers, two objects of any class, systems with and without page protection): `CodeTells`, what the
  function begins with between two operations; `OffOnlyInside`, one `CAPIHook` is never lost however many threads are in
  its hook procedure, since each of them puts the same bytes back; `WildOnlyInside`, bytes that are no code. For
  `CHookClass` the second does not hold (see below). Two objects give every nesting of the classes, two workers
  every order of taking out and putting back. The system may stop.

## Dates: `DateHelper`

A date is the number of its day. `OffsetDate`, `GetDate`, `CalcWeekdaysFromTo` and what they use are operators, with the
division of C and the 16 bits of a `WORD`; `Offset` and `Get` apply one to a day, `CalcDaysFromTo`, `ReadFrom` and `ReadTo`
are a call with its two readings of the clock in either order, `Midnight` the clock. `COleDateTime` is external and
modelled by the Gregorian calendar. The clock does not go back before 1970, the date that is offset is any in the years tried.

* `date` (every day of 1899, 2000 and 2100, weeks that begin on Monday, Saturday or Sunday, offsets of up to 14):
  `MonthOffsetRight`, `YearOffsetRight`, `EndsRight`, `WeekdaysRight` against definitions that do not use the code's; and
  `DaysNotNegative`, which midnight between the two readings does not break. Fourteen months go over a year and more both
  ways; 2100 is a common year, and a century; 1899 has both the last days that `OffsetDate` leaves alone (line 404:
  `m_dt`, which counts from 30 December 1899, is not above 0) and the first that it moves. `MonthOffsetRight` and
  `YearOffsetRight` are about dates after that day, `MonthOffsetRight` about month sums that are not below zero.
* `date_overflow`: see Findings.

Left out: parsing, formatting and names; the time of day.

## What is proved

The proofs hold for every value of the constants that the named assumptions allow; `tlapm` checks every step.

`CThread_proofs`, from `ConstantsAssumption`:

* `TypeCorrect`: `Spec => []TypeOK`. `TypeOK` is inductive.
* `OwnershipKept`: `Spec => []HandleOwnership`, inductive together with `TypeOK`. Every exchange moves a handle from
  one place to another empty one; `AssignHandle` stores a handle that only the starter has, over an empty member.
* `LeaseImplemented`: `Spec => LeaseSpec`, under `LeaseOf` and `Over`. It needs `LInv`, which adds `Starting` (until the
  owner has stored the new handle the member is empty, so that at most one handle is shared) and `Born` (a thread that
  exists has a handle, so that nothing unborn ends). Each action is one step of `HandleLease` or a stutter; the lemmas
  `LeaseClaim`, `LeaseClose`, `LeaseEnds`, `LeaseStutter` are the four cases.
* `NoneLost`, `StopIsSafe`, `StopLeavesNothing`: with `Serial`, `NoLostHandle`, `StopOwnsObject` and `StopLeavesIdle`, for any
  number of clients and of threads one after the other. The invariant is `SInv`. Its heart is `OneLive`: at most one thread
  runs or has an open handle, so an exchange in `execute()` finds its own handle or none (`OwnHandle`), a stop closes
  the handle of a thread that is over (`Killed`), and whoever frees the object is alone with it. `OneLive` needs the owner's
  discipline where `start_thread` begins (`Idle`) and where it calls `_beginthreadex` (`Creates`). The third theorem needs two more
  facts: what `_beginthreadex` returned is in one place at a time (`OnePlace`), so that nothing is left in the member while a
  stop has it, and between calls the member has the handle of a thread that is in `on_execute` (`Reachable`).

`HttpDownload_proofs`, from `ConstantsAssumption`, for a body of any length and any number of retries: `TypeCorrect`,
`DestroySafe` (`NoDestroyDeadlock`), `DestroyLeavesNothing` (`DestroyedClean`), `DownloadSound` (`OkMeansComplete`) and
`PartialFileRemoved` (`NoPartialFile`). All follow from `IInv == TypeOK /\ Phases /\ Contents`. `Phases` relates the two
threads (the worker posts once, just before it returns, and only then is the dialog taken down); `Contents` says what the
file holds at each point of the worker, in the read loop by the balance of chunks written, in the buffer and still to come.

`CAPIHook_New_proofs`, from `ConstantsAssumption`:

* `TypeCorrect` and `HooksUndone` (`DeadHookGone`), for any number of objects, modules and threads, several makers included. An object
  under construction or destruction belongs to one thread (`Owners`), nothing points to an object before its constructor
  runs (`RawUnseen`), outside the excepted overlap no load runs beside a destructor (`Alone`), and a table that still names
  the object is one that its destructor has yet to visit (`Undone`).
* `SearchTells` (`SearchFindsHook`) and `NoneMissed` (`NoModuleMissed`), for one thread that makes objects (`OneMaker`,
  without which they are false: lines 24 and 25 lose entries). They are about what a walk over `sm_pHeader` has still
  to meet. `Ahead(n, x, h)` says that `h` is reachable from `x` along `n`, as "every set that holds `x` and follows `n` holds
  `h`", which needs no recursion. A constructor links before everything else and a destructor takes out only its
  own object, so neither takes anything else away from a walk that has begun. `Listed`, `Searching` and `Covered` (a module that should
  call `h` does, or the constructor or a load will still come to it) are the parts of the invariant.

`TcpSocket_proofs` and `TcpHandles_proofs`, from `ConstantsAssumption`, for any number of threads, objects, handle values, sockets and
calls and both builds:

* `TypeCorrect` and `LockKeptBalanced` (`LockBalanced`), from `LInv`: `Shape` says in which call a thread can be where, and
  `Locks` that it holds the lock of its object as often as `Depth` tells for that place.
* `SocketsKept` (`NoSocketLost`), from `OInv`: every open socket that was not given up is named by the member of the
  object it was made for (`Owner`), `accept` fills an object nobody else uses (`Targets`), and a thread on its
  way through `Close` finds what it needs (`CloseSteps`).
* `CloseFindsSocket` (`CloseVerified`) and `HandleIsOwn` (`SameSocket`), from `RInv`: who was not disturbed has loaded what the
  member holds (`Loaded`), and a member holds `INVALID_SOCKET` or the object's own socket (`MembersOwn`).
* `ToldMeansData` (`ReceiveWontBlock`), from `Fed`: what `FIONREAD` or `select` told is still so, since who else could take it
  needs the lock that the thread holds.

`FileMisc_proofs`, from `Tree`, for every tree of folders, mask and sequence of calls. `Tree` says that every folder is below the
source folder (a set of folders that holds the parents of all its members is empty), which a tree on a disk gives:

* `TypeCorrect`, from `TInv`, which describes the stack: each frame was called by the one below it for a folder of its
  listing and with the parameters that the code passes on (`Shape`, `Called`, `Turn`).
* `CopiedMeansAll` (`TrueMeansCopied`), from `CInv`. Each copying frame has failed and will not forget it, or is on track:
  every item that it is about has arrived, was left out by a failed search (`unread`) or is still to come (`Doing`, `OnTrack`, `Will`). That everything below a folder has arrived
  (`Complete`) is said with a set of folders closed under "has arrived with all its subfolders", again without recursion; `FolderDone` puts
  the folder that a call has finished into it, and `ScopeArrives` goes from there to single files.
* `NothingLost` (`NoFileLost`), inductive beside `TInv` and `CInv`: a move deletes only after `CopyFolder` returned TRUE, and
  what it deletes has arrived or been left out by a failed search (`DeletedArrived`).
* `StopsSoon` (`StopSoon`), from `SInv`: once a function was stopped, the one on top of the stack only returns FALSE (`Ending`).
* `MoveImplemented`: `Spec => MoveSpec`, under `PhaseOf`. The commit of the abstract move is the return of the first
  `CopyFolder`, where `CInv` says that every file has arrived that was not left out; each deletion is one of a file in scope (`DeletedInScope`).

The recursive function `Plain` (the items whose path has no dot) is used in these proofs only through `PlainUnfolds`: the least set
with its closure properties is a solution of the definition.

`InlineHook_proofs`, from `ConstantsAssumption`, for any number of threads and of objects of both classes:

* `TypeCorrect`, from `PInv`, which says where a thread can be in which operation (`Position`).
* `CodeRight` (`CodeTells`), `OffInside` (`OffOnlyInside`) and `WildInside` (`WildOnlyInside`), all from `CInv`, which holds as long as
  objects are used newest first, a `CHookClass` by one thread at a time, and no write fails. `HeadOf` and `TailOf` say what a part of the
  stack shows. An object has saved what the objects under it show (`Chain`), and the function shows what the whole stack does
  (`Settled`) while no thread is at work. A `CHookClass` between its write and its flag has written its jump or what it saved
  (`Turning`). Threads in the hook procedure of a `CAPIHook` leave its jump or what it saved, and in the second case one of them
  has its next write of the jump still to come (`Mixed`). `Users` says that all of them use one object and that nothing newer has
  saved bytes, so that what they change is nobody's `Chain`.

`DateHelper_proofs`, from `ConstantsAssumption`, for all days of the years from 1000 to 9000 as dates and from 1970 on the clock, amounts of
up to 400, every first day of the week and any number of midnights:

* `MonthsRight`: `Spec => []MonthOffsetRight`, for the dates after 30 December 1899 and sums not below zero.
* `YearsRight`: `Spec => []YearOffsetRight`, for the dates after 30 December 1899.
* `TypeCorrect`: `Spec => []TypeOK`.
* `EndsFound`: `Spec => []EndsRight`.
* `WeekdaysCounted`: `Spec => []WeekdaysRight`.
* `NeverBackwards`: `Spec => []DaysNotNegative`.

The first two follow from `Moved`, which says that what is offset is a `GoodDay` (a day of those years, with a month from 1 to
12 and a day of that month) and that the result is the operator's. The rest is arithmetic: the code's leap years and months are
the calendar's (`LeapYearRight`, `DaysInMonthRight`), the carry keeps the number of months unless the `WORD` wraps
(`CarryRight`, `CarryWraps`), and year, month and day are found again in the number of a day (`RoundTrip`). The bounds
keep a year within what the automation library accepts; the code has no check of its own.

The other four rest on `Dated` and `Read`. `Dated` is the type invariant with the days a call may begin with and what
`GetDate` gave (`ReadOn`, in terms of the calendar alone). `Read` says of a call of `CalcDaysFromTo` that the first date was
read on some day up to today and that a second one read before it is today's unless midnight has passed since; it is what makes
`DaysNotNegative` inductive. Every day from the first on has a year, a month and a day (`NameOf`), with no upper bound, since
midnights may take the clock anywhere; when the year is past 9999 the ends of years are no dates and nothing is compared.
`GetDateRight` says that the loops find the ends: a month has at least 28 days, so two steps of twenty reach the next month and
not the one after it (`EndOfMonthRight`), and the turns of the week are the days of the week (`Turns`, `EndOfWeekRight`).
`EndsFound` compares them with the first end from the day on (`WeekEndFirst`, `MonthEndFirst`, `YearEndFirst`), and
`DatesOrdered` shows them monotone for the pairs of `Ordered`, on the same day and on a later one.

The loops of the end of the week and of `CalcWeekdaysFromTo` are recursive functions. An explicit function solves each
definition, and that every solution is this one is shown by induction (`Turns`, `LoopCounts`). The library's induction
theorems cannot be used, because they take the predicate as a parameter, but its theorem that finite subsets are well-founded under
strict inclusion, which speaks of sets only, gives a least element of every set of natural numbers (`NatMin`) and from it
induction for a set (`UpTo`).

Only model-checked: the liveness properties `StopReturns`, `StopEndsThread`, `StopReleasesWaiters` and `AbortCloses`, since the
prover does not do fairness. Every safety property of a passing run is proved.

## Findings

* `thread_stopsafe`: if the thread wins the exchange, it deletes the object while `stop_thread` still uses it, although
  `Thread.cpp:86` says that the self-delete mode is cancelled to avoid just this.
* `http_abort`: an abort before the read loop leaves the empty file, and `ShowDownloadFileDlg`, which tests that the
  file exists, reports success.
* `hook_own`: loading the hooking module again hooks its own imports; the next load recurses without end.
* `date_overflow`: going back by months over the beginning of the year, a month sum below zero wraps as a `WORD` (423) and
  the date becomes invalid, although line 425 says "handle overflow"; a sum of exactly zero is handled.

Other differences between code and intent, seen while modelling and not given a run:

* `Thread.cpp`: `wait_for` on a finished thread waits for `INVALID_HANDLE_VALUE`, its own process, and never returns (line 41,
  although `Thread.h:32` says that it waits for the thread); a client that suspends the thread again after every round keeps
  `resume_thread(true)` in its loop; the destructor never closes the handle it took (line 31); `_beginthreadex` fails with 0, which line 60 does not test; a self-deleting thread that ends before its
  handle is stored (line 51) never deletes the object; the destructor may return while the thread is still in
  `execute()`; `suspended_` is never set (line 50 assigns it to itself); a restarted thread finds `terminated_` set.
* `HttpDownloadDlg.cpp`: a declined login (472) falls through into the read loop and ends in IDOK with an empty file,
  although line 458 says that authentication errors are handled; a connection that closes early ends in IDOK with a part of the file (543); the error paths at 347 and 451 leave the file; success is told
  from the existence of the file (`commonres.cpp:23`), which an old file also gives; a Content-Length of 0 divides by zero (560).
* `APIHook_new.cpp`: the destructor clears the tables (34) before it leaves the list (36 to 54), so a load in between
  keeps the dead hook; a walk may step on a destroyed object; the snapshot is never closed and its failure (70) goes
  unnoticed; modules loaded as dependencies are never hooked; a module of the snapshot may be unloaded before its turn
  (79); two threads that make objects at a time lose one of them (24, 25).
* `filemisc.cpp`: a search that fails while a folder is copied (636, 666) counts as its end, `CopyFolder` returns TRUE and
  `MoveFolder` deletes files that were not copied; with a mask and subfolders the second pass of `DeleteFolderContents` (346, which has no
  test of `nPass` as line 658 has) deletes the files that do not match, although lines 302 and 303 say that one pass is for the
  files and one for the subfolders; `MoveFolder` never removes the source folder itself, although `filemisc.h:132` says that it "will delete the
  source folder on success"; names that begin with a dot are skipped; `DeleteFolderContents` returns TRUE though a
  subfolder failed; `CopyFolder` drops the mask below the top folder (656); a file that arrives between copy and deletion is deleted uncopied.
* `TcpSocket.cpp`: the cases excepted above (303, 101, 29, 43); a blocked `ReceiveFrom` or `Accept` holds the lock, and only
  a `Close`, which takes none, ends it; `ReceiveFrom` returns 1 and not a length, also when the peer has closed, 0 after an error, and
  never stores the address it is given a place for (266). `example.cpp:114` takes any result of `Receive`, -1 included,
  for a normal one.
* `APIHook.cpp`: `VirtualProtect` without a place for the old protection (38, 64, 81) fails, so that the page stays writable and
  not executable. Two threads in one hook procedure can mix the two halves of the eight bytes.
* `HookClass.cpp`: `bTrapped` is set after the write (95, 116), and also when the write failed: with two threads in the hook
  procedure the hook may be lost for good, or the procedure calls itself; the suspension of the other threads that would
  prevent this is commented out (86, 107).
* `DateHelper.cpp`: valid dates up to 30 December 1899 are not moved at all (404); the 29th of February moved by years becomes invalid (451);
  line 36 asserts `nFrom <= nTo` although the enumeration is not in the order of time (a week may end after the month).

## Not modelled

`PROJECT.json` lists the parts that are left out, each with its reason. The repository has some 870 000 lines, nearly
all of them SDK headers and libraries of others (DirectX, DirectShow, SDL, OpenSSL, ...) kept as they were published: the
models cover a tenth of a percent of the whole, and the classes of the repository's own code that have threads, failures
or sequences of calls to get wrong. What remains of that code is one Windows call per function, strings, pixels and
ciphers.

Out of the prover's reach and left to TLC: liveness.

## Plan

Done: the seven components above, `HandleLease` and `FolderMove`; the proofs of every safety property that a run
checks and expects to hold, and of both refinements.

Next: parsing and formatting of `CDateHelper`, and the time of day, which `floor` takes off its results.
