---------------------------- MODULE HttpDownload ----------------------------
(***************************************************************************)
(* The download dialog of commonres (HttpDownloadDlg.cpp, commonres.cpp).  *)
(* ShowDownloadFileDlg runs a modal CHttpDownloadDlg on the UI thread; the *)
(* dialog starts a worker thread that downloads a file with WinInet and    *)
(* posts WM_HTTPDOWNLOAD_THREAD_FINISHED when it is through.  The threads  *)
(* share m_bAbort, the file and the Internet handles without a lock.  The  *)
(* worker updates the controls with SetWindowText and the like, which are  *)
(* messages sent to the UI thread: they return only if that thread pumps   *)
(* messages.                                                               *)
(***************************************************************************)
EXTENDS Naturals, Sequences

CONSTANTS
  Chunks,       \* reads that it takes to get the whole body of the response
  MaxRetries    \* bounds how often the user tries to log in again

ASSUME ConstantsAssumption ==
  Chunks \in Nat \ {0} /\ MaxRetries \in Nat

VARIABLES
  ui,              \* what the UI thread does
  result,          \* argument of EndDialog
  m_bAbort, m_bSafeToClose,
  w,               \* where the worker is in DownloadThread
  msgs,            \* posted messages: the wParam of each
  exists, stale,   \* the file is there; it is an old one that could not be deleted
  opened, written, \* m_FileToWrite is open; chunks written to it
  undeleted,       \* history: the worker could not delete it
  inet,            \* open Internet handles
  left,            \* chunks the response still has
  retries,
  declined, cut,   \* history: the user declined to log in; the body broke off
  server           \* what the server sends without end: the "file", a "denial", or "nothing"

dialog  == <<ui, result, m_bSafeToClose>>
file    == <<exists, stale, opened, written, undeleted>>
request == <<inet, left, retries, declined, cut, server>>
vars    == <<dialog, m_bAbort, w, msgs, file, request>>

AbortChecks == {"abort1", "abort2", "abort3", "abort4"}
Returned    == {"return", "ended"}
WorkerLabels == {"none", "open", "callback", "connect", "request", "send", "query", "discard",
                 "auth", "info", "read", "store", "update", "test", "done", "post"}
                \cup AbortChecks \cup Returned

\* A message sent by another thread is received while the UI thread runs a message loop.
Pumping == ui \in {"loop", "msgbox"}

Init ==
  /\ ui = "show" /\ result = "none"
  /\ m_bAbort = FALSE /\ m_bSafeToClose = FALSE
  /\ w = "none" /\ msgs = <<>>
  /\ exists \in BOOLEAN /\ stale = exists /\ opened = FALSE /\ written = 0
  /\ undeleted = FALSE /\ cut = FALSE
  /\ inet = {} /\ left = 0 /\ retries = 0 /\ declined = FALSE
  /\ server \in {"file", "denial", "nothing"}

-----------------------------------------------------------------------------
(* The UI thread *)

\* ShowDownloadFileDlg deletes an old file, or fails to, and opens the dialog.
Show ==
  /\ ui = "show" /\ ui' = "init"
  /\ exists' \in {FALSE, exists} /\ stale' = exists'
  /\ UNCHANGED <<result, m_bSafeToClose, m_bAbort, w, msgs, opened, written, undeleted, request>>

EndDialog(r) == ui' = "destroy" /\ result' = r

\* OnInitDialog: the URL cannot be parsed or the file cannot be opened.
InitRejects ==
  /\ ui = "init"
  /\ EndDialog("CANCEL")
  /\ UNCHANGED <<m_bSafeToClose, m_bAbort, w, msgs, file, request>>

OpenFile == exists' = TRUE /\ stale' = FALSE /\ opened' = TRUE /\ UNCHANGED <<written, undeleted>>

\* OnInitDialog: the file is created, but the thread is not.
InitNoThread ==
  /\ ui = "init"
  /\ OpenFile
  /\ EndDialog("CANCEL")
  /\ UNCHANGED <<m_bSafeToClose, m_bAbort, w, msgs, request>>

\* OnInitDialog: the worker is created suspended and resumed.
InitStarts ==
  /\ ui = "init" /\ ui' = "loop"
  /\ OpenFile
  /\ w' = "open"
  /\ UNCHANGED <<result, m_bSafeToClose, m_bAbort, msgs, request>>

\* Mutant: cancelling ends the dialog at once.
OnCancelEnds ==
  /\ ui = "loop" /\ ~m_bAbort
  /\ m_bAbort' = TRUE
  /\ EndDialog("CANCEL")
  /\ UNCHANGED <<m_bSafeToClose, w, msgs, file, request>>

\* The Cancel button, which is disabled from then on.
OnCancel ==
  /\ ui = "loop" /\ ~m_bAbort
  /\ m_bAbort' = TRUE
  /\ UNCHANGED <<dialog, w, msgs, file, request>>

\* WM_CLOSE, while the worker is not through.
OnClose ==
  /\ ui = "loop" /\ ~m_bSafeToClose
  /\ m_bAbort' = TRUE
  /\ UNCHANGED <<dialog, w, msgs, file, request>>

\* Mutant: the outcome does not depend on the abort.
OnThreadFinishedIgnoresAbort ==
  /\ ui = "loop" /\ msgs # <<>>
  /\ msgs' = Tail(msgs)
  /\ m_bSafeToClose' = TRUE
  /\ \/ Head(msgs) = 1 /\ ui' = "msgbox" /\ UNCHANGED result
     \/ Head(msgs) = 0 /\ EndDialog("OK")
  /\ UNCHANGED <<m_bAbort, w, file, request>>

OnThreadFinished ==
  /\ ui = "loop" /\ msgs # <<>>
  /\ msgs' = Tail(msgs)
  /\ m_bSafeToClose' = TRUE
  /\ \/ m_bAbort /\ EndDialog("CANCEL")
     \/ ~m_bAbort /\ Head(msgs) = 1 /\ ui' = "msgbox" /\ UNCHANGED result
     \/ ~m_bAbort /\ Head(msgs) = 0 /\ EndDialog("OK")
  /\ UNCHANGED <<m_bAbort, w, file, request>>

\* The user closes the message box that shows m_sError.
MessageBoxClosed ==
  /\ ui = "msgbox"
  /\ EndDialog("CANCEL")
  /\ UNCHANGED <<m_bSafeToClose, m_bAbort, w, msgs, file, request>>

\* Mutant: the thread is not waited for.
OnDestroyHastily ==
  /\ ui = "destroy" /\ ui' = "over"
  /\ inet' = {}
  /\ UNCHANGED <<result, m_bSafeToClose, m_bAbort, w, msgs, file, left, retries, declined, cut, server>>

\* Waits for the worker without pumping messages, then closes the handles.
OnDestroy ==
  /\ ui = "destroy" /\ w \in {"none", "ended"}
  /\ ui' = "over"
  /\ inet' = {}
  /\ UNCHANGED <<result, m_bSafeToClose, m_bAbort, w, msgs, file, left, retries, declined, cut, server>>

-----------------------------------------------------------------------------
(* The worker: DownloadThread *)

Post(p) == msgs' = Append(msgs, p)

\* ::DeleteFile, whose result nobody looks at.
DeleteFile == \E ok \in BOOLEAN : exists' = (exists /\ ~ok) /\ undeleted' = ~ok

\* HandleThreadErrorWithLastError, and return.
FailDeleting ==
  /\ opened' = FALSE /\ DeleteFile
  /\ Post(1) /\ w' = "return"
  /\ UNCHANGED <<dialog, m_bAbort, stale, written, request>>

\* HandleThreadError, and return: the file is neither closed nor deleted.
FailKeeping ==
  /\ Post(1) /\ w' = "return"
  /\ UNCHANGED <<dialog, m_bAbort, file, request>>

\* A call that makes Internet handle i succeeds.
Acquire(i, next) ==
  /\ inet' = inet \cup {i} /\ w' = next
  /\ UNCHANGED <<dialog, m_bAbort, msgs, file, left, retries, declined, cut, server>>

Goto(next) == w' = next /\ UNCHANGED <<dialog, m_bAbort, msgs, file, request>>

InternetOpen == w = "open" /\ (Acquire("session", "abort1") \/ FailDeleting)

SetStatusCallback == w = "callback" /\ (Goto("abort2") \/ FailDeleting)

InternetConnect == w = "connect" /\ (Acquire("connection", "abort3") \/ FailDeleting)

\* PlayAnimation sends a message.
HttpOpenRequest ==
  w = "request" /\ Pumping /\ (Acquire("file", "abort4") \/ FailDeleting)

\* "Should we exit the thread": the file stays as it is.
CheckAbort ==
  /\ w \in AbortChecks
  /\ IF m_bAbort
     THEN Post(0) /\ w' = "return" /\ UNCHANGED <<dialog, m_bAbort, file, request>>
     ELSE Goto(CASE w = "abort1" -> "callback" [] w = "abort2" -> "connect"
                 [] w = "abort3" -> "request"  [] w = "abort4" -> "send")

\* The status callback runs inside this call and sends messages.
HttpSendRequest == w = "send" /\ Pumping /\ (Goto("query") \/ FailDeleting)

\* Mutant: after an error the worker does not return.
QueryStatusFallsThrough ==
  /\ w = "query"
  /\ \/ /\ Post(1) /\ w' = "info" /\ left' = Chunks
        /\ UNCHANGED <<dialog, m_bAbort, file, inet, retries, declined, cut, server>>
     \/ FailDeleting
     \/ Goto("discard")
     \/ /\ w' = "info" /\ left' = Chunks
        /\ UNCHANGED <<dialog, m_bAbort, msgs, file, inet, retries, declined, cut, server>>

\* No status, a status other than 200, an authentication error, or 200.
QueryStatus ==
  /\ w = "query"
  /\ \/ FailKeeping
     \/ FailDeleting
     \/ Goto("discard")
     \/ /\ w' = "info" /\ left' = Chunks
        /\ UNCHANGED <<dialog, m_bAbort, msgs, file, inet, retries, declined, cut, server>>

\* The body of an authentication error is read to its end and thrown away: m_bAbort is
\* not looked at.
DiscardBody == w = "discard" /\ server # "denial" /\ Goto("auth")

\* InternetErrorDlg: the user tries again, or declines and the download goes on.
Authenticate ==
  /\ w = "auth" /\ Pumping
  /\ \/ retries < MaxRetries /\ retries' = retries + 1 /\ w' = "send" /\ UNCHANGED declined
     \/ declined' = TRUE /\ w' = "info" /\ UNCHANGED retries
  /\ UNCHANGED <<dialog, m_bAbort, msgs, file, inet, left, cut, server>>

\* SetStatus, the length of the file and SetProgressRange.
ShowInfo == w = "info" /\ Pumping /\ Goto("read")

\* No more data ends the loop, be it the end of the body or of the connection: the number
\* of bytes is not compared with the length that was announced.
ReadFile ==
  /\ w = "read"
  /\ \/ FailDeleting
     \/ left = 0 /\ Goto("done")
     \/ /\ left > 0 /\ cut' = TRUE /\ w' = "done"
        /\ UNCHANGED <<dialog, m_bAbort, msgs, file, inet, left, retries, declined, server>>
     \/ /\ left > 0 /\ left' = IF server = "file" THEN left ELSE left - 1
        /\ w' = "store"
        /\ UNCHANGED <<dialog, m_bAbort, msgs, file, inet, retries, declined, cut, server>>

\* The chunk is written unless the user has aborted.
StoreChunk ==
  /\ w = "store"
  /\ \/ m_bAbort /\ Goto("test")
     \/ ~m_bAbort /\ FailDeleting
     \/ /\ ~m_bAbort
        /\ written' = IF written < Chunks THEN written + 1 ELSE written
        /\ w' = "update"
        /\ UNCHANGED <<dialog, m_bAbort, msgs, exists, stale, opened, undeleted, request>>

UpdateControls == w = "update" /\ Pumping /\ Goto("test")

\* Mutant: the loop goes on after an abort.
LoopTestIgnoresAbort == w = "test" /\ Goto("read")

LoopTest == w = "test" /\ Goto(IF m_bAbort THEN "done" ELSE "read")

\* Mutant: an aborted download stays on the disk.
CloseFileOnly ==
  /\ w = "done" /\ w' = "post"
  /\ opened' = FALSE
  /\ UNCHANGED <<dialog, m_bAbort, msgs, exists, stale, written, undeleted, request>>

CloseFile ==
  /\ w = "done" /\ w' = "post"
  /\ opened' = FALSE
  /\ IF m_bAbort THEN DeleteFile ELSE UNCHANGED <<exists, undeleted>>
  /\ UNCHANGED <<dialog, m_bAbort, msgs, stale, written, request>>

PostFinished ==
  /\ w = "post" /\ w' = "return"
  /\ Post(0)
  /\ UNCHANGED <<dialog, m_bAbort, file, request>>

ThreadEnds == w = "return" /\ Goto("ended")

-----------------------------------------------------------------------------
User == OnCancel \/ OnClose

Dispatch ==
  Show \/ InitRejects \/ InitNoThread \/ InitStarts
  \/ OnThreadFinished \/ MessageBoxClosed \/ OnDestroy

Worker ==
  InternetOpen \/ SetStatusCallback \/ InternetConnect \/ HttpOpenRequest \/ CheckAbort
  \/ HttpSendRequest \/ QueryStatus \/ DiscardBody \/ Authenticate \/ ShowInfo \/ ReadFile
  \/ StoreChunk \/ UpdateControls \/ LoopTest \/ CloseFile \/ PostFinished \/ ThreadEnds

Next == User \/ Dispatch \/ Worker

Spec == Init /\ [][Next]_vars

\* The UI thread dispatches what is pending, the user closes message boxes and answers
\* the login dialog, and WinInet calls return.
FairSpec == Spec /\ WF_vars(Dispatch) /\ WF_vars(Worker)

-----------------------------------------------------------------------------
\* The ranges of the variables; at most one message is pending.
TypeOK ==
  /\ ui \in {"show", "init", "loop", "msgbox", "destroy", "over"}
  /\ result \in {"none", "OK", "CANCEL"}
  /\ m_bAbort \in BOOLEAN /\ m_bSafeToClose \in BOOLEAN
  /\ w \in WorkerLabels
  /\ msgs \in {<<>>, <<0>>, <<1>>}
  /\ exists \in BOOLEAN /\ stale \in BOOLEAN /\ opened \in BOOLEAN /\ written \in 0..Chunks
  /\ inet \subseteq {"session", "connection", "file"}
  /\ left \in 0..Chunks /\ retries \in 0..MaxRetries /\ {declined, cut, undeleted} \subseteq BOOLEAN
  /\ server \in {"file", "denial", "nothing"}

\* OnDestroy waits without pumping: by then the worker sends no more messages to the
\* window, or the two would wait for each other for ever.
NoDestroyDeadlock == ui \in {"destroy", "over"} => w \in {"none"} \cup Returned

\* OnDestroy closes the Internet handles after the worker's last use of them, and
\* none is left when the dialog is gone.
DestroyedClean == ui = "over" => inet = {} /\ w \in {"none", "ended"}

\* IDOK means that the file is the new one, closed, and not that of an aborted download,
\* however the abort flag, the loop and the finished message interleave; and that it holds
\* the whole body, unless the user declined to log in or the connection was closed early.
OkMeansComplete ==
  result = "OK" =>
    /\ exists /\ ~stale /\ ~opened /\ ~m_bAbort
    /\ ~declined /\ ~cut => written = Chunks

\* A file with part of the body is never left behind, if the connection lasts and the file
\* can be deleted.
NoPartialFile ==
  ui = "over" /\ exists /\ ~cut /\ ~undeleted => written \in {0, Chunks}

\* Once the user has aborted the dialog goes away, even if the server sends the file for
\* ever; what can keep it is only the body of a 401 response (the loop at line 465).
AbortCloses == m_bAbort ~> (ui = "over" \/ (w = "discard" /\ server = "denial"))
=============================================================================
