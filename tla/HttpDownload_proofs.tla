------------------------- MODULE HttpDownload_proofs -------------------------
(* Proofs about HttpDownload, for any length of the body and number of retries. *)
EXTENDS HttpDownload, TLAPS

Idle == {"none"} \cup Returned

\* Where the worker is, given what the UI thread does: it exists once the dialog runs,
\* posts once, right before it returns, and only then is the dialog taken down.
Phases ==
  /\ ui \in {"show", "init"} => w = "none" /\ ~m_bAbort
  /\ msgs # <<>> => w \in Returned /\ ui = "loop"
  /\ ui = "msgbox" => w \in Returned
  /\ ui \in {"destroy", "over"} => w \in Idle
  /\ ui = "over" => w \in {"none", "ended"} /\ inet = {}
  /\ result # "none" => ui \in {"destroy", "over"}

Sound == exists /\ ~stale

\* The worker before the headers are there, and in its read loop.
Early == {"open", "callback", "connect", "request", "send", "query", "discard", "auth"}
         \cup AbortChecks
Late  == {"info", "read", "store", "update", "test", "done", "post"}

\* What was read has been written, but for the chunk in the buffer, if b is 1.
Balance(b) ==
  \/ declined /\ b = 0 /\ written = 0 /\ left = 0
  \/ ~declined /\ server = "file" /\ left = Chunks
  \/ ~declined /\ server # "file" /\ written + left + b = Chunks

\* The file is closed and holds the whole body, if there was one and it did not break off.
Complete == Sound /\ ~opened /\ (~declined /\ ~cut => written = Chunks)

\* What is left behind is no part of the body.
Tidy == exists /\ ~cut /\ ~undeleted => written \in {0, Chunks}

\* What the file holds, given where the worker is.
Contents ==
  /\ w \notin Idle \cup {"post"} => Sound
  /\ w \in Early \cup {"none"} => written = 0 /\ left = 0 /\ ~declined
  /\ w = "info" => written = 0 /\ left = (IF declined THEN 0 ELSE Chunks)
  /\ w \in {"read", "update"} => Balance(0)
  /\ w = "test" /\ ~m_bAbort => Balance(0)
  /\ w = "store" => Balance(1)
  /\ w = "done" /\ ~m_bAbort => cut \/ (IF declined THEN written = 0 ELSE written = Chunks)
  /\ w \in {"post"} \cup Returned => Tidy
  /\ w = "post" /\ ~m_bAbort => Complete
  /\ msgs = <<0>> /\ ~m_bAbort => Complete
  /\ result = "OK" => ~m_bAbort /\ w \in Returned /\ Complete

IInv == TypeOK /\ Phases /\ Contents

LEMMA EarlyLabels ==
  /\ Early \cap (Idle \cup Late) = {} /\ Late \cap Idle = {}
  /\ Early \subseteq WorkerLabels /\ Late \subseteq WorkerLabels
  /\ Returned = {"return", "ended"} /\ Idle = {"none", "return", "ended"}
  BY DEF Early, Late, AbortChecks, Idle, Returned, WorkerLabels

LEMMA InitIInv == Init => IInv
  <1> SUFFICES ASSUME Init PROVE IInv
    OBVIOUS
  <1> USE DEF Init
  <1>1. "none" \in WorkerLabels
    BY DEF WorkerLabels
  <1>2. /\ msgs \in {<<>>, <<0>>, <<1>>} /\ inet \subseteq {"session", "connection", "file"}
        /\ exists \in BOOLEAN /\ stale \in BOOLEAN
    OBVIOUS
  <1>3. written \in 0..Chunks /\ left \in 0..Chunks /\ retries \in 0..MaxRetries
    BY ConstantsAssumption
  <1>4. TypeOK
    BY <1>1, <1>2, <1>3 DEF TypeOK
  <1>5. Phases
    BY DEF Phases, Idle, Returned
  <1>6. Contents
    BY EarlyLabels DEF Contents, Late
  <1> QED
    BY <1>4, <1>5, <1>6 DEF IInv

\* A worker at work: the dialog runs, and nothing is posted yet.
LEMMA AtWork ==
  ASSUME TypeOK, Phases, w \notin Idle
  PROVE  ui = "loop" /\ msgs = <<>> /\ result = "none"
  BY DEF TypeOK, Phases, Idle

\* A step of the worker that posts only when it returns keeps the phases.
LEMMA WorkerPhases ==
  ASSUME TypeOK, Phases, w \notin Idle, UNCHANGED <<dialog, m_bAbort>>,
         w' # "none", msgs' = <<>> \/ w' \in Returned
  PROVE  Phases'
  <1>1. ui = "loop" /\ msgs = <<>> /\ result = "none"
    BY AtWork
  <1>2. ui' = "loop" /\ result' = "none" /\ m_bAbort' = m_bAbort
    BY <1>1 DEF dialog
  <1> QED
    BY <1>2 DEF Phases, Returned

\* HandleThreadErrorWithLastError, anywhere in the worker.
LEMMA FailDeletingStep ==
  ASSUME IInv, w \notin Idle, FailDeleting
  PROVE  IInv'
  <1>1. ui = "loop" /\ msgs = <<>> /\ result = "none"
    BY AtWork DEF IInv
  <1>2. msgs' = <<1>>
    BY <1>1 DEF FailDeleting, Post
  <1>3. w' \in WorkerLabels /\ w' \in Returned /\ w' # "none" /\ w' = "return"
    BY DEF FailDeleting, WorkerLabels, Returned
  <1>4. TypeOK'
    BY <1>2, <1>3 DEF IInv, TypeOK, FailDeleting, DeleteFile, dialog, request
  <1>5. Phases'
    BY <1>3, WorkerPhases DEF IInv, FailDeleting
  <1>6. Tidy' /\ result' = "none"
    BY <1>1 DEF FailDeleting, DeleteFile, Tidy, dialog
  <1>7. Contents'
    BY <1>2, <1>3, <1>6, EarlyLabels DEF Contents, Idle, Late
  <1> QED
    BY <1>4, <1>5, <1>7 DEF IInv

\* The file is still empty, and stays so.
LEMMA EarlyStep ==
  ASSUME IInv, w \in Early, w' \in Early,
         UNCHANGED <<dialog, m_bAbort, msgs, file, left, declined, cut, server>>,
         inet' \subseteq {"session", "connection", "file"}, retries' \in 0..MaxRetries
  PROVE  IInv'
  <1>1. w \notin Idle /\ w' # "none"
    BY EarlyLabels DEF Idle
  <1>2. ui = "loop" /\ msgs = <<>> /\ result = "none"
    BY <1>1, AtWork DEF IInv
  <1>3. TypeOK'
    BY EarlyLabels DEF IInv, TypeOK, dialog, file
  <1>4. Phases'
    BY <1>1, <1>2, WorkerPhases DEF IInv
  <1>5. Sound /\ written = 0 /\ left = 0 /\ ~declined
    BY <1>1, EarlyLabels DEF IInv, Contents, Late
  <1>6. Sound' /\ written' = 0 /\ left' = 0 /\ ~declined' /\ msgs' = <<>> /\ result' = "none"
    BY <1>2, <1>5 DEF dialog, file, Sound
  <1>7. w' \notin Idle \cup Late
    BY EarlyLabels
  <1>8. Contents'
    BY <1>6, <1>7 DEF Contents, Idle, Late
  <1> QED
    BY <1>3, <1>4, <1>8 DEF IInv

LEMMA EarlyGoto ==
  ASSUME IInv, w \in Early, NEW n \in Early, Goto(n)
  PROVE  IInv'
  BY EarlyStep DEF Goto, request, IInv, TypeOK

LEMMA EarlyAcquire ==
  ASSUME IInv, w \in Early, NEW n \in Early, NEW i \in {"session", "connection", "file"},
         Acquire(i, n)
  PROVE  IInv'
  BY EarlyStep DEF Acquire, IInv, TypeOK

\* Leaving early, with the file as it is.
LEMMA EarlyReturn ==
  ASSUME IInv, w \in Early, w' = "return",
         UNCHANGED <<dialog, m_bAbort, file, request>>,
         Post(1) \/ (Post(0) /\ m_bAbort)
  PROVE  IInv'
  <1>1. w \notin Idle /\ w' # "none" /\ w' \in Returned
    BY EarlyLabels DEF Returned
  <1>2. ui = "loop" /\ msgs = <<>> /\ result = "none"
    BY <1>1, AtWork DEF IInv
  <1>3. "return" \in WorkerLabels /\ (msgs' = <<1>> \/ (msgs' = <<0>> /\ m_bAbort))
    BY <1>2 DEF WorkerLabels, Returned, Post
  <1>4. TypeOK'
    BY <1>3 DEF IInv, TypeOK, dialog, file, request
  <1>5. Phases'
    BY <1>1, WorkerPhases DEF IInv
  <1>6. written = 0
    BY EarlyLabels DEF IInv, Contents
  <1>7. written' = 0 /\ result' = "none" /\ (msgs' = <<0>> => m_bAbort')
    BY <1>2, <1>3, <1>6 DEF dialog, file
  <1>8. Contents'
    BY <1>7, EarlyLabels DEF Contents, Tidy, Late
  <1> QED
    BY <1>4, <1>5, <1>8 DEF IInv

\* A step that leaves the file and the worker alone keeps what the file holds.
LEMMA ContentsKept ==
  ASSUME Contents, UNCHANGED <<w, file, request>>, m_bAbort => m_bAbort',
         msgs' = msgs \/ msgs' = <<>>,
         result' = "OK" => ~m_bAbort' /\ w' \in Returned /\ Complete'
  PROVE  Contents'
  <1>1. UNCHANGED <<written, left, declined, cut, server, exists, stale, opened, undeleted>>
    BY DEF file, request
  <1>2. (Balance(0) <=> Balance(0)') /\ (Balance(1) <=> Balance(1)')
    BY <1>1 DEF Balance
  <1>3. (Complete <=> Complete') /\ (Sound <=> Sound') /\ (Tidy <=> Tidy')
    BY <1>1 DEF Complete, Sound, Tidy
  <1> QED
    BY <1>1, <1>2, <1>3 DEF Contents

\* The user's steps only raise m_bAbort.
LEMMA UserStep ==
  ASSUME IInv, User
  PROVE  IInv'
  <1>1. /\ ui = "loop" /\ m_bAbort' = TRUE
        /\ UNCHANGED <<dialog, w, msgs, file, request>>
    BY DEF User, OnCancel, OnClose
  <1>2. UNCHANGED <<ui, result, m_bSafeToClose, w, msgs, exists, stale, opened, written, undeleted,
                    inet, left, retries, declined, cut, server>>
    BY <1>1 DEF dialog, file, request
  <1>3. result # "OK"
    BY <1>1 DEF IInv, Phases
  <1>4. TypeOK'
    BY <1>1, <1>2 DEF IInv, TypeOK
  <1>5. Phases'
    BY <1>1, <1>2 DEF IInv, Phases
  <1>6. Contents'
    BY <1>1, <1>2, <1>3, ContentsKept DEF IInv
  <1> QED
    BY <1>4, <1>5, <1>6 DEF IInv

LEMMA ThreadFinishedStep ==
  ASSUME IInv, OnThreadFinished
  PROVE  IInv'
  <1>1. /\ ui = "loop" /\ msgs # <<>> /\ m_bSafeToClose' = TRUE
        /\ UNCHANGED <<m_bAbort, w, file, request>>
        /\ \/ ui' = "destroy" /\ result' = "CANCEL"
           \/ ui' = "msgbox" /\ result' = result
           \/ ui' = "destroy" /\ result' = "OK" /\ ~m_bAbort /\ Head(msgs) = 0
    BY DEF OnThreadFinished, EndDialog
  <1>2. msgs \in {<<0>>, <<1>>} /\ w \in Returned
    BY <1>1 DEF IInv, TypeOK, Phases
  <1>3. msgs' = <<>>
    BY <1>2 DEF OnThreadFinished
  <1>4. result' = "OK" => ~m_bAbort /\ msgs = <<0>>
    <2>1. result # "OK"
      BY <1>1 DEF IInv, Phases
    <2>2. Head(msgs) = 0 => msgs = <<0>>
      BY <1>2
    <2> QED
      BY <1>1, <2>1, <2>2
  <1>5. UNCHANGED <<exists, stale, opened, written, undeleted, inet, left, retries, declined, cut, server>>
    BY <1>1 DEF file, request
  <1>6. TypeOK'
    BY <1>1, <1>3, <1>5 DEF IInv, TypeOK
  <1>7. Phases'
    BY <1>1, <1>2, <1>3 DEF IInv, Phases, Idle
  <1>8. result' = "OK" => ~m_bAbort' /\ w' \in Returned /\ Complete'
    BY <1>1, <1>2, <1>4, <1>5 DEF IInv, Contents, Complete, Sound
  <1>9. Contents'
    BY <1>1, <1>3, <1>8, ContentsKept DEF IInv
  <1> QED
    BY <1>6, <1>7, <1>9 DEF IInv

\* The other steps of the UI thread.
LEMMA UiStep ==
  ASSUME IInv, Dispatch
  PROVE  IInv'
  <1> USE ConstantsAssumption
      DEF IInv, TypeOK, Phases, Contents, Idle, Returned, AbortChecks, WorkerLabels, Sound,
          Early, Balance, Complete, Tidy, dialog, file, request, EndDialog, OpenFile
  <1>1. CASE Show
    <2>1. TypeOK'
      BY <1>1 DEF Show
    <2>2. Phases'
      BY <1>1 DEF Show
    <2>3. Contents'
      BY <1>1 DEF Show
    <2> QED
      BY <2>1, <2>2, <2>3
  <1>2. CASE InitRejects
    <2>1. TypeOK'
      BY <1>2 DEF InitRejects
    <2>2. Phases'
      BY <1>2 DEF InitRejects
    <2>3. Contents'
      BY <1>2 DEF InitRejects
    <2> QED
      BY <2>1, <2>2, <2>3
  <1>3. CASE InitNoThread
    <2>1. TypeOK'
      BY <1>3 DEF InitNoThread
    <2>2. Phases'
      BY <1>3 DEF InitNoThread
    <2>3. Contents'
      BY <1>3 DEF InitNoThread
    <2> QED
      BY <2>1, <2>2, <2>3
  <1>4. CASE InitStarts
    <2>1. TypeOK'
      BY <1>4 DEF InitStarts
    <2>2. Phases'
      BY <1>4 DEF InitStarts
    <2>3. Contents'
      BY <1>4 DEF InitStarts
    <2> QED
      BY <2>1, <2>2, <2>3
  <1>5. CASE MessageBoxClosed
    <2>1. TypeOK'
      BY <1>5 DEF MessageBoxClosed
    <2>2. Phases'
      BY <1>5 DEF MessageBoxClosed
    <2>3. Contents'
      BY <1>5 DEF MessageBoxClosed
    <2> QED
      BY <2>1, <2>2, <2>3
  <1>6. CASE OnDestroy
    <2>1. TypeOK'
      BY <1>6 DEF OnDestroy
    <2>2. Phases'
      BY <1>6 DEF OnDestroy
    <2>3. Contents'
      BY <1>6 DEF OnDestroy
    <2> QED
      BY <2>1, <2>2, <2>3
  <1> QED
    BY <1>1, <1>2, <1>3, <1>4, <1>5, <1>6, ThreadFinishedStep DEF Dispatch

\* The steps of the worker up to the response.
LEMMA RequestStep ==
  ASSUME IInv, \/ InternetOpen \/ SetStatusCallback \/ InternetConnect \/ HttpOpenRequest
               \/ CheckAbort \/ HttpSendRequest \/ QueryStatus \/ DiscardBody \/ Authenticate
  PROVE  IInv'
  <1>1. {"open", "callback", "connect", "request", "send", "query", "discard",
         "auth", "abort1", "abort2", "abort3", "abort4"} \subseteq Early
    BY DEF Early, AbortChecks
  <1>2. CASE InternetOpen \/ InternetConnect \/ HttpOpenRequest
    BY <1>1, <1>2, EarlyAcquire, FailDeletingStep, EarlyLabels
    DEF InternetOpen, InternetConnect, HttpOpenRequest
  <1>3. CASE SetStatusCallback \/ HttpSendRequest \/ DiscardBody
    BY <1>1, <1>3, EarlyGoto, FailDeletingStep, EarlyLabels
    DEF SetStatusCallback, HttpSendRequest, DiscardBody
  <1>4. CASE CheckAbort
    <2>1. w \in Early /\ w \notin Idle
      BY <1>1, <1>4, EarlyLabels DEF CheckAbort, AbortChecks
    <2>2. msgs = <<>>
      BY <2>1, AtWork DEF IInv
    <2>3. CASE m_bAbort
      BY <1>4, <2>1, <2>3, EarlyReturn DEF CheckAbort
    <2>4. CASE ~m_bAbort
      BY <1>1, <1>4, <2>1, <2>4, EarlyGoto DEF CheckAbort, AbortChecks
    <2> QED
      BY <2>3, <2>4
  <1>5. CASE QueryStatus
    <2>1. w \in Early /\ w \notin Idle
      BY <1>1, <1>5, EarlyLabels DEF QueryStatus
    <2>2. ui = "loop" /\ msgs = <<>> /\ result = "none"
      BY <2>1, AtWork DEF IInv
    <2>3. CASE FailKeeping
      BY <2>1, <2>3, EarlyReturn DEF FailKeeping
    <2>4. CASE w' = "info" /\ left' = Chunks
               /\ UNCHANGED <<dialog, m_bAbort, msgs, file, inet, retries, declined, cut, server>>
      <3>1. TypeOK'
        BY <2>4, ConstantsAssumption DEF IInv, TypeOK, dialog, file, WorkerLabels
      <3>2. Phases'
        BY <2>1, <2>2, <2>4, WorkerPhases DEF IInv
      <3>3. Sound /\ written = 0 /\ ~declined
        BY <2>1, EarlyLabels DEF IInv, Contents, Late
      <3>4. Sound' /\ written' = 0 /\ ~declined' /\ msgs' = <<>> /\ result' = "none"
        BY <2>2, <2>4, <3>3 DEF dialog, file, Sound
      <3>5. Contents'
        BY <2>4, <3>4, EarlyLabels DEF Contents, Late
      <3> QED
        BY <3>1, <3>2, <3>5 DEF IInv
    <2> QED
      BY <1>1, <1>5, <2>1, <2>3, <2>4, EarlyGoto, FailDeletingStep DEF QueryStatus
  <1>6. CASE Authenticate
    <2>1. w \in Early /\ w \notin Idle
      BY <1>1, <1>6, EarlyLabels DEF Authenticate
    <2>2. ui = "loop" /\ msgs = <<>> /\ result = "none"
      BY <2>1, AtWork DEF IInv
    <2>3. CASE retries < MaxRetries /\ retries' = retries + 1 /\ w' = "send"
               /\ UNCHANGED declined
      <3>1. retries' \in 0..MaxRetries
        BY <2>3, ConstantsAssumption DEF IInv, TypeOK
      <3> QED
        BY <1>1, <1>6, <2>1, <2>3, <3>1, EarlyStep DEF Authenticate, IInv, TypeOK
    <2>4. CASE declined' = TRUE /\ w' = "info" /\ UNCHANGED retries
      <3>1. UNCHANGED <<dialog, m_bAbort, msgs, file, inet, left, cut, server>>
        BY <1>6 DEF Authenticate
      <3>2. TypeOK'
        BY <2>4, <3>1 DEF IInv, TypeOK, dialog, file, WorkerLabels
      <3>3. Phases'
        BY <2>1, <2>2, <2>4, <3>1, WorkerPhases DEF IInv
      <3>4. Sound /\ written = 0 /\ left = 0
        BY <2>1, EarlyLabels DEF IInv, Contents, Late
      <3>5. Sound' /\ written' = 0 /\ left' = 0 /\ msgs' = <<>> /\ result' = "none"
        BY <2>2, <3>1, <3>4 DEF dialog, file, Sound
      <3>6. Contents'
        BY <2>4, <3>5, EarlyLabels DEF Contents, Late
      <3> QED
        BY <3>2, <3>3, <3>6 DEF IInv
    <2> QED
      BY <1>6, <2>3, <2>4 DEF Authenticate
  <1> QED
    BY <1>2, <1>3, <1>4, <1>5, <1>6

\* A step of the worker after the headers, other than the last ones, keeps the invariant
\* if it keeps the file's and the chunks' part of it.
LEMMA LateStep ==
  ASSUME IInv, w \in Late, w' \in Late, UNCHANGED <<dialog, m_bAbort, msgs, inet, retries, declined, server>>,
         UNCHANGED <<exists, stale>> \/ w' = "post",
         exists' \in BOOLEAN, stale' \in BOOLEAN, opened' \in BOOLEAN, cut' \in BOOLEAN, undeleted' \in BOOLEAN,
         written' \in 0..Chunks, left' \in 0..Chunks,
         w = "post" => w' = "post",
         w' = "info" => written' = 0 /\ left' = (IF declined THEN 0 ELSE Chunks),
         w' \in {"read", "update"} => Balance(0)',
         w' = "test" /\ ~m_bAbort => Balance(0)',
         w' = "store" => Balance(1)',
         w' = "done" /\ ~m_bAbort => cut' \/ (IF declined THEN written' = 0 ELSE written' = Chunks),
         w' = "post" => Tidy',
         w' = "post" /\ ~m_bAbort => Complete'
  PROVE  IInv'
  <1>1. w \notin Idle /\ w' \notin Idle \cup Early /\ w' # "none"
    BY EarlyLabels
  <1>2. ui = "loop" /\ msgs = <<>> /\ result = "none"
    BY <1>1, AtWork DEF IInv
  <1>3. ui' = "loop" /\ result' = "none"
    BY <1>2 DEF dialog
  <1>4. TypeOK'
    BY EarlyLabels DEF IInv, TypeOK, dialog
  <1>5. Phases'
    BY <1>1, <1>2, WorkerPhases DEF IInv
  <1>6. w' # "post" => Sound'
    BY <1>1 DEF IInv, Contents, Sound
  <1>7. Contents'
    BY <1>1, <1>2, <1>3, <1>6, EarlyLabels DEF Contents
  <1> QED
    BY <1>4, <1>5, <1>7 DEF IInv

\* The read loop and what follows it.
LEMMA TransferStep ==
  ASSUME IInv, \/ ShowInfo \/ ReadFile \/ StoreChunk \/ UpdateControls \/ LoopTest \/ CloseFile
               \/ PostFinished \/ ThreadEnds
  PROVE  IInv'
  <1>1. TypeOK /\ Phases /\ Contents
    BY DEF IInv
  <1>2. CASE ShowInfo
    BY <1>1, <1>2, ConstantsAssumption, LateStep
    DEF ShowInfo, Goto, Late, TypeOK, file, request, Contents, Balance
  <1>3. CASE ReadFile
    <2>1. w = "read" /\ w \in Late /\ w \notin Idle /\ Balance(0)
      BY <1>1, <1>3, EarlyLabels DEF ReadFile, Late, Contents
    <2>2. CASE left = 0 /\ Goto("done")
      BY <1>1, <2>1, <2>2, ConstantsAssumption, LateStep
      DEF Goto, Late, TypeOK, file, request, Balance
    <2>3. CASE left > 0 /\ left' = (IF server = "file" THEN left ELSE left - 1) /\ w' = "store"
               /\ UNCHANGED <<dialog, m_bAbort, msgs, file, inet, retries, declined, cut, server>>
      <3>1. left' \in 0..Chunks /\ Balance(1)'
        BY <1>1, <2>1, <2>3, ConstantsAssumption DEF TypeOK, Balance, file
      <3> QED
        BY <1>1, <2>1, <2>3, <3>1, LateStep DEF Late, TypeOK, file
    <2>4. CASE left > 0 /\ cut' = TRUE /\ w' = "done"
               /\ UNCHANGED <<dialog, m_bAbort, msgs, file, inet, left, retries, declined, server>>
      BY <1>1, <2>1, <2>4, LateStep DEF Late, TypeOK, file
    <2> QED
      BY <1>3, <2>1, <2>2, <2>3, <2>4, FailDeletingStep DEF ReadFile
  <1>4. CASE StoreChunk
    <2>1. w = "store" /\ w \in Late /\ w \notin Idle /\ Balance(1)
      BY <1>1, <1>4, EarlyLabels DEF StoreChunk, Late, Contents
    <2>2. CASE m_bAbort /\ Goto("test")
      BY <1>1, <2>1, <2>2, LateStep DEF Goto, Late, TypeOK, file, request
    <2>3. CASE /\ written' = (IF written < Chunks THEN written + 1 ELSE written) /\ w' = "update"
               /\ UNCHANGED <<dialog, m_bAbort, msgs, exists, stale, opened, undeleted, request>>
      <3>1. written' \in 0..Chunks /\ Balance(0)'
        BY <1>1, <2>1, <2>3, ConstantsAssumption DEF TypeOK, Balance, request
      <3> QED
        BY <1>1, <2>1, <2>3, <3>1, LateStep DEF Late, TypeOK, request
    <2> QED
      BY <1>4, <2>1, <2>2, <2>3, FailDeletingStep DEF StoreChunk
  <1>5. CASE UpdateControls
    <2>1. w \in Late /\ Balance(0)
      BY <1>1, <1>5 DEF UpdateControls, Late, Contents
    <2>2. Balance(0)'
      BY <1>5, <2>1 DEF UpdateControls, Goto, Balance, file, request
    <2> QED
      BY <1>1, <1>5, <2>1, <2>2, LateStep DEF UpdateControls, Goto, Late, TypeOK, file, request
  <1>6. CASE LoopTest
    <2>1. w \in Late
      BY <1>6 DEF LoopTest, Late
    <2>2. ~m_bAbort => Balance(0)'
      BY <1>1, <1>6 DEF LoopTest, Goto, Contents, Balance, file, request
    <2>3. ~m_bAbort => w' = "read"
      BY <1>6 DEF LoopTest, Goto
    <2>4. m_bAbort => w' = "done"
      BY <1>6 DEF LoopTest, Goto
    <2> QED
      BY <1>1, <1>6, <2>1, <2>2, <2>3, <2>4, LateStep DEF LoopTest, Goto, Late, TypeOK, file, request
  <1>7. CASE CloseFile
    <2>1. w \in Late /\ Sound
      BY <1>1, <1>7, EarlyLabels DEF CloseFile, Late, Contents
    <2>2. ~m_bAbort => Complete'
      BY <1>1, <1>7, <2>1 DEF CloseFile, Contents, Complete, Sound, request
    <2>3. Tidy'
      BY <1>1, <1>7, <2>1 DEF CloseFile, DeleteFile, Contents, Tidy, Sound, request
    <2>4. exists' \in BOOLEAN /\ undeleted' \in BOOLEAN
      BY <1>1, <1>7 DEF CloseFile, DeleteFile, TypeOK
    <2> QED
      BY <1>1, <1>7, <2>1, <2>2, <2>3, <2>4, LateStep DEF CloseFile, Late, TypeOK, request
  <1>8. CASE PostFinished
    <2>1. w \in Late /\ w \notin Idle
      BY <1>8, EarlyLabels DEF PostFinished, Late
    <2>2. ui = "loop" /\ msgs = <<>> /\ result = "none"
      BY <1>1, <2>1, AtWork
    <2>3. msgs' = <<0>> /\ result' = "none" /\ w' = "return" /\ m_bAbort' = m_bAbort
      BY <1>8, <2>2 DEF PostFinished, Post, dialog
    <2>4. TypeOK'
      BY <1>1, <1>8, <2>3, EarlyLabels DEF PostFinished, TypeOK, dialog, file, request, WorkerLabels
    <2>5. Phases'
      BY <1>1, <1>8, <2>1, <2>3, WorkerPhases DEF PostFinished, Returned
    <2>6. /\ ~m_bAbort => Complete'
          /\ Tidy'
      BY <1>1, <1>8 DEF PostFinished, Contents, Complete, Tidy, Sound, file, request
    <2>7. Contents'
      BY <2>3, <2>6, EarlyLabels DEF Contents
    <2> QED
      BY <2>4, <2>5, <2>7 DEF IInv
  <1>9. CASE ThreadEnds
    <2>1. w = "return" /\ w' = "ended"
          /\ UNCHANGED <<dialog, m_bAbort, msgs, file, request>>
      BY <1>9 DEF ThreadEnds, Goto
    <2>2. TypeOK'
      BY <1>1, <2>1 DEF TypeOK, dialog, file, request, WorkerLabels, Returned
    <2>3. Phases'
      BY <1>1, <2>1 DEF Phases, dialog, request, Idle, Returned
    <2>4. (Complete <=> Complete') /\ (Tidy <=> Tidy')
      BY <2>1 DEF Complete, Sound, Tidy, file, request
    <2>5. Contents'
      BY <1>1, <2>1, <2>4, EarlyLabels DEF Contents, Late, dialog, file
    <2> QED
      BY <2>2, <2>3, <2>5 DEF IInv
  <1> QED
    BY <1>2, <1>3, <1>4, <1>5, <1>6, <1>7, <1>8, <1>9

LEMMA Invariance == Spec => []IInv
  <1>1. IInv /\ [Next]_vars => IInv'
    <2> SUFFICES ASSUME IInv, [Next]_vars PROVE IInv'
      OBVIOUS
    <2>1. CASE UNCHANGED vars
      BY <2>1 DEF vars, dialog, file, request, IInv, TypeOK, Phases, Contents, Sound, Balance, Complete, Tidy
    <2> QED
      BY <2>1, UserStep, UiStep, RequestStep, TransferStep DEF Next, Worker
  <1> QED
    BY InitIInv, <1>1, PTL DEF Spec

\* The worker, the dialog and the file go through the states the code names, and the
\* handles stay within their ranges, for bodies of any length.
THEOREM TypeCorrect == Spec => []TypeOK
  <1>1. IInv => TypeOK
    BY DEF IInv
  <1> QED
    BY <1>1, Invariance, PTL

\* While OnDestroy waits for the worker (which keeps the UI thread from dispatching), the
\* worker does not send a message to the dialog.
THEOREM DestroySafe == Spec => []NoDestroyDeadlock
  <1>1. IInv => NoDestroyDeadlock
    BY DEF IInv, Phases, Idle, NoDestroyDeadlock
  <1> QED
    BY <1>1, Invariance, PTL

\* When the dialog is gone so is the worker, with its handles.
THEOREM DestroyLeavesNothing == Spec => []DestroyedClean
  <1>1. IInv => DestroyedClean
    BY DEF IInv, Phases, Idle, DestroyedClean
  <1> QED
    BY <1>1, Invariance, PTL

\* IDOK stands for a new, closed file, and for a complete one unless the login was declined
\* or the connection closed early, for bodies of any length.
THEOREM DownloadSound == Spec => []OkMeansComplete
  <1>1. IInv => OkMeansComplete
    BY DEF IInv, TypeOK, Phases, Contents, Idle, Returned, Sound, Complete, Tidy, OkMeansComplete
  <1> QED
    BY <1>1, Invariance, PTL

\* A download that fails or is aborted in the read loop leaves no part of the file behind,
\* if the file can be deleted.
THEOREM PartialFileRemoved == Spec => []NoPartialFile
  <1>1. IInv => NoPartialFile
    BY DEF IInv, TypeOK, Phases, Contents, Idle, Returned, Sound, Complete, Tidy, NoPartialFile
  <1> QED
    BY <1>1, Invariance, PTL
=============================================================================
