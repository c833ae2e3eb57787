--------------------------- MODULE MCHttpDownload ---------------------------
(* Instances of HttpDownload, and what its comments claim and it does not keep. *)
EXTENDS HttpDownload

\* HttpDownloadDlg.cpp:545: "Delete the file being downloaded to if it is present and
\* the download was aborted".  A file that cannot be deleted is left out.
AbortDeletes == ui = "over" /\ m_bAbort /\ ~undeleted => ~exists
=============================================================================
