---- MODULE Download ----
(***************************************************************************)
(* Curl_Breakpoint/CurlDown.cpp: a download that is tried again from where *)
(* the local file ends until it is whole.  The remote file is the blocks   *)
(* 1 .. RemoteSize; block 0 is the page of an error answer, which libcurl  *)
(* hands on as any other body.  An absent file and an empty one are the    *)
(* same here: "wb" creates what "ab+" would.                               *)
(*                                                                         *)
(* dlUnnoticed is history: the failures the code does not look at.         *)
(***************************************************************************)
EXTENDS Naturals, Sequences

CONSTANTS RemoteSize, MaxFaults

VARIABLES dlAt,       \* where downloadControler is
          dlStop,     \* m_bStop
          dlFile,     \* the blocks on the disk
          dlBuffer,   \* the blocks fwrite has taken and not yet written
          dlStart,    \* mHasDownLenth, where this transfer starts
          dlRet,      \* what Download returned
          dlResult,   \* what the delegate was told
          dlReported, \* the blocks onProgress told of in this transfer
          dlRefuses,  \* the server refuses a range that starts at the end
          dlFaults,   \* crashes and failed fcloses so far
          dlUnnoticed

dlVars == <<dlAt, dlStop, dlFile, dlBuffer, dlStart, dlRet, dlResult,
            dlReported, dlRefuses, dlFaults, dlUnnoticed>>

TypeOK ==
  /\ dlAt \in {"size", "open", "perform", "close", "check", "done"}
  /\ dlStop \in BOOLEAN /\ dlRet \in BOOLEAN /\ dlRefuses \in BOOLEAN
  /\ dlFile \in Seq(0 .. RemoteSize) /\ dlBuffer \in Seq(0 .. RemoteSize)
  /\ dlStart \in 0 .. RemoteSize /\ dlReported \in 0 .. RemoteSize
  /\ dlResult \in {"none", "success", "kNetwork", "kUncompress"}
  /\ dlFaults \in 0 .. MaxFaults
  /\ dlUnnoticed \subseteq {"error page", "close"}

(* The constructor with a url leaves m_bStop uninitialized.                *)
Init ==
  /\ dlAt = "size" /\ dlStop \in BOOLEAN
  /\ dlFile = <<>> /\ dlBuffer = <<>>
  /\ dlStart = 0 /\ dlReported = 0 /\ dlFaults = 0
  /\ dlRet = FALSE /\ dlResult = "none"
  /\ dlRefuses \in BOOLEAN
  /\ dlUnnoticed = {}

Received == Len(dlFile \o dlBuffer) - dlStart

getLocalFileLength == Len(dlFile)

-----------------------------------------------------------------------------
(* The request for the size fails, or the answer does not tell it.         *)
getDownloadFileLenth ==
  /\ dlAt = "size"
  /\ \/ dlAt' = "open" /\ UNCHANGED dlResult
     \/ dlAt' = "done" /\ dlResult' = "kNetwork"
  /\ UNCHANGED <<dlStop, dlFile, dlBuffer, dlStart, dlRet, dlReported,
                 dlRefuses, dlFaults, dlUnnoticed>>

(* The file is opened for appending and its length asked for.              *)
DownloadBegins(opens) ==
  /\ dlAt = "open"
  /\ IF opens
       THEN /\ dlAt' = "perform"
            /\ dlStart' = getLocalFileLength
            /\ dlReported' = 0
            /\ UNCHANGED dlRet
       ELSE /\ dlAt' = "check"
            /\ dlRet' = FALSE
            /\ UNCHANGED <<dlStart, dlReported>>
  /\ UNCHANGED <<dlStop, dlFile, dlBuffer, dlResult, dlRefuses, dlFaults,
                 dlUnnoticed>>

(* totalToDownload is what the server still has to send, nowDownloaded     *)
(* what of it has come; onProgress is told at most once a second.          *)
my_progress_func(now) ==
  LET totalToDownload == RemoteSize - dlStart
  IN  \/ dlReported' = RemoteSize - totalToDownload + now
      \/ UNCHANGED dlReported

(* Mutant: CURLOPT_RESUME_FROM is not set. *)
my_write_funcFromZero == Append(dlBuffer, Received + 1)

my_write_func == Append(dlBuffer, dlStart + Received + 1)

Receive ==
  /\ dlAt = "perform" /\ dlStart + Received < RemoteSize
  /\ dlBuffer' = my_write_func
  /\ my_progress_func(Received + 1)
  /\ UNCHANGED <<dlAt, dlStop, dlFile, dlStart, dlRet, dlResult, dlRefuses,
                 dlFaults, dlUnnoticed>>

(* The answer to a request for the whole file is an error page: the status *)
(* is not looked at, CURLOPT_FAILONERROR not set.  With a range libcurl    *)
(* refuses any answer that is not partial content.                         *)
ErrorPage ==
  /\ dlAt = "perform" /\ dlStart = 0 /\ Received = 0
  /\ dlAt' = "close" /\ dlRet' = TRUE
  /\ dlBuffer' = <<0>>
  /\ dlUnnoticed' = dlUnnoticed \union {"error page"}
  /\ UNCHANGED <<dlStop, dlFile, dlStart, dlResult, dlReported, dlRefuses, dlFaults>>

(* curl_easy_perform returns: CURLE_OK with the last block of the body.    *)
PerformEnds(ok) ==
  /\ dlAt = "perform"
  /\ ok => /\ dlStart + Received = RemoteSize
           /\ dlStart = RemoteSize => ~dlRefuses
  /\ dlAt' = "close" /\ dlRet' = ok
  /\ UNCHANGED <<dlStop, dlFile, dlBuffer, dlStart, dlResult, dlReported,
                 dlRefuses, dlFaults, dlUnnoticed>>

(* stdio writes the oldest block it holds.                                 *)
Flush ==
  /\ dlBuffer # <<>>
  /\ dlFile' = Append(dlFile, Head(dlBuffer))
  /\ dlBuffer' = Tail(dlBuffer)
  /\ UNCHANGED <<dlAt, dlStop, dlStart, dlRet, dlResult, dlReported,
                 dlRefuses, dlFaults, dlUnnoticed>>

(* What fclose returns is not looked at.                                   *)
fclose(writes) ==
  /\ dlAt = "close"
  /\ dlAt' = "check"
  /\ dlBuffer' = <<>>
  /\ IF writes
       THEN /\ dlFile' = dlFile \o dlBuffer
            /\ UNCHANGED <<dlFaults, dlUnnoticed>>
       ELSE /\ dlBuffer # <<>> /\ dlFaults < MaxFaults
            /\ dlFaults' = dlFaults + 1
            /\ dlUnnoticed' = dlUnnoticed \union {"close"}
            /\ UNCHANGED dlFile
  /\ UNCHANGED <<dlStop, dlStart, dlRet, dlResult, dlReported, dlRefuses>>

(* Mutant: the loop is left only when it is told to stop. *)
downloadControlerOnlyStops ==
  /\ dlAt = "check"
  /\ IF dlStop
       THEN /\ dlAt' = "done"
            /\ dlResult' = IF dlRet THEN "success" ELSE "kUncompress"
       ELSE dlAt' = "open" /\ UNCHANGED dlResult
  /\ UNCHANGED <<dlStop, dlFile, dlBuffer, dlStart, dlRet, dlReported,
                 dlRefuses, dlFaults, dlUnnoticed>>

(* Download has returned: stop, report, or try again after a sleep.        *)
downloadControler ==
  /\ dlAt = "check"
  /\ IF dlStop \/ dlRet
       THEN /\ dlAt' = "done"
            /\ dlResult' = IF dlRet THEN "success" ELSE "kUncompress"
       ELSE dlAt' = "open" /\ UNCHANGED dlResult
  /\ UNCHANGED <<dlStop, dlFile, dlBuffer, dlStart, dlRet, dlReported,
                 dlRefuses, dlFaults, dlUnnoticed>>

setStopDown ==
  /\ ~dlStop /\ dlStop' = TRUE
  /\ UNCHANGED <<dlAt, dlFile, dlBuffer, dlStart, dlRet, dlResult, dlReported,
                 dlRefuses, dlFaults, dlUnnoticed>>

(* The process ends at any point and is started again, with the same file. *)
Crash ==
  /\ dlFaults < MaxFaults
  /\ dlFaults' = dlFaults + 1
  /\ dlAt' = "size" /\ dlStop' \in BOOLEAN
  /\ dlBuffer' = <<>>
  /\ dlStart' = 0 /\ dlReported' = 0 /\ dlRet' = FALSE /\ dlResult' = "none"
  /\ UNCHANGED <<dlFile, dlRefuses, dlUnnoticed>>

Control ==
  \/ getDownloadFileLenth \/ fclose(TRUE) \/ downloadControler
  \/ \E b \in BOOLEAN : DownloadBegins(b) \/ PerformEnds(b)

Next == Control \/ Receive \/ ErrorPage \/ Flush \/ fclose(FALSE) \/ setStopDown \/ Crash

(* The thread of the download runs and a transfer ends; a file opened and  *)
(* a transfer tried again and again do not fail for ever.                  *)
Fairness ==
  /\ WF_dlVars(Control)
  /\ SF_dlVars(DownloadBegins(TRUE))
  /\ SF_dlVars(Receive)
  /\ SF_dlVars(PerformEnds(TRUE))

Spec == Init /\ [][Next]_dlVars /\ Fairness

-----------------------------------------------------------------------------
Whole(n) == [i \in 1 .. n |-> i]

(* Through broken transfers, failed writes and restarts the local file is  *)
(* a beginning of the remote one, progress tells of no more than has come, *)
(* and success means the whole file - unless a failure the code does not   *)
(* look at came between (CurlDown.cpp:101-106, 117, 167-212).              *)
FileIsPrefix ==
  /\ "error page" \notin dlUnnoticed =>
       /\ \E n \in 0 .. RemoteSize : dlFile \o dlBuffer = Whole(n)
       /\ dlAt = "perform" => dlReported <= Len(dlFile \o dlBuffer)
  /\ dlUnnoticed = {} /\ dlResult = "success" => dlFile = Whole(RemoteSize)

(* However often a transfer breaks, the delegate is told how it ended      *)
(* (CurlDown.cpp:214-248) - unless the server refuses a range that starts  *)
(* at the end: a transfer that breaks after the last block is then refused *)
(* for ever.                                                               *)
Reports == dlRefuses \/ <>[](dlResult # "none")
====
