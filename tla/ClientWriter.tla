---- MODULE ClientWriter ----
(***************************************************************************)
(* Pipe/PipeClient/WritePipe.cpp: the client posts strings to a thread     *)
(* that writes them to the pipe.  Windows gives a thread its message queue *)
(* at the first call that needs one, PeekMessage here, after the pipe is   *)
(* connected; a message posted before, or to a thread that has ended, is   *)
(* lost, and nobody looks at what PostThreadMessage returns.  The strings  *)
(* are the numbers 1 .. MaxStrings in the order of the calls.              *)
(*                                                                         *)
(* cwAccepted is history: the strings that were really posted.  What the   *)
(* thread does after the object is gone is not defined and not modelled.   *)
(***************************************************************************)
EXTENDS Naturals, Sequences

CONSTANT MaxStrings

VARIABLES cwMain,     \* where the owner of the object is
          cwThread,   \* where WritePipeThread is
          cwHandle,   \* m_hPipe
          cwQueue,    \* the messages of the thread; 0 is WM_QUIT
          cwCalls,    \* calls of WriteData
          cwWritten,  \* what the server's end of the pipe is given
          cwAccepted

cwVars == <<cwMain, cwThread, cwHandle, cwQueue, cwCalls, cwWritten, cwAccepted>>

TypeOK ==
  /\ cwMain \in {"constructed", "initialized", "closed", "waiting", "gone"}
  /\ cwThread \in {"none", "waiting", "opened", "looping", "ended"}
  /\ cwHandle \in {"NULL", "invalid", "open"}
  /\ cwQueue \in Seq(0 .. MaxStrings)
  /\ cwCalls \in 0 .. MaxStrings
  /\ cwWritten \in Seq(1 .. MaxStrings) /\ cwAccepted \in Seq(1 .. MaxStrings)

Init ==
  /\ cwMain = "constructed" /\ cwThread = "none" /\ cwHandle = "NULL"
  /\ cwQueue = <<>> /\ cwCalls = 0
  /\ cwWritten = <<>> /\ cwAccepted = <<>>

(* What a message posted now does to the queue.                            *)
PostThreadMessage(msg) ==
  cwQueue' = IF cwThread = "looping" THEN Append(cwQueue, msg) ELSE cwQueue

-----------------------------------------------------------------------------
Initialize ==
  /\ cwMain = "constructed"
  /\ cwMain' = "initialized" /\ cwThread' = "waiting"
  /\ UNCHANGED <<cwHandle, cwQueue, cwCalls, cwWritten, cwAccepted>>

WriteData ==
  /\ cwMain = "initialized" /\ cwCalls < MaxStrings
  /\ cwCalls' = cwCalls + 1
  /\ PostThreadMessage(cwCalls + 1)
  /\ cwAccepted' = IF cwThread = "looping" THEN Append(cwAccepted, cwCalls + 1) ELSE cwAccepted
  /\ UNCHANGED <<cwMain, cwThread, cwHandle, cwWritten>>

(* The destructor closes the handle under the thread, whatever it is, asks *)
(* the thread to quit and waits for it, half a second and no longer.       *)
CloseHandle ==
  /\ cwMain = "initialized"
  /\ cwMain' = "closed"
  /\ cwHandle' = "NULL"
  /\ UNCHANGED <<cwThread, cwQueue, cwCalls, cwWritten, cwAccepted>>

PostQuit ==
  /\ cwMain = "closed"
  /\ cwMain' = "waiting"
  /\ PostThreadMessage(0)
  /\ UNCHANGED <<cwThread, cwHandle, cwCalls, cwWritten, cwAccepted>>

WaitEnds ==
  /\ cwMain = "waiting"
  /\ cwMain' = "gone"
  /\ UNCHANGED <<cwThread, cwHandle, cwQueue, cwCalls, cwWritten, cwAccepted>>

-----------------------------------------------------------------------------
Runs(at) == cwThread = at /\ cwMain # "gone"

(* WaitNamedPipe or CreateFile fails, or the pipe is open.                 *)
Connect ==
  /\ Runs("waiting")
  /\ \/ cwThread' = "ended" /\ cwHandle' \in {cwHandle, "invalid"}
     \/ cwThread' = "opened" /\ cwHandle' = "open"
  /\ UNCHANGED <<cwMain, cwQueue, cwCalls, cwWritten, cwAccepted>>

(* A failure leaves the handle open; otherwise PeekMessage makes the queue. *)
SetNamedPipeHandleState ==
  /\ Runs("opened")
  /\ \/ cwThread' = "ended"
     \/ cwHandle = "open" /\ cwThread' = "looping"
  /\ UNCHANGED <<cwMain, cwHandle, cwQueue, cwCalls, cwWritten, cwAccepted>>

Message == Runs("looping") /\ cwQueue # <<>> /\ cwQueue' = Tail(cwQueue)

WriteSucceeds ==
  /\ Message /\ Head(cwQueue) # 0
  /\ cwHandle = "open"
  /\ cwWritten' = Append(cwWritten, Head(cwQueue))
  /\ UNCHANGED <<cwMain, cwThread, cwHandle, cwCalls, cwAccepted>>

(* The loop is left, the handle closed; what is still queued is dropped.   *)
Ends ==
  /\ cwThread' = "ended"
  /\ cwHandle' = "NULL"
  /\ UNCHANGED <<cwMain, cwCalls, cwWritten, cwAccepted>>

(* Mutant: a write that fails does not end the loop. *)
WriteFailsGoesOn ==
  /\ Message /\ Head(cwQueue) # 0
  /\ UNCHANGED <<cwMain, cwThread, cwHandle, cwCalls, cwWritten, cwAccepted>>

(* The pipe is broken, short of resources or closed by the destructor.     *)
WriteFails ==
  /\ Message /\ Head(cwQueue) # 0
  /\ Ends

Quit ==
  /\ Message /\ Head(cwQueue) = 0
  /\ Ends

Next ==
  \/ Initialize \/ WriteData \/ CloseHandle \/ PostQuit \/ WaitEnds
  \/ Connect \/ SetNamedPipeHandleState \/ WriteSucceeds \/ WriteFails \/ Quit

Spec == Init /\ [][Next]_cwVars

-----------------------------------------------------------------------------
(* The server is given the strings that were posted, in the order of the   *)
(* calls and with none left out between two of them: what is lost is lost  *)
(* at the beginning, before the thread has its queue, or at the end, from  *)
(* the first write that fails on (WritePipe.cpp:62-105, 127-134).          *)
WrittenInOrder ==
  /\ \E n \in 0 .. Len(cwAccepted) : cwWritten = SubSeq(cwAccepted, 1, n)
  /\ \A i \in 2 .. Len(cwAccepted) : cwAccepted[i] = cwAccepted[i - 1] + 1
====
