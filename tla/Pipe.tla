---- MODULE Pipe ----
(***************************************************************************)
(* Pipe: a server that owns the writing end of a named pipe and a client   *)
(* that reads it.  WriteData posts a string to the message queue of the    *)
(* writer thread, which puts a header with the length before it and writes *)
(* both to the pipe; the reader thread gathers what it reads in a cache    *)
(* and cuts it into packages again.                                        *)
(*                                                                         *)
(* A post is a number, size its length; a byte is the post it belongs to   *)
(* and its place in the package, so that the bytes of a header spell size  *)
(* only if they are all there, in order.  Each process lives once and may  *)
(* end anywhere.  Of the system: a thread has a queue from its first look  *)
(* at it on, a post without one fails; a pipe is there for a client as     *)
(* soon as it is created; what was written can be read after the writer    *)
(* has gone; a read returns any part of it.                                *)
(***************************************************************************)
EXTENDS Naturals, Sequences, SequencesExt

CONSTANTS MaxPosts,             \* bound of the calls of WriteData
          Sizes,                \* lengths of what is posted
          PACKGE_HEADER_SIZE, BUFFER_MAX_LEN,
          CacheSize             \* of m_bufferCache, 4096 in the code

(* No copy into a buffer is checked by the code; a post fits bufferWrite.  *)
ASSUME PipeAssumption ==
  /\ MaxPosts \in Nat /\ CacheSize \in Nat /\ Sizes \subseteq Nat
  /\ PACKGE_HEADER_SIZE \in Nat \ {0} /\ BUFFER_MAX_LEN \in Nat \ {0}
  /\ \A n \in Sizes : PACKGE_HEADER_SIZE + n <= BUFFER_MAX_LEN
  /\ 2 * BUFFER_MAX_LEN <= CacheSize

Posts == 1 .. MaxPosts
Quit == 0   \* WM_QUIT in the queue

VARIABLES size,           \* the lengths of the posts made, in order
          server,         \* where the thread that owns the CPipeServer is
          writer,         \* where WritePipeThread is
          messages,       \* the queue of the writer thread
          accepted,       \* the posts that met a queue, in order, but for
                          \* those that could not be written
          data,           \* the posts the writer has in hand: one or none
          pipe,           \* "open" at both ends, "closed" at one
          bytes,          \* what is in the pipe
          reader,         \* where ReadPipeThread is
          m_bConnected,   \* of the client
          m_bufferCache,
          m_funcCallback, \* whether it is set
          handled,        \* how many packages have been cut
          delivered       \* those the callback was called with

serverVars == <<size, server, accepted>>
writerVars == <<writer, data, messages>>
readerVars == <<reader, m_bConnected, m_bufferCache, handled, delivered>>
vars == <<serverVars, writerVars, pipe, bytes, readerVars, m_funcCallback>>

Byte == Posts \X (1 .. BUFFER_MAX_LEN)
Package(n) == [i \in 1 .. PACKGE_HEADER_SIZE + size[n] |-> <<n, i>>]
Body(n) == SubSeq(Package(n), PACKGE_HEADER_SIZE + 1, PACKGE_HEADER_SIZE + size[n])

(* Typing.  The cache takes what is read: what was left of a package and   *)
(* a full buffer fit (ReadPipe.cpp:83 copies without a look at its size).  *)
TypeOK ==
  /\ size \in Seq(Sizes) /\ Len(size) <= MaxPosts
  /\ server \in {"start", "running", "closing", "gone"}
  /\ writer \in {"none", "create", "connect", "waiting", "queue", "get", "write", "ended"}
  /\ messages \in Seq(Posts \union {Quit})
  /\ accepted \in Seq(1 .. Len(size))
  /\ data \in Seq(Posts) /\ Len(data) = IF writer = "write" THEN 1 ELSE 0
  /\ pipe \in {"none", "listening", "open", "closed"}
  /\ bytes \in Seq(Byte)
  /\ reader \in {"start", "create", "read", "handle", "ended"}
  /\ m_bConnected = (reader \in {"read", "handle"})
  /\ m_bufferCache \in Seq(Byte) /\ Len(m_bufferCache) <= CacheSize
  /\ m_funcCallback \in BOOLEAN
  /\ handled \in Nat
  /\ delivered \in Seq(Seq(Byte)) /\ Len(delivered) <= handled

Init ==
  /\ size = <<>> /\ server = "start" /\ accepted = <<>>
  /\ writer = "none" /\ data = <<>> /\ messages = <<>>
  /\ pipe = "none" /\ bytes = <<>>
  /\ reader = "start" /\ m_bConnected = FALSE /\ m_bufferCache = <<>>
  /\ m_funcCallback = FALSE /\ handled = 0 /\ delivered = <<>>

-----------------------------------------------------------------------------
(* The server's main thread.                                               *)

HasQueue == writer \in {"get", "write"}

Initialize ==
  /\ server = "start" /\ server' = "running"
  /\ writer' = "create"
  /\ UNCHANGED <<size, accepted, data, messages, pipe, bytes, readerVars, m_funcCallback>>

WriteData(n) ==
  /\ server = "running"
  /\ Len(size) < MaxPosts
  /\ size' = Append(size, n)
  /\ IF HasQueue
       THEN /\ messages' = Append(messages, Len(size'))
            /\ accepted' = Append(accepted, Len(size'))
       ELSE UNCHANGED <<messages, accepted>>
  /\ UNCHANGED <<server, writer, data, pipe, bytes, readerVars, m_funcCallback>>

(* ~CWritePipe.  m_hPipe was never set: what CloseHandle is given may be   *)
(* no handle, or that of the pipe.                                         *)
Destroy ==
  /\ server = "running" /\ server' = "closing"
  /\ messages' = IF HasQueue THEN Append(messages, Quit) ELSE messages
  /\ pipe' \in {pipe} \union IF pipe = "none" THEN {} ELSE {"closed"}
  /\ UNCHANGED <<size, accepted, writer, data, bytes, readerVars, m_funcCallback>>

(* The process ends: killed, or its wait for the thread is over (500 ms).  *)
ServerEnds ==
  /\ server \in {"running", "closing"} /\ server' = "gone"
  /\ writer' = "ended" /\ messages' = <<>> /\ data' = <<>>
  /\ pipe' = IF pipe = "none" THEN "none" ELSE "closed"
  /\ UNCHANGED <<size, accepted, bytes, readerVars, m_funcCallback>>

-----------------------------------------------------------------------------
(* WritePipeThread.                                                        *)

CreateNamedPipe ==
  /\ writer = "create"
  /\ \/ writer' = "connect" /\ pipe' = "listening"
     \/ writer' = "ended" /\ UNCHANGED pipe
  /\ UNCHANGED <<serverVars, data, messages, bytes, readerVars, m_funcCallback>>

(* A client that has come first makes the call fail, and the thread gives  *)
(* up the pipe it has with it.                                             *)
ConnectNamedPipe ==
  /\ writer = "connect"
  /\ IF pipe = "listening"
       THEN writer' = "waiting" /\ UNCHANGED pipe
       ELSE writer' = "ended" /\ pipe' = "closed"
  /\ UNCHANGED <<serverVars, data, messages, bytes, readerVars, m_funcCallback>>

Connected ==
  /\ writer = "waiting" /\ pipe # "listening"
  /\ writer' = "queue"
  /\ UNCHANGED <<serverVars, data, messages, pipe, bytes, readerVars, m_funcCallback>>

PeekMessage ==
  /\ writer = "queue" /\ writer' = "get"
  /\ UNCHANGED <<serverVars, data, messages, pipe, bytes, readerVars, m_funcCallback>>

(* Mutant: WM_QUIT overtakes what was posted before. *)
GetMessageQuitFirst ==
  /\ writer = "get" /\ messages # <<>>
  /\ LET quit == \E i \in DOMAIN messages : messages[i] = Quit IN
     /\ writer' = IF quit THEN "ended" ELSE "write"
     /\ data' = IF quit THEN <<>> ELSE <<Head(messages)>>
     /\ messages' = IF quit THEN <<>> ELSE Tail(messages)
  /\ UNCHANGED <<serverVars, pipe, bytes, readerVars, m_funcCallback>>

(* At the end of the thread the pipe stays open: m_hPipe is closed instead. *)
GetMessage ==
  /\ writer = "get" /\ messages # <<>>
  /\ writer' = IF Head(messages) = Quit THEN "ended" ELSE "write"
  /\ data' = IF Head(messages) = Quit THEN <<>> ELSE <<Head(messages)>>
  /\ messages' = IF Head(messages) = Quit THEN <<>> ELSE Tail(messages)
  /\ UNCHANGED <<serverVars, pipe, bytes, readerVars, m_funcCallback>>

(* A write may fail, and does once the pipe is closed: nothing of the post *)
(* is written and it is gone, deleted before the call; the failure is only *)
(* printed, and the thread goes on to the next one.                        *)
WriteFile ==
  /\ writer = "write" /\ writer' = "get"
  /\ data' = <<>>
  /\ \/ pipe = "open" /\ bytes' = bytes \o Package(Head(data)) /\ UNCHANGED accepted
     \/ pipe = "open" /\ accepted' = RemoveFirst(accepted, Head(data)) /\ UNCHANGED bytes
     \/ pipe # "open" /\ UNCHANGED <<accepted, bytes>>
  /\ UNCHANGED <<size, server, messages, pipe, readerVars, m_funcCallback>>

Writer ==
  \/ CreateNamedPipe \/ ConnectNamedPipe \/ Connected
  \/ PeekMessage \/ GetMessage \/ WriteFile

-----------------------------------------------------------------------------
(* The client: ReadPipeThread with HandleData; main sets the callback      *)
(* while the thread may be anywhere.                                       *)

SetReadCallback ==
  /\ ~m_funcCallback /\ m_funcCallback' = TRUE
  /\ UNCHANGED <<serverVars, writerVars, pipe, bytes, readerVars>>

WaitNamedPipe ==
  /\ reader = "start"
  /\ reader' = IF pipe = "listening" THEN "create" ELSE "ended"
  /\ UNCHANGED <<serverVars, writerVars, pipe, bytes, m_bConnected, m_bufferCache,
                 handled, delivered, m_funcCallback>>

CreateFile ==
  /\ reader = "create"
  /\ IF pipe = "listening"
       THEN pipe' = "open" /\ reader' = "read" /\ m_bConnected' = TRUE
       ELSE reader' = "ended" /\ UNCHANGED <<pipe, m_bConnected>>
  /\ UNCHANGED <<serverVars, writerVars, bytes, m_bufferCache, handled, delivered,
                 m_funcCallback>>

ReadFile ==
  /\ reader = "read" /\ reader' = "handle"
  /\ \E n \in 1 .. BUFFER_MAX_LEN :
       /\ n <= Len(bytes)
       /\ m_bufferCache' = m_bufferCache \o SubSeq(bytes, 1, n)
       /\ bytes' = SubSeq(bytes, n + 1, Len(bytes))
  /\ UNCHANGED <<serverVars, writerVars, pipe, m_bConnected, handled, delivered,
                 m_funcCallback>>

(* Mutant: the connection is still reported. *)
ReadFailsConnected ==
  /\ reader = "read" /\ reader' = "ended"
  /\ pipe = "closed" /\ bytes = <<>>
  /\ UNCHANGED <<serverVars, writerVars, pipe, bytes, m_bConnected, m_bufferCache,
                 handled, delivered, m_funcCallback>>

ReadFails ==
  /\ reader = "read" /\ reader' = "ended"
  /\ pipe = "closed" /\ bytes = <<>>
  /\ m_bConnected' = FALSE
  /\ UNCHANGED <<serverVars, writerVars, pipe, bytes, m_bufferCache, handled, delivered,
                 m_funcCallback>>

(* BytesToInt of the first bytes of the cache: anything, if they are no    *)
(* header.                                                                 *)
DataSizes ==
  LET n == m_bufferCache[1][1] IN
  IF \A i \in 1 .. PACKGE_HEADER_SIZE : m_bufferCache[i] = <<n, i>>
    THEN {size[n]} ELSE 0 .. BUFFER_MAX_LEN

Complete(n) == Len(m_bufferCache) >= PACKGE_HEADER_SIZE + n

Deliver(body) ==
  /\ handled' = handled + 1
  /\ delivered' = IF m_funcCallback THEN Append(delivered, body) ELSE delivered

(* Mutants: the loop is an if; the header stays in the cache.              *)
HandleOnce ==
  /\ reader = "handle"
  /\ Len(m_bufferCache) >= PACKGE_HEADER_SIZE
  /\ \E n \in DataSizes :
       /\ Complete(n)
       /\ Deliver(SubSeq(m_bufferCache, PACKGE_HEADER_SIZE + 1, PACKGE_HEADER_SIZE + n))
       /\ m_bufferCache' = SubSeq(m_bufferCache, PACKGE_HEADER_SIZE + n + 1, Len(m_bufferCache))
  /\ reader' = "read"
  /\ UNCHANGED <<serverVars, writerVars, pipe, bytes, m_bConnected, m_funcCallback>>

HandleBody ==
  /\ reader = "handle"
  /\ Len(m_bufferCache) >= PACKGE_HEADER_SIZE
  /\ \E n \in DataSizes :
       /\ Complete(n)
       /\ Deliver(SubSeq(m_bufferCache, PACKGE_HEADER_SIZE + 1, PACKGE_HEADER_SIZE + n))
       /\ m_bufferCache' = SubSeq(m_bufferCache, n + 1, Len(m_bufferCache))
  /\ UNCHANGED <<serverVars, writerVars, pipe, bytes, reader, m_bConnected, m_funcCallback>>

HandleData ==
  /\ reader = "handle"
  /\ Len(m_bufferCache) >= PACKGE_HEADER_SIZE
  /\ \E n \in DataSizes :
       /\ Complete(n)
       /\ Deliver(SubSeq(m_bufferCache, PACKGE_HEADER_SIZE + 1, PACKGE_HEADER_SIZE + n))
       /\ m_bufferCache' = SubSeq(m_bufferCache, PACKGE_HEADER_SIZE + n + 1, Len(m_bufferCache))
  /\ UNCHANGED <<serverVars, writerVars, pipe, bytes, reader, m_bConnected, m_funcCallback>>

HandleEnds ==
  /\ reader = "handle" /\ reader' = "read"
  /\ \/ Len(m_bufferCache) < PACKGE_HEADER_SIZE
     \/ /\ Len(m_bufferCache) >= PACKGE_HEADER_SIZE
        /\ \E n \in DataSizes : ~Complete(n)
  /\ UNCHANGED <<serverVars, writerVars, pipe, bytes, m_bConnected, m_bufferCache,
                 handled, delivered, m_funcCallback>>

(* The client's process ends anywhere, or a call of its thread fails.      *)
ClientEnds ==
  /\ reader # "ended" /\ reader' = "ended"
  /\ m_bConnected' = FALSE
  /\ pipe' = IF pipe = "open" /\ m_bConnected THEN "closed" ELSE pipe
  /\ UNCHANGED <<serverVars, writerVars, bytes, m_bufferCache, handled, delivered,
                 m_funcCallback>>

Reader ==
  CreateFile \/ ReadFile \/ ReadFails \/ HandleData \/ HandleEnds

Next ==
  \/ Initialize \/ (\E n \in Sizes : WriteData(n)) \/ Destroy \/ ServerEnds
  \/ Writer
  \/ SetReadCallback \/ WaitNamedPipe \/ Reader \/ ClientEnds

(* The two threads run; nothing makes anybody start or post.               *)
Spec == Init /\ [][Next]_vars /\ WF_vars(Writer) /\ WF_vars(Reader)

-----------------------------------------------------------------------------
(* What the callback gets are the posts that met a queue, whole, in their  *)
(* order and none in between left out but those whose own write failed,    *)
(* from the first that was cut after the callback had been set, wherever   *)
(* the stream was cut by reads: a failed write never joins two packages,   *)
(* nor costs another post.                                                 *)
Framing ==
  /\ handled <= Len(accepted)
  /\ \A i \in DOMAIN delivered :
       delivered[i] = Body(accepted[handled - Len(delivered) + i])

(* While the pipe is open no post that met a queue is lost but by its own  *)
(* write, and none is there twice, also once WM_QUIT has been posted and   *)
(* the writer has gone: those not handled are, in order, in the cache, the *)
(* pipe, the writer's hand and its queue.                                  *)
Conserved ==
  LET Packages(posts) == FlattenSeq([i \in DOMAIN posts |-> Package(posts[i])]) IN
  pipe = "open" =>
    Packages(SubSeq(accepted, handled + 1, Len(accepted)))
      = m_bufferCache \o bytes \o Packages(data)
          \o Packages(RemoveFirst(messages, Quit))

(* A post that met a queue is handled in the end, unless its own write     *)
(* fails, which takes it from accepted, or the pipe is closed, by the end  *)
(* of either process or by the destructor.                                 *)
Unhandled == ToSet(SubSeq(accepted, handled + 1, Len(accepted)))

Handled ==
  \A n \in Posts : n \in Unhandled ~> n \notin Unhandled \/ pipe = "closed"

====
