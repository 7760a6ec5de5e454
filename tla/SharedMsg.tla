---- MODULE SharedMsg ----
(***************************************************************************)
(* linux-sharedMsg: a server and clients that share a memory segment, a    *)
(* semaphore that guards it and a message queue, all under one key.  A     *)
(* client writes the segment and announces it with an 'r'; the server      *)
(* prints the segment for each 'r' and at a 'q' removes the three objects. *)
(* Any process may be killed at any point, and the server started again.   *)
(*                                                                         *)
(* The kernel's objects are modelled by what the calls of the programs     *)
(* rely on: an object has an id, the number of the server's run that       *)
(* created it; a call with the id of a removed object fails, and no result *)
(* is looked at once the objects are open.  The semaphore has the          *)
(* adjustment of each process that SEM_UNDO keeps.  A process of Clients   *)
(* lives once; MaxStarts bounds the runs of the server, MaxSends the       *)
(* writes, which are numbered.                                             *)
(***************************************************************************)
EXTENDS Integers, Sequences, FiniteSets

CONSTANTS Clients, Server, MaxStarts, MaxSends, None

ASSUME SharedMsgAssumption ==
  /\ Server \notin Clients /\ IsFiniteSet(Clients)
  /\ MaxStarts \in Nat /\ MaxSends \in Nat /\ None \notin Nat

Procs == Clients \union {Server}
Ids == 1 .. MaxStarts

VARIABLES starts,   \* how often the server has been started
          shm, msq, sem,   \* ids of the objects under the key, or None
          stored,   \* the writes the segment shm has seen
          queue,    \* the messages in msq
          val,      \* value of sem
          adj,      \* adjustment of sem that is undone when a process ends
          pc,       \* where each process is
          at,       \* the ids each client has opened
          cmd,      \* the write each client is making
          sent,     \* how many writes have been begun
          reset     \* whether sem was set while a process was inside

objects == <<shm, msq, sem>>
semaphore == <<val, adj>>
msgVars == <<starts, objects, stored, queue, semaphore, pc, at, cmd, sent, reset>>

Message == [mtext : {"r", "q"}, write : 0 .. MaxSends, shm : Ids]

ServerPC == {"down", "msgget", "semget", "setval", "msgrcv", "p", "inside", "v",
             "rmshm", "rmmsq", "rmsem"}
ClientPC == {"new", "msgget", "semget", "command", "p", "inside", "v", "send", "gone"}

Serving == pc[Server] \in {"msgrcv", "p", "inside", "v"}

MsgTypeOK ==
  /\ starts \in 0 .. MaxStarts
  /\ {shm, msq, sem} \subseteq Ids \union {None}
  /\ Serving => None \notin {shm, msq, sem}
  /\ stored \subseteq 1 .. MaxSends
  /\ queue \in Seq(Message)
  /\ val \in Nat
  /\ adj \in [Procs -> Int]
  /\ pc \in [Procs -> ServerPC \union ClientPC]
  /\ at \in [Clients -> [shm : Ids \union {None}, msq : Ids \union {None},
                         sem : Ids \union {None}]]
  /\ cmd \in [Clients -> 0 .. MaxSends]
  /\ sent \in 0 .. MaxSends
  /\ reset \in BOOLEAN

MsgInit ==
  /\ starts = 0
  /\ shm = None /\ msq = None /\ sem = None
  /\ stored = {}
  /\ queue = <<>>
  /\ val = 0
  /\ adj = [p \in Procs |-> 0]
  /\ pc = [p \in Procs |-> IF p = Server THEN "down" ELSE "new"]
  /\ at = [c \in Clients |-> [shm |-> None, msq |-> None, sem |-> None]]
  /\ cmd = [c \in Clients |-> 0]
  /\ sent = 0
  /\ reset = FALSE

Goto(p, here, there) == pc[p] = here /\ pc' = [pc EXCEPT ![p] = there]

(* semid of a process, and whether its calls still find the semaphore.     *)
semid(p) == IF p = Server THEN sem ELSE at[p].sem
Has(p) == sem # None /\ semid(p) = sem

(* A process that has passed sem_p on the semaphore and not sem_v.         *)
Inside(p) == Has(p) /\ pc[p] \in {"inside", "v"}

-----------------------------------------------------------------------------
(* Start of the server: shmget, msgget and semget create what the key does *)
(* not lead to yet; the semaphore is set in a call of its own, always.     *)

ServerShmget ==
  /\ Goto(Server, "down", "msgget")
  /\ starts < MaxStarts
  /\ starts' = starts + 1
  /\ IF shm = None THEN shm' = starts' /\ stored' = {} ELSE UNCHANGED <<shm, stored>>
  /\ UNCHANGED <<msq, sem, queue, semaphore, at, cmd, sent, reset>>

ServerMsgget ==
  /\ Goto(Server, "msgget", "semget")
  /\ msq' = IF msq = None THEN starts ELSE msq
  /\ UNCHANGED <<starts, shm, sem, stored, queue, semaphore, at, cmd, sent, reset>>

creat_sem ==
  /\ Goto(Server, "semget", "setval")
  /\ sem' = IF sem = None THEN starts ELSE sem
  /\ UNCHANGED <<starts, shm, msq, stored, queue, semaphore, at, cmd, sent, reset>>

(* SETVAL also clears the adjustments of all processes.                    *)
init_sem ==
  /\ Goto(Server, "setval", "msgrcv")
  /\ val' = 1
  /\ adj' = [p \in Procs |-> 0]
  /\ reset' = (reset \/ \E p \in Procs : Inside(p))
  /\ UNCHANGED <<starts, objects, stored, queue, at, cmd, sent>>

-----------------------------------------------------------------------------
(* sem_p and sem_v, of both programs.  A result of -1 is not looked at.    *)

(* Mutants: the server does not ask for the semaphore; sem_p, then sem_v,  *)
(* without SEM_UNDO.                                                       *)
sem_pClients(p) ==
  /\ Goto(p, "p", "inside")
  /\ IF Has(p) /\ p # Server
       THEN val > 0 /\ val' = val - 1 /\ adj' = [adj EXCEPT ![p] = adj[p] + 1]
       ELSE UNCHANGED semaphore
  /\ UNCHANGED <<starts, objects, stored, queue, at, cmd, sent, reset>>

sem_pKept(p) ==
  /\ Goto(p, "p", "inside")
  /\ IF Has(p) THEN val > 0 /\ val' = val - 1 ELSE UNCHANGED val
  /\ UNCHANGED <<starts, objects, stored, queue, adj, at, cmd, sent, reset>>

sem_p(p) ==
  /\ Goto(p, "p", "inside")
  /\ IF Has(p)
       THEN val > 0 /\ val' = val - 1 /\ adj' = [adj EXCEPT ![p] = adj[p] + 1]
       ELSE UNCHANGED semaphore
  /\ UNCHANGED <<starts, objects, stored, queue, at, cmd, sent, reset>>

sem_vKept(p) ==
  /\ Goto(p, "v", IF p = Server THEN "msgrcv" ELSE "send")
  /\ val' = IF Has(p) THEN val + 1 ELSE val
  /\ UNCHANGED <<starts, objects, stored, queue, adj, at, cmd, sent, reset>>

sem_v(p) ==
  /\ Goto(p, "v", IF p = Server THEN "msgrcv" ELSE "send")
  /\ IF Has(p)
       THEN val' = val + 1 /\ adj' = [adj EXCEPT ![p] = adj[p] - 1]
       ELSE UNCHANGED semaphore
  /\ UNCHANGED <<starts, objects, stored, queue, at, cmd, sent, reset>>

-----------------------------------------------------------------------------
(* The server's loop and its end.                                          *)

msgrcv ==
  /\ queue # <<>>
  /\ Goto(Server, "msgrcv", IF Head(queue).mtext = "q" THEN "rmshm" ELSE "p")
  /\ queue' = Tail(queue)
  /\ UNCHANGED <<starts, objects, stored, semaphore, at, cmd, sent, reset>>

PrintSegment ==
  /\ Goto(Server, "inside", "v")
  /\ UNCHANGED <<starts, objects, stored, queue, semaphore, at, cmd, sent, reset>>

RemoveShm ==
  /\ Goto(Server, "rmshm", "rmmsq")
  /\ shm' = None
  /\ UNCHANGED <<starts, msq, sem, stored, queue, semaphore, at, cmd, sent, reset>>

RemoveMsq ==
  /\ Goto(Server, "rmmsq", "rmsem")
  /\ msq' = None
  /\ queue' = <<>>
  /\ UNCHANGED <<starts, shm, sem, stored, semaphore, at, cmd, sent, reset>>

del_sem ==
  /\ Goto(Server, "rmsem", "down")
  /\ sem' = None
  /\ val' = 0
  /\ adj' = [p \in Procs |-> 0]
  /\ UNCHANGED <<starts, shm, msq, stored, queue, at, cmd, sent, reset>>

-----------------------------------------------------------------------------
(* The client.  An object it does not find ends it.                        *)
ClientShmget(c) ==
  /\ Goto(c, "new", IF shm = None THEN "gone" ELSE "msgget")
  /\ at' = [at EXCEPT ![c].shm = shm]
  /\ UNCHANGED <<starts, objects, stored, queue, semaphore, cmd, sent, reset>>

ClientMsgget(c) ==
  /\ Goto(c, "msgget", IF msq = None THEN "gone" ELSE "semget")
  /\ at' = [at EXCEPT ![c].msq = msq]
  /\ UNCHANGED <<starts, objects, stored, queue, semaphore, cmd, sent, reset>>

ClientSemget(c) ==
  /\ Goto(c, "semget", IF sem = None THEN "gone" ELSE "command")
  /\ at' = [at EXCEPT ![c].sem = sem]
  /\ UNCHANGED <<starts, objects, stored, queue, semaphore, cmd, sent, reset>>

(* msgsnd to a queue that has been removed fails, which is not looked at.  *)
msgsnd(c, text) ==
  queue' = IF msq # None /\ at[c].msq = msq
             THEN Append(queue, [mtext |-> text, write |-> cmd'[c], shm |-> at[c].shm])
             ELSE queue

(* Mutant: the write is announced before it is made. *)
CommandAnnounced(c) ==
  /\ Goto(c, "command", "p")
  /\ sent < MaxSends
  /\ sent' = sent + 1
  /\ cmd' = [cmd EXCEPT ![c] = sent + 1]
  /\ msgsnd(c, "r")
  /\ UNCHANGED <<starts, objects, stored, semaphore, at, reset>>

Command(c) ==
  /\ Goto(c, "command", "p")
  /\ sent < MaxSends
  /\ sent' = sent + 1
  /\ cmd' = [cmd EXCEPT ![c] = sent + 1]
  /\ UNCHANGED <<starts, objects, stored, queue, semaphore, at, reset>>

(* scanf into the segment: inside until the user has typed.                *)
Write(c) ==
  /\ Goto(c, "inside", "v")
  /\ stored' = IF at[c].shm = shm THEN stored \union {cmd[c]} ELSE stored
  /\ UNCHANGED <<starts, objects, queue, semaphore, at, cmd, sent, reset>>

Announce(c) ==
  /\ Goto(c, "send", "command")
  /\ UNCHANGED cmd
  /\ msgsnd(c, "r")
  /\ UNCHANGED <<starts, objects, stored, semaphore, at, sent, reset>>

-----------------------------------------------------------------------------
(* The end of a process undoes what it did to the semaphore; a result below *)
(* zero is made zero.  kill ends a process anywhere.                       *)
Undo(p) ==
  /\ val' = IF val + adj[p] < 0 THEN 0 ELSE val + adj[p]
  /\ adj' = [adj EXCEPT ![p] = 0]

QuitCommand(c) ==
  /\ Goto(c, "command", "gone")
  /\ UNCHANGED cmd
  /\ msgsnd(c, "q")
  /\ Undo(c)
  /\ UNCHANGED <<starts, objects, stored, at, sent, reset>>

Crash(p) ==
  /\ pc[p] \notin {"down", "new", "gone"}
  /\ pc' = [pc EXCEPT ![p] = IF p = Server THEN "down" ELSE "gone"]
  /\ Undo(p)
  /\ UNCHANGED <<starts, objects, stored, queue, at, cmd, sent, reset>>

ServerStep ==
  \/ ServerMsgget \/ creat_sem \/ init_sem
  \/ msgrcv \/ sem_p(Server) \/ PrintSegment \/ sem_v(Server)
  \/ RemoveShm \/ RemoveMsq \/ del_sem

ClientStep(c) ==
  \/ ClientMsgget(c) \/ ClientSemget(c)
  \/ sem_p(c) \/ Write(c) \/ sem_v(c) \/ Announce(c)

MsgNext ==
  \/ ServerShmget \/ ServerStep
  \/ \E c \in Clients : ClientShmget(c) \/ Command(c) \/ QuitCommand(c) \/ ClientStep(c)
  \/ \E p \in Procs : Crash(p)

(* A process that runs goes on, and its user types what it asks for; the   *)
(* kernel serves those that wait for a semaphore in their order.  Nothing  *)
(* makes anybody start a program or give another command.                  *)
MsgFairness ==
  /\ WF_msgVars(ServerStep)
  /\ \A c \in Clients : WF_msgVars(ClientStep(c))
  /\ \A p \in Procs : SF_msgVars(sem_p(p))

MsgSpec == MsgInit /\ [][MsgNext]_msgVars /\ MsgFairness

-----------------------------------------------------------------------------
(* Two processes are never between sem_p and sem_v of one semaphore, unless *)
(* a server has been started while a process was there: creat_sem sets the *)
(* value of a semaphore it finds to 1 (Server.c:92).                       *)
Exclusive ==
  ~reset => \A p, q \in Procs : Inside(p) /\ Inside(q) => p = q

(* While the server runs its loop the semaphore is free or one process is  *)
(* inside, whoever was killed and wherever: SEM_UNDO gives back exactly    *)
(* what a process had taken, and never twice.                              *)
SemaphoreCounts ==
  ~reset /\ Serving => val + Cardinality({p \in Procs : Inside(p)}) = 1

(* An 'r' in the queue stands for a write that has been made, unless it    *)
(* comes from a client that still has the segment of an earlier server: a  *)
(* server killed after RemoveShm leaves such clients the queue alone.      *)
AnnouncedIsStored ==
  \A i \in DOMAIN queue :
    queue[i].mtext = "r" /\ queue[i].shm = shm => queue[i].write \in stored

(* Whoever waits in sem_p while the server serves gets in, also after a    *)
(* process has been killed inside.                                         *)
GoesOn ==
  \A p \in Procs :
    pc[p] = "p" /\ Serving ~> pc[p] # "p" \/ ~Serving

====
