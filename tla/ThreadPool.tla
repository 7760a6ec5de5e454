---- MODULE ThreadPool ----
(***************************************************************************)
(* threadpool of timerloop/priority_queue/threadpool.h: worker threads, a  *)
(* FIFO of tasks, a mutex, a condition variable and two atomics.           *)
(*                                                                         *)
(* The actors are the owner (constructor and destructor), the clients,     *)
(* which call commit while the pool is alive, and the workers; the task a  *)
(* worker runs may itself call commit.  A step of the model is what a      *)
(* thread does between two points where another thread can observe or      *)
(* disturb it: an atomic access, a lock operation, a notification.  The    *)
(* bodies under lock_guard are one step, taken when the mutex is free.     *)
(***************************************************************************)
EXTENDS Integers, Sequences, FiniteSets, Functions

CONSTANTS Workers,   \* threads the constructor may create
          Clients,   \* threads that call commit
          Task,      \* identities of tasks, one for each call of commit
          Size,      \* argument of the constructor
          MaxNum,    \* THREADPOOL_MAX_NUM
          None       \* no task, no thread

PoolSize == IF Size < MaxNum THEN Size ELSE MaxNum

ASSUME PoolAssumption ==
  /\ Size \in Nat \ {0}
  /\ MaxNum \in Nat \ {0}
  /\ IsFiniteSet(Workers)
  /\ IsFiniteSet(Clients)
  /\ PoolSize <= Cardinality(Workers)
  /\ Workers \intersect Clients = {}
  /\ None \notin Task \union Workers

VARIABLES run,       \* _run
          tasks,     \* _tasks
          lock,      \* the worker that holds _lock across steps, or None
          waiting,   \* threads blocked in _task_cv.wait and not yet notified
          idl,       \* _idlThrNum
          pc,        \* where each worker is
          cur,       \* the task each worker holds
          call,      \* where each caller is in commit
          arg,       \* the task being committed
          owner,     \* where the owner is
          done,      \* tasks that have returned
          refused    \* tasks whose commit threw

vars == <<run, tasks, lock, waiting, idl, pc, cur, call, arg, owner, done, refused>>

Callers == Clients \union Workers

WorkerPC == {"unborn", "loop", "lock", "test", "block", "blocked",
             "claimed", "task", "recount", "exited"}
OwnerPC  == {"adding", "counting", "serving", "stopping", "joining", "gone"}

TypeOK ==
  /\ run \in BOOLEAN
  /\ tasks \in Seq(Task)
  /\ lock \in Workers \union {None}
  /\ waiting \subseteq Workers
  /\ idl \in Int
  /\ pc \in [Workers -> WorkerPC]
  /\ cur \in [Workers -> Task \union {None}]
  /\ call \in [Callers -> {"none", "push", "notify"}]
  /\ arg \in [Callers -> Task \union {None}]
  /\ owner \in OwnerPC
  /\ done \subseteq Task
  /\ refused \subseteq Task

Init ==
  /\ run = TRUE
  /\ tasks = <<>>
  /\ lock = None
  /\ waiting = {}
  /\ idl = 0
  /\ pc = [w \in Workers |-> "unborn"]
  /\ cur = [w \in Workers |-> None]
  /\ call = [c \in Callers |-> "none"]
  /\ arg = [c \in Callers |-> None]
  /\ owner = "adding"
  /\ done = {}
  /\ refused = {}

Pool == {w \in Workers : pc[w] # "unborn"}                          \* _pool
Running == {t \in Task : \E w \in Workers : cur[w] = t}
Known == Range(tasks) \union Running \union done \union refused
           \union {t \in Task : \E c \in Callers : arg[c] = t}

-----------------------------------------------------------------------------
(* The constructor: addThread creates a thread, which starts at once, and  *)
(* counts it in a step of its own.                                         *)

AddThread(w) ==
  /\ owner = "adding"
  /\ pc[w] = "unborn"
  /\ Cardinality(Pool) < PoolSize
  /\ pc' = [pc EXCEPT ![w] = "loop"]
  /\ owner' = "counting"
  /\ UNCHANGED <<run, tasks, lock, waiting, idl, cur, call, arg, done, refused>>

CountThread ==
  /\ owner = "counting"
  /\ idl' = idl + 1
  /\ owner' = IF Cardinality(Pool) < PoolSize THEN "adding" ELSE "serving"
  /\ UNCHANGED <<run, tasks, lock, waiting, pc, cur, call, arg, done, refused>>

(* The destructor.  The owner destroys the pool once no client is inside   *)
(* commit; tasks may still be running.  Neither the store to _run nor the  *)
(* notification is made under _lock.                                       *)

Stop ==
  /\ owner = "serving"
  /\ \A c \in Clients : call[c] = "none"
  /\ run' = FALSE
  /\ owner' = "stopping"
  /\ UNCHANGED <<tasks, lock, waiting, idl, pc, cur, call, arg, done, refused>>

NotifyAll ==
  /\ owner = "stopping"
  /\ waiting' = {}
  /\ owner' = "joining"
  /\ UNCHANGED <<run, tasks, lock, idl, pc, cur, call, arg, done, refused>>

(* Mutant: the destructor joins one thread only. *)
JoinOne ==
  /\ owner = "joining"
  /\ \E w \in Pool : pc[w] = "exited"
  /\ owner' = "gone"
  /\ UNCHANGED <<run, tasks, lock, waiting, idl, pc, cur, call, arg, done, refused>>

Join ==
  /\ owner = "joining"
  /\ \A w \in Pool : pc[w] = "exited"
  /\ owner' = "gone"
  /\ UNCHANGED <<run, tasks, lock, waiting, idl, pc, cur, call, arg, done, refused>>

-----------------------------------------------------------------------------
(* commit: the test of _run, the push under _lock, and the notification    *)
(* after _lock is released.                                                *)

MayCall(c) ==
  /\ call[c] = "none"
  /\ \/ c \in Clients /\ owner = "serving"
     \/ c \in Workers /\ pc[c] = "task"

CommitCheck(c, t) ==
  /\ MayCall(c)
  /\ t \notin Known
  /\ run
  /\ call' = [call EXCEPT ![c] = "push"]
  /\ arg' = [arg EXCEPT ![c] = t]
  /\ UNCHANGED <<run, tasks, lock, waiting, idl, pc, cur, owner, done, refused>>

CommitThrow(c, t) ==
  /\ MayCall(c)
  /\ t \notin Known
  /\ ~run
  /\ refused' = refused \union {t}
  /\ UNCHANGED <<run, tasks, lock, waiting, idl, pc, cur, call, arg, owner, done>>

CommitPush(c) ==
  /\ call[c] = "push"
  /\ lock = None
  /\ tasks' = Append(tasks, arg[c])
  /\ call' = [call EXCEPT ![c] = "notify"]
  /\ arg' = [arg EXCEPT ![c] = None]
  /\ UNCHANGED <<run, lock, waiting, idl, pc, cur, owner, done, refused>>

(* Mutant: commit notifies only if it finds its task alone in the queue. *)
CommitNotifyIfAlone(c) ==
  /\ call[c] = "notify"
  /\ \/ Len(tasks) = 1 /\ \E w \in waiting : waiting' = waiting \ {w}
     \/ Len(tasks) # 1 /\ UNCHANGED waiting
  /\ call' = [call EXCEPT ![c] = "none"]
  /\ UNCHANGED <<run, tasks, lock, idl, pc, cur, arg, owner, done, refused>>

CommitNotify(c) ==
  /\ call[c] = "notify"
  /\ \/ \E w \in waiting : waiting' = waiting \ {w}
     \/ waiting = {} /\ UNCHANGED waiting
  /\ call' = [call EXCEPT ![c] = "none"]
  /\ UNCHANGED <<run, tasks, lock, idl, pc, cur, arg, owner, done, refused>>

-----------------------------------------------------------------------------
(* The worker.  wait(lock, pred) tests the predicate with the mutex held,  *)
(* blocks (releasing it) when the predicate is false, and takes the mutex  *)
(* again to test once more when it is notified or wakes spuriously.        *)

Loop(w) ==
  /\ pc[w] = "loop"
  /\ pc' = [pc EXCEPT ![w] = IF run THEN "lock" ELSE "exited"]
  /\ UNCHANGED <<run, tasks, lock, waiting, idl, cur, call, arg, owner, done, refused>>

Lock(w) ==
  /\ pc[w] = "lock" \/ (pc[w] = "blocked" /\ w \notin waiting)
  /\ lock = None
  /\ lock' = w
  /\ pc' = [pc EXCEPT ![w] = "test"]
  /\ UNCHANGED <<run, tasks, waiting, idl, cur, call, arg, owner, done, refused>>

TestFails(w) ==
  /\ pc[w] = "test"
  /\ run /\ tasks = <<>>
  /\ pc' = [pc EXCEPT ![w] = "block"]
  /\ UNCHANGED <<run, tasks, lock, waiting, idl, cur, call, arg, owner, done, refused>>

Block(w) ==
  /\ pc[w] = "block"
  /\ waiting' = waiting \union {w}
  /\ lock' = None
  /\ pc' = [pc EXCEPT ![w] = "blocked"]
  /\ UNCHANGED <<run, tasks, idl, cur, call, arg, owner, done, refused>>

WakeSpuriously(w) ==
  /\ w \in waiting
  /\ waiting' = waiting \ {w}
  /\ UNCHANGED <<run, tasks, lock, idl, pc, cur, call, arg, owner, done, refused>>

Leave(w) ==
  /\ pc[w] = "test"
  /\ ~run /\ tasks = <<>>
  /\ lock' = None
  /\ pc' = [pc EXCEPT ![w] = "exited"]
  /\ UNCHANGED <<run, tasks, waiting, idl, cur, call, arg, owner, done, refused>>

(* Mutant: the task queued last is taken first. *)
TakeLast(w) ==
  /\ pc[w] = "test"
  /\ tasks # <<>>
  /\ cur' = [cur EXCEPT ![w] = tasks[Len(tasks)]]
  /\ tasks' = SubSeq(tasks, 1, Len(tasks) - 1)
  /\ lock' = None
  /\ pc' = [pc EXCEPT ![w] = "claimed"]
  /\ UNCHANGED <<run, waiting, idl, call, arg, owner, done, refused>>

Take(w) ==
  /\ pc[w] = "test"
  /\ tasks # <<>>
  /\ cur' = [cur EXCEPT ![w] = Head(tasks)]
  /\ tasks' = Tail(tasks)
  /\ lock' = None
  /\ pc' = [pc EXCEPT ![w] = "claimed"]
  /\ UNCHANGED <<run, waiting, idl, call, arg, owner, done, refused>>

Uncount(w) ==
  /\ pc[w] = "claimed"
  /\ idl' = idl - 1
  /\ pc' = [pc EXCEPT ![w] = "task"]
  /\ UNCHANGED <<run, tasks, lock, waiting, cur, call, arg, owner, done, refused>>

Return(w) ==
  /\ pc[w] = "task"
  /\ call[w] = "none"
  /\ done' = done \union {cur[w]}
  /\ cur' = [cur EXCEPT ![w] = None]
  /\ pc' = [pc EXCEPT ![w] = "recount"]
  /\ UNCHANGED <<run, tasks, lock, waiting, idl, call, arg, owner, refused>>

(* Mutant: a worker that is told to stop does not count itself idle. *)
RecountIfRunning(w) ==
  /\ pc[w] = "recount"
  /\ idl' = IF run THEN idl + 1 ELSE idl
  /\ pc' = [pc EXCEPT ![w] = "loop"]
  /\ UNCHANGED <<run, tasks, lock, waiting, cur, call, arg, owner, done, refused>>

Recount(w) ==
  /\ pc[w] = "recount"
  /\ idl' = idl + 1
  /\ pc' = [pc EXCEPT ![w] = "loop"]
  /\ UNCHANGED <<run, tasks, lock, waiting, cur, call, arg, owner, done, refused>>

-----------------------------------------------------------------------------
Worker(w) ==
  \/ Loop(w) \/ Lock(w) \/ TestFails(w) \/ Block(w) \/ Leave(w)
  \/ Take(w) \/ Uncount(w) \/ Return(w) \/ Recount(w)

Construct == CountThread \/ \E w \in Workers : AddThread(w)
Destroy == NotifyAll \/ Join

Next ==
  \/ Construct
  \/ Stop
  \/ Destroy
  \/ \E c \in Callers : \/ \E t \in Task : CommitCheck(c, t) \/ CommitThrow(c, t)
                        \/ CommitPush(c)
                        \/ CommitNotify(c)
  \/ \E w \in Workers : Worker(w) \/ WakeSpuriously(w)

(* Threads that can run are scheduled: weak fairness of each thread.  A    *)
(* thread that asks for _lock gets it if it is released again and again:   *)
(* strong fairness of the two acquisitions, since with spurious wakeups    *)
(* without end the mutex need not stay free.  Nothing obliges a client to  *)
(* commit, the owner to destroy the pool or a thread to wake spuriously.   *)
Fairness ==
  /\ WF_vars(Construct)
  /\ WF_vars(Destroy)
  /\ \A c \in Callers : SF_vars(CommitPush(c)) /\ WF_vars(CommitNotify(c))
  /\ \A w \in Workers : SF_vars(Lock(w)) /\ WF_vars(Worker(w))

Spec == Init /\ [][Next]_vars /\ Fairness

-----------------------------------------------------------------------------
(* Workers that are on their way to the predicate: each of them will look  *)
(* at the queue before it blocks.                                          *)
Coming == {w \in Workers : \/ pc[w] \in {"loop", "lock", "test"}
                           \/ pc[w] = "blocked" /\ w \notin waiting}

(* Workers that _idlThrNum does not count.                                 *)
Busy == {w \in Workers : pc[w] \in {"task", "recount"}}

Notifying == {c \in Callers : call[c] = "notify"}

(* No worker sleeps in the condition variable while a task has nobody      *)
(* coming for it: with a sleeper, each queued task is matched by a pending *)
(* notify_one or by a worker on its way.  It depends on commit notifying   *)
(* once per push, after the push, and on workers testing under the mutex.  *)
WorkConserving ==
  run /\ waiting # {} =>
    Len(tasks) <= Cardinality(Notifying) + Cardinality(Coming)

(* _idlThrNum, which is_available and AUTO_GROW read, counts the workers   *)
(* outside a task exactly, however the updates interleave: it is never     *)
(* negative and never above the size of the pool.                          *)
IdleCount ==
  idl = Cardinality(Pool) - (IF owner = "counting" THEN 1 ELSE 0)
          - Cardinality(Busy)

(* When join has returned and the members are about to be destroyed, no    *)
(* thread holds or waits for the mutex, runs a task or is inside commit.   *)
NobodyInsideWhenGone ==
  owner = "gone" =>
    /\ lock = None
    /\ waiting = {}
    /\ Running = {}
    /\ \A c \in Callers : call[c] = "none"
    /\ idl = Cardinality(Pool)

(* What the threads keep true between their steps, and the properties      *)
(* above rest on.  Who holds what: a worker has a task exactly from Take   *)
(* to Return, a caller has an argument exactly from the test to the push,  *)
(* and a worker commits only from inside its task.                         *)
HoldInv ==
  /\ \A w \in Workers : cur[w] # None <=> pc[w] \in {"claimed", "task"}
  /\ \A c \in Callers : arg[c] # None <=> call[c] = "push"
  /\ \A w \in Workers : call[w] # "none" => pc[w] = "task"

(* The mutex: whoever tests or is about to block holds it, so the queue    *)
(* found empty is still empty when the worker blocks.                      *)
MutexInv ==
  /\ \A w \in Workers : pc[w] \in {"test", "block"} <=> lock = w
  /\ \A w \in Workers : pc[w] = "block" => tasks = <<>>
  /\ \A w \in waiting : pc[w] = "blocked"

(* The phases of the pool's life.                                          *)
PhaseInv ==
  /\ run <=> owner \notin {"stopping", "joining", "gone"}
  /\ owner \in {"adding", "counting"} =>
       /\ tasks = <<>>
       /\ \A c \in Callers : call[c] = "none"
       /\ \A w \in Workers : pc[w] \notin {"claimed", "task", "recount"}
  /\ owner \notin {"adding", "counting", "serving"} =>
       \A c \in Clients : call[c] = "none"
  /\ \A w \in Workers : pc[w] = "exited" => ~run
  /\ owner = "gone" => \A w \in Pool : pc[w] = "exited"

IInv == TypeOK /\ HoldInv /\ MutexInv /\ PhaseInv

(* A task is in one place at a time, and once in the queue.                *)
PlaceInv ==
  /\ \A i, j \in 1 .. Len(tasks) : tasks[i] = tasks[j] => i = j
  /\ \A v, w \in Workers : cur[v] = cur[w] /\ cur[v] # None => v = w
  /\ \A c, d \in Callers : arg[c] = arg[d] /\ arg[c] # None => c = d
  /\ \A i \in 1 .. Len(tasks) :
       /\ \A w \in Workers : cur[w] # tasks[i]
       /\ \A c \in Callers : arg[c] # tasks[i]
       /\ tasks[i] \notin done \union refused
  /\ \A c \in Callers : \A w \in Workers : arg[c] = cur[w] => arg[c] = None
  /\ \A c \in Callers : arg[c] \notin done \union refused
  /\ \A w \in Workers : cur[w] \notin done \union refused

(* The detailed pool does what TaskService promises.                       *)
Service == INSTANCE TaskService WITH
             Capacity <- PoolSize, open <- run, backlog <- tasks, running <- Running

ImplementsService == Service!SSpec

(* "Wake all threads" (threadpool.h:35) and "wait for the end" (:39): a    *)
(* destructor that has begun returns.                                      *)
DestructorReturns == (owner = "stopping") ~> (owner = "gone")

====
