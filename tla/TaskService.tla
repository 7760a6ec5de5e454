---- MODULE TaskService ----
(***************************************************************************)
(* What timerloop/priority_queue/threadpool.h promises to the code that    *)
(* commits tasks: tasks are taken from a first-in first-out backlog, each  *)
(* at most once, at most Capacity of them run together, and as long as the *)
(* service is open a task in the backlog is eventually taken.  A closed    *)
(* service refuses new tasks; it may leave a part of its backlog behind.   *)
(* ThreadPool implements this module and Timer is built on it.             *)
(***************************************************************************)
EXTENDS Naturals, Sequences, FiniteSets, Functions

CONSTANTS Task,      \* identities of tasks: every commit is of a fresh one
          Capacity   \* number of worker threads, at least one

VARIABLES open,      \* _run, as commit reads it
          backlog,   \* _tasks
          running,   \* tasks taken and not yet returned from
          done,      \* tasks that have returned
          refused    \* tasks whose commit threw

svars == <<open, backlog, running, done, refused>>

STypeOK ==
  /\ open \in BOOLEAN
  /\ backlog \in Seq(Task)
  /\ running \subseteq Task
  /\ done \subseteq Task
  /\ refused \subseteq Task

Known == Range(backlog) \union running \union done \union refused

SInit ==
  /\ open = TRUE
  /\ backlog = <<>>
  /\ running = {}
  /\ done = {}
  /\ refused = {}

(* A commit.  After the service is closed only a task that is running can  *)
(* still get one in: it passed the test of _run before the store.          *)
Submit(t) ==
  /\ t \notin Known
  /\ open \/ running # {}
  /\ backlog' = Append(backlog, t)
  /\ UNCHANGED <<open, running, done, refused>>

Refuse(t) ==
  /\ ~open
  /\ t \notin Known
  /\ refused' = refused \union {t}
  /\ UNCHANGED <<open, backlog, running, done>>

Start ==
  /\ backlog # <<>>
  /\ Cardinality(running) < Capacity
  /\ running' = running \union {Head(backlog)}
  /\ backlog' = Tail(backlog)
  /\ UNCHANGED <<open, done, refused>>

Finish(t) ==
  /\ t \in running
  /\ running' = running \ {t}
  /\ done' = done \union {t}
  /\ UNCHANGED <<open, backlog, refused>>

Close ==
  /\ open
  /\ open' = FALSE
  /\ UNCHANGED <<backlog, running, done, refused>>

SNext ==
  \/ \E t \in Task : Submit(t) \/ Refuse(t) \/ Finish(t)
  \/ Start
  \/ Close

SSpec ==
  /\ SInit
  /\ [][SNext]_svars
  /\ WF_svars(open /\ Start)
  /\ \A t \in Task : WF_svars(Finish(t))

====
