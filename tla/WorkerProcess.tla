---- MODULE WorkerProcess ----
(***************************************************************************)
(* workerprocess: the master, started with -w, forks a worker and forks    *)
(* another whenever the worker is dead, with a pause that doubles while    *)
(* fork fails.  The handler of SIGINT and SIGTERM kills the process        *)
(* g_pidWorker names; a worker inherits the handler, and its copy of       *)
(* g_pidWorker is the one the master had when it forked.                   *)
(*                                                                         *)
(* The system gives a process any pid that is free; a pid is free again    *)
(* once a dead child has been waited for, or its parent is dead.  Other    *)
(* processes ("stranger") take free pids too, never the last.  MaxFails    *)
(* bounds the failures of fork in a row.                                   *)
(***************************************************************************)
EXTENDS Integers, FiniteSets

CONSTANTS Pids, Min, Max, MaxFails

ASSUME WorkerAssumption ==
  /\ Pids \subseteq Nat \ {0} /\ MaxFails \in Nat
  /\ Min \in Nat \ {0} /\ Max \in Nat /\ Min <= Max

VARIABLES proc,          \* what has each pid
          g_pidWorker,   \* of the master
          inherited,     \* g_pidWorker of the workers
          pc,            \* where the master is
          ret,           \* what fork has returned
          m_timevalCurrent, timeout,
          fails,         \* failures of fork since the last worker
          born           \* whether there has been a worker

timeVars == <<m_timevalCurrent, timeout>>
vars == <<proc, g_pidWorker, inherited, pc, ret, timeVars, fails, born>>

TypeOK ==
  /\ proc \in [Pids -> {"free", "worker", "zombie", "stranger"}]
  /\ g_pidWorker \in Pids \union {0, -1}
  /\ inherited \in [Pids -> Pids \union {0, -1}]
  /\ pc \in {"fork", "assign", "wait", "pause", "sleep", "dead"}
  /\ ret \in Pids \union {0, -1}
  /\ m_timevalCurrent \in Min .. Max /\ timeout \in Min .. Max
  /\ fails \in 0 .. MaxFails
  /\ born \in BOOLEAN

Init ==
  /\ proc = [p \in Pids |-> "free"]
  /\ g_pidWorker = 0 /\ inherited = [p \in Pids |-> 0]
  /\ pc = "fork" /\ ret = 0
  /\ m_timevalCurrent = Min /\ timeout = Min
  /\ fails = 0 /\ born = FALSE

Free == {p \in Pids : proc[p] = "free"}
Children == {p \in Pids : proc[p] \in {"worker", "zombie"}}

-----------------------------------------------------------------------------
(* The master's loop.                                                      *)

ForkWorker ==
  /\ pc = "fork" /\ pc' = "assign"
  /\ \E p \in Free :
       /\ ret' = p
       /\ proc' = [proc EXCEPT ![p] = "worker"]
       /\ inherited' = [inherited EXCEPT ![p] = g_pidWorker]
  /\ fails' = 0 /\ born' = TRUE
  /\ UNCHANGED <<g_pidWorker, timeVars>>

ForkFails ==
  /\ pc = "fork" /\ pc' = "assign"
  /\ fails < MaxFails /\ fails' = fails + 1
  /\ ret' = -1
  /\ UNCHANGED <<proc, g_pidWorker, inherited, timeVars, born>>

(* Mutant: the master waits although fork has failed. *)
AssignAndWait ==
  /\ pc = "assign" /\ pc' = "wait"
  /\ g_pidWorker' = ret
  /\ UNCHANGED <<proc, inherited, ret, timeVars, fails, born>>

Assign ==
  /\ pc = "assign"
  /\ g_pidWorker' = ret
  /\ pc' = IF ret > 0 THEN "wait" ELSE "pause"
  /\ UNCHANGED <<proc, inherited, ret, timeVars, fails, born>>

(* Mutant: a signal ends the wait. *)
WaitInterrupted ==
  /\ pc = "wait" /\ pc' = "pause"
  /\ \/ \E p \in Children : proc[p] = "zombie" /\ proc' = [proc EXCEPT ![p] = "free"]
     \/ UNCHANGED proc
  /\ m_timevalCurrent' = Min
  /\ UNCHANGED <<g_pidWorker, inherited, ret, timeout, fails, born>>

(* waitpid takes any dead child, and returns at once if there is no child; *)
(* signal() has it go on after a signal.                                   *)
Wait ==
  /\ pc = "wait" /\ pc' = "pause"
  /\ \/ \E p \in Children : proc[p] = "zombie" /\ proc' = [proc EXCEPT ![p] = "free"]
     \/ Children = {} /\ UNCHANGED proc
  /\ m_timevalCurrent' = Min
  /\ UNCHANGED <<g_pidWorker, inherited, ret, timeout, fails, born>>

(* operator++, and a mutant that does not look at the maximum.             *)
TwiceUnclipped(t) == 2 * t

Twice(t) == IF 2 * t <= Max THEN 2 * t ELSE Max

Pause ==
  /\ pc = "pause" /\ pc' = "sleep"
  /\ timeout' = m_timevalCurrent
  /\ m_timevalCurrent' = Twice(m_timevalCurrent)
  /\ UNCHANGED <<proc, g_pidWorker, inherited, ret, fails, born>>

(* Mutant: the loop forks only once. *)
SleepEndsInWait ==
  /\ pc = "sleep" /\ pc' = "wait"
  /\ UNCHANGED <<proc, g_pidWorker, inherited, ret, timeVars, fails, born>>

SleepEnds ==
  /\ pc = "sleep" /\ pc' = "fork"
  /\ UNCHANGED <<proc, g_pidWorker, inherited, ret, timeVars, fails, born>>

Master == ForkWorker \/ ForkFails \/ Assign \/ Wait \/ Pause \/ SleepEnds

-----------------------------------------------------------------------------
(* The end of process p, whatever brings it.                               *)
End(p) ==
  proc' = [proc EXCEPT ![p] =
             CASE proc[p] = "worker" -> IF pc = "dead" THEN "free" ELSE "zombie"
               [] proc[p] = "stranger" -> "free"
               [] OTHER -> proc[p]]

(* CallBackSignal in a process whose g_pidWorker is pid.                   *)
CallBackSignal(pid) ==
  /\ pid > 0
  /\ End(pid)
  /\ UNCHANGED <<g_pidWorker, inherited, pc, ret, timeVars, fails, born>>

Signal ==
  \/ pc # "dead" /\ CallBackSignal(g_pidWorker)
  \/ \E p \in Pids : proc[p] = "worker" /\ CallBackSignal(inherited[p])

Ends(p) ==
  /\ proc[p] \in {"worker", "stranger"}
  /\ End(p)
  /\ UNCHANGED <<g_pidWorker, inherited, pc, ret, timeVars, fails, born>>

StrangerStarts(p) ==
  /\ p \in Free /\ Free # {p}
  /\ proc' = [proc EXCEPT ![p] = "stranger"]
  /\ UNCHANGED <<g_pidWorker, inherited, pc, ret, timeVars, fails, born>>

(* The master is killed: its worker goes on alone.                         *)
MasterEnds ==
  /\ pc # "dead" /\ pc' = "dead"
  /\ proc' = [p \in Pids |-> IF proc[p] = "zombie" THEN "free" ELSE proc[p]]
  /\ UNCHANGED <<g_pidWorker, inherited, ret, timeVars, fails, born>>

Next ==
  \/ Master \/ Signal \/ MasterEnds
  \/ \E p \in Pids : Ends(p) \/ StrangerStarts(p)

(* The master runs; everything else happens or does not.                   *)
Spec == Init /\ [][Next]_vars /\ WF_vars(Master)

-----------------------------------------------------------------------------
(* One worker at a time; and while the master waits, g_pidWorker is that   *)
(* worker, dead or alive but not yet waited for, so that nobody else can   *)
(* have its pid: a signal then kills no stranger.  Outside the wait        *)
(* g_pidWorker may name anybody.                                           *)
Ours ==
  /\ pc \in {"fork", "pause", "sleep"} => Children = {}
  /\ pc = "assign" => Children = {ret} \intersect Pids
  /\ pc = "wait" => Children = {g_pidWorker}

(* Min doubled n times, as often as fork may fail.                         *)
Doubled[n \in 0 .. MaxFails] == IF n = 0 THEN Min ELSE 2 * Doubled[n - 1]

(* After the death of a worker the pause is the shortest; each failure of  *)
(* fork that follows doubles it, up to the longest, and the first failures *)
(* of all begin with the shortest.                                         *)
Backoff ==
  pc = "sleep" =>
    LET length == Doubled[IF born THEN fails ELSE fails - 1] IN
    timeout = IF length <= Max THEN length ELSE Max

(* As long as the master lives there is a worker again.                    *)
Respawn == pc # "dead" ~> pc = "dead" \/ \E p \in Pids : proc[p] = "worker"

====
