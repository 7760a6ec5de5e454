---- MODULE Daemon ----
(***************************************************************************)
(* daemon/daemon.h as daemon/main.cpp uses it: instances of the program    *)
(* started together, each of which tests the pid file, forks twice and     *)
(* tests it again.  A record lock belongs to a process: it is not          *)
(* inherited by fork, and it is gone when its owner ends or closes any     *)
(* descriptor of the file.                                                 *)
(*                                                                         *)
(* A process is an instance and a role.  Calls may fail and processes may  *)
(* be killed, MaxKills times in all.                                      *)
(***************************************************************************)
EXTENDS Naturals, FiniteSets

CONSTANTS Instances, MaxKills

Roles == {"parent", "child1", "child2"}
Procs == Instances \X Roles

VARIABLES dmPc,
          dmLock,       \* who holds the record lock: one process or none
          dmFile,       \* whose pid is in the pid file: nobody's while there is
                        \* no file, or it is empty or written in part
          dmUnlocked,   \* processes that gave the lock up and were told to go on
          dmFaults,     \* how many calls failed and processes were killed
          dmOwnParent   \* a child gave up before its own parent had ended

dmVars == <<dmPc, dmLock, dmFile, dmUnlocked, dmFaults, dmOwnParent>>

Points == {"none", "test", "truncate", "write", "fork", "redirect", "serve", "exit", "gone"}

DaemonTypeOK ==
  /\ dmPc \in [Procs -> Points]
  /\ dmLock \subseteq Procs /\ dmFile \subseteq Procs
  /\ dmUnlocked \subseteq Procs
  /\ dmFaults \in Nat
  /\ dmOwnParent \in BOOLEAN

DaemonInit ==
  /\ dmPc = [p \in Procs |-> IF p[2] = "parent" THEN "test" ELSE "none"]
  /\ dmLock = {} /\ dmFile = {}
  /\ dmUnlocked = {}
  /\ dmFaults = 0
  /\ dmOwnParent = FALSE

(* Mutant: the lock outlives the process that ends. *)
DiesHolding(p) ==
  /\ dmPc' = [dmPc EXCEPT ![p] = "gone"]
  /\ UNCHANGED dmLock

(* A process ends and the kernel takes its lock back.                      *)
Dies(p) ==
  /\ dmPc' = [dmPc EXCEPT ![p] = "gone"]
  /\ dmLock' = dmLock \ {p}

Fault ==
  /\ dmFaults < MaxKills
  /\ dmFaults' = dmFaults + 1

-----------------------------------------------------------------------------
(* already_running                                                         *)

After(p) == IF p[2] = "parent" THEN "fork" ELSE "serve"

lockfile(p) ==
  /\ dmLock = {}
  /\ dmLock' = {p}

TestAndLock(p) ==
  /\ dmPc[p] = "test"
  /\ lockfile(p)
  /\ dmPc' = [dmPc EXCEPT ![p] = "truncate"]
  /\ UNCHANGED <<dmFile, dmUnlocked, dmFaults, dmOwnParent>>

(* Somebody holds the lock: main prints "already running" and ends.        *)
AlreadyRunning(p) ==
  /\ dmPc[p] = "test"
  /\ dmLock # {}
  /\ LET parent == <<p[1], "parent">>
     IN  dmOwnParent' = (dmOwnParent \/ (dmLock = {parent} /\ dmPc[parent] = "exit"))
  /\ Dies(p)
  /\ UNCHANGED <<dmFile, dmUnlocked, dmFaults>>

(* open, or fcntl for another reason, fails: that counts as running, too.  *)
TestFails(p) ==
  /\ dmPc[p] = "test"
  /\ Fault
  /\ Dies(p)
  /\ UNCHANGED <<dmFile, dmUnlocked, dmOwnParent>>

(* Mutant: the file is cut before the lock is asked for. *)
TruncateFirst(p) ==
  /\ dmPc[p] \in {"test", "truncate"}
  /\ dmFile' = {}
  /\ dmPc' = [dmPc EXCEPT ![p] = IF @ = "test" THEN "test" ELSE "write"]
  /\ UNCHANGED <<dmLock, dmUnlocked, dmFaults, dmOwnParent>>

Truncate(p) ==
  /\ dmPc[p] = "truncate"
  /\ dmFile' = {}
  /\ dmPc' = [dmPc EXCEPT ![p] = "write"]
  /\ UNCHANGED <<dmLock, dmUnlocked, dmFaults, dmOwnParent>>

WritePid(p) ==
  /\ dmPc[p] = "write"
  /\ dmFile' = {p}
  /\ dmPc' = [dmPc EXCEPT ![p] = After(p)]
  /\ UNCHANGED <<dmLock, dmUnlocked, dmFaults, dmOwnParent>>

(* Neither failure is reported: the descriptor is closed, the lock with it *)
(* is given up, and the caller goes on.                                    *)
TruncateOrWriteFails(p) ==
  /\ dmPc[p] \in {"truncate", "write"}
  /\ Fault
  /\ dmLock' = {}
  /\ dmUnlocked' = dmUnlocked \union {p}
  /\ dmPc' = [dmPc EXCEPT ![p] = After(p)]
  /\ UNCHANGED <<dmFile, dmOwnParent>>

already_running(p) ==
  \/ TestAndLock(p)
  \/ AlreadyRunning(p)
  \/ TestFails(p)
  \/ Truncate(p)
  \/ WritePid(p)
  \/ TruncateOrWriteFails(p)

-----------------------------------------------------------------------------
(* daemonize                                                               *)

Child(p) == <<p[1], IF p[2] = "parent" THEN "child1" ELSE "child2">>

(* The child starts without the lock of its parent.                        *)
Fork(p) ==
  /\ dmPc[p] = "fork"
  /\ dmPc' = [dmPc EXCEPT ![p] = "exit",
                      ![Child(p)] = IF p[2] = "parent" THEN "fork" ELSE "redirect"]
  /\ UNCHANGED <<dmLock, dmFile, dmUnlocked, dmFaults, dmOwnParent>>

Exit(p) ==
  /\ dmPc[p] = "exit"
  /\ Dies(p)
  /\ UNCHANGED <<dmFile, dmUnlocked, dmFaults, dmOwnParent>>

(* Input, output and errors are opened; main goes on to the second test.   *)
Redirect(p) ==
  /\ dmPc[p] = "redirect"
  /\ dmPc' = [dmPc EXCEPT ![p] = "test"]
  /\ UNCHANGED <<dmLock, dmFile, dmUnlocked, dmFaults, dmOwnParent>>

(* fork, setsid or open fails, daemonize returns -1, and main ends.        *)
DaemonizeFails(p) ==
  /\ dmPc[p] \in {"fork", "redirect"}
  /\ Fault
  /\ Dies(p)
  /\ UNCHANGED <<dmFile, dmUnlocked, dmOwnParent>>

daemonize(p) ==
  \/ Fork(p)
  \/ Exit(p)
  \/ Redirect(p)
  \/ DaemonizeFails(p)

-----------------------------------------------------------------------------
(* Any process may be killed, the daemon among them.                       *)
Kill(p) ==
  /\ dmPc[p] \notin {"none", "gone"}
  /\ Fault
  /\ Dies(p)
  /\ UNCHANGED <<dmFile, dmUnlocked, dmOwnParent>>

(* What get_pid reads from the file.                                       *)
get_pid == dmFile

Step(p) == already_running(p) \/ daemonize(p)

DaemonNext == \E p \in Procs : Step(p) \/ Kill(p)

(* The processes go on.  Each takes finitely many steps, and a process that *)
(* can take one can take it until it does: that some process goes on while *)
(* one can brings them all to their ends.                                  *)
DaemonFairness == WF_dmVars(\E p \in Procs : Step(p))

DaemonSpec == DaemonInit /\ [][DaemonNext]_dmVars /\ DaemonFairness

-----------------------------------------------------------------------------
(* src/README.md:40 calls the daemon a single instance: of the instances   *)
(* started together two never serve at a time.                             *)
OneServes ==
  \A p, q \in Procs : dmPc[p] = "serve" /\ dmPc[q] = "serve" => p = q

(* The daemon that has not given its lock up in already_running            *)
(* (daemon.h:138, daemon.h:145) holds it while it serves, so no other can  *)
(* take it, and its pid is the one get_pid finds, however many were        *)
(* started together, killed and tested against.                            *)
LockedServesAlone ==
  \A p \in Procs : dmPc[p] = "serve" /\ p \notin dmUnlocked => dmLock = {p} /\ get_pid = {p}

(* Of instances started together one serves in the end, if no call fails   *)
(* and nobody is killed, unless a child met the lock of its own parent     *)
(* (main.cpp:18): each gives up before a process that is on its way.       *)
SomebodyServes ==
  <>(\/ \E p \in Procs : dmPc[p] = "serve"
     \/ dmFaults > 0
     \/ dmOwnParent)
====
