---- MODULE ToolboxProofs ----
(***************************************************************************)
(* Invariants of the parts of the toolbox, part by part, then of the whole *)
(* specification: master and worker for every set of pids, every shortest  *)
(* and longest pause and any number of failures; daemons for any number of *)
(* instances and faults; the caches for any keys and capacities; ring,     *)
(* pool, arena and owned values of any size; timers, downloads, strings    *)
(* of the pipe client and shared pointers for any number of ids, of blocks *)
(* and faults, of calls, and of threads and objects.                       *)
(***************************************************************************)
EXTENDS Toolbox, SequenceTheorems, FiniteSetTheorems, WellFoundedInduction, TLAPS

-----------------------------------------------------------------------------
(* Induction                                                               *)

(* Every nonempty set of numbers has a least one.                          *)
LEMMA LeastNumber ==
  ASSUME NEW numbers \in SUBSET Nat, numbers # {}
  PROVE  \E n \in numbers : \A m \in numbers : n <= m
<1> DEFINE cuts == {0 .. n : n \in numbers}
<1>1. cuts \subseteq FiniteSubsetsOf(Nat)
  <2> SUFFICES ASSUME NEW n \in numbers PROVE 0 .. n \in FiniteSubsetsOf(Nat)
    OBVIOUS
  <2>1. n \in Nat /\ 0 .. n \subseteq Nat
    OBVIOUS
  <2>2. IsFiniteSet(0 .. n)
    BY <2>1, FS_Interval
  <2> QED
    BY <2>1, <2>2 DEF FiniteSubsetsOf
<1>2. cuts # {}
  OBVIOUS
<1>3. PICK cut \in cuts : \A other \in cuts : <<other, cut>> \notin StrictSubsetOrdering(Nat)
  <2> HIDE DEF cuts
  <2> QED
    BY <1>1, <1>2, WFMin, FS_StrictSubsetOrderingWellFounded
<1>4. PICK n \in numbers : cut = 0 .. n
  OBVIOUS
<1>5. ASSUME NEW m \in numbers, m < n PROVE FALSE
  <2>1. m \in Nat /\ n \in Nat
    OBVIOUS
  <2>2. 0 .. m \subseteq 0 .. n /\ 0 .. m # 0 .. n
    <3>1. n \in 0 .. n /\ n \notin 0 .. m
      BY <2>1, <1>5
    <3> QED
      BY <2>1, <1>5, <3>1
  <2>3. <<0 .. m, 0 .. n>> \in StrictSubsetOrdering(Nat)
    BY <2>1, <2>2 DEF StrictSubsetOrdering
  <2> QED
    BY <1>3, <1>4, <2>3
<1>6. \A m \in numbers : n <= m
  <2> TAKE m \in numbers
  <2>1. m \in Nat /\ n \in Nat
    OBVIOUS
  <2> QED
    BY <2>1, <1>5
<1> QED
  BY <1>6

(* Induction, over the numbers of a set.                                   *)
LEMMA AllNumbers ==
  ASSUME NEW numbers, 0 \in numbers, \A n \in Nat : n \in numbers => n + 1 \in numbers
  PROVE  Nat \subseteq numbers
<1> SUFFICES ASSUME Nat \ numbers # {} PROVE FALSE
  OBVIOUS
<1>1. PICK n \in Nat \ numbers : \A m \in Nat \ numbers : n <= m
  BY LeastNumber
<1>2. n - 1 \in Nat
  BY <1>1
<1>3. n - 1 \in numbers
  BY <1>1, <1>2
<1>4. n - 1 + 1 = n
  OBVIOUS
<1>5. n - 1 + 1 \in numbers
  BY <1>2, <1>3
<1> QED
  BY <1>4, <1>5

-----------------------------------------------------------------------------
(* WorkerProcess                                                           *)

WorkerIInv == TypeOK /\ Ours

(* The handler of signals, the master's loop and the ends of processes     *)
(* (main.cpp:14-33, :136-145) keep the typing, and the children of the     *)
(* master those its place in the loop says.                                *)
LEMMA WorkerKeeps ==
  ASSUME WorkerIInv, [Next]_vars
  PROVE  WorkerIInv'
<1> USE WorkerAssumption DEF WorkerIInv, TypeOK, Ours, Children
<1>1. CASE ForkWorker
  <2>1. PICK p \in Free : /\ ret' = p
                          /\ proc' = [proc EXCEPT ![p] = "worker"]
                          /\ inherited' = [inherited EXCEPT ![p] = g_pidWorker]
    BY <1>1 DEF ForkWorker
  <2>2. TypeOK'
    BY <1>1, <2>1 DEF ForkWorker, Free, timeVars
  <2>3. Ours'
    <3>1. pc = "fork" /\ pc' = "assign" /\ p \in Pids
      BY <1>1, <2>1 DEF ForkWorker, Free
    <3>2. Children' = {p}
      BY <2>1, <3>1
    <3> QED
      BY <2>1, <3>1, <3>2
  <2> QED
    BY <2>2, <2>3
<1>2. CASE ForkFails
  BY <1>2 DEF ForkFails, timeVars
<1>3. CASE Assign
  BY <1>3 DEF Assign, timeVars
<1>4. CASE Wait
  <2>1. TypeOK'
    BY <1>4 DEF Wait
  <2>2. Ours'
    <3>1. pc = "wait" /\ pc' = "pause" /\ Children = {g_pidWorker}
      BY <1>4 DEF Wait
    <3>2. PICK p \in Children : proc' = [proc EXCEPT ![p] = "free"]
      BY <1>4, <3>1 DEF Wait
    <3>3. Children' = {}
      BY <3>1, <3>2
    <3> QED
      BY <3>1, <3>3
  <2> QED
    BY <2>1, <2>2
<1>5. CASE Pause
  <2>1. Twice(m_timevalCurrent) \in Min .. Max
    BY DEF Twice
  <2> QED
    BY <1>5, <2>1 DEF Pause
<1>6. CASE SleepEnds
  BY <1>6 DEF SleepEnds, timeVars
<1>7. ASSUME NEW p \in Pids, End(p), UNCHANGED <<g_pidWorker, pc, ret>>,
             UNCHANGED <<inherited, timeVars, fails, born>>
      PROVE  WorkerIInv'
  <2>1. TypeOK'
    BY <1>7 DEF End, timeVars
  <2>2. pc # "dead" => Children' = Children
    BY <1>7 DEF End
  <2> QED
    BY <1>7, <2>1, <2>2
<1>8. CASE Signal
  <2>1. PICK p : /\ p \in Pids \union {0, -1} /\ CallBackSignal(p)
    BY <1>8 DEF Signal
  <2>2. p \in Pids
    BY <2>1 DEF CallBackSignal
  <2> QED
    BY <1>7, <2>1, <2>2 DEF CallBackSignal
<1>9. ASSUME NEW p \in Pids, Ends(p)
      PROVE  WorkerIInv'
  BY <1>7, <1>9 DEF Ends
<1>10. ASSUME NEW p \in Pids, StrangerStarts(p)
       PROVE  WorkerIInv'
  <2>1. TypeOK'
    BY <1>10 DEF StrangerStarts, timeVars
  <2>2. Children' = Children
    BY <1>10 DEF StrangerStarts, Free
  <2> QED
    BY <1>10, <2>1, <2>2 DEF StrangerStarts
<1>11. CASE MasterEnds
  BY <1>11 DEF MasterEnds, timeVars
<1>12. CASE UNCHANGED vars
  BY <1>12 DEF vars, timeVars
<1> QED
  BY <1>1, <1>2, <1>3, <1>4, <1>5, <1>6, <1>8, <1>9, <1>10, <1>11, <1>12
  DEF Next, Master

(* Before the first fork the master has no children.                       *)
LEMMA WorkerStarts ==
  ASSUME Init
  PROVE  WorkerIInv
<1>1. TypeOK
  <2>1. Min \in Min .. Max /\ 0 \in 0 .. MaxFails
    BY WorkerAssumption
  <2> QED
    BY <2>1 DEF Init, TypeOK
<1>2. Ours
  BY DEF Init, Ours, Children
<1> QED
  BY <1>1, <1>2 DEF WorkerIInv

(* In every reachable state the children of the master are those its place *)
(* in the loop says (main.cpp:14-33, :136-145).                            *)
THEOREM WorkerInductive == Spec => []WorkerIInv
<1>1. Init => WorkerIInv
  BY WorkerStarts
<1>2. WorkerIInv /\ [Next]_vars => WorkerIInv'
  BY WorkerKeeps
<1> QED
  BY <1>1, <1>2, PTL DEF Spec

(* Every reachable state of master, workers and strangers is typed, and    *)
(* the pause stays between the shortest and the longest.                   *)
THEOREM WorkerTyping == Spec => []TypeOK
<1>1. WorkerIInv => TypeOK
  BY DEF WorkerIInv
<1> QED
  BY <1>1, WorkerInductive, PTL

(* While the master is in waitpid (main.cpp:140) its handler can kill its  *)
(* own worker only, and it never has two.                                  *)
THEOREM WorkerIsOurs == Spec => []Ours
<1>1. WorkerIInv => Ours
  BY DEF WorkerIInv
<1> QED
  BY <1>1, WorkerInductive, PTL

(* f is Min doubled up to n times.                                         *)
Doubles(n, f) == f = [i \in 0 .. n |-> IF i = 0 THEN Min ELSE 2 * f[i - 1]]

(* Doubled is defined up to every number of failures, by induction.        *)
LEMMA DoubledSteps ==
  /\ Doubled[0] = Min
  /\ \A n \in 1 .. MaxFails : Doubled[n] = 2 * Doubled[n - 1]
  /\ \A n \in 0 .. MaxFails : Doubled[n] \in Nat \ {0}
<1> DEFINE reached == {n \in Nat : \E f \in [0 .. n -> Nat] : Doubles(n, f)}
<1>1. Min \in Nat \ {0} /\ MaxFails \in Nat
  BY WorkerAssumption
<1>2. 0 \in reached
  <2> DEFINE f == [i \in 0 .. 0 |-> Min]
  <2>1. f \in [0 .. 0 -> Nat] /\ Doubles(0, f)
    BY <1>1 DEF Doubles
  <2> QED
    BY <2>1
<1>3. ASSUME NEW n \in Nat, n \in reached
      PROVE  n + 1 \in reached
  <2>1. PICK f \in [0 .. n -> Nat] : Doubles(n, f)
    BY <1>3
  <2> DEFINE g == [i \in 0 .. n + 1 |-> IF i = n + 1 THEN 2 * f[n] ELSE f[i]]
  <2>2. f[n] \in Nat
    OBVIOUS
  <2>3. g \in [0 .. n + 1 -> Nat]
    BY <2>1, <2>2
  <2>4. \A k \in 0 .. n : g[k] = f[k] /\ f[k] = IF k = 0 THEN Min ELSE 2 * f[k - 1]
    BY <2>1 DEF Doubles
  <2>5. g[n + 1] = 2 * f[n]
    OBVIOUS
  <2> HIDE DEF g
  <2>6. \A i \in 0 .. n + 1 : g[i] = IF i = 0 THEN Min ELSE 2 * g[i - 1]
    <3> TAKE i \in 0 .. n + 1
    <3>1. CASE i = n + 1
      <4>1. n \in 0 .. n /\ i - 1 = n /\ i # 0
        BY <3>1
      <4> QED
        BY <2>4, <2>5, <3>1, <4>1
    <3>2. CASE i \in 0 .. n
      <4>1. i # 0 => i - 1 \in 0 .. n
        BY <3>2
      <4> QED
        BY <2>4, <3>2, <4>1
    <3> QED
      BY <3>1, <3>2
  <2>7. Doubles(n + 1, g)
    <3>1. g = [i \in 0 .. n + 1 |-> g[i]]
      BY <2>3
    <3> QED
      BY <2>6, <3>1 DEF Doubles
  <2> QED
    BY <2>3, <2>7
<1>4. \E f : Doubles(MaxFails, f)
  <2> HIDE DEF reached
  <2>1. MaxFails \in reached
    BY <1>1, <1>2, <1>3, AllNumbers
  <2> QED
    BY <2>1 DEF reached
<1>5. Doubles(MaxFails, Doubled)
  BY <1>4 DEF Doubled, Doubles
<1>6. Doubled[0] = Min /\ \A n \in 1 .. MaxFails : Doubled[n] = 2 * Doubled[n - 1]
  BY <1>1, <1>5 DEF Doubles
<1> DEFINE positive == {n \in Nat : n <= MaxFails => Doubled[n] \in Nat \ {0}}
<1>7. 0 \in positive
  BY <1>1, <1>6
<1>8. ASSUME NEW n \in Nat, n \in positive
      PROVE  n + 1 \in positive
  <2> SUFFICES ASSUME n + 1 <= MaxFails PROVE Doubled[n + 1] \in Nat \ {0}
    OBVIOUS
  <2>1. n <= MaxFails /\ n + 1 \in 1 .. MaxFails /\ n + 1 - 1 = n
    BY <1>1
  <2>2. Doubled[n] \in Nat \ {0} /\ Doubled[n + 1] = 2 * Doubled[n]
    BY <1>6, <1>8, <2>1
  <2> QED
    BY <2>2
<1>9. \A n \in 0 .. MaxFails : Doubled[n] \in Nat \ {0}
  <2> HIDE DEF positive
  <2>1. Nat \subseteq positive
    BY <1>7, <1>8, AllNumbers
  <2> QED
    BY <1>1, <2>1 DEF positive
<1> QED
  BY <1>6, <1>9

(* The pause after n doublings.                                            *)
Length(n) == IF Doubled[n] <= Max THEN Doubled[n] ELSE Max

(* The pause is doubled and cut off at Max, failure by failure             *)
(* (TimeInterval.cpp:34-51).                                               *)
LEMMA TwiceSteps ==
  /\ Length(0) = Min
  /\ \A n \in 1 .. MaxFails : Twice(Length(n - 1)) = Length(n)
<1>1. Min \in Nat \ {0} /\ Max \in Nat /\ Min <= Max /\ MaxFails \in Nat
  BY WorkerAssumption
<1>2. Length(0) = Min
  BY <1>1, DoubledSteps DEF Length
<1>3. ASSUME NEW n \in 1 .. MaxFails PROVE Twice(Length(n - 1)) = Length(n)
  <2>1. n - 1 \in 0 .. MaxFails
    BY <1>1
  <2> DEFINE length == Doubled[n - 1]
  <2>2. length \in Nat \ {0} /\ Doubled[n] = 2 * length
    BY <2>1, DoubledSteps
  <2>3. Length(n - 1) = IF length <= Max THEN length ELSE Max
    BY DEF Length
  <2>4. Length(n) = IF 2 * length <= Max THEN 2 * length ELSE Max
    BY <2>2 DEF Length
  <2> HIDE DEF length
  <2> QED
    BY <1>1, <2>2, <2>3, <2>4 DEF Twice
<1> QED
  BY <1>2, <1>3

(* How often the pause was doubled since it was the shortest.              *)
Doublings == IF born THEN fails ELSE fails - 1

(* Where the master is in its loop says how long the pause is that it has  *)
(* ahead, or is in.                                                        *)
PauseInv ==
  /\ pc = "fork" => m_timevalCurrent = IF Doublings = -1 THEN Min ELSE Twice(Length(Doublings))
  /\ pc = "assign" /\ ret \in Pids => born /\ fails = 0
  /\ pc = "assign" => ret # 0
  /\ pc = "wait" => born /\ fails = 0
  /\ pc = "pause" \/ (pc = "assign" /\ ret = -1) =>
        Doublings >= 0 /\ m_timevalCurrent = Length(Doublings)
  /\ pc = "sleep" =>
        /\ Doublings >= 0
        /\ timeout = Length(Doublings) /\ m_timevalCurrent = Twice(Length(Doublings))

(* The master's loop keeps the pause (main.cpp:135-145).                   *)
LEMMA PauseKeeps ==
  ASSUME WorkerIInv, PauseInv, [Next]_vars
  PROVE  PauseInv'
<1>t. /\ MaxFails \in Nat /\ fails \in 0 .. MaxFails /\ born \in BOOLEAN
      /\ Pids \subseteq Nat \ {0}
      /\ ret \in Pids \union {0, -1}
  BY WorkerAssumption DEF WorkerIInv, TypeOK
<1>1. CASE ForkWorker
  <2>1. ret' \in Pids /\ pc' = "assign" /\ born' /\ fails' = 0
    BY <1>1 DEF ForkWorker, Free
  <2>2. ret' # 0 /\ ret' # -1
    BY <1>t, <2>1
  <2> QED
    BY <2>1, <2>2 DEF PauseInv
<1>2. CASE ForkFails
  <2>1. /\ pc = "fork" /\ pc' = "assign" /\ ret' = -1 /\ ret' \notin Pids /\ ret' # 0
        /\ fails < MaxFails /\ fails' = fails + 1 /\ born' = born
        /\ m_timevalCurrent' = m_timevalCurrent
    BY <1>2, <1>t DEF ForkFails, timeVars
  <2>2. Doublings' = Doublings + 1 /\ Doublings + 1 \in 0 .. MaxFails
    BY <1>t, <2>1 DEF Doublings
  <2>3. m_timevalCurrent = Length(Doublings + 1)
    <3>1. CASE Doublings = -1
      BY <2>1, <3>1, TwiceSteps DEF PauseInv
    <3>2. CASE Doublings # -1
      <4>1. Doublings + 1 \in 1 .. MaxFails /\ Doublings + 1 - 1 = Doublings
        BY <1>t, <2>1, <3>2 DEF Doublings
      <4> DEFINE n == Doublings + 1
      <4>2. Twice(Length(n - 1)) = Length(n)
        <5>1. n \in 1 .. MaxFails
          BY <4>1
        <5> HIDE DEF n
        <5> QED
          BY <5>1, TwiceSteps
      <4>3. m_timevalCurrent = Twice(Length(Doublings))
        BY <2>1, <3>2 DEF PauseInv
      <4>4. n - 1 = Doublings
        BY <1>t DEF Doublings
      <4> HIDE DEF n
      <4>5. m_timevalCurrent = Length(n)
        BY <4>2, <4>3, <4>4
      <4> QED
        BY <4>5 DEF n
    <3> QED
      BY <3>1, <3>2
  <2>4. Doublings' >= 0 /\ m_timevalCurrent' = Length(Doublings')
    BY <2>1, <2>2, <2>3
  <2> QED
    BY <2>1, <2>4 DEF PauseInv, Length
<1>3. CASE Assign
  <2>1. /\ pc = "assign" /\ UNCHANGED <<ret, m_timevalCurrent, timeout, fails, born>>
        /\ pc' = IF ret > 0 THEN "wait" ELSE "pause"
    BY <1>3 DEF Assign, timeVars
  <2>2. CASE ret \in Pids
    <3>1. pc' = "wait" /\ born /\ fails = 0
      BY <1>t, <2>1, <2>2 DEF PauseInv
    <3> QED
      BY <2>1, <3>1 DEF PauseInv
  <2>3. CASE ret = -1
    <3>1. pc' = "pause" /\ Doublings >= 0 /\ m_timevalCurrent = Length(Doublings)
      BY <2>1, <2>3 DEF PauseInv
    <3>2. Doublings' = Doublings /\ m_timevalCurrent' = m_timevalCurrent
      BY <2>1 DEF Doublings
    <3>3. Doublings' >= 0 /\ m_timevalCurrent' = Length(Doublings')
      BY <3>1, <3>2
    <3> QED
      BY <3>1, <3>3 DEF PauseInv, Length
  <2> QED
    BY <1>t, <2>1, <2>2, <2>3 DEF PauseInv
<1>4. CASE Wait
  <2>1. /\ pc' = "pause" /\ born' /\ fails' = 0 /\ m_timevalCurrent' = Min
    BY <1>4 DEF Wait, PauseInv
  <2>2. Doublings' = 0 /\ m_timevalCurrent' = Length(Doublings')
    BY <2>1, TwiceSteps DEF Doublings
  <2>3. Doublings' >= 0
    BY <2>2
  <2> QED
    BY <2>1, <2>2, <2>3 DEF PauseInv, Length
<1>5. CASE Pause
  <2>1. /\ pc' = "sleep" /\ timeout' = m_timevalCurrent
        /\ m_timevalCurrent' = Twice(m_timevalCurrent)
        /\ Doublings >= 0 /\ m_timevalCurrent = Length(Doublings)
    BY <1>5 DEF Pause, PauseInv
  <2>d. Doublings' = Doublings
    BY <1>5 DEF Pause, Doublings
  <2>2. /\ Doublings' >= 0 /\ timeout' = Length(Doublings')
        /\ m_timevalCurrent' = Twice(Length(Doublings'))
    BY <2>1, <2>d
  <2> QED
    BY <2>1, <2>2 DEF PauseInv, Length, Twice
<1>6. CASE SleepEnds
  <2>1. /\ pc' = "fork" /\ Doublings' = Doublings /\ Doublings >= 0
        /\ m_timevalCurrent' = Twice(Length(Doublings))
    BY <1>6 DEF SleepEnds, timeVars, PauseInv, Doublings
  <2>2. Doublings' # -1 /\ m_timevalCurrent' = Twice(Length(Doublings'))
    BY <2>1
  <2> QED
    BY <2>1, <2>2 DEF PauseInv, Length, Twice
<1>7. ASSUME UNCHANGED <<pc, ret, m_timevalCurrent, timeout, fails, born>>
      PROVE  PauseInv'
  BY <1>7 DEF PauseInv, Doublings, Length, Twice
<1>8. CASE Signal
  BY <1>7, <1>8 DEF Signal, CallBackSignal, timeVars
<1>9. ASSUME NEW p \in Pids, Ends(p) \/ StrangerStarts(p)
      PROVE  PauseInv'
  BY <1>7, <1>9 DEF Ends, StrangerStarts, timeVars
<1>10. CASE MasterEnds
  <2>1. pc' = "dead"
    BY <1>10 DEF MasterEnds
  <2> QED
    BY <2>1 DEF PauseInv
<1>11. CASE UNCHANGED vars
  BY <1>7, <1>11 DEF vars, timeVars
<1> QED
  BY <1>1, <1>2, <1>3, <1>4, <1>5, <1>6, <1>8, <1>9, <1>10, <1>11 DEF Next, Master

(* The pause begins at Min.                                                *)
LEMMA PauseStarts ==
  ASSUME Init
  PROVE  PauseInv
<1>1. pc = "fork" /\ m_timevalCurrent = Min /\ fails = 0 /\ ~born
  BY DEF Init
<1>2. Doublings = -1
  BY <1>1 DEF Doublings
<1> QED
  BY <1>1, <1>2 DEF PauseInv

(* What the invariant says of the pause.                                   *)
LEMMA PauseHolds == PauseInv => Backoff
BY DEF PauseInv, Backoff, Length, Doublings

(* The pauses between failures of fork are the shortest one doubled, up to *)
(* the longest, for every shortest and longest pause (main.cpp:135-145,    *)
(* TimeInterval.cpp:34-51).                                                *)
THEOREM PausesDouble == Spec => []Backoff
<1>1. Init => WorkerIInv /\ PauseInv
  BY PauseStarts, WorkerStarts
<1>2. WorkerIInv /\ PauseInv /\ [Next]_vars => (WorkerIInv /\ PauseInv)'
  BY WorkerKeeps, PauseKeeps
<1>3. PauseInv => Backoff
  BY PauseHolds
<1> QED
  BY <1>1, <1>2, <1>3, PTL DEF Spec

-----------------------------------------------------------------------------
(* Daemon                                                                  *)

(* Who is between the lock and the pid holds the lock; who passed a test   *)
(* and did not give the lock up holds it until it ends, and the file holds *)
(* its pid.                                                                *)
LockInv ==
  \A p \in Procs :
    /\ dmPc[p] \in {"truncate", "write"} => dmLock = {p}
    /\ dmPc[p] = "serve" /\ p \notin dmUnlocked => dmLock = {p} /\ dmFile = {p}

DaemonIInv == DaemonTypeOK /\ LockInv

(* The child of a parent is another process, and so is the child of a      *)
(* first child.                                                            *)
LEMMA ChildIsAnother ==
  ASSUME NEW p \in Procs
  PROVE  Child(p) \in Procs /\ (p[2] # "child2" => Child(p) # p)
BY DEF Child, Procs, Roles

(* What the end of a process does to the typing and to the lock.           *)
LEMMA EndKeeps ==
  ASSUME DaemonIInv, NEW p \in Procs, Dies(p), dmFile' = dmFile, dmUnlocked' = dmUnlocked,
         dmFaults' \in Nat, dmOwnParent' \in BOOLEAN
  PROVE  DaemonIInv'
<1>1. DaemonTypeOK'
  BY DEF DaemonIInv, DaemonTypeOK, Dies, Points
<1>2. LockInv'
  <2> SUFFICES ASSUME NEW q \in Procs
               PROVE  /\ dmPc'[q] \in {"truncate", "write"} => dmLock' = {q}
                      /\ dmPc'[q] = "serve" /\ q \notin dmUnlocked => dmLock' = {q} /\ dmFile' = {q}
    BY DEF LockInv
  <2>1. CASE q = p
    BY <2>1 DEF DaemonIInv, DaemonTypeOK, Dies
  <2>2. CASE q # p
    BY <2>2 DEF DaemonIInv, DaemonTypeOK, LockInv, Dies
  <2> QED
    BY <2>1, <2>2
<1> QED
  BY <1>1, <1>2 DEF DaemonIInv

(* The test of the pid file, the two forks and the ends of processes       *)
(* (daemon.h:18-81, :119-149) keep the typing and the discipline of the    *)
(* lock.                                                                   *)
LEMMA DaemonKeeps ==
  ASSUME DaemonIInv, [DaemonNext]_dmVars
  PROVE  DaemonIInv'
<1>0. CASE UNCHANGED dmVars
  BY <1>0 DEF DaemonIInv, DaemonTypeOK, LockInv, dmVars
<1>1. ASSUME NEW p \in Procs, TestAndLock(p) PROVE DaemonIInv'
  <2>1. /\ dmPc[p] = "test" /\ dmLock = {} /\ dmLock' = {p} /\ dmPc' = [dmPc EXCEPT ![p] = "truncate"]
        /\ UNCHANGED <<dmFile, dmUnlocked, dmFaults, dmOwnParent>>
    BY <1>1 DEF TestAndLock, lockfile
  <2>2. DaemonTypeOK'
    BY <2>1 DEF DaemonIInv, DaemonTypeOK, Points
  <2>3. LockInv'
    BY <2>1 DEF DaemonIInv, DaemonTypeOK, LockInv
  <2> QED
    BY <2>2, <2>3 DEF DaemonIInv
<1>2. ASSUME NEW p \in Procs, AlreadyRunning(p) PROVE DaemonIInv'
  <2>1. Dies(p) /\ dmFile' = dmFile /\ dmUnlocked' = dmUnlocked /\ dmFaults' = dmFaults
        /\ dmOwnParent' \in BOOLEAN
    BY <1>2 DEF AlreadyRunning, DaemonIInv, DaemonTypeOK
  <2>2. dmFaults' \in Nat
    BY <2>1 DEF DaemonIInv, DaemonTypeOK
  <2> QED
    BY <2>1, <2>2, EndKeeps
<1>3. ASSUME NEW p \in Procs, TestFails(p) \/ DaemonizeFails(p) \/ Kill(p) PROVE DaemonIInv'
  <2>1. Fault /\ Dies(p) /\ dmFile' = dmFile /\ dmUnlocked' = dmUnlocked /\ dmOwnParent' = dmOwnParent
    BY <1>3 DEF TestFails, DaemonizeFails, Kill
  <2>2. dmFaults' \in Nat /\ dmOwnParent' \in BOOLEAN
    BY <2>1 DEF Fault, DaemonIInv, DaemonTypeOK
  <2> QED
    BY <2>1, <2>2, EndKeeps
<1>4. ASSUME NEW p \in Procs, Truncate(p) PROVE DaemonIInv'
  <2>1. DaemonTypeOK'
    BY <1>4 DEF Truncate, DaemonIInv, DaemonTypeOK, Points
  <2>2. LockInv'
    BY <1>4 DEF Truncate, DaemonIInv, DaemonTypeOK, LockInv
  <2> QED
    BY <2>1, <2>2 DEF DaemonIInv
<1>5. ASSUME NEW p \in Procs, WritePid(p) PROVE DaemonIInv'
  <2>1. /\ dmPc[p] = "write" /\ dmPc' = [dmPc EXCEPT ![p] = After(p)] /\ After(p) \in {"fork", "serve"}
        /\ dmFile' = {p} /\ UNCHANGED <<dmLock, dmUnlocked, dmFaults, dmOwnParent>>
    BY <1>5 DEF WritePid, After
  <2>2. DaemonTypeOK'
    BY <2>1 DEF DaemonIInv, DaemonTypeOK, Points
  <2>3. LockInv'
    BY <2>1 DEF DaemonIInv, DaemonTypeOK, LockInv
  <2> QED
    BY <2>2, <2>3 DEF DaemonIInv
<1>6. ASSUME NEW p \in Procs, TruncateOrWriteFails(p) PROVE DaemonIInv'
  <2>1. /\ dmPc[p] \in {"truncate", "write"} /\ dmPc' = [dmPc EXCEPT ![p] = After(p)]
        /\ After(p) \in {"fork", "serve"}
        /\ dmLock' = {} /\ dmUnlocked' = dmUnlocked \union {p} /\ UNCHANGED <<dmFile, dmOwnParent>>
    BY <1>6 DEF TruncateOrWriteFails, After
  <2>2. dmFaults' \in Nat
    BY <1>6 DEF TruncateOrWriteFails, Fault, DaemonIInv, DaemonTypeOK
  <2>3. DaemonTypeOK'
    BY <2>1, <2>2 DEF DaemonIInv, DaemonTypeOK, Points
  <2>4. dmLock = {p}
    BY <2>1 DEF DaemonIInv, LockInv
  <2>5. LockInv'
    BY <2>1, <2>4 DEF DaemonIInv, DaemonTypeOK, LockInv
  <2> QED
    BY <2>3, <2>5 DEF DaemonIInv
<1>7. ASSUME NEW p \in Procs, Fork(p) PROVE DaemonIInv'
  <2>1. PICK place \in {"fork", "redirect"} :
           dmPc' = [dmPc EXCEPT ![p] = "exit", ![Child(p)] = place]
    BY <1>7 DEF Fork
  <2>2. UNCHANGED <<dmLock, dmFile, dmUnlocked, dmFaults, dmOwnParent>>
    BY <1>7 DEF Fork
  <2>3. Child(p) \in Procs
    BY ChildIsAnother
  <2>4. DaemonTypeOK'
    BY <2>1, <2>2, <2>3 DEF DaemonIInv, DaemonTypeOK, Points
  <2>5. LockInv'
    <3> SUFFICES ASSUME NEW q \in Procs
                 PROVE  /\ dmPc'[q] \in {"truncate", "write"} => dmLock' = {q}
                        /\ dmPc'[q] = "serve" /\ q \notin dmUnlocked' => dmLock' = {q} /\ dmFile' = {q}
      BY DEF LockInv
    <3>1. dmPc'[q] = dmPc[q] \/ dmPc'[q] \in {"exit", "fork", "redirect"}
      BY <2>1, <2>3 DEF DaemonIInv, DaemonTypeOK
    <3> QED
      BY <3>1, <2>2 DEF DaemonIInv, LockInv
  <2> QED
    BY <2>4, <2>5 DEF DaemonIInv
<1>8. ASSUME NEW p \in Procs, Exit(p) PROVE DaemonIInv'
  <2>1. Dies(p) /\ UNCHANGED <<dmFile, dmUnlocked, dmFaults, dmOwnParent>>
    BY <1>8 DEF Exit
  <2>2. dmFaults' \in Nat /\ dmOwnParent' \in BOOLEAN
    BY <2>1 DEF DaemonIInv, DaemonTypeOK
  <2> QED
    BY <2>1, <2>2, EndKeeps
<1>9. ASSUME NEW p \in Procs, Redirect(p) PROVE DaemonIInv'
  <2>1. DaemonTypeOK'
    BY <1>9 DEF Redirect, DaemonIInv, DaemonTypeOK, Points
  <2>2. LockInv'
    BY <1>9 DEF Redirect, DaemonIInv, DaemonTypeOK, LockInv
  <2> QED
    BY <2>1, <2>2 DEF DaemonIInv
<1> QED
  BY <1>0, <1>1, <1>2, <1>3, <1>4, <1>5, <1>6, <1>7, <1>8, <1>9
  DEF DaemonNext, Step, already_running, daemonize

(* Before the first test nobody has the lock.                              *)
LEMMA DaemonStarts ==
  ASSUME DaemonInit
  PROVE  DaemonIInv
<1>1. \A p \in Procs : dmPc[p] \in {"test", "none"}
  BY DEF DaemonInit
<1>2. DaemonTypeOK
  BY DEF DaemonInit, DaemonTypeOK, Points
<1> QED
  BY <1>1, <1>2 DEF DaemonIInv, LockInv

(* In every reachable state of the instances the discipline of the lock    *)
(* holds (daemon.h:18-81, :119-149).                                       *)
THEOREM DaemonInductive == DaemonSpec => []DaemonIInv
<1>1. DaemonInit => DaemonIInv
  BY DaemonStarts
<1>2. DaemonIInv /\ [DaemonNext]_dmVars => DaemonIInv'
  BY DaemonKeeps
<1> QED
  BY <1>1, <1>2, PTL DEF DaemonSpec

(* Every reachable state of the instances is typed.                        *)
THEOREM DaemonTyping == DaemonSpec => []DaemonTypeOK
<1>1. DaemonIInv => DaemonTypeOK
  BY DEF DaemonIInv
<1> QED
  BY <1>1, DaemonInductive, PTL

(* Of any number of instances, killed and failing at any point, a daemon   *)
(* that serves without having given the lock up holds it, and its pid is   *)
(* the one in the file (daemon.h:119-149).                                 *)
THEOREM LockedDaemonIsAlone == DaemonSpec => []LockedServesAlone
<1>1. DaemonIInv => LockedServesAlone
  BY DEF DaemonIInv, LockInv, LockedServesAlone, get_pid
<1> QED
  BY <1>1, DaemonInductive, PTL

-----------------------------------------------------------------------------
(* LruMap, LruCache                                                        *)

(* No member of the list is in it twice.                                   *)
Distinct(s) == \A i, j \in 1 .. Len(s) : s[i] = s[j] => i = j

(* What is left of a list without its i-th member.                         *)
Cut(s, i) == SubSeq(s, 1, i - 1) \o SubSeq(s, i + 1, Len(s))

(* The members of a list without its i-th.                                 *)
LEMMA CutAt ==
  ASSUME NEW set, NEW s \in Seq(set), NEW i \in 1 .. Len(s)
  PROVE  /\ Cut(s, i) \in Seq(set) /\ Len(Cut(s, i)) = Len(s) - 1
         /\ \A j \in 1 .. Len(s) - 1 : Cut(s, i)[j] = IF j < i THEN s[j] ELSE s[j + 1]
<1> DEFINE front == SubSeq(s, 1, i - 1)
           back == SubSeq(s, i + 1, Len(s))
<1>1. /\ Len(s) \in Nat /\ i \in Nat /\ i - 1 \in Nat /\ i + 1 \in Nat
      /\ \A j \in 1 .. Len(s) : s[j] \in set
  BY LenProperties, ElementOfSeq
<1>2. front \in Seq(set) /\ Len(front) = i - 1 /\ \A j \in 1 .. i - 1 : front[j] = s[j]
  <2>1. \A j \in 1 .. i - 1 : s[j] \in set
    BY <1>1
  <2>2. 1 \in Int /\ i - 1 \in Int /\ (IF 1 <= i - 1 THEN i - 1 - 1 + 1 ELSE 0) = i - 1
    BY <1>1
  <2>3. front \in Seq(set) /\ Len(front) = i - 1
    BY <2>1, <2>2, SubSeqProperties
  <2>4. \A j \in 1 .. i - 1 : front[j] = s[j]
    BY <1>1
  <2> QED
    BY <2>3, <2>4
<1>3. /\ back \in Seq(set) /\ Len(back) = Len(s) - i
      /\ \A j \in 1 .. Len(s) - i : back[j] = s[i + j]
  <2>1. \A j \in i + 1 .. Len(s) : s[j] \in set
    BY <1>1
  <2>2. /\ i + 1 \in Int /\ Len(s) \in Int
        /\ (IF i + 1 <= Len(s) THEN Len(s) - (i + 1) + 1 ELSE 0) = Len(s) - i
    BY <1>1
  <2>3. back \in Seq(set) /\ Len(back) = Len(s) - i
    BY <2>1, <2>2, SubSeqProperties
  <2>4. \A j \in 1 .. Len(s) - i : back[j] = s[i + j]
    BY <1>1
  <2> QED
    BY <2>3, <2>4
<1> HIDE DEF front, back
<1>4. /\ front \o back \in Seq(set) /\ Len(front \o back) = Len(s) - 1
      /\ \A j \in 1 .. Len(s) - 1 :
           (front \o back)[j] = IF j <= i - 1 THEN front[j] ELSE back[j - (i - 1)]
  <2>1. i - 1 + (Len(s) - i) = Len(s) - 1
    BY <1>1
  <2>2. /\ front \o back \in Seq(set) /\ Len(front \o back) = Len(front) + Len(back)
        /\ \A j \in 1 .. Len(front) + Len(back) :
             (front \o back)[j] = IF j <= Len(front) THEN front[j] ELSE back[j - Len(front)]
    BY <1>2, <1>3, ConcatProperties
  <2> QED
    BY <1>2, <1>3, <2>1, <2>2
<1>5. \A j \in 1 .. Len(s) - 1 : (front \o back)[j] = IF j < i THEN s[j] ELSE s[j + 1]
  <2> TAKE j \in 1 .. Len(s) - 1
  <2>1. CASE j < i
    BY <1>1, <1>2, <1>4, <2>1
  <2>2. CASE ~(j < i)
    <3>1. j - (i - 1) \in 1 .. Len(s) - i /\ i + (j - (i - 1)) = j + 1 /\ ~(j <= i - 1)
      BY <1>1, <2>2
    <3> QED
      BY <1>3, <1>4, <2>2, <3>1
  <2> QED
    BY <2>1, <2>2
<1> QED
  BY <1>4, <1>5 DEF Cut, front, back

(* To remove a key from a list of distinct keys is to cut it where it is.  *)
LEMMA LessKey ==
  ASSUME NEW s, Len(s) \in Nat, Distinct(s), NEW k
  PROVE  /\ \A i \in 1 .. Len(s) : s[i] = k =>
              L!RemoveFirst(s, k) = Cut(s, i) /\ C!RemoveFirst(s, k) = Cut(s, i)
         /\ (\A i \in 1 .. Len(s) : s[i] # k) =>
              L!RemoveFirst(s, k) = s /\ C!RemoveFirst(s, k) = s
<1>1. ASSUME NEW i \in 1 .. Len(s), s[i] = k
      PROVE  L!RemoveFirst(s, k) = Cut(s, i) /\ C!RemoveFirst(s, k) = Cut(s, i)
  <2>1. {j \in 1 .. Len(s) : s[j] = k} = {i}
    BY <1>1 DEF Distinct
  <2>2. L!Min({i}) = i /\ C!Min({i}) = i
    BY DEF L!Min, C!Min
  <2>3. L!SelectInSeq(s, LAMBDA v : v = k) = i
    BY <2>1, <2>2 DEF L!SelectInSeq
  <2>4. C!SelectInSeq(s, LAMBDA v : v = k) = i
    BY <2>1, <2>2 DEF C!SelectInSeq
  <2> QED
    BY <1>1, <2>3, <2>4 DEF L!RemoveFirst, C!RemoveFirst, L!RemoveAt, C!RemoveAt, Cut
<1>2. (\A i \in 1 .. Len(s) : s[i] # k) => L!RemoveFirst(s, k) = s /\ C!RemoveFirst(s, k) = s
  BY DEF L!RemoveFirst, C!RemoveFirst
<1> QED
  BY <1>1, <1>2

(* held is what used ends with, each key once.                             *)
EndsWith(held, used) ==
  /\ held \in Seq(Keys) /\ used \in Seq(Keys) /\ Distinct(used)
  /\ Len(held) <= Len(used)
  /\ \A i \in 1 .. Len(held) : held[i] = used[Len(used) - Len(held) + i]

(* A list that another ends with has distinct members when that has.       *)
LEMMA EndsDistinct ==
  ASSUME NEW held, NEW used, EndsWith(held, used)
  PROVE  Distinct(held) /\ Len(held) \in Nat /\ Len(used) \in Nat
<1>1. Len(held) \in Nat /\ Len(used) \in Nat
  BY LenProperties DEF EndsWith
<1>2. \A i \in 1 .. Len(held) :
        /\ Len(used) - Len(held) + i \in 1 .. Len(used)
        /\ held[i] = used[Len(used) - Len(held) + i]
  BY <1>1 DEF EndsWith
<1>3. ASSUME NEW i \in 1 .. Len(held), NEW j \in 1 .. Len(held), held[i] = held[j]
      PROVE  i = j
  <2>1. Len(used) - Len(held) + i = Len(used) - Len(held) + j
    BY <1>2, <1>3 DEF EndsWith, Distinct
  <2> QED
    BY <1>1, <2>1
<1> QED
  BY <1>1, <1>3 DEF Distinct

(* A list stays distinct without a member, which is then not in it.        *)
LEMMA CutDistinct ==
  ASSUME NEW set, NEW s \in Seq(set), Distinct(s), NEW i \in 1 .. Len(s)
  PROVE  Distinct(Cut(s, i)) /\ \A j \in 1 .. Len(Cut(s, i)) : Cut(s, i)[j] # s[i]
<1> DEFINE t == Cut(s, i)
           to(j) == IF j < i THEN j ELSE j + 1
<1>1. Len(s) \in Nat /\ i \in Nat
  BY LenProperties
<1>2. Len(t) = Len(s) - 1 /\ \A j \in 1 .. Len(s) - 1 : t[j] = IF j < i THEN s[j] ELSE s[j + 1]
  BY CutAt
<1> HIDE DEF t
<1>3. \A j \in 1 .. Len(t) : to(j) \in 1 .. Len(s) /\ t[j] = s[to(j)] /\ to(j) # i
  BY <1>1, <1>2
<1>4. \A j \in 1 .. Len(t) : t[j] # s[i]
  <2> HIDE DEF to
  <2> QED
    BY <1>3 DEF Distinct
<1>5. ASSUME NEW j \in 1 .. Len(t), NEW l \in 1 .. Len(t), t[j] = t[l]
      PROVE  j = l
  <2>1. to(j) = to(l)
    <3> HIDE DEF to
    <3> QED
      BY <1>3, <1>5 DEF Distinct
  <2>2. j \in Nat /\ l \in Nat
    BY <1>1, <1>2
  <2> QED
    BY <1>1, <2>1, <2>2
<1> QED
  BY <1>4, <1>5 DEF Distinct, t

(* A key that is held goes from both.                                      *)
LEMMA EndsCut ==
  ASSUME NEW held, NEW used, EndsWith(held, used), NEW i \in 1 .. Len(held)
  PROVE  /\ EndsWith(Cut(held, i), L!RemoveFirst(used, held[i]))
         /\ EndsWith(Cut(held, i), C!RemoveFirst(used, held[i]))
<1> DEFINE n == Len(held)
           m == Len(used)
           at == m - n + i
           h == Cut(held, i)
           u == Cut(used, at)
<1>1. /\ n \in Nat /\ m \in Nat /\ n <= m /\ i \in 1 .. n /\ Distinct(used)
      /\ held \in Seq(Keys) /\ used \in Seq(Keys)
      /\ \A j \in 1 .. n : held[j] = used[m - n + j]
  BY EndsDistinct DEF EndsWith
<1>2. at \in 1 .. m /\ held[i] = used[at]
  BY <1>1
<1>3. L!RemoveFirst(used, held[i]) = u /\ C!RemoveFirst(used, held[i]) = u
  <2> HIDE DEF at
  <2> QED
    BY <1>1, <1>2, LessKey
<1>4. /\ h \in Seq(Keys) /\ Len(h) = n - 1
      /\ \A j \in 1 .. n - 1 : h[j] = IF j < i THEN held[j] ELSE held[j + 1]
  BY <1>1, CutAt
<1>5. /\ u \in Seq(Keys) /\ Len(u) = m - 1 /\ Distinct(u)
      /\ \A j \in 1 .. m - 1 : u[j] = IF j < at THEN used[j] ELSE used[j + 1]
  <2> HIDE DEF at
  <2> QED
    BY <1>1, <1>2, CutAt, CutDistinct
<1> HIDE DEF h, u
<1>6. \A j \in 1 .. n - 1 : h[j] = u[(m - 1) - (n - 1) + j]
  <2> TAKE j \in 1 .. n - 1
  <2>1. (m - 1) - (n - 1) + j = m - n + j /\ m - n + j \in 1 .. m - 1 /\ (j < i <=> m - n + j < at)
    BY <1>1
  <2>2. CASE j < i
    <3>1. u[m - n + j] = used[m - n + j]
      BY <1>5, <2>1, <2>2
    <3>2. h[j] = held[j]
      BY <1>4, <2>2
    <3>3. j \in 1 .. n
      BY <1>1
    <3> QED
      BY <1>1, <2>1, <3>1, <3>2, <3>3
  <2>3. CASE ~(j < i)
    <3>1. u[m - n + j] = used[m - n + j + 1]
      BY <1>5, <2>1, <2>3
    <3>2. h[j] = held[j + 1] /\ j + 1 \in 1 .. n /\ m - n + j + 1 = m - n + (j + 1)
      BY <1>1, <1>4, <2>3
    <3> QED
      BY <1>1, <2>1, <3>1, <3>2
  <2> QED
    BY <2>2, <2>3
<1>7. EndsWith(h, u)
  BY <1>1, <1>4, <1>5, <1>6 DEF EndsWith
<1> QED
  BY <1>3, <1>7 DEF h

(* A key that is not held goes from what was used before.                  *)
LEMMA EndsSkip ==
  ASSUME NEW held, NEW used, EndsWith(held, used), NEW k,
         \A i \in 1 .. Len(held) : held[i] # k
  PROVE  /\ EndsWith(held, L!RemoveFirst(used, k))
         /\ EndsWith(held, C!RemoveFirst(used, k))
<1> DEFINE n == Len(held)
           m == Len(used)
<1>1. /\ n \in Nat /\ m \in Nat /\ n <= m /\ Distinct(used)
      /\ held \in Seq(Keys) /\ used \in Seq(Keys)
      /\ \A j \in 1 .. n : held[j] = used[m - n + j]
  BY EndsDistinct DEF EndsWith
<1>2. CASE \A i \in 1 .. m : used[i] # k
  BY <1>1, <1>2, LessKey
<1>3. ASSUME NEW at \in 1 .. m, used[at] = k
      PROVE  /\ EndsWith(held, L!RemoveFirst(used, k))
             /\ EndsWith(held, C!RemoveFirst(used, k))
  <2> DEFINE u == Cut(used, at)
  <2>1. L!RemoveFirst(used, k) = u /\ C!RemoveFirst(used, k) = u
    BY <1>1, <1>3, LessKey
  <2>2. /\ u \in Seq(Keys) /\ Len(u) = m - 1 /\ Distinct(u)
        /\ \A j \in 1 .. m - 1 : u[j] = IF j < at THEN used[j] ELSE used[j + 1]
    BY <1>1, CutAt, CutDistinct
  <2>3. at <= m - n
    <3> SUFFICES ASSUME at > m - n PROVE FALSE
      BY <1>1
    <3>1. at - (m - n) \in 1 .. n /\ m - n + (at - (m - n)) = at
      BY <1>1
    <3> QED
      BY <1>1, <1>3, <3>1
  <2> HIDE DEF u
  <2>4. \A j \in 1 .. n : held[j] = u[(m - 1) - n + j]
    <3> TAKE j \in 1 .. n
    <3>1. /\ (m - 1) - n + j \in 1 .. m - 1 /\ ~((m - 1) - n + j < at)
          /\ (m - 1) - n + j + 1 = m - n + j
      BY <1>1, <2>3
    <3> QED
      BY <1>1, <2>2, <3>1
  <2>5. n <= m - 1
    BY <1>1, <2>3
  <2> QED
    BY <1>1, <2>1, <2>2, <2>4, <2>5 DEF EndsWith
<1> QED
  BY <1>2, <1>3

(* A key that neither has comes to the end of both.                        *)
LEMMA EndsAppend ==
  ASSUME NEW held, NEW used, EndsWith(held, used), NEW k \in Keys,
         \A i \in 1 .. Len(used) : used[i] # k
  PROVE  EndsWith(Append(held, k), Append(used, k))
<1> DEFINE n == Len(held)
           m == Len(used)
           h == Append(held, k)
           u == Append(used, k)
<1>1. /\ n \in Nat /\ m \in Nat /\ n <= m /\ Distinct(used)
      /\ held \in Seq(Keys) /\ used \in Seq(Keys)
      /\ \A j \in 1 .. n : held[j] = used[m - n + j]
  BY EndsDistinct DEF EndsWith
<1>2. /\ h \in Seq(Keys) /\ Len(h) = n + 1 /\ h[n + 1] = k
      /\ \A j \in 1 .. n : h[j] = held[j]
  BY <1>1, AppendProperties
<1>3. /\ u \in Seq(Keys) /\ Len(u) = m + 1 /\ u[m + 1] = k
      /\ \A j \in 1 .. m : u[j] = used[j]
  BY <1>1, AppendProperties
<1> HIDE DEF h, u
<1>4. Distinct(u)
  <2> SUFFICES ASSUME NEW i \in 1 .. m + 1, NEW j \in 1 .. m + 1, u[i] = u[j] PROVE i = j
    BY <1>3 DEF Distinct
  <2>1. (i \in 1 .. m \/ i = m + 1) /\ (j \in 1 .. m \/ j = m + 1)
    BY <1>1
  <2> QED
    BY <1>1, <1>3, <2>1 DEF Distinct
<1>5. \A j \in 1 .. n + 1 : h[j] = u[(m + 1) - (n + 1) + j]
  <2> TAKE j \in 1 .. n + 1
  <2>1. CASE j = n + 1
    <3>1. (m + 1) - (n + 1) + j = m + 1
      BY <1>1, <2>1
    <3> QED
      BY <1>2, <1>3, <2>1, <3>1
  <2>2. CASE j \in 1 .. n
    <3>1. (m + 1) - (n + 1) + j = m - n + j /\ m - n + j \in 1 .. m
      BY <1>1, <2>2
    <3> QED
      BY <1>1, <1>2, <1>3, <2>2, <3>1
  <2> QED
    BY <1>1, <2>1, <2>2
<1>6. n + 1 <= m + 1
  BY <1>1
<1> QED
  BY <1>2, <1>3, <1>4, <1>5, <1>6 DEF EndsWith, h, u

(* A key that is used, held or not, is the last of both.                   *)
LEMMA KeyGone ==
  ASSUME NEW held, NEW used, EndsWith(held, used), NEW k
  PROVE  /\ \A i \in 1 .. Len(L!RemoveFirst(used, k)) : L!RemoveFirst(used, k)[i] # k
         /\ L!RemoveFirst(used, k) = C!RemoveFirst(used, k)
<1>1. used \in Seq(Keys) /\ Distinct(used) /\ Len(used) \in Nat
  BY EndsDistinct DEF EndsWith
<1>2. CASE \A i \in 1 .. Len(used) : used[i] # k
  BY <1>1, <1>2, LessKey
<1>3. ASSUME NEW at \in 1 .. Len(used), used[at] = k
      PROVE  /\ \A i \in 1 .. Len(L!RemoveFirst(used, k)) : L!RemoveFirst(used, k)[i] # k
             /\ L!RemoveFirst(used, k) = C!RemoveFirst(used, k)
  <2>1. L!RemoveFirst(used, k) = Cut(used, at) /\ C!RemoveFirst(used, k) = Cut(used, at)
    BY <1>1, <1>3, LessKey
  <2> QED
    BY <1>1, <1>3, <2>1, CutDistinct
<1> QED
  BY <1>2, <1>3

(* What was used longest ago goes.                                         *)
LEMMA EndsDrop ==
  ASSUME NEW held, NEW used, EndsWith(held, used), NEW n \in Nat
  PROVE  EndsWith(SubSeq(held, n + 1, Len(held)), used)
<1> DEFINE s == SubSeq(held, n + 1, Len(held))
           len == Len(held)
           m == Len(used)
<1>1. /\ len \in Nat /\ m \in Nat /\ len <= m
      /\ held \in Seq(Keys)
      /\ \A j \in 1 .. len : held[j] = used[m - len + j] /\ held[j] \in Keys
  BY EndsDistinct, ElementOfSeq DEF EndsWith
<1>u. used \in Seq(Keys) /\ Distinct(used)
  BY DEF EndsWith
<1>2. ASSUME n + 1 <= len PROVE EndsWith(s, used)
  <2>1. /\ s \in Seq(Keys) /\ Len(s) = len - n
        /\ \A j \in 1 .. len - n : s[j] = held[n + j]
    <3>1. \A j \in n + 1 .. len : held[j] \in Keys
      BY <1>1
    <3>2. s \in Seq(Keys) /\ Len(s) = len - n
      BY <1>1, <1>2, <3>1
    <3>3. \A j \in 1 .. len - n : s[j] = held[n + j]
      BY <1>1, <1>2
    <3> QED
      BY <3>2, <3>3
  <2> HIDE DEF s
  <2>2. \A j \in 1 .. len - n : s[j] = used[m - (len - n) + j]
    <3> TAKE j \in 1 .. len - n
    <3>1. n + j \in 1 .. len /\ m - len + (n + j) = m - (len - n) + j
      BY <1>1, <1>2
    <3> QED
      BY <1>1, <2>1, <3>1
  <2>3. len - n <= m
    BY <1>1
  <2> QED
    BY <1>1, <1>u, <2>1, <2>2, <2>3 DEF EndsWith
<1>3. ASSUME ~(n + 1 <= len) PROVE EndsWith(s, used)
  <2>1. s = <<>>
    BY <1>1, <1>3
  <2>2. <<>> \in Seq(Keys) /\ Len(<<>>) = 0
    OBVIOUS
  <2> HIDE DEF s
  <2> QED
    BY <1>1, <1>u, <2>1, <2>2 DEF EndsWith
<1> QED
  BY <1>2, <1>3

(* EndsWith says what IsSuffix says.                                       *)
LEMMA EndsSuffix ==
  ASSUME NEW held, NEW used, EndsWith(held, used)
  PROVE  L!IsSuffix(held, used) /\ C!IsSuffix(held, used)
<1> DEFINE n == Len(held)
           m == Len(used)
           h == [i \in 1 .. n |-> held[n - i + 1]]
           u == [i \in 1 .. m |-> used[m - i + 1]]
<1>1. /\ n \in Nat /\ m \in Nat /\ n <= m
      /\ held \in Seq(Keys) /\ used \in Seq(Keys)
      /\ \A j \in 1 .. n : held[j] = used[m - n + j]
      /\ \A j \in 1 .. n : held[j] \in Keys
      /\ \A j \in 1 .. m : used[j] \in Keys
  BY EndsDistinct, ElementOfSeq DEF EndsWith
<1>2. /\ h \in Seq(Keys) /\ Len(h) = n
      /\ u \in Seq(Keys) /\ Len(u) = m
  <2>1. \A i \in 1 .. n : held[n - i + 1] \in Keys
    BY <1>1
  <2>2. \A i \in 1 .. m : used[m - i + 1] \in Keys
    BY <1>1
  <2> QED
    BY <1>1, <2>1, <2>2
<1>3. \A i \in 1 .. n : h[i] = u[i]
  <2> TAKE i \in 1 .. n
  <2>1. n - i + 1 \in 1 .. n /\ i \in 1 .. m /\ m - n + (n - i + 1) = m - i + 1
    BY <1>1
  <2> QED
    BY <1>1, <2>1
<1>4. L!Reverse(held) = h /\ L!Reverse(used) = u /\ C!Reverse(held) = h /\ C!Reverse(used) = u
  BY DEF L!Reverse, C!Reverse
<1> HIDE DEF h, u
<1>5. SubSeq(h, 1, Len(h)) = SubSeq(u, 1, Len(h))
  <2>1. SubSeq(h, 1, n) = [i \in 1 .. n |-> h[i]] /\ SubSeq(u, 1, n) = [i \in 1 .. n |-> u[i]]
    BY <1>1, <1>2
  <2> QED
    BY <1>2, <1>3, <2>1
<1> QED
  BY <1>1, <1>2, <1>4, <1>5 DEF L!IsSuffix, L!IsPrefix, C!IsSuffix, C!IsPrefix

-----------------------------------------------------------------------------
(* LruMap                                                                  *)

(* The keys of a list of nodes.                                            *)
KeysOf(list) == [i \in DOMAIN list |-> list[i].key]

(* The types of the map, with the index a set of keys.                     *)
LruTyped ==
  /\ lru \in [capacity : Capacities, index : SUBSET Keys, nodelist : Seq(L!Node)]
  /\ now \in 0 .. MaxNow
  /\ lruLatest \in [Keys -> Values]

(* The map holds the keys used last, as the index says, each with what was *)
(* put last.                                                               *)
Holding(list, index, used, latest) ==
  /\ list \in Seq(L!Node)
  /\ EndsWith(KeysOf(list), used)
  /\ index = {list[i].key : i \in 1 .. Len(list)}
  /\ \A i \in 1 .. Len(list) : list[i].value = latest[list[i].key]

(* The nodes are those of the keys used last, with the values put last,    *)
(* and the index is of their keys.                                         *)
LruIInv == LruTyped /\ Holding(lru.nodelist, lru.index, lruUsed, lruLatest)

(* The keys of a list of nodes are at their nodes' places.                 *)
LEMMA KeysOfList ==
  ASSUME NEW list \in Seq(L!Node)
  PROVE  /\ KeysOf(list) \in Seq(Keys) /\ Len(KeysOf(list)) = Len(list) /\ Len(list) \in Nat
         /\ \A i \in 1 .. Len(list) :
              list[i] \in L!Node /\ list[i].key \in Keys /\ KeysOf(list)[i] = list[i].key
<1>1. /\ DOMAIN list = 1 .. Len(list) /\ Len(list) \in Nat
      /\ \A i \in 1 .. Len(list) : list[i] \in L!Node
  BY LenProperties, ElementOfSeq
<1>2. \A i \in 1 .. Len(list) : list[i].key \in Keys
  BY <1>1 DEF L!Node
<1> QED
  BY <1>1, <1>2 DEF KeysOf

(* Two lists of the same keys, one after the other.                        *)
LEMMA SameList ==
  ASSUME NEW set, NEW s \in Seq(set), NEW t \in Seq(set), Len(s) = Len(t),
         \A i \in 1 .. Len(s) : s[i] = t[i]
  PROVE  s = t
BY LenProperties

(* The keys without a node are those without its key.                      *)
LEMMA KeysOfCut ==
  ASSUME NEW list \in Seq(L!Node), NEW i \in 1 .. Len(list)
  PROVE  Cut(list, i) \in Seq(L!Node) /\ KeysOf(Cut(list, i)) = Cut(KeysOf(list), i)
<1> DEFINE h == KeysOf(list)
           l == Cut(list, i)
           s == KeysOf(l)
           t == Cut(h, i)
<1>1. h \in Seq(Keys) /\ Len(h) = Len(list) /\ Len(list) \in Nat
      /\ \A j \in 1 .. Len(list) : h[j] = list[j].key
  BY KeysOfList
<1>2. l \in Seq(L!Node) /\ Len(l) = Len(list) - 1
      /\ \A j \in 1 .. Len(list) - 1 : l[j] = IF j < i THEN list[j] ELSE list[j + 1]
  BY CutAt
<1> HIDE DEF l
<1>3. s \in Seq(Keys) /\ Len(s) = Len(l) /\ \A j \in 1 .. Len(l) : s[j] = l[j].key
  BY <1>2, KeysOfList
<1> HIDE DEF h
<1>4. t \in Seq(Keys) /\ Len(t) = Len(h) - 1
      /\ \A j \in 1 .. Len(h) - 1 : t[j] = IF j < i THEN h[j] ELSE h[j + 1]
  BY <1>1, CutAt
<1> HIDE DEF s, t
<1>5. \A j \in 1 .. Len(list) - 1 : s[j] = t[j]
  <2> TAKE j \in 1 .. Len(list) - 1
  <2>1. j \in 1 .. Len(list) /\ j + 1 \in 1 .. Len(list) /\ j \in 1 .. Len(l) /\ j \in 1 .. Len(h) - 1
    BY <1>1, <1>2
  <2> QED
    BY <1>1, <1>2, <1>3, <1>4, <2>1
<1>6. s = t
  <2>1. Len(s) = Len(list) - 1 /\ Len(t) = Len(list) - 1
    BY <1>1, <1>2, <1>3, <1>4
  <2> QED
    BY <1>3, <1>4, <1>5, <2>1, SameList
<1> QED
  BY <1>2, <1>6 DEF l, s, t, h

(* The keys with a node more.                                              *)
LEMMA KeysOfAppend ==
  ASSUME NEW list \in Seq(L!Node), NEW node \in L!Node
  PROVE  /\ Append(list, node) \in Seq(L!Node)
         /\ KeysOf(Append(list, node)) = Append(KeysOf(list), node.key)
<1> DEFINE h == KeysOf(list)
           l == Append(list, node)
           s == KeysOf(l)
           k == node.key
           t == Append(h, k)
<1>1. h \in Seq(Keys) /\ Len(h) = Len(list) /\ Len(list) \in Nat
      /\ \A j \in 1 .. Len(list) : h[j] = list[j].key
  BY KeysOfList
<1>2. l \in Seq(L!Node) /\ Len(l) = Len(list) + 1 /\ l[Len(list) + 1] = node
      /\ \A j \in 1 .. Len(list) : l[j] = list[j]
  BY <1>1, AppendProperties
<1>k. k \in Keys
  BY DEF L!Node
<1> HIDE DEF l
<1>3. s \in Seq(Keys) /\ Len(s) = Len(l) /\ \A j \in 1 .. Len(l) : s[j] = l[j].key
  BY <1>2, KeysOfList
<1> HIDE DEF h, k
<1>4. t \in Seq(Keys) /\ Len(t) = Len(h) + 1 /\ t[Len(h) + 1] = k
      /\ \A j \in 1 .. Len(h) : t[j] = h[j]
  BY <1>1, <1>k, AppendProperties
<1> HIDE DEF s, t
<1>5. \A j \in 1 .. Len(list) + 1 : s[j] = t[j]
  <2> TAKE j \in 1 .. Len(list) + 1
  <2>1. CASE j = Len(list) + 1
    BY <1>1, <1>2, <1>3, <1>4, <2>1 DEF k
  <2>2. CASE j \in 1 .. Len(list)
    <3>1. j \in 1 .. Len(l)
      BY <1>1, <1>2, <2>2
    <3> QED
      BY <1>1, <1>2, <1>3, <1>4, <2>2, <3>1
  <2> QED
    BY <1>1, <2>1, <2>2
<1>6. s = t
  <2>1. Len(s) = Len(list) + 1 /\ Len(t) = Len(list) + 1
    BY <1>1, <1>2, <1>3, <1>4
  <2> QED
    BY <1>3, <1>4, <1>5, <2>1, SameList
<1> QED
  BY <1>2, <1>6 DEF l, s, t, h, k

(* The keys without the first n nodes.                                     *)
LEMMA KeysOfDrop ==
  ASSUME NEW list \in Seq(L!Node), NEW n \in Nat
  PROVE  /\ SubSeq(list, n + 1, Len(list)) \in Seq(L!Node)
         /\ Len(SubSeq(list, n + 1, Len(list))) = IF n <= Len(list) THEN Len(list) - n ELSE 0
         /\ \A i \in 1 .. Len(list) - n : SubSeq(list, n + 1, Len(list))[i] = list[n + i]
         /\ KeysOf(SubSeq(list, n + 1, Len(list))) =
              SubSeq(KeysOf(list), n + 1, Len(KeysOf(list)))
<1> DEFINE h == KeysOf(list)
           l == SubSeq(list, n + 1, Len(list))
           s == KeysOf(l)
           t == SubSeq(h, n + 1, Len(h))
<1>1. h \in Seq(Keys) /\ Len(h) = Len(list) /\ Len(list) \in Nat
      /\ \A j \in 1 .. Len(list) : h[j] = list[j].key /\ list[j] \in L!Node /\ h[j] \in Keys
  BY KeysOfList
<1>2. l \in Seq(L!Node) /\ Len(l) = (IF n <= Len(list) THEN Len(list) - n ELSE 0)
      /\ \A j \in 1 .. Len(list) - n : l[j] = list[n + j]
  <2>1. \A j \in n + 1 .. Len(list) : list[j] \in L!Node
    BY <1>1
  <2>2. CASE n + 1 <= Len(list)
    BY <1>1, <2>1, <2>2
  <2>3. CASE ~(n + 1 <= Len(list))
    <3>1. l = <<>>
      BY <1>1, <2>3
    <3>2. 1 .. Len(list) - n = {}
      BY <1>1, <2>3
    <3> QED
      BY <1>1, <2>3, <3>1, <3>2
  <2> QED
    BY <2>2, <2>3
<1> HIDE DEF l
<1>3. s \in Seq(Keys) /\ Len(s) = Len(l) /\ \A j \in 1 .. Len(l) : s[j] = l[j].key
  BY <1>2, KeysOfList
<1> HIDE DEF h
<1>4. t \in Seq(Keys) /\ Len(t) = (IF n <= Len(h) THEN Len(h) - n ELSE 0)
      /\ \A j \in 1 .. Len(h) - n : t[j] = h[n + j]
  <2>1. \A j \in n + 1 .. Len(h) : h[j] \in Keys
    BY <1>1
  <2>2. CASE n + 1 <= Len(h)
    BY <1>1, <2>1, <2>2
  <2>3. CASE ~(n + 1 <= Len(h))
    <3>1. t = <<>>
      BY <1>1, <2>3
    <3>2. 1 .. Len(h) - n = {}
      BY <1>1, <2>3
    <3> QED
      BY <1>1, <2>3, <3>1, <3>2
  <2> QED
    BY <2>2, <2>3
<1> HIDE DEF s, t
<1>5. \A j \in 1 .. Len(s) : s[j] = t[j]
  <2> TAKE j \in 1 .. Len(s)
  <2>1. j \in 1 .. Len(list) - n /\ n + j \in 1 .. Len(list) /\ j \in 1 .. Len(l) /\ j \in 1 .. Len(h) - n
    BY <1>1, <1>2, <1>3
  <2> QED
    BY <1>1, <1>2, <1>3, <1>4, <2>1
<1>6. s = t
  <2>1. Len(s) = Len(t)
    BY <1>1, <1>2, <1>3, <1>4
  <2> QED
    BY <1>3, <1>4, <1>5, <2>1, SameList
<1> QED
  BY <1>2, <1>6 DEF l, s, t, h

(* The members of a list that are left.                                    *)
LEMMA CutMembers ==
  ASSUME NEW set, NEW s \in Seq(set), NEW i \in 1 .. Len(s)
  PROVE  /\ \A j \in 1 .. Len(Cut(s, i)) :
              \E l \in 1 .. Len(s) : l # i /\ Cut(s, i)[j] = s[l]
         /\ \A l \in 1 .. Len(s) :
              l # i => \E j \in 1 .. Len(Cut(s, i)) : Cut(s, i)[j] = s[l]
<1> DEFINE t == Cut(s, i)
<1>1. Len(s) \in Nat /\ i \in Nat
  BY LenProperties
<1>2. Len(t) = Len(s) - 1 /\ \A j \in 1 .. Len(s) - 1 : t[j] = IF j < i THEN s[j] ELSE s[j + 1]
  BY CutAt
<1> HIDE DEF t
<1>3. ASSUME NEW j \in 1 .. Len(t)
      PROVE  \E l \in 1 .. Len(s) : l # i /\ t[j] = s[l]
  <2>1. CASE j < i
    <3>1. j \in 1 .. Len(s) /\ j # i /\ t[j] = s[j]
      BY <1>1, <1>2, <2>1
    <3> QED
      BY <3>1
  <2>2. CASE ~(j < i)
    <3>1. j + 1 \in 1 .. Len(s) /\ j + 1 # i /\ t[j] = s[j + 1]
      BY <1>1, <1>2, <2>2
    <3> QED
      BY <3>1
  <2> QED
    BY <2>1, <2>2
<1>4. ASSUME NEW l \in 1 .. Len(s), l # i
      PROVE  \E j \in 1 .. Len(t) : t[j] = s[l]
  <2>1. CASE l < i
    <3>1. l \in 1 .. Len(t) /\ t[l] = s[l]
      BY <1>1, <1>2, <2>1
    <3> QED
      BY <3>1
  <2>2. CASE ~(l < i)
    <3>1. l - 1 \in 1 .. Len(t) /\ ~(l - 1 < i) /\ l - 1 + 1 = l
      BY <1>1, <1>2, <1>4, <2>2
    <3>2. t[l - 1] = s[l]
      BY <1>2, <3>1
    <3> QED
      BY <3>1, <3>2
  <2> QED
    BY <2>1, <2>2
<1> QED
  BY <1>3, <1>4 DEF t

(* A key that is erased goes from list, index and uses alike.              *)
LEMMA HoldingCut ==
  ASSUME NEW list, NEW index, NEW used, NEW latest, Holding(list, index, used, latest),
         NEW i \in 1 .. Len(list), NEW k, list[i].key = k
  PROVE  Holding(Cut(list, i), index \ {k}, L!RemoveFirst(used, k), latest)
<1> DEFINE l == Cut(list, i)
<1>1. /\ list \in Seq(L!Node) /\ EndsWith(KeysOf(list), used)
      /\ index = {list[j].key : j \in 1 .. Len(list)}
      /\ \A j \in 1 .. Len(list) : list[j].value = latest[list[j].key]
  BY DEF Holding
<1>2. /\ Len(KeysOf(list)) = Len(list) /\ KeysOf(list)[i] = k
      /\ \A j \in 1 .. Len(list) : KeysOf(list)[j] = list[j].key
  BY <1>1, KeysOfList
<1>3. l \in Seq(L!Node) /\ KeysOf(l) = Cut(KeysOf(list), i)
  BY <1>1, KeysOfCut
<1>4. EndsWith(KeysOf(l), L!RemoveFirst(used, k))
  BY <1>1, <1>2, <1>3, EndsCut
<1>5. Distinct(KeysOf(list))
  BY <1>1, EndsDistinct
<1>6. /\ \A j \in 1 .. Len(l) : \E m \in 1 .. Len(list) : m # i /\ l[j] = list[m]
      /\ \A m \in 1 .. Len(list) : m # i => \E j \in 1 .. Len(l) : l[j] = list[m]
  BY <1>1, CutMembers
<1>7. \A m \in 1 .. Len(list) : list[m].key = k => m = i
  BY <1>2, <1>5 DEF Distinct
<1> HIDE DEF l
<1>8. index \ {k} = {l[j].key : j \in 1 .. Len(l)}
  <2>1. ASSUME NEW key \in index, key # k
        PROVE  key \in {l[j].key : j \in 1 .. Len(l)}
    <3>1. PICK m \in 1 .. Len(list) : key = list[m].key
      BY <1>1
    <3>2. m # i
      BY <2>1, <3>1
    <3>3. PICK j \in 1 .. Len(l) : l[j] = list[m]
      BY <1>6, <3>2
    <3> QED
      BY <3>1, <3>3
  <2>2. ASSUME NEW j \in 1 .. Len(l)
        PROVE  l[j].key \in index \ {k}
    <3>1. PICK m \in 1 .. Len(list) : m # i /\ l[j] = list[m]
      BY <1>6
    <3> QED
      BY <1>1, <1>7, <3>1
  <2> QED
    BY <2>1, <2>2
<1>9. \A j \in 1 .. Len(l) : l[j].value = latest[l[j].key]
  BY <1>1, <1>6
<1> QED
  BY <1>3, <1>4, <1>8, <1>9 DEF Holding, l

(* A key that is not held may leave the uses.                              *)
LEMMA HoldingSkip ==
  ASSUME NEW list, NEW index, NEW used, NEW latest, Holding(list, index, used, latest),
         NEW k, k \notin index
  PROVE  Holding(list, index, L!RemoveFirst(used, k), latest)
<1>1. /\ list \in Seq(L!Node) /\ EndsWith(KeysOf(list), used)
      /\ index = {list[j].key : j \in 1 .. Len(list)}
  BY DEF Holding
<1>2. \A i \in 1 .. Len(KeysOf(list)) : KeysOf(list)[i] # k
  BY <1>1, KeysOfList
<1>3. EndsWith(KeysOf(list), L!RemoveFirst(used, k))
  BY <1>1, <1>2, EndsSkip
<1> QED
  BY <1>3 DEF Holding

(* A key that is put comes last, with its value.                           *)
LEMMA HoldingAppend ==
  ASSUME NEW list, NEW index, NEW used, NEW latest \in [Keys -> Values],
         Holding(list, index, used, latest), NEW node \in L!Node,
         \A i \in 1 .. Len(used) : used[i] # node.key, node.key \notin index
  PROVE  Holding(Append(list, node), index \union {node.key}, Append(used, node.key),
                 [latest EXCEPT ![node.key] = node.value])
<1> DEFINE k == node.key
           l == Append(list, node)
           after == [latest EXCEPT ![k] = node.value]
<1>1. /\ list \in Seq(L!Node) /\ EndsWith(KeysOf(list), used)
      /\ index = {list[j].key : j \in 1 .. Len(list)}
      /\ \A j \in 1 .. Len(list) : list[j].value = latest[list[j].key]
  BY DEF Holding
<1>2. k \in Keys /\ node.value \in Values
  BY DEF L!Node
<1>3. l \in Seq(L!Node) /\ KeysOf(l) = Append(KeysOf(list), k)
  BY <1>1, KeysOfAppend
<1>4. EndsWith(KeysOf(l), Append(used, k))
  BY <1>1, <1>2, <1>3, EndsAppend
<1>5. /\ Len(l) = Len(list) + 1 /\ l[Len(list) + 1] = node /\ Len(list) \in Nat
      /\ \A j \in 1 .. Len(list) : l[j] = list[j] /\ list[j].key \in Keys
  BY <1>1, KeysOfList, AppendProperties
<1>6. \A j \in 1 .. Len(l) : j \in 1 .. Len(list) \/ j = Len(list) + 1
  BY <1>5
<1>7. 1 .. Len(list) \subseteq 1 .. Len(l) /\ Len(list) + 1 \in 1 .. Len(l)
  BY <1>5
<1> HIDE DEF l
<1>8. index \union {k} = {l[j].key : j \in 1 .. Len(l)}
  <2>1. \A j \in 1 .. Len(list) : l[j].key = list[j].key
    BY <1>5
  <2>2. l[Len(list) + 1].key = k
    BY <1>5
  <2> QED
    BY <1>1, <1>6, <1>7, <2>1, <2>2
<1>9. after[k] = node.value /\ \A key \in Keys : key # k => after[key] = latest[key]
  BY <1>2
<1> HIDE DEF after
<1>10. \A j \in 1 .. Len(l) : l[j].value = after[l[j].key]
  <2> TAKE j \in 1 .. Len(l)
  <2>1. CASE j = Len(list) + 1
    BY <1>5, <1>9, <2>1
  <2>2. CASE j \in 1 .. Len(list)
    <3>1. l[j] = list[j] /\ list[j].key \in Keys /\ list[j].key # k
      BY <1>1, <1>5, <2>2
    <3> QED
      BY <1>1, <1>9, <2>2, <3>1
  <2> QED
    BY <1>6, <2>1, <2>2
<1> QED
  BY <1>3, <1>4, <1>8, <1>10 DEF Holding, l, after

(* The keys used longest ago may be dropped.                               *)
LEMMA HoldingDrop ==
  ASSUME NEW list, NEW index, NEW used, NEW latest, Holding(list, index, used, latest),
         NEW n \in Nat
  PROVE  Holding(SubSeq(list, n + 1, Len(list)),
                 index \ {list[i].key : i \in 1 .. n \cap DOMAIN list}, used, latest)
<1> DEFINE l == SubSeq(list, n + 1, Len(list))
           gone == {list[i].key : i \in 1 .. n \cap DOMAIN list}
           len == Len(list)
<1>1. /\ list \in Seq(L!Node) /\ EndsWith(KeysOf(list), used)
      /\ index = {list[j].key : j \in 1 .. len}
      /\ \A j \in 1 .. len : list[j].value = latest[list[j].key]
      /\ DOMAIN list = 1 .. len
  BY DEF Holding
<1>2. /\ l \in Seq(L!Node) /\ Len(l) = (IF n <= len THEN len - n ELSE 0)
      /\ \A i \in 1 .. len - n : l[i] = list[n + i]
      /\ KeysOf(l) = SubSeq(KeysOf(list), n + 1, Len(KeysOf(list)))
  BY <1>1, KeysOfDrop
<1>3. EndsWith(KeysOf(l), used)
  BY <1>1, <1>2, EndsDrop
<1> HIDE DEF l
<1>4. Distinct(KeysOf(list)) /\ len \in Nat
  BY <1>1, EndsDistinct, KeysOfList
<1>5. \A i, j \in 1 .. len : list[i].key = list[j].key => i = j
  BY <1>1, <1>4, KeysOfList DEF Distinct
<1>6. \A i \in 1 .. Len(l) : n + i \in 1 .. len /\ n + i \notin 1 .. n /\ l[i] = list[n + i]
  BY <1>2, <1>4
<1>7. \A j \in 1 .. len : j \notin 1 .. n => j - n \in 1 .. Len(l) /\ l[j - n] = list[j]
  <2> TAKE j \in 1 .. len
  <2> HAVE j \notin 1 .. n
  <2>1. j - n \in 1 .. len - n /\ j - n \in 1 .. Len(l) /\ n + (j - n) = j
    BY <1>2, <1>4
  <2> QED
    BY <1>2, <2>1
<1>8. index \ gone = {l[i].key : i \in 1 .. Len(l)}
  <2>1. ASSUME NEW key \in index, key \notin gone
        PROVE  key \in {l[i].key : i \in 1 .. Len(l)}
    <3>1. PICK j \in 1 .. len : key = list[j].key
      BY <1>1
    <3>2. j \notin 1 .. n
      BY <1>1, <2>1, <3>1
    <3> QED
      BY <1>7, <3>1, <3>2
  <2>2. ASSUME NEW i \in 1 .. Len(l)
        PROVE  l[i].key \in index \ gone
    <3>1. n + i \in 1 .. len /\ n + i \notin 1 .. n /\ l[i] = list[n + i]
      BY <1>6
    <3>2. l[i].key \notin gone
      BY <1>1, <1>5, <3>1
    <3> QED
      BY <1>1, <3>1, <3>2
  <2> QED
    BY <2>1, <2>2
<1>9. \A i \in 1 .. Len(l) : l[i].value = latest[l[i].key]
  BY <1>1, <1>6
<1> QED
  BY <1>2, <1>3, <1>8, <1>9 DEF Holding, l

(* A map that is cleared holds nothing.                                    *)
LEMMA HoldingNone ==
  ASSUME NEW latest
  PROVE  Holding(<<>>, {}, <<>>, latest)
<1>1. <<>> \in Seq(L!Node) /\ <<>> \in Seq(Keys) /\ Len(<<>>) = 0 /\ 1 .. 0 = {}
  OBVIOUS
<1>2. KeysOf(<<>>) = <<>>
  BY DEF KeysOf
<1>3. EndsWith(<<>>, <<>>)
  BY <1>1 DEF EndsWith, Distinct
<1> QED
  BY <1>1, <1>2, <1>3 DEF Holding

(* The index finds the node of its key.                                    *)
LEMMA PlaceOf ==
  ASSUME LruIInv, NEW k \in lru.index
  PROVE  /\ L!Place(k) \in 1 .. Len(lru.nodelist) /\ lru.nodelist[L!Place(k)].key = k
         /\ lru.nodelist[L!Place(k)] \in L!Node
<1>1. /\ lru.nodelist \in Seq(L!Node) /\ DOMAIN lru.nodelist = 1 .. Len(lru.nodelist)
      /\ \E i \in 1 .. Len(lru.nodelist) : lru.nodelist[i].key = k
  BY DEF LruIInv, Holding
<1>2. L!Place(k) \in 1 .. Len(lru.nodelist) /\ lru.nodelist[L!Place(k)].key = k
  BY <1>1 DEF L!Place
<1> QED
  BY <1>1, <1>2, KeysOfList

(* A node goes to the end of the list, with what is now in it.             *)
LEMMA SpliceKeeps ==
  ASSUME LruIInv, NEW k \in lru.index, NEW node \in L!Node, node.key = k,
         lru' = [lru EXCEPT !.nodelist = L!Splice(L!Place(k), node)],
         L!Use(k), lruLatest' = [lruLatest EXCEPT ![k] = node.value], now' = now
  PROVE  LruIInv'
<1> DEFINE i == L!Place(k)
           list == lru.nodelist
           cut == Cut(list, i)
           used == L!RemoveFirst(lruUsed, k)
<1>1. /\ Holding(list, lru.index, lruUsed, lruLatest) /\ LruTyped
      /\ lruLatest \in [Keys -> Values] /\ k \in Keys /\ node.value \in Values
      /\ lru \in [capacity : Capacities, index : SUBSET Keys, nodelist : Seq(L!Node)]
  BY DEF LruIInv, LruTyped, L!Node
<1>2. i \in 1 .. Len(list) /\ list[i].key = k
  BY PlaceOf
<1>3. Holding(cut, lru.index \ {k}, used, lruLatest)
  <2> HIDE DEF i
  <2> QED
    BY <1>1, <1>2, HoldingCut
<1>4. \A j \in 1 .. Len(used) : used[j] # k
  BY <1>1, KeyGone DEF Holding
<1> HIDE DEF cut, used
<1>5. Holding(Append(cut, node), (lru.index \ {k}) \union {k}, Append(used, k),
              [lruLatest EXCEPT ![k] = node.value])
  BY <1>1, <1>3, <1>4, HoldingAppend
<1>6. (lru.index \ {k}) \union {k} = lru.index
  OBVIOUS
<1>7. /\ lru'.nodelist = Append(cut, node) /\ lru'.index = lru.index /\ lru'.capacity = lru.capacity
      /\ lru' = [capacity |-> lru.capacity, index |-> lru.index, nodelist |-> Append(cut, node)]
  <2>1. L!Splice(i, node) = Append(cut, node)
    BY DEF L!Splice, L!RemoveAt, Cut, cut
  <2> QED
    BY <1>1, <2>1
<1>8. lruUsed' = Append(used, k)
  BY DEF L!Use, used
<1>9. Append(cut, node) \in Seq(L!Node)
  BY <1>5 DEF Holding
<1>10. LruTyped'
  <2>1. lruLatest' \in [Keys -> Values]
    BY <1>1
  <2>2. lru' \in [capacity : Capacities, index : SUBSET Keys, nodelist : Seq(L!Node)]
    BY <1>1, <1>7, <1>9
  <2> QED
    BY <1>1, <2>1, <2>2 DEF LruTyped
<1>11. Holding(lru'.nodelist, lru'.index, lruUsed', lruLatest')
  BY <1>5, <1>6, <1>7, <1>8
<1> QED
  BY <1>10, <1>11 DEF LruIInv, Holding, EndsWith

(* A key is erased (lurmap.h:116-131).                                     *)
LEMMA EraseKeeps ==
  ASSUME LruIInv, NEW k \in lru.index, lru' = L!erase(lru, k),
         lruUsed' = L!RemoveFirst(lruUsed, k), UNCHANGED <<now, lruLatest>>
  PROVE  LruIInv'
<1> DEFINE i == L!Place(k)
           list == lru.nodelist
           cut == Cut(list, i)
           used == L!RemoveFirst(lruUsed, k)
<1>1. /\ Holding(list, lru.index, lruUsed, lruLatest) /\ LruTyped
      /\ lru \in [capacity : Capacities, index : SUBSET Keys, nodelist : Seq(L!Node)]
  BY DEF LruIInv, LruTyped
<1>2. i \in 1 .. Len(list) /\ list[i].key = k
  BY PlaceOf
<1>3. Holding(cut, lru.index \ {k}, used, lruLatest)
  <2> HIDE DEF i
  <2> QED
    BY <1>1, <1>2, HoldingCut
<1>4. lru' = [capacity |-> lru.capacity, index |-> lru.index \ {k}, nodelist |-> cut]
  <2>1. L!RemoveAt(list, i) = cut
    BY DEF L!RemoveAt, Cut
  <2>2. lru' = [lru EXCEPT !.index = lru.index \ {k}, !.nodelist = cut]
    BY <2>1 DEF L!erase
  <2> HIDE DEF cut
  <2> QED
    BY <1>1, <2>2
<1> HIDE DEF cut, used
<1>5. cut \in Seq(L!Node)
  BY <1>3 DEF Holding
<1>6. LruTyped'
  <2>1. lru' \in [capacity : Capacities, index : SUBSET Keys, nodelist : Seq(L!Node)]
    BY <1>1, <1>4, <1>5
  <2> QED
    BY <1>1, <2>1 DEF LruTyped
<1>7. Holding(lru'.nodelist, lru'.index, lruUsed', lruLatest')
  BY <1>3, <1>4 DEF used
<1> QED
  BY <1>6, <1>7 DEF LruIInv, Holding, EndsWith

(* What a put of a key that is not held makes room with.                   *)
Room == IF L!IsFull(lru) THEN L!vacate(lru, VacateCount) ELSE lru

(* The map after vacate, if it is full, holds keys used last               *)
(* (lurmap.h:133-141).                                                     *)
LEMMA RoomHolds ==
  ASSUME LruIInv
  PROVE  /\ Holding(Room.nodelist, Room.index, lruUsed, lruLatest)
         /\ Room \in [capacity : Capacities, index : SUBSET Keys, nodelist : Seq(L!Node)]
         /\ Room.index \subseteq lru.index /\ Room.capacity = lru.capacity
         /\ Room.nodelist =
               IF L!IsFull(lru)
                 THEN SubSeq(lru.nodelist, VacateCount + 1, Len(lru.nodelist)) ELSE lru.nodelist
<1> DEFINE list == lru.nodelist
           gone == {list[i].key : i \in 1 .. VacateCount \cap DOMAIN list}
           left == SubSeq(list, VacateCount + 1, Len(list))
<1>1. /\ Holding(list, lru.index, lruUsed, lruLatest)
      /\ lru \in [capacity : Capacities, index : SUBSET Keys, nodelist : Seq(L!Node)]
      /\ VacateCount \in Nat
  BY ToolboxAssumption DEF LruIInv, LruTyped
<1>2. CASE ~L!IsFull(lru)
  BY <1>1, <1>2 DEF Room
<1>3. CASE L!IsFull(lru)
  <2>1. Holding(left, lru.index \ gone, lruUsed, lruLatest)
    BY <1>1, HoldingDrop
  <2>2. left \in Seq(L!Node)
    BY <2>1 DEF Holding
  <2>3. Room = [capacity |-> lru.capacity, index |-> lru.index \ gone, nodelist |-> left]
    <3>1. Room = [lru EXCEPT !.index = lru.index \ gone, !.nodelist = left]
      BY <1>3 DEF Room, L!vacate
    <3> HIDE DEF gone, left
    <3> QED
      BY <1>1, <3>1
  <2> HIDE DEF gone
  <2> QED
    BY <1>1, <1>3, <2>1, <2>2, <2>3
<1> QED
  BY <1>2, <1>3

(* A new key is put, after room was made (lurmap.h:93-114).                *)
LEMMA PutNewKeeps ==
  ASSUME LruIInv, NEW k \in Keys \ lru.index, NEW node \in L!Node, node.key = k,
         lru' = [capacity |-> Room.capacity, index |-> Room.index \union {k},
                 nodelist |-> Append(Room.nodelist, node)],
         L!Use(k), lruLatest' = [lruLatest EXCEPT ![k] = node.value], now' = now
  PROVE  LruIInv'
<1> DEFINE used == L!RemoveFirst(lruUsed, k)
           list == Append(Room.nodelist, node)
<1>1. /\ Holding(Room.nodelist, Room.index, lruUsed, lruLatest) /\ LruTyped
      /\ Room \in [capacity : Capacities, index : SUBSET Keys, nodelist : Seq(L!Node)]
      /\ k \notin Room.index
      /\ lruLatest \in [Keys -> Values] /\ node.value \in Values
  BY RoomHolds DEF LruIInv, LruTyped, L!Node
<1>2. Holding(Room.nodelist, Room.index, used, lruLatest)
  BY <1>1, HoldingSkip
<1>3. \A j \in 1 .. Len(used) : used[j] # k
  BY <1>1, KeyGone DEF Holding
<1> HIDE DEF used
<1>4. Holding(list, Room.index \union {k}, Append(used, k), [lruLatest EXCEPT ![k] = node.value])
  BY <1>1, <1>2, <1>3, HoldingAppend
<1>5. lru' = [capacity |-> Room.capacity, index |-> Room.index \union {k}, nodelist |-> list]
  OBVIOUS
<1>6. list \in Seq(L!Node)
  BY <1>4 DEF Holding
<1> HIDE DEF list
<1>7. LruTyped'
  <2>1. lru' \in [capacity : Capacities, index : SUBSET Keys, nodelist : Seq(L!Node)]
    BY <1>1, <1>5, <1>6
  <2>2. lruLatest' \in [Keys -> Values]
    BY <1>1
  <2> QED
    BY <1>1, <2>1, <2>2 DEF LruTyped
<1>8. Holding(lru'.nodelist, lru'.index, lruUsed', lruLatest')
  <2>1. lruUsed' = Append(used, k)
    BY DEF L!Use, used
  <2>2. lru'.nodelist = list /\ lru'.index = Room.index \union {k}
    BY <1>5
  <2> QED
    BY <1>4, <2>1, <2>2
<1> QED
  BY <1>7, <1>8 DEF LruIInv, Holding, EndsWith

(* The map is cleared, with its capacity or a new one (lurmap.h:47-51,     *)
(* 62-74).                                                                 *)
LEMMA LruEmpty ==
  ASSUME LruTyped, NEW n \in Capacities,
         lru' = [capacity |-> n, index |-> {}, nodelist |-> <<>>], lruUsed' = <<>>,
         UNCHANGED <<now, lruLatest>>
  PROVE  LruIInv'
<1>1. Holding(lru'.nodelist, lru'.index, lruUsed', lruLatest')
  BY HoldingNone
<1>2. lru' \in [capacity : Capacities, index : SUBSET Keys, nodelist : Seq(L!Node)]
  OBVIOUS
<1>3. LruTyped'
  BY <1>2 DEF LruTyped
<1> QED
  BY <1>1, <1>3 DEF LruIInv, Holding, EndsWith

(* Every operation of the map keeps it (lurmap.h:47-141).                  *)
LEMMA LruKeeps == LruIInv /\ [L!Next]_L!lruVars => LruIInv'
<1> SUFFICES ASSUME LruIInv, [L!Next]_L!lruVars PROVE LruIInv'
  OBVIOUS
<1>t. /\ lru \in [capacity : Capacities, index : SUBSET Keys, nodelist : Seq(L!Node)]
      /\ now \in 0 .. MaxNow /\ lruLatest \in [Keys -> Values] /\ LruTyped
      /\ Lifetimes \subseteq Nat /\ MaxNow \in Nat
  BY ToolboxAssumption DEF LruIInv, LruTyped
<1>1. ASSUME NEW k \in Keys, NEW v \in Values, NEW seconds \in Lifetimes, L!put(k, v, seconds)
      PROVE  LruIInv'
  <2> DEFINE node == [key |-> k, value |-> v, expiration |-> now + seconds]
  <2>1. node \in L!Node /\ node.key = k /\ node.value = v
    <3>1. now + seconds \in Nat
      BY <1>t
    <3> QED
      BY <3>1 DEF L!Node
  <2>2. L!Use(k) /\ lruLatest' = [lruLatest EXCEPT ![k] = v] /\ now' = now
    BY <1>1 DEF L!put
  <2>3. CASE k \in lru.index
    <3>1. lru' = [lru EXCEPT !.nodelist = L!Splice(L!Place(k), node)]
      BY <1>1, <2>3 DEF L!put
    <3> HIDE DEF node
    <3> QED
      BY <2>1, <2>2, <2>3, <3>1, SpliceKeeps
  <2>4. CASE k \notin lru.index
    <3>1. lru' = [Room EXCEPT !.index = @ \union {k}, !.nodelist = Append(@, node)]
      BY <1>1, <2>4 DEF L!put, Room
    <3> HIDE DEF node
    <3>2. lru' = [capacity |-> Room.capacity, index |-> Room.index \union {k},
                  nodelist |-> Append(Room.nodelist, node)]
      BY <3>1, RoomHolds
    <3> QED
      BY <2>1, <2>2, <2>4, <3>2, PutNewKeeps
  <2> QED
    BY <2>3, <2>4
<1>2. ASSUME NEW k \in Keys, NEW erasing_expired \in BOOLEAN, L!get(k, erasing_expired)
      PROVE  LruIInv'
  <2>1. k \in lru.index /\ now' = now /\ lruLatest' = lruLatest
    BY <1>2 DEF L!get
  <2>2. CASE erasing_expired /\ L!Expired(k)
    BY <1>2, <2>1, <2>2, EraseKeeps DEF L!get
  <2>3. CASE ~(erasing_expired /\ L!Expired(k))
    <3> DEFINE node == lru.nodelist[L!Place(k)]
    <3>1. lru' = [lru EXCEPT !.nodelist = L!Splice(L!Place(k), node)] /\ L!Use(k)
      BY <1>2, <2>3 DEF L!get
    <3>2. node \in L!Node /\ node.key = k /\ L!Place(k) \in 1 .. Len(lru.nodelist)
      BY <2>1, PlaceOf
    <3>3. lruLatest' = [lruLatest EXCEPT ![k] = node.value]
      <4>1. node.value = lruLatest[k]
        BY <3>2 DEF LruIInv, Holding
      <4> QED
        BY <1>t, <2>1, <4>1
    <3> HIDE DEF node
    <3> QED
      BY <2>1, <3>1, <3>2, <3>3, SpliceKeeps
  <2> QED
    BY <2>2, <2>3
<1>3. ASSUME NEW k \in Keys, L!Erase(k)
      PROVE  LruIInv'
  BY <1>3, EraseKeeps DEF L!Erase
<1>4. CASE L!clear
  <2>1. lru' = [capacity |-> lru.capacity, index |-> {}, nodelist |-> <<>>]
    BY <1>t, <1>4 DEF L!clear
  <2>2. lru.capacity \in Capacities
    BY <1>t
  <2> QED
    BY <1>t, <1>4, <2>1, <2>2, LruEmpty DEF L!clear
<1>5. ASSUME NEW n \in Capacities, L!SetCapacity(n)
      PROVE  LruIInv'
  <2>1. CASE n = 0
    <3>1. lru' = [capacity |-> n, index |-> {}, nodelist |-> <<>>] /\ lruUsed' = <<>>
      BY <1>5, <2>1 DEF L!SetCapacity
    <3>2. now' = now /\ lruLatest' = lruLatest
      BY <1>5 DEF L!SetCapacity
    <3> QED
      BY <1>t, <3>1, <3>2, LruEmpty
  <2>2. CASE n # 0
    <3>1. /\ lru' = [capacity |-> n, index |-> lru.index, nodelist |-> lru.nodelist]
          /\ lruUsed' = lruUsed /\ now' = now /\ lruLatest' = lruLatest
      BY <1>t, <1>5, <2>2 DEF L!SetCapacity
    <3>2. lru' \in [capacity : Capacities, index : SUBSET Keys, nodelist : Seq(L!Node)]
      BY <1>t, <3>1
    <3>3. LruTyped'
      BY <1>t, <3>1, <3>2 DEF LruTyped
    <3>4. Holding(lru'.nodelist, lru'.index, lruUsed', lruLatest')
      BY <3>1 DEF LruIInv
    <3> QED
      BY <3>3, <3>4 DEF LruIInv, Holding, EndsWith
  <2> QED
    BY <2>1, <2>2
<1>6. CASE L!Tick
  <2>1. /\ lru' = lru /\ lruUsed' = lruUsed /\ lruLatest' = lruLatest
        /\ now' \in 0 .. MaxNow
    BY <1>t, <1>6 DEF L!Tick
  <2>2. LruTyped'
    BY <1>t, <2>1 DEF LruTyped
  <2>3. Holding(lru'.nodelist, lru'.index, lruUsed', lruLatest')
    BY <2>1 DEF LruIInv
  <2> QED
    BY <2>2, <2>3 DEF LruIInv, Holding, EndsWith
<1>7. CASE UNCHANGED L!lruVars
  <2>1. lru' = lru /\ lruUsed' = lruUsed /\ lruLatest' = lruLatest /\ now' = now
    BY <1>7 DEF L!lruVars
  <2>2. LruTyped'
    BY <1>t, <2>1 DEF LruTyped
  <2>3. Holding(lru'.nodelist, lru'.index, lruUsed', lruLatest')
    BY <2>1 DEF LruIInv
  <2> QED
    BY <2>2, <2>3 DEF LruIInv, Holding, EndsWith
<1> QED
  BY <1>1, <1>2, <1>3, <1>4, <1>5, <1>6, <1>7 DEF L!Next

(* The map begins empty.                                                   *)
LEMMA LruStarts == L!Init => LruIInv
<1> SUFFICES ASSUME L!Init PROVE LruIInv
  OBVIOUS
<1>1. lruUsed = <<>> /\ now = 0 /\ lruLatest \in [Keys -> Values]
  BY DEF L!Init
<1>2. PICK n \in Capacities : lru = [capacity |-> n, index |-> {}, nodelist |-> <<>>]
  BY DEF L!Init
<1>3. lru \in [capacity : Capacities, index : SUBSET Keys, nodelist : Seq(L!Node)]
  <2>1. <<>> \in Seq(L!Node) /\ {} \in SUBSET Keys
    OBVIOUS
  <2> QED
    BY <1>2, <2>1
<1>4. Holding(lru.nodelist, lru.index, lruUsed, lruLatest)
  <2>1. lru.nodelist = <<>> /\ lru.index = {}
    BY <1>2
  <2> QED
    BY <1>1, <2>1, HoldingNone
<1> QED
  BY <1>1, <1>3, <1>4, ToolboxAssumption DEF LruIInv, LruTyped

(* What the invariant says of the map.                                     *)
LEMMA LruHolds == LruIInv => L!TypeOK /\ L!Recency
<1> SUFFICES ASSUME LruIInv PROVE L!TypeOK /\ L!Recency
  OBVIOUS
<1> DEFINE list == lru.nodelist
           held == KeysOf(list)
<1>1. /\ list \in Seq(L!Node) /\ EndsWith(held, lruUsed) /\ lruUsed \in Seq(Keys)
      /\ lru.index = {list[j].key : j \in 1 .. Len(list)}
      /\ \A j \in 1 .. Len(list) : list[j].value = lruLatest[list[j].key]
      /\ DOMAIN list = 1 .. Len(list)
  BY DEF LruIInv, Holding, EndsWith
<1>2. /\ DOMAIN held = 1 .. Len(list)
      /\ \A j \in 1 .. Len(list) : held[j] = list[j].key
  BY <1>1, KeysOfList
<1>3. held = [i \in DOMAIN lru.nodelist |-> lru.nodelist[i].key]
  BY DEF KeysOf
<1> HIDE DEF held
<1>4. L!TypeOK
  BY <1>1 DEF L!TypeOK, LruIInv, LruTyped
<1>5. L!IsSuffix(held, lruUsed)
  BY <1>1, EndsSuffix
<1>6. lru.index = L!ToSet(held)
  BY <1>1, <1>2 DEF L!ToSet
<1>7. \A i \in DOMAIN held : lru.nodelist[i].value = lruLatest[held[i]]
  BY <1>1, <1>2
<1> QED
  BY <1>3, <1>4, <1>5, <1>6, <1>7 DEF L!Recency

(* Only a key that was not held makes the list longer, and only after room *)
(* was made for it.                                                        *)
LEMMA LruGrows == LruIInv /\ [L!Next]_L!lruVars => L!WithinCapacity
<1> SUFFICES ASSUME LruIInv, [L!Next]_L!lruVars, Len(lru'.nodelist) > Len(lru.nodelist)
             PROVE  Len(lru'.nodelist) <= lru'.capacity \/ Len(lru'.nodelist) = 1
  BY DEF L!WithinCapacity
<1> DEFINE list == lru.nodelist
<1>t. /\ lru \in [capacity : Capacities, index : SUBSET Keys, nodelist : Seq(L!Node)]
      /\ list \in Seq(L!Node) /\ Len(list) \in Nat
      /\ lru.capacity \in Nat /\ VacateCount \in Nat \ {0}
  BY ToolboxAssumption, LenProperties DEF LruIInv, LruTyped
<1>s. ASSUME NEW k \in lru.index, NEW node
      PROVE  Len(L!Splice(L!Place(k), node)) = Len(list)
  <2> DEFINE i == L!Place(k)
             cut == Cut(list, i)
  <2>1. i \in 1 .. Len(list)
    BY PlaceOf
  <2> HIDE DEF i
  <2>2. cut \in Seq(L!Node) /\ Len(cut) = Len(list) - 1
    BY <1>t, <2>1, CutAt
  <2>3. L!Splice(i, node) = Append(cut, node)
    BY DEF L!Splice, L!RemoveAt, Cut
  <2> HIDE DEF cut
  <2>4. Len(Append(cut, node)) = Len(cut) + 1
    BY <2>2
  <2> QED
    BY <1>t, <2>2, <2>3, <2>4 DEF i
<1>e. ASSUME NEW k \in lru.index, lru' = L!erase(lru, k)
      PROVE  FALSE
  <2> DEFINE i == L!Place(k)
  <2>1. i \in 1 .. Len(list)
    BY PlaceOf
  <2>2. lru'.nodelist = Cut(list, i)
    BY <1>t, <1>e DEF L!erase, L!RemoveAt, Cut
  <2> HIDE DEF i
  <2>3. Len(Cut(list, i)) = Len(list) - 1
    BY <1>t, <2>1, CutAt
  <2> QED
    BY <1>t, <2>2, <2>3
<1>1. ASSUME NEW k \in Keys, NEW v \in Values, NEW seconds \in Lifetimes, L!put(k, v, seconds)
      PROVE  Len(lru'.nodelist) <= lru'.capacity \/ Len(lru'.nodelist) = 1
  <2> DEFINE node == [key |-> k, value |-> v, expiration |-> now + seconds]
  <2>1. CASE k \in lru.index
    <3>1. lru'.nodelist = L!Splice(L!Place(k), node)
      BY <1>t, <1>1, <2>1 DEF L!put
    <3> HIDE DEF node
    <3> QED
      BY <1>s, <1>t, <2>1, <3>1
  <2>2. CASE k \notin lru.index
    <3>1. lru' = [Room EXCEPT !.index = @ \union {k}, !.nodelist = Append(@, node)]
      BY <1>1, <2>2 DEF L!put, Room
    <3> HIDE DEF node
    <3>2. /\ Room \in [capacity : Capacities, index : SUBSET Keys, nodelist : Seq(L!Node)]
          /\ Room.capacity = lru.capacity
          /\ Room.nodelist = IF L!IsFull(lru)
                               THEN SubSeq(list, VacateCount + 1, Len(list)) ELSE list
      BY RoomHolds
    <3>3. lru'.capacity = lru.capacity /\ lru'.nodelist = Append(Room.nodelist, node)
      BY <3>1, <3>2
    <3>4. Len(lru'.nodelist) = Len(Room.nodelist) + 1
      <4> DEFINE r == Room.nodelist
      <4>1. r \in Seq(L!Node) /\ lru'.nodelist = Append(r, node)
        BY <3>2, <3>3
      <4> HIDE DEF r
      <4>2. Len(Append(r, node)) = Len(r) + 1
        BY <4>1
      <4> QED
        BY <4>1, <4>2 DEF r
    <3>5. CASE ~L!IsFull(lru)
      <4>1. Len(list) < lru.capacity /\ Len(lru'.nodelist) = Len(list) + 1
        BY <1>t, <3>2, <3>4, <3>5 DEF L!IsFull
      <4> QED
        BY <1>t, <3>3, <4>1
    <3>6. CASE L!IsFull(lru)
      <4>1. Len(Room.nodelist) = IF VacateCount <= Len(list) THEN Len(list) - VacateCount ELSE 0
        BY <1>t, <3>2, <3>6, KeysOfDrop
      <4> QED
        BY <1>t, <3>4, <4>1
    <3> QED
      BY <3>5, <3>6
  <2> QED
    BY <2>1, <2>2
<1>2. ASSUME NEW k \in Keys, NEW erasing_expired \in BOOLEAN, L!get(k, erasing_expired)
      PROVE  FALSE
  <2>1. k \in lru.index
    BY <1>2 DEF L!get
  <2>2. CASE erasing_expired /\ L!Expired(k)
    BY <1>2, <1>e, <2>1, <2>2 DEF L!get
  <2>3. CASE ~(erasing_expired /\ L!Expired(k))
    <3>1. lru'.nodelist = L!Splice(L!Place(k), list[L!Place(k)])
      BY <1>t, <1>2, <2>3 DEF L!get
    <3> QED
      BY <1>s, <1>t, <2>1, <3>1
  <2> QED
    BY <2>2, <2>3
<1>3. ASSUME NEW k \in Keys, L!Erase(k)
      PROVE  FALSE
  BY <1>3, <1>e DEF L!Erase
<1>4. ~L!clear
  <2> SUFFICES ASSUME L!clear PROVE FALSE
    OBVIOUS
  <2>1. lru'.nodelist = <<>> /\ Len(<<>>) = 0
    BY <1>t DEF L!clear
  <2> QED
    BY <1>t, <2>1
<1>5. \A n \in Capacities : ~L!SetCapacity(n)
  <2> SUFFICES ASSUME NEW n \in Capacities, L!SetCapacity(n) PROVE FALSE
    OBVIOUS
  <2>1. Len(<<>>) = 0 /\ (lru'.nodelist = <<>> \/ lru'.nodelist = list)
    BY <1>t DEF L!SetCapacity
  <2> QED
    BY <1>t, <2>1
<1>6. ~L!Tick
  BY <1>t DEF L!Tick
<1>7. ~UNCHANGED L!lruVars
  BY <1>t DEF L!lruVars
<1> QED
  BY <1>1, <1>2, <1>3, <1>4, <1>5, <1>6, <1>7 DEF L!Next

-----------------------------------------------------------------------------
(* LruCache                                                                *)

(* The list of the cache has at its front what it would have at its end.   *)
Back(list) == [i \in 1 .. Len(list) |-> list[Len(list) - i + 1]]

(* The types of the cache.                                                 *)
CacheTyped ==
  /\ cache \in [m_map : {cache.m_map}, m_list : Seq(Keys), m_capacity : CacheCapacities \ {0}]
  /\ cache.m_map \in [DOMAIN cache.m_map -> Values]
  /\ DOMAIN cache.m_map \subseteq Keys

(* The list has the keys used last, the latest at the front, and the map   *)
(* the values of just these.                                               *)
CacheIInv ==
  /\ CacheTyped
  /\ EndsWith(Back(cache.m_list), cacheUsed)
  /\ DOMAIN cache.m_map = {cache.m_list[i] : i \in 1 .. Len(cache.m_list)}
  /\ Len(cache.m_list) <= cache.m_capacity

(* A list from back to front.                                              *)
LEMMA BackOf ==
  ASSUME NEW list \in Seq(Keys)
  PROVE  /\ Back(list) \in Seq(Keys) /\ Len(Back(list)) = Len(list) /\ Len(list) \in Nat
         /\ \A i \in 1 .. Len(list) : /\ Back(list)[i] = list[Len(list) - i + 1]
                                      /\ Len(list) - i + 1 \in 1 .. Len(list)
                                      /\ list[i] = Back(list)[Len(list) - i + 1]
<1>1. Len(list) \in Nat /\ \A i \in 1 .. Len(list) : list[i] \in Keys
  BY LenProperties, ElementOfSeq
<1>2. \A i \in 1 .. Len(list) :
        Len(list) - i + 1 \in 1 .. Len(list) /\ Len(list) - (Len(list) - i + 1) + 1 = i
  BY <1>1
<1>3. Back(list) \in Seq(Keys) /\ Len(Back(list)) = Len(list)
  <2>1. Back(list) \in [1 .. Len(list) -> Keys]
    BY <1>1, <1>2 DEF Back
  <2> QED
    BY <1>1, <2>1
<1>4. \A i \in 1 .. Len(list) : Back(list)[i] = list[Len(list) - i + 1]
  BY DEF Back
<1> QED
  BY <1>1, <1>2, <1>3, <1>4

(* A key that is pushed at the front is the last from back to front.       *)
LEMMA PushFront ==
  ASSUME NEW list \in Seq(Keys), NEW k \in Keys
  PROVE  /\ <<k>> \o list \in Seq(Keys) /\ Len(<<k>> \o list) = Len(list) + 1
         /\ (<<k>> \o list)[1] = k /\ \A i \in 1 .. Len(list) : (<<k>> \o list)[i + 1] = list[i]
         /\ Back(<<k>> \o list) = Append(Back(list), k)
<1> DEFINE l == <<k>> \o list
           n == Len(list)
           b == Back(list)
           t == Append(b, k)
<1>1. n \in Nat /\ <<k>> \in Seq(Keys) /\ Len(<<k>>) = 1 /\ <<k>>[1] = k
  BY LenProperties
<1>2. /\ l \in Seq(Keys) /\ Len(l) = n + 1 /\ l[1] = k
      /\ \A i \in 1 .. n : l[i + 1] = list[i]
  <2>1. /\ l \in Seq(Keys) /\ Len(l) = 1 + n
        /\ \A i \in 1 .. 1 + n : l[i] = IF i <= 1 THEN <<k>>[i] ELSE list[i - 1]
    <3>1. /\ l \in Seq(Keys) /\ Len(l) = Len(<<k>>) + Len(list)
          /\ \A i \in 1 .. Len(<<k>>) + Len(list) :
               l[i] = IF i <= Len(<<k>>) THEN <<k>>[i] ELSE list[i - Len(<<k>>)]
      BY <1>1, ConcatProperties
    <3> QED
      BY <1>1, <3>1
  <2> HIDE DEF l
  <2>2. l[1] = k
    BY <1>1, <2>1
  <2>3. \A i \in 1 .. n : l[i + 1] = list[i]
    <3> TAKE i \in 1 .. n
    <3>1. i + 1 \in 1 .. 1 + n /\ ~(i + 1 <= 1) /\ i + 1 - 1 = i
      BY <1>1
    <3> QED
      BY <2>1, <3>1
  <2> QED
    BY <1>1, <2>1, <2>2, <2>3
<1> HIDE DEF l
<1>3. b \in Seq(Keys) /\ Len(b) = n /\ \A i \in 1 .. n : b[i] = list[n - i + 1]
  BY BackOf
<1> HIDE DEF b
<1>4. t \in Seq(Keys) /\ Len(t) = n + 1 /\ t[n + 1] = k /\ \A i \in 1 .. n : t[i] = b[i]
  BY <1>1, <1>3, AppendProperties
<1>5. Back(l) \in Seq(Keys) /\ Len(Back(l)) = n + 1
      /\ \A i \in 1 .. n + 1 : Back(l)[i] = l[n + 1 - i + 1]
  BY <1>2, BackOf
<1> HIDE DEF t
<1>6. \A i \in 1 .. n + 1 : Back(l)[i] = t[i]
  <2> TAKE i \in 1 .. n + 1
  <2>1. CASE i = n + 1
    <3>1. n + 1 - i + 1 = 1
      BY <1>1, <2>1
    <3> QED
      BY <1>2, <1>4, <1>5, <2>1, <3>1
  <2>2. CASE i \in 1 .. n
    <3>1. n + 1 - i + 1 = (n - i + 1) + 1 /\ n - i + 1 \in 1 .. n
      BY <1>1, <2>2
    <3>2. Back(l)[i] = l[(n - i + 1) + 1]
      BY <1>5, <3>1
    <3>3. l[(n - i + 1) + 1] = list[n - i + 1]
      BY <1>2, <3>1
    <3> QED
      BY <1>3, <1>4, <2>2, <3>2, <3>3
  <2> QED
    BY <1>1, <2>1, <2>2
<1>7. Back(l) = t
  BY <1>4, <1>5, <1>6, SameList
<1> QED
  BY <1>2, <1>7 DEF l, t, b

(* A list without its i-th member from back to front.                      *)
LEMMA BackOfCut ==
  ASSUME NEW list \in Seq(Keys), NEW i \in 1 .. Len(list)
  PROVE  Back(Cut(list, i)) = Cut(Back(list), Len(list) - i + 1)
<1> DEFINE n == Len(list)
           at == n - i + 1
           b == Back(list)
           l == Cut(list, i)
           s == Back(l)
           t == Cut(b, at)
<1>1. n \in Nat /\ at \in 1 .. n
  BY LenProperties
<1>2. b \in Seq(Keys) /\ Len(b) = n /\ \A j \in 1 .. n : b[j] = list[n - j + 1]
  BY BackOf
<1>3. l \in Seq(Keys) /\ Len(l) = n - 1
      /\ \A j \in 1 .. n - 1 : l[j] = IF j < i THEN list[j] ELSE list[j + 1]
  BY CutAt
<1> HIDE DEF l
<1>4. s \in Seq(Keys) /\ Len(s) = n - 1 /\ \A j \in 1 .. n - 1 : s[j] = l[n - 1 - j + 1]
  BY <1>3, BackOf
<1> HIDE DEF b
<1>5. t \in Seq(Keys) /\ Len(t) = n - 1
      /\ \A j \in 1 .. n - 1 : t[j] = IF j < at THEN b[j] ELSE b[j + 1]
  <2> HIDE DEF at
  <2>1. at \in 1 .. Len(b)
    BY <1>1, <1>2
  <2>2. /\ Cut(b, at) \in Seq(Keys) /\ Len(Cut(b, at)) = Len(b) - 1
        /\ \A j \in 1 .. Len(b) - 1 : Cut(b, at)[j] = IF j < at THEN b[j] ELSE b[j + 1]
    BY <1>2, <2>1, CutAt
  <2> QED
    BY <1>2, <2>2
<1> HIDE DEF s, t
<1>6. \A j \in 1 .. n - 1 : s[j] = t[j]
  <2> TAKE j \in 1 .. n - 1
  <2>1. n - 1 - j + 1 \in 1 .. n - 1 /\ n - 1 - j + 1 = n - j
    BY <1>1
  <2>2. CASE j < at
    <3>1. ~(n - j < i) /\ j \in 1 .. n /\ n - j + 1 = n - j + 1
      BY <1>1, <2>2
    <3>2. s[j] = list[n - j + 1]
      BY <1>3, <1>4, <2>1, <3>1
    <3> QED
      BY <1>2, <1>5, <2>2, <3>1, <3>2
  <2>3. CASE ~(j < at)
    <3>1. n - j < i /\ j + 1 \in 1 .. n /\ n - (j + 1) + 1 = n - j
      BY <1>1, <2>3
    <3>2. s[j] = list[n - j]
      BY <1>3, <1>4, <2>1, <3>1
    <3>3. t[j] = b[j + 1] /\ b[j + 1] = list[n - j]
      BY <1>2, <1>5, <2>3, <3>1
    <3> QED
      BY <3>2, <3>3
  <2> QED
    BY <2>2, <2>3
<1>7. s = t
  BY <1>4, <1>5, <1>6, SameList
<1> QED
  BY <1>7 DEF s, t, l, b

(* The key that is used comes to the front of the list, from where it was  *)
(* or from outside.                                                        *)
LEMMA UseKeeps ==
  ASSUME CacheIInv, NEW list, NEW used, NEW k \in Keys, NEW map,
         list \in Seq(Keys), EndsWith(Back(list), used),
         \A i \in 1 .. Len(used) : used[i] # k,
         map \in [{list[i] : i \in 1 .. Len(list)} \union {k} -> Values],
         Len(list) < cache.m_capacity,
         cache' = [m_map |-> map, m_list |-> <<k>> \o list, m_capacity |-> cache.m_capacity],
         cacheUsed' = Append(used, k)
  PROVE  CacheIInv'
<1> DEFINE l == <<k>> \o list
<1>1. /\ l \in Seq(Keys) /\ Len(l) = Len(list) + 1 /\ l[1] = k /\ Len(list) \in Nat
      /\ \A i \in 1 .. Len(list) : l[i + 1] = list[i]
      /\ Back(l) = Append(Back(list), k)
  BY PushFront, LenProperties
<1>2. EndsWith(Back(l), Append(used, k))
  BY <1>1, EndsAppend
<1> HIDE DEF l
<1>3. {l[i] : i \in 1 .. Len(l)} = {list[i] : i \in 1 .. Len(list)} \union {k}
  <2>1. ASSUME NEW i \in 1 .. Len(l)
        PROVE  l[i] \in {list[j] : j \in 1 .. Len(list)} \union {k}
    <3>1. CASE i = 1
      BY <1>1, <3>1
    <3>2. CASE i # 1
      <4>1. i - 1 \in 1 .. Len(list) /\ i - 1 + 1 = i
        BY <1>1, <3>2
      <4>2. l[i - 1 + 1] = list[i - 1]
        BY <1>1, <4>1
      <4> QED
        BY <4>1, <4>2
    <3> QED
      BY <3>1, <3>2
  <2>2. \A i \in 1 .. Len(list) : i + 1 \in 1 .. Len(l) /\ l[i + 1] = list[i]
    BY <1>1
  <2>3. 1 \in 1 .. Len(l) /\ l[1] = k
    BY <1>1
  <2> QED
    BY <2>1, <2>2, <2>3
<1>4. /\ cache.m_capacity \in CacheCapacities \ {0} /\ cache.m_capacity \in Nat
  BY ToolboxAssumption DEF CacheIInv, CacheTyped
<1>5. /\ cache'.m_map = map /\ cache'.m_list = l /\ cache'.m_capacity = cache.m_capacity
      /\ cache' = [m_map |-> map, m_list |-> l, m_capacity |-> cache.m_capacity]
  BY DEF l
<1>6. DOMAIN map = {l[i] : i \in 1 .. Len(l)} /\ map \in [DOMAIN map -> Values]
  BY <1>3
<1>7. \A i \in 1 .. Len(l) : l[i] \in Keys
  BY <1>1, ElementOfSeq
<1>8. CacheTyped'
  <2>1. DOMAIN map \subseteq Keys
    BY <1>6, <1>7
  <2> QED
    BY <1>1, <1>4, <1>5, <1>6, <2>1 DEF CacheTyped
<1>9. Len(l) <= cache.m_capacity
  BY <1>1, <1>4
<1>10. EndsWith(Back(cache'.m_list), cacheUsed')
  BY <1>2, <1>5
<1>11. DOMAIN cache'.m_map = {cache'.m_list[i] : i \in 1 .. Len(cache'.m_list)}
  BY <1>5, <1>6
<1>12. Len(cache'.m_list) <= cache'.m_capacity
  BY <1>5, <1>9
<1> QED
  BY <1>8, <1>10, <1>11, <1>12 DEF CacheIInv, EndsWith, Back

(* What the steps of the cache take from its invariant.                    *)
LEMMA CacheFacts ==
  ASSUME CacheIInv
  PROVE  /\ cache = [m_map |-> cache.m_map, m_list |-> cache.m_list, m_capacity |-> cache.m_capacity]
         /\ cache.m_list \in Seq(Keys) /\ Len(cache.m_list) \in Nat
         /\ \A i \in 1 .. Len(cache.m_list) : cache.m_list[i] \in Keys
         /\ cache.m_map \in [DOMAIN cache.m_map -> Values]
         /\ DOMAIN cache.m_map = {cache.m_list[i] : i \in 1 .. Len(cache.m_list)}
         /\ cache.m_capacity \in Nat \ {0} /\ Len(cache.m_list) <= cache.m_capacity
         /\ Distinct(cache.m_list)
<1> DEFINE list == cache.m_list
           n == Len(list)
           b == Back(list)
<1>1. /\ cache = [m_map |-> cache.m_map, m_list |-> list, m_capacity |-> cache.m_capacity]
      /\ list \in Seq(Keys) /\ n \in Nat
      /\ cache.m_map \in [DOMAIN cache.m_map -> Values]
      /\ DOMAIN cache.m_map = {list[i] : i \in 1 .. n}
      /\ cache.m_capacity \in Nat \ {0} /\ n <= cache.m_capacity
  BY ToolboxAssumption, LenProperties DEF CacheIInv, CacheTyped
<1>2. \A i \in 1 .. n : list[i] \in Keys
  BY <1>1, ElementOfSeq
<1>3. Distinct(b) /\ Len(b) = n
  BY <1>1, BackOf, EndsDistinct DEF CacheIInv
<1>4. \A i \in 1 .. n : n - i + 1 \in 1 .. n /\ list[i] = b[n - i + 1]
  BY <1>1, BackOf
<1>5. ASSUME NEW i \in 1 .. n, NEW j \in 1 .. n, list[i] = list[j]
      PROVE  i = j
  <2>1. n - i + 1 = n - j + 1
    <3> HIDE DEF b
    <3> QED
      BY <1>3, <1>4, <1>5 DEF Distinct
  <2> QED
    BY <1>1, <2>1
<1> QED
  BY <1>1, <1>2, <1>5 DEF Distinct

(* What insert makes room with: the last of the list goes.                 *)
LEMMA Evicts ==
  ASSUME CacheIInv, Len(cache.m_list) >= cache.m_capacity
  PROVE  \E list, map :
           /\ C!evict(cache) = [m_map |-> map, m_list |-> list, m_capacity |-> cache.m_capacity]
           /\ list \in Seq(Keys) /\ Len(list) < cache.m_capacity
           /\ EndsWith(Back(list), cacheUsed)
           /\ map \in [{list[i] : i \in 1 .. Len(list)} -> Values]
           /\ {list[i] : i \in 1 .. Len(list)} \subseteq DOMAIN cache.m_map
<1> DEFINE old == cache.m_list
           n == Len(old)
           list == SubSeq(old, 1, n - 1)
           map == C!Without(cache.m_map, old[n])
           b == Back(old)
<1>1. /\ cache = [m_map |-> cache.m_map, m_list |-> old, m_capacity |-> cache.m_capacity]
      /\ old \in Seq(Keys) /\ n \in Nat /\ n >= 1 /\ n <= cache.m_capacity
      /\ cache.m_capacity \in Nat
      /\ \A i \in 1 .. n : old[i] \in Keys
      /\ cache.m_map \in [DOMAIN cache.m_map -> Values]
      /\ DOMAIN cache.m_map = {old[i] : i \in 1 .. n}
      /\ Distinct(old)
  <2>1. /\ cache.m_capacity \in Nat \ {0} /\ n \in Nat
    BY CacheFacts
  <2>2. n >= 1
    BY <2>1
  <2> QED
    BY <2>2, CacheFacts
<1>2. C!evict(cache) = [m_map |-> map, m_list |-> list, m_capacity |-> cache.m_capacity]
  <2>1. C!evict(cache) = [cache EXCEPT !.m_map = map, !.m_list = list]
    BY DEF C!evict, C!Last, C!Front
  <2> HIDE DEF map, list
  <2> QED
    BY <1>1, <2>1
<1>3. list \in Seq(Keys) /\ Len(list) = n - 1 /\ \A i \in 1 .. n - 1 : list[i] = old[i]
  <2>1. \A i \in 1 .. n - 1 : old[i] \in Keys
    BY <1>1
  <2>n. n \in Nat /\ n >= 1
    BY <1>1
  <2>t. 1 \in Int /\ n - 1 \in Int /\ n - 1 - 1 + 1 = n - 1 /\ (1 <= n - 1 \/ n - 1 = 0)
    <3> HIDE DEF n
    <3> QED
      BY <2>n
  <2>2. list \in Seq(Keys) /\ Len(list) = n - 1
    <3> DEFINE m == n - 1
    <3>1. /\ SubSeq(old, 1, m) \in Seq(Keys)
          /\ Len(SubSeq(old, 1, m)) = IF 1 <= m THEN m - 1 + 1 ELSE 0
      <4>1. m \in Int /\ \A i \in 1 .. m : old[i] \in Keys
        BY <2>1, <2>t
      <4> HIDE DEF m
      <4> QED
        BY <4>1, SubSeqProperties
    <3>2. (IF 1 <= m THEN m - 1 + 1 ELSE 0) = n - 1
      <4> HIDE DEF n
      <4> QED
        BY <2>t
    <3> QED
      BY <3>1, <3>2
  <2>3. \A i \in 1 .. n - 1 : list[i] = old[i]
    BY <1>1
  <2> QED
    BY <2>2, <2>3
<1> HIDE DEF list
<1>4. b \in Seq(Keys) /\ Len(b) = n /\ \A i \in 1 .. n : b[i] = old[n - i + 1]
  BY <1>1, BackOf
<1>5. Back(list) \in Seq(Keys) /\ Len(Back(list)) = n - 1
      /\ \A i \in 1 .. n - 1 : Back(list)[i] = list[n - 1 - i + 1]
  BY <1>3, BackOf
<1> DEFINE s == SubSeq(b, 1 + 1, Len(b))
<1>e. EndsWith(b, cacheUsed)
  BY DEF CacheIInv
<1> HIDE DEF b
<1>6. s \in Seq(Keys) /\ Len(s) = n - 1 /\ \A i \in 1 .. n - 1 : s[i] = b[i + 1]
  <2>1. \A i \in 2 .. n : b[i] \in Keys
    BY <1>1, <1>4, ElementOfSeq
  <2>2. s = SubSeq(b, 2, n)
    BY <1>4
  <2>n. n \in Nat /\ n >= 1
    BY <1>1
  <2>t. 2 \in Int /\ n \in Int /\ n - 2 + 1 = n - 1 /\ (2 <= n \/ n - 1 = 0)
    <3> HIDE DEF n
    <3> QED
      BY <2>n
  <2>3. s \in Seq(Keys) /\ Len(s) = n - 1
    BY <2>1, <2>2, <2>t, SubSeqProperties
  <2>4. \A i \in 1 .. n - 1 : s[i] = b[i + 1]
    BY <1>1, <2>2
  <2> QED
    BY <2>3, <2>4
<1>7. EndsWith(s, cacheUsed)
  BY <1>e, EndsDrop
<1> HIDE DEF s
<1>8. Back(list) = s
  <2>1. \A i \in 1 .. n - 1 : Back(list)[i] = s[i]
    <3> TAKE i \in 1 .. n - 1
    <3>1. n - 1 - i + 1 \in 1 .. n - 1 /\ i + 1 \in 1 .. n /\ n - (i + 1) + 1 = n - 1 - i + 1
      BY <1>1
    <3>2. Back(list)[i] = old[n - 1 - i + 1]
      BY <1>3, <1>5, <3>1
    <3>3. s[i] = old[n - 1 - i + 1]
      BY <1>4, <1>6, <3>1
    <3> QED
      BY <3>2, <3>3
  <2> QED
    BY <1>5, <1>6, <2>1, SameList
<1>9. {list[i] : i \in 1 .. Len(list)} = {old[i] : i \in 1 .. n} \ {old[n]}
  <2>1. ASSUME NEW i \in 1 .. n, old[i] # old[n]
        PROVE  old[i] \in {list[j] : j \in 1 .. Len(list)}
    <3>1. i \in 1 .. n - 1
      BY <1>1, <2>1
    <3> QED
      BY <1>3, <3>1
  <2>2. ASSUME NEW i \in 1 .. Len(list)
        PROVE  list[i] \in {old[j] : j \in 1 .. n} /\ list[i] # old[n]
    <3>1. i \in 1 .. n /\ i # n /\ n \in 1 .. n /\ list[i] = old[i]
      BY <1>1, <1>3
    <3> QED
      BY <1>1, <3>1 DEF Distinct
  <2> QED
    BY <2>1, <2>2
<1>10. map \in [{list[i] : i \in 1 .. Len(list)} -> Values]
  <2> DEFINE left == {list[i] : i \in 1 .. Len(list)}
  <2>1. left = DOMAIN cache.m_map \ {old[n]}
    BY <1>1, <1>9
  <2> HIDE DEF left
  <2> QED
    BY <1>1, <2>1 DEF C!Without, left
<1>11. Len(list) < cache.m_capacity
  BY <1>1, <1>3
<1>12. {list[i] : i \in 1 .. Len(list)} \subseteq DOMAIN cache.m_map
  BY <1>1, <1>9
<1>13. EndsWith(Back(list), cacheUsed)
  BY <1>7, <1>8
<1> HIDE DEF map
<1> QED
  BY <1>2, <1>3, <1>10, <1>11, <1>12, <1>13

(* A step that changes nothing keeps it.                                   *)
LEMMA CacheStays ==
  ASSUME CacheIInv, cache' = cache, cacheUsed' = cacheUsed
  PROVE  CacheIInv'
<1>1. CacheTyped'
  BY DEF CacheIInv, CacheTyped
<1>2. EndsWith(Back(cache'.m_list), cacheUsed')
  BY DEF CacheIInv
<1>3. /\ DOMAIN cache'.m_map = {cache'.m_list[i] : i \in 1 .. Len(cache'.m_list)}
      /\ Len(cache'.m_list) <= cache'.m_capacity
  BY DEF CacheIInv
<1> QED
  BY <1>1, <1>2, <1>3 DEF CacheIInv, EndsWith, Back

(* Inserts and reads of lru_cache keep it (lrucache.h:40-97).              *)
LEMMA CacheKeeps == CacheIInv /\ [C!Next]_C!cacheVars => CacheIInv'
<1> SUFFICES ASSUME CacheIInv, [C!Next]_C!cacheVars PROVE CacheIInv'
  OBVIOUS
<1> DEFINE list == cache.m_list
           map == cache.m_map
<1>t. /\ cache = [m_map |-> map, m_list |-> list, m_capacity |-> cache.m_capacity]
      /\ list \in Seq(Keys) /\ Len(list) \in Nat
      /\ \A i \in 1 .. Len(list) : list[i] \in Keys
      /\ map \in [DOMAIN map -> Values]
      /\ DOMAIN map = {list[i] : i \in 1 .. Len(list)}
      /\ cache.m_capacity \in Nat \ {0} /\ Len(list) <= cache.m_capacity
      /\ Distinct(list) /\ EndsWith(Back(list), cacheUsed)
  BY CacheFacts DEF CacheIInv
<1>1. ASSUME NEW k \in Keys, NEW v \in Values, C!insert(k, v)
      PROVE  CacheIInv'
  <2>1. CASE C!Holds(k)
    <3>1. cache' = cache /\ cacheUsed' = cacheUsed
      BY <1>1, <2>1 DEF C!insert, C!cacheVars
    <3> QED
      BY <3>1, CacheStays
  <2>2. CASE ~C!Holds(k)
    <3> DEFINE room == IF Len(list) >= cache.m_capacity THEN C!evict(cache) ELSE cache
               used == C!RemoveFirst(cacheUsed, k)
    <3>1. /\ cache' = [room EXCEPT !.m_map = C!With(@, k, v), !.m_list = <<k>> \o @]
          /\ cacheUsed' = Append(used, k)
      BY <1>1, <2>2 DEF C!insert, C!Use
    <3>2. PICK rest, kept :
            /\ room = [m_map |-> kept, m_list |-> rest, m_capacity |-> cache.m_capacity]
            /\ rest \in Seq(Keys) /\ Len(rest) < cache.m_capacity
            /\ EndsWith(Back(rest), cacheUsed)
            /\ kept \in [{rest[i] : i \in 1 .. Len(rest)} -> Values]
            /\ {rest[i] : i \in 1 .. Len(rest)} \subseteq DOMAIN map
      <4>1. CASE Len(list) >= cache.m_capacity
        BY <4>1, Evicts
      <4>2. CASE ~(Len(list) >= cache.m_capacity)
        <5>1. /\ room = [m_map |-> map, m_list |-> list, m_capacity |-> cache.m_capacity]
              /\ list \in Seq(Keys) /\ Len(list) < cache.m_capacity
              /\ EndsWith(Back(list), cacheUsed)
          BY <1>t, <4>2
        <5>2. /\ map \in [{list[i] : i \in 1 .. Len(list)} -> Values]
              /\ {list[i] : i \in 1 .. Len(list)} \subseteq DOMAIN map
          BY <1>t
        <5> HIDE DEF room
        <5> QED
          BY <5>1, <5>2
      <4> QED
        BY <4>1, <4>2
    <3> HIDE DEF room
    <3>3. /\ \A i \in 1 .. Len(rest) : rest[i] # k
      BY <2>2, <3>2 DEF C!Holds
    <3>4. EndsWith(Back(rest), used)
      <4>1. \A i \in 1 .. Len(Back(rest)) : Back(rest)[i] # k
        BY <3>2, <3>3, BackOf
      <4> QED
        BY <3>2, <4>1, EndsSkip
    <3>5. \A i \in 1 .. Len(used) : used[i] # k
      BY <3>2, KeyGone
    <3>6. cache' = [m_map |-> C!With(kept, k, v), m_list |-> <<k>> \o rest,
                    m_capacity |-> cache.m_capacity]
      BY <3>1, <3>2
    <3>7. C!With(kept, k, v) \in [{rest[i] : i \in 1 .. Len(rest)} \union {k} -> Values]
      BY <3>2 DEF C!With
    <3> HIDE DEF used
    <3> QED
      BY <3>1, <3>2, <3>4, <3>5, <3>6, <3>7, UseKeeps
  <2> QED
    BY <2>1, <2>2
<1>2. ASSUME NEW k \in Keys, C!get(k)
      PROVE  CacheIInv'
  <2> DEFINE used == C!RemoveFirst(cacheUsed, k)
             b == Back(list)
  <2>1. PICK i \in 1 .. Len(list) : list[i] = k
    BY <1>t, <1>2 DEF C!get, C!Holds
  <2> DEFINE rest == Cut(list, i)
  <2>2. C!RemoveFirst(list, k) = rest
    BY <1>t, <2>1, LessKey
  <2>3. /\ rest \in Seq(Keys) /\ Len(rest) = Len(list) - 1
        /\ Back(rest) = Cut(b, Len(list) - i + 1)
    BY <1>t, CutAt, BackOfCut
  <2>4. b[Len(list) - i + 1] = k /\ Len(list) - i + 1 \in 1 .. Len(b)
    BY <1>t, <2>1, BackOf
  <2>5. EndsWith(Back(rest), used)
    <3> DEFINE at == Len(list) - i + 1
    <3>1. at \in 1 .. Len(b) /\ b[at] = k /\ EndsWith(b, cacheUsed)
      BY <1>t, <2>4
    <3> HIDE DEF at, b
    <3>2. EndsWith(Cut(b, at), used)
      BY <3>1, EndsCut
    <3> QED
      BY <2>3, <3>2 DEF at
  <2>6. \A j \in 1 .. Len(used) : used[j] # k
    BY <1>t, KeyGone
  <2>7. {rest[j] : j \in 1 .. Len(rest)} \union {k} = DOMAIN map
    <3>1. /\ \A j \in 1 .. Len(rest) : \E l \in 1 .. Len(list) : l # i /\ rest[j] = list[l]
          /\ \A l \in 1 .. Len(list) : l # i => \E j \in 1 .. Len(rest) : rest[j] = list[l]
      BY <1>t, CutMembers
    <3> HIDE DEF rest
    <3>2. ASSUME NEW j \in 1 .. Len(rest) PROVE rest[j] \in DOMAIN map
      BY <1>t, <3>1
    <3>3. ASSUME NEW l \in 1 .. Len(list)
          PROVE  list[l] \in {rest[j] : j \in 1 .. Len(rest)} \union {k}
      BY <2>1, <3>1
    <3> QED
      BY <1>t, <2>1, <3>2, <3>3
  <2>8. cache' = [m_map |-> map, m_list |-> <<k>> \o rest, m_capacity |-> cache.m_capacity]
    <3>1. cache' = [cache EXCEPT !.m_list = <<k>> \o rest]
      BY <1>2, <2>2 DEF C!get
    <3> HIDE DEF rest
    <3> QED
      BY <1>t, <3>1
  <2>9. Len(rest) < cache.m_capacity
    BY <1>t, <2>3
  <2>10. cacheUsed' = Append(used, k)
    BY <1>2 DEF C!get, C!Use
  <2> HIDE DEF rest, used
  <2>11. map \in [{rest[j] : j \in 1 .. Len(rest)} \union {k} -> Values]
    BY <1>t, <2>7
  <2> HIDE DEF map
  <2> QED
    BY <2>3, <2>5, <2>6, <2>8, <2>9, <2>10, <2>11, UseKeeps
<1>3. CASE C!clear
  <2>1. /\ cache' = [m_map |-> <<>>, m_list |-> <<>>, m_capacity |-> cache.m_capacity]
        /\ cacheUsed' = <<>>
    BY <1>t, <1>3 DEF C!clear
  <2>2. Back(<<>>) = <<>> /\ <<>> \in Seq(Keys) /\ Len(<<>>) = 0 /\ 1 .. 0 = {}
    BY DEF Back
  <2>3. EndsWith(<<>>, <<>>)
    BY <2>2 DEF EndsWith, Distinct
  <2>4. DOMAIN <<>> = {} /\ <<>> \in [{} -> Values]
    OBVIOUS
  <2>5. cache.m_capacity \in CacheCapacities \ {0}
    BY DEF CacheIInv, CacheTyped
  <2>6. cache'.m_map = <<>> /\ cache'.m_list = <<>> /\ cache'.m_capacity = cache.m_capacity
    BY <2>1
  <2>7. CacheTyped'
    BY <2>1, <2>2, <2>4, <2>5, <2>6 DEF CacheTyped
  <2>8. EndsWith(Back(cache'.m_list), cacheUsed')
    BY <2>1, <2>2, <2>3, <2>6
  <2>9. /\ DOMAIN cache'.m_map = {cache'.m_list[i] : i \in 1 .. Len(cache'.m_list)}
        /\ Len(cache'.m_list) <= cache'.m_capacity
    BY <1>t, <2>2, <2>4, <2>6
  <2> QED
    BY <2>7, <2>8, <2>9 DEF CacheIInv, EndsWith, Back
<1>4. CASE UNCHANGED C!cacheVars
  <2>1. cache' = cache /\ cacheUsed' = cacheUsed
    BY <1>4 DEF C!cacheVars
  <2> QED
    BY <2>1, CacheStays
<1> QED
  BY <1>1, <1>2, <1>3, <1>4 DEF C!Next

(* The cache begins empty.                                                 *)
LEMMA CacheStarts == C!Init => CacheIInv
<1> SUFFICES ASSUME C!Init PROVE CacheIInv
  OBVIOUS
<1>1. PICK n \in CacheCapacities \ {0} :
        cache = [m_map |-> <<>>, m_list |-> <<>>, m_capacity |-> n]
  BY DEF C!Init
<1>2. Back(<<>>) = <<>> /\ <<>> \in Seq(Keys) /\ Len(<<>>) = 0 /\ 1 .. 0 = {}
  BY DEF Back
<1>3. EndsWith(<<>>, <<>>)
  BY <1>2 DEF EndsWith, Distinct
<1>4. DOMAIN <<>> = {} /\ <<>> \in [{} -> Values]
  OBVIOUS
<1>5. cache.m_map = <<>> /\ cache.m_list = <<>> /\ cache.m_capacity = n /\ n \in Nat
      /\ cacheUsed = <<>>
  BY <1>1, ToolboxAssumption DEF C!Init
<1>6. CacheTyped
  BY <1>1, <1>2, <1>4, <1>5 DEF CacheTyped
<1> QED
  BY <1>2, <1>3, <1>4, <1>5, <1>6 DEF CacheIInv

(* What the invariant says of the cache.                                   *)
LEMMA CacheHolds == CacheIInv => C!TypeOK /\ C!Recency
<1> SUFFICES ASSUME CacheIInv PROVE C!TypeOK /\ C!Recency
  OBVIOUS
<1> DEFINE list == cache.m_list
<1>1. /\ list \in Seq(Keys) /\ DOMAIN list = 1 .. Len(list)
      /\ DOMAIN cache.m_map = {list[i] : i \in 1 .. Len(list)}
      /\ Len(list) <= cache.m_capacity
      /\ cache.m_capacity \in CacheCapacities
      /\ cache.m_map \in [DOMAIN cache.m_map -> Values] /\ DOMAIN cache.m_map \in SUBSET Keys
      /\ EndsWith(Back(list), cacheUsed) /\ cacheUsed \in Seq(Keys)
  BY DEF CacheIInv, CacheTyped, EndsWith
<1>2. C!TypeOK
  BY <1>1 DEF C!TypeOK
<1>3. C!IsSuffix(C!Reverse(list), cacheUsed)
  <2>1. C!Reverse(list) = Back(list)
    BY DEF C!Reverse, Back
  <2> QED
    BY <1>1, <2>1, EndsSuffix
<1>4. DOMAIN cache.m_map = C!ToSet(list)
  BY <1>1 DEF C!ToSet
<1> QED
  BY <1>1, <1>2, <1>3, <1>4 DEF C!Recency

-----------------------------------------------------------------------------
(* FreeRing                                                                *)

(* The positions of the ring from its start to its end, which may lie      *)
(* before it.                                                              *)
FromTo(start, end) ==
  {p \in R!Slots : IF start <= end THEN start <= p /\ p <= end
                                   ELSE start <= p \/ p <= end}

(* The positions of the ring that hold a free slot.                        *)
Positions == FromTo(ring.start, ring.end)

(* The position after p (object_pool.cpp:82-95).                           *)
Around(p) == IF p = PoolSize - 1 THEN 0 ELSE p + 1

(* The free slots of the ring are distinct and not handed out, and every   *)
(* slot is free or handed out.                                             *)
RingIInv ==
  /\ R!TypeOK
  /\ ring.allocate_counter <= ring.object_counter
  /\ \A p, q \in Positions : ring.buffer[p] = ring.buffer[q] => p = q
  /\ \A p \in Positions : ring.buffer[p] \notin ringOut
  /\ \A x \in R!Slots : x \in ringOut \/ \E p \in Positions : ring.buffer[p] = x

(* A step round the ring.                                                  *)
LEMMA Round ==
  ASSUME NEW p \in R!Slots
  PROVE  (p + 1) % PoolSize = Around(p)
<1>1. PoolSize \in Nat /\ PoolSize > 1 /\ p \in Nat /\ p < PoolSize
  BY ToolboxAssumption DEF R!Slots
<1>2. CASE p = PoolSize - 1
  BY <1>1, <1>2 DEF Around
<1>3. CASE p # PoolSize - 1
  BY <1>1, <1>3 DEF Around
<1> QED
  BY <1>2, <1>3

(* The index at a distance below twice the size.                           *)
LEMMA RoundTwice ==
  ASSUME NEW n \in Nat, n < PoolSize + PoolSize
  PROVE  n % PoolSize = IF n < PoolSize THEN n ELSE n - PoolSize
<1>1. PoolSize \in Nat /\ PoolSize > 1
  BY ToolboxAssumption
<1>2. CASE n < PoolSize
  BY <1>1, <1>2
<1>3. CASE n >= PoolSize
  BY <1>1, <1>3
<1> QED
  BY <1>1, <1>2, <1>3

(* The positions when the start or the end moves on.                       *)
LEMMA StartMoves ==
  ASSUME NEW start \in R!Slots, NEW end \in R!Slots, start # end
  PROVE  /\ FromTo(Around(start), end) = FromTo(start, end) \ {start}
         /\ start \in FromTo(start, end)
BY ToolboxAssumption DEF FromTo, Around, R!Slots

(* The positions when the end moves on: all of them when it meets the      *)
(* start.                                                                  *)
LEMMA EndMoves ==
  ASSUME NEW start \in R!Slots, NEW end \in R!Slots
  PROVE  IF Around(end) = start
           THEN FromTo(start, end) = R!Slots
           ELSE /\ FromTo(start, Around(end)) = FromTo(start, end) \union {Around(end)}
                /\ Around(end) \notin FromTo(start, end)
BY ToolboxAssumption DEF FromTo, Around, R!Slots

(* The slots that the positions hold are as many as the positions: with    *)
(* all of them, no object has one.                                         *)
LEMMA FullRing ==
  ASSUME RingIInv, Positions = R!Slots
  PROVE  ringOut = {}
<1>1. ring.buffer \in Injection(R!Slots, R!Slots)
  BY DEF RingIInv, R!TypeOK, Injection, IsInjective
<1>2. IsFiniteSet(R!Slots)
  BY FS_Interval, ToolboxAssumption DEF R!Slots
<1>3. ring.buffer \in Surjection(R!Slots, R!Slots)
  BY <1>1, <1>2, FS_Injection
<1>4. \A x \in R!Slots : \E p \in R!Slots : ring.buffer[p] = x
  BY <1>3 DEF Surjection
<1> QED
  BY <1>4 DEF RingIInv, R!TypeOK

(* GetSlot takes the slot at the start, the deleter puts it behind the end *)
(* (object_pool.cpp:82-95).                                                *)
LEMMA RingKeeps ==
  ASSUME RingIInv, [R!Next]_R!ringVars
  PROVE  RingIInv'
<1>t. /\ PoolSize \in Nat /\ PoolSize > 1
      /\ ring \in [buffer : [R!Slots -> R!Slots], start : R!Slots, end : R!Slots,
                   object_counter : 0 .. MaxGets, allocate_counter : 0 .. MaxGets]
      /\ ringOut \subseteq R!Slots
      /\ ring.allocate_counter <= ring.object_counter
      /\ \A p \in R!Slots : p \in Nat /\ p < PoolSize /\ Around(p) \in R!Slots
  BY ToolboxAssumption DEF RingIInv, R!TypeOK, R!Slots, Around
<1>1. CASE R!GetSlot
  <2>1. /\ ring' = [ring EXCEPT !.start = Around(ring.start), !.object_counter = @ + 1]
        /\ ring.start # ring.end /\ ring.object_counter < MaxGets
        /\ ringOut' = ringOut \union {ring.buffer[ring.start]}
    BY <1>1, <1>t, Round DEF R!GetSlot
  <2>2. /\ ring'.start = Around(ring.start) /\ ring'.end = ring.end
        /\ ring'.buffer = ring.buffer
    BY <2>1, <1>t
  <2>3. R!TypeOK' /\ ring'.allocate_counter <= ring'.object_counter
    <3>1. ring' = [buffer |-> ring.buffer, start |-> Around(ring.start), end |-> ring.end,
                   object_counter |-> ring.object_counter + 1,
                   allocate_counter |-> ring.allocate_counter]
      BY <2>1, <1>t
    <3>2. ring.object_counter + 1 \in 0 .. MaxGets
      BY <2>1, <1>t, ToolboxAssumption
    <3>3. ring.buffer[ring.start] \in R!Slots /\ Around(ring.start) \in R!Slots
      BY <1>t
    <3> QED
      BY <2>1, <3>1, <3>2, <3>3, <1>t DEF R!TypeOK
  <2>4. Positions' = Positions \ {ring.start} /\ ring.start \in Positions
    BY <2>1, <2>2, <1>t, StartMoves DEF Positions
  <2> QED
    BY <2>1, <2>2, <2>3, <2>4 DEF RingIInv
<1>2. CASE R!GetFromHeap
  <2>1. /\ ring' = [ring EXCEPT !.object_counter = @ + 1, !.allocate_counter = @ + 1]
        /\ ringOut' = ringOut /\ ring.object_counter < MaxGets
    BY <1>2 DEF R!GetFromHeap
  <2>2. /\ ring'.start = ring.start /\ ring'.end = ring.end
        /\ ring'.buffer = ring.buffer
    BY <2>1, <1>t
  <2>3. /\ ring.object_counter + 1 \in 0 .. MaxGets
        /\ ring.allocate_counter + 1 \in 0 .. MaxGets
    BY <2>1, <1>t, ToolboxAssumption
  <2>4. R!TypeOK' /\ ring'.allocate_counter <= ring'.object_counter
    <3>1. ring' = [buffer |-> ring.buffer, start |-> ring.start, end |-> ring.end,
                   object_counter |-> ring.object_counter + 1,
                   allocate_counter |-> ring.allocate_counter + 1]
      BY <2>1, <1>t
    <3> QED
      BY <2>1, <2>3, <3>1, <1>t DEF R!TypeOK
  <2>5. Positions' = Positions
    BY <2>2 DEF Positions
  <2> QED
    BY <2>1, <2>2, <2>4, <2>5 DEF RingIInv
<1>3. ASSUME NEW index \in R!Slots, R!Delete(index)
      PROVE  RingIInv'
  <2> DEFINE end == Around(ring.end)
  <2>1. /\ ring' = [ring EXCEPT !.end = end, !.buffer[end] = index]
        /\ index \in ringOut /\ ringOut' = ringOut \ {index}
    BY <1>3, <1>t, Round DEF R!Delete
  <2>2. /\ ring'.start = ring.start /\ ring'.end = end
        /\ ring'.buffer = [ring.buffer EXCEPT ![end] = index]
    BY <2>1, <1>t
  <2>3. R!TypeOK' /\ ring'.allocate_counter <= ring'.object_counter
    BY <2>1, <1>t, ToolboxAssumption DEF R!TypeOK
  <2>4. end # ring.start
    BY <2>1, <1>t, FullRing, EndMoves DEF Positions
  <2>5. Positions' = Positions \union {end} /\ end \notin Positions
    BY <2>2, <2>4, <1>t, EndMoves DEF Positions
  <2>6. \A p \in Positions : ring'.buffer[p] = ring.buffer[p]
    BY <2>2, <2>5, <1>t DEF Positions, FromTo
  <2>7. ring'.buffer[end] = index
    BY <2>2, <1>t
  <2> QED
    BY <2>1, <2>3, <2>5, <2>6, <2>7 DEF RingIInv
<1>4. CASE UNCHANGED R!ringVars
  BY <1>4 DEF RingIInv, Positions, R!TypeOK, R!ringVars
<1> QED
  BY <1>1, <1>2, <1>3, <1>4 DEF R!Next

(* The ring begins full, slot i at position i (object_pool.cpp:65-69).     *)
LEMMA RingStarts ==
  ASSUME R!Init
  PROVE  RingIInv
<1>1. PoolSize \in Nat /\ PoolSize > 1 /\ MaxGets \in Nat
  BY ToolboxAssumption
<1>2. /\ ring.buffer = [i \in R!Slots |-> i] /\ ring.start = 0 /\ ring.end = PoolSize - 1
      /\ ring.object_counter = 0 /\ ring.allocate_counter = 0 /\ ringOut = {}
  BY DEF R!Init
<1>3. R!TypeOK
  BY <1>1 DEF R!Init, R!TypeOK, R!Slots
<1>4. Positions = R!Slots
  BY <1>1, <1>2 DEF Positions, FromTo, R!Slots
<1> QED
  BY <1>1, <1>2, <1>3, <1>4 DEF RingIInv

(* Counted from the start, the positions are the ones that Free looks at.  *)
LEMMA RingHolds ==
  ASSUME RingIInv
  PROVE  R!OneHolder
<1> DEFINE At(i) == (ring.start + i) % PoolSize
           Steps == 0 .. R!Length - 1
<1>1. /\ PoolSize \in Nat /\ PoolSize > 1 /\ R!Slots = 0 .. PoolSize - 1
      /\ ring.start \in R!Slots /\ ring.end \in R!Slots
  BY ToolboxAssumption DEF RingIInv, R!TypeOK, R!Slots
<1>2. R!Length = IF ring.start <= ring.end THEN ring.end - ring.start + 1
                                           ELSE ring.end + PoolSize - ring.start + 1
  <2> DEFINE n == ring.end + PoolSize - ring.start
  <2>1. n \in Nat /\ n < PoolSize + PoolSize
    BY <1>1
  <2>2. n < PoolSize <=> ring.end < ring.start
    BY <1>1
  <2>3. R!Length = (n % PoolSize) + 1
    BY DEF R!Length
  <2> HIDE DEF n
  <2>4. n % PoolSize = IF n < PoolSize THEN n ELSE n - PoolSize
    BY <2>1, RoundTwice
  <2>5. R!Length = IF ring.start <= ring.end THEN n - PoolSize + 1 ELSE n + 1
    BY <2>1, <2>2, <2>3, <2>4, <1>1
  <2> QED
    BY <2>5, <1>1 DEF n
<1>l. R!Length \in 1 .. PoolSize
  BY <1>1, <1>2
<1> HIDE DEF At
<1>3. \A i \in Steps : At(i) = IF ring.start + i < PoolSize THEN ring.start + i
                                                            ELSE ring.start + i - PoolSize
  <2> TAKE i \in Steps
  <2> DEFINE n == ring.start + i
  <2>1. n \in Nat /\ n < PoolSize + PoolSize
    BY <1>1, <1>l
  <2> HIDE DEF n
  <2>2. n % PoolSize = IF n < PoolSize THEN n ELSE n - PoolSize
    BY <2>1, RoundTwice
  <2> QED
    <3>1. At(i) = n % PoolSize
      BY DEF n, At
    <3>2. At(i) = IF n < PoolSize THEN n ELSE n - PoolSize
      BY <2>2, <3>1
    <3> QED
      BY <3>2, <1>1, <1>l DEF n
<1>4. \A i \in Steps : At(i) \in Positions
  <2> TAKE i \in Steps
  <2>1. i \in Nat /\ i < R!Length
    BY <1>l
  <2>2. At(i) \in R!Slots
    BY <2>1, <1>1, <1>l, <1>3
  <2>3. CASE ring.start <= ring.end
    <3>1. At(i) = ring.start + i /\ ring.start + i <= ring.end
      BY <2>1, <2>3, <1>1, <1>2, <1>3
    <3>2. ring.start <= At(i) /\ At(i) <= ring.end
      BY <2>1, <3>1, <1>1
    <3> QED
      BY <2>2, <2>3, <3>2 DEF Positions, FromTo
  <2>4. CASE ~(ring.start <= ring.end)
    <3>0. R!Length = ring.end + PoolSize - ring.start + 1
      BY <2>4, <1>2
    <3>1. ring.start <= At(i) \/ At(i) <= ring.end
      <4>1. CASE ring.start + i < PoolSize
        BY <2>1, <4>1, <1>1, <1>3
      <4>2. CASE ~(ring.start + i < PoolSize)
        <5>1. At(i) = ring.start + i - PoolSize
          BY <4>2, <1>3
        <5> QED
          BY <2>1, <3>0, <5>1, <1>1
      <4> QED
        BY <4>1, <4>2
    <3> QED
      BY <2>2, <2>4, <3>1 DEF Positions, FromTo
  <2> QED
    BY <2>3, <2>4
<1>5. \A i, j \in Steps : At(i) = At(j) => i = j
  <2> TAKE i, j \in Steps
  <2>1. i \in Nat /\ j \in Nat /\ i < PoolSize /\ j < PoolSize
    BY <1>1, <1>l
  <2> QED
    BY <2>1, <1>1, <1>3
<1>6. \A p \in Positions : \E i \in Steps : At(i) = p
  <2> TAKE p \in Positions
  <2>1. p \in Nat /\ p < PoolSize
    BY <1>1 DEF Positions, FromTo
  <2>p. IF ring.start <= ring.end THEN ring.start <= p /\ p <= ring.end
                                  ELSE ring.start <= p \/ p <= ring.end
    BY DEF Positions, FromTo
  <2>2. CASE ring.start <= p
    <3>1. p - ring.start \in Nat /\ p - ring.start < R!Length
      BY <2>1, <2>p, <2>2, <1>1, <1>2
    <3>2. p - ring.start \in Steps
      BY <3>1, <1>l
    <3> QED
      BY <2>1, <2>2, <3>2, <1>1, <1>3
  <2>3. CASE p < ring.start
    <3>1. p + PoolSize - ring.start \in Nat /\ p + PoolSize - ring.start < R!Length
      BY <2>1, <2>p, <2>3, <1>1, <1>2
    <3>2. p + PoolSize - ring.start \in Steps
      BY <3>1, <1>l
    <3> QED
      BY <2>1, <2>3, <3>2, <1>1, <1>3
  <2> QED
    BY <2>1, <2>2, <2>3, <1>1
<1>7. R!Free = {ring.buffer[p] : p \in Positions}
  <2>1. R!Free = {ring.buffer[At(i)] : i \in Steps}
    BY DEF R!Free, At
  <2> QED
    BY <2>1, <1>4, <1>6
<1>8. Cardinality(R!Free) = R!Length
  <2> DEFINE f == [i \in Steps |-> ring.buffer[At(i)]]
  <2>1. R!Free = {ring.buffer[At(i)] : i \in Steps}
    BY DEF R!Free, At
  <2>2. f \in Surjection(Steps, R!Free)
    BY <2>1 DEF Surjection
  <2>3. \A i, j \in Steps : ring.buffer[At(i)] = ring.buffer[At(j)] => i = j
    BY <1>4, <1>5 DEF RingIInv
  <2>4. f \in Injection(Steps, R!Free)
    BY <2>2, <2>3 DEF Surjection, Injection, IsInjective
  <2>5. IsFiniteSet(Steps) /\ Cardinality(Steps) = R!Length
    BY <1>l, FS_Interval
  <2> HIDE DEF f, Steps
  <2>6. Cardinality(R!Free) = Cardinality(Steps)
    BY <2>2, <2>4, <2>5, FS_Surjection
  <2> QED
    BY <2>5, <2>6
<1>9. R!Free \intersect ringOut = {}
  BY <1>7 DEF RingIInv
<1>10. R!Free \union ringOut = R!Slots
  BY <1>7 DEF RingIInv, R!TypeOK, Positions, FromTo
<1>11. \A set : R!Cardinality(set) = Cardinality(set)
  BY DEF R!Cardinality, Cardinality
<1> QED
  BY <1>8, <1>9, <1>10, <1>11 DEF R!OneHolder

-----------------------------------------------------------------------------
(* PointerPool                                                             *)

(* Where each object is: an object that was made is in the pool, at one    *)
(* position, or out.                                                       *)
PoolIInv ==
  /\ P!TypeOK
  /\ \A i, j \in 1 .. Len(pool) : pool[i] = pool[j] => i = j
  /\ \A i \in 1 .. Len(pool) : pool[i] <= poolMade /\ pool[i] \notin poolOut
  /\ \A t \in poolOut : t <= poolMade
  /\ \A t \in 1 .. poolMade : t \in poolOut \/ \E i \in 1 .. Len(pool) : pool[i] = t

(* Objects that are made, taken and put back (objectpool.h:24-58).         *)
LEMMA PoolKeeps ==
  ASSUME PoolIInv, [P!Next]_P!poolVars
  PROVE  PoolIInv'
<1>t. /\ MaxObjects \in Nat /\ pool \in Seq(1 .. MaxObjects) /\ poolMade \in 0 .. MaxObjects
      /\ poolOut \subseteq 1 .. MaxObjects /\ Len(pool) \in Nat
      /\ \A i \in 1 .. Len(pool) : pool[i] \in 1 .. MaxObjects
  BY ToolboxAssumption, LenProperties, ElementOfSeq DEF PoolIInv, P!TypeOK
<1>1. ASSUME NEW num \in 1 .. MaxObjects, P!init(num)
      PROVE  PoolIInv'
  <2> DEFINE more == [i \in 1 .. num |-> poolMade + i]
  <2>1. /\ poolMade + num <= MaxObjects /\ pool' = pool \o more
        /\ poolMade' = poolMade + num /\ poolOut' = poolOut
    BY <1>1 DEF P!init
  <2>2. more \in Seq(1 .. MaxObjects) /\ Len(more) = num
    BY <2>1, <1>t
  <2>3. \A i \in 1 .. num : more[i] = poolMade + i
    OBVIOUS
  <2> HIDE DEF more
  <2>4. /\ pool' \in Seq(1 .. MaxObjects) /\ Len(pool') = Len(pool) + num
        /\ \A i \in 1 .. Len(pool) + num :
              pool'[i] = IF i <= Len(pool) THEN pool[i] ELSE more[i - Len(pool)]
    BY <2>1, <2>2, <1>t, ConcatProperties
  <2>5. /\ \A i \in 1 .. Len(pool) : pool'[i] = pool[i]
        /\ \A i \in 1 .. Len(pool') : i > Len(pool) => pool'[i] = poolMade + (i - Len(pool))
    <3>1. ASSUME NEW i \in 1 .. Len(pool) PROVE pool'[i] = pool[i]
      <4>1. i \in 1 .. Len(pool) + num /\ i <= Len(pool)
        BY <1>t
      <4> QED
        BY <2>4, <4>1
    <3>2. ASSUME NEW i \in 1 .. Len(pool'), i > Len(pool)
          PROVE  pool'[i] = poolMade + (i - Len(pool))
      <4>1. /\ i \in 1 .. Len(pool) + num /\ ~(i <= Len(pool))
            /\ i - Len(pool) \in 1 .. num
        BY <2>4, <3>2, <1>t
      <4>2. pool'[i] = more[i - Len(pool)]
        BY <2>4, <4>1
      <4> QED
        BY <2>3, <4>1, <4>2
    <3> QED
      BY <3>1, <3>2
  <2>6. P!TypeOK'
    BY <2>1, <2>4, <1>t DEF P!TypeOK
  <2>7. ASSUME NEW i \in 1 .. Len(pool'), NEW j \in 1 .. Len(pool'), pool'[i] = pool'[j]
        PROVE  i = j
    <3>1. \A k \in 1 .. Len(pool') : k <= Len(pool) => k \in 1 .. Len(pool) /\ pool'[k] <= poolMade
      <4> TAKE k \in 1 .. Len(pool')
      <4> HAVE k <= Len(pool)
      <4>1. k \in 1 .. Len(pool)
        BY <1>t
      <4>2. pool'[k] = pool[k] /\ pool[k] <= poolMade
        BY <4>1, <2>5 DEF PoolIInv
      <4> QED
        BY <4>1, <4>2
    <3>2. \A k \in 1 .. Len(pool') : k > Len(pool) => pool'[k] > poolMade
      BY <2>4, <2>5, <1>t
    <3>3. CASE i <= Len(pool) /\ j <= Len(pool)
      BY <2>5, <2>7, <3>1, <3>3 DEF PoolIInv
    <3>4. CASE i > Len(pool) /\ j > Len(pool)
      BY <2>4, <2>5, <2>7, <3>4, <1>t
    <3>5. pool'[i] \in Nat /\ poolMade \in Nat /\ i \in Nat /\ j \in Nat
      BY <2>4, <1>t, ElementOfSeq
    <3> QED
      BY <2>7, <3>1, <3>2, <3>3, <3>4, <3>5, <1>t
  <2>8. ASSUME NEW i \in 1 .. Len(pool')
        PROVE  pool'[i] <= poolMade' /\ pool'[i] \notin poolOut'
    <3>1. CASE i <= Len(pool)
      <4>1. i \in 1 .. Len(pool) /\ pool'[i] = pool[i]
        BY <2>5, <3>1, <1>t
      <4>2. pool[i] <= poolMade /\ pool[i] \in Nat /\ pool[i] \notin poolOut
        <5>1. pool[i] <= poolMade /\ pool[i] \notin poolOut
          BY <4>1 DEF PoolIInv
        <5>2. pool[i] \in 1 .. MaxObjects
          BY <4>1, <1>t
        <5> QED
          BY <5>1, <5>2, <1>t
      <4> QED
        BY <2>1, <4>1, <4>2, <1>t
    <3>2. CASE i > Len(pool)
      <4>1. pool'[i] > poolMade /\ pool'[i] <= poolMade + num
        BY <2>4, <2>5, <3>2, <1>t
      <4>2. pool'[i] \notin poolOut
        <5>1. \A t \in poolOut : t \in Nat /\ t <= poolMade
          BY <1>t DEF PoolIInv
        <5>2. pool'[i] \in Nat /\ poolMade \in Nat
          BY <2>4, <1>t, ElementOfSeq
        <5>3. pool'[i] \in Nat => ~(pool'[i] <= poolMade)
          BY <4>1, <5>2
        <5> QED
          BY <5>1, <5>2, <5>3
      <4> QED
        BY <2>1, <4>1, <4>2
    <3> QED
      BY <3>1, <3>2, <2>4, <1>t
  <2>9. \A t \in poolOut' : t <= poolMade'
    BY <2>1, <1>t DEF PoolIInv
  <2>10. ASSUME NEW t \in 1 .. poolMade'
         PROVE  t \in poolOut' \/ \E i \in 1 .. Len(pool') : pool'[i] = t
    <3>1. CASE t <= poolMade
      <4>1. t \in 1 .. poolMade
        BY <3>1, <2>1, <1>t
      <4>2. CASE t \in poolOut
        BY <4>2, <2>1
      <4>3. CASE t \notin poolOut
        <5>1. PICK i \in 1 .. Len(pool) : pool[i] = t
          BY <4>1, <4>3 DEF PoolIInv
        <5>2. i \in 1 .. Len(pool')
          BY <2>4, <1>t
        <5> QED
          BY <5>1, <5>2, <2>5
      <4> QED
        BY <4>2, <4>3
    <3>2. CASE t > poolMade
      <4> DEFINE i == Len(pool) + (t - poolMade)
      <4>1. i \in 1 .. Len(pool') /\ i > Len(pool) /\ poolMade + (i - Len(pool)) = t
        BY <3>2, <2>1, <2>4, <1>t
      <4>2. pool'[i] = t
        BY <4>1, <2>5
      <4> QED
        BY <4>1, <4>2
    <3> QED
      BY <3>1, <3>2, <2>1, <1>t
  <2> QED
    BY <2>6, <2>7, <2>8, <2>9, <2>10 DEF PoolIInv
<1>2. CASE P!get
  <2> DEFINE t == pool[Len(pool)]
  <2>1. pool # <<>> /\ poolOut' = poolOut \union {t} /\ poolMade' = poolMade
    BY <1>2 DEF P!get, P!Last
  <2>2. pool' = SubSeq(pool, 1, Len(pool) - 1)
    BY <1>2 DEF P!get, P!Front
  <2>3. Len(pool) \in Nat \ {0} /\ t \in 1 .. MaxObjects
    BY <2>1, <1>t, EmptySeq
  <2>4. \A i \in 1 .. Len(pool) - 1 : pool[i] \in 1 .. MaxObjects
    BY <1>t
  <2>5. /\ pool' \in Seq(1 .. MaxObjects) /\ Len(pool') = Len(pool) - 1
        /\ \A i \in 1 .. Len(pool) - 1 : pool'[i] = pool[i]
    <3>1. 1 \in Int /\ Len(pool) - 1 \in Int
      BY <2>3
    <3>2. /\ SubSeq(pool, 1, Len(pool) - 1) \in Seq(1 .. MaxObjects)
          /\ Len(SubSeq(pool, 1, Len(pool) - 1)) =
                IF 1 <= Len(pool) - 1 THEN Len(pool) - 1 - 1 + 1 ELSE 0
          /\ \A i \in 1 .. Len(pool) - 1 - 1 + 1 :
                SubSeq(pool, 1, Len(pool) - 1)[i] = pool[1 + i - 1]
      BY <3>1, <2>4, SubSeqProperties
    <3>3. Len(pool) - 1 \in Nat /\ Len(pool) - 1 - 1 + 1 = Len(pool) - 1
      BY <2>3
    <3>4. \A i \in 1 .. Len(pool) - 1 : 1 + i - 1 = i
      BY <3>3
    <3>5. (IF 1 <= Len(pool) - 1 THEN Len(pool) - 1 - 1 + 1 ELSE 0) = Len(pool) - 1
      BY <3>3
    <3> QED
      BY <2>2, <3>2, <3>3, <3>4, <3>5
  <2>6. P!TypeOK'
    BY <2>1, <2>3, <2>5, <1>t DEF P!TypeOK
  <2>7. 1 .. Len(pool) = 1 .. Len(pool') \union {Len(pool)} /\ Len(pool) \notin 1 .. Len(pool')
    BY <2>3, <2>5
  <2>8. \A i, j \in 1 .. Len(pool') : pool'[i] = pool'[j] => i = j
    BY <2>5, <2>7 DEF PoolIInv
  <2>9. \A i \in 1 .. Len(pool') : pool'[i] <= poolMade' /\ pool'[i] \notin poolOut'
    <3>1. \A i \in 1 .. Len(pool') : pool[i] # t
      BY <2>7, <2>3 DEF PoolIInv
    <3> QED
      BY <2>1, <2>5, <2>7, <3>1 DEF PoolIInv
  <2>10. \A u \in poolOut' : u <= poolMade'
    BY <2>1, <2>3 DEF PoolIInv
  <2>11. \A u \in 1 .. poolMade' : u \in poolOut' \/ \E i \in 1 .. Len(pool') : pool'[i] = u
    BY <2>1, <2>5, <2>7 DEF PoolIInv
  <2> QED
    BY <2>6, <2>8, <2>9, <2>10, <2>11 DEF PoolIInv
<1>3. ASSUME NEW t \in poolOut, P!Deleter(t)
      PROVE  PoolIInv'
  <2>1. pool' = Append(pool, t) /\ poolOut' = poolOut \ {t} /\ poolMade' = poolMade
    BY <1>3 DEF P!Deleter
  <2>2. /\ pool' \in Seq(1 .. MaxObjects) /\ Len(pool') = Len(pool) + 1
        /\ pool'[Len(pool) + 1] = t
        /\ \A i \in 1 .. Len(pool) : pool'[i] = pool[i]
    BY <2>1, <1>t, AppendProperties
  <2>3. P!TypeOK'
    BY <2>1, <2>2, <1>t DEF P!TypeOK
  <2>4. /\ 1 .. Len(pool') = 1 .. Len(pool) \union {Len(pool) + 1}
        /\ Len(pool) + 1 \notin 1 .. Len(pool)
    BY <2>2, <1>t
  <2>5. \A i, j \in 1 .. Len(pool') : pool'[i] = pool'[j] => i = j
    BY <2>2, <2>4 DEF PoolIInv
  <2>6. \A i \in 1 .. Len(pool') : pool'[i] <= poolMade' /\ pool'[i] \notin poolOut'
    <3>1. \A i \in 1 .. Len(pool) : pool[i] # t
      BY DEF PoolIInv
    <3> QED
      BY <2>1, <2>2, <2>4, <3>1 DEF PoolIInv
  <2>7. \A u \in poolOut' : u <= poolMade'
    BY <2>1 DEF PoolIInv
  <2>8. \A u \in 1 .. poolMade' : u \in poolOut' \/ \E i \in 1 .. Len(pool') : pool'[i] = u
    BY <2>1, <2>2, <2>4 DEF PoolIInv
  <2> QED
    BY <2>3, <2>5, <2>6, <2>7, <2>8 DEF PoolIInv
<1>4. CASE UNCHANGED P!poolVars
  BY <1>4 DEF PoolIInv, P!TypeOK, P!poolVars
<1> QED
  BY <1>1, <1>2, <1>3, <1>4 DEF P!Next

(* The pool begins empty.                                                  *)
LEMMA PoolStarts ==
  ASSUME P!Init
  PROVE  PoolIInv
<1>1. pool = <<>> /\ poolMade = 0 /\ poolOut = {}
  BY DEF P!Init
<1>2. pool \in Seq(1 .. MaxObjects) /\ Len(pool) = 0
  BY <1>1, EmptySeq
<1> QED
  BY <1>1, <1>2, ToolboxAssumption DEF PoolIInv, P!TypeOK

(* What the invariant says of the objects of the pool.                     *)
LEMMA PoolHolds ==
  ASSUME PoolIInv
  PROVE  P!OneHolder
<1>1. Len(pool) \in Nat /\ DOMAIN pool = 1 .. Len(pool)
  BY LenProperties DEF PoolIInv, P!TypeOK
<1>2. \A i \in 1 .. Len(pool) : pool[i] \in 1 .. MaxObjects
  BY ElementOfSeq DEF PoolIInv, P!TypeOK
<1>3. P!IsInjective(pool)
  BY <1>1 DEF PoolIInv, P!IsInjective
<1>4. P!ToSet(pool) = {pool[i] : i \in 1 .. Len(pool)}
  BY <1>1 DEF P!ToSet
<1>5. P!ToSet(pool) \intersect poolOut = {}
  BY <1>4 DEF PoolIInv
<1>6. P!ToSet(pool) \union poolOut = 1 .. poolMade
  <2>1. poolMade \in Nat /\ poolOut \subseteq 1 .. MaxObjects
    BY DEF PoolIInv, P!TypeOK
  <2>2. \A i \in 1 .. Len(pool) : pool[i] \in 1 .. poolMade
    BY <1>2, <2>1 DEF PoolIInv
  <2>3. \A t \in poolOut : t \in 1 .. poolMade
    BY <2>1 DEF PoolIInv
  <2>4. \A t \in 1 .. poolMade : t \in poolOut \/ \E i \in 1 .. Len(pool) : pool[i] = t
    BY DEF PoolIInv
  <2> QED
    BY <1>4, <2>2, <2>3, <2>4
<1> QED
  BY <1>3, <1>5, <1>6 DEF P!OneHolder

-----------------------------------------------------------------------------
(* Arena                                                                   *)

(* The sum of a list is that of the steps that add it up.                  *)
Sums(s, sum) ==
  /\ sum \in [0 .. Len(s) -> Nat] /\ sum[0] = 0
  /\ \A i \in 1 .. Len(s) : sum[i] = sum[i - 1] + s[i]

(* sum adds up the first n of the list.                                    *)
AddsUp(s, n, sum) == sum = [i \in 0 .. n |-> IF i = 0 THEN 0 ELSE sum[i - 1] + s[i]]

(* Every list of numbers has a sum: for every n there is a list of the     *)
(* first n sums, by induction.                                             *)
LEMMA SumsExist ==
  ASSUME NEW s \in Seq(Nat)
  PROVE  \E sum : Sums(s, sum) /\ A!Total(s) = sum[Len(s)]
<1> DEFINE Reached(n) == n <= Len(s) => \E f \in [0 .. n -> Nat] : AddsUp(s, n, f)
           reached == {n \in Nat : Reached(n)}
<1>1. Len(s) \in Nat /\ \A i \in 1 .. Len(s) : s[i] \in Nat
  BY LenProperties, ElementOfSeq
<1>2. 0 \in reached
  <2> DEFINE f == [i \in 0 .. 0 |-> 0]
  <2>1. f \in [0 .. 0 -> Nat] /\ AddsUp(s, 0, f)
    BY DEF AddsUp
  <2> QED
    BY <2>1
<1>3. ASSUME NEW n \in Nat, n \in reached
      PROVE  n + 1 \in reached
  <2> SUFFICES ASSUME n + 1 <= Len(s) PROVE \E f \in [0 .. n + 1 -> Nat] : AddsUp(s, n + 1, f)
    OBVIOUS
  <2>1. PICK f \in [0 .. n -> Nat] : AddsUp(s, n, f)
    <3>1. n <= Len(s)
      BY <1>1
    <3>2. Reached(n)
      BY <1>3
    <3> QED
      BY <3>1, <3>2
  <2> DEFINE g == [i \in 0 .. n + 1 |-> IF i = n + 1 THEN f[n] + s[n + 1] ELSE f[i]]
  <2>2. f[n] \in Nat /\ s[n + 1] \in Nat
    BY <1>1
  <2>3. g \in [0 .. n + 1 -> Nat]
    BY <2>1, <2>2
  <2>4. \A k \in 0 .. n : g[k] = f[k] /\ f[k] = IF k = 0 THEN 0 ELSE f[k - 1] + s[k]
    BY <2>1 DEF AddsUp
  <2>5. g[n + 1] = f[n] + s[n + 1]
    OBVIOUS
  <2> HIDE DEF g
  <2>6. \A i \in 0 .. n + 1 : g[i] = IF i = 0 THEN 0 ELSE g[i - 1] + s[i]
    <3> TAKE i \in 0 .. n + 1
    <3>1. CASE i = n + 1
      <4>1. n \in 0 .. n /\ i - 1 = n /\ i # 0
        BY <3>1
      <4> QED
        BY <2>4, <2>5, <3>1, <4>1
    <3>2. CASE i \in 0 .. n
      <4>1. i # 0 => i - 1 \in 0 .. n
        BY <3>2
      <4> QED
        BY <2>4, <3>2, <4>1
    <3> QED
      BY <3>1, <3>2
  <2>7. AddsUp(s, n + 1, g)
    <3>1. g = [i \in 0 .. n + 1 |-> g[i]]
      BY <2>3
    <3> QED
      BY <2>6, <3>1 DEF AddsUp
  <2> QED
    BY <2>3, <2>7
<1>4. Len(s) \in reached
  <2> HIDE DEF reached
  <2> QED
    BY <1>1, <1>2, <1>3, AllNumbers
<1> DEFINE sum == CHOOSE f : AddsUp(s, Len(s), f)
<1>5. AddsUp(s, Len(s), sum)
  BY <1>1, <1>4
<1>6. A!Total(s) = sum[Len(s)]
  BY DEF A!Total, AddsUp
<1> HIDE DEF sum
<1>8. DOMAIN sum = 0 .. Len(s)
  BY <1>5 DEF AddsUp
<1>9. sum[0] = 0 /\ \A i \in 1 .. Len(s) : sum[i] = sum[i - 1] + s[i]
  BY <1>1, <1>5 DEF AddsUp
<1>10. \A i \in 0 .. Len(s) : sum[i] \in Nat
  <2> DEFINE natural == {n \in Nat : n <= Len(s) => sum[n] \in Nat}
  <2>1. 0 \in natural
    BY <1>9
  <2>2. ASSUME NEW n \in Nat, n \in natural PROVE n + 1 \in natural
    <3> SUFFICES ASSUME n + 1 <= Len(s) PROVE sum[n + 1] \in Nat
      OBVIOUS
    <3>1. n <= Len(s) /\ n + 1 \in 1 .. Len(s) /\ n + 1 - 1 = n
      BY <1>1
    <3>2. sum[n] \in Nat /\ s[n + 1] \in Nat
      BY <1>1, <2>2, <3>1
    <3>3. sum[n + 1] = sum[n] + s[n + 1]
      BY <1>9, <3>1
    <3> QED
      BY <3>2, <3>3
  <2> HIDE DEF natural
  <2>3. Nat \subseteq natural
    BY <2>1, <2>2, AllNumbers
  <2> QED
    BY <2>3, <1>1 DEF natural
<1>11. sum \in [0 .. Len(s) -> Nat]
  BY <1>5, <1>8, <1>10
<1> QED
  BY <1>6, <1>9, <1>11 DEF Sums

(* A list that is one longer comes to so much more.                        *)
LEMMA TotalGrows ==
  ASSUME NEW s \in Seq(Nat), NEW bytes \in Nat
  PROVE  A!Total(s) \in Nat /\ A!Total(Append(s, bytes)) = A!Total(s) + bytes
<1> DEFINE t == Append(s, bytes)
<1>1. /\ t \in Seq(Nat) /\ Len(t) = Len(s) + 1 /\ t[Len(s) + 1] = bytes /\ Len(s) \in Nat
      /\ \A i \in 1 .. Len(s) : t[i] = s[i] /\ s[i] \in Nat
  BY AppendProperties, LenProperties, ElementOfSeq
<1> HIDE DEF t
<1>2. PICK f : Sums(s, f) /\ A!Total(s) = f[Len(s)]
  BY SumsExist
<1>3. PICK g : Sums(t, g) /\ A!Total(t) = g[Len(t)]
  BY <1>1, SumsExist
<1> DEFINE same == {n \in Nat : n <= Len(s) => f[n] = g[n]}
<1>4. 0 \in same
  BY <1>2, <1>3 DEF Sums
<1>5. ASSUME NEW n \in Nat, n \in same PROVE n + 1 \in same
  <2> SUFFICES ASSUME n + 1 <= Len(s) PROVE f[n + 1] = g[n + 1]
    OBVIOUS
  <2>1. f[n] = g[n] /\ n + 1 \in 1 .. Len(s) /\ n + 1 \in 1 .. Len(t) /\ n + 1 - 1 = n
    BY <1>1, <1>5
  <2>2. f[n + 1] = f[n + 1 - 1] + s[n + 1]
    BY <1>2, <2>1 DEF Sums
  <2>3. g[n + 1] = g[n + 1 - 1] + t[n + 1]
    BY <1>3, <2>1 DEF Sums
  <2> QED
    BY <1>1, <2>1, <2>2, <2>3
<1> HIDE DEF same
<1>6. Nat \subseteq same
  BY <1>4, <1>5, AllNumbers
<1>7. f[Len(s)] = g[Len(s)] /\ f[Len(s)] \in Nat
  <2>1. Len(s) \in same
    BY <1>1, <1>6
  <2>2. Len(s) <= Len(s) /\ Len(s) \in 0 .. Len(s)
    BY <1>1
  <2> QED
    BY <1>2, <2>1, <2>2 DEF Sums, same
<1>8. g[Len(s) + 1] = g[Len(s)] + bytes
  <2>1. Len(s) + 1 \in 1 .. Len(t) /\ Len(s) + 1 - 1 = Len(s)
    BY <1>1
  <2>2. g[Len(s) + 1] = g[Len(s) + 1 - 1] + t[Len(s) + 1]
    BY <1>3, <2>1 DEF Sums
  <2> QED
    BY <1>1, <2>1, <2>2
<1> QED
  BY <1>1, <1>2, <1>3, <1>7, <1>8 DEF t

(* The next multiple of the alignment.                                     *)
LEMMA SlopAligns ==
  ASSUME arena.alloc_ptr.offset \in Nat
  PROVE  A!Slop \in Nat /\ (arena.alloc_ptr.offset + A!Slop) % Align = 0
<1> DEFINE o == arena.alloc_ptr.offset
           q == o \div Align
           r == o % Align
<1>1. Align \in Nat \ {0}
  BY ToolboxAssumption
<1>2. q \in Nat /\ r \in 0 .. Align - 1 /\ o = Align * q + r
  BY <1>1
<1>3. A!Slop = (Align - r) % Align
  BY DEF A!Slop
<1> HIDE DEF o, q, r
<1>4. CASE r = 0
  <2>1. A!Slop = 0
    BY <1>1, <1>3, <1>4
  <2>2. (Align * q) % Align = 0
    BY <1>1, <1>2
  <2>3. o + A!Slop = Align * q
    BY <1>1, <1>2, <1>4, <2>1
  <2> QED
    BY <2>1, <2>2, <2>3 DEF o
<1>5. CASE r # 0
  <2>1. A!Slop = Align - r
    <3>1. Align - r \in 0 .. Align - 1
      BY <1>1, <1>2, <1>5
    <3>2. \A n \in 0 .. Align - 1 : n % Align = n
      BY <1>1
    <3> QED
      BY <1>3, <3>1, <3>2
  <2>2. (Align * (q + 1)) % Align = 0
    <3>1. \A n \in Nat : (Align * n) % Align = 0
      BY <1>1
    <3> QED
      BY <1>2, <3>1
  <2>3. o + A!Slop = Align * (q + 1)
    BY <1>1, <1>2, <2>1
  <2> QED
    BY <1>1, <1>2, <2>1, <2>2, <2>3 DEF o
<1> QED
  BY <1>4, <1>5

(* A piece that was handed out.                                            *)
Piece == [block : 1 .. Len(arena.blocks), offset : Nat, bytes : Requests, aligned : BOOLEAN]

(* A block is made for what is handed out, so that there are never more.   *)
ArenaTyped ==
  /\ arena \in [blocks : Seq(Nat), alloc_ptr : [block : Nat, offset : Nat],
                remaining : 0 .. kBlockSize, memory_usage : Nat]
  /\ IsFiniteSet(handed) /\ Cardinality(handed) <= MaxAllocations
  /\ Len(arena.blocks) <= Cardinality(handed)
  /\ handed \subseteq Piece

(* The room that is left is the end of the current block, behind all that  *)
(* was handed out of it.                                                   *)
ArenaRoom ==
  IF arena.alloc_ptr.block = 0
    THEN arena.alloc_ptr.offset = 0 /\ arena.remaining = 0
    ELSE /\ arena.alloc_ptr.block <= Len(arena.blocks)
         /\ arena.blocks[arena.alloc_ptr.block] = kBlockSize
         /\ arena.alloc_ptr.offset + arena.remaining = kBlockSize

(* The pieces lie in their blocks, apart from each other, aligned when     *)
(* they were asked to be, and below the pointer in the block that is       *)
(* filled.                                                                 *)
ArenaPieces ==
  /\ \A h \in handed : h.offset + h.bytes <= arena.blocks[h.block]
  /\ \A g, h \in handed : g # h => ~A!Overlap(g, h)
  /\ \A h \in handed : h.aligned => h.offset % Align = 0
  /\ \A h \in handed :
        h.block = arena.alloc_ptr.block => h.offset + h.bytes <= arena.alloc_ptr.offset

(* What the arena keeps, and memory_usage_ counts the bytes of the blocks  *)
(* and a pointer for each.                                                 *)
ArenaIInv ==
  /\ ArenaTyped /\ ArenaRoom /\ ArenaPieces
  /\ arena.memory_usage = A!Total(arena.blocks) + PointerSize * Len(arena.blocks)

(* A piece that lies apart from the others is one more.                    *)
LEMMA PieceApart ==
  ASSUME ArenaTyped, ArenaPieces, NEW piece, piece.bytes \in Nat \ {0}, piece.offset \in Nat,
         \A h \in handed : ~A!Overlap(piece, h)
  PROVE  /\ piece \notin handed
         /\ IsFiniteSet(handed \union {piece})
         /\ Cardinality(handed \union {piece}) = Cardinality(handed) + 1
         /\ \A g, h \in handed \union {piece} : g # h => ~A!Overlap(g, h)
<1>1. A!Overlap(piece, piece)
  BY DEF A!Overlap
<1>2. piece \notin handed
  BY <1>1
<1>3. /\ IsFiniteSet(handed \union {piece})
      /\ Cardinality(handed \union {piece}) = Cardinality(handed) + 1
  BY <1>2, FS_AddElement DEF ArenaTyped
<1>4. \A h \in handed : ~A!Overlap(h, piece)
  BY DEF A!Overlap
<1> QED
  BY <1>2, <1>3, <1>4 DEF ArenaPieces

(* The next piece of the current block.                                    *)
LEMMA BlockKeeps ==
  ASSUME ArenaIInv, Cardinality(handed) < MaxAllocations,
         NEW slop \in Nat, NEW bytes \in Requests, NEW aligned \in BOOLEAN,
         slop + bytes <= arena.remaining,
         aligned => (arena.alloc_ptr.offset + slop) % Align = 0,
         arena' = A!FromBlock(arena, slop, bytes),
         A!Hand(arena.alloc_ptr.block, arena.alloc_ptr.offset + slop, bytes, aligned)
  PROVE  ArenaIInv'
<1> DEFINE ptr == arena.alloc_ptr
           piece == [block |-> ptr.block, offset |-> ptr.offset + slop,
                     bytes |-> bytes, aligned |-> aligned]
<1>t. /\ ArenaTyped /\ ArenaRoom /\ ArenaPieces
      /\ bytes \in Nat \ {0} /\ kBlockSize \in Nat /\ MaxAllocations \in Nat
      /\ arena.blocks \in Seq(Nat) /\ Len(arena.blocks) \in Nat
      /\ ptr.block \in Nat /\ ptr.offset \in Nat /\ arena.remaining \in 0 .. kBlockSize
      /\ Cardinality(handed) \in Nat /\ IsFiniteSet(handed)
  BY ToolboxAssumption, LenProperties, FS_CardinalityType DEF ArenaIInv, ArenaTyped
<1>o. /\ ptr.offset + slop + bytes \in Nat /\ ptr.offset + slop \in Nat
      /\ ptr.offset <= ptr.offset + slop + bytes
      /\ ptr.offset <= ptr.offset + slop
  <2> DEFINE offset == ptr.offset
  <2>1. offset \in Nat
    BY <1>t
  <2> HIDE DEF offset
  <2>t. slop \in Nat /\ bytes \in Nat
    BY <1>t
  <2>2. /\ offset + slop + bytes \in Nat /\ offset + slop \in Nat
        /\ offset <= offset + slop + bytes /\ offset <= offset + slop
    BY <2>1, <2>t
  <2> QED
    BY <2>2 DEF offset
<1>1. /\ arena'.blocks = arena.blocks /\ arena'.memory_usage = arena.memory_usage
      /\ arena'.alloc_ptr.block = ptr.block
      /\ arena'.alloc_ptr.offset = ptr.offset + slop + bytes
      /\ arena'.remaining = arena.remaining - (slop + bytes)
      /\ arena' \in [blocks : Seq(Nat), alloc_ptr : [block : Nat, offset : Nat],
                     remaining : 0 .. kBlockSize, memory_usage : Nat]
  <2>1. /\ arena \in [blocks : Seq(Nat), alloc_ptr : [block : Nat, offset : Nat],
                      remaining : 0 .. kBlockSize, memory_usage : Nat]
        /\ ptr \in [block : Nat, offset : Nat]
    BY <1>t DEF ArenaTyped
  <2>2. arena' = [blocks |-> arena.blocks,
                  alloc_ptr |-> [block |-> ptr.block, offset |-> ptr.offset + slop + bytes],
                  remaining |-> arena.remaining - (slop + bytes),
                  memory_usage |-> arena.memory_usage]
    <3>1. arena' = [arena EXCEPT !.alloc_ptr = [ptr EXCEPT !.offset = ptr.offset + slop + bytes],
                                 !.remaining = arena.remaining - (slop + bytes)]
      BY DEF A!FromBlock
    <3> QED
      BY <2>1, <3>1
  <2>3. ptr.offset + slop + bytes \in Nat /\ arena.remaining - (slop + bytes) \in 0 .. kBlockSize
    <3> DEFINE offset == ptr.offset
               left == arena.remaining
    <3>1. /\ offset \in Nat /\ left \in 0 .. kBlockSize /\ slop \in Nat /\ bytes \in Nat
          /\ kBlockSize \in Nat /\ slop + bytes <= left
      BY <1>t
    <3> HIDE DEF offset, left
    <3>2. offset + slop + bytes \in Nat /\ left - (slop + bytes) \in 0 .. kBlockSize
      BY <3>1
    <3> QED
      BY <3>2 DEF offset, left
  <2> QED
    BY <2>1, <2>2, <2>3
<1>2. handed' = handed \union {piece}
  BY DEF A!Hand
<1>3. ptr.block \in 1 .. Len(arena.blocks) /\ ptr.offset + arena.remaining = kBlockSize
  BY <1>t DEF ArenaRoom
<1>4. piece \in Piece
  BY <1>o, <1>3 DEF Piece
<1>5. \A h \in handed : ~A!Overlap(piece, h)
  <2> TAKE h \in handed
  <2>1. h.block = ptr.block => h.offset + h.bytes <= ptr.offset
    BY <1>t DEF ArenaPieces
  <2>2. h.offset \in Nat /\ h.bytes \in Nat
    BY <1>t, ToolboxAssumption DEF ArenaTyped, Piece
  <2>3. piece.block = ptr.block /\ piece.offset = ptr.offset + slop
    OBVIOUS
  <2> HIDE DEF piece
  <2>4. SUFFICES ASSUME h.block = ptr.block, ptr.offset + slop < h.offset + h.bytes PROVE FALSE
    BY <2>3 DEF A!Overlap
  <2> DEFINE end == h.offset + h.bytes
             offset == ptr.offset
  <2>5. /\ end \in Nat /\ offset \in Nat
        /\ end <= offset /\ offset <= offset + slop /\ offset + slop < end
    <3>1. end \in Nat
      BY <2>2
    <3> HIDE DEF end
    <3> QED
      BY <1>t, <1>o, <2>1, <2>4, <3>1 DEF end
  <2> HIDE DEF end, offset
  <2> QED
    BY <2>5
<1>6. /\ IsFiniteSet(handed') /\ Cardinality(handed') = Cardinality(handed) + 1
      /\ \A g, h \in handed' : g # h => ~A!Overlap(g, h)
  <2>1. piece.bytes \in Nat \ {0} /\ piece.offset \in Nat
    BY <1>t
  <2> HIDE DEF piece
  <2> QED
    BY <1>t, <1>2, <1>5, <2>1, PieceApart
<1>7. ArenaTyped'
  <2>1. Piece' = Piece
    BY <1>1 DEF Piece
  <2>2. handed' \subseteq Piece'
    <3> HIDE DEF piece
    <3> QED
      BY <1>t, <1>2, <1>4, <2>1 DEF ArenaTyped
  <2>3. Cardinality(handed') <= MaxAllocations /\ Len(arena'.blocks) <= Cardinality(handed')
    <3>1. Len(arena.blocks) <= Cardinality(handed)
      BY <1>t DEF ArenaTyped
    <3> DEFINE m == Cardinality(handed)
               len == Len(arena.blocks)
    <3>2. m \in Nat /\ len \in Nat /\ len <= m /\ m < MaxAllocations /\ MaxAllocations \in Nat
      BY <1>t, <3>1
    <3>3. Cardinality(handed') = m + 1 /\ Len(arena'.blocks) = len
      BY <1>1, <1>6
    <3> HIDE DEF m, len
    <3>4. m + 1 <= MaxAllocations /\ len <= m + 1
      BY <3>2
    <3> QED
      BY <3>3, <3>4
  <2> QED
    BY <1>1, <1>6, <2>2, <2>3 DEF ArenaTyped
<1>8. ArenaRoom'
  <2>1. arena'.alloc_ptr.offset + arena'.remaining = kBlockSize
    <3> DEFINE offset == ptr.offset
               left == arena.remaining
    <3>1. offset \in Nat /\ left \in Nat /\ offset + left = kBlockSize
      BY <1>t, <1>3
    <3>2. /\ arena'.alloc_ptr.offset = offset + slop + bytes
          /\ arena'.remaining = left - (slop + bytes)
      BY <1>1
    <3> HIDE DEF offset, left
    <3>3. offset + slop + bytes + (left - (slop + bytes)) = kBlockSize
      <4>1. slop \in Nat /\ bytes \in Nat /\ kBlockSize \in Nat
        BY <1>t
      <4> QED
        BY <3>1, <4>1
    <3> QED
      BY <3>2, <3>3
  <2>2. arena.blocks[ptr.block] = kBlockSize /\ ptr.block <= Len(arena.blocks) /\ ptr.block # 0
    BY <1>t, <1>3 DEF ArenaRoom
  <2> HIDE DEF ptr
  <2> QED
    BY <1>1, <2>1, <2>2 DEF ArenaRoom
<1>9. ArenaPieces'
  <2>1. \A h \in handed' : h.offset + h.bytes <= arena'.blocks[h.block]
    <3>1. ptr.offset + slop + bytes <= kBlockSize
      BY <1>t, <1>3
    <3>2. arena.blocks[ptr.block] = kBlockSize
      BY <1>t, <1>3 DEF ArenaRoom
    <3>3. piece.offset + piece.bytes <= arena'.blocks[piece.block]
      BY <1>1, <3>1, <3>2
    <3> HIDE DEF piece
    <3> QED
      BY <1>t, <1>1, <1>2, <3>3 DEF ArenaPieces
  <2>2. \A h \in handed' : h.aligned => h.offset % Align = 0
    BY <1>t, <1>2 DEF ArenaPieces
  <2>3. \A h \in handed' : h.block = ptr.block => h.offset + h.bytes <= ptr.offset + slop + bytes
    <3> TAKE h \in handed'
    <3>1. CASE h \in handed
      <4>1. h.block = ptr.block => h.offset + h.bytes <= ptr.offset
        BY <1>t, <3>1 DEF ArenaPieces
      <4>2. h.offset + h.bytes \in Nat
        <5>1. h.offset \in Nat /\ h.bytes \in Nat
          BY <1>t, <3>1, ToolboxAssumption DEF ArenaTyped, Piece
        <5> QED
          BY <5>1
      <4> HIDE DEF ptr
      <4> QED
        BY <1>t, <1>o, <4>1, <4>2
    <3>2. CASE h = piece
      <4>1. h.offset + h.bytes = ptr.offset + slop + bytes
        BY <3>2
      <4> QED
        BY <1>o, <4>1
    <3> QED
      BY <1>2, <3>1, <3>2
  <2> QED
    BY <1>1, <1>6, <2>1, <2>2, <2>3 DEF ArenaPieces
<1> QED
  BY <1>1, <1>7, <1>8, <1>9 DEF ArenaIInv

(* The block that is made for a piece, or that the next pieces come from.  *)
Made(bytes) == IF bytes > kBlockSize \div 4 THEN bytes ELSE kBlockSize

(* A piece at the front of it.                                             *)
LEMMA FallbackMakes ==
  ASSUME ArenaTyped, NEW bytes \in Requests, NEW aligned \in BOOLEAN,
         A!AllocateFallback(bytes, aligned)
  PROVE  /\ arena' = [blocks |-> Append(arena.blocks, Made(bytes)),
                      alloc_ptr |-> IF bytes > kBlockSize \div 4
                                      THEN arena.alloc_ptr
                                      ELSE [block |-> Len(arena.blocks) + 1, offset |-> bytes],
                      remaining |-> IF bytes > kBlockSize \div 4
                                      THEN arena.remaining ELSE kBlockSize - bytes,
                      memory_usage |-> arena.memory_usage + Made(bytes) + PointerSize]
         /\ handed' = handed \union
              {[block |-> Len(arena.blocks) + 1, offset |-> 0, bytes |-> bytes, aligned |-> aligned]}
<1> DEFINE ptr == arena.alloc_ptr
           large == bytes > kBlockSize \div 4
           blocks == Append(arena.blocks, Made(bytes))
           usage == arena.memory_usage + Made(bytes) + PointerSize
           n == Len(arena.blocks) + 1
<1>t. /\ bytes \in Nat /\ kBlockSize \in Nat /\ arena.blocks \in Seq(Nat) /\ Made(bytes) \in Nat
      /\ arena \in [blocks : Seq(Nat), alloc_ptr : [block : Nat, offset : Nat],
                    remaining : 0 .. kBlockSize, memory_usage : Nat]
  BY ToolboxAssumption DEF ArenaTyped, Made
<1>1. A!AllocateNewBlock(arena, Made(bytes)) =
        [blocks |-> blocks, alloc_ptr |-> ptr, remaining |-> arena.remaining,
         memory_usage |-> usage]
  <2>1. A!AllocateNewBlock(arena, Made(bytes)) =
          [arena EXCEPT !.blocks = blocks, !.memory_usage = usage]
    BY DEF A!AllocateNewBlock
  <2> HIDE DEF blocks, usage
  <2> QED
    BY <1>t, <2>1
<1>2. large => arena' = [blocks |-> blocks, alloc_ptr |-> ptr, remaining |-> arena.remaining,
                         memory_usage |-> usage]
  <2> HAVE large
  <2>1. arena' = A!AllocateNewBlock(arena, Made(bytes))
    BY DEF A!AllocateFallback, Made
  <2> QED
    BY <1>1, <2>1
<1>3. ~large => arena' = [blocks |-> blocks, alloc_ptr |-> [block |-> n, offset |-> bytes],
                          remaining |-> kBlockSize - bytes, memory_usage |-> usage]
  <2> HAVE ~large
  <2>1. Made(bytes) = kBlockSize /\ arena' = A!FromBlock(A!NextBlock(arena), 0, bytes)
    BY DEF A!AllocateFallback, Made
  <2> HIDE DEF blocks, usage, large
  <2>2. A!NextBlock(arena) =
          [blocks |-> blocks, alloc_ptr |-> [block |-> n, offset |-> 0],
           remaining |-> kBlockSize, memory_usage |-> usage]
    <3> DEFINE a == A!AllocateNewBlock(arena, kBlockSize)
    <3>1. a = [blocks |-> blocks, alloc_ptr |-> ptr, remaining |-> arena.remaining,
               memory_usage |-> usage]
      BY <1>1, <2>1
    <3>2. A!NextBlock(arena) =
            [a EXCEPT !.alloc_ptr = [block |-> n, offset |-> 0], !.remaining = kBlockSize]
      BY DEF A!NextBlock
    <3> HIDE DEF a, n, ptr
    <3> QED
      BY <3>1, <3>2
  <2> HIDE DEF n
  <2>3. arena' = [blocks |-> blocks, alloc_ptr |-> [block |-> n, offset |-> 0 + 0 + bytes],
                  remaining |-> kBlockSize - (0 + bytes), memory_usage |-> usage]
    <3> DEFINE a == A!NextBlock(arena)
    <3>1. A!FromBlock(a, 0, bytes) =
            [a EXCEPT !.alloc_ptr = [a.alloc_ptr EXCEPT !.offset = a.alloc_ptr.offset + 0 + bytes],
                      !.remaining = a.remaining - (0 + bytes)]
      BY DEF A!FromBlock
    <3> HIDE DEF a
    <3>2. a.alloc_ptr = [block |-> n, offset |-> 0] /\ a.alloc_ptr.offset = 0
      BY <2>2 DEF a
    <3>3. [a.alloc_ptr EXCEPT !.offset = a.alloc_ptr.offset + 0 + bytes] =
            [block |-> n, offset |-> 0 + 0 + bytes]
      BY <3>2
    <3>4. arena' = [a EXCEPT !.alloc_ptr = [block |-> n, offset |-> 0 + 0 + bytes],
                             !.remaining = a.remaining - (0 + bytes)]
      BY <2>1, <3>1, <3>3 DEF a
    <3>5. a = [blocks |-> blocks, alloc_ptr |-> [block |-> n, offset |-> 0],
               remaining |-> kBlockSize, memory_usage |-> usage]
      BY <2>2 DEF a
    <3> QED
      BY <3>4, <3>5
  <2>4. 0 + 0 + bytes = bytes /\ kBlockSize - (0 + bytes) = kBlockSize - bytes
    BY <1>t
  <2> QED
    BY <2>3, <2>4
<1>4. arena'.blocks = blocks
  <2> HIDE DEF blocks, usage, large, n, ptr
  <2> QED
    BY <1>2, <1>3
<1>5. handed' = handed \union {[block |-> n, offset |-> 0, bytes |-> bytes, aligned |-> aligned]}
  <2>1. Len(blocks) = n
    BY <1>t, AppendProperties
  <2> HIDE DEF blocks, n
  <2> QED
    BY <1>4, <2>1 DEF A!AllocateFallback, A!Hand
<1> QED
  BY <1>2, <1>3, <1>5

(* A block is made for the piece or for the pieces from now on             *)
(* (arena.cpp:18-58).                                                      *)
LEMMA FallbackKeeps ==
  ASSUME ArenaIInv, Cardinality(handed) < MaxAllocations,
         NEW bytes \in Requests, NEW aligned \in BOOLEAN,
         A!AllocateFallback(bytes, aligned)
  PROVE  ArenaIInv'
<1> DEFINE ptr == arena.alloc_ptr
           large == bytes > kBlockSize \div 4
           made == Made(bytes)
           n == Len(arena.blocks) + 1
           piece == [block |-> n, offset |-> 0, bytes |-> bytes, aligned |-> aligned]
<1>t. /\ ArenaTyped /\ ArenaRoom /\ ArenaPieces
      /\ bytes \in Nat \ {0} /\ kBlockSize \in Nat /\ MaxAllocations \in Nat /\ PointerSize \in Nat
      /\ arena.blocks \in Seq(Nat) /\ Len(arena.blocks) \in Nat
      /\ arena.memory_usage \in Nat
      /\ ptr \in [block : Nat, offset : Nat] /\ arena.remaining \in 0 .. kBlockSize
      /\ Cardinality(handed) \in Nat /\ IsFiniteSet(handed)
      /\ Len(arena.blocks) <= Cardinality(handed)
  BY ToolboxAssumption, LenProperties, FS_CardinalityType DEF ArenaIInv, ArenaTyped
<1>n. /\ made \in Nat /\ bytes <= made /\ n \in Nat \ {0}
      /\ ~large => bytes <= kBlockSize /\ made = kBlockSize
  <2>1. kBlockSize \div 4 <= kBlockSize /\ kBlockSize \div 4 \in Nat
    BY <1>t
  <2> QED
    BY <1>t, <2>1 DEF Made
<1>1. /\ arena'.blocks = Append(arena.blocks, made)
      /\ arena'.alloc_ptr = IF large THEN ptr ELSE [block |-> n, offset |-> bytes]
      /\ arena'.remaining = IF large THEN arena.remaining ELSE kBlockSize - bytes
      /\ arena'.memory_usage = arena.memory_usage + made + PointerSize
      /\ handed' = handed \union {piece}
      /\ arena' = [blocks |-> arena'.blocks, alloc_ptr |-> arena'.alloc_ptr,
                   remaining |-> arena'.remaining, memory_usage |-> arena'.memory_usage]
  <2>1. /\ arena' = [blocks |-> Append(arena.blocks, made),
                     alloc_ptr |-> IF large THEN ptr ELSE [block |-> n, offset |-> bytes],
                     remaining |-> IF large THEN arena.remaining ELSE kBlockSize - bytes,
                     memory_usage |-> arena.memory_usage + made + PointerSize]
        /\ handed' = handed \union {piece}
    BY <1>t, FallbackMakes
  <2> HIDE DEF made, ptr, large, n, piece
  <2> QED
    BY <2>1
<1> HIDE DEF made
<1>b. /\ arena'.blocks \in Seq(Nat) /\ Len(arena'.blocks) = n /\ arena'.blocks[n] = made
      /\ \A i \in 1 .. Len(arena.blocks) : arena'.blocks[i] = arena.blocks[i]
  <2> HIDE DEF n
  <2> DEFINE blocks == arena.blocks
  <2>1. made \in Nat /\ blocks \in Seq(Nat) /\ arena'.blocks = Append(blocks, made)
    BY <1>t, <1>n, <1>1
  <2> HIDE DEF blocks
  <2>2. /\ Append(blocks, made) \in Seq(Nat)
        /\ Len(Append(blocks, made)) = Len(blocks) + 1
        /\ \A i \in 1 .. Len(blocks) : Append(blocks, made)[i] = blocks[i]
        /\ Append(blocks, made)[Len(blocks) + 1] = made
    BY <2>1, AppendProperties
  <2> QED
    BY <2>1, <2>2 DEF blocks, n
<1>2. \A h \in handed : h.block \in 1 .. Len(arena.blocks) /\ h.block # n
  BY <1>t DEF ArenaTyped, Piece
<1>3. /\ IsFiniteSet(handed') /\ Cardinality(handed') = Cardinality(handed) + 1
      /\ \A g, h \in handed' : g # h => ~A!Overlap(g, h)
  <2>1. piece.bytes \in Nat \ {0} /\ piece.offset \in Nat /\ piece.block = n
    BY <1>t
  <2> HIDE DEF piece, n
  <2>2. \A h \in handed : ~A!Overlap(piece, h)
    BY <1>2, <2>1 DEF A!Overlap
  <2> QED
    BY <1>t, <1>1, <2>1, <2>2, PieceApart
<1>4. ArenaTyped'
  <2>1. piece \in Piece'
    BY <1>t, <1>n, <1>b DEF Piece
  <2>2. handed \subseteq Piece'
    <3>1. Piece \subseteq Piece'
      BY <1>t, <1>b DEF Piece
    <3> QED
      BY <1>t, <3>1 DEF ArenaTyped
  <2>3. /\ arena'.alloc_ptr \in [block : Nat, offset : Nat]
        /\ arena'.remaining \in 0 .. kBlockSize
        /\ arena'.memory_usage \in Nat
    <3>1. arena'.memory_usage \in Nat
      <4>1. arena.memory_usage + made + PointerSize \in Nat
        <5> DEFINE usage == arena.memory_usage
        <5>1. usage \in Nat
          BY <1>t
        <5> HIDE DEF usage
        <5>2. usage + made + PointerSize \in Nat
          BY <1>t, <1>n, <5>1
        <5> QED
          BY <5>2 DEF usage
      <4> QED
        BY <1>1, <4>1
    <3>2. CASE large
      <4>1. arena'.alloc_ptr = ptr /\ arena'.remaining = arena.remaining
        BY <1>1, <3>2
      <4> QED
        BY <1>t, <3>1, <4>1
    <3>3. CASE ~large
      <4>1. /\ arena'.alloc_ptr = [block |-> n, offset |-> bytes]
            /\ arena'.remaining = kBlockSize - bytes
        BY <1>1, <3>3
      <4>2. kBlockSize - bytes \in 0 .. kBlockSize /\ n \in Nat /\ bytes \in Nat
        BY <1>t, <1>n, <3>3
      <4> HIDE DEF n
      <4> QED
        BY <3>1, <4>1, <4>2
    <3> QED
      BY <3>2, <3>3
  <2>4. Len(arena'.blocks) <= Cardinality(handed')
    BY <1>t, <1>b, <1>3
  <2>5. Cardinality(handed') <= MaxAllocations
    BY <1>t, <1>3
  <2>6. arena' \in [blocks : Seq(Nat), alloc_ptr : [block : Nat, offset : Nat],
                    remaining : 0 .. kBlockSize, memory_usage : Nat]
    BY <1>1, <1>b, <2>3
  <2> HIDE DEF piece
  <2> QED
    BY <1>1, <1>3, <2>1, <2>2, <2>4, <2>5, <2>6 DEF ArenaTyped
<1>5. ArenaRoom'
  <2>1. CASE large
    <3>1. arena'.alloc_ptr = ptr /\ arena'.remaining = arena.remaining
      BY <1>1, <2>1
    <3>2. CASE ptr.block = 0
      BY <1>t, <3>1, <3>2 DEF ArenaRoom
    <3>3. CASE ptr.block # 0
      <4>1. /\ ptr.block \in 1 .. Len(arena.blocks)
            /\ arena.blocks[ptr.block] = kBlockSize
            /\ ptr.offset + arena.remaining = kBlockSize
        BY <1>t, <3>3 DEF ArenaRoom
      <4>2. ptr.block <= Len(arena'.blocks) /\ arena'.blocks[ptr.block] = kBlockSize
        <5> DEFINE b == ptr.block
        <5>1. b \in 1 .. Len(arena.blocks) /\ arena.blocks[b] = kBlockSize
          BY <4>1
        <5> HIDE DEF b
        <5>2. arena'.blocks[b] = kBlockSize
          BY <1>b, <5>1
        <5> DEFINE len == Len(arena.blocks)
        <5>3. len \in Nat /\ b \in 1 .. len /\ Len(arena'.blocks) = len + 1
          BY <1>t, <1>b, <5>1
        <5> HIDE DEF len
        <5>4. b <= Len(arena'.blocks)
          BY <5>3
        <5> QED
          BY <5>2, <5>4 DEF b
      <4> HIDE DEF ptr
      <4> QED
        BY <3>1, <3>3, <4>1, <4>2 DEF ArenaRoom
    <3> QED
      BY <3>2, <3>3
  <2>2. CASE ~large
    <3>1. /\ arena'.alloc_ptr.block = n /\ arena'.alloc_ptr.offset = bytes
          /\ arena'.remaining = kBlockSize - bytes
      BY <1>1, <2>2
    <3>2. bytes + (kBlockSize - bytes) = kBlockSize
      BY <1>t
    <3> QED
      BY <1>n, <1>b, <2>2, <3>1, <3>2 DEF ArenaRoom
  <2> QED
    BY <2>1, <2>2
<1>6. ArenaPieces'
  <2>1. \A h \in handed' : h.offset + h.bytes <= arena'.blocks[h.block]
    <3>1. piece.offset + piece.bytes <= arena'.blocks[piece.block]
      BY <1>t, <1>n, <1>b
    <3> HIDE DEF piece
    <3> QED
      BY <1>t, <1>1, <1>2, <1>b, <3>1 DEF ArenaPieces
  <2>2. \A h \in handed' : h.aligned => h.offset % Align = 0
    <3>1. piece.offset % Align = 0
      BY ToolboxAssumption
    <3> HIDE DEF piece
    <3> QED
      BY <1>t, <1>1, <3>1 DEF ArenaPieces
  <2>3. \A h \in handed' :
          h.block = arena'.alloc_ptr.block => h.offset + h.bytes <= arena'.alloc_ptr.offset
    <3>1. CASE large
      <4>1. arena'.alloc_ptr = ptr
        BY <1>1, <3>1
      <4>2. ptr.block # n
        <5>1. ptr.block = 0 \/ ptr.block <= Len(arena.blocks)
          BY <1>t DEF ArenaRoom
        <5> QED
          BY <1>t, <5>1
      <4>3. piece.block = n
        OBVIOUS
      <4> HIDE DEF piece, n
      <4> QED
        BY <1>t, <1>1, <4>1, <4>2, <4>3 DEF ArenaPieces
    <3>2. CASE ~large
      <4>1. arena'.alloc_ptr.block = n /\ arena'.alloc_ptr.offset = bytes
        BY <1>1, <3>2
      <4>2. piece.offset + piece.bytes <= bytes
        BY <1>t
      <4> HIDE DEF piece, n
      <4> QED
        BY <1>1, <1>2, <4>1, <4>2
    <3> QED
      BY <3>1, <3>2
  <2> QED
    BY <1>3, <2>1, <2>2, <2>3 DEF ArenaPieces
<1>7. arena'.memory_usage = A!Total(arena'.blocks) + PointerSize * Len(arena'.blocks)
  <2> DEFINE before == A!Total(arena.blocks)
  <2>1. before \in Nat /\ A!Total(arena'.blocks) = before + made
    <3>1. made \in Nat /\ arena'.blocks = Append(arena.blocks, made)
      BY <1>n, <1>1
    <3> QED
      BY <1>t, <3>1, TotalGrows
  <2>2. arena.memory_usage = before + PointerSize * Len(arena.blocks)
    BY DEF ArenaIInv
  <2> HIDE DEF before
  <2>3. PointerSize * n = PointerSize * Len(arena.blocks) + PointerSize
    <3> DEFINE len == Len(arena.blocks)
    <3>1. len \in Nat /\ n = len + 1
      BY <1>t
    <3> HIDE DEF len, n
    <3>2. PointerSize * n = PointerSize * len + PointerSize
      BY <1>t, <3>1
    <3> QED
      BY <3>2 DEF len
  <2> DEFINE entries == PointerSize * Len(arena.blocks)
  <2>4. entries \in Nat
    BY <1>t
  <2>5. /\ arena'.memory_usage = before + entries + made + PointerSize
        /\ PointerSize * Len(arena'.blocks) = entries + PointerSize
    BY <1>1, <1>b, <2>2, <2>3
  <2> HIDE DEF entries
  <2>6. before + entries + made + PointerSize = before + made + (entries + PointerSize)
    BY <1>t, <1>n, <2>1, <2>4
  <2> QED
    BY <2>1, <2>5, <2>6
<1> QED
  BY <1>4, <1>5, <1>6, <1>7 DEF ArenaIInv

(* Allocations, aligned or not, keep the pieces apart (arena.cpp:18-58).   *)
LEMMA ArenaKeeps == ArenaIInv /\ [A!Next]_A!arenaVars => ArenaIInv'
<1> SUFFICES ASSUME ArenaIInv, [A!Next]_A!arenaVars PROVE ArenaIInv'
  OBVIOUS
<1>1. CASE A!Next
  <2>1. Cardinality(handed) < MaxAllocations
    BY <1>1 DEF A!Next, A!Cardinality, Cardinality
  <2>2. PICK bytes \in Requests : A!Allocate(bytes) \/ A!AllocateAligned(bytes)
    BY <1>1 DEF A!Next
  <2>t. /\ arena.alloc_ptr.offset \in Nat /\ arena.remaining \in Nat /\ bytes \in Nat
        /\ 0 \in Nat /\ TRUE \in BOOLEAN /\ FALSE \in BOOLEAN
    BY ToolboxAssumption DEF ArenaIInv, ArenaTyped
  <2>3. CASE A!Allocate(bytes)
    <3>1. CASE bytes <= arena.remaining
      <4>1. /\ 0 + bytes <= arena.remaining /\ arena.alloc_ptr.offset + 0 = arena.alloc_ptr.offset
        BY <2>t, <3>1
      <4>2. /\ arena' = A!FromBlock(arena, 0, bytes)
            /\ A!Hand(arena.alloc_ptr.block, arena.alloc_ptr.offset + 0, bytes, FALSE)
        BY <2>3, <3>1, <4>1 DEF A!Allocate
      <4> QED
        BY <2>1, <2>t, <4>1, <4>2, BlockKeeps
    <3>2. CASE ~(bytes <= arena.remaining)
      BY <2>1, <2>3, <2>t, <3>2, FallbackKeeps DEF A!Allocate
    <3> QED
      BY <3>1, <3>2
  <2>4. CASE A!AllocateAligned(bytes)
    <3>1. A!Slop \in Nat /\ (arena.alloc_ptr.offset + A!Slop) % Align = 0
      BY <2>t, SlopAligns
    <3> DEFINE slop == A!Slop
    <3>2. CASE bytes + A!Slop <= arena.remaining
      <4>1. /\ arena' = A!FromBlock(arena, slop, bytes)
            /\ A!Hand(arena.alloc_ptr.block, arena.alloc_ptr.offset + slop, bytes, TRUE)
        BY <2>4, <3>2 DEF A!AllocateAligned
      <4>2. slop \in Nat /\ bytes + slop <= arena.remaining
            /\ (arena.alloc_ptr.offset + slop) % Align = 0
        BY <3>1, <3>2
      <4> HIDE DEF slop
      <4>3. slop + bytes <= arena.remaining
        BY <2>t, <4>2
      <4> QED
        BY <2>1, <2>t, <4>1, <4>2, <4>3, BlockKeeps
    <3>3. CASE ~(bytes + A!Slop <= arena.remaining)
      BY <2>1, <2>4, <2>t, <3>3, FallbackKeeps DEF A!AllocateAligned
    <3> QED
      BY <3>2, <3>3
  <2> QED
    BY <2>2, <2>3, <2>4
<1>2. CASE UNCHANGED A!arenaVars
  <2>1. arena' = arena /\ handed' = handed
    BY <1>2 DEF A!arenaVars
  <2> QED
    BY <2>1 DEF ArenaIInv, ArenaTyped, ArenaRoom, ArenaPieces, Piece, A!Overlap
<1> QED
  BY <1>1, <1>2

(* The arena begins without a block.                                       *)
LEMMA ArenaStarts == A!Init => ArenaIInv
<1> SUFFICES ASSUME A!Init PROVE ArenaIInv
  OBVIOUS
<1>1. /\ arena = [blocks |-> <<>>, alloc_ptr |-> [block |-> 0, offset |-> 0], remaining |-> 0,
                  memory_usage |-> 0]
      /\ handed = {}
  BY DEF A!Init, A!Null
<1>2. /\ IsFiniteSet(handed) /\ Cardinality(handed) = 0
      /\ arena.blocks = <<>> /\ <<>> \in Seq(Nat) /\ Len(arena.blocks) = 0
  BY <1>1, FS_EmptySet
<1>3. A!Total(arena.blocks) = 0
  <2>1. PICK sum : Sums(arena.blocks, sum) /\ A!Total(arena.blocks) = sum[Len(arena.blocks)]
    BY <1>2, SumsExist
  <2> QED
    BY <1>2, <2>1 DEF Sums
<1>4. PointerSize * 0 = 0 /\ kBlockSize \in Nat /\ MaxAllocations \in Nat
  BY ToolboxAssumption
<1>5. ArenaTyped /\ ArenaRoom /\ ArenaPieces
  <2>1. arena \in [blocks : Seq(Nat), alloc_ptr : [block : Nat, offset : Nat],
                   remaining : 0 .. kBlockSize, memory_usage : Nat]
    BY <1>1, <1>2, <1>4
  <2> QED
    BY <1>1, <1>2, <1>4, <2>1 DEF ArenaTyped, ArenaRoom, ArenaPieces
<1> QED
  BY <1>1, <1>2, <1>3, <1>4, <1>5 DEF ArenaIInv

(* What the invariant says of the pieces.                                  *)
LEMMA ArenaHolds == ArenaIInv => A!TypeOK /\ A!OneHolder
<1> SUFFICES ASSUME ArenaIInv PROVE A!TypeOK /\ A!OneHolder
  OBVIOUS
<1>t. /\ ArenaTyped /\ ArenaRoom /\ ArenaPieces
      /\ kBlockSize \in Nat /\ MaxAllocations \in Nat
      /\ arena.blocks \in Seq(Nat) /\ Len(arena.blocks) \in Nat
      /\ arena.memory_usage \in Nat
      /\ arena.alloc_ptr \in [block : Nat, offset : Nat] /\ arena.remaining \in 0 .. kBlockSize
      /\ Cardinality(handed) \in Nat
      /\ Cardinality(handed) <= MaxAllocations /\ Len(arena.blocks) <= Cardinality(handed)
  BY ToolboxAssumption, LenProperties, FS_CardinalityType DEF ArenaIInv, ArenaTyped
<1>1. arena.alloc_ptr \in [block : 0 .. MaxAllocations, offset : 0 .. kBlockSize]
  <2> DEFINE block == arena.alloc_ptr.block
             offset == arena.alloc_ptr.offset
  <2>1. /\ block \in Nat /\ offset \in Nat /\ arena.remaining \in Nat
        /\ \/ block = 0 /\ offset = 0
           \/ block <= Len(arena.blocks) /\ offset + arena.remaining = kBlockSize
    BY <1>t DEF ArenaRoom
  <2>2. arena.alloc_ptr = [block |-> block, offset |-> offset]
    BY <1>t
  <2> HIDE DEF block, offset
  <2>3. block \in 0 .. MaxAllocations /\ offset \in 0 .. kBlockSize
    BY <1>t, <2>1
  <2> QED
    BY <2>2, <2>3
<1>2. A!TypeOK
  BY <1>t, <1>1 DEF A!TypeOK, ArenaTyped, Piece
<1>3. arena.alloc_ptr # A!Null =>
        arena.alloc_ptr.offset + arena.remaining = arena.blocks[arena.alloc_ptr.block]
  BY <1>t DEF ArenaRoom, A!Null
<1> QED
  BY <1>t, <1>2, <1>3 DEF A!OneHolder, ArenaPieces, ArenaIInv

-----------------------------------------------------------------------------
(* OwnedValue                                                              *)

(* The objects at state own the blocks of heap, one each, and mean what    *)
(* they own.                                                               *)
Owned(state, heap, meant) ==
  /\ DOMAIN state \subseteq Places /\ state \in [DOMAIN state -> Blocks \union {0}]
  /\ heap \in [{state[i] : i \in DOMAIN state} \ {0} -> Contents]
  /\ meant \in [DOMAIN state -> Contents \union {"none"}]
  /\ \A i, j \in DOMAIN state : state[i] = state[j] /\ state[i] # 0 => i = j
  /\ \A i \in DOMAIN state : meant[i] = IF state[i] = 0 THEN "none" ELSE heap[state[i]]

(* The objects of one type at a time.                                      *)
ValueIInv == ovType \in {"Status", "hyper_function"} /\ Owned(ovState, ovHeap, ovMeant)

(* As long as a place has no object there is a block that is free.         *)
LEMMA FreshIsFree ==
  ASSUME NEW state, NEW heap, NEW meant, Owned(state, heap, meant),
         NEW i \in Places \ DOMAIN state
  PROVE  V!Fresh(heap) \in Blocks /\ V!Fresh(heap) \notin DOMAIN heap
<1> DEFINE owned == {state[k] : k \in DOMAIN state}
<1>1. /\ IsFiniteSet(Places) /\ IsFiniteSet(Blocks)
      /\ Cardinality(Places) <= Cardinality(Blocks)
      /\ DOMAIN state \subseteq Places /\ DOMAIN heap \subseteq owned
  BY ToolboxAssumption DEF Owned
<1>2. IsFiniteSet(DOMAIN state) /\ Cardinality(DOMAIN state) < Cardinality(Places)
  <2>1. IsFiniteSet(DOMAIN state) /\ Cardinality(DOMAIN state) <= Cardinality(Places)
    BY <1>1, FS_Subset
  <2>2. Cardinality(DOMAIN state) # Cardinality(Places)
    BY <1>1, FS_Subset
  <2>3. Cardinality(DOMAIN state) \in Nat /\ Cardinality(Places) \in Nat
    BY <1>1, <2>1, FS_CardinalityType
  <2> QED
    BY <2>1, <2>2, <2>3
<1>3. IsFiniteSet(owned) /\ Cardinality(owned) <= Cardinality(DOMAIN state)
  <2>1. state \in Surjection(DOMAIN state, owned)
    BY DEF Surjection, Owned
  <2> QED
    BY <1>2, <2>1, FS_Surjection
<1>4. \E b \in Blocks : b \notin DOMAIN heap
  <2> SUFFICES ASSUME Blocks \subseteq owned PROVE FALSE
    BY <1>1
  <2>1. Cardinality(Blocks) <= Cardinality(owned)
    BY <1>3, FS_Subset
  <2>2. /\ Cardinality(Blocks) \in Nat /\ Cardinality(owned) \in Nat
        /\ Cardinality(Places) \in Nat /\ Cardinality(DOMAIN state) \in Nat
    BY <1>1, <1>2, <1>3, FS_CardinalityType
  <2> QED
    BY <1>1, <1>2, <1>3, <2>1, <2>2
<1> QED
  BY <1>4 DEF V!Fresh

(* An object goes, with its block; one comes, with none, or with a fresh   *)
(* one.                                                                    *)
LEMMA OneGoes ==
  ASSUME NEW state, NEW heap, NEW meant, Owned(state, heap, meant),
         NEW i \in DOMAIN state
  PROVE  Owned(V!Without(state, {i}), V!Without(heap, {state[i]}), V!Without(meant, {i}))
<1> DEFINE s == V!Without(state, {i})
           h == V!Without(heap, {state[i]})
<1>1. /\ DOMAIN s = DOMAIN state \ {i} /\ \A k \in DOMAIN s : s[k] = state[k]
      /\ DOMAIN h = DOMAIN heap \ {state[i]} /\ \A b \in DOMAIN h : h[b] = heap[b]
  BY DEF V!Without
<1>2. DOMAIN h = {s[k] : k \in DOMAIN s} \ {0}
  <2>1. DOMAIN heap = {state[k] : k \in DOMAIN state} \ {0}
    BY DEF Owned
  <2>2. \A k \in DOMAIN s : state[k] # 0 => state[k] # state[i]
    BY <1>1 DEF Owned
  <2>3. DOMAIN h = {state[k] : k \in DOMAIN state} \ {0, state[i]}
    BY <1>1, <2>1
  <2>4. {s[k] : k \in DOMAIN s} = {state[k] : k \in DOMAIN s}
    BY <1>1
  <2>5. {state[k] : k \in DOMAIN state} \ {0, state[i]} = {state[k] : k \in DOMAIN s} \ {0}
    BY <1>1, <2>2
  <2> HIDE DEF s, h
  <2> QED
    BY <2>3, <2>4, <2>5
<1>3. h \in [{s[k] : k \in DOMAIN s} \ {0} -> Contents]
  <2>1. \A b \in DOMAIN h : h[b] \in Contents
    BY <1>1 DEF Owned
  <2>2. h = [b \in DOMAIN h |-> h[b]]
    BY DEF V!Without
  <2> QED
    BY <1>2, <2>1, <2>2
<1>4. ASSUME NEW k \in DOMAIN s
      PROVE  meant[k] = IF s[k] = 0 THEN "none" ELSE h[s[k]]
  <2>1. meant[k] = IF state[k] = 0 THEN "none" ELSE heap[state[k]]
    BY <1>1 DEF Owned
  <2>2. s[k] = state[k] /\ (s[k] # 0 => s[k] \in DOMAIN h)
    BY <1>1, <1>2
  <2> HIDE DEF s, h
  <2> QED
    BY <2>1, <2>2, <1>1
<1>5. DOMAIN V!Without(meant, {i}) = DOMAIN s /\ \A k \in DOMAIN s : V!Without(meant, {i})[k] = meant[k]
  BY <1>1 DEF V!Without, Owned
<1>6. /\ s \in [DOMAIN s -> Blocks \union {0}]
      /\ V!Without(meant, {i}) \in [DOMAIN s -> Contents \union {"none"}]
  BY <1>1, <1>5 DEF V!Without, Owned
<1> QED
  BY <1>1, <1>3, <1>4, <1>5, <1>6 DEF Owned

(* An object with no block comes.                                          *)
LEMMA NullComes ==
  ASSUME NEW state, NEW heap, NEW meant, Owned(state, heap, meant),
         NEW i \in Places \ DOMAIN state
  PROVE  Owned(V!Set(state, i, 0), heap, V!Set(meant, i, "none"))
<1> DEFINE s == V!Set(state, i, 0)
           m == V!Set(meant, i, "none")
<1>1. DOMAIN s = DOMAIN state \union {i} /\ s[i] = 0 /\ \A k \in DOMAIN state : s[k] = state[k]
  BY DEF V!Set
<1>2. DOMAIN m = DOMAIN s /\ m[i] = "none" /\ \A k \in DOMAIN state : m[k] = meant[k]
  BY DEF V!Set, Owned
<1>3. s \in [DOMAIN s -> Blocks \union {0}] /\ m \in [DOMAIN s -> Contents \union {"none"}]
  BY <1>1, <1>2 DEF V!Set, Owned
<1>4. {s[k] : k \in DOMAIN s} \ {0} = {state[k] : k \in DOMAIN state} \ {0}
  BY <1>1
<1> HIDE DEF s, m
<1>5. \A k, l \in DOMAIN s : s[k] = s[l] /\ s[k] # 0 => k = l
  BY <1>1 DEF Owned
<1>6. \A k \in DOMAIN s : m[k] = IF s[k] = 0 THEN "none" ELSE heap[s[k]]
  BY <1>1, <1>2 DEF Owned
<1>7. DOMAIN s \subseteq Places
  BY <1>1 DEF Owned
<1> QED
  BY <1>3, <1>4, <1>5, <1>6, <1>7 DEF Owned, s, m

(* An object with a block of its own comes.                                *)
LEMMA FreshComes ==
  ASSUME NEW state, NEW heap, NEW meant, Owned(state, heap, meant),
         NEW i \in Places \ DOMAIN state, NEW content \in Contents
  PROVE  LET b == V!Fresh(heap)
         IN  Owned(V!Set(state, i, b), V!Set(heap, b, content), V!Set(meant, i, content))
<1> DEFINE b == V!Fresh(heap)
           s == V!Set(state, i, b)
           h == V!Set(heap, b, content)
           m == V!Set(meant, i, content)
<1>1. b \in Blocks /\ b \notin DOMAIN heap /\ b # 0
  BY FreshIsFree, ToolboxAssumption
<1> HIDE DEF b
<1>2. DOMAIN s = DOMAIN state \union {i} /\ s[i] = b /\ \A k \in DOMAIN state : s[k] = state[k]
  BY DEF V!Set
<1>3. DOMAIN m = DOMAIN s /\ m[i] = content /\ \A k \in DOMAIN state : m[k] = meant[k]
  BY DEF V!Set, Owned
<1>4. DOMAIN h = DOMAIN heap \union {b} /\ h[b] = content /\ \A x \in DOMAIN heap : h[x] = heap[x]
  BY <1>1 DEF V!Set
<1>5. s \in [DOMAIN s -> Blocks \union {0}] /\ m \in [DOMAIN s -> Contents \union {"none"}]
  BY <1>1, <1>2, <1>3 DEF V!Set, Owned
<1>6. DOMAIN heap = {state[k] : k \in DOMAIN state} \ {0}
  BY DEF Owned
<1>7. {s[k] : k \in DOMAIN s} \ {0} = DOMAIN h
  BY <1>1, <1>2, <1>4, <1>6
<1>8. h \in [DOMAIN h -> Contents]
  BY <1>4 DEF V!Set, Owned
<1>9. \A k \in DOMAIN state : state[k] # b
  BY <1>1, <1>6
<1> HIDE DEF s, m, h
<1>10. ASSUME NEW k \in DOMAIN s
       PROVE  m[k] = IF s[k] = 0 THEN "none" ELSE h[s[k]]
  BY <1>1, <1>2, <1>3, <1>4, <1>6 DEF Owned
<1>11. \A j, k \in DOMAIN s : s[j] = s[k] /\ s[j] # 0 => j = k
  BY <1>2, <1>9 DEF Owned
<1> QED
  BY <1>2, <1>5, <1>7, <1>8, <1>10, <1>11 DEF Owned, b, s, h, m

(* Two objects exchange what they own.                                     *)
LEMMA TwoSwap ==
  ASSUME NEW state, NEW heap, NEW meant, Owned(state, heap, meant),
         NEW i \in DOMAIN state, NEW j \in DOMAIN state
  PROVE  Owned([state EXCEPT ![i] = state[j], ![j] = state[i]], heap,
               [meant EXCEPT ![i] = meant[j], ![j] = meant[i]])
<1> DEFINE s == [state EXCEPT ![i] = state[j], ![j] = state[i]]
           m == [meant EXCEPT ![i] = meant[j], ![j] = meant[i]]
<1>1. /\ DOMAIN s = DOMAIN state /\ s[i] = state[j] /\ s[j] = state[i]
      /\ \A k \in DOMAIN state \ {i, j} : s[k] = state[k]
  OBVIOUS
<1>2. /\ DOMAIN m = DOMAIN state /\ m[i] = meant[j] /\ m[j] = meant[i]
      /\ \A k \in DOMAIN state \ {i, j} : m[k] = meant[k]
  BY DEF Owned
<1>3. s \in [DOMAIN s -> Blocks \union {0}] /\ m \in [DOMAIN s -> Contents \union {"none"}]
  BY DEF Owned
<1>4. {s[k] : k \in DOMAIN s} = {state[k] : k \in DOMAIN state}
  BY <1>1
<1> HIDE DEF s, m
<1>5. \A k, l \in DOMAIN s : s[k] = s[l] /\ s[k] # 0 => k = l
  BY <1>1 DEF Owned
<1>6. \A k \in DOMAIN s : m[k] = IF s[k] = 0 THEN "none" ELSE heap[s[k]]
  BY <1>1, <1>2 DEF Owned
<1> QED
  BY <1>1, <1>3, <1>4, <1>5, <1>6 DEF Owned, s, m

(* Constructors, assignments and destructors of both types                 *)
(* (status.h:89-108, hyper_function.h:53-100).                             *)
LEMMA ValueKeeps ==
  ASSUME ValueIInv, [V!Next]_V!ovVars
  PROVE  ValueIInv'
<1>o. Owned(ovState, ovHeap, ovMeant) /\ DOMAIN ovState \subseteq Places
  BY DEF ValueIInv, Owned
<1>u. ASSUME Owned(ovState', ovHeap', ovMeant'), UNCHANGED ovType
      PROVE  ValueIInv'
  BY <1>u DEF ValueIInv
<1>s. \A f, x, y : x \in DOMAIN f => V!Set(V!Without(f, {x}), x, y) = V!Set(f, x, y)
  BY DEF V!Set, V!Without
<1>m. ASSUME NEW j \in DOMAIN ovState
      PROVE  /\ ovMeant[j] = IF ovState[j] = 0 THEN "none" ELSE ovHeap[ovState[j]]
             /\ ovMeant[j] \in Contents \union {"none"}
             /\ ovState[j] # 0 => ovMeant[j] \in Contents /\ ovState[j] \in DOMAIN ovHeap
  BY <1>o DEF Owned
(* What an object is given anew is as if it had gone and come again.       *)
<1>c. ASSUME NEW state, NEW heap, NEW meant, Owned(state, heap, meant),
             NEW i \in Places \ DOMAIN state,
             NEW j \in DOMAIN ovState, ovState[j] # 0 => heap[ovState[j]] = ovMeant[j],
             \A b : V!Set(ovState, i, b) = V!Set(state, i, b),
             \A c : V!Set(ovMeant, i, c) = V!Set(meant, i, c),
             V!CopyState(i, j, heap)
      PROVE  ValueIInv'
  <2>1. CASE ovState[j] = 0
    <3>1. /\ ovState' = V!Set(state, i, 0) /\ ovHeap' = heap
          /\ ovMeant' = V!Set(meant, i, "none") /\ UNCHANGED ovType
      BY <1>c, <1>m, <2>1 DEF V!CopyState, V!Has
    <3> QED
      BY <1>c, <3>1, <1>u, NullComes
  <2>2. CASE ovState[j] # 0
    <3>1. /\ ovState' = V!Set(state, i, V!Fresh(heap))
          /\ ovHeap' = V!Set(heap, V!Fresh(heap), ovMeant[j])
          /\ ovMeant' = V!Set(meant, i, ovMeant[j]) /\ UNCHANGED ovType
          /\ ovMeant[j] \in Contents
      BY <1>c, <1>m, <2>2 DEF V!CopyState, V!Has
    <3> QED
      BY <1>c, <3>1, <1>u, FreshComes
  <2> QED
    BY <2>1, <2>2
<1>1. ASSUME NEW i \in Places, NEW content \in Contents, V!Construct(i, content)
      PROVE  ValueIInv'
  <2>1. /\ i \in Places \ DOMAIN ovState
        /\ ovState' = V!Set(ovState, i, V!Fresh(ovHeap))
        /\ ovHeap' = V!Set(ovHeap, V!Fresh(ovHeap), content)
        /\ ovMeant' = V!Set(ovMeant, i, content) /\ UNCHANGED ovType
    BY <1>1 DEF V!Construct, V!Has, V!Live
  <2> QED
    BY <2>1, <1>o, <1>u, FreshComes
<1>2. ASSUME NEW i \in Places, V!ConstructNull(i)
      PROVE  ValueIInv'
  <2>1. /\ i \in Places \ DOMAIN ovState
        /\ ovState' = V!Set(ovState, i, 0) /\ ovHeap' = ovHeap
        /\ ovMeant' = V!Set(ovMeant, i, "none") /\ UNCHANGED ovType
    BY <1>2 DEF V!ConstructNull, V!Has, V!Live
  <2> QED
    BY <2>1, <1>o, <1>u, NullComes
<1>3. ASSUME NEW i \in Places, NEW j \in Places, V!CopyConstruct(i, j)
      PROVE  ValueIInv'
  <2>1. i \in Places \ DOMAIN ovState /\ j \in DOMAIN ovState /\ V!CopyState(i, j, ovHeap)
    BY <1>3 DEF V!CopyConstruct, V!Live
  <2> QED
    BY <2>1, <1>o, <1>c, <1>m
<1>4. ASSUME NEW i \in Places, NEW j \in Places, V!MoveConstruct(i, j)
      PROVE  ValueIInv'
  <2> DEFINE s == V!Set(ovState, i, 0)
             m == V!Set(ovMeant, i, "none")
  <2>1. /\ i \in Places \ DOMAIN ovState /\ j \in DOMAIN ovState
        /\ ovState' = V!Set(V!Set(ovState, j, 0), i, ovState[j])
        /\ ovMeant' = V!Set(V!Set(ovMeant, j, "none"), i, ovMeant[j])
        /\ UNCHANGED <<ovType, ovHeap>>
    BY <1>4 DEF V!MoveConstruct, V!Live
  <2>2. Owned(s, ovHeap, m)
    BY <2>1, <1>o, NullComes
  <2>3. DOMAIN ovMeant = DOMAIN ovState
    BY <1>o DEF Owned
  <2>4. i \in DOMAIN s /\ j \in DOMAIN s
    BY <2>1 DEF V!Set
  <2>5. ovState' = [s EXCEPT ![i] = s[j], ![j] = s[i]]
    BY <2>1 DEF V!Set
  <2>6. ovMeant' = [m EXCEPT ![i] = m[j], ![j] = m[i]]
    BY <2>1, <2>3 DEF V!Set
  <2> HIDE DEF s, m
  <2> QED
    BY <2>1, <2>2, <2>4, <2>5, <2>6, <1>u, TwoSwap
<1>5. ASSUME NEW i \in Places, NEW j \in Places, V!CopyAssign(i, j)
      PROVE  ValueIInv'
  <2> DEFINE s == V!Without(ovState, {i})
             h == V!Without(ovHeap, {ovState[i]})
             m == V!Without(ovMeant, {i})
  <2>1. i \in DOMAIN ovState /\ j \in DOMAIN ovState /\ i # j
    BY <1>5 DEF V!CopyAssign, V!Live
  <2>2. CASE UNCHANGED V!ovVars
    BY <2>2 DEF V!ovVars, ValueIInv
  <2>3. CASE V!CopyState(i, j, h)
    <3>1. Owned(s, h, m)
      BY <2>1, <1>o, OneGoes
    <3>2. i \in Places \ DOMAIN s
      BY DEF V!Without
    <3>3. /\ \A b : V!Set(ovState, i, b) = V!Set(s, i, b)
          /\ \A c : V!Set(ovMeant, i, c) = V!Set(m, i, c)
      BY <2>1, <1>o, <1>s DEF Owned
    <3>4. ovState[j] # 0 => h[ovState[j]] = ovMeant[j]
      <4>1. ovState[j] # 0 => ovState[j] # ovState[i] /\ ovState[j] \in DOMAIN ovHeap
        BY <2>1, <1>m, <1>o DEF Owned
      <4>2. ovState[j] # 0 => h[ovState[j]] = ovHeap[ovState[j]]
        BY <4>1 DEF V!Without
      <4> QED
        BY <2>1, <4>2, <1>m
    <3> HIDE DEF s, h, m
    <3> QED
      BY <2>1, <2>3, <3>1, <3>2, <3>3, <3>4, <1>c, <1>m
  <2> QED
    BY <1>5, <2>2, <2>3 DEF V!CopyAssign
<1>6. ASSUME NEW i \in Places, V!SelfAssign(i)
      PROVE  ValueIInv'
  <2> DEFINE s == V!Without(ovState, {i})
             h == V!Without(ovHeap, {ovState[i]})
             m == V!Without(ovMeant, {i})
  <2>1. i \in DOMAIN ovState
    BY <1>6 DEF V!SelfAssign, V!Live
  <2>2. CASE UNCHANGED V!ovVars
    BY <2>2 DEF V!ovVars, ValueIInv
  <2>3. CASE V!Has(i, 0, h, "none")
    <3>1. Owned(s, h, m) /\ i \in Places \ DOMAIN s
      BY <2>1, <1>o, OneGoes DEF V!Without
    <3>2. ovState' = V!Set(s, i, 0) /\ ovMeant' = V!Set(m, i, "none")
      BY <2>1, <2>3, <1>o, <1>s DEF Owned, V!Has
    <3>3. ovHeap' = h /\ UNCHANGED ovType
      BY <2>3 DEF V!Has
    <3> HIDE DEF s, h, m
    <3> QED
      BY <3>1, <3>2, <3>3, <1>u, NullComes
  <2> QED
    BY <1>6, <2>2, <2>3 DEF V!SelfAssign
<1>7. ASSUME NEW i \in Places, NEW j \in Places, V!MoveAssign(i, j)
      PROVE  ValueIInv'
  <2>1. /\ i \in DOMAIN ovState /\ j \in DOMAIN ovState
        /\ ovState' = [ovState EXCEPT ![i] = ovState[j], ![j] = ovState[i]]
        /\ ovMeant' = [ovMeant EXCEPT ![i] = ovMeant[j], ![j] = ovMeant[i]]
        /\ UNCHANGED <<ovType, ovHeap>>
    BY <1>7 DEF V!MoveAssign, V!Live
  <2> QED
    BY <2>1, <1>o, <1>u, TwoSwap
<1>8. ASSUME NEW i \in Places, V!Destroy(i)
      PROVE  ValueIInv'
  <2>1. /\ i \in DOMAIN ovState /\ ovState' = V!Without(ovState, {i})
        /\ ovHeap' = V!Without(ovHeap, {ovState[i]})
        /\ ovMeant' = V!Without(ovMeant, {i}) /\ UNCHANGED ovType
    BY <1>8 DEF V!Destroy, V!Live
  <2> QED
    BY <2>1, <1>o, <1>u, OneGoes
<1>9. CASE UNCHANGED V!ovVars
  BY <1>9 DEF V!ovVars, ValueIInv
<1> QED
  BY <1>1, <1>2, <1>3, <1>4, <1>5, <1>6, <1>7, <1>8, <1>9 DEF V!Next

(* There is no object at first.                                            *)
LEMMA ValueStarts ==
  ASSUME V!Init
  PROVE  ValueIInv
<1>1. DOMAIN << >> = {}
  OBVIOUS
<1>2. /\ ovState = << >> /\ ovHeap = << >> /\ ovMeant = << >>
      /\ ovType \in {"Status", "hyper_function"}
  BY DEF V!Init
<1>3. \A s : << >> \in [{} -> s]
  OBVIOUS
<1> QED
  BY <1>1, <1>2, <1>3 DEF ValueIInv, Owned

(* What the invariant says of the owners.                                  *)
LEMMA ValueHolds ==
  ASSUME ValueIInv
  PROVE  V!TypeOK /\ V!OneOwner
BY DEF ValueIInv, Owned, V!TypeOK, V!OneOwner, V!Live

-----------------------------------------------------------------------------
(* AsioTimer                                                               *)

(* The end of a wait for timer id is queued.                               *)
Ended(id) == \E i \in 1 .. Len(asioQueue) : asioQueue[i] = [what |-> "ended", id |-> id]

Armed == \A id \in asioMap : id \in asioWaits \/ id \in asioMissed \/ Ended(id)

(* The timer that set_timer has armed and not inserted yet.                *)
Inserting ==
  asioSetting.at = "insert" =>
    asioSetting.waits \/ asioSetting.id \in asioMissed \/ Ended(asioSetting.id)

AsioIInv == T!TypeOK /\ Armed /\ Inserting

(* What is queued stays queued when an entry is added.                     *)
LEMMA QueueGrows ==
  ASSUME T!TypeOK, NEW what \in {"ended", "posted"}, NEW id \in TimerIds, T!Queued(what, id)
  PROVE  /\ asioQueue' \in Seq(T!Entry) /\ Len(asioQueue') <= MaxQueue
         /\ \A x : Ended(x) => Ended(x)'
         /\ what = "ended" => Ended(id)'
<1> DEFINE entry == [what |-> what, id |-> id]
<1>1. asioQueue \in Seq(T!Entry) /\ entry \in T!Entry
  BY DEF T!TypeOK, T!Entry
<1>2. Len(asioQueue) < MaxQueue /\ asioQueue' = Append(asioQueue, entry)
  BY DEF T!Queued
<1>3. PICK n \in Nat : n = Len(asioQueue)
  BY <1>1
<1> HIDE DEF entry
<1>4. /\ asioQueue' \in Seq(T!Entry) /\ Len(asioQueue') = n + 1 /\ asioQueue'[n + 1] = entry
      /\ \A i \in 1 .. n : asioQueue'[i] = asioQueue[i]
  BY <1>1, <1>2, <1>3, AppendProperties
<1>5. Len(asioQueue') <= MaxQueue
  BY <1>2, <1>3, <1>4, ToolboxAssumption
<1>6. ASSUME NEW x, Ended(x) PROVE Ended(x)'
  <2>1. PICK i \in 1 .. n : asioQueue[i] = [what |-> "ended", id |-> x]
    BY <1>3, <1>6 DEF Ended
  <2>2. i \in 1 .. Len(asioQueue') /\ asioQueue'[i] = [what |-> "ended", id |-> x]
    BY <1>4, <2>1
  <2> QED
    BY <2>2 DEF Ended
<1>7. ASSUME what = "ended" PROVE Ended(id)'
  <2>1. n + 1 \in 1 .. Len(asioQueue')
    BY <1>4
  <2>2. asioQueue'[n + 1] = [what |-> "ended", id |-> id]
    BY <1>4, <1>7 DEF entry
  <2> QED
    BY <2>1, <2>2 DEF Ended
<1> QED
  BY <1>4, <1>5, <1>6, <1>7

(* What the io thread takes is the first of the queue.                     *)
LEMMA QueueShrinks ==
  ASSUME T!TypeOK, NEW entry, T!Takes(entry)
  PROVE  /\ asioQueue' \in Seq(T!Entry) /\ Len(asioQueue') <= MaxQueue
         /\ \A x : Ended(x) /\ entry # [what |-> "ended", id |-> x] => Ended(x)'
<1>1. asioQueue \in Seq(T!Entry) /\ Len(asioQueue) <= MaxQueue
  BY DEF T!TypeOK
<1>2. asioQueue # <<>> /\ entry = Head(asioQueue) /\ asioQueue' = Tail(asioQueue)
  BY DEF T!Takes
<1>3. PICK n \in Nat : n = Len(asioQueue)
  BY <1>1
<1>4. /\ asioQueue' \in Seq(T!Entry) /\ Len(asioQueue') = n - 1 /\ n >= 1 /\ entry = asioQueue[1]
      /\ \A i \in 1 .. n - 1 : asioQueue'[i] = asioQueue[i + 1]
  <2>1. n # 0
    BY <1>1, <1>2, <1>3, EmptySeq
  <2>2. entry = asioQueue[1]
    BY <1>1, <1>2
  <2> QED
    BY <1>1, <1>2, <1>3, <2>1, <2>2, HeadTailProperties
<1>5. \A x : Ended(x) /\ entry # [what |-> "ended", id |-> x] => Ended(x)'
  <2> SUFFICES ASSUME NEW x, Ended(x), entry # [what |-> "ended", id |-> x] PROVE Ended(x)'
    OBVIOUS
  <2>1. PICK i \in 1 .. n : asioQueue[i] = [what |-> "ended", id |-> x]
    BY <1>3 DEF Ended
  <2>2. PICK j \in 1 .. n - 1 : i = j + 1
    <3>1. i # 1
      BY <1>4, <2>1
    <3>2. i - 1 \in 1 .. n - 1 /\ i = (i - 1) + 1
      BY <3>1
    <3> QED
      BY <3>2
  <2>3. j \in 1 .. Len(asioQueue') /\ asioQueue'[j] = [what |-> "ended", id |-> x]
    BY <1>4, <2>1, <2>2
  <2> QED
    BY <2>3 DEF Ended
<1> QED
  BY <1>1, <1>3, <1>4, <1>5, ToolboxAssumption

(* Sets and kills of both threads, ends of waits and of callbacks          *)
(* (asio_timer_base.cpp:20-68) keep every timer armed.                     *)
LEMMA AsioKeeps ==
  ASSUME AsioIInv, [T!Next]_asioVars
  PROVE  AsioIInv'
<1>1. /\ asioMap \subseteq TimerIds /\ asioWaits \subseteq asioMap
      /\ asioSetting \in [at : {"out", "post", "arm", "insert"}, id : TimerIds, waits : BOOLEAN]
      /\ asioQueue \in Seq(T!Entry) /\ Len(asioQueue) <= MaxQueue
      /\ asioCalling \subseteq TimerIds /\ asioStopped \in BOOLEAN /\ asioMissed \subseteq TimerIds
  BY DEF AsioIInv, T!TypeOK
<1>2. T!TypeOK /\ Armed /\ Inserting
  BY DEF AsioIInv
<1>3. ASSUME UNCHANGED asioQueue, NEW x PROVE Ended(x)' <=> Ended(x)
  BY <1>3 DEF Ended
<1>4. asioSetting.id \in TimerIds /\ asioSetting.waits \in BOOLEAN
  BY <1>1
<1> DEFINE Settings == [at : {"out", "post", "arm", "insert"}, id : TimerIds, waits : BOOLEAN]
           Typed == /\ asioMap' \subseteq TimerIds /\ asioWaits' \subseteq asioMap'
                    /\ asioSetting' \in Settings
                    /\ asioCalling' \subseteq TimerIds /\ asioStopped' \in BOOLEAN
                    /\ asioMissed' \subseteq TimerIds
<1>5. ASSUME Typed, asioQueue' \in Seq(T!Entry), Len(asioQueue') <= MaxQueue PROVE T!TypeOK'
  BY <1>5 DEF T!TypeOK, T!Entry
<1>6. ASSUME UNCHANGED asioQueue, Typed PROVE T!TypeOK'
  BY <1>1, <1>5, <1>6
<1>7. ASSUME NEW id \in TimerIds, T!SetBegins(id) PROVE AsioIInv'
  <2>1. /\ id \notin asioMap /\ asioMissed' = asioMissed \ {id}
        /\ asioSetting' = [at |-> "post", id |-> id, waits |-> FALSE]
        /\ UNCHANGED <<asioMap, asioWaits, asioQueue, asioCalling, asioStopped>>
    BY <1>7 DEF T!SetBegins
  <2>2. T!TypeOK'
    BY <1>1, <1>6, <2>1
  <2>3. Armed'
    BY <1>2, <1>3, <2>1 DEF Armed
  <2>4. Inserting'
    BY <2>1 DEF Inserting
  <2> QED
    BY <2>2, <2>3, <2>4 DEF AsioIInv
<1>8. ASSUME NEW run_once \in BOOLEAN, T!Post(run_once) PROVE AsioIInv'
  <2>1. /\ asioSetting.at = "post" /\ asioSetting' = [asioSetting EXCEPT !.at = "arm"]
        /\ UNCHANGED <<asioMap, asioWaits, asioCalling, asioStopped, asioMissed>>
        /\ IF run_once THEN T!Queued("posted", asioSetting.id) ELSE UNCHANGED asioQueue
    BY <1>8 DEF T!Post
  <2>2. /\ asioQueue' \in Seq(T!Entry) /\ Len(asioQueue') <= MaxQueue
        /\ \A x : Ended(x) => Ended(x)'
    BY <1>1, <1>2, <1>3, <1>4, <2>1, QueueGrows
  <2>3. T!TypeOK'
    BY <1>1, <1>5, <2>1, <2>2
  <2>4. Armed'
    BY <1>2, <2>1, <2>2 DEF Armed
  <2>5. Inserting'
    BY <1>1, <2>1 DEF Inserting
  <2> QED
    BY <2>3, <2>4, <2>5 DEF AsioIInv
<1>9. CASE T!Arm
  <2>1. /\ asioSetting' = [asioSetting EXCEPT !.at = "insert", !.waits = TRUE]
        /\ UNCHANGED <<asioMap, asioWaits, asioQueue, asioCalling, asioStopped, asioMissed>>
    BY <1>9 DEF T!Arm
  <2>2. T!TypeOK'
    BY <1>1, <1>6, <2>1
  <2>3. Armed'
    BY <1>2, <1>3, <2>1 DEF Armed
  <2>4. Inserting'
    BY <1>1, <2>1 DEF Inserting
  <2> QED
    BY <2>2, <2>3, <2>4 DEF AsioIInv
<1>10. CASE T!Insert
  <2>1. PICK id \in TimerIds : id = asioSetting.id
    BY <1>4
  <2>2. /\ asioSetting.at = "insert" /\ asioMap' = asioMap \union {id}
        /\ asioWaits' = IF id \notin asioMap /\ asioSetting.waits THEN asioWaits \union {id} ELSE asioWaits
        /\ asioSetting' = [asioSetting EXCEPT !.at = "out", !.waits = FALSE]
        /\ UNCHANGED <<asioQueue, asioCalling, asioStopped, asioMissed>>
    BY <1>10, <2>1 DEF T!Insert
  <2>3. T!TypeOK'
    BY <1>1, <1>6, <2>2
  <2>4. id \in asioMap \/ asioSetting.waits \/ id \in asioMissed \/ Ended(id)
    BY <1>2, <2>1, <2>2 DEF Inserting
  <2>5. Armed'
    BY <1>2, <1>3, <2>2, <2>4 DEF Armed
  <2>6. Inserting'
    BY <1>1, <2>2 DEF Inserting
  <2> QED
    BY <2>3, <2>5, <2>6 DEF AsioIInv
<1>11. ASSUME NEW id \in TimerIds, T!WaitEnds(id) PROVE AsioIInv'
  <2>1. /\ T!Queued("ended", id) /\ UNCHANGED <<asioMap, asioCalling, asioStopped, asioMissed>>
        /\ \/ asioWaits' = asioWaits \ {id} /\ UNCHANGED asioSetting
           \/ /\ asioSetting.id = id /\ asioSetting' = [asioSetting EXCEPT !.waits = FALSE]
              /\ UNCHANGED asioWaits
    BY <1>11 DEF T!WaitEnds
  <2>2. /\ asioQueue' \in Seq(T!Entry) /\ Len(asioQueue') <= MaxQueue
        /\ (\A x : Ended(x) => Ended(x)') /\ Ended(id)'
    BY <1>2, <2>1, QueueGrows
  <2>3. T!TypeOK'
    BY <1>1, <1>5, <2>1, <2>2
  <2>4. Armed'
    BY <1>2, <2>1, <2>2 DEF Armed
  <2>5. Inserting'
    <3>1. PICK x \in TimerIds : x = asioSetting.id /\ x = asioSetting'.id
      BY <1>1, <2>1
    <3>2. asioSetting'.at = "insert" => asioSetting'.waits \/ x \in asioMissed \/ Ended(x)'
      BY <1>1, <1>2, <2>1, <2>2, <3>1 DEF Inserting
    <3> QED
      BY <2>1, <3>1, <3>2 DEF Inserting
  <2> QED
    BY <2>3, <2>4, <2>5 DEF AsioIInv
<1>12. ASSUME NEW id \in TimerIds, T!RunPosted(id) PROVE AsioIInv'
  <2>1. /\ T!Takes([what |-> "posted", id |-> id]) /\ asioCalling' = {id}
        /\ UNCHANGED <<asioMap, asioWaits, asioSetting, asioStopped, asioMissed>>
    BY <1>12 DEF T!RunPosted, T!Takes
  <2>2. /\ asioQueue' \in Seq(T!Entry) /\ Len(asioQueue') <= MaxQueue
        /\ \A x : Ended(x) => Ended(x)'
    <3>1. \A x : [what |-> "posted", id |-> id] # [what |-> "ended", id |-> x]
      OBVIOUS
    <3> QED
      BY <1>2, <2>1, <3>1, QueueShrinks
  <2>3. T!TypeOK'
    BY <1>1, <1>5, <2>1, <2>2
  <2>4. Armed' /\ Inserting'
    BY <1>2, <2>1, <2>2 DEF Armed, Inserting
  <2> QED
    BY <2>3, <2>4 DEF AsioIInv
<1>13. ASSUME NEW id \in TimerIds, T!ontimer_internal(id) PROVE AsioIInv'
  <2>1. /\ T!Takes([what |-> "ended", id |-> id])
        /\ UNCHANGED <<asioMap, asioSetting, asioStopped>>
        /\ IF id \in asioMap THEN asioWaits' = asioWaits \union {id} /\ asioCalling' = {id}
                             ELSE UNCHANGED <<asioWaits, asioCalling>>
        /\ asioMissed' = IF asioSetting.at = "insert" /\ asioSetting.id = id
                           THEN asioMissed \union {id} ELSE asioMissed \ {id}
    BY <1>13 DEF T!ontimer_internal, T!Takes, T!Arming
  <2>2. /\ asioQueue' \in Seq(T!Entry) /\ Len(asioQueue') <= MaxQueue
        /\ \A x : Ended(x) /\ x # id => Ended(x)'
    <3>1. \A x : x # id => [what |-> "ended", id |-> id] # [what |-> "ended", id |-> x]
      OBVIOUS
    <3> QED
      BY <1>2, <2>1, <3>1, QueueShrinks
  <2>3. T!TypeOK'
    BY <1>1, <1>5, <2>1, <2>2
  <2>4. Armed'
    BY <1>2, <2>1, <2>2 DEF Armed
  <2>5. Inserting'
    <3>1. PICK x \in TimerIds : x = asioSetting.id /\ x = asioSetting'.id
      BY <1>4, <2>1
    <3>2. asioSetting'.at = "insert" => asioSetting'.waits \/ x \in asioMissed' \/ Ended(x)'
      BY <1>2, <2>1, <2>2, <3>1 DEF Inserting
    <3> QED
      BY <3>1, <3>2 DEF Inserting
  <2> QED
    BY <2>3, <2>4, <2>5 DEF AsioIInv
<1>14. ASSUME NEW id \in TimerIds, T!kill_timer(id) PROVE AsioIInv'
  <2>1. /\ asioMap' = asioMap \ {id} /\ asioWaits' = asioWaits \ {id}
        /\ UNCHANGED <<asioSetting, asioQueue, asioCalling, asioStopped, asioMissed>>
    BY <1>14 DEF T!kill_timer
  <2>2. T!TypeOK'
    BY <1>1, <1>6, <2>1
  <2>3. Armed' /\ Inserting'
    BY <1>2, <1>3, <2>1 DEF Armed, Inserting
  <2> QED
    BY <2>2, <2>3 DEF AsioIInv
<1>15. ASSUME NEW id \in TimerIds, NEW run_once \in BOOLEAN, T!set_timer(id, run_once)
       PROVE  AsioIInv'
  <2>1. /\ IF run_once THEN T!Queued("posted", id) ELSE UNCHANGED asioQueue
        /\ asioMap' = asioMap \union {id} /\ asioWaits' = asioWaits \union {id}
        /\ asioMissed' = IF asioSetting.at = "insert" /\ asioSetting.id = id
                           THEN asioMissed ELSE asioMissed \ {id}
        /\ UNCHANGED <<asioSetting, asioCalling, asioStopped>>
    BY <1>15 DEF T!set_timer, T!Arming
  <2>2. /\ asioQueue' \in Seq(T!Entry) /\ Len(asioQueue') <= MaxQueue
        /\ \A x : Ended(x) => Ended(x)'
    BY <1>1, <1>2, <1>3, <2>1, QueueGrows
  <2>3. T!TypeOK'
    BY <1>1, <1>5, <2>1, <2>2
  <2>4. Armed'
    BY <1>2, <2>1, <2>2 DEF Armed
  <2>5. Inserting'
    <3>1. PICK x \in TimerIds : x = asioSetting.id /\ x = asioSetting'.id
      BY <1>4, <2>1
    <3>2. asioSetting'.at = "insert" => asioSetting'.waits \/ x \in asioMissed' \/ Ended(x)'
      BY <1>2, <2>1, <2>2, <3>1 DEF Inserting
    <3> QED
      BY <3>1, <3>2 DEF Inserting
  <2> QED
    BY <2>3, <2>4, <2>5 DEF AsioIInv
<1>16. CASE T!CallbackEnds \/ T!Stop \/ UNCHANGED asioVars
  <2>1. /\ UNCHANGED <<asioMap, asioWaits, asioSetting, asioQueue, asioMissed>>
        /\ asioCalling' \subseteq TimerIds /\ asioStopped' \in BOOLEAN
    BY <1>1, <1>16 DEF T!CallbackEnds, T!Stop, asioVars
  <2>2. T!TypeOK'
    BY <1>1, <1>6, <2>1
  <2>3. Armed' /\ Inserting'
    BY <1>2, <1>3, <2>1 DEF Armed, Inserting
  <2> QED
    BY <2>2, <2>3 DEF AsioIInv
<1> QED
  BY <1>7, <1>8, <1>9, <1>10, <1>11, <1>12, <1>13, <1>14, <1>15, <1>16 DEF T!Next

(* The timer begins with no id and an empty queue.                         *)
LEMMA AsioStarts ==
  ASSUME T!Init
  PROVE  AsioIInv
<1>1. asioQueue = <<>>
  BY DEF T!Init
<1>2. asioQueue \in Seq(T!Entry) /\ Len(asioQueue) = 0
  BY <1>1, EmptySeq
<1>3. Len(asioQueue) <= MaxQueue
  BY <1>2, ToolboxAssumption
<1>4. T!TypeOK
  BY <1>2, <1>3 DEF T!Init, T!TypeOK
<1>5. Armed /\ Inserting
  BY DEF T!Init, Armed, Inserting
<1> QED
  BY <1>4, <1>5 DEF AsioIInv

-----------------------------------------------------------------------------
(* Download                                                                *)

(* The members of s are the numbers that follow n.                         *)
Follow(s, n) == \A i \in 1 .. Len(s) : s[i] = n + i

(* The next number at the end follows, too.                                *)
LEMMA FollowAppend ==
  ASSUME NEW s \in Seq(Nat), NEW n \in Nat, Follow(s, n)
  PROVE  Follow(Append(s, n + Len(s) + 1), n)
<1>1. PICK k \in Nat : k = Len(s)
  OBVIOUS
<1> DEFINE e == n + k + 1
           t == Append(s, e)
<1>2. e \in Nat
  OBVIOUS
<1> HIDE DEF e
<1>3. Len(t) = k + 1 /\ t[k + 1] = e /\ \A i \in 1 .. k : t[i] = s[i]
  BY <1>1, <1>2, AppendProperties
<1>4. \A i \in 1 .. k : s[i] = n + i
  BY <1>1 DEF Follow
<1>5. t = Append(s, n + Len(s) + 1)
  BY <1>1 DEF e
<1> HIDE DEF t
<1>6. ASSUME NEW i \in 1 .. k + 1 PROVE t[i] = n + i
  <2>1. CASE i \in 1 .. k
    BY <2>1, <1>3, <1>4
  <2>2. CASE i = k + 1
    BY <2>2, <1>3 DEF e
  <2> QED
    BY <2>1, <2>2
<1> QED
  BY <1>3, <1>5, <1>6 DEF Follow

(* Without its first member a sequence follows one number later.           *)
LEMMA FollowTail ==
  ASSUME NEW s \in Seq(Nat), NEW n \in Nat, Follow(s, n), s # <<>>
  PROVE  Head(s) = n + 1 /\ Follow(Tail(s), n + 1)
<1>1. PICK k \in Nat : k = Len(s)
  OBVIOUS
<1>2. k >= 1
  BY <1>1, EmptySeq
<1>3. \A i \in 1 .. k : s[i] = n + i
  BY <1>1 DEF Follow
<1>4. Len(Tail(s)) = k - 1 /\ \A i \in 1 .. k - 1 : Tail(s)[i] = s[i + 1]
  BY <1>1, HeadTailProperties
<1>5. \A i \in 1 .. k - 1 : i + 1 \in 1 .. k
  BY <1>2
<1>6. \A i \in 1 .. k - 1 : Tail(s)[i] = (n + 1) + i
  BY <1>3, <1>4, <1>5
<1>7. Head(s) = s[1]
  OBVIOUS
<1> QED
  BY <1>2, <1>3, <1>4, <1>6, <1>7 DEF Follow

(* Two sequences of which the second goes on where the first ends.         *)
LEMMA FollowConcat ==
  ASSUME NEW s \in Seq(Nat), NEW t \in Seq(Nat), NEW n \in Nat,
         Follow(s, n), Follow(t, n + Len(s))
  PROVE  Follow(s \o t, n)
<1>1. PICK k \in Nat, l \in Nat : k = Len(s) /\ l = Len(t)
  OBVIOUS
<1> DEFINE u == s \o t
<1>2. Len(u) = k + l /\ \A i \in 1 .. k + l : u[i] = IF i <= k THEN s[i] ELSE t[i - k]
  BY <1>1, ConcatProperties
<1> HIDE DEF u
<1>3. /\ \A i \in 1 .. k : s[i] = n + i
      /\ \A i \in 1 .. l : t[i] = (n + k) + i
  BY <1>1 DEF Follow
<1>4. ASSUME NEW i \in 1 .. k + l PROVE u[i] = n + i
  <2>1. CASE i <= k
    <3>1. i \in 1 .. k
      BY <2>1
    <3>2. u[i] = s[i]
      BY <2>1, <1>2
    <3> QED
      BY <3>1, <3>2, <1>3
  <2>2. CASE i > k
    <3>1. i - k \in 1 .. l
      BY <2>2
    <3>2. t[i - k] = (n + k) + (i - k)
      BY <3>1, <1>3
    <3>3. u[i] = t[i - k]
      BY <2>2, <1>2
    <3>4. (n + k) + (i - k) = n + i
      OBVIOUS
    <3> QED
      BY <3>2, <3>3, <3>4
  <2> QED
    BY <2>1, <2>2
<1> QED
  BY <1>2, <1>4 DEF Follow, u

(* Two sequences that follow the same number: the shorter one is a prefix. *)
LEMMA FollowPrefix ==
  ASSUME NEW s \in Seq(Nat), NEW t \in Seq(Nat), NEW n \in Nat, Len(s) <= Len(t),
         Follow(s, n), Follow(t, n)
  PROVE  s = SubSeq(t, 1, Len(s))
<1>1. PICK k \in Nat, l \in Nat : k = Len(s) /\ l = Len(t) /\ k <= l
  OBVIOUS
<1> DEFINE u == SubSeq(t, 1, k)
<1>2. \A i \in 1 .. k : t[i] \in Nat
  BY <1>1
<1>3. u \in Seq(Nat) /\ Len(u) = k /\ \A i \in 1 .. k : u[i] = t[i]
  <2>1. \A i \in 1 .. k - 1 + 1 : u[i] = t[1 + i - 1]
    BY <1>2, SubSeqProperties
  <2>2. u \in Seq(Nat) /\ Len(u) = IF 1 <= k THEN k - 1 + 1 ELSE 0
    BY <1>2, SubSeqProperties
  <2> HIDE DEF u
  <2>3. \A i \in 1 .. k : i \in 1 .. k - 1 + 1 /\ 1 + i - 1 = i
    OBVIOUS
  <2>4. \A i \in 1 .. k : u[i] = t[i]
    BY <2>1, <2>3
  <2> QED
    BY <2>2, <2>4
<1>4. \A i \in 1 .. k : s[i] = n + i /\ t[i] = n + i
  BY <1>1 DEF Follow
<1> HIDE DEF u
<1>5. \A i \in 1 .. Len(s) : s[i] = u[i]
  BY <1>1, <1>3, <1>4
<1>6. s = u
  BY <1>1, <1>3, <1>5, SeqEqual
<1> QED
  BY <1>1, <1>6 DEF u

(* The remote file follows 0 and is as long as it should.                  *)
LEMMA WholeFollows ==
  ASSUME NEW n \in Nat
  PROVE  D!Whole(n) \in Seq(Nat) /\ Len(D!Whole(n)) = n /\ Follow(D!Whole(n), 0)
BY DEF D!Whole, Follow

(* The blocks that have come: on the disk and in the buffer.               *)
Came == Len(dlFile) + Len(dlBuffer)

(* Unless an error page came, both hold the blocks in order; the buffer is *)
(* empty outside of a transfer; Download returned TRUE with the last block *)
(* only.                                                                   *)
DownloadIInv ==
  /\ D!TypeOK
  /\ Came <= RemoteSize
  /\ dlAt \in {"size", "open", "check", "done"} => dlBuffer = <<>>
  /\ dlAt = "perform" => dlStart <= Came /\ dlReported <= Came
  /\ "error page" \notin dlUnnoticed => Follow(dlFile, 0) /\ Follow(dlBuffer, Len(dlFile))
  /\ dlRet => dlAt \in {"close", "check", "done"}
  /\ dlRet /\ dlUnnoticed = {} => Came = RemoteSize
  /\ dlResult = "success" => dlAt = "done" /\ dlRet

(* Requests, blocks, error pages, writes and restarts (CurlDown.cpp:34-248) *)
(* keep what has come a beginning of the remote file.                      *)
LEMMA DownloadKeeps ==
  ASSUME DownloadIInv, [D!Next]_dlVars
  PROVE  DownloadIInv'
<1>1. PICK N \in Nat, m \in Nat : N = RemoteSize /\ m = MaxFaults /\ N >= 1
  <2>1. RemoteSize \in Nat /\ MaxFaults \in Nat /\ RemoteSize >= 1
    BY ToolboxAssumption
  <2> QED
    BY <2>1
<1>3. /\ dlAt \in {"size", "open", "perform", "close", "check", "done"}
      /\ dlStop \in BOOLEAN /\ dlRet \in BOOLEAN /\ dlRefuses \in BOOLEAN
      /\ dlFile \in Seq(0 .. RemoteSize) /\ dlBuffer \in Seq(0 .. RemoteSize)
      /\ dlStart \in 0 .. RemoteSize /\ dlReported \in 0 .. RemoteSize
      /\ dlResult \in {"none", "success", "kNetwork", "kUncompress"}
      /\ dlFaults \in 0 .. MaxFaults
      /\ dlUnnoticed \subseteq {"error page", "close"}
  BY DEF DownloadIInv, D!TypeOK
<1>2. PICK f \in Nat, b \in Nat : f = Len(dlFile) /\ b = Len(dlBuffer)
  <2>1. Len(dlFile) \in Nat /\ Len(dlBuffer) \in Nat
    BY <1>3, LenProperties
  <2> QED
    BY <2>1
<1>25. PICK st \in Nat, fl \in Nat : st = dlStart /\ fl = dlFaults /\ st <= N /\ fl <= m
  <2>1. dlStart \in 0 .. N /\ dlFaults \in 0 .. m
    BY <1>1, <1>3
  <2> QED
    BY <2>1
<1>35. f + b <= N
  BY <1>1, <1>2 DEF DownloadIInv, Came
<1>4. /\ dlAt \in {"size", "open", "check", "done"} => dlBuffer = <<>>
      /\ dlAt = "perform" => dlStart <= f + b /\ dlReported <= f + b
      /\ "error page" \notin dlUnnoticed => Follow(dlFile, 0) /\ Follow(dlBuffer, f)
      /\ dlRet => dlAt \in {"close", "check", "done"}
      /\ dlRet /\ dlUnnoticed = {} => f + b = RemoteSize
      /\ dlResult = "success" => dlAt = "done" /\ dlRet
      /\ f + b <= RemoteSize
  BY <1>2 DEF DownloadIInv, Came
<1>5. dlFile \in Seq(Nat) /\ dlBuffer \in Seq(Nat)
  <2>1. 0 .. RemoteSize \subseteq Nat
    OBVIOUS
  <2> QED
    BY <1>3, <2>1, SeqMonotonic
<1>6. dlFile \o dlBuffer \in Seq(Nat) /\ Len(dlFile \o dlBuffer) = f + b
  BY <1>2, <1>5, ConcatProperties
<1>7. PICK came \in Nat : came = f + b
  OBVIOUS
<1>8. D!Received = came - st /\ dlStart + D!Received = came
  <2>1. D!Received = came - st
    BY <1>25, <1>6, <1>7 DEF D!Received
  <2>2. st + (came - st) = came
    OBVIOUS
  <2> QED
    BY <1>25, <2>1, <2>2
(* The blocks stay where they are.                                         *)
<1>9. ASSUME UNCHANGED <<dlFile, dlBuffer>>,
             dlAt' \in {"size", "open", "perform", "close", "check", "done"},
             dlStop' \in BOOLEAN, dlRet' \in BOOLEAN, dlRefuses' \in BOOLEAN,
             dlStart' \in 0 .. RemoteSize, dlReported' \in 0 .. RemoteSize,
             dlResult' \in {"none", "success", "kNetwork", "kUncompress"},
             dlFaults' = dlFaults, dlUnnoticed' = dlUnnoticed,
             dlAt' \in {"size", "open", "check", "done"} => dlBuffer = <<>>,
             dlAt' = "perform" => dlStart' <= f + b /\ dlReported' <= f + b,
             dlRet' => dlAt' \in {"close", "check", "done"},
             dlRet' /\ dlUnnoticed = {} => f + b = RemoteSize,
             dlResult' = "success" => dlAt' = "done" /\ dlRet'
      PROVE  DownloadIInv'
  <2>1. D!TypeOK'
    BY <1>3, <1>9 DEF D!TypeOK
  <2>2. Came' = f + b /\ Len(dlFile') = f
    BY <1>2, <1>9 DEF Came
  <2>3. Follow(dlFile, 0)' = Follow(dlFile, 0) /\ Follow(dlBuffer, Len(dlFile))' = Follow(dlBuffer, f)
    BY <1>2, <1>9
  <2> QED
    BY <1>4, <1>9, <2>1, <2>2, <2>3 DEF DownloadIInv
<1>10. CASE D!getDownloadFileLenth
  BY <1>3, <1>4, <1>9, <1>10 DEF D!getDownloadFileLenth
<1>11. ASSUME NEW opens \in BOOLEAN, D!DownloadBegins(opens) PROVE DownloadIInv'
  <2>1. CASE opens
    <3>1. /\ dlAt = "open" /\ dlAt' = "perform" /\ dlStart' = f /\ dlReported' = 0 /\ dlRet' = dlRet
          /\ UNCHANGED <<dlStop, dlFile, dlBuffer, dlResult, dlRefuses, dlFaults, dlUnnoticed>>
      BY <1>2, <1>11, <2>1 DEF D!DownloadBegins, D!getLocalFileLength
    <3>2. f \in 0 .. N /\ 0 \in 0 .. N /\ f <= f + b /\ 0 <= f + b
      BY <1>35
    <3>3. ~dlRet' /\ dlResult' # "success"
      BY <1>3, <1>4, <3>1
    <3> QED
      BY <1>1, <1>3, <1>9, <3>1, <3>2, <3>3
  <2>2. CASE ~opens
    BY <1>3, <1>4, <1>9, <1>11, <2>2 DEF D!DownloadBegins
  <2> QED
    BY <2>1, <2>2
<1>12. CASE D!Receive
  <2>1. /\ dlAt = "perform" /\ came < RemoteSize /\ dlBuffer' = Append(dlBuffer, came + 1)
        /\ UNCHANGED <<dlAt, dlStop, dlFile, dlStart, dlRet, dlResult, dlRefuses, dlFaults, dlUnnoticed>>
    BY <1>8, <1>12 DEF D!Receive, D!my_write_func
  <2>2. dlReported' = came + 1 \/ dlReported' = dlReported
    <3>2. dlReported' = N - (N - st) + ((came - st) + 1) \/ dlReported' = dlReported
      BY <1>1, <1>25, <1>8, <1>12 DEF D!Receive, D!my_progress_func
    <3>3. N - (N - st) + ((came - st) + 1) = came + 1
      OBVIOUS
    <3> QED
      BY <3>2, <3>3
  <2>3. came + 1 \in 0 .. RemoteSize
    BY <1>1, <2>1
  <2>4. dlBuffer' \in Seq(0 .. RemoteSize) /\ Len(dlBuffer') = b + 1
    BY <1>2, <1>3, <2>1, <2>3, AppendProperties
  <2>5. D!TypeOK'
    BY <1>3, <2>1, <2>2, <2>3, <2>4 DEF D!TypeOK
  <2>6. Came' = came + 1
    BY <1>2, <1>7, <2>1, <2>4 DEF Came
  <2>7. "error page" \notin dlUnnoticed' => Follow(dlFile, 0)' /\ Follow(dlBuffer, Len(dlFile))'
    <3>1. Follow(dlBuffer, f) => Follow(Append(dlBuffer, f + Len(dlBuffer) + 1), f)
      BY <1>5, FollowAppend
    <3>2. dlBuffer' = Append(dlBuffer, f + Len(dlBuffer) + 1)
      BY <1>2, <1>7, <2>1
    <3> QED
      BY <1>2, <1>4, <2>1, <3>1, <3>2
  <2> QED
    <3>1. Came' <= RemoteSize
      BY <1>1, <2>1, <2>6
    <3>2. dlStart' <= Came' /\ dlReported' <= Came'
      <4>1. dlStart' <= came /\ (dlReported' <= came \/ dlReported' = came + 1)
        BY <1>4, <1>7, <2>1, <2>2
      <4>2. dlStart' \in Nat /\ dlReported' \in Nat
        <5>1. dlStart' \in 0 .. N /\ dlReported' \in 0 .. N
          BY <2>5, <1>1 DEF D!TypeOK
        <5> QED
          BY <5>1
      <4> QED
        BY <4>1, <4>2, <2>6
    <3>3. ~dlRet' /\ dlResult' # "success"
      BY <1>3, <1>4, <2>1
    <3> QED
      BY <2>1, <2>5, <2>7, <3>1, <3>2, <3>3 DEF DownloadIInv
<1>13. CASE D!ErrorPage
  <2>1. /\ dlAt = "perform" /\ came = 0 /\ dlAt' = "close" /\ dlRet' = TRUE /\ dlBuffer' = <<0>>
        /\ dlUnnoticed' = dlUnnoticed \union {"error page"}
        /\ UNCHANGED <<dlStop, dlFile, dlStart, dlResult, dlReported, dlRefuses, dlFaults>>
    <3>1. dlStart = 0 /\ D!Received = 0
      BY <1>13 DEF D!ErrorPage
    <3>2. came = 0
      BY <1>8, <3>1
    <3> QED
      BY <1>13, <3>2 DEF D!ErrorPage
  <2>2. Len(dlBuffer') = 1 /\ dlBuffer' \in Seq(0 .. RemoteSize)
    <3>1. 0 \in 0 .. RemoteSize
      BY <1>1
    <3>2. <<0>> = Append(<<>>, 0)
      OBVIOUS
    <3>3. dlBuffer' = Append(<<>>, 0)
      BY <2>1, <3>2
    <3> QED
      BY <3>1, <3>3, EmptySeq, AppendProperties
  <2>3. D!TypeOK'
    BY <1>3, <2>1, <2>2 DEF D!TypeOK
  <2>4. Came' = 1
    <3>0. came = 0
      BY <2>1
    <3>1. f = 0
      BY <1>7, <3>0
    <3>2. Len(dlFile') = 0
      BY <1>2, <2>1, <3>1
    <3> QED
      BY <2>2, <3>2 DEF Came
  <2>5. Came' <= RemoteSize
    BY <1>1, <2>4
  <2> QED
    BY <1>4, <2>1, <2>3, <2>5 DEF DownloadIInv
<1>14. ASSUME NEW ok \in BOOLEAN, D!PerformEnds(ok) PROVE DownloadIInv'
  <2>1. /\ dlAt = "perform" /\ (ok => came = RemoteSize) /\ dlAt' = "close" /\ dlRet' = ok
        /\ UNCHANGED <<dlStop, dlFile, dlBuffer, dlStart, dlResult, dlReported, dlRefuses, dlFaults, dlUnnoticed>>
    BY <1>8, <1>14 DEF D!PerformEnds
  <2> QED
    BY <1>3, <1>4, <1>7, <1>9, <2>1
<1>15. CASE D!Flush
  <2>1. /\ dlBuffer # <<>> /\ dlFile' = Append(dlFile, Head(dlBuffer)) /\ dlBuffer' = Tail(dlBuffer)
        /\ UNCHANGED <<dlAt, dlStop, dlStart, dlRet, dlResult, dlReported, dlRefuses, dlFaults, dlUnnoticed>>
    BY <1>15 DEF D!Flush
  <2>2. /\ Head(dlBuffer) \in 0 .. RemoteSize
        /\ dlBuffer' \in Seq(0 .. RemoteSize) /\ Len(dlBuffer') = b - 1
    BY <1>2, <1>3, <2>1, HeadTailProperties
  <2>3. dlFile' \in Seq(0 .. RemoteSize) /\ Len(dlFile') = f + 1
    <3>1. PICK e \in 0 .. RemoteSize : e = Head(dlBuffer)
      BY <2>2
    <3> QED
      BY <1>2, <1>3, <2>1, <3>1, AppendProperties
  <2>4. D!TypeOK'
    BY <1>3, <2>1, <2>2, <2>3 DEF D!TypeOK
  <2>5. Came' = f + b
    BY <2>2, <2>3 DEF Came
  <2>6. "error page" \notin dlUnnoticed' => Follow(dlFile, 0)' /\ Follow(dlBuffer, Len(dlFile))'
    <3> SUFFICES ASSUME Follow(dlFile, 0), Follow(dlBuffer, f)
                 PROVE  Follow(dlFile', 0) /\ Follow(dlBuffer', Len(dlFile'))
      BY <1>4, <2>1
    <3>1. Head(dlBuffer) = f + 1 /\ Follow(Tail(dlBuffer), f + 1)
      BY <1>5, <2>1, FollowTail
    <3>2. Follow(Append(dlFile, 0 + Len(dlFile) + 1), 0)
      BY <1>5, FollowAppend
    <3>3. 0 + Len(dlFile) + 1 = f + 1
      BY <1>2
    <3> QED
      BY <2>1, <2>3, <3>1, <3>2, <3>3
  <2> QED
    BY <1>4, <2>1, <2>4, <2>5, <2>6 DEF DownloadIInv
<1>16. ASSUME NEW writes \in BOOLEAN, D!fclose(writes) PROVE DownloadIInv'
  <2>1. /\ dlAt = "close" /\ dlAt' = "check" /\ dlBuffer' = <<>>
        /\ UNCHANGED <<dlStop, dlStart, dlRet, dlResult, dlReported, dlRefuses>>
    BY <1>16 DEF D!fclose
  <2>2. dlBuffer' \in Seq(0 .. RemoteSize) /\ Len(dlBuffer') = 0 /\ \A n : Follow(dlBuffer', n)
    BY <2>1, EmptySeq DEF Follow
  <2>3. CASE writes
    <3>1. dlFile' = dlFile \o dlBuffer /\ UNCHANGED <<dlFaults, dlUnnoticed>>
      BY <1>16, <2>3 DEF D!fclose
    <3>2. dlFile' \in Seq(0 .. RemoteSize) /\ Len(dlFile') = f + b
      BY <1>2, <1>3, <3>1, ConcatProperties
    <3>3. D!TypeOK'
      BY <1>3, <2>1, <2>2, <3>1, <3>2 DEF D!TypeOK
    <3>4. Came' = f + b
      BY <2>2, <3>2 DEF Came
    <3>5. Follow(dlFile, 0) /\ Follow(dlBuffer, f) => Follow(dlFile', 0)
      <4>1. f = 0 + Len(dlFile)
        BY <1>2
      <4> QED
        BY <1>5, <3>1, <4>1, FollowConcat
    <3> QED
      BY <1>4, <2>1, <2>2, <3>1, <3>3, <3>4, <3>5 DEF DownloadIInv
  <2>4. CASE ~writes
    <3>1. /\ dlFaults < MaxFaults /\ dlFaults' = dlFaults + 1 /\ dlFile' = dlFile
          /\ dlUnnoticed' = dlUnnoticed \union {"close"}
      BY <1>16, <2>4 DEF D!fclose
    <3>2. dlFaults' \in 0 .. MaxFaults
      <4>1. dlFaults' = fl + 1 /\ fl + 1 <= m
        BY <1>1, <1>25, <3>1
      <4> QED
        BY <1>1, <4>1
    <3>3. D!TypeOK'
      BY <1>3, <2>1, <2>2, <3>1, <3>2 DEF D!TypeOK
    <3>4. Came' = f
      BY <1>2, <2>2, <3>1 DEF Came
    <3> QED
      <4>1. Came' <= RemoteSize
        BY <1>1, <1>35, <3>4
      <4> QED
        BY <1>4, <2>1, <2>2, <3>1, <3>3, <4>1 DEF DownloadIInv
  <2> QED
    BY <2>3, <2>4
<1>17. CASE D!downloadControler
  BY <1>3, <1>4, <1>9, <1>17 DEF D!downloadControler
<1>18. CASE D!setStopDown
  BY <1>3, <1>4, <1>9, <1>18 DEF D!setStopDown
<1>19. CASE D!Crash
  <2>1. /\ dlFaults < MaxFaults /\ dlFaults' = dlFaults + 1
        /\ dlAt' = "size" /\ dlStop' \in BOOLEAN /\ dlBuffer' = <<>>
        /\ dlStart' = 0 /\ dlReported' = 0 /\ dlRet' = FALSE /\ dlResult' = "none"
        /\ UNCHANGED <<dlFile, dlRefuses, dlUnnoticed>>
    BY <1>19 DEF D!Crash
  <2>2. dlBuffer' \in Seq(0 .. RemoteSize) /\ Len(dlBuffer') = 0 /\ \A n : Follow(dlBuffer', n)
    BY <2>1, EmptySeq DEF Follow
  <2>3. dlFaults' \in 0 .. MaxFaults /\ 0 \in 0 .. RemoteSize
    <3>1. dlFaults' = fl + 1 /\ fl + 1 <= m
      BY <1>1, <1>25, <2>1
    <3> QED
      BY <1>1, <3>1
  <2>4. D!TypeOK'
    BY <1>3, <2>1, <2>2, <2>3 DEF D!TypeOK
  <2>5. Came' = f
    BY <1>2, <2>1, <2>2 DEF Came
  <2> QED
    <3>1. Came' <= RemoteSize
      BY <1>1, <1>35, <2>5
    <3> QED
      BY <1>4, <2>1, <2>2, <2>4, <3>1 DEF DownloadIInv
<1>20. CASE UNCHANGED dlVars
  BY <1>3, <1>4, <1>9, <1>20 DEF dlVars
<1> QED
  BY <1>10, <1>11, <1>12, <1>13, <1>14, <1>15, <1>16, <1>17, <1>18, <1>19, <1>20
  DEF D!Next, D!Control

(* A download begins with nothing on the disk.                             *)
LEMMA DownloadStarts ==
  ASSUME D!Init
  PROVE  DownloadIInv
<1>1. /\ dlFile \in Seq(0 .. RemoteSize) /\ Len(dlFile) = 0
      /\ dlBuffer \in Seq(0 .. RemoteSize) /\ Len(dlBuffer) = 0
  BY EmptySeq DEF D!Init
<1>2. 0 \in 0 .. RemoteSize /\ 0 \in 0 .. MaxFaults /\ 0 <= RemoteSize
  BY ToolboxAssumption
<1>3. D!TypeOK
  BY <1>1, <1>2 DEF D!Init, D!TypeOK
<1>4. Came = 0 /\ Follow(dlFile, 0) /\ Follow(dlBuffer, Len(dlFile))
  BY <1>1 DEF Came, Follow
<1> QED
  BY <1>2, <1>3, <1>4 DEF D!Init, DownloadIInv

(* What the invariant says of the file.                                    *)
LEMMA DownloadedInOrder ==
  ASSUME DownloadIInv
  PROVE  D!FileIsPrefix
<1>1. RemoteSize \in Nat
  BY ToolboxAssumption
<1>2. dlFile \in Seq(Nat) /\ dlBuffer \in Seq(Nat)
  <2>1. dlFile \in Seq(0 .. RemoteSize) /\ dlBuffer \in Seq(0 .. RemoteSize)
    BY DEF DownloadIInv, D!TypeOK
  <2>2. 0 .. RemoteSize \subseteq Nat
    OBVIOUS
  <2> QED
    BY <2>1, <2>2, SeqMonotonic
<1>3. dlFile \o dlBuffer \in Seq(Nat) /\ Len(dlFile \o dlBuffer) = Came
  BY <1>2, ConcatProperties DEF Came
<1>4. \A n \in Nat : /\ D!Whole(n) \in Seq(Nat) /\ Len(D!Whole(n)) = n
                     /\ Follow(D!Whole(n), 0)
  BY WholeFollows
<1>5. ASSUME "error page" \notin dlUnnoticed
      PROVE  /\ \E n \in 0 .. RemoteSize : dlFile \o dlBuffer = D!Whole(n)
             /\ dlAt = "perform" => dlReported <= Len(dlFile \o dlBuffer)
  <2>1. Follow(dlFile, 0) /\ Follow(dlBuffer, Len(dlFile)) /\ Came <= RemoteSize
    BY <1>5 DEF DownloadIInv
  <2>2. 0 + Len(dlFile) = Len(dlFile)
    BY <1>2
  <2>3. Follow(dlFile \o dlBuffer, 0)
    BY <1>2, <2>1, <2>2, FollowConcat
  <2>4. Came \in Nat
    BY <1>2, LenProperties DEF Came
  <2>5. dlFile \o dlBuffer = D!Whole(Came)
    <3>1. \A i \in 1 .. Len(dlFile \o dlBuffer) : (dlFile \o dlBuffer)[i] = D!Whole(Came)[i]
      BY <1>3, <1>4, <2>3, <2>4 DEF Follow
    <3> QED
      BY <1>3, <1>4, <2>4, <3>1, SeqEqual
  <2>6. Came \in 0 .. RemoteSize
    BY <1>1, <2>1, <2>4
  <2>7. dlAt = "perform" => dlReported <= Len(dlFile \o dlBuffer)
    BY <1>3 DEF DownloadIInv
  <2> QED
    BY <2>5, <2>6, <2>7
<1>6. ASSUME dlUnnoticed = {}, dlResult = "success"
      PROVE  dlFile = D!Whole(RemoteSize)
  <2>1. dlBuffer = <<>> /\ Came = RemoteSize /\ Follow(dlFile, 0)
    BY <1>6 DEF DownloadIInv
  <2>2. Len(dlFile) = RemoteSize
    <3>1. Len(dlBuffer) = 0
      BY <2>1
    <3> QED
      BY <1>2, <2>1, <3>1 DEF Came
  <2>3. \A i \in 1 .. Len(dlFile) : dlFile[i] = D!Whole(RemoteSize)[i]
    BY <1>1, <1>4, <2>1, <2>2 DEF Follow
  <2> QED
    BY <1>1, <1>2, <1>4, <2>2, <2>3, SeqEqual
<1> QED
  BY <1>5, <1>6 DEF D!FileIsPrefix
-----------------------------------------------------------------------------
(* ClientWriter                                                            *)

(* The strings accepted are those of the calls after the first c, and what *)
(* is written and what is queued continue each other.                      *)
Accounted(c) ==
  /\ Follow(cwAccepted, c) /\ Follow(cwWritten, c)
  /\ Len(cwWritten) <= Len(cwAccepted)
  /\ cwThread = "looping" =>
       /\ c + Len(cwAccepted) = cwCalls
       /\ \A i \in 1 .. Len(cwQueue) :
            cwQueue[i] # 0 => /\ cwQueue[i] = c + Len(cwWritten) + i
                              /\ Len(cwWritten) + i <= Len(cwAccepted)
       /\ cwMain \in {"initialized", "closed"} =>
            Len(cwWritten) + Len(cwQueue) = Len(cwAccepted)

(* A thread that has not yet looked for messages has none.                 *)
NoneYet ==
  /\ cwMain = "constructed" => cwThread = "none"
  /\ cwThread \in {"none", "waiting", "opened"} =>
       cwQueue = <<>> /\ cwAccepted = <<>> /\ cwWritten = <<>>

WriterIInv == W!TypeOK /\ NoneYet /\ \E c \in Nat : Accounted(c)

(* The calls of the owner and the loop of the thread                       *)
(* (WritePipe.cpp:22-134) keep what is written a beginning of what was     *)
(* accepted.                                                               *)
LEMMA WriterKeeps ==
  ASSUME WriterIInv, [W!Next]_cwVars
  PROVE  WriterIInv'
<1>1. PICK N \in Nat : N = MaxStrings
  BY ToolboxAssumption
<1>2. /\ cwMain \in {"constructed", "initialized", "closed", "waiting", "gone"}
      /\ cwThread \in {"none", "waiting", "opened", "looping", "ended"}
      /\ cwHandle \in {"NULL", "invalid", "open"}
      /\ cwQueue \in Seq(0 .. N)
      /\ cwCalls \in 0 .. N
      /\ cwWritten \in Seq(1 .. N) /\ cwAccepted \in Seq(1 .. N)
  BY <1>1 DEF WriterIInv, W!TypeOK
<1>3. PICK c \in Nat : Accounted(c)
  BY DEF WriterIInv
<1>4. NoneYet
  BY DEF WriterIInv
<1>5. cwQueue \in Seq(Nat) /\ cwWritten \in Seq(Nat) /\ cwAccepted \in Seq(Nat)
  <2>1. 0 .. N \subseteq Nat /\ 1 .. N \subseteq Nat
    OBVIOUS
  <2> QED
    BY <1>2, <2>1, SeqMonotonic
<1>6. PICK q \in Nat, w \in Nat, a \in Nat : q = Len(cwQueue) /\ w = Len(cwWritten) /\ a = Len(cwAccepted)
  <2>1. Len(cwQueue) \in Nat /\ Len(cwWritten) \in Nat /\ Len(cwAccepted) \in Nat
    BY <1>5, LenProperties
  <2> QED
    BY <2>1
<1>7. PICK n \in Nat : n = cwCalls /\ n <= N
  BY <1>2
<1>8. /\ Follow(cwAccepted, c) /\ Follow(cwWritten, c) /\ w <= a
      /\ cwThread = "looping" =>
           /\ c + a = n
           /\ \A i \in 1 .. q : cwQueue[i] # 0 => cwQueue[i] = c + w + i /\ w + i <= a
           /\ cwMain \in {"initialized", "closed"} => w + q = a
  BY <1>3, <1>6, <1>7 DEF Accounted
<1>9. ASSUME cwMain' \in {"constructed", "initialized", "closed", "waiting", "gone"},
             cwThread' \in {"none", "waiting", "opened", "looping", "ended"},
             cwHandle' \in {"NULL", "invalid", "open"},
             cwQueue' \in Seq(0 .. N), cwCalls' \in 0 .. N,
             cwWritten' \in Seq(1 .. N), cwAccepted' \in Seq(1 .. N)
      PROVE  W!TypeOK'
  BY <1>1, <1>9 DEF W!TypeOK
(* The sequences stay as they are.                                         *)
<1>10. ASSUME UNCHANGED <<cwQueue, cwCalls, cwWritten, cwAccepted>>,
              cwMain' \in {"constructed", "initialized", "closed", "waiting", "gone"},
              cwThread' \in {"none", "waiting", "opened", "looping", "ended"},
              cwHandle' \in {"NULL", "invalid", "open"},
              cwThread' = "looping" =>
                 cwThread = "looping" /\ (cwMain' \in {"initialized", "closed"} => cwMain \in {"initialized", "closed"}),
              cwThread' \in {"none", "waiting", "opened"} => cwThread \in {"none", "waiting", "opened"},
              cwMain' # "constructed"
       PROVE  WriterIInv'
  <2>1. W!TypeOK'
    BY <1>2, <1>9, <1>10
  <2>2. NoneYet'
    BY <1>4, <1>10 DEF NoneYet
  <2>3. Accounted(c)'
    BY <1>3, <1>10 DEF Accounted, Follow
  <2> QED
    BY <2>1, <2>2, <2>3 DEF WriterIInv
<1>11. CASE W!Initialize
  <2>1. /\ cwMain = "constructed" /\ cwMain' = "initialized" /\ cwThread' = "waiting"
        /\ UNCHANGED <<cwHandle, cwQueue, cwCalls, cwWritten, cwAccepted>>
    BY <1>11 DEF W!Initialize
  <2> QED
    BY <1>2, <1>4, <1>10, <2>1 DEF NoneYet
<1>12. CASE W!WriteData
  <2>1. /\ cwMain = "initialized" /\ n < N /\ cwCalls' = n + 1 /\ n + 1 \in 1 .. N /\ n + 1 \in 0 .. N
    <3>1. cwMain = "initialized" /\ n < N /\ cwCalls' = n + 1
      BY <1>1, <1>7, <1>12 DEF W!WriteData
    <3> QED
      BY <3>1
  <2>2. UNCHANGED <<cwMain, cwThread, cwHandle, cwWritten>>
    BY <1>12 DEF W!WriteData
  <2>3. CASE cwThread = "looping"
    <3>1. cwQueue' = Append(cwQueue, n + 1) /\ cwAccepted' = Append(cwAccepted, n + 1)
      BY <1>7, <1>12, <2>3 DEF W!WriteData, W!PostThreadMessage
    <3> DEFINE e == n + 1
    <3>2. e \in 1 .. N /\ e \in 0 .. N
      BY <2>1
    <3>3. cwQueue' = Append(cwQueue, e) /\ cwAccepted' = Append(cwAccepted, e)
      BY <3>1
    <3> HIDE DEF e
    <3>4. /\ cwQueue' \in Seq(0 .. N) /\ Len(cwQueue') = q + 1 /\ cwQueue'[q + 1] = e
          /\ \A i \in 1 .. q : cwQueue'[i] = cwQueue[i]
      BY <1>2, <1>6, <3>2, <3>3, AppendProperties
    <3>5. cwAccepted' \in Seq(1 .. N) /\ Len(cwAccepted') = a + 1
      BY <1>2, <1>6, <3>2, <3>3, AppendProperties
    <3>6. W!TypeOK'
      BY <1>2, <1>9, <2>1, <2>2, <3>4, <3>5
    <3>7. NoneYet'
      BY <1>4, <2>2, <2>3 DEF NoneYet
    <3>8. c + a = n /\ w + q = a
      BY <1>8, <2>1, <2>3
    <3>9. Follow(cwAccepted', c)
      <4>1. Follow(Append(cwAccepted, c + Len(cwAccepted) + 1), c)
        BY <1>5, <1>8, FollowAppend
      <4>2. c + Len(cwAccepted) + 1 = n + 1
        BY <1>6, <3>8
      <4> QED
        BY <3>1, <4>1, <4>2
    <3>10. ASSUME NEW i \in 1 .. q + 1, cwQueue'[i] # 0
           PROVE  cwQueue'[i] = c + w + i /\ w + i <= a + 1
      <4>1. CASE i \in 1 .. q
        <5>1. cwQueue[i] = c + w + i /\ w + i <= a
          BY <1>8, <2>3, <3>4, <3>10, <4>1
        <5>2. cwQueue'[i] = c + w + i
          BY <3>4, <4>1, <5>1
        <5>3. w + i <= a + 1
          BY <4>1, <5>1
        <5> QED
          BY <5>2, <5>3
      <4>2. CASE i = q + 1
        <5>1. n + 1 = c + w + i /\ w + i <= a + 1
          BY <3>8, <4>2
        <5> QED
          BY <3>4, <4>2, <5>1 DEF e
      <4> QED
        BY <4>1, <4>2
    <3>11. c + (a + 1) = n + 1 /\ w + (q + 1) = a + 1 /\ w <= a + 1
      BY <1>8, <3>8
    <3>12. Accounted(c)'
      BY <1>6, <1>8, <2>1, <2>2, <3>4, <3>5, <3>9, <3>10, <3>11 DEF Accounted, Follow
    <3> QED
      BY <3>6, <3>7, <3>12 DEF WriterIInv
  <2>4. CASE cwThread # "looping"
    <3>1. UNCHANGED <<cwQueue, cwAccepted>>
      BY <1>12, <2>4 DEF W!WriteData, W!PostThreadMessage
    <3>2. W!TypeOK'
      BY <1>2, <1>9, <2>1, <2>2, <3>1
    <3>3. NoneYet'
      BY <1>4, <2>2, <3>1 DEF NoneYet
    <3>4. Accounted(c)'
      BY <1>3, <2>2, <2>4, <3>1 DEF Accounted, Follow
    <3> QED
      BY <3>2, <3>3, <3>4 DEF WriterIInv
  <2> QED
    BY <2>3, <2>4
<1>13. CASE W!CloseHandle
  <2>1. /\ cwMain = "initialized" /\ cwMain' = "closed" /\ cwHandle' = "NULL"
        /\ UNCHANGED <<cwThread, cwQueue, cwCalls, cwWritten, cwAccepted>>
    BY <1>13 DEF W!CloseHandle
  <2> QED
    BY <1>2, <1>10, <2>1
<1>14. CASE W!PostQuit
  <2>1. /\ cwMain = "closed" /\ cwMain' = "waiting"
        /\ UNCHANGED <<cwThread, cwHandle, cwCalls, cwWritten, cwAccepted>>
    BY <1>14 DEF W!PostQuit
  <2>2. CASE cwThread = "looping"
    <3>1. cwQueue' = Append(cwQueue, 0)
      BY <1>14, <2>2 DEF W!PostQuit, W!PostThreadMessage
    <3>2. /\ cwQueue' \in Seq(0 .. N) /\ Len(cwQueue') = q + 1 /\ cwQueue'[q + 1] = 0
          /\ \A i \in 1 .. q : cwQueue'[i] = cwQueue[i]
      <4>1. 0 \in 0 .. N
        OBVIOUS
      <4> QED
        BY <1>2, <1>6, <3>1, <4>1, AppendProperties
    <3>3. W!TypeOK'
      BY <1>2, <1>9, <2>1, <3>2
    <3>4. NoneYet'
      BY <1>4, <2>1, <2>2 DEF NoneYet
    <3>5. ASSUME NEW i \in 1 .. q + 1, cwQueue'[i] # 0
          PROVE  cwQueue'[i] = c + w + i /\ w + i <= a
      <4>1. i # q + 1
        BY <3>2, <3>5
      <4>2. i \in 1 .. q
        BY <4>1
      <4> QED
        BY <1>8, <2>2, <3>2, <3>5, <4>2
    <3>6. Accounted(c)'
      BY <1>6, <1>7, <1>8, <2>1, <3>2, <3>5 DEF Accounted, Follow
    <3> QED
      BY <3>3, <3>4, <3>6 DEF WriterIInv
  <2>3. CASE cwThread # "looping"
    <3>1. UNCHANGED cwQueue
      BY <1>14, <2>3 DEF W!PostQuit, W!PostThreadMessage
    <3> QED
      BY <1>2, <1>10, <2>1, <2>3, <3>1
  <2> QED
    BY <2>2, <2>3
<1>15. CASE W!WaitEnds
  <2>1. /\ cwMain' = "gone" /\ UNCHANGED <<cwThread, cwHandle, cwQueue, cwCalls, cwWritten, cwAccepted>>
    BY <1>15 DEF W!WaitEnds
  <2> QED
    BY <1>2, <1>10, <2>1
<1>16. CASE W!Connect
  <2>1. /\ cwThread = "waiting" /\ cwThread' \in {"ended", "opened"}
        /\ cwHandle' \in {cwHandle, "invalid", "open"}
        /\ UNCHANGED <<cwMain, cwQueue, cwCalls, cwWritten, cwAccepted>>
    BY <1>16 DEF W!Connect, W!Runs
  <2> QED
    BY <1>2, <1>4, <1>10, <2>1 DEF NoneYet
<1>17. CASE W!SetNamedPipeHandleState
  <2>1. /\ cwThread = "opened" /\ cwThread' \in {"ended", "looping"}
        /\ UNCHANGED <<cwMain, cwHandle, cwQueue, cwCalls, cwWritten, cwAccepted>>
    BY <1>17 DEF W!SetNamedPipeHandleState, W!Runs
  <2>2. W!TypeOK'
    BY <1>2, <1>9, <2>1
  <2>3. cwQueue = <<>> /\ cwAccepted = <<>> /\ cwWritten = <<>> /\ cwMain # "constructed"
    BY <1>4, <2>1 DEF NoneYet
  <2>4. NoneYet'
    BY <2>1, <2>3 DEF NoneYet
  <2>5. Len(cwQueue') = 0 /\ Len(cwAccepted') = 0 /\ Len(cwWritten') = 0
    BY <2>1, <2>3
  <2>6. cwCalls' = n
    BY <1>7, <2>1
  <2>7. Accounted(n)'
    BY <2>5, <2>6 DEF Accounted, Follow
  <2> QED
    BY <2>2, <2>4, <2>7 DEF WriterIInv
<1>18. CASE W!WriteSucceeds
  <2>1. /\ cwThread = "looping" /\ cwQueue # <<>> /\ cwQueue' = Tail(cwQueue) /\ Head(cwQueue) # 0
        /\ cwWritten' = Append(cwWritten, Head(cwQueue))
        /\ UNCHANGED <<cwMain, cwThread, cwHandle, cwCalls, cwAccepted>>
    BY <1>18 DEF W!WriteSucceeds, W!Message, W!Runs
  <2>2. PICK e \in 0 .. N : e = Head(cwQueue) /\ e = cwQueue[1]
    <3>1. Head(cwQueue) \in 0 .. N
      BY <1>2, <2>1, HeadTailProperties
    <3>2. Head(cwQueue) = cwQueue[1]
      BY <1>2
    <3> QED
      BY <3>1, <3>2
  <2>3. /\ cwQueue' \in Seq(0 .. N) /\ Len(cwQueue') = q - 1
        /\ \A i \in 1 .. q - 1 : cwQueue'[i] = cwQueue[i + 1]
    BY <1>2, <1>6, <2>1, HeadTailProperties
  <2>4. q >= 1
    BY <1>2, <1>6, <2>1, EmptySeq
  <2>5. e = c + w + 1 /\ w + 1 <= a
    BY <1>8, <2>1, <2>2, <2>4
  <2>6. e \in 1 .. N
    BY <2>1, <2>2
  <2>7. cwWritten' \in Seq(1 .. N) /\ Len(cwWritten') = w + 1
    BY <1>2, <1>6, <2>1, <2>2, <2>6, AppendProperties
  <2>8. W!TypeOK'
    BY <1>2, <1>9, <2>1, <2>3, <2>7
  <2>9. NoneYet'
    BY <1>4, <2>1 DEF NoneYet
  <2>10. Follow(cwWritten', c)
    <3>1. Follow(Append(cwWritten, c + Len(cwWritten) + 1), c)
      BY <1>5, <1>8, FollowAppend
    <3> QED
      BY <1>6, <2>1, <2>2, <2>5, <3>1
  <2>11. ASSUME NEW i \in 1 .. q - 1, cwQueue'[i] # 0
         PROVE  cwQueue'[i] = c + (w + 1) + i /\ (w + 1) + i <= a
    <3>1. i + 1 \in 1 .. q
      OBVIOUS
    <3>2. cwQueue[i + 1] = c + w + (i + 1) /\ w + (i + 1) <= a
      BY <1>8, <2>1, <2>3, <2>11, <3>1
    <3>3. c + w + (i + 1) = c + (w + 1) + i /\ w + (i + 1) = (w + 1) + i
      OBVIOUS
    <3> QED
      BY <2>3, <3>2, <3>3
  <2>12. w + q = a => (w + 1) + (q - 1) = a
    BY <2>4
  <2>13. Accounted(c)'
    BY <1>6, <1>7, <1>8, <2>1, <2>3, <2>5, <2>7, <2>10, <2>11, <2>12 DEF Accounted, Follow
  <2> QED
    BY <2>8, <2>9, <2>13 DEF WriterIInv
<1>19. CASE W!WriteFails \/ W!Quit
  <2>1. /\ cwQueue # <<>> /\ cwQueue' = Tail(cwQueue) /\ cwThread' = "ended" /\ cwHandle' = "NULL"
        /\ cwThread = "looping" /\ UNCHANGED <<cwMain, cwCalls, cwWritten, cwAccepted>>
    BY <1>19 DEF W!WriteFails, W!Quit, W!Message, W!Ends, W!Runs
  <2>2. cwQueue' \in Seq(0 .. N)
    BY <1>2, <2>1, HeadTailProperties
  <2>3. W!TypeOK'
    BY <1>2, <1>9, <2>1, <2>2
  <2>4. NoneYet'
    BY <1>4, <2>1 DEF NoneYet
  <2>5. Accounted(c)'
    BY <1>3, <2>1 DEF Accounted, Follow
  <2> QED
    BY <2>3, <2>4, <2>5 DEF WriterIInv
<1>20. CASE UNCHANGED cwVars
  <2>1. W!TypeOK'
    BY <1>2, <1>9, <1>20 DEF cwVars
  <2>2. NoneYet'
    BY <1>4, <1>20 DEF NoneYet, cwVars
  <2>3. Accounted(c)'
    BY <1>3, <1>20 DEF Accounted, Follow, cwVars
  <2> QED
    BY <2>1, <2>2, <2>3 DEF WriterIInv
<1> QED
  BY <1>11, <1>12, <1>13, <1>14, <1>15, <1>16, <1>17, <1>18, <1>19, <1>20 DEF W!Next

(* A writer begins with nothing posted and no thread.                      *)
LEMMA WriterStarts ==
  ASSUME W!Init
  PROVE  WriterIInv
<1>1. /\ cwQueue \in Seq(0 .. MaxStrings) /\ cwWritten \in Seq(1 .. MaxStrings)
      /\ cwAccepted \in Seq(1 .. MaxStrings)
      /\ Len(cwQueue) = 0 /\ Len(cwWritten) = 0 /\ Len(cwAccepted) = 0
  BY EmptySeq DEF W!Init
<1>2. 0 \in 0 .. MaxStrings
  BY ToolboxAssumption
<1>3. W!TypeOK
  BY <1>1, <1>2 DEF W!Init, W!TypeOK
<1>4. NoneYet
  BY DEF W!Init, NoneYet
<1>5. cwThread # "looping"
  BY DEF W!Init
<1>6. Accounted(0)
  BY <1>1, <1>5 DEF Accounted, Follow
<1> QED
  BY <1>3, <1>4, <1>6 DEF WriterIInv

(* What the invariant says of the strings.                                 *)
LEMMA WritesInOrder ==
  ASSUME WriterIInv
  PROVE  W!WrittenInOrder
<1>1. PICK c \in Nat : Accounted(c)
  BY DEF WriterIInv
<1>2. cwWritten \in Seq(Nat) /\ cwAccepted \in Seq(Nat)
  <2>1. cwWritten \in Seq(1 .. MaxStrings) /\ cwAccepted \in Seq(1 .. MaxStrings)
    BY DEF WriterIInv, W!TypeOK
  <2>2. 1 .. MaxStrings \subseteq Nat
    OBVIOUS
  <2> QED
    BY <2>1, <2>2, SeqMonotonic
<1>3. Follow(cwAccepted, c) /\ Follow(cwWritten, c) /\ Len(cwWritten) <= Len(cwAccepted)
  BY <1>1 DEF Accounted
<1>4. \E n \in 0 .. Len(cwAccepted) : cwWritten = SubSeq(cwAccepted, 1, n)
  <2>1. cwWritten = SubSeq(cwAccepted, 1, Len(cwWritten))
    BY <1>2, <1>3, FollowPrefix
  <2>2. Len(cwWritten) \in 0 .. Len(cwAccepted)
    BY <1>2, <1>3, LenProperties
  <2> QED
    BY <2>1, <2>2
<1>5. PICK a \in Nat : a = Len(cwAccepted)
  BY <1>2, LenProperties
<1>6. \A i \in 1 .. a : cwAccepted[i] = c + i
  BY <1>3, <1>5 DEF Follow
<1>7. ASSUME NEW i \in 2 .. a PROVE cwAccepted[i] = cwAccepted[i - 1] + 1
  <2>1. i \in 1 .. a /\ i - 1 \in 1 .. a /\ c + i = (c + (i - 1)) + 1
    OBVIOUS
  <2>2. cwAccepted[i] = c + i /\ cwAccepted[i - 1] = c + (i - 1)
    BY <1>6, <2>1
  <2> QED
    BY <2>1, <2>2
<1> QED
  BY <1>4, <1>5, <1>7 DEF W!WrittenInOrder

-----------------------------------------------------------------------------
(* AtomicSharedPtr                                                         *)

(* How many threads own o through f.                                       *)
Owners(f, o) == Cardinality({t \in Users : f[t] = o})

(* What a thread owns by the call it is in: at "copy" the pointer is read  *)
(* and not counted yet.                                                    *)
Counted == [t \in Users |-> IF spPc[t] = "copy" THEN 0 ELSE spArg[t]]

(* One thread owns something else.                                         *)
LEMMA OwnerMoves ==
  ASSUME NEW f \in [Users -> S!Pointers], NEW u \in Users, NEW x \in S!Pointers, NEW o \in Objects
  PROVE  /\ Owners(f, o) \in Nat
         /\ Owners([f EXCEPT ![u] = x], o) = Owners(f, o) + S!One(o, x) - S!One(o, f[u])
<1> DEFINE g == [f EXCEPT ![u] = x]
           these == {t \in Users : f[t] = o}
           those == {t \in Users : g[t] = o}
           rest == these \ {u}
<1>1. IsFiniteSet(these) /\ IsFiniteSet(those) /\ IsFiniteSet(rest)
  <2>1. IsFiniteSet(Users)
    BY ToolboxAssumption
  <2> QED
    BY <2>1, FS_Subset
<1>2. Cardinality(these) \in Nat /\ Cardinality(those) \in Nat /\ Cardinality(rest) \in Nat
  BY <1>1, FS_CardinalityType
<1>3. g[u] = x /\ \A t \in Users : t # u => g[t] = f[t]
  OBVIOUS
<1>4. Cardinality(these) = Cardinality(rest) + S!One(o, f[u])
  <2>1. CASE f[u] = o
    <3>1. u \in these
      BY <2>1
    <3>2. Cardinality(rest) = Cardinality(these) - 1
      BY <1>1, <3>1, FS_RemoveElement
    <3> QED
      BY <1>2, <2>1, <3>2 DEF S!One
  <2>2. CASE f[u] # o
    <3>1. rest = these
      BY <2>2
    <3> QED
      BY <1>2, <2>2, <3>1 DEF S!One
  <2> QED
    BY <2>1, <2>2
<1>5. Cardinality(those) = Cardinality(rest) + S!One(o, x)
  <2>1. CASE x = o
    <3>1. those = rest \union {u} /\ u \notin rest
      BY <1>3, <2>1
    <3>2. Cardinality(those) = Cardinality(rest) + 1
      BY <1>1, <3>1, FS_AddElement
    <3> QED
      BY <1>2, <2>1, <3>2 DEF S!One
  <2>2. CASE x # o
    <3>1. those = rest
      BY <1>3, <2>2
    <3> QED
      BY <1>2, <2>2, <3>1 DEF S!One
  <2> QED
    BY <2>1, <2>2
<1>6. Owners(f, o) = Cardinality(these) /\ Owners(g, o) = Cardinality(those)
  BY DEF Owners
<1>7. S!One(o, x) \in Nat /\ S!One(o, f[u]) \in Nat
  BY DEF S!One
<1> HIDE DEF these, those, rest, g
<1>8. Owners(g, o) = Owners(f, o) + S!One(o, x) - S!One(o, f[u])
  BY <1>2, <1>4, <1>5, <1>6, <1>7
<1> QED
  BY <1>2, <1>6, <1>8 DEF g

SharedTypeOK ==
  /\ spPc \in [Users -> {"out", "exchange", "swap", "unlock", "read", "copy", "drop"}]
  /\ spMutex \subseteq Users
  /\ spStorage \in S!Pointers
  /\ spHeld \in [Users -> S!Pointers] /\ spArg \in [Users -> S!Pointers]
  /\ spCount \in [Objects -> Nat]

(* Who is between the lock and the unlock holds the mutex; a load has read *)
(* what is still stored.                                                   *)
Guarded ==
  \A t \in Users :
    /\ spPc[t] \in {"swap", "unlock", "read", "copy"} => spMutex = {t}
    /\ spPc[t] = "copy" => spArg[t] = spStorage
    /\ spPc[t] \in {"out", "read"} => spArg[t] = 0

CountsOwners ==
  \A o \in Objects :
    spCount[o] = S!One(o, spStorage) + Owners(spHeld, o) + Owners(Counted, o)

SharedIInv == SharedTypeOK /\ Guarded /\ CountsOwners

(* Thread t keeps h and owns c by its call from now on, one owner of from  *)
(* goes and one of to comes, and that is the same.                         *)
Moves(t, h, c, from, to) ==
  /\ spHeld' = [spHeld EXCEPT ![t] = h] /\ Counted' = [Counted EXCEPT ![t] = c]
  /\ S!Recount(from, to)
  /\ \A o \in Objects : S!One(o, spStorage') + S!One(o, h) + S!One(o, c) + S!One(o, from)
                         = S!One(o, spStorage) + S!One(o, spHeld[t]) + S!One(o, Counted[t]) + S!One(o, to)

(* A step of thread t changes the owners and the counts by the same.       *)
LEMMA Balanced ==
  ASSUME SharedTypeOK, CountsOwners, NEW t \in Users,
         NEW h \in S!Pointers, NEW c \in S!Pointers, NEW from \in S!Pointers, NEW to \in S!Pointers,
         Moves(t, h, c, from, to)
  PROVE  CountsOwners' /\ spCount' \in [Objects -> Nat]
<1>0. /\ spHeld' = [spHeld EXCEPT ![t] = h] /\ Counted' = [Counted EXCEPT ![t] = c]
      /\ spCount' = [o \in Objects |-> spCount[o] + S!One(o, to) - S!One(o, from)]
      /\ \A o \in Objects : S!One(o, spStorage') + S!One(o, h) + S!One(o, c) + S!One(o, from)
                             = S!One(o, spStorage) + S!One(o, spHeld[t]) + S!One(o, Counted[t]) + S!One(o, to)
  BY DEF Moves, S!Recount
<1>1. Counted \in [Users -> S!Pointers] /\ spHeld \in [Users -> S!Pointers]
  BY DEF SharedTypeOK, Counted, S!Pointers
<1>2. ASSUME NEW o \in Objects
      PROVE  /\ spCount'[o] = S!One(o, spStorage') + Owners(spHeld', o) + Owners(Counted', o)
             /\ spCount'[o] \in Nat
  <2>1. /\ Owners(spHeld, o) \in Nat
        /\ Owners(spHeld', o) = Owners(spHeld, o) + S!One(o, h) - S!One(o, spHeld[t])
    BY <1>0, <1>1, OwnerMoves
  <2>2. /\ Owners(Counted, o) \in Nat
        /\ Owners(Counted', o) = Owners(Counted, o) + S!One(o, c) - S!One(o, Counted[t])
    BY <1>0, <1>1, OwnerMoves
  <2>3. Owners(spHeld', o) \in Nat /\ Owners(Counted', o) \in Nat
    <3>1. spHeld' \in [Users -> S!Pointers] /\ Counted' \in [Users -> S!Pointers]
      BY <1>0, <1>1
    <3>2. PICK g \in [Users -> S!Pointers], k \in [Users -> S!Pointers] : g = spHeld' /\ k = Counted'
      BY <3>1
    <3>3. Owners(g, o) \in Nat /\ Owners(k, o) \in Nat
      BY OwnerMoves
    <3> QED
      BY <3>2, <3>3
  <2>4. spCount'[o] = spCount[o] + S!One(o, to) - S!One(o, from)
    BY <1>0
  <2>5. spCount[o] = S!One(o, spStorage) + Owners(spHeld, o) + Owners(Counted, o)
    BY DEF CountsOwners
  <2>6. \A x : S!One(o, x) \in {0, 1}
    BY DEF S!One
  <2>7. PICK a \in Nat, a1 \in Nat, b \in Nat, b1 \in Nat, n \in Nat :
          /\ a = Owners(spHeld, o) /\ a1 = Owners(spHeld', o)
          /\ b = Owners(Counted, o) /\ b1 = Owners(Counted', o)
          /\ n = spCount[o]
    BY <2>1, <2>2, <2>3 DEF SharedTypeOK
  <2>8. PICK s \in {0, 1}, s1 \in {0, 1}, xh \in {0, 1}, yh \in {0, 1}, xc \in {0, 1}, yc \in {0, 1},
             xf \in {0, 1}, xt \in {0, 1} :
          /\ s = S!One(o, spStorage) /\ s1 = S!One(o, spStorage')
          /\ xh = S!One(o, h) /\ yh = S!One(o, spHeld[t])
          /\ xc = S!One(o, c) /\ yc = S!One(o, Counted[t])
          /\ xf = S!One(o, from) /\ xt = S!One(o, to)
    BY <2>6
  <2>9. s1 + xh + xc + xf = s + yh + yc + xt
    BY <1>0, <2>8
  <2>10. a1 = a + xh - yh /\ b1 = b + xc - yc /\ n = s + a + b /\ spCount'[o] = n + xt - xf
    BY <2>1, <2>2, <2>4, <2>5, <2>7, <2>8
  <2>11. n + xt - xf = s1 + a1 + b1 /\ s1 + a1 + b1 \in Nat
    <3>1. a1 = a + xh - yh /\ b1 = b + xc - yc /\ n = s + a + b
      BY <2>10
    <3> QED
      BY <2>9, <3>1
  <2> QED
    BY <2>7, <2>8, <2>10, <2>11
<1>3. spCount' = [o \in Objects |-> spCount'[o]]
  BY <1>0
<1> QED
  BY <1>2, <1>3 DEF CountsOwners

(* A step that leaves the counts alone counts nobody in or out.            *)
LEMMA Unbalanced ==
  ASSUME SharedTypeOK, UNCHANGED spCount
  PROVE  0 \in S!Pointers /\ S!Recount(0, 0)
<1>1. \A o \in Objects : spCount[o] \in Nat /\ spCount[o] + S!One(o, 0) - S!One(o, 0) = spCount[o]
  BY DEF SharedTypeOK, S!One
<1>2. spCount = [o \in Objects |-> spCount[o]]
  BY DEF SharedTypeOK
<1>3. spCount = [o \in Objects |-> spCount[o] + S!One(o, 0) - S!One(o, 0)]
  BY <1>1, <1>2
<1> QED
  BY <1>3 DEF S!Pointers, S!Recount

(* Stores, loads and ends of scopes (save_obj_main.cpp:33-52, main's two   *)
(* threads) keep the discipline of the mutex and the counts.               *)
LEMMA SharedKeeps ==
  ASSUME SharedIInv, [S!Next]_spVars
  PROVE  SharedIInv'
<1> DEFINE places == {"out", "exchange", "swap", "unlock", "read", "copy", "drop"}
<1>1. /\ spPc \in [Users -> places] /\ spMutex \subseteq Users /\ spStorage \in S!Pointers
      /\ spHeld \in [Users -> S!Pointers] /\ spArg \in [Users -> S!Pointers]
      /\ spCount \in [Objects -> Nat]
  BY DEF SharedIInv, SharedTypeOK
<1>2. SharedTypeOK /\ Guarded /\ CountsOwners
  BY DEF SharedIInv
<1>3. 0 \in S!Pointers /\ \A o \in Objects : o \in S!Pointers /\ S!One(o, 0) = 0
  BY ToolboxAssumption DEF S!Pointers, S!One
<1>4. \A o \in Objects : \A x : S!One(o, x) \in Nat
  BY DEF S!One
<1>5. \A t \in Users : Counted[t] = IF spPc[t] = "copy" THEN 0 ELSE spArg[t]
  BY DEF Counted
<1>6. Counted \in [Users -> S!Pointers]
  BY <1>1, <1>3 DEF Counted
<1>7. ASSUME NEW t \in Users, NEW place \in places, NEW arg \in S!Pointers,
             spPc' = [spPc EXCEPT ![t] = place], spArg' = [spArg EXCEPT ![t] = arg]
      PROVE  Counted' = [Counted EXCEPT ![t] = IF place = "copy" THEN 0 ELSE arg]
  BY <1>1, <1>7 DEF Counted
<1>8. spArg = [t \in Users |-> spArg[t]] /\ spHeld = [t \in Users |-> spHeld[t]]
  BY <1>1
<1>9. ASSUME NEW t \in Users, NEW o \in Objects, S!Make(t, o) PROVE SharedIInv'
  <2>1. /\ spPc[t] = "out" /\ spHeld[t] = 0 /\ spHeld' = [spHeld EXCEPT ![t] = o] /\ S!Recount(0, o)
        /\ UNCHANGED <<spPc, spMutex, spStorage, spArg>>
    BY <1>9 DEF S!Make
  <2>2. Counted' = [Counted EXCEPT ![t] = Counted[t]]
    BY <1>6, <2>1 DEF Counted
  <2>3. \A x \in Objects : S!One(x, spStorage') + S!One(x, o) + S!One(x, Counted[t]) + S!One(x, 0)
                           = S!One(x, spStorage) + S!One(x, spHeld[t]) + S!One(x, Counted[t]) + S!One(x, o)
    BY <1>3, <1>4, <2>1
  <2>4. CountsOwners' /\ spCount' \in [Objects -> Nat]
    <3>1. o \in S!Pointers /\ Counted[t] \in S!Pointers
      BY <1>3, <1>6
    <3>9. Moves(t, o, Counted[t], 0, o)
      BY <2>1, <2>2, <2>3, <3>1 DEF Moves
    <3> QED
      BY <1>1, <1>2, <1>3, <3>9, <3>1, Balanced
  <2>5. SharedTypeOK'
    BY <1>1, <1>3, <2>1, <2>4 DEF SharedTypeOK
  <2>6. Guarded'
    BY <1>2, <2>1 DEF Guarded
  <2> QED
    BY <2>4, <2>5, <2>6 DEF SharedIInv
<1>10. ASSUME NEW t \in Users, S!ScopeGuard(t) PROVE SharedIInv'
  <2>1. /\ spPc[t] = "out" /\ spHeld' = [spHeld EXCEPT ![t] = 0] /\ S!Recount(spHeld[t], 0)
        /\ UNCHANGED <<spPc, spMutex, spStorage, spArg>>
    BY <1>10 DEF S!ScopeGuard
  <2>2. Counted' = [Counted EXCEPT ![t] = Counted[t]]
    BY <1>6, <2>1 DEF Counted
  <2>3. \A x \in Objects : S!One(x, spStorage') + S!One(x, 0) + S!One(x, Counted[t]) + S!One(x, spHeld[t])
                           = S!One(x, spStorage) + S!One(x, spHeld[t]) + S!One(x, Counted[t]) + S!One(x, 0)
    BY <1>3, <1>4, <2>1
  <2>4. CountsOwners' /\ spCount' \in [Objects -> Nat]
    <3>1. spHeld[t] \in S!Pointers /\ Counted[t] \in S!Pointers
      BY <1>1, <1>6
    <3>9. Moves(t, 0, Counted[t], spHeld[t], 0)
      BY <2>1, <2>2, <2>3, <3>1 DEF Moves
    <3> QED
      BY <1>1, <1>2, <1>3, <3>9, <3>1, Balanced
  <2>5. SharedTypeOK'
    BY <1>1, <1>3, <2>1, <2>4 DEF SharedTypeOK
  <2>6. Guarded'
    BY <1>2, <2>1 DEF Guarded
  <2> QED
    BY <2>4, <2>5, <2>6 DEF SharedIInv
<1>11. ASSUME NEW t \in Users, S!store(t) PROVE SharedIInv'
  <2>1. /\ spPc[t] = "out" /\ spPc' = [spPc EXCEPT ![t] = "exchange"]
        /\ spArg' = [spArg EXCEPT ![t] = spHeld[t]] /\ S!Recount(0, spHeld[t])
        /\ UNCHANGED <<spMutex, spStorage, spHeld>>
    BY <1>11 DEF S!store, S!Goes
  <2>2. Counted' = [Counted EXCEPT ![t] = spHeld[t]] /\ Counted[t] = 0
    <3>1. Counted[t] = 0
      BY <1>2, <1>5, <2>1 DEF Guarded
    <3> QED
      BY <1>1, <1>7, <2>1, <3>1
  <2>3. \A x \in Objects : S!One(x, spStorage') + S!One(x, spHeld[t]) + S!One(x, spHeld[t]) + S!One(x, 0)
                           = S!One(x, spStorage) + S!One(x, spHeld[t]) + S!One(x, Counted[t]) + S!One(x, spHeld[t])
    BY <1>3, <1>4, <2>1, <2>2
  <2>4. CountsOwners' /\ spCount' \in [Objects -> Nat]
    <3>1. spHeld[t] \in S!Pointers /\ spHeld' = [spHeld EXCEPT ![t] = spHeld[t]]
      BY <1>1, <2>1
    <3>9. Moves(t, spHeld[t], spHeld[t], 0, spHeld[t])
      BY <2>1, <2>2, <2>3, <3>1 DEF Moves
    <3> QED
      BY <1>1, <1>2, <1>3, <3>9, <3>1, Balanced
  <2>5. SharedTypeOK'
    BY <1>1, <2>1, <2>4 DEF SharedTypeOK
  <2>6. Guarded'
    BY <1>1, <1>2, <2>1 DEF Guarded
  <2> QED
    BY <2>4, <2>5, <2>6 DEF SharedIInv
<1>12. ASSUME NEW t \in Users, S!exchange(t) \/ S!load(t) \/ S!Unlock(t) PROVE SharedIInv'
  <2>1. PICK place \in {"swap", "read", "drop"} :
          /\ spPc' = [spPc EXCEPT ![t] = place] /\ spPc[t] \in {"exchange", "out", "unlock"}
          /\ spPc[t] = "out" <=> place = "read"
          /\ place \in {"swap", "read"} => spMutex = {} /\ spMutex' = {t}
          /\ place = "drop" => spPc[t] = "unlock" /\ spMutex' = spMutex \ {t}
    BY <1>12 DEF S!exchange, S!load, S!Unlock, S!Goes, S!Acquire
  <2>2. UNCHANGED <<spStorage, spHeld, spArg, spCount>>
    BY <1>12 DEF S!exchange, S!load, S!Unlock
  <2>3. Counted' = [Counted EXCEPT ![t] = spArg[t]] /\ Counted[t] = spArg[t]
    <3>1. spArg' = [spArg EXCEPT ![t] = spArg[t]] /\ spArg[t] \in S!Pointers
      BY <1>1, <2>2
    <3>2. Counted[t] = spArg[t]
      BY <1>5, <2>1
    <3> QED
      BY <1>7, <2>1, <3>1, <3>2
  <2>4. CountsOwners' /\ spCount' \in [Objects -> Nat]
    <3>1. S!Recount(0, 0)
      BY <1>2, <2>2, Unbalanced
    <3>2. \A x \in Objects : S!One(x, spStorage') + S!One(x, spHeld[t]) + S!One(x, spArg[t]) + S!One(x, 0)
                             = S!One(x, spStorage) + S!One(x, spHeld[t]) + S!One(x, Counted[t]) + S!One(x, 0)
      BY <2>2, <2>3
    <3>3. spHeld[t] \in S!Pointers /\ spArg[t] \in S!Pointers /\ spHeld' = [spHeld EXCEPT ![t] = spHeld[t]]
      BY <1>1, <2>2
    <3>9. Moves(t, spHeld[t], spArg[t], 0, 0)
      BY <2>3, <3>1, <3>2, <3>3 DEF Moves
    <3> QED
      BY <1>1, <1>2, <1>3, <3>9, <3>1, <3>3, Balanced
  <2>5. SharedTypeOK'
    BY <1>1, <2>1, <2>2, <2>4 DEF SharedTypeOK
  <2>6. Guarded'
    <3> SUFFICES ASSUME NEW u \in Users
                 PROVE  /\ spPc'[u] \in {"swap", "unlock", "read", "copy"} => spMutex' = {u}
                        /\ spPc'[u] = "copy" => spArg[u] = spStorage
                        /\ spPc'[u] \in {"out", "read"} => spArg[u] = 0
      BY <2>2 DEF Guarded
    <3>1. CASE u = t
      BY <1>1, <1>2, <2>1, <3>1 DEF Guarded
    <3>2. CASE u # t
      BY <1>1, <1>2, <2>1, <3>2 DEF Guarded
    <3> QED
      BY <3>1, <3>2
  <2> QED
    BY <2>4, <2>5, <2>6 DEF SharedIInv
<1>13. ASSUME NEW t \in Users, S!Swap(t) PROVE SharedIInv'
  <2>1. /\ spPc[t] = "swap" /\ spPc' = [spPc EXCEPT ![t] = "unlock"]
        /\ spStorage' = spArg[t] /\ spArg' = [spArg EXCEPT ![t] = spStorage]
        /\ UNCHANGED <<spMutex, spHeld, spCount>>
    BY <1>13 DEF S!Swap, S!Goes
  <2>2. Counted' = [Counted EXCEPT ![t] = spStorage] /\ Counted[t] = spArg[t]
    BY <1>1, <1>5, <1>7, <2>1
  <2>4. CountsOwners' /\ spCount' \in [Objects -> Nat]
    <3>1. S!Recount(0, 0)
      BY <1>2, <2>1, Unbalanced
    <3>2. \A x \in Objects : S!One(x, spStorage') + S!One(x, spHeld[t]) + S!One(x, spStorage) + S!One(x, 0)
                             = S!One(x, spStorage) + S!One(x, spHeld[t]) + S!One(x, Counted[t]) + S!One(x, 0)
      <4> SUFFICES ASSUME NEW x \in Objects
                   PROVE  S!One(x, spArg[t]) + S!One(x, spHeld[t]) + S!One(x, spStorage) + S!One(x, 0)
                             = S!One(x, spStorage) + S!One(x, spHeld[t]) + S!One(x, spArg[t]) + S!One(x, 0)
        BY <2>1, <2>2
      <4> QED
        BY <1>4
    <3>3. spHeld[t] \in S!Pointers /\ spHeld' = [spHeld EXCEPT ![t] = spHeld[t]]
      BY <1>1, <2>1
    <3>9. Moves(t, spHeld[t], spStorage, 0, 0)
      BY <1>1, <2>2, <3>1, <3>2, <3>3 DEF Moves
    <3> QED
      BY <1>1, <1>2, <1>3, <3>9, <3>1, <3>3, Balanced
  <2>5. SharedTypeOK'
    BY <1>1, <2>1, <2>4 DEF SharedTypeOK
  <2>6. Guarded'
    BY <1>1, <1>2, <2>1 DEF Guarded
  <2> QED
    BY <2>4, <2>5, <2>6 DEF SharedIInv
<1>14. ASSUME NEW t \in Users, S!Read(t) PROVE SharedIInv'
  <2>1. /\ spPc[t] = "read" /\ spPc' = [spPc EXCEPT ![t] = "copy"]
        /\ spArg' = [spArg EXCEPT ![t] = spStorage]
        /\ UNCHANGED <<spMutex, spStorage, spHeld, spCount>>
    BY <1>14 DEF S!Read, S!Goes
  <2>2. Counted' = [Counted EXCEPT ![t] = 0] /\ Counted[t] = 0
    BY <1>1, <1>2, <1>5, <1>7, <2>1 DEF Guarded
  <2>4. CountsOwners' /\ spCount' \in [Objects -> Nat]
    <3>1. S!Recount(0, 0)
      BY <1>2, <2>1, Unbalanced
    <3>2. \A x \in Objects : S!One(x, spStorage') + S!One(x, spHeld[t]) + S!One(x, 0) + S!One(x, 0)
                             = S!One(x, spStorage) + S!One(x, spHeld[t]) + S!One(x, Counted[t]) + S!One(x, 0)
      BY <2>1, <2>2
    <3>3. spHeld[t] \in S!Pointers /\ spHeld' = [spHeld EXCEPT ![t] = spHeld[t]]
      BY <1>1, <2>1
    <3>9. Moves(t, spHeld[t], 0, 0, 0)
      BY <2>2, <3>1, <3>2, <3>3 DEF Moves
    <3> QED
      BY <1>1, <1>2, <1>3, <3>9, <3>1, <3>3, Balanced
  <2>5. SharedTypeOK'
    BY <1>1, <2>1, <2>4 DEF SharedTypeOK
  <2>6. Guarded'
    BY <1>1, <1>2, <2>1 DEF Guarded
  <2> QED
    BY <2>4, <2>5, <2>6 DEF SharedIInv
<1>15. ASSUME NEW t \in Users, S!CountUp(t) PROVE SharedIInv'
  <2>1. /\ spPc[t] = "copy" /\ spPc' = [spPc EXCEPT ![t] = "unlock"] /\ S!Recount(0, spArg[t])
        /\ UNCHANGED <<spMutex, spStorage, spHeld, spArg>>
    BY <1>15 DEF S!CountUp, S!Goes
  <2>2. Counted' = [Counted EXCEPT ![t] = spArg[t]] /\ Counted[t] = 0
    <3>1. spArg' = [spArg EXCEPT ![t] = spArg[t]] /\ spArg[t] \in S!Pointers
      BY <1>1, <2>1
    <3> QED
      BY <1>5, <1>7, <2>1, <3>1
  <2>4. CountsOwners' /\ spCount' \in [Objects -> Nat]
    <3>2. \A x \in Objects : S!One(x, spStorage') + S!One(x, spHeld[t]) + S!One(x, spArg[t]) + S!One(x, 0)
                             = S!One(x, spStorage) + S!One(x, spHeld[t]) + S!One(x, Counted[t]) + S!One(x, spArg[t])
      <4> SUFFICES ASSUME NEW x \in Objects
                   PROVE  S!One(x, spStorage) + S!One(x, spHeld[t]) + S!One(x, spArg[t]) + S!One(x, 0)
                             = S!One(x, spStorage) + S!One(x, spHeld[t]) + S!One(x, 0) + S!One(x, spArg[t])
        BY <2>1, <2>2
      <4> QED
        BY <1>4
    <3>3. spHeld[t] \in S!Pointers /\ spArg[t] \in S!Pointers /\ spHeld' = [spHeld EXCEPT ![t] = spHeld[t]]
      BY <1>1, <2>1
    <3>9. Moves(t, spHeld[t], spArg[t], 0, spArg[t])
      BY <2>1, <2>2, <3>2, <3>3 DEF Moves
    <3> QED
      BY <1>1, <1>2, <1>3, <3>9, <3>3, Balanced
  <2>5. SharedTypeOK'
    BY <1>1, <2>1, <2>4 DEF SharedTypeOK
  <2>6. Guarded'
    BY <1>1, <1>2, <2>1 DEF Guarded
  <2> QED
    BY <2>4, <2>5, <2>6 DEF SharedIInv
<1>16. ASSUME NEW t \in Users, S!Drop(t) PROVE SharedIInv'
  <2>1. /\ spPc[t] = "drop" /\ spPc' = [spPc EXCEPT ![t] = "out"]
        /\ spArg' = [spArg EXCEPT ![t] = 0] /\ S!Recount(spArg[t], 0)
        /\ UNCHANGED <<spMutex, spStorage, spHeld>>
    BY <1>16 DEF S!Drop, S!Goes
  <2>2. Counted' = [Counted EXCEPT ![t] = 0] /\ Counted[t] = spArg[t]
    BY <1>3, <1>5, <1>7, <2>1
  <2>4. CountsOwners' /\ spCount' \in [Objects -> Nat]
    <3>2. \A x \in Objects : S!One(x, spStorage') + S!One(x, spHeld[t]) + S!One(x, 0) + S!One(x, spArg[t])
                             = S!One(x, spStorage) + S!One(x, spHeld[t]) + S!One(x, Counted[t]) + S!One(x, 0)
      <4> SUFFICES ASSUME NEW x \in Objects
                   PROVE  S!One(x, spStorage) + S!One(x, spHeld[t]) + S!One(x, 0) + S!One(x, spArg[t])
                             = S!One(x, spStorage) + S!One(x, spHeld[t]) + S!One(x, spArg[t]) + S!One(x, 0)
        BY <2>1, <2>2
      <4> QED
        BY <1>4
    <3>3. spHeld[t] \in S!Pointers /\ spArg[t] \in S!Pointers /\ spHeld' = [spHeld EXCEPT ![t] = spHeld[t]]
      BY <1>1, <2>1
    <3>9. Moves(t, spHeld[t], 0, spArg[t], 0)
      BY <2>1, <2>2, <3>2, <3>3 DEF Moves
    <3> QED
      BY <1>1, <1>2, <1>3, <3>9, <3>3, Balanced
  <2>5. SharedTypeOK'
    BY <1>1, <1>3, <2>1, <2>4 DEF SharedTypeOK
  <2>6. Guarded'
    BY <1>1, <1>2, <2>1 DEF Guarded
  <2> QED
    BY <2>4, <2>5, <2>6 DEF SharedIInv
<1>17. ASSUME NEW t \in Users, S!Keep(t) PROVE SharedIInv'
  <2>1. /\ spPc[t] = "drop" /\ spPc' = [spPc EXCEPT ![t] = "out"]
        /\ spArg' = [spArg EXCEPT ![t] = 0] /\ spHeld' = [spHeld EXCEPT ![t] = spArg[t]]
        /\ S!Recount(spHeld[t], 0)
        /\ UNCHANGED <<spMutex, spStorage>>
    BY <1>17 DEF S!Keep, S!Goes
  <2>2. Counted' = [Counted EXCEPT ![t] = 0] /\ Counted[t] = spArg[t]
    BY <1>3, <1>5, <1>7, <2>1
  <2>4. CountsOwners' /\ spCount' \in [Objects -> Nat]
    <3>2. \A x \in Objects : S!One(x, spStorage') + S!One(x, spArg[t]) + S!One(x, 0) + S!One(x, spHeld[t])
                             = S!One(x, spStorage) + S!One(x, spHeld[t]) + S!One(x, Counted[t]) + S!One(x, 0)
      <4> SUFFICES ASSUME NEW x \in Objects
                   PROVE  S!One(x, spStorage) + S!One(x, spArg[t]) + S!One(x, 0) + S!One(x, spHeld[t])
                             = S!One(x, spStorage) + S!One(x, spHeld[t]) + S!One(x, spArg[t]) + S!One(x, 0)
        BY <2>1, <2>2
      <4> QED
        BY <1>4
    <3>3. spHeld[t] \in S!Pointers /\ spArg[t] \in S!Pointers
      BY <1>1
    <3>9. Moves(t, spArg[t], 0, spHeld[t], 0)
      BY <2>1, <2>2, <3>2, <3>3 DEF Moves
    <3> QED
      BY <1>1, <1>2, <1>3, <3>9, <3>3, Balanced
  <2>5. SharedTypeOK'
    BY <1>1, <1>3, <2>1, <2>4 DEF SharedTypeOK
  <2>6. Guarded'
    BY <1>1, <1>2, <2>1 DEF Guarded
  <2> QED
    BY <2>4, <2>5, <2>6 DEF SharedIInv
<1>18. CASE UNCHANGED spVars
  <2>1. SharedTypeOK'
    BY <1>2, <1>18 DEF SharedTypeOK, spVars
  <2>2. Guarded'
    BY <1>2, <1>18 DEF Guarded, spVars
  <2>3. CountsOwners'
    BY <1>2, <1>18 DEF CountsOwners, Owners, Counted, spVars
  <2> QED
    BY <2>1, <2>2, <2>3 DEF SharedIInv
<1> QED
  BY <1>9, <1>10, <1>11, <1>12, <1>13, <1>14, <1>15, <1>16, <1>17, <1>18 DEF S!Next

(* The one instance begins with the null pointer.                          *)
LEMMA SharedStarts ==
  ASSUME S!Init
  PROVE  SharedIInv
<1>1. 0 \in S!Pointers
  BY DEF S!Pointers
<1>2. SharedTypeOK
  BY <1>1 DEF S!Init, SharedTypeOK
<1>3. Guarded
  BY DEF S!Init, Guarded
<1>4. ASSUME NEW o \in Objects
      PROVE  spCount[o] = S!One(o, spStorage) + Owners(spHeld, o) + Owners(Counted, o)
  <2>1. o # 0
    BY ToolboxAssumption
  <2>2. {t \in Users : spHeld[t] = o} = {} /\ {t \in Users : Counted[t] = o} = {}
    BY <2>1 DEF S!Init, Counted
  <2>3. Owners(spHeld, o) = 0 /\ Owners(Counted, o) = 0
    BY <2>2, FS_EmptySet DEF Owners
  <2>4. spCount[o] = 0 /\ S!One(o, spStorage) = 0
    BY <2>1 DEF S!Init, S!One
  <2> QED
    BY <2>3, <2>4
<1> QED
  BY <1>2, <1>3, <1>4 DEF SharedIInv, CountsOwners

(* What the invariant says of the objects.                                 *)
LEMMA SharedLives ==
  ASSUME SharedIInv
  PROVE  S!LivesWhileHeld
<1>1. ASSUME NEW o \in Objects
      PROVE  spCount[o] = S!One(o, spStorage) + Cardinality(S!Keepers(o)) + Cardinality(S!Callers(o))
  <2>1. o # 0
    BY ToolboxAssumption
  <2>2. {t \in Users : Counted[t] = o} = S!Callers(o)
    BY <2>1 DEF Counted, S!Callers
  <2>3. Owners(Counted, o) = Cardinality(S!Callers(o)) /\ Owners(spHeld, o) = Cardinality(S!Keepers(o))
    BY <2>2 DEF Owners, S!Keepers
  <2> QED
    BY <2>3 DEF SharedIInv, CountsOwners
<1>2. ASSUME NEW t \in Users, spPc[t] = "copy", spArg[t] # 0
      PROVE  spCount[spArg[t]] > 0
  <2>1. PICK o \in Objects : o = spArg[t] /\ o = spStorage
    BY <1>2 DEF SharedIInv, SharedTypeOK, Guarded, S!Pointers
  <2>2. S!One(o, spStorage) = 1
    BY <2>1 DEF S!One
  <2>3. Owners(spHeld, o) \in Nat /\ Owners(Counted, o) \in Nat
    <3>1. spHeld \in [Users -> S!Pointers] /\ Counted \in [Users -> S!Pointers]
      BY DEF SharedIInv, SharedTypeOK, Counted, S!Pointers
    <3> QED
      BY <3>1, OwnerMoves
  <2>4. spCount[o] = 1 + Owners(spHeld, o) + Owners(Counted, o)
    BY <2>2 DEF SharedIInv, CountsOwners
  <2> QED
    BY <2>1, <2>3, <2>4
<1>3. \A t \in Users : spPc[t] = "copy" /\ spArg[t] # 0 => spCount[spArg[t]] > 0
  BY <1>2
<1>4. \A set : S!Cardinality(set) = Cardinality(set)
  BY DEF S!Cardinality, Cardinality
<1> QED
  BY <1>1, <1>3, <1>4 DEF S!LivesWhileHeld

(* No object is owned more often than the two pointers of every thread and *)
(* the stored one can own it.                                              *)
LEMMA SharedTypes ==
  ASSUME SharedIInv
  PROVE  S!TypeOK
<1>1. IsFiniteSet(Users) /\ Cardinality(Users) \in Nat
  BY ToolboxAssumption, FS_CardinalityType
<1>2. \A f, o : Owners(f, o) \in Nat /\ Owners(f, o) <= Cardinality(Users)
  <2> TAKE f, o
  <2>1. {t \in Users : f[t] = o} \subseteq Users
    OBVIOUS
  <2> QED
    BY <1>1, <2>1, FS_Subset, FS_CardinalityType DEF Owners
<1>3. S!Cardinality(Users) = Cardinality(Users)
  BY DEF S!Cardinality, Cardinality
<1>4. \A o \in Objects : spCount[o] \in 0 .. 2 * Cardinality(Users) + 1
  <2> TAKE o \in Objects
  <2>1. PICK n \in Nat : n = Cardinality(Users)
    BY <1>1
  <2>2. PICK i \in Nat, j \in Nat : /\ i = Owners(spHeld, o) /\ i <= n
                                    /\ j = Owners(Counted, o) /\ j <= n
    BY <1>2, <2>1
  <2>3. PICK k \in {0, 1} : k = S!One(o, spStorage)
    BY DEF S!One
  <2>4. spCount[o] = k + i + j
    BY <2>2, <2>3 DEF SharedIInv, CountsOwners
  <2>5. k + i + j \in 0 .. 2 * n + 1
    BY <2>2
  <2> QED
    BY <2>1, <2>4, <2>5
<1>5. spCount \in [Objects -> 0 .. 2 * S!Cardinality(Users) + 1]
  BY <1>3, <1>4 DEF SharedIInv, SharedTypeOK
<1> QED
  BY <1>5 DEF SharedIInv, SharedTypeOK, S!TypeOK

-----------------------------------------------------------------------------
(* The toolbox                                                             *)

(* A behaviour is a behaviour of one part, and a step of it is a step of   *)
(* that part and leaves the others alone.                                  *)
LEMMA OnePart ==
  ASSUME [ToolboxNext]_toolboxVars
  PROVE  /\ part' = part
         /\ part = "LruMap" => [L!Next]_L!lruVars
         /\ part = "LruCache" => [C!Next]_C!cacheVars
         /\ part = "FreeRing" => [R!Next]_R!ringVars
         /\ part = "PointerPool" => [P!Next]_P!poolVars
         /\ part = "Arena" => [A!Next]_A!arenaVars
         /\ part = "OwnedValue" => [V!Next]_V!ovVars
         /\ part = "AsioTimer" => [T!Next]_asioVars
         /\ part = "Download" => [D!Next]_dlVars
         /\ part = "ClientWriter" => [W!Next]_cwVars
         /\ part = "AtomicSharedPtr" => [S!Next]_spVars
         /\ [DaemonNext]_dmVars
         /\ [Next]_vars
BY DEF ToolboxNext, toolboxVars, LruMapStep, LruCacheStep, FreeRingStep, PointerPoolStep,
       ArenaStep, OwnedValueStep, AsioTimerStep, DownloadStep, ClientWriterStep, DaemonStep,
       AtomicSharedPtrStep, WorkerProcessStep, lruVars, L!lruVars, cacheVars, C!cacheVars,
       ringVars, R!ringVars, poolVars, P!poolVars, arenaVars, A!arenaVars, ovVars, V!ovVars

(* The master has its invariant also where it only stands beside another   *)
(* part: it is dead then and has no worker.                                *)
LEMMA WorkerBegins ==
  ASSUME ToolboxInit
  PROVE  WorkerIInv /\ PauseInv
<1>1. CASE part = "WorkerProcess"
  BY <1>1, WorkerStarts, PauseStarts DEF ToolboxInit
<1>2. CASE IdleWorkerProcess
  <2>1. Min \in Min .. Max /\ 0 \in 0 .. MaxFails
    BY WorkerAssumption
  <2>2. TypeOK
    BY <1>2, <2>1 DEF IdleWorkerProcess, TypeOK
  <2>3. Ours
    BY <1>2 DEF IdleWorkerProcess, Ours
  <2>4. PauseInv
    BY <1>2 DEF IdleWorkerProcess, PauseInv
  <2> QED
    BY <2>2, <2>3, <2>4 DEF WorkerIInv
<1> QED
  BY <1>1, <1>2 DEF ToolboxInit

(* There is no daemon, where they stand beside another part.               *)
LEMMA DaemonBegins ==
  ASSUME ToolboxInit
  PROVE  DaemonIInv
<1>1. CASE part = "Daemon"
  BY <1>1, DaemonStarts DEF ToolboxInit
<1>2. CASE IdleDaemon
  <2>1. \A p \in Procs : dmPc[p] = "gone"
    BY <1>2 DEF IdleDaemon
  <2>2. DaemonTypeOK
    BY <1>2 DEF IdleDaemon, DaemonTypeOK, Points
  <2> QED
    BY <2>1, <2>2 DEF DaemonIInv, LockInv
<1> QED
  BY <1>1, <1>2 DEF ToolboxInit

(* In a behaviour of the worker process the children of the master are     *)
(* ours; in one of another part there are none (main.cpp:14-33).           *)
THEOREM OursInTheToolbox == ToolboxSpec => []Ours
<1>1. ToolboxInit => WorkerIInv
  BY WorkerBegins
<1>2. WorkerIInv /\ [ToolboxNext]_toolboxVars => WorkerIInv'
  BY OnePart, WorkerKeeps
<1>3. WorkerIInv => Ours
  BY DEF WorkerIInv
<1> QED
  BY <1>1, <1>2, <1>3, PTL DEF ToolboxSpec

(* The pauses double in the behaviours of the toolbox, too                 *)
(* (main.cpp:135-145, TimeInterval.cpp:34-51).                             *)
THEOREM PausesDoubleInTheToolbox == ToolboxSpec => []Backoff
<1>1. ToolboxInit => WorkerIInv /\ PauseInv
  BY WorkerBegins
<1>2. WorkerIInv /\ PauseInv /\ [ToolboxNext]_toolboxVars => (WorkerIInv /\ PauseInv)'
  BY OnePart, WorkerKeeps, PauseKeeps
<1>3. PauseInv => Backoff
  BY PauseHolds
<1> QED
  BY <1>1, <1>2, <1>3, PTL DEF ToolboxSpec

(* One daemon at most serves with the lock, beside any other part, too     *)
(* (daemon.h:119-149).                                                     *)
THEOREM LockedServesAloneInTheToolbox == ToolboxSpec => []LockedServesAlone
<1>1. ToolboxInit => DaemonIInv
  BY DaemonBegins
<1>2. DaemonIInv /\ [ToolboxNext]_toolboxVars => DaemonIInv'
  BY OnePart, DaemonKeeps
<1>3. DaemonIInv => LockedServesAlone
  BY DEF DaemonIInv, LockInv, LockedServesAlone, get_pid
<1> QED
  BY <1>1, <1>2, <1>3, PTL DEF ToolboxSpec

(* A timer in the map waits, or the end of its wait is queued, whatever    *)
(* the callbacks kill and set and however the two threads interleave, with *)
(* the one exception of a wait handled between :40 and :41.                *)
THEOREM TimersStayArmed == ToolboxSpec => []StaysArmed
<1> DEFINE I == part = "AsioTimer" => AsioIInv
<1>1. ToolboxInit => I
  BY AsioStarts DEF ToolboxInit
<1>2. I /\ [ToolboxNext]_toolboxVars => I'
  BY OnePart, AsioKeeps
<1>3. I => StaysArmed
  BY DEF StaysArmed, AsioIInv, Armed, Ended, T!StaysArmed
<1> QED
  BY <1>1, <1>2, <1>3, PTL DEF ToolboxSpec

(* What arrives of a download, of any size and through any number of       *)
(* broken transfers, crashes and failed closes, is a beginning of the      *)
(* remote file, unless the page of an error answer came into it; success   *)
(* means the whole of it unless an error page or a failed fclose, which    *)
(* the code does not look at, came between (CurlDown.cpp:101-212).  What   *)
(* a client writes, of any number of strings, is a beginning of those that *)
(* were accepted, in order (WritePipe.cpp:64-134).                         *)
THEOREM ArrivesInOrder == ToolboxSpec => []InOrder
<1> DEFINE I == /\ part = "Download" => DownloadIInv
                /\ part = "ClientWriter" => WriterIInv
<1>1. ToolboxInit => I
  BY DownloadStarts, WriterStarts DEF ToolboxInit
<1>2. I /\ [ToolboxNext]_toolboxVars => I'
  BY OnePart, DownloadKeeps, WriterKeeps
<1>3. I => InOrder
  BY DownloadedInOrder, WritesInOrder DEF InOrder
<1> QED
  BY <1>1, <1>2, <1>3, PTL DEF ToolboxSpec

(* Any number of threads that store and load through one AtomicSharedPtr   *)
(* count every object as often as it is owned, and what a load has read    *)
(* lives until it is counted (save_obj_main.cpp:33-52).                    *)
THEOREM SharedObjectsLive == ToolboxSpec => [](part = "AtomicSharedPtr" => S!LivesWhileHeld)
<1> DEFINE I == part = "AtomicSharedPtr" => SharedIInv
<1>1. ToolboxInit => I
  BY SharedStarts DEF ToolboxInit
<1>2. I /\ [ToolboxNext]_toolboxVars => I'
  BY OnePart, SharedKeeps
<1>3. I => (part = "AtomicSharedPtr" => S!LivesWhileHeld)
  BY SharedLives
<1> QED
  BY <1>1, <1>2, <1>3, PTL DEF ToolboxSpec

(* Slots of the ring, pooled objects, pieces of the arena and blocks       *)
(* behind a Status or a hyper_function have one holder or none, objects    *)
(* behind an AtomicSharedPtr live while they are held: for every size of   *)
(* ring, pool, block and arena, and any number of owners (object_pool.cpp: *)
(* 82-95, objectpool.h:27-58, arena.cpp:18-58, status.h:89-108,            *)
(* hyper_function.h:53-100, save_obj_main.cpp:33-52).                      *)
THEOREM HandedOutOnce == ToolboxSpec => []Ownership
<1> DEFINE I == /\ part = "FreeRing" => RingIInv
                /\ part = "PointerPool" => PoolIInv
                /\ part = "Arena" => ArenaIInv
                /\ part = "OwnedValue" => ValueIInv
                /\ part = "AtomicSharedPtr" => SharedIInv
<1>1. ToolboxInit => I
  BY RingStarts, PoolStarts, ArenaStarts, ValueStarts, SharedStarts DEF ToolboxInit
<1>2. I /\ [ToolboxNext]_toolboxVars => I'
  BY OnePart, RingKeeps, PoolKeeps, ArenaKeeps, ValueKeeps, SharedKeeps
<1>3. I => Ownership
  BY RingHolds, PoolHolds, ArenaHolds, ValueHolds, SharedLives DEF Ownership
<1> QED
  BY <1>1, <1>2, <1>3, PTL DEF ToolboxSpec

(* Both caches hold the keys used last, in the order of their use, and the *)
(* map finds under each what was put last, for every capacity and any keys *)
(* (lurmap.h:47-141, lrucache.h:40-97).                                    *)
THEOREM CachesHoldTheLatest == ToolboxSpec => []Recency
<1> DEFINE I == /\ part = "LruMap" => LruIInv
                /\ part = "LruCache" => CacheIInv
<1>1. ToolboxInit => I
  BY LruStarts, CacheStarts DEF ToolboxInit
<1>2. I /\ [ToolboxNext]_toolboxVars => I'
  BY OnePart, LruKeeps, CacheKeeps
<1>3. I => Recency
  BY LruHolds, CacheHolds DEF Recency
<1> QED
  BY <1>1, <1>2, <1>3, PTL DEF ToolboxSpec

(* A step that lengthens the map leaves it within its capacity, whatever   *)
(* that was set to before, or with one node if the capacity is 0           *)
(* (lurmap.h:62-74, 93-114).                                               *)
THEOREM MapStaysWithinCapacity == ToolboxSpec => WithinCapacity
<1> DEFINE I == part = "LruMap" => LruIInv
<1>1. ToolboxInit => I
  BY LruStarts DEF ToolboxInit
<1>2. I /\ [ToolboxNext]_toolboxVars => I'
  BY OnePart, LruKeeps
<1>3. I /\ [ToolboxNext]_toolboxVars => [part = "LruMap" => L!WithinCapacity]_lru
  BY OnePart, LruGrows
<1> QED
  BY <1>1, <1>2, <1>3, PTL DEF ToolboxSpec, WithinCapacity

(* The state of the part that runs has its types, for every value of the   *)
(* constants.                                                              *)
THEOREM ToolboxTyping == ToolboxSpec => []ToolboxTypes
<1> DEFINE I == /\ part = "LruMap" => LruIInv
                /\ part = "LruCache" => CacheIInv
                /\ part = "FreeRing" => RingIInv
                /\ part = "PointerPool" => PoolIInv
                /\ part = "Arena" => ArenaIInv
                /\ part = "OwnedValue" => ValueIInv
                /\ part = "AsioTimer" => AsioIInv
                /\ part = "Download" => DownloadIInv
                /\ part = "ClientWriter" => WriterIInv
                /\ part = "AtomicSharedPtr" => SharedIInv
                /\ DaemonIInv
                /\ WorkerIInv
<1>1. ToolboxInit => I
  BY LruStarts, CacheStarts, RingStarts, PoolStarts, ArenaStarts, ValueStarts, AsioStarts,
     DownloadStarts, WriterStarts, SharedStarts, DaemonBegins, WorkerBegins DEF ToolboxInit
<1>2. I /\ [ToolboxNext]_toolboxVars => I'
  BY OnePart, LruKeeps, CacheKeeps, RingKeeps, PoolKeeps, ArenaKeeps, ValueKeeps, AsioKeeps,
     DownloadKeeps, WriterKeeps, SharedKeeps, DaemonKeeps, WorkerKeeps
<1>3. I => ToolboxTypes
  <2> SUFFICES ASSUME I PROVE ToolboxTypes
    OBVIOUS
  <2>1. /\ part = "LruMap" => L!TypeOK
        /\ part = "LruCache" => C!TypeOK
        /\ part = "OwnedValue" => V!TypeOK
        /\ part = "Arena" => A!TypeOK
        /\ part = "AtomicSharedPtr" => S!TypeOK
    BY LruHolds, CacheHolds, ValueHolds, ArenaHolds, SharedTypes
  <2>2. /\ part = "FreeRing" => R!TypeOK
        /\ part = "PointerPool" => P!TypeOK
        /\ part = "AsioTimer" => T!TypeOK
        /\ part = "Download" => D!TypeOK
        /\ part = "ClientWriter" => W!TypeOK
    BY DEF RingIInv, PoolIInv, AsioIInv, DownloadIInv, WriterIInv
  <2>3. DaemonTypeOK /\ TypeOK
    BY DEF DaemonIInv, WorkerIInv
  <2> QED
    BY <2>1, <2>2, <2>3 DEF ToolboxTypes
<1> QED
  BY <1>1, <1>2, <1>3, PTL DEF ToolboxSpec
====
