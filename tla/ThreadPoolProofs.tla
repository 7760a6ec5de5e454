---- MODULE ThreadPoolProofs ----
(* Invariants of ThreadPool for every set of workers, clients and tasks.   *)
EXTENDS ThreadPool, FiniteSetTheorems, TLAPS

(* The inductive invariant: typing, who holds what, the mutex discipline   *)
(* and the phases of the pool's life.                                      *)
THEOREM Inductive == Spec => []IInv
<1> USE PoolAssumption DEF IInv, TypeOK, WorkerPC, OwnerPC, Callers, Pool,
        HoldInv, MutexInv, PhaseInv
<1>1. Init => IInv
  BY DEF Init
<1>2. IInv /\ [Next]_vars => IInv'
  <2> SUFFICES ASSUME IInv, [Next]_vars PROVE IInv'
    OBVIOUS
  <2>1. ASSUME NEW w \in Workers, AddThread(w)
        PROVE  IInv'
    BY <2>1 DEF AddThread
  <2>2. ASSUME CountThread
        PROVE  IInv'
    BY <2>2 DEF CountThread
  <2>3. ASSUME Stop
        PROVE  IInv'
    BY <2>3 DEF Stop
  <2>4. ASSUME NotifyAll
        PROVE  IInv'
    BY <2>4 DEF NotifyAll
  <2>5. ASSUME Join
        PROVE  IInv'
    BY <2>5 DEF Join
  <2>6. ASSUME NEW c \in Callers, NEW t \in Task, CommitCheck(c, t)
        PROVE  IInv'
    <3>1. \/ c \in Clients /\ c \notin Workers /\ owner = "serving"
          \/ c \in Workers /\ pc[c] = "task" /\ owner \notin {"adding", "counting"}
      BY <2>6 DEF CommitCheck, MayCall
    <3>2. t # None
      OBVIOUS
    <3>3. run
      BY <2>6 DEF CommitCheck
    <3> QED
      BY <2>6, <3>1, <3>2, <3>3 DEF CommitCheck
  <2>7. ASSUME NEW c \in Callers, NEW t \in Task, CommitThrow(c, t)
        PROVE  IInv'
    BY <2>7 DEF CommitThrow
  <2>8. ASSUME NEW c \in Callers, CommitPush(c)
        PROVE  IInv'
    <3>1. arg[c] \in Task
      BY <2>8 DEF CommitPush
    <3>2. Append(tasks, arg[c]) \in Seq(Task)
      BY <3>1
    <3>3. \A w \in Workers : pc[w] # "block"
      BY <2>8 DEF CommitPush
    <3>4. owner \notin {"adding", "counting"}
      BY <2>8 DEF CommitPush
    <3> QED
      BY <2>8, <3>2, <3>3, <3>4 DEF CommitPush
  <2>9. ASSUME NEW c \in Callers, CommitNotify(c)
        PROVE  IInv'
    BY <2>9 DEF CommitNotify
  <2>10. ASSUME NEW w \in Workers, Loop(w)
        PROVE  IInv'
    BY <2>10 DEF Loop
  <2>11. ASSUME NEW w \in Workers, Lock(w)
        PROVE  IInv'
    BY <2>11 DEF Lock
  <2>12. ASSUME NEW w \in Workers, TestFails(w)
        PROVE  IInv'
    BY <2>12 DEF TestFails
  <2>13. ASSUME NEW w \in Workers, Block(w)
        PROVE  IInv'
    BY <2>13 DEF Block
  <2>14. ASSUME NEW w \in Workers, WakeSpuriously(w)
        PROVE  IInv'
    BY <2>14 DEF WakeSpuriously
  <2>15. ASSUME NEW w \in Workers, Leave(w)
        PROVE  IInv'
    BY <2>15 DEF Leave
  <2>16. ASSUME NEW w \in Workers, Take(w)
        PROVE  IInv'
    BY <2>16 DEF Take
  <2>17. ASSUME NEW w \in Workers, Uncount(w)
        PROVE  IInv'
    BY <2>17 DEF Uncount
  <2>18. ASSUME NEW w \in Workers, Return(w)
        PROVE  IInv'
    BY <2>18 DEF Return
  <2>19. ASSUME NEW w \in Workers, Recount(w)
        PROVE  IInv'
    BY <2>19 DEF Recount
  <2>20. CASE UNCHANGED vars
    BY <2>20 DEF vars
  <2> QED
    BY <2>1, <2>2, <2>3, <2>4, <2>5, <2>6, <2>7, <2>8, <2>9, <2>10, <2>11, <2>12, <2>13, <2>14, <2>15, <2>16, <2>17, <2>18, <2>19, <2>20 DEF Next, Construct, Destroy, Worker
<1> QED
  BY <1>1, <1>2, PTL DEF Spec

(* Every reachable state of the pool is typed.                             *)
THEOREM PoolTyping == Spec => []TypeOK
<1>1. IInv => TypeOK
  BY DEF IInv
<1> QED
  BY <1>1, Inductive, PTL

-----------------------------------------------------------------------------
(* The two sets WorkConserving counts are finite, before and after a step. *)
LEMMA Counted ==
  /\ IsFiniteSet(Notifying) /\ Cardinality(Notifying) \in Nat
  /\ IsFiniteSet(Coming) /\ Cardinality(Coming) \in Nat
  /\ IsFiniteSet(Notifying') /\ Cardinality(Notifying') \in Nat
  /\ IsFiniteSet(Coming') /\ Cardinality(Coming') \in Nat
<1>1. IsFiniteSet(Callers) /\ IsFiniteSet(Workers)
  BY PoolAssumption, FS_Union DEF Callers
<1>2. /\ Notifying \in SUBSET Callers /\ Coming \in SUBSET Workers
      /\ Notifying' \in SUBSET Callers /\ Coming' \in SUBSET Workers
  BY DEF Notifying, Coming
<1>3. /\ IsFiniteSet(Notifying) /\ IsFiniteSet(Coming)
      /\ IsFiniteSet(Notifying') /\ IsFiniteSet(Coming')
  BY <1>1, <1>2, FS_Subset
<1> QED
  BY <1>3, FS_CardinalityType

(* A step that takes nobody out of the two sets, adds no task and puts     *)
(* nobody to sleep keeps the property.                                     *)
LEMMA NobodyLost ==
  ASSUME IInv, IInv', WorkConserving,
         run' => run, waiting' \subseteq waiting,
         Len(tasks') <= Len(tasks),
         Notifying \subseteq Notifying', Coming \subseteq Coming'
  PROVE  WorkConserving'
<1> SUFFICES ASSUME run', waiting' # {}
             PROVE  Len(tasks') <= Cardinality(Notifying') + Cardinality(Coming')
  BY DEF WorkConserving
<1>1. Len(tasks) <= Cardinality(Notifying) + Cardinality(Coming)
  BY DEF WorkConserving
<1>2. /\ IsFiniteSet(Notifying') /\ Cardinality(Notifying') \in Nat
      /\ IsFiniteSet(Coming') /\ Cardinality(Coming') \in Nat
  BY Counted
<1>3. /\ Cardinality(Notifying) <= Cardinality(Notifying')
      /\ Cardinality(Coming) <= Cardinality(Coming')
  BY <1>2, FS_Subset
<1>4. Len(tasks) \in Nat /\ Len(tasks') \in Nat
  BY DEF IInv, TypeOK
<1> QED
  BY <1>1, <1>2, <1>3, <1>4, Counted

(* No task waits with sleeping workers around and nobody coming for it, in *)
(* any pool: threadpool.h loses no wakeup between commit and the workers,  *)
(* as long as it is not being destroyed.                                   *)
THEOREM NoTaskOverlooked == Spec => []WorkConserving
<1>1. Init => WorkConserving
  BY DEF Init, WorkConserving
<1>2. IInv /\ IInv' /\ WorkConserving /\ [Next]_vars => WorkConserving'
  <2> SUFFICES ASSUME IInv, IInv', WorkConserving, [Next]_vars
               PROVE  WorkConserving'
    OBVIOUS
  <2> USE DEF IInv, TypeOK, WorkerPC, OwnerPC
  <2>1. ASSUME NEW w \in Workers, AddThread(w)
        PROVE  WorkConserving'
    <3>1. /\ Notifying \subseteq Notifying' /\ Coming \subseteq Coming'
          /\ run' => run
          /\ waiting' \subseteq waiting
          /\ tasks' = tasks
      BY <2>1 DEF AddThread, Notifying, Coming
    <3> QED
      BY <3>1, NobodyLost DEF IInv, TypeOK
  <2>2. ASSUME CountThread
        PROVE  WorkConserving'
    <3>1. /\ Notifying \subseteq Notifying' /\ Coming \subseteq Coming'
          /\ run' => run
          /\ waiting' \subseteq waiting
          /\ tasks' = tasks
      BY <2>2 DEF CountThread, Notifying, Coming
    <3> QED
      BY <3>1, NobodyLost DEF IInv, TypeOK
  <2>3. ASSUME Stop
        PROVE  WorkConserving'
    BY <2>3 DEF Stop, WorkConserving, PhaseInv
  <2>4. ASSUME NotifyAll
        PROVE  WorkConserving'
    BY <2>4 DEF NotifyAll, WorkConserving, PhaseInv
  <2>5. ASSUME Join
        PROVE  WorkConserving'
    BY <2>5 DEF Join, WorkConserving, PhaseInv
  <2>6. ASSUME NEW c \in Callers, NEW t \in Task, CommitCheck(c, t)
        PROVE  WorkConserving'
    <3>1. /\ Notifying \subseteq Notifying' /\ Coming \subseteq Coming'
          /\ run' => run
          /\ waiting' \subseteq waiting
          /\ tasks' = tasks
      BY <2>6 DEF CommitCheck, MayCall, Notifying, Coming
    <3> QED
      BY <3>1, NobodyLost DEF IInv, TypeOK
  <2>7. ASSUME NEW c \in Callers, NEW t \in Task, CommitThrow(c, t)
        PROVE  WorkConserving'
    <3>1. /\ Notifying \subseteq Notifying' /\ Coming \subseteq Coming'
          /\ run' => run
          /\ waiting' \subseteq waiting
          /\ tasks' = tasks
      BY <2>7 DEF CommitThrow, Notifying, Coming
    <3> QED
      BY <3>1, NobodyLost DEF IInv, TypeOK
  <2>8. ASSUME NEW c \in Callers, CommitPush(c)
        PROVE  WorkConserving'
    <3>1. /\ Notifying' = Notifying \union {c} /\ c \notin Notifying
          /\ Coming' = Coming
      BY <2>8 DEF CommitPush, Notifying, Coming
    <3>2. Len(tasks') = Len(tasks) + 1 /\ Len(tasks) \in Nat
      BY <2>8 DEF CommitPush, HoldInv
    <3>3. Cardinality(Notifying') = Cardinality(Notifying) + 1
      BY <3>1, Counted, FS_AddElement
    <3>4. run' = run /\ waiting' = waiting
      BY <2>8 DEF CommitPush
    <3> QED
      BY <3>1, <3>2, <3>3, <3>4, Counted DEF WorkConserving
  <2>9. ASSUME NEW c \in Callers, CommitNotify(c)
        PROVE  WorkConserving'
    <3>1. CASE waiting = {}
      BY <2>9, <3>1 DEF CommitNotify, WorkConserving
    <3>2. ASSUME NEW w \in waiting, waiting' = waiting \ {w}
          PROVE  WorkConserving'
      <4>1. Notifying' = Notifying \ {c} /\ c \in Notifying
        BY <2>9 DEF CommitNotify, Notifying
      <4>2. w \in Workers /\ pc[w] = "blocked" /\ pc' = pc
        BY <2>9 DEF CommitNotify, MutexInv
      <4>3. Coming' = Coming \union {w} /\ w \notin Coming
        BY <3>2, <4>2 DEF Coming
      <4>4. /\ Cardinality(Notifying') = Cardinality(Notifying) - 1
            /\ Cardinality(Coming') = Cardinality(Coming) + 1
        BY <4>1, <4>3, Counted, FS_AddElement, FS_RemoveElement
      <4>5. Len(tasks') = Len(tasks) /\ Len(tasks) \in Nat /\ run' = run
        BY <2>9 DEF CommitNotify
      <4>6. waiting # {}
        BY <3>2
      <4> QED
        BY <4>4, <4>5, <4>6, Counted DEF WorkConserving
    <3> QED
      BY <2>9, <3>1, <3>2 DEF CommitNotify
  <2>10. ASSUME NEW w \in Workers, Loop(w)
        PROVE  WorkConserving'
    <3>1. CASE ~run
      BY <2>10, <3>1 DEF Loop, WorkConserving
    <3>2. CASE run
      <4>1. /\ Notifying \subseteq Notifying' /\ Coming \subseteq Coming'
            /\ run' => run
            /\ waiting' \subseteq waiting
            /\ tasks' = tasks
        BY <2>10, <3>2 DEF Loop, Notifying, Coming
      <4> QED
        BY <4>1, NobodyLost DEF IInv, TypeOK
    <3> QED
      BY <3>1, <3>2
  <2>11. ASSUME NEW w \in Workers, Lock(w)
        PROVE  WorkConserving'
    <3>1. /\ Notifying \subseteq Notifying' /\ Coming \subseteq Coming'
          /\ run' => run
          /\ waiting' \subseteq waiting
          /\ tasks' = tasks
      BY <2>11 DEF Lock, Notifying, Coming
    <3> QED
      BY <3>1, NobodyLost DEF IInv, TypeOK
  <2>12. ASSUME NEW w \in Workers, TestFails(w)
        PROVE  WorkConserving'
    <3>1. tasks' = <<>>
      BY <2>12 DEF TestFails, MutexInv
    <3>2. Len(tasks') = 0
      BY <3>1
    <3> QED
      BY <3>2, Counted DEF WorkConserving
  <2>13. ASSUME NEW w \in Workers, Block(w)
        PROVE  WorkConserving'
    <3>1. tasks' = <<>>
      BY <2>13 DEF Block, MutexInv
    <3>2. Len(tasks') = 0
      BY <3>1
    <3> QED
      BY <3>2, Counted DEF WorkConserving
  <2>14. ASSUME NEW w \in Workers, WakeSpuriously(w)
        PROVE  WorkConserving'
    <3>1. /\ Notifying \subseteq Notifying' /\ Coming \subseteq Coming'
          /\ run' => run
          /\ waiting' \subseteq waiting
          /\ tasks' = tasks
      BY <2>14 DEF WakeSpuriously, Notifying, Coming
    <3> QED
      BY <3>1, NobodyLost DEF IInv, TypeOK
  <2>15. ASSUME NEW w \in Workers, Leave(w)
        PROVE  WorkConserving'
    BY <2>15 DEF Leave, WorkConserving, PhaseInv
  <2>16. ASSUME NEW w \in Workers, Take(w)
        PROVE  WorkConserving'
    <3>1. Coming' = Coming \ {w} /\ w \in Coming /\ Notifying' = Notifying
      BY <2>16 DEF Take, Coming, Notifying
    <3>2. Len(tasks') = Len(tasks) - 1 /\ Len(tasks) \in Nat
      BY <2>16 DEF Take
    <3>3. Cardinality(Coming') = Cardinality(Coming) - 1
      BY <3>1, Counted, FS_RemoveElement
    <3>4. run' = run /\ waiting' = waiting
      BY <2>16 DEF Take
    <3> QED
      BY <3>1, <3>2, <3>3, <3>4, Counted DEF WorkConserving
  <2>17. ASSUME NEW w \in Workers, Uncount(w)
        PROVE  WorkConserving'
    <3>1. /\ Notifying \subseteq Notifying' /\ Coming \subseteq Coming'
          /\ run' => run
          /\ waiting' \subseteq waiting
          /\ tasks' = tasks
      BY <2>17 DEF Uncount, Notifying, Coming
    <3> QED
      BY <3>1, NobodyLost DEF IInv, TypeOK
  <2>18. ASSUME NEW w \in Workers, Return(w)
        PROVE  WorkConserving'
    <3>1. /\ Notifying \subseteq Notifying' /\ Coming \subseteq Coming'
          /\ run' => run
          /\ waiting' \subseteq waiting
          /\ tasks' = tasks
      BY <2>18 DEF Return, Notifying, Coming
    <3> QED
      BY <3>1, NobodyLost DEF IInv, TypeOK
  <2>19. ASSUME NEW w \in Workers, Recount(w)
        PROVE  WorkConserving'
    <3>1. /\ Notifying \subseteq Notifying' /\ Coming \subseteq Coming'
          /\ run' => run
          /\ waiting' \subseteq waiting
          /\ tasks' = tasks
      BY <2>19 DEF Recount, Notifying, Coming
    <3> QED
      BY <3>1, NobodyLost DEF IInv, TypeOK
  <2>20. CASE UNCHANGED vars
    BY <2>20 DEF vars, WorkConserving, Notifying, Coming
  <2> QED
    BY <2>1, <2>2, <2>3, <2>4, <2>5, <2>6, <2>7, <2>8, <2>9, <2>10, <2>11, <2>12, <2>13, <2>14, <2>15, <2>16, <2>17, <2>18, <2>19, <2>20 DEF Next, Construct, Destroy, Worker
<1> QED
  BY <1>1, <1>2, Inductive, PTL DEF Spec

-----------------------------------------------------------------------------
(* The sets IdleCount counts are finite.                                   *)
LEMMA PoolIsFinite ==
  /\ IsFiniteSet(Pool) /\ Cardinality(Pool) \in Nat
  /\ IsFiniteSet(Busy) /\ Cardinality(Busy) \in Nat
<1>1. Pool \in SUBSET Workers /\ Busy \in SUBSET Workers
  BY DEF Pool, Busy
<1>2. IsFiniteSet(Pool) /\ IsFiniteSet(Busy)
  BY <1>1, PoolAssumption, FS_Subset
<1> QED
  BY <1>2, FS_CardinalityType

(* A step that starts no thread and moves none into or out of a task, nor  *)
(* touches the counter, keeps the count.                                   *)
LEMMA SameCount ==
  ASSUME IdleCount, idl' = idl, Pool' = Pool, Busy' = Busy,
         owner' = "counting" <=> owner = "counting"
  PROVE  IdleCount'
BY DEF IdleCount

(* _idlThrNum is exact in every pool: the decrement and the two increments *)
(* of threadpool.h, made outside the mutex, never lose one another.        *)
THEOREM IdleIsCounted == Spec => []IdleCount
<1>1. Init => IdleCount
  <2> SUFFICES ASSUME Init PROVE IdleCount
    OBVIOUS
  <2>1. Pool = {} /\ Busy = {}
    BY DEF Init, Pool, Busy
  <2> QED
    BY <2>1, FS_EmptySet DEF Init, IdleCount
<1>2. IInv /\ IInv' /\ IdleCount /\ [Next]_vars => IdleCount'
  <2> SUFFICES ASSUME IInv, IInv', IdleCount, [Next]_vars
               PROVE  IdleCount'
    OBVIOUS
  <2> USE DEF IInv, TypeOK, WorkerPC, OwnerPC
  <2>1. ASSUME NEW w \in Workers, AddThread(w)
        PROVE  IdleCount'
    <3>1. Pool' = Pool \union {w} /\ w \notin Pool
      BY <2>1 DEF AddThread, Pool
    <3>2. Busy' = Busy
      BY <2>1 DEF AddThread, Busy
    <3>3. Cardinality(Pool') = Cardinality(Pool) + 1
      BY <3>1, PoolIsFinite, FS_AddElement
    <3>4. owner = "adding" /\ owner' = "counting" /\ idl' = idl
      BY <2>1 DEF AddThread
    <3> QED
      BY <3>2, <3>3, <3>4, PoolIsFinite DEF IdleCount
  <2>2. ASSUME CountThread
        PROVE  IdleCount'
    <3>1. Pool' = Pool /\ Busy' = Busy
      BY <2>2 DEF CountThread, Pool, Busy
    <3>2. owner = "counting" /\ owner' # "counting" /\ idl' = idl + 1
      BY <2>2 DEF CountThread
    <3> QED
      BY <3>1, <3>2, PoolIsFinite DEF IdleCount
  <2>3. ASSUME Stop
        PROVE  IdleCount'
    <3>1. Pool' = Pool /\ Busy' = Busy
      BY <2>3 DEF Stop, Pool, Busy
    <3> QED
      BY <2>3, <3>1, SameCount DEF Stop
  <2>4. ASSUME NotifyAll
        PROVE  IdleCount'
    <3>1. Pool' = Pool /\ Busy' = Busy
      BY <2>4 DEF NotifyAll, Pool, Busy
    <3> QED
      BY <2>4, <3>1, SameCount DEF NotifyAll
  <2>5. ASSUME Join
        PROVE  IdleCount'
    <3>1. Pool' = Pool /\ Busy' = Busy
      BY <2>5 DEF Join, Pool, Busy
    <3> QED
      BY <2>5, <3>1, SameCount DEF Join
  <2>6. ASSUME NEW c \in Callers, NEW t \in Task, CommitCheck(c, t)
        PROVE  IdleCount'
    <3>1. Pool' = Pool /\ Busy' = Busy
      BY <2>6 DEF CommitCheck, Pool, Busy
    <3> QED
      BY <2>6, <3>1, SameCount DEF CommitCheck
  <2>7. ASSUME NEW c \in Callers, NEW t \in Task, CommitThrow(c, t)
        PROVE  IdleCount'
    <3>1. Pool' = Pool /\ Busy' = Busy
      BY <2>7 DEF CommitThrow, Pool, Busy
    <3> QED
      BY <2>7, <3>1, SameCount DEF CommitThrow
  <2>8. ASSUME NEW c \in Callers, CommitPush(c)
        PROVE  IdleCount'
    <3>1. Pool' = Pool /\ Busy' = Busy
      BY <2>8 DEF CommitPush, Pool, Busy
    <3> QED
      BY <2>8, <3>1, SameCount DEF CommitPush
  <2>9. ASSUME NEW c \in Callers, CommitNotify(c)
        PROVE  IdleCount'
    <3>1. Pool' = Pool /\ Busy' = Busy
      BY <2>9 DEF CommitNotify, Pool, Busy
    <3> QED
      BY <2>9, <3>1, SameCount DEF CommitNotify
  <2>10. ASSUME NEW w \in Workers, Loop(w)
        PROVE  IdleCount'
    <3>1. Pool' = Pool /\ Busy' = Busy
      BY <2>10 DEF Loop, Pool, Busy
    <3> QED
      BY <2>10, <3>1, SameCount DEF Loop
  <2>11. ASSUME NEW w \in Workers, Lock(w)
        PROVE  IdleCount'
    <3>1. Pool' = Pool /\ Busy' = Busy
      BY <2>11 DEF Lock, Pool, Busy
    <3> QED
      BY <2>11, <3>1, SameCount DEF Lock
  <2>12. ASSUME NEW w \in Workers, TestFails(w)
        PROVE  IdleCount'
    <3>1. Pool' = Pool /\ Busy' = Busy
      BY <2>12 DEF TestFails, Pool, Busy
    <3> QED
      BY <2>12, <3>1, SameCount DEF TestFails
  <2>13. ASSUME NEW w \in Workers, Block(w)
        PROVE  IdleCount'
    <3>1. Pool' = Pool /\ Busy' = Busy
      BY <2>13 DEF Block, Pool, Busy
    <3> QED
      BY <2>13, <3>1, SameCount DEF Block
  <2>14. ASSUME NEW w \in Workers, WakeSpuriously(w)
        PROVE  IdleCount'
    <3>1. Pool' = Pool /\ Busy' = Busy
      BY <2>14 DEF WakeSpuriously, Pool, Busy
    <3> QED
      BY <2>14, <3>1, SameCount DEF WakeSpuriously
  <2>15. ASSUME NEW w \in Workers, Leave(w)
        PROVE  IdleCount'
    <3>1. Pool' = Pool /\ Busy' = Busy
      BY <2>15 DEF Leave, Pool, Busy
    <3> QED
      BY <2>15, <3>1, SameCount DEF Leave
  <2>16. ASSUME NEW w \in Workers, Take(w)
        PROVE  IdleCount'
    <3>1. Pool' = Pool /\ Busy' = Busy
      BY <2>16 DEF Take, Pool, Busy
    <3> QED
      BY <2>16, <3>1, SameCount DEF Take
  <2>17. ASSUME NEW w \in Workers, Uncount(w)
        PROVE  IdleCount'
    <3>1. Pool' = Pool
      BY <2>17 DEF Uncount, Pool
    <3>2. Busy' = Busy \union {w} /\ w \notin Busy
      BY <2>17 DEF Uncount, Busy
    <3>3. Cardinality(Busy') = Cardinality(Busy) + 1
      BY <3>2, PoolIsFinite, FS_AddElement
    <3>4. owner' = owner /\ idl' = idl - 1
      BY <2>17 DEF Uncount
    <3> QED
      BY <3>1, <3>3, <3>4, PoolIsFinite DEF IdleCount
  <2>18. ASSUME NEW w \in Workers, Return(w)
        PROVE  IdleCount'
    <3>1. Pool' = Pool /\ Busy' = Busy
      BY <2>18 DEF Return, Pool, Busy
    <3> QED
      BY <2>18, <3>1, SameCount DEF Return
  <2>19. ASSUME NEW w \in Workers, Recount(w)
        PROVE  IdleCount'
    <3>1. Pool' = Pool
      BY <2>19 DEF Recount, Pool
    <3>2. Busy' = Busy \ {w} /\ w \in Busy
      BY <2>19 DEF Recount, Busy
    <3>3. Cardinality(Busy') = Cardinality(Busy) - 1
      BY <3>2, PoolIsFinite, FS_RemoveElement
    <3>4. owner' = owner /\ idl' = idl + 1
      BY <2>19 DEF Recount
    <3> QED
      BY <3>1, <3>3, <3>4, PoolIsFinite DEF IdleCount
  <2>20. CASE UNCHANGED vars
    BY <2>20, SameCount DEF vars, Pool, Busy
  <2> QED
    BY <2>1, <2>2, <2>3, <2>4, <2>5, <2>6, <2>7, <2>8, <2>9, <2>10, <2>11, <2>12, <2>13, <2>14, <2>15, <2>16, <2>17, <2>18, <2>19, <2>20 DEF Next, Construct, Destroy, Worker
<1> QED
  BY <1>1, <1>2, Inductive, PTL DEF Spec

(* When the destructor has joined, no thread of any pool is inside a task, *)
(* the mutex or commit.                                                    *)
THEOREM NobodyIsInside == Spec => []NobodyInsideWhenGone
<1>1. IInv /\ IdleCount => NobodyInsideWhenGone
  <2> SUFFICES ASSUME IInv, IdleCount, owner = "gone"
               PROVE  /\ lock = None
                      /\ waiting = {}
                      /\ Running = {}
                      /\ \A c \in Callers : call[c] = "none"
                      /\ idl = Cardinality(Pool)
    BY DEF NobodyInsideWhenGone
  <2> USE DEF IInv, TypeOK, HoldInv, MutexInv, PhaseInv
  <2>1. \A w \in Workers : pc[w] \in {"unborn", "exited"}
    BY DEF Pool
  <2>2. lock = None /\ waiting = {}
    BY <2>1
  <2>3. Running = {}
    BY <2>1, PoolAssumption DEF Running
  <2>4. \A c \in Callers : call[c] = "none"
    BY <2>1 DEF Callers
  <2>5. Busy = {}
    BY <2>1 DEF Busy
  <2>6. Cardinality(Busy) = 0
    BY <2>5, FS_EmptySet
  <2> QED
    BY <2>2, <2>3, <2>4, <2>6, PoolIsFinite DEF IdleCount
<1> QED
  BY <1>1, Inductive, IdleIsCounted, PTL

-----------------------------------------------------------------------------
(* What a fresh task is not.                                               *)
LEMMA Fresh ==
  ASSUME TypeOK, NEW t \in Task, t \notin Known
  PROVE  /\ \A i \in 1 .. Len(tasks) : tasks[i] # t
         /\ \A w \in Workers : cur[w] # t
         /\ \A c \in Callers : arg[c] # t
         /\ t \notin done \union refused
<1>1. DOMAIN tasks = 1 .. Len(tasks)
  BY DEF TypeOK
<1> QED
  BY <1>1 DEF Known, Range, Running

(* A step that leaves every task where it is.                              *)
LEMMA SamePlaces ==
  ASSUME PlaceInv, UNCHANGED <<tasks, cur, arg, done, refused>>
  PROVE  PlaceInv'
BY DEF PlaceInv

(* A committed task is in one place at a time: no interleaving of commits, *)
(* of takes and of returns runs a task twice or loses it between the queue *)
(* and a worker.                                                           *)
THEOREM OnePlaceEach == Spec => []PlaceInv
<1>1. Init => PlaceInv
  BY DEF Init, PlaceInv
<1>2. IInv /\ PlaceInv /\ [Next]_vars => PlaceInv'
  <2> SUFFICES ASSUME IInv, PlaceInv, [Next]_vars
               PROVE  PlaceInv'
    OBVIOUS
  <2>0. TypeOK
    BY DEF IInv
  <2>1. ASSUME NEW w \in Workers, AddThread(w)
        PROVE  PlaceInv'
    BY <2>1, SamePlaces DEF AddThread
  <2>2. ASSUME CountThread
        PROVE  PlaceInv'
    BY <2>2, SamePlaces DEF CountThread
  <2>3. ASSUME Stop
        PROVE  PlaceInv'
    BY <2>3, SamePlaces DEF Stop
  <2>4. ASSUME NotifyAll
        PROVE  PlaceInv'
    BY <2>4, SamePlaces DEF NotifyAll
  <2>5. ASSUME Join
        PROVE  PlaceInv'
    BY <2>5, SamePlaces DEF Join
  <2>6. ASSUME NEW c \in Callers, NEW t \in Task, CommitCheck(c, t)
        PROVE  PlaceInv'
    <3>1. /\ \A i \in 1 .. Len(tasks) : tasks[i] # t
          /\ \A w \in Workers : cur[w] # t
          /\ \A d \in Callers : arg[d] # t
          /\ t \notin done \union refused
      BY <2>0, <2>6, Fresh DEF CommitCheck
    <3>2. \A d \in Callers : arg'[d] = IF d = c THEN t ELSE arg[d]
      BY <2>0, <2>6 DEF CommitCheck, TypeOK
    <3>3. UNCHANGED <<tasks, cur, done, refused>>
      BY <2>6 DEF CommitCheck
    <3> QED
      BY <3>1, <3>2, <3>3, PoolAssumption DEF PlaceInv
  <2>7. ASSUME NEW c \in Callers, NEW t \in Task, CommitThrow(c, t)
        PROVE  PlaceInv'
    <3>1. /\ \A i \in 1 .. Len(tasks) : tasks[i] # t
          /\ \A w \in Workers : cur[w] # t
          /\ \A d \in Callers : arg[d] # t
      BY <2>0, <2>7, Fresh DEF CommitThrow
    <3>2. UNCHANGED <<tasks, cur, arg, done>> /\ refused' = refused \union {t}
      BY <2>7 DEF CommitThrow
    <3> QED
      BY <3>1, <3>2 DEF PlaceInv
  <2>8. ASSUME NEW c \in Callers, CommitPush(c)
        PROVE  PlaceInv'
    <3>1. arg[c] \in Task /\ arg[c] # None
      BY <2>8, PoolAssumption DEF CommitPush, IInv, HoldInv, TypeOK
    <3>2. /\ Len(tasks') = Len(tasks) + 1 /\ Len(tasks) \in Nat
          /\ \A i \in 1 .. Len(tasks) : tasks'[i] = tasks[i]
          /\ tasks'[Len(tasks) + 1] = arg[c]
      BY <2>0, <2>8, <3>1 DEF CommitPush, TypeOK
    <3>3. \A d \in Callers : arg'[d] = IF d = c THEN None ELSE arg[d]
      BY <2>0, <2>8 DEF CommitPush, TypeOK
    <3>4. UNCHANGED <<cur, done, refused>>
      BY <2>8 DEF CommitPush
    <3>5. \A i \in 1 .. Len(tasks') :
            \/ i \in 1 .. Len(tasks) /\ tasks'[i] = tasks[i]
            \/ i = Len(tasks) + 1 /\ tasks'[i] = arg[c]
      BY <3>2
    <3>6. \A i \in 1 .. Len(tasks) : tasks[i] # None
      BY <2>0, PoolAssumption DEF TypeOK
    <3>7. None \notin done \union refused
      BY <2>0, PoolAssumption DEF TypeOK
    <3>8. \A i, j \in 1 .. Len(tasks') : tasks'[i] = tasks'[j] => i = j
      <4>1. \A i, j \in 1 .. Len(tasks) : tasks[i] = tasks[j] => i = j
        BY DEF PlaceInv
      <4>2. \A i \in 1 .. Len(tasks) : arg[c] # tasks[i]
        BY DEF PlaceInv
      <4> SUFFICES ASSUME NEW i \in 1 .. Len(tasks'), NEW j \in 1 .. Len(tasks'),
                          tasks'[i] = tasks'[j]
                   PROVE  i = j
        OBVIOUS
      <4>3. \/ i \in 1 .. Len(tasks) /\ tasks'[i] = tasks[i]
            \/ i = Len(tasks) + 1 /\ tasks'[i] = arg[c]
        BY <3>5
      <4>4. \/ j \in 1 .. Len(tasks) /\ tasks'[j] = tasks[j]
            \/ j = Len(tasks) + 1 /\ tasks'[j] = arg[c]
        BY <3>5
      <4> QED
        BY <4>1, <4>2, <4>3, <4>4
    <3>9. \A i \in 1 .. Len(tasks') :
            /\ \A w \in Workers : cur'[w] # tasks'[i]
            /\ \A d \in Callers : arg'[d] # tasks'[i]
            /\ tasks'[i] \notin done' \union refused'
      BY <3>1, <3>3, <3>4, <3>5, <3>6 DEF PlaceInv
    <3>10. \A d, e \in Callers : arg'[d] = arg'[e] /\ arg'[d] # None => d = e
      BY <3>3 DEF PlaceInv
    <3> QED
      BY <3>3, <3>4, <3>7, <3>8, <3>9, <3>10 DEF PlaceInv
  <2>9. ASSUME NEW c \in Callers, CommitNotify(c)
        PROVE  PlaceInv'
    BY <2>9, SamePlaces DEF CommitNotify
  <2>10. ASSUME NEW w \in Workers, Loop(w)
        PROVE  PlaceInv'
    BY <2>10, SamePlaces DEF Loop
  <2>11. ASSUME NEW w \in Workers, Lock(w)
        PROVE  PlaceInv'
    BY <2>11, SamePlaces DEF Lock
  <2>12. ASSUME NEW w \in Workers, TestFails(w)
        PROVE  PlaceInv'
    BY <2>12, SamePlaces DEF TestFails
  <2>13. ASSUME NEW w \in Workers, Block(w)
        PROVE  PlaceInv'
    BY <2>13, SamePlaces DEF Block
  <2>14. ASSUME NEW w \in Workers, WakeSpuriously(w)
        PROVE  PlaceInv'
    BY <2>14, SamePlaces DEF WakeSpuriously
  <2>15. ASSUME NEW w \in Workers, Leave(w)
        PROVE  PlaceInv'
    BY <2>15, SamePlaces DEF Leave
  <2>16. ASSUME NEW w \in Workers, Take(w)
        PROVE  PlaceInv'
    <3>1. /\ Len(tasks) \in Nat /\ Len(tasks) > 0 /\ Len(tasks') = Len(tasks) - 1
          /\ \A i \in 1 .. Len(tasks') : tasks'[i] = tasks[i + 1]
      BY <2>0, <2>16 DEF Take, TypeOK
    <3>2. \A v \in Workers : cur'[v] = IF v = w THEN tasks[1] ELSE cur[v]
      BY <2>0, <2>16 DEF Take, TypeOK
    <3>3. \A i \in 1 .. Len(tasks') : i + 1 \in 1 .. Len(tasks) /\ i + 1 # 1
      BY <3>1
    <3>4. 1 \in 1 .. Len(tasks) /\ tasks[1] # None
      BY <2>0, <3>1, PoolAssumption DEF TypeOK
    <3>5. UNCHANGED <<arg, done, refused>>
      BY <2>16 DEF Take
    <3>6. \A i, j \in 1 .. Len(tasks') : tasks'[i] = tasks'[j] => i = j
      <4> SUFFICES ASSUME NEW i \in 1 .. Len(tasks'), NEW j \in 1 .. Len(tasks'),
                          tasks'[i] = tasks'[j]
                   PROVE  i = j
        OBVIOUS
      <4>1. /\ i + 1 \in 1 .. Len(tasks) /\ j + 1 \in 1 .. Len(tasks)
            /\ tasks[i + 1] = tasks[j + 1]
        BY <3>1, <3>3
      <4>2. i + 1 = j + 1
        BY <4>1 DEF PlaceInv
      <4> QED
        BY <4>2
    <3>7. \A i \in 1 .. Len(tasks') : tasks'[i] # tasks[1]
      BY <3>1, <3>3, <3>4 DEF PlaceInv
    <3>8. \A i \in 1 .. Len(tasks') :
            /\ \A v \in Workers : cur'[v] # tasks'[i]
            /\ \A c \in Callers : arg'[c] # tasks'[i]
            /\ tasks'[i] \notin done' \union refused'
      BY <3>1, <3>2, <3>3, <3>5, <3>7 DEF PlaceInv
    <3>9. /\ \A v \in Workers : cur[v] # tasks[1]
          /\ \A c \in Callers : arg[c] # tasks[1]
          /\ tasks[1] \notin done \union refused
      BY <3>4 DEF PlaceInv
    <3>10. \A u, v \in Workers : cur'[u] = cur'[v] /\ cur'[u] # None => u = v
      BY <3>2, <3>9 DEF PlaceInv
    <3>11. \A c \in Callers : \A v \in Workers : arg'[c] = cur'[v] => arg'[c] = None
      BY <3>2, <3>5, <3>9 DEF PlaceInv
    <3> QED
      BY <3>2, <3>5, <3>6, <3>8, <3>9, <3>10, <3>11 DEF PlaceInv
  <2>17. ASSUME NEW w \in Workers, Uncount(w)
        PROVE  PlaceInv'
    BY <2>17, SamePlaces DEF Uncount
  <2>18. ASSUME NEW w \in Workers, Return(w)
        PROVE  PlaceInv'
    <3>1. cur[w] \in Task /\ cur[w] # None
      BY <2>18, PoolAssumption DEF Return, IInv, HoldInv, TypeOK
    <3>2. \A v \in Workers : cur'[v] = IF v = w THEN None ELSE cur[v]
      BY <2>0, <2>18 DEF Return, TypeOK
    <3>3. UNCHANGED <<tasks, arg, refused>> /\ done' = done \union {cur[w]}
      BY <2>18 DEF Return
    <3>4. \A i \in 1 .. Len(tasks) : tasks[i] # None
      BY <2>0, PoolAssumption DEF TypeOK
    <3>5. None \notin done \union refused
      BY <2>0, PoolAssumption DEF TypeOK
    <3>6. \A v \in Workers : cur'[v] \notin done' \union refused'
      BY <3>1, <3>2, <3>3, <3>5 DEF PlaceInv
    <3>7. \A c \in Callers : arg'[c] \notin done' \union refused'
      BY <3>1, <3>3 DEF PlaceInv
    <3>8. \A i \in 1 .. Len(tasks') :
            /\ \A v \in Workers : cur'[v] # tasks'[i]
            /\ \A c \in Callers : arg'[c] # tasks'[i]
            /\ tasks'[i] \notin done' \union refused'
      BY <3>2, <3>3, <3>4 DEF PlaceInv
    <3> QED
      BY <3>2, <3>3, <3>6, <3>7, <3>8 DEF PlaceInv
  <2>19. ASSUME NEW w \in Workers, Recount(w)
        PROVE  PlaceInv'
    BY <2>19, SamePlaces DEF Recount
  <2>20. CASE UNCHANGED vars
    BY <2>20, SamePlaces DEF vars
  <2> QED
    BY <2>1, <2>2, <2>3, <2>4, <2>5, <2>6, <2>7, <2>8, <2>9, <2>10, <2>11, <2>12, <2>13, <2>14, <2>15, <2>16, <2>17, <2>18, <2>19, <2>20 DEF Next, Construct, Destroy, Worker
<1> QED
  BY <1>1, <1>2, Inductive, PTL DEF Spec

-----------------------------------------------------------------------------
(* The constructor creates at most PoolSize threads.                       *)
THEOREM PoolIsBounded == Spec => [](Cardinality(Pool) <= PoolSize)
<1> DEFINE Bound == Cardinality(Pool) <= PoolSize
<1>0. PoolSize \in Nat \ {0}
  BY PoolAssumption DEF PoolSize
<1>1. Init => Bound
  <2> SUFFICES ASSUME Init PROVE Bound
    OBVIOUS
  <2>1. Pool = {}
    BY DEF Init, Pool
  <2> QED
    BY <1>0, <2>1, FS_EmptySet
<1>2. IInv /\ Bound /\ [Next]_vars => Bound'
  <2> SUFFICES ASSUME IInv, Bound, [Next]_vars
               PROVE  Bound'
    OBVIOUS
  <2> USE DEF IInv, TypeOK, WorkerPC
  <2>1. ASSUME NEW w \in Workers, AddThread(w)
        PROVE  Bound'
    <3>1. Pool' = Pool \union {w} /\ w \notin Pool
      BY <2>1 DEF AddThread, Pool
    <3>2. Cardinality(Pool') = Cardinality(Pool) + 1
      BY <3>1, PoolIsFinite, FS_AddElement
    <3>3. Cardinality(Pool) < PoolSize
      BY <2>1 DEF AddThread
    <3> QED
      BY <1>0, <3>2, <3>3, PoolIsFinite
  <2>2. ASSUME CountThread
        PROVE  Bound'
    <3>1. Pool' = Pool
      BY <2>2 DEF CountThread, Pool
    <3> QED
      BY <3>1
  <2>3. ASSUME Stop
        PROVE  Bound'
    <3>1. Pool' = Pool
      BY <2>3 DEF Stop, Pool
    <3> QED
      BY <3>1
  <2>4. ASSUME NotifyAll
        PROVE  Bound'
    <3>1. Pool' = Pool
      BY <2>4 DEF NotifyAll, Pool
    <3> QED
      BY <3>1
  <2>5. ASSUME Join
        PROVE  Bound'
    <3>1. Pool' = Pool
      BY <2>5 DEF Join, Pool
    <3> QED
      BY <3>1
  <2>6. ASSUME NEW c \in Callers, NEW t \in Task, CommitCheck(c, t)
        PROVE  Bound'
    <3>1. Pool' = Pool
      BY <2>6 DEF CommitCheck, Pool
    <3> QED
      BY <3>1
  <2>7. ASSUME NEW c \in Callers, NEW t \in Task, CommitThrow(c, t)
        PROVE  Bound'
    <3>1. Pool' = Pool
      BY <2>7 DEF CommitThrow, Pool
    <3> QED
      BY <3>1
  <2>8. ASSUME NEW c \in Callers, CommitPush(c)
        PROVE  Bound'
    <3>1. Pool' = Pool
      BY <2>8 DEF CommitPush, Pool
    <3> QED
      BY <3>1
  <2>9. ASSUME NEW c \in Callers, CommitNotify(c)
        PROVE  Bound'
    <3>1. Pool' = Pool
      BY <2>9 DEF CommitNotify, Pool
    <3> QED
      BY <3>1
  <2>10. ASSUME NEW w \in Workers, Loop(w)
        PROVE  Bound'
    <3>1. Pool' = Pool
      BY <2>10 DEF Loop, Pool
    <3> QED
      BY <3>1
  <2>11. ASSUME NEW w \in Workers, Lock(w)
        PROVE  Bound'
    <3>1. Pool' = Pool
      BY <2>11 DEF Lock, Pool
    <3> QED
      BY <3>1
  <2>12. ASSUME NEW w \in Workers, TestFails(w)
        PROVE  Bound'
    <3>1. Pool' = Pool
      BY <2>12 DEF TestFails, Pool
    <3> QED
      BY <3>1
  <2>13. ASSUME NEW w \in Workers, Block(w)
        PROVE  Bound'
    <3>1. Pool' = Pool
      BY <2>13 DEF Block, Pool
    <3> QED
      BY <3>1
  <2>14. ASSUME NEW w \in Workers, WakeSpuriously(w)
        PROVE  Bound'
    <3>1. Pool' = Pool
      BY <2>14 DEF WakeSpuriously, Pool
    <3> QED
      BY <3>1
  <2>15. ASSUME NEW w \in Workers, Leave(w)
        PROVE  Bound'
    <3>1. Pool' = Pool
      BY <2>15 DEF Leave, Pool
    <3> QED
      BY <3>1
  <2>16. ASSUME NEW w \in Workers, Take(w)
        PROVE  Bound'
    <3>1. Pool' = Pool
      BY <2>16 DEF Take, Pool
    <3> QED
      BY <3>1
  <2>17. ASSUME NEW w \in Workers, Uncount(w)
        PROVE  Bound'
    <3>1. Pool' = Pool
      BY <2>17 DEF Uncount, Pool
    <3> QED
      BY <3>1
  <2>18. ASSUME NEW w \in Workers, Return(w)
        PROVE  Bound'
    <3>1. Pool' = Pool
      BY <2>18 DEF Return, Pool
    <3> QED
      BY <3>1
  <2>19. ASSUME NEW w \in Workers, Recount(w)
        PROVE  Bound'
    <3>1. Pool' = Pool
      BY <2>19 DEF Recount, Pool
    <3> QED
      BY <3>1
  <2>20. CASE UNCHANGED vars
    <3>1. Pool' = Pool
      BY <2>20 DEF vars, Pool
    <3> QED
      BY <3>1
  <2> QED
    BY <2>1, <2>2, <2>3, <2>4, <2>5, <2>6, <2>7, <2>8, <2>9, <2>10, <2>11, <2>12, <2>13, <2>14, <2>15, <2>16, <2>17, <2>18, <2>19, <2>20 DEF Next, Construct, Destroy, Worker
<1>3. Spec => []Bound
  BY <1>1, <1>2, Inductive, PTL DEF Spec
<1> QED
  BY <1>3

(* A worker about to take a task leaves room for it: fewer tasks run than  *)
(* there are threads.                                                      *)
LEMMA RoomToStart ==
  ASSUME IInv, Cardinality(Pool) <= PoolSize, NEW w \in Workers, pc[w] = "test"
  PROVE  Cardinality(Running) < PoolSize
<1> DEFINE Holders == {v \in Workers : cur[v] # None}
           f == [v \in Holders |-> cur[v]]
<1>1. Holders \subseteq Pool \ {w} /\ w \in Pool
  BY DEF Pool, IInv, HoldInv
<1>2. /\ IsFiniteSet(Pool \ {w})
      /\ Cardinality(Pool \ {w}) = Cardinality(Pool) - 1
  BY <1>1, PoolIsFinite, FS_RemoveElement
<1>3. IsFiniteSet(Holders) /\ Cardinality(Holders) <= Cardinality(Pool \ {w})
  BY <1>1, <1>2, FS_Subset
<1>4. f \in Surjection(Holders, Running)
  <2>1. f \in [Holders -> Running]
    BY DEF Running, IInv, TypeOK
  <2>2. \A t \in Running : \E v \in Holders : f[v] = t
    BY PoolAssumption DEF Running
  <2> QED
    BY <2>1, <2>2 DEF Surjection
<1>5. /\ IsFiniteSet(Running)
      /\ Cardinality(Running) <= Cardinality(Holders)
  BY <1>3, <1>4, FS_Surjection
<1>6. Cardinality(Running) \in Nat /\ Cardinality(Holders) \in Nat
  BY <1>3, <1>5, FS_CardinalityType
<1>7. PoolSize \in Nat
  BY PoolAssumption DEF PoolSize
<1> QED
  BY <1>2, <1>3, <1>5, <1>6, <1>7, PoolIsFinite

(* A step that neither TaskService nor its clients see.                    *)
LEMMA Unseen ==
  ASSUME UNCHANGED <<run, tasks, cur, done, refused>>
  PROVE  UNCHANGED Service!svars
BY DEF Service!svars, Running

(* The pool of threads does step by step what TaskService promises: a      *)
(* commit submits or refuses, a worker starts the head of the backlog with *)
(* a thread to spare and finishes what it started, the destructor closes.  *)
THEOREM PoolImplementsService ==
  Spec => Service!SInit /\ [][Service!SNext]_(Service!svars)
<1>1. Init => Service!SInit
  BY PoolAssumption DEF Init, Service!SInit, Running
<1>2. /\ IInv /\ PlaceInv /\ Cardinality(Pool) <= PoolSize
      /\ [Next]_vars
      => [Service!SNext]_(Service!svars)
  <2> SUFFICES ASSUME IInv, PlaceInv, Cardinality(Pool) <= PoolSize, [Next]_vars
               PROVE  Service!SNext \/ UNCHANGED Service!svars
    OBVIOUS
  <2>1. ASSUME NEW w \in Workers, AddThread(w)
        PROVE  Service!SNext \/ UNCHANGED Service!svars
    BY <2>1, Unseen DEF AddThread
  <2>2. ASSUME CountThread
        PROVE  Service!SNext \/ UNCHANGED Service!svars
    BY <2>2, Unseen DEF CountThread
  <2>3. ASSUME Stop
        PROVE  Service!SNext \/ UNCHANGED Service!svars
    <3>1. Running' = Running
      BY <2>3 DEF Stop, Running
    <3>2. run
      BY <2>3 DEF Stop, IInv, PhaseInv
    <3>3. Service!Close
      BY <2>3, <3>1, <3>2 DEF Stop, Service!Close
    <3> QED
      BY <3>3 DEF Service!SNext
  <2>4. ASSUME NotifyAll
        PROVE  Service!SNext \/ UNCHANGED Service!svars
    BY <2>4, Unseen DEF NotifyAll
  <2>5. ASSUME Join
        PROVE  Service!SNext \/ UNCHANGED Service!svars
    BY <2>5, Unseen DEF Join
  <2>6. ASSUME NEW c \in Callers, NEW t \in Task, CommitCheck(c, t)
        PROVE  Service!SNext \/ UNCHANGED Service!svars
    BY <2>6, Unseen DEF CommitCheck
  <2>7. ASSUME NEW c \in Callers, NEW t \in Task, CommitThrow(c, t)
        PROVE  Service!SNext \/ UNCHANGED Service!svars
    <3>1. Running' = Running
      BY <2>7 DEF CommitThrow, Running
    <3>2. t \notin Service!Known
      BY <2>7 DEF CommitThrow, Known, Range, Service!Known, Service!Range
    <3>3. Service!Refuse(t)
      BY <2>7, <3>1, <3>2 DEF CommitThrow, Service!Refuse
    <3> QED
      BY <3>3 DEF Service!SNext
  <2>8. ASSUME NEW c \in Callers, CommitPush(c)
        PROVE  Service!SNext \/ UNCHANGED Service!svars
    <3>1. arg[c] \in Task
      BY <2>8 DEF CommitPush, IInv, HoldInv, TypeOK
    <3>2. Running' = Running
      BY <2>8 DEF CommitPush, Running
    <3>3. DOMAIN tasks = 1 .. Len(tasks)
      BY DEF IInv, TypeOK
    <3>4. arg[c] \notin Range(tasks)
      BY <3>3 DEF PlaceInv, Range
    <3>5. arg[c] \notin Running
      BY <3>1, PoolAssumption DEF PlaceInv, Running
    <3>6. arg[c] \notin done \union refused
      BY DEF PlaceInv
    <3>7. arg[c] \notin Service!Known
      BY <3>4, <3>5, <3>6 DEF Range, Service!Known, Service!Range
    <3>8. run \/ Running # {}
      <4>1. CASE c \in Clients
        BY <2>8, <4>1 DEF CommitPush, IInv, PhaseInv, TypeOK, OwnerPC, Callers
      <4>2. CASE c \in Workers
        <5>1. pc[c] = "task"
          BY <2>8, <4>2 DEF CommitPush, IInv, HoldInv
        <5>2. cur[c] # None /\ cur[c] \in Task
          BY <4>2, <5>1 DEF IInv, HoldInv, TypeOK
        <5> QED
          BY <4>2, <5>2 DEF Running
      <4> QED
        BY <4>1, <4>2 DEF Callers
    <3>9. Service!Submit(arg[c])
      BY <2>8, <3>2, <3>7, <3>8 DEF CommitPush, Service!Submit
    <3> QED
      BY <3>1, <3>9 DEF Service!SNext
  <2>9. ASSUME NEW c \in Callers, CommitNotify(c)
        PROVE  Service!SNext \/ UNCHANGED Service!svars
    BY <2>9, Unseen DEF CommitNotify
  <2>10. ASSUME NEW w \in Workers, Loop(w)
        PROVE  Service!SNext \/ UNCHANGED Service!svars
    BY <2>10, Unseen DEF Loop
  <2>11. ASSUME NEW w \in Workers, Lock(w)
        PROVE  Service!SNext \/ UNCHANGED Service!svars
    BY <2>11, Unseen DEF Lock
  <2>12. ASSUME NEW w \in Workers, TestFails(w)
        PROVE  Service!SNext \/ UNCHANGED Service!svars
    BY <2>12, Unseen DEF TestFails
  <2>13. ASSUME NEW w \in Workers, Block(w)
        PROVE  Service!SNext \/ UNCHANGED Service!svars
    BY <2>13, Unseen DEF Block
  <2>14. ASSUME NEW w \in Workers, WakeSpuriously(w)
        PROVE  Service!SNext \/ UNCHANGED Service!svars
    BY <2>14, Unseen DEF WakeSpuriously
  <2>15. ASSUME NEW w \in Workers, Leave(w)
        PROVE  Service!SNext \/ UNCHANGED Service!svars
    BY <2>15, Unseen DEF Leave
  <2>16. ASSUME NEW w \in Workers, Take(w)
        PROVE  Service!SNext \/ UNCHANGED Service!svars
    <3>1. Cardinality(Running) < PoolSize
      BY <2>16, RoomToStart DEF Take
    <3>2. Head(tasks) \in Task
      BY <2>16 DEF Take, IInv, TypeOK
    <3>3. cur[w] = None
      BY <2>16 DEF Take, IInv, HoldInv
    <3>4. \A v \in Workers : cur'[v] = IF v = w THEN Head(tasks) ELSE cur[v]
      BY <2>16 DEF Take, IInv, TypeOK
    <3>5. Running' = Running \union {Head(tasks)}
      BY <3>2, <3>3, <3>4, PoolAssumption DEF Running
    <3>6. Service!Cardinality(Running) = Cardinality(Running)
      BY DEF Cardinality, Service!Cardinality
    <3>7. Service!Start
      BY <2>16, <3>1, <3>5, <3>6 DEF Take, Service!Start
    <3> QED
      BY <3>7 DEF Service!SNext
  <2>17. ASSUME NEW w \in Workers, Uncount(w)
        PROVE  Service!SNext \/ UNCHANGED Service!svars
    BY <2>17, Unseen DEF Uncount
  <2>18. ASSUME NEW w \in Workers, Return(w)
        PROVE  Service!SNext \/ UNCHANGED Service!svars
    <3>1. cur[w] \in Task
      BY <2>18 DEF Return, IInv, HoldInv, TypeOK
    <3>2. \A v \in Workers : cur'[v] = IF v = w THEN None ELSE cur[v]
      BY <2>18 DEF Return, IInv, TypeOK
    <3>3. \A v \in Workers : v # w => cur[v] # cur[w]
      BY <3>1, PoolAssumption DEF PlaceInv
    <3>4. Running' = Running \ {cur[w]} /\ cur[w] \in Running
      BY <3>1, <3>2, <3>3, PoolAssumption DEF Running
    <3>5. Service!Finish(cur[w])
      BY <2>18, <3>4 DEF Return, Service!Finish
    <3> QED
      BY <3>1, <3>5 DEF Service!SNext
  <2>19. ASSUME NEW w \in Workers, Recount(w)
        PROVE  Service!SNext \/ UNCHANGED Service!svars
    BY <2>19, Unseen DEF Recount
  <2>20. CASE UNCHANGED vars
    BY <2>20, Unseen DEF vars
  <2> QED
    BY <2>1, <2>2, <2>3, <2>4, <2>5, <2>6, <2>7, <2>8, <2>9, <2>10, <2>11, <2>12, <2>13, <2>14, <2>15, <2>16, <2>17, <2>18, <2>19, <2>20 DEF Next, Construct, Destroy, Worker
<1> QED
  BY <1>1, <1>2, Inductive, OnePlaceEach, PoolIsBounded, PTL DEF Spec

====
