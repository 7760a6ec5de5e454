---- MODULE ObjectPool ----
(***************************************************************************)
(* ObjectPoolAllocator of objectpool/objectpool.h with the LockGuard of    *)
(* mutex.h, used by several threads.  Create takes the object at the front *)
(* of a free list and grows the pool by a chunk when the list is empty;    *)
(* Destroy puts an object back at the front.  Both are under pMutex_, a    *)
(* Mutex the constructor is given: Locking says whether its Acquire locks  *)
(* (ThreadMutex) or does nothing (NullMutex, the default argument).        *)
(*                                                                         *)
(* Objects are numbered in the order they are constructed.  Each step is   *)
(* one operation on a member; the operations of std::list are atomic here, *)
(* which gives the racing threads of NullMutex less freedom than they have.*)
(***************************************************************************)
EXTENDS Integers, Sequences, FiniteSets, Functions

CONSTANTS Threads,
          InitNum, MaxNum, IncNum,  \* arguments of the constructor
          MaxNums,    \* arguments of SetMaxNum
          IncNums,    \* arguments of SetIncNum
          Locking,
          None        \* no thread, no object

(* A pool that may grow is given an increment.  With the default iIncNum   *)
(* of 0, or with a maximum first below InitNum and raised later, Create of *)
(* an empty pool "grows" it by nothing and reads the front of an empty     *)
(* list: undefined behaviour, outside this model.                          *)
ASSUME ObjectPoolAssumption ==
  /\ InitNum \in Nat /\ MaxNum \in Nat /\ IncNum \in Nat \ {0}
  /\ InitNum <= MaxNum \/ MaxNums = {}
  /\ MaxNums \subseteq Nat /\ IncNums \subseteq Nat \ {0}
  /\ Locking \in BOOLEAN
  /\ None \notin Threads /\ None \notin Nat

VARIABLES Objects,   \* Objects_, the free list
          iCurrNum, iMaxNum, iIncNum,
          built,     \* how many objects have been constructed
          holder,    \* the thread that has the mutex, or None
          pc,        \* where each thread is
          grow,      \* iIncNum of IncreaseObjects in each thread
          made,      \* its loop counter i
          obj,       \* pObject of Create or Destroy
          held       \* the objects each thread has been given

vars == <<Objects, iCurrNum, iMaxNum, iIncNum, built, holder, pc, grow, made, obj, held>>

PC == {"idle", "create", "test", "increase", "allocate", "construct", "front",
       "pop", "destroy", "push"}

TypeOK ==
  /\ Objects \in Seq(Nat)
  /\ iCurrNum \in Nat /\ iMaxNum \in Nat /\ iIncNum \in Nat /\ built \in Nat
  /\ holder \in Threads \union {None}
  /\ pc \in [Threads -> PC]
  /\ grow \in [Threads -> Nat]
  /\ made \in [Threads -> Nat]
  /\ obj \in [Threads -> Nat \union {None}]
  /\ held \in [Threads -> SUBSET Nat]

(* The constructor, which makes the first chunk; a pool whose maximum is   *)
(* below InitNum never grows.                                              *)
Init ==
  /\ iMaxNum = IF MaxNum < InitNum THEN InitNum ELSE MaxNum
  /\ iIncNum = IF MaxNum < InitNum THEN 0 ELSE IncNum
  /\ Objects = [i \in 1 .. InitNum |-> i]
  /\ iCurrNum = InitNum
  /\ built = InitNum
  /\ holder = None
  /\ pc = [t \in Threads |-> "idle"]
  /\ grow = [t \in Threads |-> 0]
  /\ made = [t \in Threads |-> 0]
  /\ obj = [t \in Threads |-> None]
  /\ held = [t \in Threads |-> {}]

-----------------------------------------------------------------------------
(* LockGuard: with a NullMutex Acquire always succeeds at once.            *)

(* Mutant: the mutex does not exclude. *)
AcquireAlways(t) == holder' = t

Acquire(t) ==
  /\ Locking => holder = None
  /\ holder' = IF Locking THEN t ELSE holder

Release(t) == holder' = IF Locking THEN None ELSE holder

At(t, here, there) == pc[t] = here /\ pc' = [pc EXCEPT ![t] = there]

numbers == <<iCurrNum, iMaxNum, iIncNum>>

-----------------------------------------------------------------------------
(* Create.  Lock(true) returns 0, so that the returns of objectpool.h:55   *)
(* and :74 are not taken: the LockGuard is new and has acquired nothing,   *)
(* NullMutex::Acquire returns 0, and so does the pthread_mutex_lock of     *)
(* ThreadMutex, of a mutex made by its constructor, in a thread that does  *)
(* not hold it (no call of the pool is made inside another one).           *)

CreateCall(t) ==
  /\ At(t, "idle", "create")
  /\ UNCHANGED <<Objects, numbers, built, holder, grow, made, obj, held>>

CreateLock(t) ==
  /\ At(t, "create", "test")
  /\ Acquire(t)
  /\ UNCHANGED <<Objects, numbers, built, grow, made, obj, held>>

CreateTest(t) ==
  /\ At(t, "test", IF Objects = <<>> THEN "increase" ELSE "front")
  /\ UNCHANGED <<Objects, numbers, built, holder, grow, made, obj, held>>

(* Mutant: the early return of a full pool leaves the mutex locked. *)
IncreaseFullLocked(t) ==
  /\ iCurrNum >= iMaxNum
  /\ At(t, "increase", "idle")
  /\ UNCHANGED <<Objects, numbers, built, holder, grow, made, obj, held>>

(* IncreaseObjects: a full pool makes Create return NULL.                  *)
IncreaseFull(t) ==
  /\ iCurrNum >= iMaxNum
  /\ At(t, "increase", "idle")
  /\ Release(t)
  /\ UNCHANGED <<Objects, numbers, built, grow, made, obj, held>>

IncreaseClip(t) ==
  /\ iCurrNum < iMaxNum
  /\ At(t, "increase", "allocate")
  /\ grow' = [grow EXCEPT ![t] =
                IF iCurrNum + iIncNum > iMaxNum THEN iMaxNum - iCurrNum ELSE iIncNum]
  /\ UNCHANGED <<Objects, numbers, built, holder, made, obj, held>>

AllocateFails(t) ==
  /\ At(t, "allocate", "idle")
  /\ Release(t)
  /\ UNCHANGED <<Objects, numbers, built, grow, made, obj, held>>

Allocate(t) ==
  /\ At(t, "allocate", "construct")
  /\ made' = [made EXCEPT ![t] = 0]
  /\ UNCHANGED <<Objects, numbers, built, holder, grow, obj, held>>

Construct(t) ==
  /\ pc[t] = "construct"
  /\ made[t] < grow[t]
  /\ built' = built + 1
  /\ Objects' = Append(Objects, built + 1)
  /\ made' = [made EXCEPT ![t] = made[t] + 1]
  /\ UNCHANGED <<numbers, holder, pc, grow, obj, held>>

(* Mutant: the pool counts the increment it was asked for. *)
IncreaseDoneAsked(t) ==
  /\ made[t] = grow[t]
  /\ At(t, "construct", "front")
  /\ iCurrNum' = iCurrNum + iIncNum
  /\ UNCHANGED <<Objects, iMaxNum, iIncNum, built, holder, grow, made, obj, held>>

IncreaseDone(t) ==
  /\ made[t] = grow[t]
  /\ At(t, "construct", "front")
  /\ iCurrNum' = iCurrNum + grow[t]
  /\ UNCHANGED <<Objects, iMaxNum, iIncNum, built, holder, grow, made, obj, held>>

(* *(Objects_.begin()) of an empty list is not an object: None.            *)
CreateFront(t) ==
  /\ At(t, "front", "pop")
  /\ obj' = [obj EXCEPT ![t] = IF Objects = <<>> THEN None ELSE Head(Objects)]
  /\ UNCHANGED <<Objects, numbers, built, holder, grow, made, held>>

CreatePop(t) ==
  /\ At(t, "pop", "idle")
  /\ Objects' = IF Objects = <<>> THEN Objects ELSE Tail(Objects)
  /\ held' = [held EXCEPT ![t] = held[t] \union ({obj[t]} \ {None})]
  /\ obj' = [obj EXCEPT ![t] = None]
  /\ Release(t)
  /\ UNCHANGED <<numbers, built, grow, made>>

-----------------------------------------------------------------------------
(* Destroy, of an object the thread was given and gives up.                *)

DestroyCall(t, o) ==
  /\ o \in held[t]
  /\ At(t, "idle", "destroy")
  /\ obj' = [obj EXCEPT ![t] = o]
  /\ held' = [held EXCEPT ![t] = held[t] \ {o}]
  /\ UNCHANGED <<Objects, numbers, built, holder, grow, made>>

DestroyLock(t) ==
  /\ At(t, "destroy", "push")
  /\ Acquire(t)
  /\ UNCHANGED <<Objects, numbers, built, grow, made, obj, held>>

DestroyPush(t) ==
  /\ At(t, "push", "idle")
  /\ Objects' = <<obj[t]>> \o Objects
  /\ obj' = [obj EXCEPT ![t] = None]
  /\ Release(t)
  /\ UNCHANGED <<numbers, built, grow, made, held>>

-----------------------------------------------------------------------------
(* The setters take no lock: they are called while no thread is inside     *)
(* Create or Destroy.                                                      *)

Quiet == \A t \in Threads : pc[t] = "idle"

SetMaxNum(n) ==
  /\ Quiet
  /\ iMaxNum' = IF iCurrNum >= n THEN iCurrNum ELSE n
  /\ UNCHANGED <<Objects, iCurrNum, iIncNum, built, holder, pc, grow, made, obj, held>>

SetIncNum(n) ==
  /\ Quiet
  /\ iIncNum' = n
  /\ UNCHANGED <<Objects, iCurrNum, iMaxNum, built, holder, pc, grow, made, obj, held>>

-----------------------------------------------------------------------------
Thread(t) ==
  \/ CreateLock(t) \/ CreateTest(t) \/ IncreaseFull(t) \/ IncreaseClip(t)
  \/ AllocateFails(t) \/ Allocate(t) \/ Construct(t) \/ IncreaseDone(t)
  \/ CreateFront(t) \/ CreatePop(t) \/ DestroyLock(t) \/ DestroyPush(t)

Next ==
  \/ \E t \in Threads : \/ CreateCall(t)
                        \/ \E o \in held[t] : DestroyCall(t, o)
                        \/ Thread(t)
  \/ \E n \in MaxNums : SetMaxNum(n)
  \/ \E n \in IncNums : SetIncNum(n)

(* A thread inside a call goes on, and gets the mutex if it is released    *)
(* again and again.                                                        *)
Fairness ==
  \A t \in Threads : /\ WF_vars(Thread(t))
                     /\ SF_vars(CreateLock(t) \/ DestroyLock(t))

Spec == Init /\ [][Next]_vars /\ Fairness

-----------------------------------------------------------------------------
InHand(t) == held[t] \union ({obj[t]} \ {None})

Growing == \E t \in Threads : pc[t] = "construct"

(* An object is never given to two threads, nor given away while it is in  *)
(* the free list.                                                          *)
NoSharing ==
  /\ \A t, u \in Threads : t # u => held[t] \intersect held[u] = {}
  /\ \A t \in Threads : held[t] \intersect Range(Objects) = {}

(* Every object constructed is in one place: once in the free list or with *)
(* one thread.  None is lost by a Create that fails or by a Destroy, and   *)
(* iCurrNum_ counts them all whenever nobody is growing the pool.  What    *)
(* Create has read from the front and not popped yet is still in the list. *)
(* The pool never has more objects than its maximum, and a pool that grows *)
(* gains one to hand out.                                                  *)
ObjectsConserved ==
  /\ \A i, j \in 1 .. Len(Objects) : Objects[i] = Objects[j] => i = j
  /\ Range(Objects) \union UNION {InHand(t) : t \in Threads} = 1 .. built
  /\ \A t \in Threads : pc[t] = "pop" => Objects # <<>> /\ obj[t] = Head(Objects)
  /\ \A t \in Threads : pc[t] # "pop" => InHand(t) \intersect Range(Objects) = {}
  /\ ~Growing => built = iCurrNum
  /\ iCurrNum <= iMaxNum /\ built <= iMaxNum

(* Every call of Create and Destroy returns: each early return releases    *)
(* the mutex.                                                              *)
CallsReturn ==
  \A t \in Threads : pc[t] \in {"create", "destroy"} ~> pc[t] = "idle"

====
