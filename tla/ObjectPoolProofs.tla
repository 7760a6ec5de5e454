---- MODULE ObjectPoolProofs ----
(* Invariants of ObjectPool with a mutex that locks, for any number of     *)
(* threads, any chunks and any maximum.                                    *)
EXTENDS ObjectPool, TLAPS

Critical == {"test", "increase", "allocate", "construct", "front", "pop", "push"}

(* A thread between Acquire and Release has the mutex.                     *)
Excluded == \A t \in Threads : pc[t] \in Critical => holder = t

(* What a thread alone has: what Create has read from the front is still   *)
(* in the free list.                                                       *)
Own(t) == held[t] \union (IF pc[t] \in {"destroy", "push"} THEN {obj[t]} ELSE {})

(* Where the objects are.                                                  *)
Listed ==
  /\ \A i, j \in DOMAIN Objects : Objects[i] = Objects[j] => i = j
  /\ \A i \in DOMAIN Objects : Objects[i] <= built

Apart ==
  \A t \in Threads :
    /\ \A u \in Threads : t # u => Own(t) \intersect Own(u) = {}
    /\ \A o \in Own(t) : o <= built
    /\ \A i \in DOMAIN Objects : Objects[i] \notin Own(t)
    /\ pc[t] \in {"destroy", "push"} => obj[t] \in Nat /\ obj[t] \notin held[t]
    /\ pc[t] = "pop" => obj[t] = IF Objects = <<>> THEN None ELSE Head(Objects)

IInv == Locking /\ TypeOK /\ Excluded /\ Listed /\ Apart

(* A step that moves one thread from one place to another and touches no   *)
(* object.                                                                 *)
LEMMA MoveKeeps ==
  ASSUME IInv, TypeOK', NEW t \in Threads, NEW place,
         pc' = [pc EXCEPT ![t] = place],
         place \in Critical => holder' = t,
         \A u \in Threads \ {t} : pc[u] \in Critical => holder' = u,
         UNCHANGED <<Objects, built, obj, held>>,
         pc[t] \in {"destroy", "push"} <=> place \in {"destroy", "push"},
         place # "pop"
  PROVE  IInv'
<1>1. \A u \in Threads : pc'[u] = IF u = t THEN place ELSE pc[u]
  BY DEF IInv, TypeOK
<1>2. Excluded'
  BY <1>1 DEF Excluded
<1>3. \A u \in Threads : Own(u)' = Own(u)
  BY <1>1 DEF Own
<1>4. Apart'
  BY <1>1, <1>3 DEF IInv, Apart
<1> QED
  BY <1>2, <1>4 DEF IInv, Listed

(* Create and Destroy, step by step (objectpool.h:52-108), keep the typing,*)
(* the mutex and where the objects are.                                    *)
THEOREM ObjectPoolInductive == Locking => (Spec => []IInv)
<1>1. Locking /\ Init => IInv
  <2> SUFFICES ASSUME Locking, Init PROVE IInv
    OBVIOUS
  <2>1. TypeOK
    BY ObjectPoolAssumption DEF Init, TypeOK, PC
  <2>2. Excluded /\ Listed /\ Apart
    BY ObjectPoolAssumption DEF Init, Excluded, Critical, Listed, Apart, Own
  <2> QED
    BY <2>1, <2>2 DEF IInv
<1>2. IInv /\ [Next]_vars => IInv'
  <2> SUFFICES ASSUME IInv, [Next]_vars PROVE IInv'
    OBVIOUS
  <2> USE ObjectPoolAssumption
  <2>0. CASE UNCHANGED vars
    BY <2>0 DEF IInv, TypeOK, Excluded, Listed, Apart, Own, vars
  <2>1. ASSUME NEW t \in Threads, CreateCall(t) PROVE IInv'
    <3>1. TypeOK'
      BY <2>1 DEF CreateCall, At, numbers, IInv, TypeOK, PC
    <3> QED
      BY <2>1, <3>1, MoveKeeps DEF CreateCall, At, numbers, IInv, Excluded, Critical
  <2>2. ASSUME NEW t \in Threads, CreateLock(t) PROVE IInv'
    <3>1. TypeOK'
      BY <2>2 DEF CreateLock, Acquire, At, numbers, IInv, TypeOK, PC
    <3> QED
      BY <2>2, <3>1, MoveKeeps
      DEF CreateLock, Acquire, At, numbers, IInv, Excluded, Critical
  <2>3. ASSUME NEW t \in Threads, CreateTest(t) PROVE IInv'
    <3>1. TypeOK'
      BY <2>3 DEF CreateTest, At, numbers, IInv, TypeOK, PC
    <3> QED
      BY <2>3, <3>1, MoveKeeps DEF CreateTest, At, numbers, IInv, Excluded, Critical
  <2>4. ASSUME NEW t \in Threads, IncreaseFull(t) \/ AllocateFails(t) PROVE IInv'
    <3>1. TypeOK'
      BY <2>4 DEF IncreaseFull, AllocateFails, Release, At, numbers, IInv, TypeOK, PC
    <3>2. holder = t
      BY <2>4 DEF IncreaseFull, AllocateFails, At, IInv, Excluded, Critical
    <3> QED
      BY <2>4, <3>1, <3>2, MoveKeeps
      DEF IncreaseFull, AllocateFails, At, numbers, IInv, Excluded, Critical
  <2>5. ASSUME NEW t \in Threads, IncreaseClip(t) PROVE IInv'
    <3>1. grow' \in [Threads -> Nat]
      BY <2>5 DEF IncreaseClip, IInv, TypeOK
    <3>2. TypeOK'
      BY <2>5, <3>1 DEF IncreaseClip, At, numbers, IInv, TypeOK, PC
    <3> QED
      BY <2>5, <3>2, MoveKeeps DEF IncreaseClip, At, numbers, IInv, Excluded, Critical
  <2>6. ASSUME NEW t \in Threads, Allocate(t) PROVE IInv'
    <3>1. TypeOK'
      BY <2>6 DEF Allocate, At, numbers, IInv, TypeOK, PC
    <3> QED
      BY <2>6, <3>1, MoveKeeps DEF Allocate, At, numbers, IInv, Excluded, Critical
  <2>7. ASSUME NEW t \in Threads, Construct(t) PROVE IInv'
    <3>1. /\ Objects \in Seq(Nat) /\ built \in Nat /\ built' = built + 1
          /\ Objects' = Append(Objects, built + 1)
      BY <2>7 DEF Construct, IInv, TypeOK
    <3>2. /\ Objects' \in Seq(Nat)
          /\ DOMAIN Objects' = 1 .. Len(Objects) + 1
          /\ Objects'[Len(Objects) + 1] = built + 1
          /\ \A i \in DOMAIN Objects : Objects'[i] = Objects[i]
          /\ DOMAIN Objects = 1 .. Len(Objects) /\ Len(Objects) \in Nat
          /\ \A i \in DOMAIN Objects : Objects[i] \in Nat
      BY <3>1
    <3>3. TypeOK'
      BY <2>7, <3>1, <3>2 DEF Construct, numbers, IInv, TypeOK
    <3>4. Excluded'
      BY <2>7 DEF Construct, IInv, Excluded
    <3>5. Listed'
      BY <3>1, <3>2 DEF IInv, Listed
    <3>6. \A u \in Threads : Own(u)' = Own(u) /\ pc'[u] = pc[u] /\ obj'[u] = obj[u]
                             /\ held'[u] = held[u]
      BY <2>7 DEF Construct, Own
    <3>7. \A u \in Threads : pc[u] # "pop"
      BY <2>7 DEF Construct, IInv, Excluded, Critical
    <3>8. \A u \in Threads : \A o \in Own(u) : o \in Nat
      BY DEF Own, IInv, TypeOK, Apart
    <3>9. Apart'
      BY <3>1, <3>2, <3>6, <3>7, <3>8 DEF IInv, Apart
    <3> QED
      BY <3>3, <3>4, <3>5, <3>9 DEF IInv
  <2>8. ASSUME NEW t \in Threads, IncreaseDone(t) PROVE IInv'
    <3>1. TypeOK'
      BY <2>8 DEF IncreaseDone, At, IInv, TypeOK, PC
    <3> QED
      BY <2>8, <3>1, MoveKeeps DEF IncreaseDone, At, IInv, Excluded, Critical
  <2>9. ASSUME NEW t \in Threads, CreateFront(t) PROVE IInv'
    <3>1. Objects # <<>> => Head(Objects) \in Nat
      BY DEF IInv, TypeOK
    <3>2. TypeOK'
      BY <2>9, <3>1 DEF CreateFront, At, numbers, IInv, TypeOK, PC
    <3>3. Excluded'
      BY <2>9 DEF CreateFront, At, IInv, TypeOK, Excluded, Critical
    <3>4. \A u \in Threads : Own(u)' = Own(u)
      BY <2>9 DEF CreateFront, At, Own, IInv, TypeOK
    <3>5. Apart'
      BY <2>9, <3>4 DEF CreateFront, At, numbers, IInv, TypeOK, Apart
    <3> QED
      BY <2>9, <3>2, <3>3, <3>5 DEF CreateFront, numbers, IInv, Listed
  <2>10. ASSUME NEW t \in Threads, CreatePop(t) PROVE IInv'
    <3>1. /\ pc[t] = "pop" /\ pc' = [pc EXCEPT ![t] = "idle"] /\ holder = t
          /\ holder' = None
          /\ held' = [held EXCEPT ![t] = held[t] \union ({obj[t]} \ {None})]
          /\ obj' = [obj EXCEPT ![t] = None]
          /\ Objects' = IF Objects = <<>> THEN Objects ELSE Tail(Objects)
          /\ built' = built
      BY <2>10 DEF CreatePop, At, Release, IInv, Excluded, Critical
    <3>2. Excluded'
      BY <3>1 DEF IInv, TypeOK, Excluded, Critical
    <3>3. CASE Objects = <<>>
      <4>1. obj[t] = None
        BY <3>1, <3>3 DEF IInv, Apart
      <4>2. held' = held
        BY <3>1, <4>1 DEF IInv, TypeOK
      <4>3. TypeOK'
        BY <2>10, <3>1, <3>3, <4>2 DEF CreatePop, At, numbers, IInv, TypeOK, PC
      <4>4. \A u \in Threads : Own(u)' = Own(u)
        BY <3>1, <4>2 DEF Own, IInv, TypeOK
      <4>5. Listed' /\ Apart'
        BY <3>1, <3>3, <4>2, <4>4 DEF IInv, TypeOK, Listed, Apart
      <4> QED
        BY <3>2, <4>3, <4>5 DEF IInv
    <3>4. CASE Objects # <<>>
      <4> DEFINE o == Objects[1]
      <4>1. /\ o \in Nat /\ obj[t] = o /\ o <= built
            /\ Objects' = Tail(Objects) /\ Objects' \in Seq(Nat)
            /\ DOMAIN Objects = 1 .. Len(Objects) /\ 1 \in DOMAIN Objects
        BY <3>1, <3>4 DEF IInv, TypeOK, Apart, Listed
      <4>2. /\ DOMAIN Objects' = 1 .. Len(Objects) - 1 /\ Len(Objects) \in Nat
            /\ \A i \in DOMAIN Objects' : Objects'[i] = Objects[i + 1]
                                          /\ i + 1 \in DOMAIN Objects
        <5>1. Objects \in Seq(Nat)
          BY DEF IInv, TypeOK
        <5>2. Objects' = Tail(Objects)
          BY <4>1
        <5> QED
          BY <3>4, <5>1, <5>2
      <4>3. held' = [held EXCEPT ![t] = held[t] \union {o}] /\ o # None
        BY <3>1, <4>1
      <4>4. TypeOK'
        BY <2>10, <3>1, <4>1, <4>3 DEF CreatePop, At, numbers, IInv, TypeOK, PC
      <4>5. \A i \in DOMAIN Objects' : Objects'[i] # o
        BY <4>1, <4>2 DEF IInv, Listed
      <4>6. Listed'
        BY <3>1, <4>1, <4>2 DEF IInv, Listed
      <4>7. \A u \in Threads : Own(u)' = IF u = t THEN Own(u) \union {o} ELSE Own(u)
        BY <3>1, <4>3 DEF Own, IInv, TypeOK
      <4>8. \A u \in Threads : o \notin Own(u)
        BY <4>1 DEF IInv, Apart
      <4>9. ASSUME NEW u \in Threads
            PROVE  /\ pc'[u] # "pop"
                   /\ pc'[u] \in {"destroy", "push"} => obj'[u] \in Nat /\ obj'[u] \notin held'[u]
        BY <3>1 DEF IInv, TypeOK, Excluded, Critical, Apart
      <4>10. Apart'
        <5> SUFFICES ASSUME NEW u \in Threads
                     PROVE  /\ \A v \in Threads : u # v => Own(u)' \intersect Own(v)' = {}
                            /\ \A x \in Own(u)' : x <= built'
                            /\ \A i \in DOMAIN Objects' : Objects'[i] \notin Own(u)'
          BY <4>9 DEF Apart
        <5>1. \A v \in Threads : u # v => Own(u) \intersect Own(v) = {}
          BY DEF IInv, Apart
        <5>2. \A v \in Threads : u # v => Own(u)' \intersect Own(v)' = {}
          BY <4>7, <4>8, <5>1
        <5>3. \A x \in Own(u)' : x <= built'
          BY <3>1, <4>1, <4>7 DEF IInv, Apart
        <5>4. \A i \in DOMAIN Objects' : Objects'[i] \notin Own(u)'
          BY <4>2, <4>5, <4>7 DEF IInv, Apart
        <5> QED
          BY <5>2, <5>3, <5>4
      <4> QED
        BY <3>2, <4>4, <4>6, <4>10 DEF IInv
    <3> QED
      BY <3>3, <3>4
  <2>11. ASSUME NEW t \in Threads, NEW o \in held[t], DestroyCall(t, o) PROVE IInv'
    <3>1. /\ pc[t] = "idle" /\ pc' = [pc EXCEPT ![t] = "destroy"]
          /\ obj' = [obj EXCEPT ![t] = o]
          /\ held' = [held EXCEPT ![t] = held[t] \ {o}]
          /\ UNCHANGED <<Objects, numbers, built, holder, grow, made>> /\ o \in Nat
      BY <2>11 DEF DestroyCall, At, IInv, TypeOK
    <3>2. TypeOK'
      BY <3>1 DEF numbers, IInv, TypeOK, PC
    <3>3. Excluded'
      BY <3>1 DEF IInv, TypeOK, Excluded, Critical
    <3>4. \A u \in Threads : Own(u)' = Own(u)
      BY <3>1 DEF Own, IInv, TypeOK
    <3>5. Apart'
      BY <3>1, <3>4 DEF IInv, TypeOK, Apart
    <3> QED
      BY <3>1, <3>2, <3>3, <3>5 DEF IInv, Listed
  <2>12. ASSUME NEW t \in Threads, DestroyLock(t) PROVE IInv'
    <3>1. TypeOK'
      BY <2>12 DEF DestroyLock, Acquire, At, numbers, IInv, TypeOK, PC
    <3> QED
      BY <2>12, <3>1, MoveKeeps
      DEF DestroyLock, Acquire, At, numbers, IInv, Excluded, Critical
  <2>13. ASSUME NEW t \in Threads, DestroyPush(t) PROVE IInv'
    <3> DEFINE o == obj[t]
    <3>1. /\ pc[t] = "push" /\ pc' = [pc EXCEPT ![t] = "idle"] /\ holder = t
          /\ holder' = None /\ Objects' = <<o>> \o Objects
          /\ obj' = [obj EXCEPT ![t] = None]
          /\ UNCHANGED <<numbers, built, grow, made, held>>
      BY <2>13 DEF DestroyPush, At, Release, IInv, Excluded, Critical
    <3>2. o \in Nat /\ o \notin held[t] /\ o \in Own(t) /\ o <= built
      BY <3>1 DEF IInv, Apart, Own
    <3>3. Objects \in Seq(Nat)
      BY DEF IInv, TypeOK
    <3>4. /\ Objects' \in Seq(Nat)
          /\ DOMAIN Objects' = 1 .. Len(Objects) + 1 /\ Len(Objects) \in Nat
          /\ Objects'[1] = o /\ DOMAIN Objects = 1 .. Len(Objects)
          /\ \A i \in DOMAIN Objects' : i # 1 => Objects'[i] = Objects[i - 1]
                                                 /\ i - 1 \in DOMAIN Objects
      <4> HIDE DEF o
      <4> QED
        BY <3>1, <3>2, <3>3
    <3>5. TypeOK'
      BY <3>1, <3>4 DEF numbers, IInv, TypeOK, PC
    <3>6. Excluded'
      BY <3>1 DEF IInv, TypeOK, Excluded, Critical
    <3>7. \A i \in DOMAIN Objects : Objects[i] # o
      BY <3>2 DEF IInv, Apart
    <3>8. Listed'
      <4> HIDE DEF o
      <4>1. built' = built
        BY <3>1
      <4>2. \A i, j \in DOMAIN Objects' : Objects'[i] = Objects'[j] => i = j
        <5> SUFFICES ASSUME NEW i \in DOMAIN Objects', NEW j \in DOMAIN Objects',
                            Objects'[i] = Objects'[j]
                     PROVE  i = j
          OBVIOUS
        <5>1. CASE i = 1 \/ j = 1
          BY <3>4, <3>7, <5>1
        <5>2. CASE i # 1 /\ j # 1
          BY <3>4, <5>2 DEF IInv, Listed
        <5> QED
          BY <5>1, <5>2
      <4>3. \A i \in DOMAIN Objects' : Objects'[i] <= built
        BY <3>2, <3>4 DEF IInv, Listed
      <4> QED
        BY <4>1, <4>2, <4>3 DEF Listed
    <3>9. \A u \in Threads : Own(u)' = IF u = t THEN held[t] ELSE Own(u)
      BY <3>1 DEF Own, IInv, TypeOK
    <3>10. \A u \in Threads : Own(u)' \subseteq Own(u) /\ o \notin Own(u)'
      BY <3>2, <3>9 DEF IInv, Apart, Own
    <3>11. Apart'
      <4> SUFFICES ASSUME NEW u \in Threads
                   PROVE  /\ \A v \in Threads : u # v => Own(u)' \intersect Own(v)' = {}
                          /\ \A x \in Own(u)' : x <= built'
                          /\ \A i \in DOMAIN Objects' : Objects'[i] \notin Own(u)'
                          /\ pc'[u] \in {"destroy", "push"}
                               => obj'[u] \in Nat /\ obj'[u] \notin held'[u]
                          /\ pc'[u] # "pop"
        BY DEF Apart
      <4>1. \A v \in Threads : u # v => Own(u)' \intersect Own(v)' = {}
        BY <3>10 DEF IInv, Apart
      <4>2. \A x \in Own(u)' : x <= built'
        BY <3>1, <3>10 DEF IInv, Apart
      <4>3. \A i \in DOMAIN Objects' : Objects'[i] \notin Own(u)'
        BY <3>4, <3>10 DEF IInv, Apart
      <4>4. /\ pc'[u] \in {"destroy", "push"} => obj'[u] \in Nat /\ obj'[u] \notin held'[u]
            /\ pc'[u] # "pop"
        BY <3>1 DEF IInv, TypeOK, Excluded, Critical, Apart
      <4> QED
        BY <4>1, <4>2, <4>3, <4>4
    <3> QED
      BY <3>5, <3>6, <3>8, <3>11 DEF IInv
  <2>14. ASSUME NEW n \in MaxNums, SetMaxNum(n) PROVE IInv'
    <3>1. TypeOK'
      BY <2>14 DEF SetMaxNum, IInv, TypeOK
    <3> QED
      BY <2>14, <3>1 DEF SetMaxNum, IInv, Excluded, Listed, Apart, Own
  <2>15. ASSUME NEW n \in IncNums, SetIncNum(n) PROVE IInv'
    <3>1. TypeOK'
      BY <2>15 DEF SetIncNum, IInv, TypeOK
    <3> QED
      BY <2>15, <3>1 DEF SetIncNum, IInv, Excluded, Listed, Apart, Own
  <2> QED
    BY <2>0, <2>1, <2>2, <2>3, <2>4, <2>5, <2>6, <2>7, <2>8, <2>9, <2>10, <2>11,
       <2>12, <2>13, <2>14, <2>15 DEF Next, Thread
<1> QED
  BY <1>1, <1>2, PTL DEF Spec

(* With a locking mutex every reachable state of the pool is typed.        *)
THEOREM ObjectPoolTyping == Locking => (Spec => []TypeOK)
<1>1. IInv => TypeOK
  BY DEF IInv
<1> QED
  BY <1>1, ObjectPoolInductive, PTL

(* With a locking mutex no object is ever given to two threads, nor given  *)
(* away while it is in the free list (objectpool.h:52-108).                *)
THEOREM ObjectsAreNotShared == Locking => (Spec => []NoSharing)
<1>1. IInv => NoSharing
  BY DEF IInv, Apart, Own, NoSharing, Range
<1> QED
  BY <1>1, ObjectPoolInductive, PTL

-----------------------------------------------------------------------------
(* What the pool counts.  Only the thread that has the mutex grows it, from *)
(* an empty list, by one object at least and not beyond the maximum.       *)
NumbersInv ==
  /\ iCurrNum <= iMaxNum
  /\ iIncNum = 0 => iCurrNum = iMaxNum /\ MaxNums = {}
  /\ \A t \in Threads : pc[t] \in {"allocate", "construct"} =>
       grow[t] >= 1 /\ iCurrNum + grow[t] <= iMaxNum
  /\ \A t \in Threads : pc[t] = "construct" =>
       made[t] <= grow[t] /\ built = iCurrNum + made[t] /\ Len(Objects) = made[t]
  /\ ~Growing => built = iCurrNum
  /\ \A t \in Threads : pc[t] \in {"increase", "allocate"} => Objects = <<>>
  /\ \A t \in Threads : pc[t] \in {"front", "pop"} => Objects # <<>>

(* Every object is somewhere, and a thread has one in hand only inside.    *)
Listing(o) == \E i \in DOMAIN Objects : Objects[i] = o

Placed ==
  /\ \A i \in DOMAIN Objects : Objects[i] >= 1
  /\ \A t \in Threads : \A o \in Own(t) : o >= 1
  /\ \A o \in 1 .. built : Listing(o) \/ \E t \in Threads : o \in Own(t)
  /\ \A t \in Threads : pc[t] \notin {"pop", "destroy", "push"} => obj[t] = None

CInv == NumbersInv /\ Placed

(* The numbers and places add up to the property.                          *)
LEMMA PlacesSuffice == IInv /\ CInv => ObjectsConserved
<1> SUFFICES ASSUME IInv, CInv PROVE ObjectsConserved
  OBVIOUS
<1> USE ObjectPoolAssumption
<1>1. DOMAIN Objects = 1 .. Len(Objects)
  BY DEF IInv, TypeOK
<1>2. \A i, j \in 1 .. Len(Objects) : Objects[i] = Objects[j] => i = j
  BY <1>1 DEF IInv, Listed
<1>3. \A t \in Threads : pc[t] = "pop" => Objects # <<>> /\ obj[t] = Head(Objects)
  BY DEF IInv, Apart, CInv, NumbersInv
<1>4. ASSUME NEW t \in Threads, pc[t] # "pop"
      PROVE  InHand(t) = Own(t)
  <2>1. CASE pc[t] \in {"destroy", "push"}
    BY <2>1 DEF InHand, Own, IInv, Apart
  <2>2. CASE pc[t] \notin {"destroy", "push"}
    BY <1>4, <2>2 DEF InHand, Own, CInv, Placed
  <2> QED
    BY <2>1, <2>2
<1>5. ASSUME NEW t \in Threads, pc[t] = "pop"
      PROVE  /\ InHand(t) = Own(t) \union {Objects[1]}
             /\ 1 \in DOMAIN Objects /\ Objects[1] \in Nat
  <2>1. Objects # <<>> /\ Objects \in Seq(Nat)
    BY <1>3, <1>5 DEF IInv, TypeOK
  <2>2. 1 \in DOMAIN Objects /\ Objects[1] \in Nat /\ Head(Objects) = Objects[1]
    BY <2>1
  <2>3. obj[t] = Objects[1]
    BY <1>3, <1>5, <2>2
  <2> QED
    BY <1>5, <2>2, <2>3 DEF InHand, Own
<1>6. \A t \in Threads : pc[t] # "pop" => InHand(t) \intersect Range(Objects) = {}
  BY <1>4 DEF IInv, Apart, Range
<1>7. Range(Objects) \union UNION {InHand(t) : t \in Threads} = 1 .. built
  <2>1. \A i \in DOMAIN Objects : Objects[i] \in 1 .. built
    BY <1>1 DEF IInv, TypeOK, Listed, CInv, Placed
  <2>2. \A t \in Threads : \A o \in Own(t) : o \in Nat
    BY DEF Own, IInv, TypeOK, Apart
  <2>3. \A t \in Threads : Own(t) \subseteq 1 .. built
    BY <2>2 DEF IInv, TypeOK, Apart, CInv, Placed
  <2>4. \A t \in Threads : Own(t) \subseteq InHand(t)
    BY <1>4, <1>5
  <2>5. \A t \in Threads : InHand(t) \subseteq 1 .. built
    BY <1>4, <1>5, <2>1, <2>3
  <2>6. Range(Objects) \subseteq 1 .. built
    BY <2>1 DEF Range
  <2>7. ASSUME NEW o \in 1 .. built
        PROVE  o \in Range(Objects) \/ \E t \in Threads : o \in InHand(t)
    BY <2>4 DEF CInv, Placed, Listing, Range
  <2> QED
    BY <2>5, <2>6, <2>7
<1>8. /\ ~Growing => built = iCurrNum
      /\ iCurrNum <= iMaxNum
  BY DEF CInv, NumbersInv
<1>9. built <= iMaxNum
  <2>1. CASE ~Growing
    BY <1>8, <2>1
  <2>2. ASSUME NEW t \in Threads, pc[t] = "construct" PROVE built <= iMaxNum
    BY <2>2 DEF CInv, NumbersInv, IInv, TypeOK
  <2> QED
    BY <2>1, <2>2 DEF Growing
<1> QED
  BY <1>2, <1>3, <1>6, <1>7, <1>8, <1>9 DEF ObjectsConserved

(* A step that leaves every object where it is.                            *)
LEMMA PlacesKept ==
  ASSUME Placed, UNCHANGED <<Objects, built>>,
         \A t \in Threads : Own(t)' = Own(t),
         \A t \in Threads : pc'[t] \notin {"pop", "destroy", "push"} => obj'[t] = None
  PROVE  Placed'
<1>1. \A o : Listing(o)' = Listing(o)
  BY DEF Listing
<1> QED
  BY <1>1 DEF Placed

(* The objects of every pool are conserved: Create, Destroy and the chunks *)
(* of IncreaseObjects lose none, and the counters agree with them.         *)
THEOREM ConservedInductive == Locking => (Spec => []CInv)
<1> USE ObjectPoolAssumption
<1>1. Init => CInv
  <2> SUFFICES ASSUME Init PROVE CInv
    OBVIOUS
  <2>1. NumbersInv
    BY DEF Init, NumbersInv, Growing
  <2>2. Placed
    BY DEF Init, Placed, Own, Listing
  <2> QED
    BY <2>1, <2>2 DEF CInv
<1>2. IInv /\ IInv' /\ CInv /\ [Next]_vars => CInv'
  <2> SUFFICES ASSUME IInv, IInv', CInv, [Next]_vars PROVE CInv'
    OBVIOUS
  <2>0. Locking /\ TypeOK /\ Excluded /\ Listed /\ Apart /\ NumbersInv /\ Placed
    BY DEF IInv, CInv
  <2>a. ASSUME NEW t \in Threads, pc[t] \in Critical
        PROVE  holder = t /\ \A u \in Threads : u # t => pc[u] \notin Critical
    BY <2>0, <2>a DEF Excluded, TypeOK
  <2>1. ASSUME NEW t \in Threads, CreateCall(t)
        PROVE  CInv'
    <3>1. /\ pc[t] = "idle" /\ \A u \in Threads : pc'[u] = IF u = t THEN "create" ELSE pc[u]
          /\ UNCHANGED <<Objects, iCurrNum, iMaxNum, iIncNum, built, grow, made, obj, held>>
      BY <2>0, <2>1 DEF CreateCall, At, numbers, TypeOK
    <3>2. NumbersInv'
      BY <2>0, <3>1 DEF NumbersInv, Growing
    <3>3. \A u \in Threads : Own(u)' = Own(u)
      BY <2>0, <3>1 DEF Own
    <3>4. Placed'
      BY <2>0, <3>1, <3>3, PlacesKept DEF Placed
    <3> QED
      BY <3>2, <3>4 DEF CInv
  <2>2. ASSUME NEW t \in Threads, CreateLock(t)
        PROVE  CInv'
    <3>1. /\ pc[t] = "create" /\ \A u \in Threads : pc'[u] = IF u = t THEN "test" ELSE pc[u]
          /\ UNCHANGED <<Objects, iCurrNum, iMaxNum, iIncNum, built, grow, made, obj, held>>
      BY <2>0, <2>2 DEF CreateLock, At, numbers, TypeOK
    <3>2. NumbersInv'
      BY <2>0, <3>1 DEF NumbersInv, Growing
    <3>3. \A u \in Threads : Own(u)' = Own(u)
      BY <2>0, <3>1 DEF Own
    <3>4. Placed'
      BY <2>0, <3>1, <3>3, PlacesKept DEF Placed
    <3> QED
      BY <3>2, <3>4 DEF CInv
  <2>3. ASSUME NEW t \in Threads, CreateTest(t)
        PROVE  CInv'
    <3>1. /\ pc[t] = "test" /\ \A u \in Threads : pc'[u] = IF u = t THEN (IF Objects = <<>> THEN "increase" ELSE "front") ELSE pc[u]
          /\ UNCHANGED <<Objects, iCurrNum, iMaxNum, iIncNum, built, grow, made, obj, held>>
      BY <2>0, <2>3 DEF CreateTest, At, numbers, TypeOK
    <3>2. NumbersInv'
      BY <2>0, <3>1, <2>a DEF NumbersInv, Growing, Critical
    <3>3. \A u \in Threads : Own(u)' = Own(u)
      BY <2>0, <3>1 DEF Own
    <3>4. Placed'
      BY <2>0, <3>1, <3>3, PlacesKept DEF Placed
    <3> QED
      BY <3>2, <3>4 DEF CInv
  <2>4. ASSUME NEW t \in Threads, IncreaseFull(t) \/ AllocateFails(t)
        PROVE  CInv'
    <3>1. /\ pc[t] \in {"increase", "allocate"}
          /\ \A u \in Threads : pc'[u] = IF u = t THEN "idle" ELSE pc[u]
          /\ UNCHANGED <<Objects, iCurrNum, iMaxNum, iIncNum, built, grow, made, obj, held>>
      BY <2>0, <2>4 DEF IncreaseFull, AllocateFails, At, numbers, TypeOK
    <3>2. NumbersInv'
      BY <2>0, <3>1 DEF NumbersInv, Growing
    <3>3. \A u \in Threads : Own(u)' = Own(u)
      BY <2>0, <3>1 DEF Own
    <3>4. Placed'
      BY <2>0, <3>1, <3>3, PlacesKept DEF Placed
    <3> QED
      BY <3>2, <3>4 DEF CInv
  <2>5. ASSUME NEW t \in Threads, Allocate(t)
        PROVE  CInv'
    <3>1. /\ pc[t] = "allocate" /\ \A u \in Threads : pc'[u] = IF u = t THEN "construct" ELSE pc[u]
          /\ \A u \in Threads : made'[u] = IF u = t THEN 0 ELSE made[u]
          /\ UNCHANGED <<Objects, iCurrNum, iMaxNum, iIncNum, built, grow, obj, held>>
      BY <2>0, <2>5 DEF Allocate, At, numbers, TypeOK
    <3>2. NumbersInv'
      BY <2>0, <3>1, <2>a DEF NumbersInv, Growing, Critical, TypeOK
    <3>3. \A u \in Threads : Own(u)' = Own(u)
      BY <2>0, <3>1 DEF Own
    <3>4. Placed'
      BY <2>0, <3>1, <3>3, PlacesKept DEF Placed
    <3> QED
      BY <3>2, <3>4 DEF CInv
  <2>6. ASSUME NEW t \in Threads, IncreaseDone(t)
        PROVE  CInv'
    <3>1. /\ pc[t] = "construct" /\ \A u \in Threads : pc'[u] = IF u = t THEN "front" ELSE pc[u]
          /\ made[t] = grow[t] /\ iCurrNum' = iCurrNum + grow[t]
          /\ UNCHANGED <<Objects, iMaxNum, iIncNum, built, grow, made, obj, held>>
      BY <2>0, <2>6 DEF IncreaseDone, At, TypeOK
    <3>2. NumbersInv'
      BY <2>0, <3>1, <2>a DEF NumbersInv, Growing, Critical, TypeOK
    <3>3. \A u \in Threads : Own(u)' = Own(u)
      BY <2>0, <3>1 DEF Own
    <3>4. Placed'
      BY <2>0, <3>1, <3>3, PlacesKept DEF Placed
    <3> QED
      BY <3>2, <3>4 DEF CInv
  <2>7. ASSUME NEW t \in Threads, DestroyLock(t)
        PROVE  CInv'
    <3>1. /\ pc[t] = "destroy" /\ \A u \in Threads : pc'[u] = IF u = t THEN "push" ELSE pc[u]
          /\ UNCHANGED <<Objects, iCurrNum, iMaxNum, iIncNum, built, grow, made, obj, held>>
      BY <2>0, <2>7 DEF DestroyLock, At, numbers, TypeOK
    <3>2. NumbersInv'
      BY <2>0, <3>1 DEF NumbersInv, Growing
    <3>3. \A u \in Threads : Own(u)' = Own(u)
      BY <2>0, <3>1 DEF Own
    <3>4. Placed'
      BY <2>0, <3>1, <3>3, PlacesKept DEF Placed
    <3> QED
      BY <3>2, <3>4 DEF CInv
  <2>8. ASSUME NEW n \in MaxNums, SetMaxNum(n)
        PROVE  CInv'
    <3>1. /\ \A u \in Threads : pc[u] = "idle"
          /\ iMaxNum' = IF iCurrNum >= n THEN iCurrNum ELSE n
          /\ UNCHANGED <<Objects, iCurrNum, iIncNum, built, pc, grow, made, obj, held>>
      BY <2>0, <2>8 DEF SetMaxNum, Quiet, TypeOK
    <3>2. NumbersInv'
      BY <2>0, <3>1 DEF NumbersInv, Growing, TypeOK
    <3>3. \A u \in Threads : Own(u)' = Own(u)
      BY <2>0, <3>1 DEF Own
    <3>4. Placed'
      BY <2>0, <3>1, <3>3, PlacesKept DEF Placed
    <3> QED
      BY <3>2, <3>4 DEF CInv
  <2>9. ASSUME NEW n \in IncNums, SetIncNum(n)
        PROVE  CInv'
    <3>1. /\ \A u \in Threads : pc[u] = "idle"
          /\ iIncNum' = n
          /\ UNCHANGED <<Objects, iCurrNum, iMaxNum, built, pc, grow, made, obj, held>>
      BY <2>0, <2>9 DEF SetIncNum, Quiet, TypeOK
    <3>2. NumbersInv'
      BY <2>0, <3>1 DEF NumbersInv, Growing
    <3>3. \A u \in Threads : Own(u)' = Own(u)
      BY <2>0, <3>1 DEF Own
    <3>4. Placed'
      BY <2>0, <3>1, <3>3, PlacesKept DEF Placed
    <3> QED
      BY <3>2, <3>4 DEF CInv
  <2>10. CASE UNCHANGED vars
    <3>1. NumbersInv'
      BY <2>0, <2>10 DEF vars, NumbersInv, Growing
    <3>2. \A u \in Threads : Own(u)' = Own(u)
      BY <2>10 DEF vars, Own
    <3>3. Placed'
      BY <2>0, <2>10, <3>2, PlacesKept DEF vars, Placed
    <3> QED
      BY <3>1, <3>3 DEF CInv
  <2>11. ASSUME NEW t \in Threads, IncreaseClip(t)
         PROVE  CInv'
    <3>1. /\ pc[t] = "increase" /\ \A u \in Threads : pc'[u] = IF u = t THEN "allocate" ELSE pc[u]
          /\ iCurrNum < iMaxNum
          /\ \A u \in Threads : u # t => grow'[u] = grow[u]
          /\ grow'[t] = IF iCurrNum + iIncNum > iMaxNum THEN iMaxNum - iCurrNum ELSE iIncNum
          /\ UNCHANGED <<Objects, iCurrNum, iMaxNum, iIncNum, built, made, obj, held>>
      BY <2>0, <2>11 DEF IncreaseClip, At, numbers, TypeOK
    <3>2. iIncNum >= 1 /\ iIncNum \in Nat /\ iCurrNum \in Nat /\ iMaxNum \in Nat
      BY <2>0, <3>1 DEF NumbersInv, TypeOK
    <3>3. grow'[t] >= 1 /\ iCurrNum + grow'[t] <= iMaxNum
      BY <3>1, <3>2
    <3>4. NumbersInv'
      BY <2>0, <2>a, <3>1, <3>3 DEF NumbersInv, Growing, Critical
    <3>5. \A u \in Threads : Own(u)' = Own(u)
      BY <2>0, <3>1 DEF Own
    <3>6. Placed'
      BY <2>0, <3>1, <3>5, PlacesKept DEF Placed
    <3> QED
      BY <3>4, <3>6 DEF CInv
  <2>12. ASSUME NEW t \in Threads, Construct(t)
         PROVE  CInv'
    <3>1. /\ pc[t] = "construct" /\ made[t] < grow[t]
          /\ built' = built + 1 /\ built \in Nat
          /\ Objects' = Append(Objects, built + 1) /\ Objects \in Seq(Nat)
          /\ \A u \in Threads : made'[u] = IF u = t THEN made[u] + 1 ELSE made[u]
          /\ UNCHANGED <<iCurrNum, iMaxNum, iIncNum, pc, grow, obj, held>>
      BY <2>0, <2>12 DEF Construct, numbers, TypeOK
    <3>2. /\ DOMAIN Objects = 1 .. Len(Objects) /\ Len(Objects) \in Nat
          /\ DOMAIN Objects' = 1 .. Len(Objects) + 1 /\ Len(Objects') = Len(Objects) + 1
          /\ Objects'[Len(Objects) + 1] = built + 1
          /\ \A i \in DOMAIN Objects : Objects'[i] = Objects[i]
      BY <3>1
    <3>3. \A u \in Threads : u # t => pc[u] \notin Critical
      BY <2>a, <3>1 DEF Critical
    <3>4. made[t] \in Nat /\ grow[t] \in Nat /\ iCurrNum \in Nat
      BY <2>0 DEF TypeOK
    <3>5. made'[t] <= grow'[t] /\ built' = iCurrNum + made'[t] /\ Len(Objects') = made'[t]
      <4>1. built = iCurrNum + made[t] /\ Len(Objects) = made[t]
        BY <2>0, <3>1 DEF NumbersInv
      <4>2. made'[t] = made[t] + 1 /\ grow'[t] = grow[t]
        BY <3>1
      <4> QED
        BY SMTT(30), <3>1, <3>2, <3>4, <4>1, <4>2
    <3>6. NumbersInv'
      BY <2>0, <3>1, <3>3, <3>5 DEF NumbersInv, Growing, Critical
    <3>7. \A u \in Threads : Own(u)' = Own(u)
      BY <3>1 DEF Own
    <3>8. \A o \in 1 .. built' : o = built + 1 \/ o \in 1 .. built
      BY <3>1
    <3>9. \A o : Listing(o) => Listing(o)'
      BY <3>1, <3>2 DEF Listing
    <3>10. \A i \in DOMAIN Objects' : Objects'[i] >= 1
      BY <2>0, <3>1, <3>2 DEF Placed
    <3>11. \A o \in 1 .. built' : Listing(o)' \/ \E u \in Threads : o \in Own(u)'
      <4> SUFFICES ASSUME NEW o \in 1 .. built'
                   PROVE  Listing(o)' \/ \E u \in Threads : o \in Own(u)'
        OBVIOUS
      <4>1. CASE o = built + 1
        BY <3>1, <3>2, <4>1 DEF Listing
      <4>2. CASE o \in 1 .. built
        BY <2>0, <3>7, <3>9, <4>2 DEF Placed
      <4> QED
        BY <3>8, <4>1, <4>2
    <3>12. Placed'
      BY <2>0, <3>1, <3>7, <3>10, <3>11 DEF Placed
    <3> QED
      BY <3>6, <3>12 DEF CInv
  <2>13. ASSUME NEW t \in Threads, CreateFront(t)
         PROVE  CInv'
    <3>1. /\ pc[t] = "front" /\ \A u \in Threads : pc'[u] = IF u = t THEN "pop" ELSE pc[u]
          /\ \A u \in Threads : u # t => obj'[u] = obj[u]
          /\ UNCHANGED <<Objects, iCurrNum, iMaxNum, iIncNum, built, grow, made, held>>
      BY <2>0, <2>13 DEF CreateFront, At, numbers, TypeOK
    <3>2. NumbersInv'
      BY <2>0, <3>1 DEF NumbersInv, Growing
    <3>3. \A u \in Threads : Own(u)' = Own(u)
      BY <2>0, <3>1 DEF Own
    <3>4. Placed'
      BY <2>0, <3>1, <3>3, PlacesKept DEF Placed
    <3> QED
      BY <3>2, <3>4 DEF CInv
  <2>14. ASSUME NEW t \in Threads, CreatePop(t)
         PROVE  CInv'
    <3> DEFINE o == Objects[1]
    <3>1. /\ pc[t] = "pop" /\ \A u \in Threads : pc'[u] = IF u = t THEN "idle" ELSE pc[u]
          /\ Objects # <<>> /\ Objects' = Tail(Objects) /\ Objects \in Seq(Nat)
          /\ UNCHANGED <<iCurrNum, iMaxNum, iIncNum, built, grow, made>>
      BY <2>0, <2>14 DEF CreatePop, At, numbers, TypeOK, NumbersInv
    <3>2. /\ DOMAIN Objects = 1 .. Len(Objects) /\ Len(Objects) \in Nat
          /\ 1 \in DOMAIN Objects /\ o \in Nat /\ Head(Objects) = o
          /\ DOMAIN Objects' = 1 .. Len(Objects) - 1
          /\ \A i \in DOMAIN Objects' : Objects'[i] = Objects[i + 1] /\ i + 1 \in DOMAIN Objects
          /\ \A i \in DOMAIN Objects : i # 1 => i - 1 \in DOMAIN Objects' /\ Objects'[i - 1] = Objects[i]
      BY <3>1
    <3>3. obj[t] = o /\ o # None
      BY <2>0, <3>1, <3>2 DEF Apart
    <3>4. /\ \A u \in Threads : obj'[u] = IF u = t THEN None ELSE obj[u]
          /\ \A u \in Threads : held'[u] = IF u = t THEN held[u] \union {o} ELSE held[u]
      BY <2>0, <2>14, <3>3 DEF CreatePop, TypeOK
    <3>5. \A u \in Threads : u # t => pc[u] \notin Critical
      BY <2>a, <3>1 DEF Critical
    <3>6. NumbersInv'
      BY <2>0, <3>1, <3>5 DEF NumbersInv, Growing, Critical
    <3>7. \A u \in Threads : Own(u)' = IF u = t THEN Own(u) \union {o} ELSE Own(u)
      BY <3>1, <3>4 DEF Own
    <3>8. o >= 1
      BY <2>0, <3>2 DEF Placed
    <3>9. \A x : Listing(x) => Listing(x)' \/ x = o
      BY <3>2 DEF Listing
    <3>10. \A i \in DOMAIN Objects' : Objects'[i] >= 1
      BY <2>0, <3>2 DEF Placed
    <3>11. \A u \in Threads : \A x \in Own(u)' : x >= 1
      BY <2>0, <3>7, <3>8 DEF Placed
    <3>12. \A x \in 1 .. built' : Listing(x)' \/ \E u \in Threads : x \in Own(u)'
      BY <2>0, <3>1, <3>7, <3>9 DEF Placed
    <3>13. \A u \in Threads : pc'[u] \notin {"pop", "destroy", "push"} => obj'[u] = None
      BY <2>0, <3>1, <3>4 DEF Placed
    <3> QED
      BY <3>6, <3>10, <3>11, <3>12, <3>13 DEF CInv, Placed
  <2>15. ASSUME NEW t \in Threads, NEW o \in held[t], DestroyCall(t, o)
         PROVE  CInv'
    <3>1. /\ pc[t] = "idle" /\ \A u \in Threads : pc'[u] = IF u = t THEN "destroy" ELSE pc[u]
          /\ \A u \in Threads : obj'[u] = IF u = t THEN o ELSE obj[u]
          /\ \A u \in Threads : held'[u] = IF u = t THEN held[u] \ {o} ELSE held[u]
          /\ UNCHANGED <<Objects, iCurrNum, iMaxNum, iIncNum, built, grow, made>>
      BY <2>0, <2>15 DEF DestroyCall, At, numbers, TypeOK
    <3>2. NumbersInv'
      BY <2>0, <3>1 DEF NumbersInv, Growing
    <3>3. \A u \in Threads : Own(u)' = Own(u)
      BY <2>0, <3>1 DEF Own
    <3>4. Placed'
      BY <2>0, <3>1, <3>3, PlacesKept DEF Placed
    <3> QED
      BY <3>2, <3>4 DEF CInv
  <2>16. ASSUME NEW t \in Threads, DestroyPush(t)
         PROVE  CInv'
    <3>1. /\ pc[t] = "push" /\ \A u \in Threads : pc'[u] = IF u = t THEN "idle" ELSE pc[u]
          /\ Objects' = <<obj[t]>> \o Objects /\ Objects \in Seq(Nat)
          /\ \A u \in Threads : obj'[u] = IF u = t THEN None ELSE obj[u]
          /\ UNCHANGED <<iCurrNum, iMaxNum, iIncNum, built, grow, made, held>>
      BY <2>0, <2>16 DEF DestroyPush, At, numbers, TypeOK
    <3>2. obj[t] \in Nat /\ obj[t] \in Own(t) /\ obj[t] >= 1
      BY <2>0, <3>1 DEF Apart, Own, Placed
    <3>3. ASSUME NEW o \in Nat, o = obj[t]
          PROVE  /\ DOMAIN Objects' = 1 .. Len(Objects) + 1 /\ Len(Objects) \in Nat
                 /\ Objects'[1] = o /\ DOMAIN Objects = 1 .. Len(Objects)
                 /\ \A i \in DOMAIN Objects' : i # 1 => Objects'[i] = Objects[i - 1]
                                                        /\ i - 1 \in DOMAIN Objects
                 /\ \A i \in DOMAIN Objects : i + 1 \in DOMAIN Objects' /\ Objects'[i + 1] = Objects[i]
      <4>1. Objects' = <<o>> \o Objects
        BY <3>1, <3>3
      <4> QED
        BY SMTT(30), <3>1, <4>1
    <3>4. /\ DOMAIN Objects' = 1 .. Len(Objects) + 1 /\ Len(Objects) \in Nat
          /\ Objects'[1] = obj[t] /\ DOMAIN Objects = 1 .. Len(Objects)
          /\ \A i \in DOMAIN Objects' : i # 1 => Objects'[i] = Objects[i - 1]
                                                 /\ i - 1 \in DOMAIN Objects
          /\ \A i \in DOMAIN Objects : i + 1 \in DOMAIN Objects' /\ Objects'[i + 1] = Objects[i]
      BY <3>2, <3>3
    <3>5. Objects' # <<>>
      BY <3>4
    <3>6. \A u \in Threads : u # t => pc[u] \notin Critical
      BY <2>a, <3>1 DEF Critical
    <3>7. NumbersInv'
      BY <2>0, <3>1, <3>6 DEF NumbersInv, Growing, Critical
    <3>8. \A u \in Threads : Own(u)' = IF u = t THEN Own(u) \ {obj[t]} ELSE Own(u)
      BY <2>0, <3>1 DEF Own, Apart
    <3>9. \A x : Listing(x) => Listing(x)'
      BY <3>4 DEF Listing
    <3>10. \A x : x = obj[t] => Listing(x)'
      BY <3>4 DEF Listing
    <3>11. \A i \in DOMAIN Objects' : Objects'[i] >= 1
      BY <2>0, <3>2, <3>4 DEF Placed
    <3>12. \A u \in Threads : \A x \in Own(u)' : x >= 1
      BY <2>0, <3>8 DEF Placed
    <3>13. \A x \in 1 .. built' : Listing(x)' \/ \E u \in Threads : x \in Own(u)'
      BY <2>0, <3>1, <3>8, <3>9, <3>10 DEF Placed
    <3>14. \A u \in Threads : pc'[u] \notin {"pop", "destroy", "push"} => obj'[u] = None
      BY <2>0, <3>1 DEF Placed
    <3> QED
      BY <3>7, <3>11, <3>12, <3>13, <3>14 DEF CInv, Placed
  <2> QED
    BY <2>1, <2>2, <2>3, <2>4, <2>5, <2>6, <2>7, <2>8, <2>9, <2>10, <2>11,
       <2>12, <2>13, <2>14, <2>15, <2>16 DEF Next, Thread
<1> QED
  BY <1>1, <1>2, ObjectPoolInductive, PTL DEF Spec

(* With a locking mutex no pool loses or makes up an object, exceeds its   *)
(* maximum or miscounts, whatever the threads, the sizes and the setters.  *)
THEOREM ObjectsAreConserved == Locking => (Spec => []ObjectsConserved)
<1>1. IInv /\ CInv => ObjectsConserved
  BY PlacesSuffice
<1> QED
  BY <1>1, ObjectPoolInductive, ConservedInductive, PTL

====
