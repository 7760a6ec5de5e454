---- MODULE TimerProofs ----
(* Invariants of Timer for every set of clients, delays and bounds.        *)
EXTENDS Timer, TLAPS

(* A node that is taken has less than a millisecond left (timer.h:134).    *)
TakenInTime == pc = "popped" => hand.due - now < MS

TInv == TypeOK /\ PhaseInv /\ SleepsOnEarliest /\ TakenInTime

(* The length of a delay is a natural number of clock units.               *)
LEMMA Span == ASSUME NEW ms \in Nat PROVE milliseconds(ms) \in Nat
<1>1. \A m, n \in Nat : m * n \in Nat
  OBVIOUS
<1> QED
  BY <1>1, TimerAssumption DEF milliseconds

(* What a registration pushes and what it asks for.                        *)
Asks(node, times) ==
  /\ node.id = tm_id
  /\ node.kind # "repeated" => node.left = 0
  /\ IF node.kind = "period" THEN times = Always ELSE times = node.left + 1

(* A registration is typed: the id it draws is fresh and in range, and its *)
(* due time is an instant.                                                 *)
LEMMA Registered ==
  ASSUME TInv, NEW c \in Clients, Client(c)
  PROVE  \/ Push(c)
         \/ \E id \in ids : cancel(c, id)
         \/ \E node \in TimerNode, times \in Nat \union {Always} :
              Register(c, node, times) /\ Asks(node, times)
<1> USE TimerAssumption DEF TInv, TypeOK, TimerNode, Ids
<1>1. CASE \E ms \in Delays : run_after(c, ms, FALSE)
  <2>1. PICK ms \in Delays : run_after(c, ms, FALSE)
    BY <1>1
  <2> DEFINE node == [id |-> tm_id, due |-> now + milliseconds(ms), period |-> milliseconds(ms),
                      left |-> 0, kind |-> "once"]
  <2>2. tm_id < MaxId /\ Register(c, node, 1)
    BY <2>1 DEF run_after, Register, emplace
  <2>3. milliseconds(ms) \in Nat
    BY Span
  <2>4. tm_id \in Ids /\ now + milliseconds(ms) \in Nat /\ milliseconds(ms) \in Nat /\ 0 \in Nat
    BY <2>2, <2>3
  <2>5. node \in TimerNode
    BY <2>4
  <2>6. Asks(node, 1) /\ 1 \in Nat \union {Always}
    BY <2>4 DEF Asks
  <2> QED
    BY <2>2, <2>5, <2>6
<1>2. CASE \E ms \in Periods : run_after(c, ms, TRUE)
  <2>1. PICK ms \in Periods : run_after(c, ms, TRUE)
    BY <1>2
  <2> DEFINE node == [id |-> tm_id, due |-> now + milliseconds(ms), period |-> milliseconds(ms),
                      left |-> 0, kind |-> "period"]
  <2>2. tm_id < MaxId /\ Register(c, node, Always)
    BY <2>1 DEF run_after, Register, emplace
  <2>3. milliseconds(ms) \in Nat
    BY Span
  <2>4. tm_id \in Ids /\ now + milliseconds(ms) \in Nat /\ milliseconds(ms) \in Nat /\ 0 \in Nat
    BY <2>2, <2>3
  <2>5. node \in TimerNode
    BY <2>4
  <2>6. Asks(node, Always) /\ Always \in Nat \union {Always}
    BY <2>4 DEF Asks
  <2> QED
    BY <2>2, <2>5, <2>6
<1>3. CASE \E time_point \in Instants : run_at(c, time_point)
  <2>1. PICK time_point \in Instants : run_at(c, time_point)
    BY <1>3
  <2> DEFINE node == [id |-> tm_id, due |-> time_point, period |-> 0,
                      left |-> 0, kind |-> "once"]
  <2>2. tm_id < MaxId /\ Register(c, node, 1)
    BY <2>1 DEF run_at, Register, emplace
  <2>3. tm_id \in Ids /\ time_point \in Nat /\ 0 \in Nat /\ 0 \in Nat
    BY <2>2
  <2>4. node \in TimerNode
    BY <2>3
  <2>5. Asks(node, 1) /\ 1 \in Nat \union {Always}
    BY <2>3 DEF Asks
  <2> QED
    BY <2>2, <2>4, <2>5
<1>4. CASE \E ms \in Delays, n \in Repeats : run_repeated(c, ms, n)
  <2>1. PICK ms \in Delays, n \in Repeats : run_repeated(c, ms, n)
    BY <1>4
  <2> DEFINE node == [id |-> tm_id, due |-> now + milliseconds(ms), period |-> milliseconds(ms),
                      left |-> n, kind |-> "repeated"]
  <2>2. tm_id < MaxId /\ Register(c, node, n + 1)
    BY <2>1 DEF run_repeated, Register, emplace
  <2>3. milliseconds(ms) \in Nat
    BY Span
  <2>4. tm_id \in Ids /\ now + milliseconds(ms) \in Nat /\ milliseconds(ms) \in Nat /\ n \in Nat
    BY <2>2, <2>3
  <2>5. node \in TimerNode
    BY <2>4
  <2>6. Asks(node, n + 1) /\ n + 1 \in Nat \union {Always}
    BY <2>4 DEF Asks
  <2> QED
    BY <2>2, <2>5, <2>6
<1>5. CASE Push(c) \/ \E id \in ids : cancel(c, id)
  BY <1>5
<1> QED
  BY <1>1, <1>2, <1>3, <1>4, <1>5 DEF Client

(* The inductive invariant.  The ticker sleeps on the earliest node because *)
(* a push wakes it, commits to an open pool because the owner joins it     *)
(* before the pool is stopped, and has a node in hand that stays due       *)
(* because the clock only advances.                                        *)
THEOREM TimerInductive == Spec => []TInv
<1> USE TimerAssumption, NodeAssumption
    DEF TInv, TypeOK, PhaseInv, SleepsOnEarliest, TakenInTime,
        TickerPC, OwnerPC, TickerHoldsMutex, Pool!STypeOK, pool, table, ticker
<1>1. Init => TInv
  BY DEF Init, Pool!SInit
<1>2. TInv /\ [Next]_vars => TInv'
  <2> SUFFICES ASSUME TInv, [Next]_vars PROVE TInv'
    OBVIOUS
  <2>1. ASSUME NEW c \in Clients, NEW node \in TimerNode,
               NEW times \in Nat \union {Always}, Register(c, node, times)
        PROVE  TInv'
    BY <2>1 DEF Register, emplace, Idle, Ids
  <2>2. ASSUME NEW c \in Clients, Push(c)
        PROVE  TInv'
    BY <2>2 DEF Push
  <2>3. ASSUME NEW c \in Clients, NEW id \in ids, cancel(c, id)
        PROVE  TInv'
    BY <2>3 DEF cancel, erase
  <2>4. ASSUME TickerLoop
        PROVE  TInv'
    BY <2>4 DEF TickerLoop
  <2>5. ASSUME TickerLock
        PROVE  TInv'
    BY <2>5 DEF TickerLock
  <2>6. ASSUME TickerEmpty
        PROVE  TInv'
    BY <2>6 DEF TickerEmpty
  <2>7. ASSUME NEW s \in queue, TickerNotYet(s)
        PROVE  TInv'
    <3>1. s \in TimerNode /\ s # NoNode
      OBVIOUS
    <3>2. s.due \in Nat
      BY <3>1 DEF TimerNode
    <3>3. until' \in Nat
      BY <2>7, <3>2 DEF TickerNotYet
    <3>4. TypeOK'
      BY <2>7, <3>1, <3>3 DEF TickerNotYet
    <3> QED
      BY <2>7, <3>1, <3>4 DEF TickerNotYet, Top
  <2>8. ASSUME NEW s \in queue, TickerPop(s)
        PROVE  TInv'
    BY <2>8 DEF TickerPop
  <2>9. ASSUME TickerSleep
        PROVE  TInv'
    BY <2>9 DEF TickerSleep
  <2>10. ASSUME TickerTimeout
        PROVE  TInv'
    BY <2>10 DEF TickerTimeout
  <2>11. ASSUME TickerWakesSpuriously
        PROVE  TInv'
    BY <2>11 DEF TickerWakesSpuriously
  <2>12. ASSUME TickerDrop
        PROVE  TInv'
    BY <2>12 DEF TickerDrop
  <2>13. ASSUME TickerKeep
        PROVE  TInv'
    <3>1. hand \in TimerNode
      BY <2>13 DEF TickerKeep, is_key_exist
    <3>2. Recurs(hand) => Again(hand) \in TimerNode
      <4>1. /\ hand.left \in Nat /\ hand.period \in Nat
            /\ hand.kind \in {"once", "period", "repeated"}
        BY <3>1 DEF TimerNode
      <4>2. now + hand.period \in Nat
        BY <4>1
      <4>3. Recurs(hand) /\ hand.kind = "repeated" => hand.left - 1 \in Nat
        BY <4>1 DEF Recurs
      <4>4. Recurs(hand) =>
              (IF hand.kind = "repeated" THEN hand.left - 1 ELSE hand.left) \in Nat
        BY <4>1, <4>3
      <4> QED
        BY <3>1, <4>2, <4>4 DEF Again, TimerNode
    <3> QED
      BY <2>13, <3>1, <3>2 DEF TickerKeep, is_key_exist
  <2>14. ASSUME TickerCommit
        PROVE  TInv'
    <3>1. hand \in TimerNode
      BY <2>14 DEF TickerCommit
    <3>2. hand.id \in Ids /\ fired[hand.id] + 1 \in Nat \ {0}
      BY <3>1 DEF TimerNode
    <3>3. <<hand.id, fired[hand.id] + 1>> \in Firing
      BY <3>2 DEF Firing
    <3>4. backlog' \in Seq(Firing)
      BY <2>14, <3>3 DEF TickerCommit, Pool!Submit
    <3>5. fired' \in [Ids -> Nat]
      BY <2>14, <3>2 DEF TickerCommit
    <3> QED
      BY <2>14, <3>4, <3>5 DEF TickerCommit, Pool!Submit
  <2>15. ASSUME Run
        PROVE  TInv'
    BY <2>15 DEF Run
  <2>16. ASSUME Stop
        PROVE  TInv'
    BY <2>16 DEF Stop, Idle
  <2>17. ASSUME NotifyAll
        PROVE  TInv'
    BY <2>17 DEF NotifyAll
  <2>18. ASSUME JoinTicker
        PROVE  TInv'
    BY <2>18 DEF JoinTicker
  <2>19. ASSUME StopPool
        PROVE  TInv'
    BY <2>19 DEF StopPool, Pool!Close
  <2>20. ASSUME JoinPool
        PROVE  TInv'
    BY <2>20 DEF JoinPool
  <2>21. ASSUME PoolStart
        PROVE  TInv'
    BY <2>21 DEF PoolStart, Pool!Start
  <2>22. ASSUME PoolFinish
        PROVE  TInv'
    BY <2>22 DEF PoolFinish, Pool!Finish
  <2>23. ASSUME Tick
        PROVE  TInv'
    <3>1. now' = now + 1 /\ now' \in 0 .. MaxClock
      BY <2>23 DEF Tick
    <3>2. hand # NoNode => hand.due \in Nat
      BY DEF TimerNode
    <3>3. TakenInTime'
      BY <2>23, <3>1, <3>2 DEF Tick
    <3> QED
      BY <2>23, <3>1, <3>3 DEF Tick
  <2>24. CASE UNCHANGED vars
    BY <2>24 DEF vars
  <2> QED
    BY <2>1, <2>2, <2>3, <2>4, <2>5, <2>6, <2>7, <2>8, <2>9, <2>10, <2>11, <2>12, <2>13, <2>14, <2>15, <2>16, <2>17, <2>18, <2>19, <2>20, <2>21, <2>22, <2>23, <2>24, Registered
       DEF Next, Ticker, Owner
<1> HIDE DEF TInv
<1> QED
  BY <1>1, <1>2, PTL DEF Spec

(* A registration is noticed in time, whatever it interleaves with: the    *)
(* ticker never sleeps past the node that is due first (timer.h:128-136).  *)
THEOREM NeverOversleeps == Spec => []SleepsOnEarliest
<1>1. TInv => SleepsOnEarliest
  BY DEF TInv
<1> QED
  BY <1>1, TimerInductive, PTL

(* commit never throws out of the ticker thread: the destructor joins the  *)
(* ticker before the pool member is destroyed (timer.h:42-50, 160-168).    *)
THEOREM TickerNeverThrows == Spec => []CommitsToOpenPool
<1>1. TInv => CommitsToOpenPool
  BY DEF TInv, PhaseInv, CommitsToOpenPool
<1> QED
  BY <1>1, TimerInductive, PTL

(* Every reachable state of the timer is typed: tm_id, the due times and   *)
(* the counts of firings stay in range, whatever is registered.            *)
THEOREM TimerTyping == Spec => []TypeOK
<1>1. TInv => TypeOK
  BY DEF TInv
<1> QED
  BY <1>1, TimerInductive, PTL

(* An id that cancel has erased never comes back, and the one firing that  *)
(* may follow is the one the ticker had already let through.               *)
THEOREM CancelHolds == Spec => CancelIsFinal
<1> DEFINE Final ==
      \A id \in Issued :
        id \notin ids =>
          /\ id \notin ids'
          /\ fired'[id] # fired[id] => pc = "commit" /\ hand.id = id
          /\ ~(pc = "commit" /\ hand.id = id) => ~(pc' = "commit" /\ hand'.id = id)
<1>1. TInv /\ [Next]_vars => [Final]_vars
  <2> SUFFICES ASSUME TInv, Next PROVE Final
    BY DEF vars
  <2> SUFFICES ASSUME NEW id \in Issued, id \notin ids
               PROVE  /\ id \notin ids'
                      /\ fired'[id] # fired[id] => pc = "commit" /\ hand.id = id
                      /\ ~(pc = "commit" /\ hand.id = id)
                           => ~(pc' = "commit" /\ hand'.id = id)
    OBVIOUS
  <2> USE TimerAssumption DEF table, ticker, pool
  <2>1. ASSUME NEW c \in Clients, Client(c) PROVE Final
    <3>1. CASE Push(c) \/ \E i \in ids : cancel(c, i)
      BY <3>1 DEF Push, cancel, erase
    <3>2. ASSUME NEW node \in TimerNode, NEW times \in Nat \union {Always},
                 Register(c, node, times)
          PROVE  Final
      BY <3>2 DEF Register, emplace, Issued, TInv, TypeOK
    <3> QED
      BY <2>1, <3>1, <3>2, Registered
  <2>2. CASE Ticker \/ TickerWakesSpuriously
    <3>1. CASE TickerCommit
      <4>1. hand.id \in Ids
        BY <3>1 DEF TickerCommit, TInv, TypeOK, PhaseInv, TimerNode
      <4>2. fired'[id] # fired[id] => hand.id = id
        BY <3>1, <4>1 DEF TickerCommit, TInv, TypeOK
      <4> QED
        BY <3>1, <4>2 DEF TickerCommit
    <3>2. CASE ~TickerCommit
      BY <2>2, <3>2 DEF Ticker, TickerLoop, TickerLock, TickerEmpty, TickerSleep,
         TickerTimeout, TickerDrop, TickerKeep, is_key_exist, TickerNotYet, TickerPop,
         TickerWakesSpuriously
    <3> QED
      BY <3>1, <3>2
  <2>3. CASE Owner
    BY <2>3 DEF Owner, Run, Stop, NotifyAll, JoinTicker, StopPool, JoinPool
  <2>4. CASE PoolStart \/ PoolFinish \/ Tick
    BY <2>4 DEF PoolStart, PoolFinish, Tick
  <2> QED
    BY <2>1, <2>2, <2>3, <2>4 DEF Next
<1> QED
  BY <1>1, TimerInductive, PTL DEF Spec, CancelIsFinal

-----------------------------------------------------------------------------
(* The firings of one timer, without the choice Owed makes of its node:    *)
(* with the firings n still to come the count is never above what was      *)
(* asked for, and exact as long as the timer is not cancelled.             *)
Let(id) == IF pc = "commit" /\ hand.id = id THEN 1 ELSE 0

Settled(id, n) ==
  /\ fired[id] + n <= asked[id]
  /\ id \in ids => fired[id] + n = asked[id]

Accounts ==
  \A id \in Issued :
    /\ asked[id] = Always => (id \in ids => \E n \in Nodes : n.id = id)
    /\ asked[id] # Always =>
         /\ \A n \in Nodes : n.id = id => Settled(id, 1 + n.left + Let(id))
         /\ (\A n \in Nodes : n.id # id) => Settled(id, Let(id))

FInv == TInv /\ OneNodeEach /\ IssuedInv /\ Accounts

(* The nodes are nodes.                                                    *)
LEMMA NodesTyped == ASSUME TInv PROVE Nodes \subseteq TimerNode
BY DEF TInv, TypeOK, PhaseInv, Nodes

LEMMA OneNode ==
  ASSUME TInv, OneNodeEach
  PROVE  \A m, n \in Nodes : m.id = n.id => m = n
<1>1. \A n \in Nodes :
        \/ n \in queue
        \/ \E c \in Clients : n = pend[c] /\ pend[c] # NoNode
        \/ n = hand /\ pc = "popped"
  BY DEF Nodes
<1> QED
  BY <1>1 DEF OneNodeEach

LEMMA AccountsSuffice == FInv => FiringsAccounted
<1> SUFFICES ASSUME FInv PROVE FiringsAccounted
  OBVIOUS
<1>1. \A m, n \in Nodes : m.id = n.id => m = n
  BY OneNode DEF FInv
<1>2. ASSUME NEW id \in Issued, asked[id] # Always
      PROVE  Settled(id, Owed(id))
  <2>1. CASE \E n \in Nodes : n.id = id
    <3>1. PICK n \in Nodes : n.id = id
      BY <2>1
    <3>2. (CHOOSE m \in Nodes : m.id = id) = n
      BY <1>1, <3>1
    <3>3. Owed(id) = 1 + n.left + Let(id)
      BY <2>1, <3>2 DEF Owed, Let
    <3> QED
      BY <1>2, <3>1, <3>3 DEF FInv, Accounts
  <2>2. CASE \A n \in Nodes : n.id # id
    <3>1. Owed(id) = 0 + Let(id)
      BY <2>2 DEF Owed, Let
    <3>2. Owed(id) = Let(id)
      BY <3>1 DEF Let
    <3> QED
      BY <1>2, <2>2, <3>2 DEF FInv, Accounts
  <2> QED
    BY <2>1, <2>2
<1>3. ASSUME NEW id \in Issued, asked[id] = Always, id \in ids
      PROVE  \E n \in Nodes : n.id = id
  BY <1>3 DEF FInv, Accounts
<1> QED
  BY <1>1, <1>2, <1>3 DEF FiringsAccounted, Settled

(* A step that moves no node and commits nothing.                          *)
LEMMA Undisturbed ==
  ASSUME FInv,
         UNCHANGED <<tm_id, asked, fired, queue, pend>>, ids' \subseteq ids,
         \/ pc' = pc /\ hand' = hand
         \/ pc \notin {"popped", "commit"} /\ pc' \notin {"popped", "commit"}
  PROVE  OneNodeEach' /\ IssuedInv' /\ Accounts'
<1>1. Nodes' = Nodes
  BY DEF Nodes
<1>2. \A id \in Ids : Let(id)' = Let(id)
  BY DEF Let
<1>3. Issued' = Issued /\ Issued \subseteq Ids
  BY TimerAssumption DEF Issued, Ids, FInv, TInv, TypeOK
<1>4. OneNodeEach'
  BY DEF FInv, OneNodeEach
<1>5. IssuedInv'
  BY <1>1, <1>3 DEF FInv, IssuedInv
<1>6. Accounts'
  BY <1>1, <1>2, <1>3 DEF FInv, Accounts, Settled
<1> QED
  BY <1>4, <1>5, <1>6

(* The count of a timer that a step does not concern is what it was.       *)
LEMMA Unconcerned ==
  ASSUME FInv, NEW id \in Issued, id \in Issued',
         fired'[id] = fired[id], asked'[id] = asked[id], id \in ids' => id \in ids,
         Let(id)' = Let(id),
         \A n \in Nodes : n.id = id => n \in Nodes',
         \A n \in Nodes' : n.id = id => n \in Nodes
  PROVE  /\ asked'[id] = Always => (id \in ids' => \E n \in Nodes' : n.id = id)
         /\ asked'[id] # Always =>
              /\ \A n \in Nodes' : n.id = id => Settled(id, 1 + n.left + Let(id))'
              /\ (\A n \in Nodes' : n.id # id) => Settled(id, Let(id))'
BY DEF FInv, Accounts, Settled

(* The accounts of a timer are never overdrawn and, until it is cancelled, *)
(* never short: repeated timers fire as often as asked for, periodic ones  *)
(* stay in the queue, whatever registers, cancels and destroys meanwhile.  *)
THEOREM FiringsInductive == Spec => []FInv
<1> USE TimerAssumption, NodeAssumption
<1>1. Init => OneNodeEach /\ IssuedInv /\ Accounts
  BY DEF Init, OneNodeEach, IssuedInv, Accounts, Nodes, Issued, Ids
<1>2. FInv /\ TInv' /\ [Next]_vars => OneNodeEach' /\ IssuedInv' /\ Accounts'
  <2> SUFFICES ASSUME FInv, TInv', [Next]_vars
               PROVE  OneNodeEach' /\ IssuedInv' /\ Accounts'
    OBVIOUS
  <2> DEFINE Goal == OneNodeEach' /\ IssuedInv' /\ Accounts'
  <2>0. TInv /\ OneNodeEach /\ IssuedInv /\ Accounts
    BY DEF FInv
  <2>1. ASSUME TickerLoop
        PROVE  Goal
    BY <2>1, Undisturbed DEF TickerLoop, table, ticker
  <2>2. ASSUME TickerLock
        PROVE  Goal
    BY <2>2, Undisturbed DEF TickerLock, table, ticker
  <2>3. ASSUME TickerEmpty
        PROVE  Goal
    BY <2>3, Undisturbed DEF TickerEmpty, table, ticker
  <2>4. ASSUME NEW s \in queue, TickerNotYet(s)
        PROVE  Goal
    BY <2>4, Undisturbed DEF TickerNotYet, table, ticker
  <2>5. ASSUME TickerSleep
        PROVE  Goal
    BY <2>5, Undisturbed DEF TickerSleep, table, ticker
  <2>6. ASSUME TickerTimeout
        PROVE  Goal
    BY <2>6, Undisturbed DEF TickerTimeout, table, ticker
  <2>7. ASSUME TickerWakesSpuriously
        PROVE  Goal
    BY <2>7, Undisturbed DEF TickerWakesSpuriously, table, ticker
  <2>8. ASSUME Run
        PROVE  Goal
    BY <2>8, Undisturbed DEF Run, table, ticker
  <2>9. ASSUME Stop
        PROVE  Goal
    BY <2>9, Undisturbed DEF Stop, table, ticker
  <2>10. ASSUME NotifyAll
        PROVE  Goal
    BY <2>10, Undisturbed DEF NotifyAll, table, ticker
  <2>11. ASSUME JoinTicker
        PROVE  Goal
    BY <2>11, Undisturbed DEF JoinTicker, table, ticker
  <2>12. ASSUME StopPool
        PROVE  Goal
    BY <2>12, Undisturbed DEF StopPool, table, ticker
  <2>13. ASSUME JoinPool
        PROVE  Goal
    BY <2>13, Undisturbed DEF JoinPool, table, ticker
  <2>14. ASSUME PoolStart
        PROVE  Goal
    BY <2>14, Undisturbed DEF PoolStart, table, ticker
  <2>15. ASSUME PoolFinish
        PROVE  Goal
    BY <2>15, Undisturbed DEF PoolFinish, table, ticker
  <2>16. ASSUME Tick
        PROVE  Goal
    BY <2>16, Undisturbed DEF Tick, table, ticker
  <2>17. ASSUME NEW c \in Clients, NEW id \in ids, cancel(c, id)
        PROVE  Goal
    BY <2>17, Undisturbed DEF cancel, erase, table, ticker
  <2>18. ASSUME NEW c \in Clients, NEW node \in TimerNode,
                NEW times \in Nat \union {Always},
                Register(c, node, times), Asks(node, times)
         PROVE  Goal
    <3>1. /\ pend[c] = NoNode /\ pend' = [pend EXCEPT ![c] = node] /\ node # NoNode
          /\ tm_id < MaxId /\ tm_id' = tm_id + 1 /\ ids' = ids \union {tm_id}
          /\ asked' = [asked EXCEPT ![tm_id] = times]
          /\ UNCHANGED <<queue, pc, hand, fired>>
      BY <2>18 DEF Register, emplace, Idle, ticker
    <3>2. tm_id \in Ids /\ tm_id \notin Issued /\ Issued' = Issued \union {tm_id}
      BY <2>0, <3>1 DEF Issued, Ids, TInv, TypeOK
    <3>3. \A d \in Clients : pend'[d] = IF d = c THEN node ELSE pend[d]
      BY <2>0, <3>1 DEF TInv, TypeOK
    <3>4. Nodes' = Nodes \union {node}
      BY <3>1, <3>3 DEF Nodes
    <3>5. node.id = tm_id /\ \A n \in Nodes : n.id # tm_id
      BY <2>0, <2>18, <3>2 DEF Asks, IssuedInv
    <3>6. \A n \in queue : n \in Nodes
      BY DEF Nodes
    <3>7. \A d \in Clients : pend[d] # NoNode => pend[d] \in Nodes
      BY DEF Nodes
    <3>8. pc = "popped" => hand \in Nodes
      BY DEF Nodes
    <3>9. OneNodeEach'
      BY <2>0, <3>1, <3>3, <3>5, <3>6, <3>7, <3>8 DEF OneNodeEach
    <3>10. \A id \in Issued : asked'[id] = asked[id]
      BY <2>0, <3>1, <3>2 DEF TInv, TypeOK, Issued, Ids
    <3>11. asked'[tm_id] = times
      BY <2>0, <3>1, <3>2 DEF TInv, TypeOK
    <3>12. IssuedInv'
      <4>1. node.kind = "period" <=> times = Always
        BY <2>18 DEF Asks, TimerNode
      <4>2. node.kind # "repeated" => node.left = 0
        BY <2>18 DEF Asks
      <4>3. \A n \in Nodes' :
              /\ n.id \in Issued'
              /\ n.kind = "period" <=> asked'[n.id] = Always
              /\ n.kind # "repeated" => n.left = 0
        BY <2>0, <3>2, <3>4, <3>5, <3>10, <3>11, <4>1, <4>2 DEF IssuedInv
      <4> QED
        BY <2>0, <3>1, <3>2, <4>3 DEF IssuedInv
    <3>13. \A id \in Issued' : Let(id)' = Let(id)
      BY <3>1 DEF Let
    <3>14. \A id \in Ids : id = tm_id => Let(id)' = 0
      BY <2>0, <3>1, <3>2 DEF Let, IssuedInv
    <3>15. fired'[tm_id] = 0
      BY <2>0, <3>1, <3>2 DEF IssuedInv
    <3>16. Accounts'
      <4>1. ASSUME NEW id \in Issued
            PROVE  /\ asked'[id] = Always => (id \in ids' => \E n \in Nodes' : n.id = id)
                   /\ asked'[id] # Always =>
                        /\ \A n \in Nodes' : n.id = id => Settled(id, 1 + n.left + Let(id))'
                        /\ (\A n \in Nodes' : n.id # id) => Settled(id, Let(id))'
        BY <3>1, <3>2, <3>4, <3>5, <3>10, <3>13, Unconcerned
      <4>2. ASSUME NEW id \in Ids, id = tm_id, asked'[id] # Always
            PROVE  \A n \in Nodes' : n.id = id => Settled(id, 1 + n.left + Let(id))'
        <5>1. times = node.left + 1 /\ node.left \in Nat
          BY <2>18, <3>11, <4>2 DEF Asks, TimerNode
        <5>2. fired'[id] + (1 + node.left + 0) = asked'[id]
          BY <3>11, <3>15, <4>2, <5>1
        <5>3. Settled(id, 1 + node.left + Let(id))'
          BY <3>11, <3>14, <4>2, <5>1, <5>2 DEF Settled
        <5> QED
          BY <3>4, <3>5, <4>2, <5>3
      <4>3. \E n \in Nodes' : n.id = tm_id
        BY <3>4, <3>5
      <4> QED
        BY <3>2, <4>1, <4>2, <4>3 DEF Accounts
    <3> QED
      BY <3>9, <3>12, <3>16
  <2>19. ASSUME NEW c \in Clients, Push(c)
         PROVE  Goal
    <3>1. /\ pend[c] # NoNode /\ pend' = [pend EXCEPT ![c] = NoNode]
          /\ queue' = queue \union {pend[c]}
          /\ pc \notin {"popped"} /\ pc' \notin {"popped"}
          /\ pc' = "commit" <=> pc = "commit"
          /\ UNCHANGED <<tm_id, ids, asked, hand, fired>>
      BY <2>19 DEF Push, TickerHoldsMutex
    <3>2. \A d \in Clients : pend'[d] = IF d = c THEN NoNode ELSE pend[d]
      BY <2>0, <3>1 DEF TInv, TypeOK
    <3>3. Nodes' = Nodes
      BY <3>1, <3>2 DEF Nodes
    <3>4. OneNodeEach'
      BY <2>0, <3>1, <3>2 DEF OneNodeEach
    <3>5. Issued' = Issued
      BY <3>1 DEF Issued
    <3>6. IssuedInv'
      BY <2>0, <3>1, <3>3, <3>5 DEF IssuedInv
    <3>7. \A id \in Issued : Let(id)' = Let(id)
      BY <3>1 DEF Let
    <3>8. Accounts'
      BY <2>0, <3>1, <3>3, <3>5, <3>7 DEF Accounts, Settled
    <3> QED
      BY <3>4, <3>6, <3>8
  <2>20. ASSUME NEW s \in queue, TickerPop(s)
         PROVE  Goal
    <3>1. /\ pc = "top" /\ pc' = "popped" /\ hand' = s /\ queue' = queue \ {s}
          /\ UNCHANGED <<tm_id, ids, pend, asked, fired>>
      BY <2>20 DEF TickerPop, table
    <3>2. Nodes' = Nodes
      BY <3>1 DEF Nodes
    <3>3. OneNodeEach'
      BY <2>0, <3>1 DEF OneNodeEach
    <3>4. Issued' = Issued
      BY <3>1 DEF Issued
    <3>5. IssuedInv'
      BY <2>0, <3>1, <3>2, <3>4 DEF IssuedInv
    <3>6. \A id \in Issued : Let(id)' = Let(id)
      BY <3>1 DEF Let
    <3>7. Accounts'
      BY <2>0, <3>1, <3>2, <3>4, <3>6 DEF Accounts, Settled
    <3> QED
      BY <3>3, <3>5, <3>7
  <2>21. ASSUME TickerDrop
         PROVE  Goal
    <3>1. /\ pc = "popped" /\ pc' = "loop" /\ hand.id \notin ids
          /\ UNCHANGED <<tm_id, ids, pend, asked, queue, hand, fired>>
      BY <2>21 DEF TickerDrop, table, is_key_exist
    <3>2. hand \in Nodes /\ hand.id \in Issued
      BY <2>0, <3>1 DEF Nodes, IssuedInv
    <3>3. Nodes' = Nodes \ {hand}
      BY <2>0, <3>1 DEF Nodes, OneNodeEach
    <3>4. OneNodeEach'
      BY <2>0, <3>1 DEF OneNodeEach
    <3>5. Issued' = Issued
      BY <3>1 DEF Issued
    <3>6. IssuedInv'
      BY <2>0, <3>1, <3>3, <3>5 DEF IssuedInv
    <3>7. \A id \in Issued : Let(id)' = Let(id)
      BY <3>1 DEF Let
    <3>8. Accounts'
      <4>1. ASSUME NEW id \in Issued, id # hand.id
            PROVE  /\ asked'[id] = Always => (id \in ids' => \E n \in Nodes' : n.id = id)
                   /\ asked'[id] # Always =>
                        /\ \A n \in Nodes' : n.id = id => Settled(id, 1 + n.left + Let(id))'
                        /\ (\A n \in Nodes' : n.id # id) => Settled(id, Let(id))'
        BY <3>1, <3>3, <3>5, <3>7, <4>1, Unconcerned
      <4>2. \A n \in Nodes' : n.id # hand.id
        BY <2>0, <3>2, <3>3, OneNode
      <4>3. asked[hand.id] # Always => Settled(hand.id, Let(hand.id))'
        <5> SUFFICES ASSUME asked[hand.id] # Always
                     PROVE  Settled(hand.id, Let(hand.id))'
          OBVIOUS
        <5>1. Settled(hand.id, 1 + hand.left + Let(hand.id)) /\ Let(hand.id) = 0
          BY <2>0, <3>1, <3>2 DEF Accounts, Let
        <5>2. /\ hand.left \in Nat /\ fired[hand.id] \in Nat
              /\ asked[hand.id] \in Nat
          BY <2>0, <3>2, NodesTyped DEF TInv, TypeOK, TimerNode
        <5> QED
          BY <3>1, <3>2, <3>7, <5>1, <5>2 DEF Settled
      <4> QED
        BY <3>1, <3>5, <4>1, <4>2, <4>3 DEF Accounts
    <3> QED
      BY <3>4, <3>6, <3>8
  <2>22. ASSUME TickerKeep
         PROVE  Goal
    <3>1. /\ pc = "popped" /\ pc' = "commit" /\ hand.id \in ids
          /\ queue' = IF Recurs(hand) THEN queue \union {Again(hand)} ELSE queue
          /\ UNCHANGED <<tm_id, ids, pend, asked, hand, fired>>
      BY <2>22 DEF TickerKeep, table, is_key_exist
    <3>2. hand \in Nodes /\ hand.id \in Issued /\ hand \in TimerNode
      BY <2>0, <3>1, NodesTyped DEF Nodes, IssuedInv
    <3>3. Nodes' = (Nodes \ {hand}) \union (IF Recurs(hand) THEN {Again(hand)} ELSE {})
      BY <2>0, <3>1 DEF Nodes, OneNodeEach
    <3>4. /\ Again(hand).id = hand.id /\ Again(hand).kind = hand.kind
          /\ Again(hand).left = IF hand.kind = "repeated" THEN hand.left - 1 ELSE hand.left
      BY <3>2 DEF Again, TimerNode
    <3>5. OneNodeEach'
      BY <2>0, <3>1, <3>4 DEF OneNodeEach
    <3>6. Issued' = Issued
      BY <3>1 DEF Issued
    <3>7. IssuedInv'
      BY <2>0, <3>1, <3>2, <3>3, <3>4, <3>6 DEF IssuedInv
    <3>8. \A id \in Issued : id # hand.id => Let(id)' = Let(id)
      BY <3>1 DEF Let
    <3>9. Let(hand.id) = 0 /\ Let(hand.id)' = 1
      BY <3>1 DEF Let
    <3>10. ASSUME NEW id \in Issued, id # hand.id
           PROVE  /\ asked'[id] = Always => (id \in ids' => \E n \in Nodes' : n.id = id)
                  /\ asked'[id] # Always =>
                       /\ \A n \in Nodes' : n.id = id => Settled(id, 1 + n.left + Let(id))'
                       /\ (\A n \in Nodes' : n.id # id) => Settled(id, Let(id))'
      BY <3>1, <3>3, <3>4, <3>6, <3>8, <3>10, Unconcerned
    <3>11. \A n \in Nodes : n.id = hand.id => n = hand
      BY <2>0, <3>2, OneNode
    <3>12. ASSUME asked[hand.id] = Always PROVE \E n \in Nodes' : n.id = hand.id
      <4>1. Recurs(hand)
        BY <2>0, <3>2, <3>12 DEF IssuedInv, Recurs
      <4> QED
        BY <3>3, <3>4, <4>1
    <3>13. ASSUME asked[hand.id] # Always
           PROVE  /\ \A n \in Nodes' : n.id = hand.id => Settled(hand.id, 1 + n.left + Let(hand.id))'
                  /\ (\A n \in Nodes' : n.id # hand.id) => Settled(hand.id, Let(hand.id))'
      <4>1. Settled(hand.id, 1 + hand.left + Let(hand.id))
        BY <2>0, <3>2, <3>13 DEF Accounts
      <4>2. hand.left \in Nat /\ fired[hand.id] \in Nat /\ asked[hand.id] \in Nat
        BY <2>0, <3>2, <3>13 DEF TInv, TypeOK, TimerNode
      <4>3. hand.kind # "period" /\ hand.kind \in {"once", "period", "repeated"}
        BY <2>0, <3>2, <3>13 DEF IssuedInv, TimerNode
      <4>4. ASSUME Recurs(hand), NEW n \in Nodes', n.id = hand.id
            PROVE  Settled(hand.id, 1 + n.left + Let(hand.id))'
        <5>1. n = Again(hand) /\ n.left = hand.left - 1
          BY <3>3, <3>4, <3>11, <4>3, <4>4 DEF Recurs
        <5> QED
          BY <3>1, <3>9, <4>1, <4>2, <5>1 DEF Settled
      <4>5. ASSUME ~Recurs(hand)
            PROVE  Settled(hand.id, Let(hand.id))' /\ \A n \in Nodes' : n.id # hand.id
        <5>1. hand.left = 0
          BY <2>0, <3>2, <4>2, <4>3, <4>5 DEF Recurs, IssuedInv
        <5>2. Settled(hand.id, Let(hand.id))'
          BY <3>1, <3>9, <4>1, <4>2, <5>1 DEF Settled
        <5> QED
          BY <3>3, <3>11, <4>5, <5>2
      <4>6. Recurs(hand) => \E n \in Nodes' : n.id = hand.id
        BY <3>3, <3>4
      <4> QED
        BY <4>4, <4>5, <4>6
    <3>14. Accounts'
      BY <3>1, <3>6, <3>10, <3>12, <3>13 DEF Accounts
    <3> QED
      BY <3>5, <3>7, <3>14
  <2>23. ASSUME TickerCommit
         PROVE  Goal
    <3>1. /\ pc = "commit" /\ pc' = "loop"
          /\ fired' = [fired EXCEPT ![hand.id] = fired[hand.id] + 1]
          /\ UNCHANGED <<tm_id, ids, pend, asked, queue, hand>>
      BY <2>23 DEF TickerCommit, table
    <3>2. Nodes' = Nodes
      BY <3>1 DEF Nodes
    <3>3. OneNodeEach'
      BY <2>0, <3>1 DEF OneNodeEach
    <3>4. Issued' = Issued /\ hand.id \in Issued /\ Issued \subseteq Ids
      BY <2>0, <3>1 DEF Issued, IssuedInv, Ids, TInv, TypeOK
    <3>5. \A id \in Ids : fired'[id] = IF id = hand.id THEN fired[id] + 1 ELSE fired[id]
      BY <2>0, <3>1 DEF TInv, TypeOK
    <3>6. IssuedInv'
      BY <2>0, <3>1, <3>2, <3>4, <3>5 DEF IssuedInv
    <3>7. /\ \A id \in Issued : id # hand.id => Let(id)' = Let(id)
          /\ Let(hand.id) = 1 /\ Let(hand.id)' = 0
      BY <3>1 DEF Let
    <3>8. ASSUME NEW id \in Issued, id # hand.id
          PROVE  /\ asked'[id] = Always => (id \in ids' => \E n \in Nodes' : n.id = id)
                 /\ asked'[id] # Always =>
                      /\ \A n \in Nodes' : n.id = id => Settled(id, 1 + n.left + Let(id))'
                      /\ (\A n \in Nodes' : n.id # id) => Settled(id, Let(id))'
      BY <3>1, <3>2, <3>4, <3>5, <3>7, <3>8, Unconcerned
    <3>9. ASSUME asked[hand.id] # Always, NEW k \in Nat, Settled(hand.id, k + 1)
          PROVE  Settled(hand.id, k)'
      <4>1. fired[hand.id] \in Nat /\ asked[hand.id] \in Nat
        BY <2>0, <3>4, <3>9 DEF TInv, TypeOK
      <4> QED
        BY <3>1, <3>4, <3>5, <3>9, <4>1 DEF Settled
    <3>10. ASSUME asked[hand.id] # Always
           PROVE  /\ \A n \in Nodes' : n.id = hand.id => Settled(hand.id, 1 + n.left + Let(hand.id))'
                  /\ (\A n \in Nodes' : n.id # hand.id) => Settled(hand.id, Let(hand.id))'
      <4>1. ASSUME NEW n \in Nodes, n.id = hand.id
            PROVE  Settled(hand.id, 1 + n.left)'
        <5>1. Settled(hand.id, 1 + n.left + 1)
          BY <2>0, <3>4, <3>7, <3>10, <4>1 DEF Accounts
        <5>2. 1 + n.left \in Nat
          BY <2>0, NodesTyped DEF TimerNode
        <5> QED
          BY <3>9, <3>10, <5>1, <5>2
      <4>2. ASSUME \A n \in Nodes : n.id # hand.id
            PROVE  Settled(hand.id, 0)'
        <5>1. Settled(hand.id, 0 + 1)
          BY <2>0, <3>4, <3>7, <3>10, <4>2 DEF Accounts
        <5> QED
          BY <3>9, <3>10, <5>1
      <4>3. \A n \in Nodes : 1 + n.left + 0 = 1 + n.left
        BY <2>0, NodesTyped DEF TimerNode
      <4> QED
        BY <3>1, <3>2, <3>7, <4>1, <4>2, <4>3
    <3>11. Accounts'
      BY <2>0, <3>1, <3>2, <3>4, <3>8, <3>10 DEF Accounts
    <3> QED
      BY <3>3, <3>6, <3>11
  <2>24. CASE UNCHANGED vars
    BY <2>24, Undisturbed DEF vars, table, ticker
  <2> QED
    BY <2>0, <2>1, <2>2, <2>3, <2>4, <2>5, <2>6, <2>7, <2>8, <2>9, <2>10, <2>11, <2>12, <2>13, <2>14, <2>15, <2>16, <2>17, <2>18, <2>19, <2>20, <2>21, <2>22, <2>23, <2>24, Registered
       DEF Next, Ticker, Owner
<1> QED
  BY <1>1, <1>2, TimerInductive, PTL DEF Spec, FInv

(* Every firing is accounted for in every timer: for any clients, delays,  *)
(* periods, repetitions and instants, and through the destruction.         *)
THEOREM FiringsAreAccounted == Spec => []FiringsAccounted
  BY AccountsSuffice, FiringsInductive, PTL

-----------------------------------------------------------------------------
(* A node is not due before its next callback may come: what the ticker    *)
(* has let through and not committed yet counts as committed.              *)
Promised(n) ==
  /\ n.period = registered[n.id].period
  /\ n.due - (MS - 1) >= Earliest(n.id, fired[n.id] + Let(n.id) + 1)

CommitDue == pc = "commit" => now >= Earliest(hand.id, fired[hand.id] + 1)

PromiseInv ==
  /\ \A id \in Issued : registered[id] \in TimerNode
  /\ \A n \in Nodes : Promised(n)
  /\ CommitDue /\ NeverBeforeAsked

(* From one callback to the next it is a period, less what is truncated.   *)
LEMMA EarliestNext ==
  ASSUME NEW id, registered[id] \in TimerNode, NEW k \in Nat
  PROVE  /\ Earliest(id, k) \in Int
         /\ Earliest(id, 1) = registered[id].due - (MS - 1)
         /\ Earliest(id, k + 1) = Earliest(id, k) + registered[id].period - (MS - 1)
<1>1. PICK d \in Nat, p \in Nat, m \in Nat :
        d = registered[id].due /\ p = registered[id].period /\ m = MS - 1
  BY TimerAssumption DEF TimerNode
<1>2. \A j \in Int : Earliest(id, j) = d + (j - 1) * p - j * m
  BY <1>1 DEF Earliest
<1>3. \A j \in Nat : (j - 1) * p \in Int /\ j * m \in Int /\ j * p = (j - 1) * p + p
                    /\ (j + 1) * m = j * m + m
  OBVIOUS
<1>4. PICK x \in Int, y \in Int :
        x = (k - 1) * p /\ y = k * m /\ k * p = x + p /\ (k + 1) * m = y + m
  BY <1>3
<1>5. Earliest(id, k) = d + x - y
  BY <1>2, <1>4
<1>6. Earliest(id, k + 1) = d + (x + p) - (y + m)
  <2>1. (k + 1) - 1 = k /\ k + 1 \in Int
    OBVIOUS
  <2> QED
    BY <1>2, <1>4, <2>1
<1>7. Earliest(id, 1) = d - m
  <2>1. 1 - 1 = 0 /\ 0 * p = 0 /\ 1 * m = m /\ 1 \in Int
    OBVIOUS
  <2> QED
    BY <1>2, <2>1
<1> QED
  BY <1>1, <1>5, <1>6, <1>7

(* A step that makes no node and commits nothing keeps what was promised.  *)
LEMMA PromiseKept ==
  ASSUME FInv, TInv', PromiseInv, Nodes' \subseteq Nodes, now' >= now,
         UNCHANGED <<tm_id, fired, registered>>,
         \A id \in Issued : Let(id)' = Let(id),
         pc' = "commit" => pc = "commit" /\ hand' = hand
  PROVE  PromiseInv'
<1>0. TInv /\ OneNodeEach /\ IssuedInv
  BY DEF FInv
<1>1. now \in Nat /\ now' \in Nat /\ fired \in [Ids -> Nat] /\ Issued \subseteq Ids
  BY <1>0, TimerAssumption DEF TInv, TypeOK, Issued, Ids
<1>2. \A id, k : Earliest(id, k)' = Earliest(id, k)
  BY DEF Earliest
<1>a. Issued' = Issued /\ \A id \in Issued' : registered'[id] \in TimerNode
  BY DEF PromiseInv, Issued
<1>3. ASSUME NEW n \in Nodes' PROVE Promised(n)'
  <2>1. n \in Nodes /\ n.id \in Issued
    BY <1>0 DEF IssuedInv
  <2>2. PICK i, l, f : i = n.id /\ l = Let(i) /\ l = Let(i)' /\ f = fired[i] /\ f = fired'[i]
    BY <2>1
  <2>3. /\ n.period = registered[i].period
        /\ n.due - (MS - 1) >= Earliest(i, f + l + 1)
    BY <2>1, <2>2 DEF PromiseInv, Promised
  <2> QED
    BY <1>2, <2>2, <2>3 DEF Promised
<1>4. CommitDue'
  <2> SUFFICES ASSUME pc' = "commit"
               PROVE  now' >= Earliest(hand.id, fired[hand.id] + 1)'
    BY DEF CommitDue
  <2>1. PICK i \in Issued, f \in Nat :
          i = hand.id /\ i = hand'.id /\ f = fired[i] /\ f = fired'[i]
    BY <1>0, <1>1 DEF IssuedInv
  <2>2. registered[i] \in TimerNode /\ now >= Earliest(i, f + 1)
    BY <2>1 DEF PromiseInv, CommitDue
  <2>3. Earliest(i, f + 1) \in Int
    BY <2>2, EarliestNext
  <2>4. now' >= Earliest(i, f + 1)
    BY <1>1, <2>2, <2>3
  <2> QED
    BY <1>2, <2>1, <2>2, <2>4
<1>5. NeverBeforeAsked'
  <2> SUFFICES ASSUME NEW id \in Issued', fired'[id] > 0
               PROVE  now' >= Earliest(id, fired[id])'
    BY DEF NeverBeforeAsked
  <2>1. PICK f \in Nat : f = fired[id] /\ f = fired'[id] /\ id \in Issued
    BY <1>1, <1>a
  <2>2. now >= Earliest(id, f) /\ registered[id] \in TimerNode
    BY <2>1 DEF PromiseInv, NeverBeforeAsked
  <2>3. Earliest(id, f) \in Int
    BY <2>1, <2>2, EarliestNext
  <2>4. now' >= Earliest(id, f)
    BY <1>1, <2>2, <2>3
  <2> QED
    BY <1>2, <2>1, <2>4
<1> QED
  BY <1>a, <1>3, <1>4, <1>5 DEF PromiseInv

(* A registration promises what it asks for.                               *)
LEMMA PromiseMade ==
  ASSUME FInv, TInv', PromiseInv, NEW c \in Clients, NEW node \in TimerNode,
         NEW times \in Nat \union {Always}, Register(c, node, times), Asks(node, times)
  PROVE  PromiseInv'
<1> USE TimerAssumption, NodeAssumption
<1>0. TInv /\ OneNodeEach /\ IssuedInv
  BY DEF FInv
<1>1. /\ pend[c] = NoNode /\ pend' = [pend EXCEPT ![c] = node] /\ node # NoNode
      /\ tm_id < MaxId /\ tm_id' = tm_id + 1 /\ node.id = tm_id
      /\ registered' = [registered EXCEPT ![tm_id] = node]
      /\ UNCHANGED <<now, queue, pc, hand, fired>>
  BY DEF Register, emplace, Idle, ticker, Asks
<1>2. tm_id \in Ids /\ tm_id \notin Issued /\ Issued' = Issued \union {tm_id} /\ Issued \subseteq Ids
  BY <1>0, <1>1 DEF Issued, Ids, TInv, TypeOK
<1>3. \A id \in Ids : registered'[id] = IF id = tm_id THEN node ELSE registered[id]
  BY <1>0, <1>1 DEF TInv, TypeOK
<1>4. Nodes' = Nodes \union {node}
  <2>1. \A d \in Clients : pend'[d] = IF d = c THEN node ELSE pend[d]
    BY <1>0, <1>1 DEF TInv, TypeOK
  <2> QED
    BY <1>1, <2>1 DEF Nodes
<1>5. \A id \in Issued : \A k : Earliest(id, k)' = Earliest(id, k)
  BY <1>2, <1>3 DEF Earliest
<1>6. \A id \in Issued' : registered'[id] \in TimerNode
  BY <1>2, <1>3 DEF PromiseInv
<1>7. \A id : Let(id)' = Let(id)
  BY <1>1 DEF Let
<1>8. ASSUME NEW n \in Nodes PROVE Promised(n)'
  <2>1. PICK i, l, f :
          i \in Issued /\ i = n.id /\ l = Let(i) /\ l = Let(i)' /\ f = fired[i] /\ f = fired'[i]
    BY <1>0, <1>1, <1>7 DEF IssuedInv
  <2>2. /\ n.period = registered[i].period /\ registered'[i] = registered[i]
        /\ n.due - (MS - 1) >= Earliest(i, f + l + 1)
    BY <1>2, <1>3, <2>1 DEF PromiseInv, Promised
  <2> QED
    BY <1>5, <2>1, <2>2 DEF Promised
<1>9. Promised(node)'
  <2>1. PICK i \in Ids : i = node.id /\ i = tm_id /\ registered'[i] = node
    BY <1>1, <1>2, <1>3
  <2>2. Let(i)' = 0
    BY <1>0, <1>1, <1>2, <2>1 DEF Let, IssuedInv
  <2>3. fired'[i] = 0
    BY <1>0, <1>1, <1>2, <2>1 DEF IssuedInv
  <2>4. PICK d \in Nat, q \in Nat, m \in Nat : d = node.due /\ q = node.period /\ m = MS - 1
    BY DEF TimerNode
  <2>5. Earliest(i, 1)' = d - m
    <3>1. Earliest(i, 1)' = d + (1 - 1) * q - 1 * m
      BY <2>1, <2>4 DEF Earliest
    <3>2. (1 - 1) * q = 0 /\ 1 * m = m
      OBVIOUS
    <3> QED
      BY <3>1, <3>2
  <2>6. node.due - (MS - 1) >= Earliest(i, 1)'
    BY <2>4, <2>5
  <2>7. 0 + 0 + 1 = 1
    OBVIOUS
  <2> QED
    BY <2>1, <2>2, <2>3, <2>6, <2>7 DEF Promised
<1>10. CommitDue'
  <2> SUFFICES ASSUME pc' = "commit"
               PROVE  now' >= Earliest(hand.id, fired[hand.id] + 1)'
    BY DEF CommitDue
  <2>1. PICK i, f :
          i \in Issued /\ i = hand.id /\ i = hand'.id /\ f = fired[i] /\ f = fired'[i]
    BY <1>0, <1>1 DEF IssuedInv
  <2>2. now' >= Earliest(i, f + 1)
    BY <1>1, <2>1 DEF PromiseInv, CommitDue
  <2> QED
    BY <1>5, <2>1, <2>2
<1>11. NeverBeforeAsked'
  <2> SUFFICES ASSUME NEW id \in Issued', fired'[id] > 0
               PROVE  now' >= Earliest(id, fired[id])'
    BY DEF NeverBeforeAsked
  <2>1. PICK f : f = fired[id] /\ f = fired'[id]
    BY <1>1
  <2>2. id \in Issued
    BY <1>0, <1>1, <1>2 DEF IssuedInv
  <2>3. now' >= Earliest(id, f)
    BY <1>1, <2>1, <2>2 DEF PromiseInv, NeverBeforeAsked
  <2> QED
    BY <1>5, <2>1, <2>2, <2>3
<1> QED
  BY <1>4, <1>6, <1>8, <1>9, <1>10, <1>11 DEF PromiseInv

(* A node that is taken is due but for a part of a millisecond, and is put *)
(* back as due a period after that.                                        *)
LEMMA PromisePutBack ==
  ASSUME FInv, TInv', PromiseInv, TickerKeep
  PROVE  PromiseInv'
<1> USE TimerAssumption, NodeAssumption
<1>0. TInv /\ OneNodeEach /\ IssuedInv
  BY DEF FInv
<1>1. /\ pc = "popped" /\ pc' = "commit"
      /\ queue' = IF Recurs(hand) THEN queue \union {Again(hand)} ELSE queue
      /\ UNCHANGED <<now, tm_id, pend, registered, hand, fired>>
  BY DEF TickerKeep, table
<1>2. hand \in Nodes /\ hand.id \in Issued /\ hand \in TimerNode
  BY <1>0, <1>1, NodesTyped DEF Nodes, IssuedInv
<1>3. Issued' = Issued /\ Issued \subseteq Ids /\ fired \in [Ids -> Nat] /\ now \in Nat
  BY <1>0, <1>1 DEF TInv, TypeOK, Issued, Ids
<1>4. Nodes' = (Nodes \ {hand}) \union (IF Recurs(hand) THEN {Again(hand)} ELSE {})
  BY <1>0, <1>1 DEF Nodes, OneNodeEach
<1>5. \A id, k : Earliest(id, k)' = Earliest(id, k)
  BY <1>1 DEF Earliest
<1>6. PICK i \in Issued, f \in Nat, d \in Nat, q \in Nat, m \in Nat :
        /\ i = hand.id /\ i = hand'.id /\ f = fired[i] /\ f = fired'[i]
        /\ d = hand.due /\ q = hand.period /\ m = MS - 1
  BY <1>1, <1>2, <1>3 DEF TimerNode
<1>7. registered[i] \in TimerNode /\ registered[i].period = q /\ d - m >= Earliest(i, f + 1)
  <2>1. Let(i) = 0
    BY <1>1 DEF Let
  <2>2. Promised(hand)
    BY <1>2 DEF PromiseInv
  <2>3. d - m >= Earliest(i, f + 0 + 1) /\ f + 0 + 1 = f + 1
    BY <1>6, <2>1, <2>2 DEF Promised
  <2> QED
    BY <1>6, <2>2, <2>3 DEF Promised, PromiseInv
<1>8. PICK e \in Int : e = Earliest(i, f + 1) /\ Earliest(i, f + 1 + 1) = e + q - m
  <2>1. f + 1 \in Nat
    OBVIOUS
  <2> QED
    BY <1>6, <1>7, <2>1, EarliestNext
<1>9. now >= e
  <2>1. d - now < MS
    BY <1>0, <1>1, <1>6 DEF TInv, TakenInTime
  <2>2. now >= d - m
    BY <1>3, <1>6, <2>1
  <2> QED
    BY <1>3, <1>7, <1>8, <2>2
<1>10. CommitDue'
  BY <1>1, <1>5, <1>6, <1>8, <1>9 DEF CommitDue
<1>11. NeverBeforeAsked'
  <2>1. \A id \in Issued : fired'[id] = fired[id]
    BY <1>1
  <2> QED
    BY <1>1, <1>3, <1>5, <2>1 DEF PromiseInv, NeverBeforeAsked
<1>12. ASSUME NEW n \in Nodes', n \in Nodes \ {hand} PROVE Promised(n)'
  <2>1. n.id # i
    BY <1>0, <1>2, <1>6, <1>12, OneNode
  <2>2. PICK j, l, g : j = n.id /\ l = Let(j) /\ l = Let(j)' /\ g = fired[j] /\ g = fired'[j]
    BY <1>1, <1>6, <2>1 DEF Let
  <2>3. /\ n.period = registered[j].period /\ n.due - (MS - 1) >= Earliest(j, g + l + 1)
    BY <1>12, <2>2 DEF PromiseInv, Promised
  <2> QED
    BY <1>1, <1>5, <2>2, <2>3 DEF Promised
<1>13. ASSUME NEW n \in Nodes', n = Again(hand) PROVE Promised(n)'
  <2>1. /\ Again(hand).id = hand.id /\ Again(hand).period = hand.period
        /\ Again(hand).due = now + hand.period
    BY <1>2 DEF Again, TimerNode
  <2>2. n.id = i /\ n.period = q /\ n.due = now + q
    BY <1>6, <1>13, <2>1
  <2>3. Let(i)' = 1
    BY <1>1, <1>6 DEF Let
  <2>4. n.due - (MS - 1) >= e + q - m
    BY <1>3, <1>6, <1>9, <2>2
  <2> QED
    BY <1>1, <1>5, <1>6, <1>7, <1>8, <2>2, <2>3, <2>4 DEF Promised
<1>14. \A n \in Nodes' : Promised(n)'
  <2>1. ASSUME NEW n \in Nodes' PROVE n \in Nodes \ {hand} \/ n = Again(hand)
    BY <1>4
  <2> QED
    BY <1>12, <1>13, <2>1
<1> QED
  BY <1>1, <1>3, <1>10, <1>11, <1>14 DEF PromiseInv

(* The callback that is committed is the one that was let through.         *)
LEMMA PromiseCommitted ==
  ASSUME FInv, TInv', PromiseInv, TickerCommit
  PROVE  PromiseInv'
<1> USE TimerAssumption, NodeAssumption
<1>0. TInv /\ OneNodeEach /\ IssuedInv
  BY DEF FInv
<1>1. /\ pc = "commit" /\ pc' = "loop"
      /\ fired' = [fired EXCEPT ![hand.id] = fired[hand.id] + 1]
      /\ UNCHANGED <<now, tm_id, pend, registered, queue, hand>>
  BY DEF TickerCommit, table
<1>2. Nodes' = Nodes
  BY <1>1 DEF Nodes
<1>3. /\ Issued' = Issued /\ hand.id \in Issued /\ Issued \subseteq Ids
      /\ fired \in [Ids -> Nat]
  BY <1>0, <1>1 DEF Issued, IssuedInv, Ids, TInv, TypeOK
<1>4. \A id \in Ids : fired'[id] = IF id = hand.id THEN fired[id] + 1 ELSE fired[id]
  BY <1>3, <1>1
<1>5. \A id, k : Earliest(id, k)' = Earliest(id, k)
  BY <1>1 DEF Earliest
<1>6. \A id \in Ids : fired'[id] + Let(id)' + 1 = fired[id] + Let(id) + 1
  <2> TAKE id \in Ids
  <2>1. fired[id] \in Nat
    BY <1>3
  <2>2. CASE id = hand.id
    <3>1. Let(id) = 1 /\ Let(id)' = 0
      BY <1>1, <2>2 DEF Let
    <3> QED
      BY <1>4, <2>1, <2>2, <3>1
  <2>3. CASE id # hand.id
    <3>1. Let(id) = 0 /\ Let(id)' = 0
      BY <1>1, <2>3 DEF Let
    <3> QED
      BY <1>4, <2>1, <2>3, <3>1
  <2> QED
    BY <2>2, <2>3
<1>7. ASSUME NEW n \in Nodes PROVE Promised(n)'
  <2>1. PICK i, k : /\ i \in Ids /\ i = n.id /\ k = fired[i] + Let(i) + 1
                    /\ k = fired'[i] + Let(i)' + 1
    BY <1>0, <1>3, <1>6 DEF IssuedInv
  <2>2. n.period = registered[i].period /\ n.due - (MS - 1) >= Earliest(i, k)
    BY <2>1 DEF PromiseInv, Promised
  <2> QED
    BY <1>1, <1>5, <2>1, <2>2 DEF Promised
<1>8. CommitDue'
  BY <1>1 DEF CommitDue
<1>9. NeverBeforeAsked'
  <2> SUFFICES ASSUME NEW id \in Issued, fired'[id] > 0
               PROVE  now >= Earliest(id, fired'[id])
    BY <1>1, <1>3, <1>5 DEF NeverBeforeAsked
  <2>1. CASE id = hand.id
    BY <1>1, <1>3, <1>4, <2>1 DEF PromiseInv, CommitDue
  <2>2. CASE id # hand.id
    BY <1>3, <1>4, <2>2 DEF PromiseInv, NeverBeforeAsked
  <2> QED
    BY <2>1, <2>2
<1> QED
  BY <1>1, <1>2, <1>3, <1>7, <1>8, <1>9 DEF PromiseInv

(* No callback comes before its time: not in a timer that is registered,   *)
(* cancelled and put back in any order with others, and for any delays,    *)
(* periods, repetitions and resolution of the clock (timer.h:134-154).     *)
THEOREM NeverTooSoon == Spec => []NeverBeforeAsked
<1> USE TimerAssumption, NodeAssumption
<1>1. Init => PromiseInv
  BY DEF Init, PromiseInv, CommitDue, NeverBeforeAsked, Nodes, Issued, Ids
<1>2. FInv /\ TInv' /\ PromiseInv /\ [Next]_vars => PromiseInv'
  <2> SUFFICES ASSUME FInv, TInv', PromiseInv, [Next]_vars PROVE PromiseInv'
    OBVIOUS
  <2>0. TInv /\ OneNodeEach /\ now \in Nat
    BY DEF FInv, TInv, TypeOK
  <2> DEFINE Quietly ==
        /\ Nodes' \subseteq Nodes /\ now' >= now /\ UNCHANGED <<tm_id, fired, registered>>
        /\ \A id \in Issued : Let(id)' = Let(id)
        /\ pc' = "commit" => pc = "commit" /\ hand' = hand
  <2>1. ASSUME \/ TickerLoop \/ TickerLock \/ TickerEmpty \/ TickerSleep \/ TickerTimeout
               \/ TickerWakesSpuriously \/ Owner \/ PoolStart \/ PoolFinish \/ Tick
               \/ (\E c \in Clients, id \in ids : cancel(c, id))
               \/ (\E s \in queue : TickerNotYet(s)) \/ UNCHANGED vars
        PROVE  Quietly
    <3>1. /\ UNCHANGED <<tm_id, fired, registered, queue, pend>> /\ now' >= now
          /\ \/ pc' = pc /\ hand' = hand
             \/ pc \notin {"popped", "commit"} /\ pc' \notin {"popped", "commit"}
      BY <2>0, <2>1 DEF TickerLoop, TickerLock, TickerEmpty, TickerSleep, TickerTimeout,
         TickerWakesSpuriously, Owner, Run, Stop, NotifyAll, JoinTicker, StopPool, JoinPool,
         PoolStart, PoolFinish, Tick, cancel, TickerNotYet, vars, table, ticker
    <3> QED
      BY <3>1 DEF Nodes, Let
  <2>2. ASSUME NEW c \in Clients, Push(c) PROVE Quietly
    <3>1. /\ pend[c] # NoNode /\ pend' = [pend EXCEPT ![c] = NoNode]
          /\ queue' = queue \union {pend[c]}
          /\ pc # "popped" /\ pc' # "popped" /\ (pc' = "commit" <=> pc = "commit")
          /\ UNCHANGED <<now, tm_id, hand, fired, registered>>
      BY <2>2 DEF Push, TickerHoldsMutex
    <3>2. \A d \in Clients : pend'[d] = IF d = c THEN NoNode ELSE pend[d]
      BY <2>0, <3>1 DEF TInv, TypeOK
    <3>3. Nodes' = Nodes
      BY <3>1, <3>2 DEF Nodes
    <3> QED
      BY <2>0, <3>1, <3>3 DEF Let
  <2>3. ASSUME NEW s \in queue, TickerPop(s) PROVE Quietly
    BY <2>0, <2>3 DEF TickerPop, table, Nodes, Let
  <2>4. ASSUME TickerDrop PROVE Quietly
    BY <2>0, <2>4 DEF TickerDrop, table, Nodes, Let
  <2>5. ASSUME Quietly PROVE PromiseInv'
    BY <2>5, PromiseKept
  <2>6. ASSUME TickerKeep PROVE PromiseInv'
    BY <2>6, PromisePutBack
  <2>7. ASSUME TickerCommit PROVE PromiseInv'
    BY <2>7, PromiseCommitted
  <2>8. ASSUME NEW c \in Clients, Client(c) PROVE PromiseInv'
    <3> HIDE DEF Quietly
    <3>1. \/ Push(c)
          \/ \E id \in ids : cancel(c, id)
          \/ \E node \in TimerNode, times \in Nat \union {Always} :
               Register(c, node, times) /\ Asks(node, times)
      BY <2>0, <2>8, Registered
    <3> QED
      BY <2>1, <2>2, <2>5, <3>1, PromiseMade
  <2> HIDE DEF Quietly
  <2> QED
    BY <2>1, <2>2, <2>3, <2>4, <2>5, <2>6, <2>7, <2>8 DEF Next, Ticker
<1>3. PromiseInv => NeverBeforeAsked
  BY DEF PromiseInv
<1>4. FInv => TInv
  BY DEF FInv
<1> QED
  BY <1>1, <1>2, <1>3, <1>4, FiringsInductive, PTL DEF Spec

====
