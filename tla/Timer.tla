---- MODULE Timer ----
(***************************************************************************)
(* Timer of timerloop/priority_queue/timer.h: clients register timers and  *)
(* cancel them, one ticker thread takes the timer that is due first and    *)
(* commits its callback to a thread pool, and the owner starts the ticker  *)
(* and destroys the whole.  The pool is the service ThreadPool implements. *)
(*                                                                         *)
(* Time is a counter: MS of its units are a millisecond, so that instants  *)
(* within a millisecond, which the ticker's duration_cast truncates, are   *)
(* told apart.  MaxClock bounds it, and stands for every later instant: a  *)
(* sleep that ends after it may end there.  MaxId bounds the timers made.  *)
(***************************************************************************)
EXTENDS Integers, Sequences, FiniteSets, Functions

CONSTANTS Clients,    \* threads that call run_after, run_at, run_repeated, cancel
          Delays,     \* ms_time of one-shot and repeated timers
          Periods,    \* ms_time of periodic timers
          Repeats,    \* repeated_num
          Instants,   \* time_point of run_at
          MS,         \* clock units in a millisecond
          MaxClock,   \* bound of the clock
          MaxId,      \* bound of tm_id
          Capacity,   \* DEFAULT_TIMER_THREAD_POOL_SIZE
          NoNode,     \* no TimerNode
          Always      \* a periodic timer is asked for without end

ASSUME TimerAssumption ==
  /\ Delays \subseteq Nat /\ Periods \subseteq Nat \ {0} /\ Repeats \subseteq Nat
  /\ Instants \subseteq Nat
  /\ MS \in Nat \ {0} /\ MaxClock \in Nat /\ MaxId \in Nat
  /\ Capacity \in Nat \ {0}
  /\ Always \notin Nat

Ids == 0 .. MaxId - 1

(* A TimerNode: left is tn_repeated_num, meaningful for "repeated" only    *)
(* and 0 otherwise.                                                        *)
TimerNode == [id : Ids, due : Nat, kind : {"once", "period", "repeated"},
              period : Nat, left : Nat]

ASSUME NodeAssumption == NoNode \notin TimerNode

VARIABLES now,        \* high_resolution_clock
          queue,      \* tm_queue: the nodes, one at most for each id
          tm_running,
          tm_id,
          ids,        \* the keys of tm_id_state_map
          pend,       \* the node each client is about to push
          pc,         \* where the ticker is
          hand,       \* the ticker's copy of a node, s of run_local
          until,      \* how long it will sleep, then the instant it sleeps to
          owner,      \* where the owner is
          fired,      \* callbacks committed for each id
          asked,      \* how many its registration asks for
          registered, \* the node its registration made
          open, backlog, running, done, refused   \* tm_thread_pool

pool == <<open, backlog, running, done, refused>>
ticker == <<pc, hand, until>>
table == <<tm_id, ids, pend, asked, registered>>
vars == <<now, queue, tm_running, table, ticker, owner, fired, pool>>

Firing == Ids \X (Nat \ {0})

Pool == INSTANCE TaskService WITH Task <- Firing

TickerPC == {"unstarted", "loop", "lock", "top", "sleep", "asleep",
             "popped", "commit", "exited"}
OwnerPC == {"alive", "stopping", "joining", "closing", "draining", "gone"}

TypeOK ==
  /\ now \in 0 .. MaxClock
  /\ queue \subseteq TimerNode
  /\ tm_running \in BOOLEAN
  /\ tm_id \in 0 .. MaxId
  /\ ids \subseteq Ids
  /\ pend \in [Clients -> TimerNode \union {NoNode}]
  /\ pc \in TickerPC
  /\ hand \in TimerNode \union {NoNode}
  /\ until \in Nat
  /\ owner \in OwnerPC
  /\ fired \in [Ids -> Nat]
  /\ asked \in [Ids -> Nat \union {Always}]
  /\ registered \in [Ids -> TimerNode \union {NoNode}]
  /\ Pool!STypeOK

Init ==
  /\ now = 0
  /\ queue = {}
  /\ tm_running = TRUE
  /\ tm_id = 0
  /\ ids = {}
  /\ pend = [c \in Clients |-> NoNode]
  /\ pc = "unstarted"
  /\ hand = NoNode
  /\ until = 0
  /\ owner = "alive"
  /\ fired = [i \in Ids |-> 0]
  /\ asked = [i \in Ids |-> 0]
  /\ registered = [i \in Ids |-> NoNode]
  /\ Pool!SInit

TickerHoldsMutex == pc \in {"top", "sleep", "popped"}
Idle(c) == pend[c] = NoNode
Issued == 0 .. tm_id - 1

-----------------------------------------------------------------------------
(* The map of ids, hash_map: each operation is under the map's own mutex.  *)

emplace(key) == ids' = ids \union {key}

erase(key) == ids' = ids \ {key}

is_key_exist(key) == key \in ids

-----------------------------------------------------------------------------
(* Registration: the id is drawn and put into the map, the due time is     *)
(* computed; then, under tm_mutex, the node is pushed and the ticker is    *)
(* notified.  A client learns its id when the call returns.                *)

milliseconds(ms) == ms * MS

Register(c, node, times) ==
  /\ owner = "alive" /\ Idle(c)
  /\ tm_id < MaxId
  /\ tm_id' = tm_id + 1
  /\ emplace(tm_id)
  /\ asked' = [asked EXCEPT ![tm_id] = times]
  /\ registered' = [registered EXCEPT ![tm_id] = node]
  /\ pend' = [pend EXCEPT ![c] = node]
  /\ UNCHANGED <<now, queue, tm_running, ticker, owner, fired, pool>>

run_after(c, ms, is_period) ==
  Register(c, [id |-> tm_id, due |-> now + milliseconds(ms), period |-> milliseconds(ms), left |-> 0,
               kind |-> IF is_period THEN "period" ELSE "once"],
           IF is_period THEN Always ELSE 1)

run_at(c, time_point) ==
  Register(c, [id |-> tm_id, due |-> time_point, period |-> 0, left |-> 0,
               kind |-> "once"], 1)

run_repeated(c, ms, repeated_num) ==
  Register(c, [id |-> tm_id, due |-> now + milliseconds(ms), period |-> milliseconds(ms),
               left |-> repeated_num, kind |-> "repeated"], repeated_num + 1)

(* Mutant: the ticker is not notified. *)
PushSilently(c) ==
  /\ pend[c] # NoNode
  /\ ~TickerHoldsMutex
  /\ queue' = queue \union {pend[c]}
  /\ pend' = [pend EXCEPT ![c] = NoNode]
  /\ UNCHANGED <<now, tm_running, tm_id, ids, asked, registered, ticker, owner, fired, pool>>

Push(c) ==
  /\ pend[c] # NoNode
  /\ ~TickerHoldsMutex
  /\ queue' = queue \union {pend[c]}
  /\ pend' = [pend EXCEPT ![c] = NoNode]
  /\ pc' = IF pc = "asleep" THEN "loop" ELSE pc
  /\ UNCHANGED <<now, tm_running, tm_id, ids, asked, registered, hand, until, owner, fired, pool>>

(* cancel looks the id up and then erases it, each under the map's own     *)
(* mutex.  It is one step here: erase looks again, and an id enters the    *)
(* map only once.  The node stays in the queue.                            *)
cancel(c, id) ==
  /\ owner = "alive" /\ Idle(c)
  /\ is_key_exist(id)
  /\ \A d \in Clients : pend[d] # NoNode => pend[d].id # id
  /\ erase(id)
  /\ UNCHANGED <<now, queue, tm_running, tm_id, pend, asked, registered, ticker, owner, fired, pool>>

-----------------------------------------------------------------------------
(* run_local, the ticker.  It holds tm_mutex from "top" until it sleeps,   *)
(* drops a cancelled node, or has put a recurring one back.                *)

TickerLoop ==
  /\ pc = "loop"
  /\ pc' = IF tm_running THEN "lock" ELSE "exited"
  /\ hand' = NoNode
  /\ until' = 0
  /\ UNCHANGED <<now, queue, tm_running, table, owner, fired, pool>>

TickerLock ==
  /\ pc = "lock"
  /\ pc' = "top"
  /\ UNCHANGED <<now, queue, tm_running, table, hand, until, owner, fired, pool>>

TickerEmpty ==
  /\ pc = "top"
  /\ queue = {}
  /\ pc' = "sleep"
  /\ UNCHANGED <<now, queue, tm_running, table, hand, until, owner, fired, pool>>

(* tm_queue.top(): which of several nodes due together is not determined.  *)
(* The time left is truncated to milliseconds, so the ticker sleeps only   *)
(* if a whole one is left and takes a node early otherwise.                *)
Top(s) == s \in queue /\ \A n \in queue : s.due <= n.due

TickerNotYet(s) ==
  /\ pc = "top"
  /\ Top(s)
  /\ s.due - now >= MS
  /\ pc' = "sleep"
  /\ hand' = s
  /\ until' = s.due - now
  /\ UNCHANGED <<now, queue, tm_running, table, owner, fired, pool>>

TickerPop(s) ==
  /\ pc = "top"
  /\ Top(s)
  /\ s.due - now < MS
  /\ pc' = "popped"
  /\ hand' = s
  /\ queue' = queue \ {s}
  /\ UNCHANGED <<now, tm_running, table, until, owner, fired, pool>>

(* wait or wait_for: the mutex is released and the ticker is in the wait   *)
(* set, at once; the time it sleeps counts from now.  Whatever wakes it,   *)
(* it takes and releases the mutex and goes back to the test of tm_running *)
(* (nobody keeps the mutex meanwhile, so that is not a step of its own).   *)
TickerSleep ==
  /\ pc = "sleep"
  /\ pc' = "asleep"
  /\ until' = now + until
  /\ UNCHANGED <<now, queue, tm_running, table, hand, owner, fired, pool>>

TickerTimeout ==
  /\ pc = "asleep"
  /\ hand # NoNode
  /\ now >= until \/ now = MaxClock
  /\ pc' = "loop"
  /\ UNCHANGED <<now, queue, tm_running, table, hand, until, owner, fired, pool>>

TickerWakesSpuriously ==
  /\ pc = "asleep"
  /\ pc' = "loop"
  /\ UNCHANGED <<now, queue, tm_running, table, hand, until, owner, fired, pool>>

TickerDrop ==
  /\ pc = "popped"
  /\ ~is_key_exist(hand.id)
  /\ pc' = "loop"
  /\ UNCHANGED <<now, queue, tm_running, table, hand, until, owner, fired, pool>>

Recurs(s) == s.kind = "period" \/ (s.kind = "repeated" /\ s.left > 0)

(* Mutants: tn_repeated_num is not counted down; the node is put back as   *)
(* due as it was.                                                          *)
AgainUncounted(s) == [s EXCEPT !.due = now + s.period]

AgainAtOnce(s) == [s EXCEPT !.left = IF s.kind = "repeated" THEN s.left - 1 ELSE s.left]

Again(s) == [s EXCEPT !.due = now + s.period,
                      !.left = IF s.kind = "repeated" THEN s.left - 1 ELSE s.left]

(* Mutant: the id is not looked up. *)
TickerKeepAny ==
  /\ pc = "popped"
  /\ queue' = IF Recurs(hand) THEN queue \union {Again(hand)} ELSE queue
  /\ pc' = "commit"
  /\ UNCHANGED <<now, tm_running, table, hand, until, owner, fired, pool>>

TickerKeep ==
  /\ pc = "popped"
  /\ is_key_exist(hand.id)
  /\ queue' = IF Recurs(hand) THEN queue \union {Again(hand)} ELSE queue
  /\ pc' = "commit"
  /\ UNCHANGED <<now, tm_running, table, hand, until, owner, fired, pool>>

TickerCommit ==
  /\ pc = "commit"
  /\ fired' = [fired EXCEPT ![hand.id] = fired[hand.id] + 1]
  /\ Pool!Submit(<<hand.id, fired[hand.id] + 1>>)
  /\ pc' = "loop"
  /\ UNCHANGED <<now, queue, tm_running, table, hand, until, owner>>

-----------------------------------------------------------------------------
(* The owner: run, and the destructor once no client is inside a call.     *)
(* The store to tm_running and the notification are made without tm_mutex; *)
(* after the ticker is joined the members are destroyed, the map first,    *)
(* the pool next, which stops and joins its workers.                       *)

Run ==
  /\ owner = "alive"
  /\ pc = "unstarted"
  /\ pc' = "loop"
  /\ UNCHANGED <<now, queue, tm_running, table, hand, until, owner, fired, pool>>

Stop ==
  /\ owner = "alive"
  /\ \A c \in Clients : Idle(c)
  /\ tm_running' = FALSE
  /\ owner' = "stopping"
  /\ UNCHANGED <<now, queue, table, ticker, fired, pool>>

NotifyAll ==
  /\ owner = "stopping"
  /\ pc' = IF pc = "asleep" THEN "loop" ELSE pc
  /\ owner' = "joining"
  /\ UNCHANGED <<now, queue, tm_running, table, hand, until, fired, pool>>

(* Mutant: the ticker is not joined. *)
JoinNobody ==
  /\ owner = "joining"
  /\ owner' = "closing"
  /\ UNCHANGED <<now, queue, tm_running, table, ticker, fired, pool>>

JoinTicker ==
  /\ owner = "joining"
  /\ pc \in {"unstarted", "exited"}
  /\ owner' = "closing"
  /\ UNCHANGED <<now, queue, tm_running, table, ticker, fired, pool>>

StopPool ==
  /\ owner = "closing"
  /\ Pool!Close
  /\ owner' = "draining"
  /\ UNCHANGED <<now, queue, tm_running, table, ticker, fired>>

JoinPool ==
  /\ owner = "draining"
  /\ running = {}
  /\ owner' = "gone"
  /\ UNCHANGED <<now, queue, tm_running, table, ticker, fired, pool>>

-----------------------------------------------------------------------------
(* The workers of the pool and the clock.                                  *)

PoolStart ==
  /\ owner # "gone"
  /\ Pool!Start
  /\ UNCHANGED <<now, queue, tm_running, table, ticker, owner, fired>>

PoolFinish ==
  /\ \E f \in running : Pool!Finish(f)
  /\ UNCHANGED <<now, queue, tm_running, table, ticker, owner, fired>>

Tick ==
  /\ now < MaxClock
  /\ now' = now + 1
  /\ UNCHANGED <<queue, tm_running, table, ticker, owner, fired, pool>>

-----------------------------------------------------------------------------
Ticker ==
  \/ TickerLoop \/ TickerLock \/ TickerEmpty \/ TickerSleep \/ TickerTimeout
  \/ TickerDrop \/ TickerKeep \/ TickerCommit
  \/ \E s \in queue : TickerNotYet(s) \/ TickerPop(s)

Client(c) ==
  \/ \E ms \in Delays : run_after(c, ms, FALSE)
  \/ \E ms \in Periods : run_after(c, ms, TRUE)
  \/ \E time_point \in Instants : run_at(c, time_point)
  \/ \E ms \in Delays, n \in Repeats : run_repeated(c, ms, n)
  \/ Push(c)
  \/ \E id \in ids : cancel(c, id)

Owner == Run \/ Stop \/ NotifyAll \/ JoinTicker \/ StopPool \/ JoinPool

Next ==
  \/ \E c \in Clients : Client(c)
  \/ Ticker
  \/ TickerWakesSpuriously
  \/ Owner
  \/ PoolStart
  \/ PoolFinish
  \/ Tick

(* The ticker and the clock go on; a client that asks for tm_mutex gets it *)
(* if it is released again and again.                                      *)
Fairness ==
  /\ WF_vars(Ticker)
  /\ WF_vars(Tick)
  /\ \A c \in Clients : SF_vars(Push(c))

Spec == Init /\ [][Next]_vars /\ Fairness

-----------------------------------------------------------------------------
(* A ticker that is about to sleep or asleep and not notified sleeps on    *)
(* the node that is due first, and without a limit only if there is none:  *)
(* a registration of an earlier timer never goes unnoticed.                *)
SleepsOnEarliest ==
  pc \in {"sleep", "asleep"} =>
    IF hand = NoNode THEN queue = {}
                     ELSE \A n \in queue : hand.due <= n.due

(* The ticker never commits to a stopped pool: commit would throw out of   *)
(* the thread function and end the program.                                *)
CommitsToOpenPool == pc = "commit" => open

(* What CommitsToOpenPool rests on: the order in which the owner takes the *)
(* timer apart.                                                            *)
PhaseInv ==
  /\ tm_running <=> owner = "alive"
  /\ open <=> owner \notin {"draining", "gone"}
  /\ owner \in {"closing", "draining", "gone"} => pc \in {"unstarted", "exited"}
  /\ pc = "exited" => ~tm_running
  /\ owner # "alive" => \A c \in Clients : pend[c] = NoNode
  /\ pc \in {"popped", "commit"} => hand # NoNode

(* The callbacks of a timer come no sooner than it was registered for: the *)
(* k-th not before the first one's due time and k - 1 periods, but for the *)
(* part of a millisecond that the truncation of the time left, and with it *)
(* the next due time, may lose at every firing.                            *)
Earliest(id, k) ==
  registered[id].due + (k - 1) * registered[id].period - k * (MS - 1)

NeverBeforeAsked ==
  \A id \in Issued : fired[id] > 0 => now >= Earliest(id, fired[id])

(* The firings a timer still owes: what its node stands for, in the queue, *)
(* with a client or in the ticker's hand, and the one about to be made.    *)
Nodes == queue \union {pend[c] : c \in {d \in Clients : pend[d] # NoNode}}
               \union (IF pc = "popped" THEN {hand} ELSE {})

Owed(id) ==
  (IF \E n \in Nodes : n.id = id
     THEN 1 + (CHOOSE n \in Nodes : n.id = id).left ELSE 0)
  + (IF pc = "commit" /\ hand.id = id THEN 1 ELSE 0)

(* Every firing is accounted for: a timer has one node at most; the        *)
(* callbacks committed and still owed are never more than its registration *)
(* asked for, and exactly as many as long as it is not cancelled; a        *)
(* periodic timer that is not cancelled keeps a node.                      *)
FiringsAccounted ==
  /\ \A m, n \in Nodes : m.id = n.id => m = n
  /\ \A id \in Issued :
       IF asked[id] = Always
         THEN id \in ids => \E n \in Nodes : n.id = id
         ELSE /\ fired[id] + Owed(id) <= asked[id]
              /\ id \in ids => fired[id] + Owed(id) = asked[id]

(* What FiringsAccounted rests on.  A timer is in one place at a time: the *)
(* queue, a client's hands or the ticker's.                                *)
OneNodeEach ==
  /\ \A m, n \in queue : m.id = n.id => m = n
  /\ \A c, d \in Clients :
       pend[c] # NoNode /\ pend[d] # NoNode /\ pend[c].id = pend[d].id => c = d
  /\ \A c \in Clients : pend[c] # NoNode => \A n \in queue : pend[c].id # n.id
  /\ pc = "popped" => /\ \A n \in queue : n.id # hand.id
                      /\ \A c \in Clients : pend[c] # NoNode => pend[c].id # hand.id

(* Ids are issued before they are used, and a node is of the kind its      *)
(* registration asked for.                                                 *)
IssuedInv ==
  /\ ids \subseteq Issued
  /\ \A id \in Ids \ Issued : fired[id] = 0
  /\ pc = "commit" => hand.id \in Issued
  /\ \A n \in Nodes :
       /\ n.id \in Issued
       /\ n.kind = "period" <=> asked[n.id] = Always
       /\ n.kind # "repeated" => n.left = 0

(* After cancel has erased an id its callback is committed at most once    *)
(* more, if the ticker had already looked the id up.                       *)
CancelIsFinal ==
  [][\A id \in Issued :
       id \notin ids =>
         /\ id \notin ids'
         /\ fired'[id] # fired[id] => pc = "commit" /\ hand.id = id
         /\ ~(pc = "commit" /\ hand.id = id) => ~(pc' = "commit" /\ hand'.id = id)]_vars

(* While the timer lives and its ticker runs, every timer that comes due   *)
(* within the bound of the clock is committed, unless it is cancelled.     *)
DueTimersFire ==
  \A id \in Ids :
    (/\ pc # "unstarted"
     /\ \E n \in queue : n.id = id /\ n.due <= MaxClock /\ fired[id] = 0)
    ~> (fired[id] > 0 \/ id \notin ids \/ ~tm_running)

====
