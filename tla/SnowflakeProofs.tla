---- MODULE SnowflakeProofs ----
(* Invariants of Snowflake for any threads, size of the sequence, clock    *)
(* and number of times it is set back.                                     *)
EXTENDS Snowflake, TLAPS

(* A thread between Lock and Return has the lock.                          *)
Locked ==
  \A t \in Threads : place[t] \in {"spin", "compose", "sleep", "return"} => lock = t

(* Past the spin a thread has a millisecond that is not before last_ms.    *)
CaughtUp ==
  \A t \in Threads : place[t] \in {"compose", "sleep", "return"} => last_ms <= ms[t]

(* No id is of a later millisecond than last_ms.                           *)
Issued == \A i \in 1 .. Len(ids) : ids[i].ms <= last_ms

IInv == TypeOK /\ Locked /\ CaughtUp /\ Issued /\ MillisecondsInOrder

(* The sequence wraps inside its 12 bits (snowflake.h:125).                 *)
LEMMA SequenceWraps ==
  ASSUME NEW n \in 0 .. SeqSize - 1
  PROVE  (n + 1) % SeqSize \in 0 .. SeqSize - 1
BY SnowflakeAssumption

(* A step that leaves the lock, last_ms, the ids and what is read of the   *)
(* other threads alone, and ends no thread's spin early.                   *)
LEMMA ThreadKeeps ==
  ASSUME IInv, TypeOK', NEW t \in Threads, lock = t, lock' = lock,
         last_ms' = last_ms, ids' = ids,
         \A u \in Threads \ {t} : place'[u] = place[u] /\ ms'[u] = ms[u],
         place'[t] \in {"compose", "sleep", "return"} => last_ms <= ms'[t]
  PROVE  IInv'
<1>1. Locked'
  BY DEF IInv, Locked
<1>2. CaughtUp'
  BY DEF IInv, CaughtUp
<1>3. Issued' /\ MillisecondsInOrder'
  BY DEF IInv, Issued, MillisecondsInOrder
<1> QED
  BY <1>1, <1>2, <1>3 DEF IInv

(* Generate, step by step and under any clock (snowflake.h:101-148), keeps  *)
(* the typing, the lock and the order of the milliseconds.                 *)
THEOREM SnowflakeInductive == Spec => []IInv
<1>1. Init /\ 1 <= MaxClock => IInv
  <2> SUFFICES ASSUME Init, 1 <= MaxClock PROVE IInv
    OBVIOUS
  <2>1. TypeOK
    BY SnowflakeAssumption DEF Init, TypeOK
  <2> QED
    BY <2>1 DEF Init, IInv, Locked, CaughtUp, Issued, MillisecondsInOrder
<1>2. IInv /\ [Next]_vars => IInv'
  <2> SUFFICES ASSUME IInv, [Next]_vars PROVE IInv'
    OBVIOUS
  <2> USE SnowflakeAssumption
  <2>0. CASE UNCHANGED vars
    BY <2>0 DEF IInv, TypeOK, Locked, CaughtUp, Issued, MillisecondsInOrder, vars
  <2>1. ASSUME NEW t \in Threads, Call(t) PROVE IInv'
    <3>1. TypeOK'
      BY <2>1 DEF Call, IInv, TypeOK
    <3>2. Locked' /\ CaughtUp'
      BY <2>1 DEF Call, IInv, TypeOK, Locked, CaughtUp
    <3>3. Issued' /\ MillisecondsInOrder'
      BY <2>1 DEF Call, IInv, Issued, MillisecondsInOrder
    <3> QED
      BY <3>1, <3>2, <3>3 DEF IInv
  <2>2. ASSUME NEW t \in Threads, Lock(t) PROVE IInv'
    <3>1. TypeOK'
      BY <2>2 DEF Lock, acquire, IInv, TypeOK
    <3>2. Locked' /\ CaughtUp'
      BY <2>2 DEF Lock, acquire, IInv, TypeOK, Locked, CaughtUp
    <3> QED
      BY <2>2, <3>1, <3>2 DEF Lock, acquire, IInv, Issued, MillisecondsInOrder
  <2>3. ASSUME NEW t \in Threads, Spin(t) PROVE IInv'
    <3>1. TypeOK'
      BY <2>3 DEF Spin, IInv, TypeOK
    <3> QED
      BY <2>3, <3>1, ThreadKeeps DEF Spin, IInv, TypeOK, Locked
  <2>4. ASSUME NEW t \in Threads, Caught(t) PROVE IInv'
    <3>1. TypeOK'
      BY <2>4 DEF Caught, IInv, TypeOK
    <3> QED
      BY <2>4, <3>1, ThreadKeeps DEF Caught, IInv, TypeOK, Locked
  <2>5. ASSUME NEW t \in Threads, SameMs(t) PROVE IInv'
    <3>1. sequence' \in 0 .. SeqSize - 1
      BY <2>5, SequenceWraps DEF SameMs, IInv, TypeOK
    <3>2. TypeOK'
      BY <2>5, <3>1 DEF SameMs, IInv, TypeOK
    <3> QED
      BY <2>5, <3>2, ThreadKeeps DEF SameMs, IInv, TypeOK, Locked, CaughtUp
  <2>6. ASSUME NEW t \in Threads, NewMs(t) PROVE IInv'
    <3>1. TypeOK'
      BY <2>6 DEF NewMs, IInv, TypeOK
    <3> QED
      BY <2>6, <3>1, ThreadKeeps DEF NewMs, IInv, TypeOK, Locked, CaughtUp
  <2>7. ASSUME NEW t \in Threads, SleepEnds(t) PROVE IInv'
    <3>1. TypeOK'
      BY <2>7 DEF SleepEnds, IInv, TypeOK
    <3> QED
      BY <2>7, <3>1, ThreadKeeps DEF SleepEnds, IInv, TypeOK, Locked, CaughtUp
  <2>8. ASSUME NEW t \in Threads, Return(t) PROVE IInv'
    <3> DEFINE id == [ms |-> ms[t], seq |-> field[t]]
    <3>1. /\ id \in [ms : 0 .. MaxClock, seq : 0 .. SeqSize - 1]
          /\ ids \in Seq([ms : 0 .. MaxClock, seq : 0 .. SeqSize - 1])
          /\ ids' = Append(ids, id) /\ last_ms' = id.ms
      BY <2>8 DEF Return, release, IInv, TypeOK
    <3>2. /\ Len(ids') = Len(ids) + 1 /\ Len(ids) \in Nat
          /\ ids'[Len(ids) + 1] = id
          /\ \A i \in 1 .. Len(ids) : ids'[i] = ids[i]
      BY <3>1
    <3>3. last_ms <= id.ms /\ last_ms \in Nat /\ id.ms \in Nat
      BY <2>8 DEF Return, release, IInv, TypeOK, CaughtUp
    <3>4. \A i \in 1 .. Len(ids) : ids[i].ms \in Nat
      <4> DEFINE Id == [ms : 0 .. MaxClock, seq : 0 .. SeqSize - 1]
      <4>1. \A i \in 1 .. Len(ids) : ids[i] \in Id
        <5> HIDE DEF Id
        <5>1. ids \in Seq(Id)
          BY <3>1 DEF Id
        <5> QED
          BY <5>1
      <4> QED
        BY <4>1
    <3>5. TypeOK'
      BY <2>8, <3>1 DEF Return, release, IInv, TypeOK
    <3>6. Issued'
      BY SMTT(30), <3>1, <3>2, <3>3, <3>4 DEF IInv, Issued
    <3>7. MillisecondsInOrder'
      <4> SUFFICES ASSUME NEW i \in 1 .. Len(ids) + 1, NEW j \in 1 .. Len(ids) + 1, i < j
                   PROVE  ids'[i].ms <= ids'[j].ms
        BY <3>2 DEF MillisecondsInOrder
      <4>1. i \in 1 .. Len(ids) /\ ids'[i] = ids[i]
        BY <3>2
      <4>2. CASE j = Len(ids) + 1
        BY <3>2, <3>3, <3>4, <4>1, <4>2 DEF IInv, Issued
      <4>3. CASE j # Len(ids) + 1
        BY <3>2, <4>1, <4>3 DEF IInv, MillisecondsInOrder
      <4> QED
        BY <4>2, <4>3
    <3>8. Locked' /\ CaughtUp'
      <4> SUFFICES ASSUME NEW u \in Threads
                   PROVE  place'[u] \notin {"spin", "compose", "sleep", "return"}
        BY DEF Locked, CaughtUp
      <4>1. place'[u] = IF u = t THEN "idle" ELSE place[u]
        BY <2>8 DEF Return, release, IInv, TypeOK
      <4>2. lock = t
        BY <2>8 DEF Return, release, IInv, Locked
      <4> QED
        BY <4>1, <4>2 DEF IInv, Locked
    <3> QED
      BY <3>5, <3>6, <3>7, <3>8 DEF IInv
  <2>9. CASE Advance
    <3>1. TypeOK'
      BY <2>9 DEF Advance, IInv, TypeOK
    <3>2. Locked' /\ CaughtUp'
      BY <2>9 DEF Advance, IInv, TypeOK, Locked, CaughtUp
    <3>3. Issued' /\ MillisecondsInOrder'
      BY <2>9 DEF Advance, IInv, Issued, MillisecondsInOrder
    <3> QED
      BY <3>1, <3>2, <3>3 DEF IInv
  <2>10. CASE SetBack
    <3>1. TypeOK'
      BY <2>10 DEF SetBack, IInv, TypeOK
    <3>2. Locked' /\ CaughtUp'
      BY <2>10 DEF SetBack, IInv, TypeOK, Locked, CaughtUp
    <3>3. Issued' /\ MillisecondsInOrder'
      BY <2>10 DEF SetBack, IInv, Issued, MillisecondsInOrder
    <3> QED
      BY <3>1, <3>2, <3>3 DEF IInv
  <2> QED
    BY <2>0, <2>1, <2>2, <2>3, <2>4, <2>5, <2>6, <2>7, <2>8, <2>9, <2>10
    DEF Next, Generate
<1>3. 1 <= MaxClock
  BY SnowflakeAssumption
<1> QED
  BY <1>1, <1>2, <1>3, PTL DEF Spec

(* Every reachable state of the generator is typed: the sequence and the   *)
(* fields stay inside their bits.                                          *)
THEOREM SnowflakeTyping == Spec => []TypeOK
<1>1. IInv => TypeOK
  BY DEF IInv
<1> QED
  BY <1>1, SnowflakeInductive, PTL

(* Ids come out in the order of their milliseconds, whatever the clock     *)
(* does and however the threads interleave (snowflake.h:101-148).           *)
THEOREM MillisecondsNeverGoBack == Spec => []MillisecondsInOrder
<1>1. IInv => MillisecondsInOrder
  BY DEF IInv
<1> QED
  BY <1>1, SnowflakeInductive, PTL

(* The id the next one may be, on ids[n] and the ids before it: a later    *)
(* one, or once more the id that opened its millisecond.                   *)
Opens(n) == ids[n].seq = 0 /\ (n > 1 => ids[n - 1].ms < ids[n].ms)

May(m, s) ==
  LET n == Len(ids)
  IN  n > 0 => \/ ids[n].ms < m
               \/ ids[n].ms = m /\ ids[n].seq < s
               \/ ids[n].ms = m /\ ids[n].seq = s /\ Opens(n)

Holding(t) == place[t] \in {"spin", "compose", "sleep", "return"}
Composed(t) == place[t] \in {"sleep", "return"}

(* While the clock only advances, it is not behind anything read from it.  *)
Forward ==
  /\ 1 <= clock /\ last_ms <= clock
  /\ \A t \in Threads : Holding(t) => 1 <= ms[t] /\ ms[t] <= clock

(* last_ms is the millisecond of the last id, and 0 before the first.      *)
LastMs == last_ms = IF Len(ids) = 0 THEN 0 ELSE ids[Len(ids)].ms

(* Between two ids the sequence counts on from the last one, or it has     *)
(* wrapped and whoever composes the next id has read a later millisecond.  *)
Counting ==
  (\A t \in Threads : ~Composed(t)) =>
    \/ May(last_ms, sequence)
    \/ /\ sequence = 0 /\ last_ms < clock
       /\ \A t \in Threads : Holding(t) => last_ms < ms[t]

(* An id that is composed and not yet returned may be the next one, and    *)
(* the sequence is already what the id after it needs.                     *)
Composing ==
  \A t \in Threads : Composed(t) =>
    /\ May(ms[t], field[t])
    /\ \/ field[t] < sequence
       \/ /\ field[t] = 0 /\ sequence = 0
          /\ Len(ids) > 0 => ids[Len(ids)].ms < ms[t]
       \/ sequence = 0 /\ (place[t] = "return" => ms[t] < clock)

Undisturbed == back = 0 => Forward /\ LastMs /\ Counting /\ Composing

(* The ids are numbered and typed, whatever the sequence of them.          *)
LEMMA IdsTyped ==
  ASSUME TypeOK
  PROVE  /\ Len(ids) \in Nat
         /\ \A i \in 1 .. Len(ids) : ids[i].ms \in Nat /\ ids[i].seq \in Nat
<1> DEFINE Id == [ms : 0 .. MaxClock, seq : 0 .. SeqSize - 1]
<1>1. ids \in Seq(Id)
  BY DEF TypeOK
<1>2. Len(ids) \in Nat /\ \A i \in 1 .. Len(ids) : ids[i] \in Id
  <2> HIDE DEF Id
  <2> QED
    BY <1>1
<1>3. \A r \in Id : r.ms \in Nat /\ r.seq \in Nat
  BY SnowflakeAssumption
<1> QED
  BY <1>2, <1>3

(* What the next id may be depends on the ids alone.                       *)
LEMMA MayKept ==
  ASSUME UNCHANGED ids
  PROVE  \A m, s : May(m, s) <=> May(m, s)'
BY DEF May, Opens

(* Whoever is past Lock is alone.                                          *)
LEMMA OneHolder ==
  ASSUME Locked, NEW t \in Threads, NEW u \in Threads, Holding(t), Holding(u)
  PROVE  t = u
BY DEF Locked, Holding

(* Unless the clock is set back, only the id that opens a millisecond is   *)
(* ever repeated (snowflake.h:112-125): otherwise the ids increase.        *)
THEOREM OnlyTheFirstRepeats == Spec => []RepeatsOnlyTheFirst
<1>1. Init => Undisturbed /\ RepeatsOnlyTheFirst
  <2> SUFFICES ASSUME Init PROVE Undisturbed /\ RepeatsOnlyTheFirst
    OBVIOUS
  <2>1. Len(ids) = 0
    BY DEF Init
  <2>2. \A t \in Threads : place[t] = "idle"
    BY DEF Init
  <2> QED
    BY <2>1, <2>2 DEF Init, Undisturbed, RepeatsOnlyTheFirst, Forward, LastMs, Counting,
       Composing, May, Holding, Composed
<1>2. IInv /\ IInv' /\ Undisturbed /\ RepeatsOnlyTheFirst /\ [Next]_vars
        => Undisturbed' /\ RepeatsOnlyTheFirst'
  <2> SUFFICES ASSUME IInv, IInv', Undisturbed, RepeatsOnlyTheFirst, [Next]_vars, back' = 0
               PROVE  (Forward /\ LastMs /\ Counting /\ Composing)' /\ RepeatsOnlyTheFirst'
    BY DEF Undisturbed, RepeatsOnlyTheFirst
  <2> USE SnowflakeAssumption
  <2>a. TypeOK /\ TypeOK' /\ Locked /\ Locked'
    BY DEF IInv
  <2>b. back = 0 /\ ~SetBack
    <3>1. back \in Nat
      BY <2>a DEF TypeOK
    <3>2. ~SetBack
      BY <3>1 DEF SetBack
    <3>3. UNCHANGED back
      BY <3>2 DEF Next, Generate, vars, Call, Lock, Spin, Caught, SameMs, NewMs, SleepEnds,
                  Return, Advance
    <3> QED
      BY <3>2, <3>3
  <2>c. Forward /\ LastMs /\ Counting /\ Composing
    BY <2>b DEF Undisturbed
  <2>d. /\ Len(ids) \in Nat
        /\ \A i \in 1 .. Len(ids) : ids[i].ms \in Nat /\ ids[i].seq \in Nat
    BY <2>a, IdsTyped
  <2>e. /\ last_ms \in Nat /\ clock \in Nat /\ sequence \in 0 .. SeqSize - 1
        /\ last_ms' \in Nat /\ clock' \in Nat /\ sequence' \in 0 .. SeqSize - 1
        /\ \A t \in Threads : ms[t] \in Nat /\ ms'[t] \in Nat
        /\ \A t \in Threads : field[t] \in 0 .. SeqSize - 1 /\ field'[t] \in 0 .. SeqSize - 1
    BY <2>a DEF TypeOK
  <2>0. ASSUME UNCHANGED ids PROVE RepeatsOnlyTheFirst' /\ \A m, s : May(m, s) <=> May(m, s)'
    BY <2>0, <2>b, MayKept DEF RepeatsOnlyTheFirst, Before
  <2>1. CASE UNCHANGED vars
    <3>1. UNCHANGED ids
      BY <2>1 DEF vars
    <3> QED
      BY <2>1, <3>1, <2>0, <2>c DEF vars, Forward, LastMs, Counting, Composing, Holding, Composed
  <2>2. ASSUME NEW t \in Threads, Call(t)
        PROVE  (Forward /\ LastMs /\ Counting /\ Composing)' /\ RepeatsOnlyTheFirst'
    <3>1. UNCHANGED <<ids, last_ms, sequence, clock, ms, field>>
      BY <2>2 DEF Call
    <3>2. \A u \in Threads : /\ Holding(u)' <=> Holding(u)
                             /\ Composed(u)' <=> Composed(u)
                             /\ Composed(u) => place'[u] = place[u]
      BY <2>2, <2>a DEF Call, TypeOK, Holding, Composed
    <3> QED
      BY <2>0, <2>c, <3>1, <3>2 DEF Forward, LastMs, Counting, Composing
  <2>3. ASSUME NEW t \in Threads, Lock(t)
        PROVE  (Forward /\ LastMs /\ Counting /\ Composing)' /\ RepeatsOnlyTheFirst'
    <3>1. UNCHANGED <<ids, last_ms, sequence, clock>> /\ ms'[t] = clock
      BY <2>3, <2>a DEF Lock, TypeOK
    <3>2. \A u \in Threads : Holding(u)' => u = t
      BY <2>3, <2>a DEF Lock, acquire, Locked, Holding
    <3>3. \A u \in Threads : ~Composed(u) /\ ~Composed(u)'
      BY <2>3, <2>a DEF Lock, acquire, Locked, Composed, TypeOK
    <3>4. Forward'
      BY <3>1, <3>2, <2>c, <2>e DEF Forward
    <3>5. Counting'
      BY <3>1, <3>2, <3>3, <2>0, <2>c DEF Counting
    <3> QED
      BY <3>1, <3>3, <3>4, <3>5, <2>0, <2>c DEF LastMs, Composing
  <2>4. ASSUME NEW t \in Threads, Spin(t)
        PROVE  (Forward /\ LastMs /\ Counting /\ Composing)' /\ RepeatsOnlyTheFirst'
    <3>1. UNCHANGED <<ids, last_ms, sequence, clock, place>> /\ ms'[t] = clock
      BY <2>4, <2>a DEF Spin, TypeOK
    <3>2. Holding(t)
      BY <2>4 DEF Spin, Holding
    <3>3. \A u \in Threads : (Holding(u)' <=> Holding(u)) /\ (Holding(u) => u = t)
      BY <3>1, <3>2, <2>a, OneHolder DEF Holding
    <3>4. \A u \in Threads : ~Composed(u) /\ ~Composed(u)'
      BY <2>4, <3>1, <3>2, <2>a, OneHolder DEF Spin, Holding, Composed
    <3>5. Forward'
      BY <3>1, <3>3, <2>c, <2>e DEF Forward
    <3>6. Counting'
      BY <3>1, <3>3, <3>4, <2>0, <2>c DEF Counting
    <3> QED
      BY <3>1, <3>4, <3>5, <3>6, <2>0, <2>c DEF LastMs, Composing
  <2>5. ASSUME NEW t \in Threads, Caught(t)
        PROVE  (Forward /\ LastMs /\ Counting /\ Composing)' /\ RepeatsOnlyTheFirst'
    <3>1. UNCHANGED <<ids, last_ms, sequence, clock, ms, field>>
      BY <2>5 DEF Caught
    <3>2. \A u \in Threads : /\ Holding(u)' <=> Holding(u)
                             /\ Composed(u)' <=> Composed(u)
                             /\ Composed(u) => place'[u] = place[u]
      BY <2>5, <2>a DEF Caught, TypeOK, Holding, Composed
    <3> QED
      BY <2>0, <2>c, <3>1, <3>2 DEF Forward, LastMs, Counting, Composing
  <2>6. ASSUME NEW t \in Threads, SameMs(t)
        PROVE  (Forward /\ LastMs /\ Counting /\ Composing)' /\ RepeatsOnlyTheFirst'
    <3>1. /\ UNCHANGED <<ids, last_ms, clock, ms>> /\ ms[t] = last_ms
          /\ field'[t] = sequence /\ sequence' = (sequence + 1) % SeqSize
          /\ sequence' = 0 => place'[t] = "sleep"
      BY <2>6, <2>a DEF SameMs, TypeOK
    <3>2. Holding(t) /\ ~Composed(t)
      BY <2>6 DEF SameMs, Holding, Composed
    <3>3. \A u \in Threads : Holding(u)' <=> Holding(u)
      BY <2>6, <2>a DEF SameMs, TypeOK, Holding
    <3>4. \A u \in Threads : (Holding(u) => u = t) /\ (Composed(u)' <=> u = t) /\ ~Composed(u)
      BY <2>6, <3>2, <2>a, OneHolder DEF SameMs, TypeOK, Holding, Composed
    <3>5. May(ms[t], sequence)
      BY <3>1, <3>2, <3>4, <2>c, <2>e DEF Counting
    <3>6. sequence' = 0 \/ sequence < sequence'
      BY <3>1, <2>e
    <3>7. Composing'
      <4>1. May(ms[t], field[t])'
        BY <3>1, <3>5 DEF May, Opens
      <4>2. field'[t] < sequence' \/ (sequence' = 0 /\ place'[t] # "return")
        BY <3>1, <3>6
      <4> QED
        BY <3>4, <4>1, <4>2 DEF Composing
    <3> QED
      BY <3>1, <3>3, <3>4, <3>7, <2>0, <2>c DEF Forward, LastMs, Counting
  <2>7. ASSUME NEW t \in Threads, NewMs(t)
        PROVE  (Forward /\ LastMs /\ Counting /\ Composing)' /\ RepeatsOnlyTheFirst'
    <3>1. /\ UNCHANGED <<ids, last_ms, clock, ms>> /\ ms[t] # last_ms
          /\ field'[t] = 0 /\ sequence' = 0
      BY <2>7, <2>a DEF NewMs, TypeOK
    <3>2. Holding(t) /\ last_ms < ms[t]
      BY <2>7, <3>1, <2>e DEF NewMs, Holding, IInv, CaughtUp
    <3>3. \A u \in Threads : Holding(u)' <=> Holding(u)
      BY <2>7, <2>a DEF NewMs, TypeOK, Holding
    <3>4. \A u \in Threads : (Holding(u) => u = t) /\ (Composed(u)' <=> u = t)
      BY <2>7, <3>2, <2>a, OneHolder DEF NewMs, TypeOK, Holding, Composed
    <3>5. Len(ids) > 0 => ids[Len(ids)].ms < ms[t]
      BY <3>2, <2>c, <2>d DEF LastMs
    <3>6. Composing'
      <4>1. May(ms[t], field[t])'
        BY <3>1, <3>5 DEF May
      <4> QED
        BY <3>1, <3>4, <3>5, <4>1 DEF Composing
    <3> QED
      BY <3>1, <3>3, <3>4, <3>6, <2>0, <2>c DEF Forward, LastMs, Counting
  <2>8. ASSUME NEW t \in Threads, SleepEnds(t)
        PROVE  (Forward /\ LastMs /\ Counting /\ Composing)' /\ RepeatsOnlyTheFirst'
    <3>1. UNCHANGED <<ids, last_ms, sequence, clock, ms, field>> /\ ms[t] < clock
      BY <2>8, <2>e DEF SleepEnds
    <3>2. \A u \in Threads : /\ Holding(u)' <=> Holding(u)
                             /\ Composed(u)' <=> Composed(u)
                             /\ u # t => place'[u] = place[u]
      BY <2>8, <2>a DEF SleepEnds, TypeOK, Holding, Composed
    <3> QED
      BY <2>0, <2>c, <3>1, <3>2 DEF Forward, LastMs, Counting, Composing
  <2>9. ASSUME NEW t \in Threads, Return(t)
        PROVE  (Forward /\ LastMs /\ Counting /\ Composing)' /\ RepeatsOnlyTheFirst'
    <3>0. PICK n \in Nat : n = Len(ids)
      BY <2>d
    <3> DEFINE id == [ms |-> ms[t], seq |-> field[t]]
    <3>1. /\ UNCHANGED <<clock, sequence, ms, field>> /\ last_ms' = ms[t]
          /\ ids' = Append(ids, id)
          /\ ids \in Seq([ms : 0 .. MaxClock, seq : 0 .. SeqSize - 1])
      BY <2>9, <2>a DEF Return, TypeOK
    <3>2. /\ Len(ids') = n + 1 /\ ids'[n + 1] = id
          /\ \A i \in 1 .. n : ids'[i] = ids[i]
      BY <3>0, <3>1
    <3>3. Holding(t) /\ Composed(t) /\ place[t] = "return"
      BY <2>9 DEF Return, Holding, Composed
    <3>4. \A u \in Threads : ~Holding(u)' /\ ~Composed(u)'
      <4> SUFFICES ASSUME NEW u \in Threads, Holding(u)' PROVE FALSE
        BY DEF Holding, Composed
      <4>1. u # t /\ Holding(u)
        BY <2>9, <2>a DEF Return, TypeOK, Holding
      <4> QED
        BY <4>1, <3>3, <2>a, OneHolder
    <3>5. May(ms[t], field[t])
      BY <3>3, <2>c DEF Composing
    <3>6. Forward' /\ LastMs' /\ Composing'
      <4>1. Forward'
        BY <3>1, <3>3, <3>4, <2>c DEF Forward
      <4>2. LastMs'
        BY <3>1, <3>2, <3>0, <2>d DEF LastMs
      <4> QED
        BY <4>1, <4>2, <3>4 DEF Composing
    <3>7. RepeatsOnlyTheFirst'
      <4> SUFFICES ASSUME NEW i \in 2 .. n + 1
                   PROVE  \/ Before(ids[i - 1], ids[i])'
                          \/ /\ ids'[i - 1] = ids'[i] /\ ids'[i].seq = 0
                             /\ i > 2 => ids'[i - 2].ms < ids'[i].ms
        BY <3>0, <3>2 DEF RepeatsOnlyTheFirst
      <4>1. CASE i <= n
        <5>1. /\ ids'[i] = ids[i] /\ ids'[i - 1] = ids[i - 1]
              /\ i > 2 => ids'[i - 2] = ids[i - 2]
          BY <4>1, <3>2, <3>0, <2>d
        <5>2. \/ Before(ids[i - 1], ids[i])
              \/ ids[i - 1] = ids[i] /\ ids[i].seq = 0 /\ (i > 2 => ids[i - 2].ms < ids[i].ms)
          BY <4>1, <2>b, <3>0, <2>d DEF RepeatsOnlyTheFirst
        <5> QED
          BY <5>1, <5>2 DEF Before
      <4>2. CASE i = n + 1
        <5>1. /\ n > 0 /\ ids'[i] = id /\ ids'[i - 1] = ids[n]
              /\ i > 2 => ids'[i - 2] = ids[n - 1]
          BY <4>2, <3>2, <3>0, <2>d
        <5>2. \/ ids[n].ms < ms[t]
              \/ ids[n].ms = ms[t] /\ ids[n].seq < field[t]
              \/ ids[n].ms = ms[t] /\ ids[n].seq = field[t] /\ Opens(n)
          BY <3>0, <5>1, <3>5 DEF May
        <5>3. CASE ids[n].ms < ms[t] \/ (ids[n].ms = ms[t] /\ ids[n].seq < field[t])
          BY <5>1, <5>3 DEF Before
        <5>4. CASE ids[n].ms = ms[t] /\ ids[n].seq = field[t] /\ Opens(n)
          <6>1. ids[n] = id
            <7> DEFINE Id == [ms : 0 .. MaxClock, seq : 0 .. SeqSize - 1]
            <7>1. ids[n] \in Id
              <8> HIDE DEF Id
              <8>1. ids \in Seq(Id)
                BY <3>1 DEF Id
              <8> QED
                BY <8>1, <5>1, <3>0, <2>d
            <7> QED
              BY <7>1, <5>4
          <6> QED
            BY <4>2, <5>1, <5>4, <6>1, <3>0, <2>d DEF Opens
        <5> QED
          BY <5>2, <5>3, <5>4
      <4> QED
        BY <4>1, <4>2, <3>0, <2>d
    <3>8. Counting'
      <4>1. \/ field[t] < sequence
            \/ field[t] = 0 /\ sequence = 0 /\ (n > 0 => ids[n].ms < ms[t])
            \/ sequence = 0 /\ ms[t] < clock
        BY <3>0, <3>3, <2>c DEF Composing
      <4>2. CASE field[t] < sequence
        <5>1. May(last_ms, sequence)'
          BY <4>2, <3>1, <3>2, <3>0, <2>d DEF May
        <5> QED
          BY <5>1 DEF Counting
      <4>3. CASE field[t] = 0 /\ sequence = 0 /\ (n > 0 => ids[n].ms < ms[t])
        <5>1. Opens(n + 1)'
          BY <4>3, <3>2, <3>0, <2>d DEF Opens
        <5>2. May(last_ms, sequence)'
          BY <4>3, <5>1, <3>1, <3>2, <3>0, <2>d DEF May
        <5> QED
          BY <5>2 DEF Counting
      <4>4. CASE sequence = 0 /\ ms[t] < clock
        BY <4>4, <3>1, <3>4 DEF Counting
      <4> QED
        BY <4>1, <4>2, <4>3, <4>4
    <3> QED
      BY <3>6, <3>7, <3>8
  <2>10. CASE Advance
    <3>1. UNCHANGED <<ids, last_ms, sequence, place, ms, field>> /\ clock' = clock + 1
      BY <2>10 DEF Advance
    <3>2. \A u \in Threads : (Holding(u)' <=> Holding(u)) /\ (Composed(u)' <=> Composed(u))
      BY <3>1 DEF Holding, Composed
    <3>3. Forward' /\ LastMs'
      BY <3>1, <3>2, <2>c, <2>e DEF Forward, LastMs
    <3>4. Counting'
      BY <3>1, <3>2, <2>0, <2>c, <2>e DEF Counting
    <3>5. Composing'
      BY <3>1, <3>2, <2>0, <2>c, <2>e DEF Composing
    <3> QED
      BY <3>1, <3>3, <3>4, <3>5, <2>0
  <2> QED
    BY <2>1, <2>2, <2>3, <2>4, <2>5, <2>6, <2>7, <2>8, <2>9, <2>10, <2>b DEF Next, Generate
<1> QED
  BY <1>1, <1>2, SnowflakeInductive, PTL DEF Spec

====
