---- MODULE Snowflake ----
(***************************************************************************)
(* Snowflake<true> of snowflake_demo/snowflake.h: generate makes an id of  *)
(* the millisecond, the machine and a 12-bit sequence, under a spin lock.  *)
(* The machine bits are the same in every id of a generator and are left   *)
(* out; an id is its millisecond and its sequence field.                   *)
(*                                                                         *)
(* The clock is the system clock less epoch_, in milliseconds; it advances *)
(* and may be set back (MaxBack times).  MaxClock bounds it and MaxIds the *)
(* ids made.  SeqSize is 0x1000.                                           *)
(***************************************************************************)
EXTENDS Integers, Sequences, FiniteSets

CONSTANTS Threads, SeqSize, MaxClock, MaxBack, MaxIds, Unlocked

ASSUME SnowflakeAssumption ==
  /\ SeqSize \in Nat \ {0, 1}
  /\ MaxClock \in Nat \ {0} /\ MaxBack \in Nat /\ MaxIds \in Nat
  /\ Unlocked \notin Threads

VARIABLES clock,
          back,       \* how often the clock has been set back
          lock,       \* the thread that has lock_, or Unlocked
          last_ms,
          sequence,
          place,      \* where each thread is in generate
          ms,         \* the millisecond each thread has read
          field,      \* the sequence field of the id it is making
          ids         \* the ids returned, in the order the lock was released

vars == <<clock, back, lock, last_ms, sequence, place, ms, field, ids>>

TypeOK ==
  /\ clock \in 0 .. MaxClock
  /\ back \in 0 .. MaxBack
  /\ lock \in Threads \union {Unlocked}
  /\ last_ms \in 0 .. MaxClock
  /\ sequence \in 0 .. SeqSize - 1
  /\ place \in [Threads -> {"idle", "lock", "spin", "compose", "sleep", "return"}]
  /\ ms \in [Threads -> 0 .. MaxClock]
  /\ field \in [Threads -> 0 .. SeqSize - 1]
  /\ ids \in Seq([ms : 0 .. MaxClock, seq : 0 .. SeqSize - 1])

(* last_ms_ starts at zero: the generator has to be used after its epoch.  *)
Init ==
  /\ clock = 1
  /\ back = 0
  /\ lock = Unlocked
  /\ last_ms = 0
  /\ sequence = 0
  /\ place = [t \in Threads |-> "idle"]
  /\ ms = [t \in Threads |-> 0]
  /\ field = [t \in Threads |-> 0]
  /\ ids = <<>>

-----------------------------------------------------------------------------
Call(t) ==
  /\ place[t] = "idle"
  /\ Len(ids) < MaxIds
  /\ place' = [place EXCEPT ![t] = "lock"]
  /\ UNCHANGED <<clock, back, lock, last_ms, sequence, ms, field, ids>>

(* The spin lock: compare_exchange_strong, tried until it succeeds.        *)
acquire(t) == lock = Unlocked /\ lock' = t

release == lock' = Unlocked

Lock(t) ==
  /\ place[t] = "lock"
  /\ acquire(t)
  /\ ms' = [ms EXCEPT ![t] = clock]
  /\ place' = [place EXCEPT ![t] = "spin"]
  /\ UNCHANGED <<clock, back, last_ms, sequence, field, ids>>

(* Mutant: the clock is not read again. *)
SpinBlindly(t) ==
  /\ place[t] = "spin"
  /\ ms[t] < last_ms
  /\ UNCHANGED vars

(* A clock that was set back is read until it has caught up.               *)
Spin(t) ==
  /\ place[t] = "spin"
  /\ ms[t] < last_ms
  /\ ms' = [ms EXCEPT ![t] = clock]
  /\ UNCHANGED <<clock, back, lock, last_ms, sequence, place, field, ids>>

(* Mutant: the clock is trusted. *)
CaughtAtOnce(t) ==
  /\ place[t] = "spin"
  /\ place' = [place EXCEPT ![t] = "compose"]
  /\ UNCHANGED <<clock, back, lock, last_ms, sequence, ms, field, ids>>

Caught(t) ==
  /\ place[t] = "spin"
  /\ ms[t] >= last_ms
  /\ place' = [place EXCEPT ![t] = "compose"]
  /\ UNCHANGED <<clock, back, lock, last_ms, sequence, ms, field, ids>>

(* Mutant: the sequence wraps without a sleep. *)
SameMsAwake(t) ==
  /\ place[t] = "compose"
  /\ ms[t] = last_ms
  /\ field' = [field EXCEPT ![t] = sequence]
  /\ sequence' = (sequence + 1) % SeqSize
  /\ place' = [place EXCEPT ![t] = "return"]
  /\ UNCHANGED <<clock, back, lock, last_ms, ms, ids>>

(* In the millisecond of the previous id the sequence counts on, and after *)
(* its last value the generator sleeps the millisecond out.                *)
SameMs(t) ==
  /\ place[t] = "compose"
  /\ ms[t] = last_ms
  /\ field' = [field EXCEPT ![t] = sequence]
  /\ sequence' = (sequence + 1) % SeqSize
  /\ place' = [place EXCEPT ![t] = IF sequence' = 0 THEN "sleep" ELSE "return"]
  /\ UNCHANGED <<clock, back, lock, last_ms, ms, ids>>

(* In a new one the field is 0 and the sequence is set to 0, not past it.  *)
NewMs(t) ==
  /\ place[t] = "compose"
  /\ ms[t] # last_ms
  /\ field' = [field EXCEPT ![t] = 0]
  /\ sequence' = 0
  /\ place' = [place EXCEPT ![t] = "return"]
  /\ UNCHANGED <<clock, back, lock, last_ms, ms, ids>>

(* The sleep ends when the clock is read past the end of the millisecond;  *)
(* if it was set back meanwhile the loop goes on.                          *)
SleepEnds(t) ==
  /\ place[t] = "sleep"
  /\ clock > ms[t]
  /\ place' = [place EXCEPT ![t] = "return"]
  /\ UNCHANGED <<clock, back, lock, last_ms, sequence, ms, field, ids>>

Return(t) ==
  /\ place[t] = "return"
  /\ last_ms' = ms[t]
  /\ ids' = Append(ids, [ms |-> ms[t], seq |-> field[t]])
  /\ release
  /\ place' = [place EXCEPT ![t] = "idle"]
  /\ UNCHANGED <<clock, back, sequence, ms, field>>

Advance ==
  /\ clock < MaxClock
  /\ clock' = clock + 1
  /\ UNCHANGED <<back, lock, last_ms, sequence, place, ms, field, ids>>

SetBack ==
  /\ back < MaxBack
  /\ clock > 0
  /\ clock' \in 0 .. clock - 1
  /\ back' = back + 1
  /\ UNCHANGED <<lock, last_ms, sequence, place, ms, field, ids>>

-----------------------------------------------------------------------------
Generate(t) ==
  \/ Lock(t) \/ Spin(t) \/ Caught(t) \/ SameMs(t) \/ NewMs(t)
  \/ SleepEnds(t) \/ Return(t)

Next ==
  \/ \E t \in Threads : Call(t) \/ Generate(t)
  \/ Advance
  \/ SetBack

Fairness == WF_vars(Advance) /\ \A t \in Threads : WF_vars(Generate(t))

Spec == Init /\ [][Next]_vars /\ Fairness

-----------------------------------------------------------------------------
Before(a, b) == a.ms < b.ms \/ (a.ms = b.ms /\ a.seq < b.seq)

(* Ids come out in the order of their milliseconds, whatever the clock     *)
(* does: a generator never issues an id of an earlier millisecond.         *)
MillisecondsInOrder ==
  \A i, j \in 1 .. Len(ids) : i < j => ids[i].ms <= ids[j].ms

(* Unless the clock is set back, only the id that opens a millisecond is   *)
(* ever repeated, by the next one: otherwise the ids strictly increase.    *)
RepeatsOnlyTheFirst ==
  back = 0 =>
    \A i \in 2 .. Len(ids) :
      Before(ids[i - 1], ids[i]) \/ (ids[i - 1] = ids[i] /\ ids[i].seq = 0
                                       /\ (i > 2 => ids[i - 2].ms < ids[i].ms))

(* A generator held up by a clock that was set back goes on when the clock *)
(* has caught up.                                                          *)
SpinEnds == \A t \in Threads : place[t] = "spin" ~> place[t] = "compose"

(* The snowflake algorithm (README.md) yields an id once.                  *)
NoDuplicates == \A i, j \in 1 .. Len(ids) : ids[i] = ids[j] => i = j

====
