---- MODULE AtomicSharedPtr ----
(***************************************************************************)
(* safe_operation_obj/save_obj_main.cpp: one shared pointer that threads   *)
(* replace and copy under a mutex.  A shared_ptr is a pointer to an object *)
(* and to its use count: copying it reads the pointer and then counts up,  *)
(* which is two steps, and the last owner gone the object is deleted.  A   *)
(* number whose count is 0 is memory that new may use again.               *)
(***************************************************************************)
EXTENDS Naturals, FiniteSets

CONSTANTS Users, Objects    \* 0, the null pointer, is none of Objects

VARIABLES spPc,       \* where each thread is
          spMutex,    \* the threads that hold mutex_: one or none
          spStorage,  \* storage_
          spHeld,     \* the shared_ptr the thread keeps (prepare_dataload)
          spArg,      \* the one of the call: o of exchange, the result of load
          spCount     \* use_count of each object

spVars == <<spPc, spMutex, spStorage, spHeld, spArg, spCount>>

Pointers == Objects \union {0}

TypeOK ==
  /\ spPc \in [Users -> {"out", "exchange", "swap", "unlock", "read", "copy", "drop"}]
  /\ spMutex \subseteq Users
  /\ spStorage \in Pointers
  /\ spHeld \in [Users -> Pointers] /\ spArg \in [Users -> Pointers]
  /\ spCount \in [Objects -> 0 .. 2 * Cardinality(Users) + 1]

(* The one instance of the singleton.                                      *)
Init ==
  /\ spPc = [t \in Users |-> "out"] /\ spMutex = {}
  /\ spStorage = 0
  /\ spHeld = [t \in Users |-> 0] /\ spArg = [t \in Users |-> 0]
  /\ spCount = [o \in Objects |-> 0]

Goes(t, from, to) == spPc[t] = from /\ spPc' = [spPc EXCEPT ![t] = to]

Acquire(t) == spMutex = {} /\ spMutex' = {t}

One(o, p) == IF p = o THEN 1 ELSE 0

(* One owner of from less, one of to more.                                 *)
Recount(from, to) ==
  spCount' = [o \in Objects |-> spCount[o] + One(o, to) - One(o, from)]

-----------------------------------------------------------------------------
(* The thread makes an object, or lets go of the one it keeps at the end   *)
(* of the scope, where the guard resets the pointer.                       *)
Make(t, o) ==
  /\ spPc[t] = "out" /\ spHeld[t] = 0 /\ spCount[o] = 0
  /\ spHeld' = [spHeld EXCEPT ![t] = o]
  /\ Recount(0, o)
  /\ UNCHANGED <<spPc, spMutex, spStorage, spArg>>

ScopeGuard(t) ==
  /\ spPc[t] = "out" /\ spHeld[t] # 0
  /\ spHeld' = [spHeld EXCEPT ![t] = 0]
  /\ Recount(spHeld[t], 0)
  /\ UNCHANGED <<spPc, spMutex, spStorage, spArg>>

(* store passes a copy to exchange.                                        *)
store(t) ==
  /\ Goes(t, "out", "exchange")
  /\ spArg' = [spArg EXCEPT ![t] = spHeld[t]]
  /\ Recount(0, spHeld[t])
  /\ UNCHANGED <<spMutex, spStorage, spHeld>>

exchange(t) ==
  /\ Goes(t, "exchange", "swap") /\ Acquire(t)
  /\ UNCHANGED <<spStorage, spHeld, spArg, spCount>>

Swap(t) ==
  /\ Goes(t, "swap", "unlock")
  /\ spStorage' = spArg[t] /\ spArg' = [spArg EXCEPT ![t] = spStorage]
  /\ UNCHANGED <<spMutex, spHeld, spCount>>

(* exchange or load returns and the guard releases the mutex; what the     *)
(* call returns lives on.                                                  *)
Unlock(t) ==
  /\ Goes(t, "unlock", "drop")
  /\ spMutex' = spMutex \ {t}
  /\ UNCHANGED <<spStorage, spHeld, spArg, spCount>>

(* Mutant: load copies without the mutex. *)
loadUnlocked(t) ==
  /\ Goes(t, "out", "read")
  /\ UNCHANGED <<spMutex, spStorage, spHeld, spArg, spCount>>

load(t) ==
  /\ Goes(t, "out", "read") /\ Acquire(t)
  /\ UNCHANGED <<spStorage, spHeld, spArg, spCount>>

Read(t) ==
  /\ Goes(t, "read", "copy")
  /\ spArg' = [spArg EXCEPT ![t] = spStorage]
  /\ UNCHANGED <<spMutex, spStorage, spHeld, spCount>>

CountUp(t) ==
  /\ Goes(t, "copy", "unlock")
  /\ Recount(0, spArg[t])
  /\ UNCHANGED <<spMutex, spStorage, spHeld, spArg>>

(* The caller drops what was returned, as store does, or keeps it.         *)
Drop(t) ==
  /\ Goes(t, "drop", "out")
  /\ spArg' = [spArg EXCEPT ![t] = 0]
  /\ Recount(spArg[t], 0)
  /\ UNCHANGED <<spMutex, spStorage, spHeld>>

Keep(t) ==
  /\ Goes(t, "drop", "out")
  /\ spArg' = [spArg EXCEPT ![t] = 0] /\ spHeld' = [spHeld EXCEPT ![t] = spArg[t]]
  /\ Recount(spHeld[t], 0)
  /\ UNCHANGED <<spMutex, spStorage>>

Next ==
  \E t \in Users :
    \/ \E o \in Objects : Make(t, o)
    \/ ScopeGuard(t)
    \/ store(t) \/ exchange(t) \/ Swap(t) \/ Unlock(t)
    \/ load(t) \/ Read(t) \/ CountUp(t)
    \/ Drop(t) \/ Keep(t)

Spec == Init /\ [][Next]_spVars

-----------------------------------------------------------------------------
(* Who keeps o, and whose call owns it: a copy is counted after the read.  *)
Keepers(o) == {t \in Users : spHeld[t] = o}

Callers(o) == {t \in Users : spArg[t] = o /\ spPc[t] # "copy"}

(* However stores, loads and ends of scopes of several threads overlap, an *)
(* object is counted as often as it is owned, and the pointer a load has   *)
(* read is of an object that lives when its count goes up                  *)
(* (save_obj_main.cpp:33-52).                                              *)
LivesWhileHeld ==
  /\ \A o \in Objects :
       spCount[o] = One(o, spStorage) + Cardinality(Keepers(o)) + Cardinality(Callers(o))
  /\ \A t \in Users : spPc[t] = "copy" /\ spArg[t] # 0 => spCount[spArg[t]] > 0
====
