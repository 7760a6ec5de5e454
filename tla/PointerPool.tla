---- MODULE PointerPool ----
(***************************************************************************)
(* SimpleObjectPool of objectpool2/objectpool.h: a vector of owned objects *)
(* and pointers whose deleter puts the object back.  Objects are numbered  *)
(* as they are made, MaxObjects of them.                                   *)
(***************************************************************************)
EXTENDS Naturals, Sequences, SequencesExt

CONSTANTS MaxObjects

VARIABLES pool,       \* pool_, the latest at the back
          poolMade,   \* how many objects were made
          poolOut     \* objects that a pointer from get or get_shared owns

poolVars == <<pool, poolMade, poolOut>>

TypeOK ==
  /\ pool \in Seq(1 .. MaxObjects)
  /\ poolMade \in 0 .. MaxObjects
  /\ poolOut \subseteq 1 .. MaxObjects

Init ==
  /\ pool = <<>>
  /\ poolMade = 0
  /\ poolOut = {}

(* init makes num objects, add brings one.                                 *)
init(num) ==
  /\ poolMade + num <= MaxObjects
  /\ pool' = pool \o [i \in 1 .. num |-> poolMade + i]
  /\ poolMade' = poolMade + num
  /\ UNCHANGED poolOut

(* Mutant: the released pointer stays at the back. *)
getKept ==
  /\ pool # <<>>
  /\ poolOut' = poolOut \union {Last(pool)}
  /\ UNCHANGED <<pool, poolMade>>

(* get and get_shared differ in the pointer only; both throw on an empty   *)
(* pool and change nothing.                                                *)
get ==
  /\ pool # <<>>
  /\ poolOut' = poolOut \union {Last(pool)}
  /\ pool' = Front(pool)
  /\ UNCHANGED poolMade

(* The deleter of either pointer.                                          *)
Deleter(t) ==
  /\ t \in poolOut
  /\ pool' = Append(pool, t)
  /\ poolOut' = poolOut \ {t}
  /\ UNCHANGED poolMade

Next ==
  \/ \E num \in 1 .. MaxObjects : init(num)
  \/ get
  \/ \E t \in poolOut : Deleter(t)

Spec == Init /\ [][Next]_poolVars

-----------------------------------------------------------------------------
(* An object is in the pool once or has one owner, and none is lost        *)
(* (objectpool.h:35-57).                                                   *)
OneHolder ==
  /\ IsInjective(pool)
  /\ ToSet(pool) \intersect poolOut = {}
  /\ ToSet(pool) \union poolOut = 1 .. poolMade
====
