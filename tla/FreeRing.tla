---- MODULE FreeRing ----
(***************************************************************************)
(* ObjectMemPool of objectpool2/object_pool.cpp: slots whose indices go    *)
(* round in a ring, taken at its start and given back, by the deleter of   *)
(* the shared pointer, behind its end; an object that finds no slot is     *)
(* made on the heap.  MaxGets bounds object_counter.                       *)
(***************************************************************************)
EXTENDS Naturals, FiniteSets

CONSTANTS PoolSize, MaxGets

VARIABLES ring,       \* m_RingBuffer, m_RingStart, m_RingEnd, the two counters
          ringOut     \* the slots that objects live in

ringVars == <<ring, ringOut>>

Slots == 0 .. PoolSize - 1

TypeOK ==
  /\ ring \in [buffer : [Slots -> Slots], start : Slots, end : Slots,
               object_counter : 0 .. MaxGets, allocate_counter : 0 .. MaxGets]
  /\ ringOut \subseteq Slots

Init ==
  /\ ring = [buffer |-> [i \in Slots |-> i], start |-> 0, end |-> PoolSize - 1,
             object_counter |-> 0, allocate_counter |-> 0]
  /\ ringOut = {}

GetSlot ==
  /\ ring.start # ring.end
  /\ ring.object_counter < MaxGets
  /\ ring' = [ring EXCEPT !.start = (@ + 1) % PoolSize, !.object_counter = @ + 1]
  /\ ringOut' = ringOut \union {ring.buffer[ring.start]}

(* The last index of the ring is never taken; the heap helps out instead.  *)
(* The counter does not go down when the object is deleted.                *)
GetFromHeap ==
  /\ ring.start = ring.end
  /\ ring.object_counter < MaxGets
  /\ ring' = [ring EXCEPT !.object_counter = @ + 1, !.allocate_counter = @ + 1]
  /\ UNCHANGED ringOut

(* Mutant: the index is stored before the end moves on. *)
DeleteStoreFirst(index) ==
  /\ index \in ringOut
  /\ ring' = [ring EXCEPT !.buffer[ring.end] = index, !.end = (@ + 1) % PoolSize]
  /\ ringOut' = ringOut \ {index}

Delete(index) ==
  /\ index \in ringOut
  /\ LET end == (ring.end + 1) % PoolSize
     IN  ring' = [ring EXCEPT !.end = end, !.buffer[end] = index]
  /\ ringOut' = ringOut \ {index}

Next ==
  \/ GetSlot
  \/ GetFromHeap
  \/ \E index \in Slots : Delete(index)

Spec == Init /\ [][Next]_ringVars

-----------------------------------------------------------------------------
Length == ((ring.end + PoolSize - ring.start) % PoolSize) + 1

Free == {ring.buffer[(ring.start + i) % PoolSize] : i \in 0 .. Length - 1}

(* Whatever the order in which objects are deleted and however often the   *)
(* ring has gone round, each slot is either in it, once, or has an object  *)
(* in it (object_pool.cpp:83-92).                                          *)
OneHolder ==
  /\ Cardinality(Free) = Length
  /\ Free \intersect ringOut = {}
  /\ Free \union ringOut = Slots
====
