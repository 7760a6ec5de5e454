---- MODULE OwnedValue ----
(***************************************************************************)
(* The two types of the repository that own a block through a bare         *)
(* pointer: Status (statusandslice/status.h, status.cpp), whose block      *)
(* holds code and message, and hyper_function (hyper_function.h), whose    *)
(* block holds the callable.  Objects come and go in a few places of the   *)
(* program; block 0 is the null pointer.                                   *)
(*                                                                         *)
(* ovMeant is history: the value each object was given last, "none" for    *)
(* Status::OK and the empty function.                                      *)
(***************************************************************************)
EXTENDS Naturals

CONSTANTS Places, Contents, Blocks

VARIABLES ovType,   \* which of the two types
          ovState,  \* the block of the object at each place that has one
          ovHeap,   \* what the blocks hold that are allocated
          ovMeant

ovVars == <<ovType, ovState, ovHeap, ovMeant>>

Live == DOMAIN ovState

TypeOK ==
  /\ ovType \in {"Status", "hyper_function"}
  /\ Live \subseteq Places /\ ovState \in [Live -> Blocks \union {0}]
  /\ DOMAIN ovHeap \subseteq Blocks /\ ovHeap \in [DOMAIN ovHeap -> Contents]
  /\ ovMeant \in [Live -> Contents \union {"none"}]

Init ==
  /\ ovType \in {"Status", "hyper_function"}
  /\ ovState = << >> /\ ovHeap = << >> /\ ovMeant = << >>

Set(f, x, y) == [z \in DOMAIN f \union {x} |-> IF z = x THEN y ELSE f[z]]
Without(f, xs) == [z \in DOMAIN f \ xs |-> f[z]]

(* The object at i has block b from now on, and the heap is heap.          *)
Has(i, b, heap, value) ==
  /\ ovState' = Set(ovState, i, b)
  /\ ovHeap' = heap
  /\ ovMeant' = Set(ovMeant, i, value)
  /\ UNCHANGED ovType

-----------------------------------------------------------------------------
Fresh(heap) == CHOOSE b \in Blocks : b \notin DOMAIN heap

(* A Status of an error, a function of a callable; the two default ones.   *)
Construct(i, content) ==
  /\ i \notin Live
  /\ Has(i, Fresh(ovHeap), Set(ovHeap, Fresh(ovHeap), content), content)

ConstructNull(i) == i \notin Live /\ Has(i, 0, ovHeap, "none")

(* Mutant: the pointer is copied and not what it points to. *)
CopyStateShallow(i, j, heap) == Has(i, ovState[j], heap, ovMeant[j])

(* CopyState, clone: the object at i gets a block with what the one of j   *)
(* holds; null stays null.                                                 *)
CopyState(i, j, heap) ==
  IF ovState[j] = 0
    THEN Has(i, 0, heap, ovMeant[j])
    ELSE Has(i, Fresh(heap), Set(heap, Fresh(heap), heap[ovState[j]]), ovMeant[j])

CopyConstruct(i, j) == i \notin Live /\ j \in Live /\ CopyState(i, j, ovHeap)

MoveConstruct(i, j) ==
  /\ i \notin Live /\ j \in Live
  /\ ovState' = Set(Set(ovState, j, 0), i, ovState[j])
  /\ ovMeant' = Set(Set(ovMeant, j, "none"), i, ovMeant[j])
  /\ UNCHANGED <<ovType, ovHeap>>

(* The old block goes first.  Status looks whether the two pointers differ *)
(* before, which is false for an object and itself.                        *)
CopyAssign(i, j) ==
  /\ {i, j} \subseteq Live /\ i # j
  /\ IF ovType = "Status" /\ ovState[i] = ovState[j]
       THEN UNCHANGED ovVars
       ELSE CopyState(i, j, Without(ovHeap, {ovState[i]}))

(* A hyper_function has freed and cleared its pointer when it looks at it, *)
(* and is empty then.                                                      *)
SelfAssign(i) ==
  /\ i \in Live
  /\ IF ovType = "Status" THEN UNCHANGED ovVars
                          ELSE Has(i, 0, Without(ovHeap, {ovState[i]}), "none")

(* Status swaps.  hyper_function has none, and copies.                     *)
MoveAssign(i, j) ==
  /\ ovType = "Status" /\ {i, j} \subseteq Live
  /\ ovState' = [ovState EXCEPT ![i] = ovState[j], ![j] = ovState[i]]
  /\ ovMeant' = [ovMeant EXCEPT ![i] = ovMeant[j], ![j] = ovMeant[i]]
  /\ UNCHANGED <<ovType, ovHeap>>

Destroy(i) ==
  /\ i \in Live
  /\ ovState' = Without(ovState, {i})
  /\ ovHeap' = Without(ovHeap, {ovState[i]})
  /\ ovMeant' = Without(ovMeant, {i})
  /\ UNCHANGED ovType

Next ==
  \E i \in Places :
    \/ \E c \in Contents : Construct(i, c)
    \/ ConstructNull(i)
    \/ \E j \in Places : \/ CopyConstruct(i, j) \/ MoveConstruct(i, j)
                         \/ CopyAssign(i, j) \/ MoveAssign(i, j)
    \/ SelfAssign(i)
    \/ Destroy(i)

Spec == Init /\ [][Next]_ovVars

-----------------------------------------------------------------------------
(* Through any sequence of copies, moves, assignments and destructors no   *)
(* block has two owners, none is left without one or freed under one, and  *)
(* each object still holds the value it was given last; a hyper_function  *)
(* assigned to itself is given none (hyper_function.h:53-100,              *)
(* status.h:89-108).                                                       *)
OneOwner ==
  /\ \A i, j \in Live : ovState[i] = ovState[j] /\ ovState[i] # 0 => i = j
  /\ DOMAIN ovHeap = {ovState[i] : i \in Live} \ {0}
  /\ \A i \in Live : ovMeant[i] = IF ovState[i] = 0 THEN "none" ELSE ovHeap[ovState[i]]
====
