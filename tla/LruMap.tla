---- MODULE LruMap ----
(***************************************************************************)
(* LruMap/lurmap.h: a map whose nodes are kept in a list in the order of   *)
(* use, the latest at the end, and expire.  The iterator the index keeps   *)
(* for a key is the place of its node.  VacateCount is the 16 that put     *)
(* asks vacate for.                                                        *)
(*                                                                         *)
(* lruUsed and lruLatest are history: the keys in the order of their last  *)
(* use, and what was put last under each.                                  *)
(***************************************************************************)
EXTENDS Naturals, Sequences, SequencesExt

CONSTANTS Keys, Values, Capacities, Lifetimes, VacateCount, MaxNow

VARIABLES lru,        \* capacity, index and nodelist of the map
          now,        \* time(NULL), in seconds
          lruUsed,
          lruLatest

lruVars == <<lru, now, lruUsed, lruLatest>>

Node == [key : Keys, value : Values, expiration : Nat]

TypeOK ==
  /\ lru \in [capacity : Capacities, index : SUBSET Keys, nodelist : Seq(Node)]
  /\ now \in 0 .. MaxNow
  /\ lruUsed \in Seq(Keys)
  /\ lruLatest \in [Keys -> Values]

Init ==
  /\ lru \in [capacity : Capacities, index : {{}}, nodelist : {<<>>}]
  /\ now = 0
  /\ lruUsed = <<>>
  /\ lruLatest \in {[k \in Keys |-> v] : v \in Values}

Place(k) == CHOOSE i \in DOMAIN lru.nodelist : lru.nodelist[i].key = k

(* Mutant: the node stays where it is. *)
SpliceNowhere(i, node) == [lru.nodelist EXCEPT ![i] = node]

(* The node at place i, which is now node, goes to the end.                *)
Splice(i, node) == Append(RemoveAt(lru.nodelist, i), node)

(* Mutant: one node too many. *)
IsFullLate(map) == Len(map.nodelist) > map.capacity

IsFull(map) == Len(map.nodelist) >= map.capacity

(* The n nodes used longest ago go.                                        *)
vacate(map, n) ==
  LET gone == {map.nodelist[i].key : i \in 1 .. n \cap DOMAIN map.nodelist}
  IN  [map EXCEPT !.index = @ \ gone,
                  !.nodelist = SubSeq(@, n + 1, Len(@))]

erase(map, k) ==
  [map EXCEPT !.index = @ \ {k}, !.nodelist = RemoveAt(@, Place(k))]

Use(k) == lruUsed' = Append(RemoveFirst(lruUsed, k), k)

put(k, v, seconds) ==
  LET node == [key |-> k, value |-> v, expiration |-> now + seconds]
      room == IF IsFull(lru) THEN vacate(lru, VacateCount) ELSE lru
  IN  /\ IF k \in lru.index
           THEN lru' = [lru EXCEPT !.nodelist = Splice(Place(k), node)]
           ELSE lru' = [room EXCEPT !.index = @ \union {k},
                                    !.nodelist = Append(@, node)]
      /\ Use(k)
      /\ lruLatest' = [lruLatest EXCEPT ![k] = v]
      /\ UNCHANGED now

Expired(k) == now > lru.nodelist[Place(k)].expiration

get(k, erasing_expired) ==
  /\ k \in lru.index
  /\ IF erasing_expired /\ Expired(k)
       THEN /\ lru' = erase(lru, k)
            /\ lruUsed' = RemoveFirst(lruUsed, k)
       ELSE /\ lru' = [lru EXCEPT !.nodelist = Splice(Place(k), @[Place(k)])]
            /\ Use(k)
  /\ UNCHANGED <<now, lruLatest>>

(* By key, and by the iterator of the key.                                 *)
Erase(k) ==
  /\ k \in lru.index
  /\ lru' = erase(lru, k)
  /\ lruUsed' = RemoveFirst(lruUsed, k)
  /\ UNCHANGED <<now, lruLatest>>

clear ==
  /\ lru' = [lru EXCEPT !.index = {}, !.nodelist = <<>>]
  /\ lruUsed' = <<>>
  /\ UNCHANGED <<now, lruLatest>>

(* A lower capacity takes no node away, except that 0 takes them all.      *)
SetCapacity(n) ==
  /\ lru' = IF n = 0 THEN [capacity |-> 0, index |-> {}, nodelist |-> <<>>]
                     ELSE [lru EXCEPT !.capacity = n]
  /\ lruUsed' = IF n = 0 THEN <<>> ELSE lruUsed
  /\ UNCHANGED <<now, lruLatest>>

Tick ==
  /\ now < MaxNow
  /\ now' = now + 1
  /\ UNCHANGED <<lru, lruUsed, lruLatest>>

Next ==
  \/ \E k \in Keys, v \in Values, seconds \in Lifetimes : put(k, v, seconds)
  \/ \E k \in Keys, erasing_expired \in BOOLEAN : get(k, erasing_expired)
  \/ \E k \in Keys : Erase(k)
  \/ clear
  \/ \E n \in Capacities : SetCapacity(n)
  \/ Tick

Spec == Init /\ [][Next]_lruVars

-----------------------------------------------------------------------------
(* What put vacates was used longer ago than all that stays: the map holds *)
(* the keys used last, in the order of their use, each with what was put   *)
(* last, and the index knows these keys and no others, through every mix   *)
(* of expiry, erasing and a changed capacity (lurmap.h:93-141).            *)
Recency ==
  LET held == [i \in DOMAIN lru.nodelist |-> lru.nodelist[i].key]
  IN  /\ IsSuffix(held, lruUsed)
      /\ lru.index = ToSet(held)
      /\ \A i \in DOMAIN held : lru.nodelist[i].value = lruLatest[held[i]]

(* The map may be above a capacity that was lowered, but it never grows to *)
(* more than the capacity it has, or the one node it holds with a capacity *)
(* of 0 (lurmap.h:105).                                                    *)
WithinCapacity ==
  Len(lru'.nodelist) > Len(lru.nodelist)
    => Len(lru'.nodelist) <= lru'.capacity \/ Len(lru'.nodelist) = 1
====
