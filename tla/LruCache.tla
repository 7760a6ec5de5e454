---- MODULE LruCache ----
(***************************************************************************)
(* lru_cache/lrucache.h: a map from keys to values and places in a list of *)
(* keys in the order of use, the latest at the front.  The place the map   *)
(* keeps for a key is where the list has it.                               *)
(*                                                                         *)
(* cacheUsed is history: the keys in the order of their last use.          *)
(***************************************************************************)
EXTENDS Naturals, Sequences, SequencesExt

CONSTANTS Keys, Values, CacheCapacities

VARIABLES cache,      \* m_map, m_list and m_capacity
          cacheUsed

cacheVars == <<cache, cacheUsed>>

TypeOK ==
  /\ \E held \in SUBSET Keys : cache.m_map \in [held -> Values]
  /\ cache.m_list \in Seq(Keys)
  /\ cache.m_capacity \in CacheCapacities
  /\ cacheUsed \in Seq(Keys)

(* evict reads the last of the list, so that a capacity of 0 has no        *)
(* meaning: the first insert would read the end of an empty list.          *)
Init ==
  /\ \E n \in CacheCapacities \ {0} :
        cache = [m_map |-> <<>>, m_list |-> <<>>, m_capacity |-> n]
  /\ cacheUsed = <<>>

Holds(k) == k \in DOMAIN cache.m_map

Without(map, k) == [key \in DOMAIN map \ {k} |-> map[key]]

With(map, k, v) == [key \in DOMAIN map \union {k} |-> IF key = k THEN v ELSE map[key]]

(* Mutant: the first of the list is evicted, which was used last. *)
evictFirst(c) ==
  [c EXCEPT !.m_map = Without(@, Head(c.m_list)), !.m_list = Tail(@)]

evict(c) ==
  [c EXCEPT !.m_map = Without(@, Last(c.m_list)), !.m_list = Front(@)]

Use(k) == cacheUsed' = Append(RemoveFirst(cacheUsed, k), k)

(* A key that is held keeps its value and its place.                       *)
insert(k, v) ==
  LET room == IF Len(cache.m_list) >= cache.m_capacity THEN evict(cache) ELSE cache
  IN  IF Holds(k)
        THEN UNCHANGED cacheVars
        ELSE /\ cache' = [room EXCEPT !.m_map = With(@, k, v), !.m_list = <<k>> \o @]
             /\ Use(k)

get(k) ==
  /\ Holds(k)
  /\ cache' = [cache EXCEPT !.m_list = <<k>> \o RemoveFirst(@, k)]
  /\ Use(k)

clear ==
  /\ cache' = [cache EXCEPT !.m_map = <<>>, !.m_list = <<>>]
  /\ cacheUsed' = <<>>

Next ==
  \/ \E k \in Keys, v \in Values : insert(k, v)
  \/ \E k \in Keys : get(k)
  \/ clear

Spec == Init /\ [][Next]_cacheVars

-----------------------------------------------------------------------------
(* The cache holds the keys used last, as many as its capacity allows and  *)
(* in the order of their use; the map and the list agree                   *)
(* (lrucache.h:40-82).                                                     *)
Recency ==
  /\ IsSuffix(Reverse(cache.m_list), cacheUsed)
  /\ DOMAIN cache.m_map = ToSet(cache.m_list)
  /\ Len(cache.m_list) <= cache.m_capacity
====
