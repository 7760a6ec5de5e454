---- MODULE StockFactoryProofs ----
(* Invariants of StockFactory for every set of threads and keys and every  *)
(* number of stocks.                                                       *)
EXTENDS StockFactory, TLAPS

(* The inductive invariant: the map leads to stocks of its keys, stocks    *)
(* being deleted are owned by nobody and deleted once, and an entry whose  *)
(* stock is dead has a deleter about to erase it.                          *)
THEOREM StockInductive == Spec => []IInv
<1> USE StockAssumption
    DEF IInv, TypeOK, MadeInv, Stocks, NothingDeadIsOwned, DeletedOnce,
        FactoryOutlivesRemoval, NoEntryLeftBehind, FoundUnlessOvertaken,
        Live, Alive, Erasing
<1>1. Init => IInv
  <2> SUFFICES ASSUME Init PROVE IInv
    OBVIOUS
  <2>1. key_ \in Seq(Keys) /\ Len(key_) = 0
    BY DEF Init
  <2>2. TypeOK
    <3>1. Len(key_) <= MaxStocks
      BY <2>1
    <3>2. \A t \in Threads : pc[t] = "idle" <=> stock[t] = NoStock
      BY DEF Init
    <3>3. /\ stocks_ \in [Keys -> Stocks \union {NoStock}]
          /\ owns \in [Threads -> SUBSET Stocks]
          /\ pc \in [Threads -> {"idle", "lock", "remove", "delete"}]
          /\ stock \in [Threads -> Stocks \union {NoStock}]
      BY DEF Init
    <3> QED
      BY <2>1, <3>1, <3>2, <3>3 DEF Init
  <2>3. MadeInv
    BY <2>1 DEF Init
  <2> QED
    BY <2>1, <2>2, <2>3 DEF Init
<1>2. IInv /\ [Next]_vars => IInv'
  <2> SUFFICES ASSUME IInv, [Next]_vars PROVE IInv'
    OBVIOUS
  <2>1. ASSUME NEW t \in Threads, NEW k \in Keys, GetLive(t, k)
        PROVE  IInv'
    <3>1. TypeOK'
      BY <2>1 DEF GetLive
    <3>2. MadeInv'
      BY <2>1 DEF GetLive
    <3>3. NothingDeadIsOwned'
      BY <2>1 DEF GetLive
    <3>4. DeletedOnce'
      BY <2>1 DEF GetLive
    <3>5. FactoryOutlivesRemoval'
      BY <2>1 DEF GetLive
    <3>6. NoEntryLeftBehind'
      BY <2>1 DEF GetLive
    <3>7. FoundUnlessOvertaken'
      BY <2>1 DEF GetLive
    <3> QED
      BY <3>1, <3>2, <3>3, <3>4, <3>5, <3>6, <3>7
  <2>2. ASSUME NEW t \in Threads, NEW k \in Keys, GetNew(t, k)
        PROVE  IInv'
    <3> DEFINE n == Len(key_) + 1
    <3>a. /\ Len(key_') = n /\ key_'[n] = k
          /\ \A s \in 1 .. Len(key_) : key_'[s] = key_[s]
          /\ stocks_' = [stocks_ EXCEPT ![k] = n]
          /\ owns' = [owns EXCEPT ![t] = owns[t] \union {n}]
          /\ UNCHANGED <<clients, pc, stock, factory, deleted>>
      BY <2>2 DEF GetNew
    <3>b. \A s \in Stocks : Live(s)' <=> Live(s) \/ s = n
      BY <3>a
    <3>1. TypeOK'
      BY <2>2 DEF GetNew
    <3>2. MadeInv'
      BY <2>2 DEF GetNew
    <3>3. NothingDeadIsOwned'
      BY <2>2 DEF GetNew
    <3>4. DeletedOnce'
      BY <2>2 DEF GetNew
    <3>5. FactoryOutlivesRemoval'
      BY <2>2 DEF GetNew
    <3>6. NoEntryLeftBehind'
      <4> SUFFICES ASSUME Alive', NEW l \in Keys, stocks_'[l] # NoStock,
                          ~Live(stocks_[l])'
                   PROVE  Erasing(stocks_[l])'
        BY DEF NoEntryLeftBehind
      <4>1. l # k /\ stocks_'[l] = stocks_[l]
        BY <3>a
      <4>2. ~Live(stocks_[l]) /\ Alive
        BY <3>a, <4>1
      <4> QED
        BY <3>a, <4>1, <4>2
    <3>7. FoundUnlessOvertaken'
      <4> SUFFICES ASSUME ~overtaken', NEW s \in 1 .. Len(key_'), (Live(s) \/ Erasing(s))'
                   PROVE  stocks_'[key_'[s]] = s
        BY DEF FoundUnlessOvertaken
      <4>1. stocks_[k] = NoStock /\ ~overtaken
        BY <2>2 DEF GetNew
      <4>2. CASE s = n
        BY <3>a, <4>2
      <4>3. CASE s # n
        <5>1. s \in 1 .. Len(key_) /\ key_'[s] = key_[s]
          BY <3>a, <4>3
        <5>2. Live(s) \/ Erasing(s)
          BY <3>a, <3>b, <4>3, <5>1
        <5>3. stocks_[key_[s]] = s
          BY <4>1, <5>1, <5>2
        <5> QED
          BY <3>a, <4>1, <5>1, <5>3
      <4> QED
        BY <4>2, <4>3
    <3> QED
      BY <3>1, <3>2, <3>3, <3>4, <3>5, <3>6, <3>7
  <2>3. ASSUME NEW t \in Threads, NEW s \in owns[t], Release(t, s)
        PROVE  IInv'
    <3>0. /\ pc[t] = "idle" /\ s \in Stocks /\ s # NoStock
          /\ t \notin factory
      BY <2>3 DEF Release
    <3>1. TypeOK'
      <4>1. CASE \E u \in Threads \ {t} : s \in owns[u]
        BY <2>3, <4>1 DEF Release
      <4>2. CASE ~ \E u \in Threads \ {t} : s \in owns[u]
        BY <2>3, <3>0, <4>2 DEF Release
      <4> QED
        BY <4>1, <4>2
    <3>2. MadeInv'
      BY <2>3 DEF Release
    <3>3. NothingDeadIsOwned'
      BY <2>3 DEF Release
    <3>4. DeletedOnce'
      BY <2>3 DEF Release
    <3>5. FactoryOutlivesRemoval'
      BY <2>3 DEF Release
    <3>6. NoEntryLeftBehind'
      BY <2>3 DEF Release
    <3>7. FoundUnlessOvertaken'
      BY <2>3 DEF Release
    <3> QED
      BY <3>1, <3>2, <3>3, <3>4, <3>5, <3>6, <3>7
  <2>4. ASSUME NEW t \in Threads, ReleaseFactory(t)
        PROVE  IInv'
    <3>1. TypeOK'
      BY <2>4 DEF ReleaseFactory
    <3>2. MadeInv'
      BY <2>4 DEF ReleaseFactory
    <3>3. NothingDeadIsOwned'
      BY <2>4 DEF ReleaseFactory
    <3>4. DeletedOnce'
      BY <2>4 DEF ReleaseFactory
    <3>5. FactoryOutlivesRemoval'
      BY <2>4 DEF ReleaseFactory
    <3>6. NoEntryLeftBehind'
      BY <2>4 DEF ReleaseFactory
    <3>7. FoundUnlessOvertaken'
      BY <2>4 DEF ReleaseFactory
    <3> QED
      BY <3>1, <3>2, <3>3, <3>4, <3>5, <3>6, <3>7
  <2>5. ASSUME NEW t \in Threads, Lock(t)
        PROVE  IInv'
    <3>1. TypeOK'
      BY <2>5 DEF Lock
    <3>2. MadeInv'
      BY <2>5 DEF Lock
    <3>3. NothingDeadIsOwned'
      BY <2>5 DEF Lock
    <3>4. DeletedOnce'
      BY <2>5 DEF Lock
    <3>5. FactoryOutlivesRemoval'
      BY <2>5 DEF Lock
    <3>6. NoEntryLeftBehind'
      <4>1. CASE Alive
        BY SMTT(30), <2>5, <4>1 DEF Lock
      <4>2. CASE ~Alive
        <5>1. ~Alive'
          BY <2>5, <4>2 DEF Lock
        <5> QED
          BY <5>1
      <4> QED
        BY <4>1, <4>2
    <3>7. FoundUnlessOvertaken'
      BY <2>5 DEF Lock
    <3> QED
      BY <3>1, <3>2, <3>3, <3>4, <3>5, <3>6, <3>7
  <2>6. ASSUME NEW t \in Threads, removeStock(t)
        PROVE  IInv'
    <3>1. TypeOK'
      BY <2>6 DEF removeStock
    <3>2. MadeInv'
      BY <2>6 DEF removeStock
    <3>3. NothingDeadIsOwned'
      BY <2>6 DEF removeStock
    <3>4. DeletedOnce'
      BY <2>6 DEF removeStock
    <3>5. FactoryOutlivesRemoval'
      BY <2>6 DEF removeStock
    <3>6. NoEntryLeftBehind'
      BY <2>6 DEF removeStock
    <3>7. FoundUnlessOvertaken'
      BY <2>6 DEF removeStock
    <3> QED
      BY <3>1, <3>2, <3>3, <3>4, <3>5, <3>6, <3>7
  <2>7. ASSUME NEW t \in Threads, Delete(t)
        PROVE  IInv'
    <3>0. stock[t] \in Stocks /\ stock[t] \in 1 .. Len(key_)
      BY <2>7 DEF Delete
    <3>a. deleted \subseteq Stocks /\ deleted \subseteq 1 .. Len(key_)
      OBVIOUS
    <3>b. deleted' = deleted \union {stock[t]}
      BY <2>7 DEF Delete
    <3>c. deleted' \subseteq Stocks /\ deleted' \subseteq 1 .. Len(key_)
      <4> HIDE DEF IInv, TypeOK, MadeInv, Stocks
      <4> QED
        BY <3>0, <3>a, <3>b
    <3>1. TypeOK'
      <4>1. stock' \in [Threads -> Stocks \union {NoStock}]
        BY <2>7, <3>0 DEF Delete
      <4>2. \A u \in Threads : (pc[u] = "idle" <=> stock[u] = NoStock)'
        BY <2>7, <3>0 DEF Delete
      <4>3. (factory \subseteq {u \in Threads : pc[u] \in {"remove", "delete"}})'
        <5> SUFFICES ASSUME NEW u \in factory'
                     PROVE  u \in Threads /\ pc'[u] \in {"remove", "delete"}
          OBVIOUS
        <5>1. u \in factory /\ u # t
          BY <2>7 DEF Delete
        <5>2. u \in Threads /\ pc[u] \in {"remove", "delete"}
          BY <5>1
        <5> QED
          BY <2>7, <5>1, <5>2 DEF Delete
      <4> QED
        BY <2>7, <3>c, <4>1, <4>2, <4>3 DEF Delete
    <3>2. MadeInv'
      <4>1. \A u \in Threads : (pc[u] = "remove" => u \in factory)'
        BY <2>7, <3>0 DEF Delete
      <4> QED
        BY <2>7, <3>c, <4>1 DEF Delete
    <3>3. NothingDeadIsOwned'
      BY <2>7 DEF Delete
    <3>4. DeletedOnce'
      BY <2>7 DEF Delete
    <3>5. FactoryOutlivesRemoval'
      BY <2>7 DEF Delete
    <3>6. NoEntryLeftBehind'
      BY <2>7 DEF Delete
    <3>7. FoundUnlessOvertaken'
      BY <2>7 DEF Delete
    <3> QED
      BY <3>1, <3>2, <3>3, <3>4, <3>5, <3>6, <3>7
  <2>8. CASE UNCHANGED vars
    BY <2>8 DEF vars
  <2> QED
    BY <2>1, <2>2, <2>3, <2>4, <2>5, <2>6, <2>7, <2>8 DEF Next, weakDeleteCallback
<1> QED
  BY <1>1, <1>2, PTL DEF Spec

(* Every reachable state of the factory is typed; each thread's deleter is *)
(* called for a stock exactly while it runs.                               *)
THEOREM StockTyping == Spec => []TypeOK
<1>1. IInv => TypeOK
  BY DEF IInv
<1> QED
  BY <1>1, StockInductive, PTL

(* get (main.cpp:46-62) never hands out a stock whose deleter has begun,   *)
(* and the deleter (main.cpp:70-79) deletes each stock at most once.       *)
THEOREM NoResurrection == Spec => []EndsOnce
<1>1. IInv => EndsOnce
  BY DEF IInv, EndsOnce
<1> QED
  BY <1>1, StockInductive, PTL

(* removeStock (main.cpp:81-88) never runs on a factory that is gone.      *)
THEOREM FactoryIsKept == Spec => []FactoryOutlivesRemoval
<1>1. IInv => FactoryOutlivesRemoval
  BY DEF IInv
<1> QED
  BY <1>1, StockInductive, PTL

(* The map of the factory does not grow with the stocks that are gone.     *)
THEOREM MapIsTidy == Spec => []NoEntryLeftBehind
<1>1. IInv => NoEntryLeftBehind
  BY DEF IInv
<1> QED
  BY <1>1, StockInductive, PTL

(* The one way to two stocks of a key is a get that meets a stock whose    *)
(* deleter has not erased it yet (main.cpp:86 erases the key regardless).  *)
THEOREM OnlyByOvertaking == Spec => []FoundUnlessOvertaken
<1>1. IInv => FoundUnlessOvertaken
  BY DEF IInv
<1> QED
  BY <1>1, StockInductive, PTL

====
