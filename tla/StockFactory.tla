---- MODULE StockFactory ----
(***************************************************************************)
(* StockFactory/main.cpp: a factory that hands out shared pointers to      *)
(* stocks and keeps weak ones in a map from keys.  When the last owner of  *)
(* a stock lets it go, the deleter it was made with runs in that thread:   *)
(* it tries to get hold of the factory, has it erase the key, and deletes  *)
(* the stock.  The factory itself is shared, and may go first.             *)
(*                                                                         *)
(* get and removeStock are under m_mutex and call out to nobody: each is   *)
(* one step.  Stocks are numbered as they are made, and never reused;      *)
(* MaxStocks bounds them.                                                  *)
(***************************************************************************)
EXTENDS Naturals, Sequences

CONSTANTS Threads, Keys, MaxStocks, NoStock

ASSUME StockAssumption == MaxStocks \in Nat /\ NoStock \notin Nat

Stocks == 1 .. MaxStocks

VARIABLES stocks_,   \* the stock each key leads to, or NoStock
          key_,      \* the keys of the stocks made, in order
          owns,      \* the stocks each thread has shared pointers to
          clients,   \* the threads with a shared pointer to the factory
          pc,        \* where each thread is in the deleter
          stock,     \* the stock its deleter is called for
          factory,   \* the threads whose deleter has got hold of the factory
          deleted,
          overtaken  \* whether a stock was made over one that is being deleted

vars == <<stocks_, key_, owns, clients, pc, stock, factory, deleted, overtaken>>

TypeOK ==
  /\ stocks_ \in [Keys -> Stocks \union {NoStock}]
  /\ key_ \in Seq(Keys) /\ Len(key_) <= MaxStocks
  /\ owns \in [Threads -> SUBSET Stocks]
  /\ clients \subseteq Threads
  /\ pc \in [Threads -> {"idle", "lock", "remove", "delete"}]
  /\ stock \in [Threads -> Stocks \union {NoStock}]
  /\ \A t \in Threads : pc[t] = "idle" <=> stock[t] = NoStock
  /\ factory \subseteq {t \in Threads : pc[t] \in {"remove", "delete"}}
  /\ deleted \subseteq Stocks
  /\ overtaken \in BOOLEAN

Init ==
  /\ stocks_ = [k \in Keys |-> NoStock]
  /\ key_ = <<>>
  /\ owns = [t \in Threads |-> {}]
  /\ clients = Threads
  /\ pc = [t \in Threads |-> "idle"]
  /\ stock = [t \in Threads |-> NoStock]
  /\ factory = {}
  /\ deleted = {}
  /\ overtaken = FALSE

Live(s) == \E t \in Threads : s \in owns[t]
Alive == clients \union factory # {}

-----------------------------------------------------------------------------
(* get: the weak pointer of the key leads to a stock as long as somebody   *)
(* owns it.  An entry whose stock is being deleted is written over.        *)

(* Mutant: the map keeps the pointer itself. *)
GetDead(t, k) ==
  /\ t \in clients /\ pc[t] = "idle"
  /\ stocks_[k] # NoStock
  /\ owns' = [owns EXCEPT ![t] = owns[t] \union {stocks_[k]}]
  /\ UNCHANGED <<stocks_, key_, clients, pc, stock, factory, deleted, overtaken>>

GetLive(t, k) ==
  /\ t \in clients /\ pc[t] = "idle"
  /\ stocks_[k] # NoStock /\ Live(stocks_[k])
  /\ owns' = [owns EXCEPT ![t] = owns[t] \union {stocks_[k]}]
  /\ UNCHANGED <<stocks_, key_, clients, pc, stock, factory, deleted, overtaken>>

GetNew(t, k) ==
  /\ t \in clients /\ pc[t] = "idle"
  /\ ~Live(stocks_[k])
  /\ Len(key_) < MaxStocks
  /\ key_' = Append(key_, k)
  /\ stocks_' = [stocks_ EXCEPT ![k] = Len(key_) + 1]
  /\ owns' = [owns EXCEPT ![t] = owns[t] \union {Len(key_) + 1}]
  /\ overtaken' = (overtaken \/ stocks_[k] # NoStock)
  /\ UNCHANGED <<clients, pc, stock, factory, deleted>>

(* A thread lets a stock go; the last owner enters weakDeleteCallback.     *)
Release(t, s) ==
  /\ s \in owns[t] /\ pc[t] = "idle"
  /\ owns' = [owns EXCEPT ![t] = owns[t] \ {s}]
  /\ IF \E u \in Threads \ {t} : s \in owns[u]
       THEN UNCHANGED <<pc, stock>>
       ELSE /\ pc' = [pc EXCEPT ![t] = "lock"]
            /\ stock' = [stock EXCEPT ![t] = s]
  /\ UNCHANGED <<stocks_, key_, clients, factory, deleted, overtaken>>

ReleaseFactory(t) ==
  /\ t \in clients /\ pc[t] = "idle"
  /\ clients' = clients \ {t}
  /\ UNCHANGED <<stocks_, key_, owns, pc, stock, factory, deleted, overtaken>>

-----------------------------------------------------------------------------
(* weakDeleteCallback.  It keeps the factory from lock to its return.      *)

Lock(t) ==
  /\ pc[t] = "lock"
  /\ IF Alive
       THEN /\ pc' = [pc EXCEPT ![t] = "remove"]
            /\ factory' = factory \union {t}
       ELSE /\ pc' = [pc EXCEPT ![t] = "delete"]
            /\ UNCHANGED factory
  /\ UNCHANGED <<stocks_, key_, owns, clients, stock, deleted, overtaken>>

(* Mutants: an entry is left if its stock is dead; the key of the stock    *)
(* made last is erased.                                                    *)
removeStockIfLive(t) ==
  /\ pc[t] = "remove"
  /\ stocks_' = [k \in Keys |-> IF k = key_[stock[t]] /\ Live(stocks_[k]) THEN NoStock ELSE stocks_[k]]
  /\ pc' = [pc EXCEPT ![t] = "delete"]
  /\ UNCHANGED <<key_, owns, clients, stock, factory, deleted, overtaken>>

removeStockLast(t) ==
  /\ pc[t] = "remove"
  /\ stocks_' = [stocks_ EXCEPT ![key_[Len(key_)]] = NoStock]
  /\ pc' = [pc EXCEPT ![t] = "delete"]
  /\ UNCHANGED <<key_, owns, clients, stock, factory, deleted, overtaken>>

(* The entry of the stock's key is erased, whatever it leads to by now.    *)
removeStock(t) ==
  /\ pc[t] = "remove"
  /\ stocks_' = [stocks_ EXCEPT ![key_[stock[t]]] = NoStock]
  /\ pc' = [pc EXCEPT ![t] = "delete"]
  /\ UNCHANGED <<key_, owns, clients, stock, factory, deleted, overtaken>>

(* Mutant: the stock is deleted only if the factory is there. *)
DeleteIfFactory(t) ==
  /\ pc[t] = "delete"
  /\ deleted' = IF t \in factory THEN deleted \union {stock[t]} ELSE deleted
  /\ factory' = factory \ {t}
  /\ stock' = [stock EXCEPT ![t] = NoStock]
  /\ pc' = [pc EXCEPT ![t] = "idle"]
  /\ UNCHANGED <<stocks_, key_, owns, clients, overtaken>>

Delete(t) ==
  /\ pc[t] = "delete"
  /\ deleted' = deleted \union {stock[t]}
  /\ factory' = factory \ {t}
  /\ stock' = [stock EXCEPT ![t] = NoStock]
  /\ pc' = [pc EXCEPT ![t] = "idle"]
  /\ UNCHANGED <<stocks_, key_, owns, clients, overtaken>>

-----------------------------------------------------------------------------
weakDeleteCallback(t) == Lock(t) \/ removeStock(t) \/ Delete(t)

Next ==
  \E t \in Threads :
    \/ \E k \in Keys : GetLive(t, k) \/ GetNew(t, k)
    \/ \E s \in owns[t] : Release(t, s)
    \/ ReleaseFactory(t)
    \/ weakDeleteCallback(t)

(* A thread inside the deleter goes on; nobody has to let anything go.     *)
Spec == Init /\ [][Next]_vars /\ \A t \in Threads : WF_vars(weakDeleteCallback(t))

-----------------------------------------------------------------------------
(* Nobody owns a stock whose deleter has begun: get cannot bring it back   *)
(* from the map, however its last release and the deleter interleave.      *)
NothingDeadIsOwned ==
  \A t \in Threads :
    /\ owns[t] \intersect deleted = {}
    /\ \A u \in Threads : stock[u] \notin owns[t]

(* Each stock is deleted once: no deleter is called for a stock that is    *)
(* deleted, nor two for one.                                               *)
DeletedOnce ==
  \A t \in Threads :
    stock[t] # NoStock => /\ stock[t] \notin deleted
                          /\ \A u \in Threads : stock[u] = stock[t] => u = t

(* The deleter works on the map of a factory that exists, also if all its  *)
(* clients let the factory go meanwhile.                                   *)
FactoryOutlivesRemoval == \A t \in Threads : pc[t] = "remove" => Alive

(* A stock comes to one end: from the last release on nobody owns it, get  *)
(* cannot revive it, and one deleter deletes it, once.                     *)
EndsOnce == NothingDeadIsOwned /\ DeletedOnce

Erasing(s) == \E t \in Threads : stock[t] = s /\ pc[t] \in {"lock", "remove"}

(* The map of a living factory does not gather dead entries: each is about *)
(* to be erased by the deleter of its stock.                               *)
NoEntryLeftBehind ==
  Alive => \A k \in Keys :
             stocks_[k] # NoStock /\ ~Live(stocks_[k]) => Erasing(stocks_[k])

(* As long as no stock is made over one that is being deleted, a stock     *)
(* that is owned, or not yet erased, is the one the map leads to.          *)
FoundUnlessOvertaken ==
  ~overtaken => \A s \in 1 .. Len(key_) :
                  Live(s) \/ Erasing(s) => stocks_[key_[s]] = s

(* What the properties rest on: threads own, and deleters are called for,  *)
(* stocks that have been made, the map leads to a stock of the key, and a  *)
(* deleter that is about to erase has hold of the factory.                 *)
MadeInv ==
  /\ \A t \in Threads : /\ owns[t] \subseteq 1 .. Len(key_)
                        /\ stock[t] # NoStock => stock[t] \in 1 .. Len(key_)
  /\ deleted \subseteq 1 .. Len(key_)
  /\ \A t \in Threads : pc[t] = "remove" => t \in factory
  /\ \A k \in Keys : stocks_[k] # NoStock =>
                      stocks_[k] \in 1 .. Len(key_) /\ key_[stocks_[k]] = k

IInv == /\ TypeOK /\ MadeInv /\ NothingDeadIsOwned /\ DeletedOnce
        /\ FactoryOutlivesRemoval /\ NoEntryLeftBehind /\ FoundUnlessOvertaken

(* A stock that nobody owns any more is deleted, with or without factory.  *)
Reclaimed == \A s \in Stocks : (\E t \in Threads : stock[t] = s) ~> s \in deleted

(* "Thread-safe" (main.cpp:2) with the assertions at :101 and :114: two    *)
(* stocks got from the factory by one key are the same.                    *)
SameStock ==
  \A t, u \in Threads : \A r \in owns[t], s \in owns[u] : key_[r] = key_[s] => r = s

====
