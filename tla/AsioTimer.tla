---- MODULE AsioTimer ----
(***************************************************************************)
(* timer_demo/asio_timer_base.cpp: timers on a boost::asio io_service that *)
(* one thread runs.  The main thread sets timers; callbacks, on the io     *)
(* thread, kill and set them, as main.cpp:14 does.  A wait that ended is   *)
(* queued, and a cancel reaches only the waits that are not; a cancelled   *)
(* wait completes with an error, for which ontimer_internal does nothing,  *)
(* and is left out.                                                        *)
(*                                                                         *)
(* Both threads use map_timer_ and the timers in it without a lock (:21 is *)
(* commented out).  The model takes each call on them for atomic: what two *)
(* that overlap do to the map is not defined.                              *)
(*                                                                         *)
(* asioMissed is history: the ids of which a completion was handled while  *)
(* set_timer was between arming and inserting a timer.                     *)
(***************************************************************************)
EXTENDS Naturals, Sequences

CONSTANTS TimerIds, MaxQueue

VARIABLES asioMap,      \* the ids in map_timer_
          asioWaits,    \* those of them whose steady_timer waits
          asioSetting,  \* the call of set_timer of the main thread
          asioQueue,    \* completions and posted calls for the io thread
          asioCalling,  \* ids whose callback runs: one or none
          asioStopped,  \* the destructor has run
          asioMissed

asioVars == <<asioMap, asioWaits, asioSetting, asioQueue, asioCalling,
              asioStopped, asioMissed>>

Entry == [what : {"ended", "posted"}, id : TimerIds]

TypeOK ==
  /\ asioMap \subseteq TimerIds
  /\ asioWaits \subseteq asioMap
  /\ asioSetting \in [at : {"out", "post", "arm", "insert"}, id : TimerIds,
                      waits : BOOLEAN]
  /\ asioQueue \in Seq(Entry) /\ Len(asioQueue) <= MaxQueue
  /\ asioCalling \subseteq TimerIds
  /\ asioStopped \in BOOLEAN
  /\ asioMissed \subseteq TimerIds

Init ==
  /\ asioMap = {} /\ asioWaits = {} /\ asioCalling = {} /\ asioMissed = {}
  /\ asioSetting \in [at : {"out"}, id : TimerIds, waits : {FALSE}]
  /\ asioQueue = <<>>
  /\ asioStopped = FALSE

(* set_timer has armed a timer of this id that is not in the map yet.      *)
Arming(id) == asioSetting.at = "insert" /\ asioSetting.id = id

Queued(what, id) ==
  /\ Len(asioQueue) < MaxQueue
  /\ asioQueue' = Append(asioQueue, [what |-> what, id |-> id])

-----------------------------------------------------------------------------
(* set_timer on the main thread, step by step: the io thread runs between. *)

SetBegins(id) ==
  /\ asioSetting.at = "out" /\ ~asioStopped
  /\ id \notin asioMap
  /\ asioSetting' = [at |-> "post", id |-> id, waits |-> FALSE]
  /\ asioMissed' = asioMissed \ {id}
  /\ UNCHANGED <<asioMap, asioWaits, asioQueue, asioCalling, asioStopped>>

Post(run_once) ==
  /\ asioSetting.at = "post"
  /\ IF run_once THEN Queued("posted", asioSetting.id) ELSE UNCHANGED asioQueue
  /\ asioSetting' = [asioSetting EXCEPT !.at = "arm"]
  /\ UNCHANGED <<asioMap, asioWaits, asioCalling, asioStopped, asioMissed>>

Arm ==
  /\ asioSetting.at = "arm"
  /\ asioSetting' = [asioSetting EXCEPT !.at = "insert", !.waits = TRUE]
  /\ UNCHANGED <<asioMap, asioWaits, asioQueue, asioCalling, asioStopped, asioMissed>>

(* insert keeps an entry that a callback has made under the id meanwhile,  *)
(* and the timer armed here is destroyed, which cancels its wait.          *)
Insert ==
  LET id == asioSetting.id
      new == id \notin asioMap
  IN  /\ asioSetting.at = "insert"
      /\ asioMap' = asioMap \union {id}
      /\ asioWaits' = IF new /\ asioSetting.waits THEN asioWaits \union {id} ELSE asioWaits
      /\ asioSetting' = [asioSetting EXCEPT !.at = "out", !.waits = FALSE]
      /\ UNCHANGED <<asioQueue, asioCalling, asioStopped, asioMissed>>

-----------------------------------------------------------------------------
(* asio: the wait of a timer in the map, or of the one being set, ends.    *)
WaitEnds(id) ==
  /\ ~asioStopped
  /\ \/ /\ id \in asioWaits
        /\ asioWaits' = asioWaits \ {id}
        /\ UNCHANGED asioSetting
     \/ /\ asioSetting.id = id /\ asioSetting.waits
        /\ asioSetting' = [asioSetting EXCEPT !.waits = FALSE]
        /\ UNCHANGED asioWaits
  /\ Queued("ended", id)
  /\ UNCHANGED <<asioMap, asioCalling, asioStopped, asioMissed>>

(* The io thread is free and takes the first entry.                        *)
Takes(entry) ==
  /\ ~asioStopped /\ asioCalling = {}
  /\ asioQueue # <<>> /\ entry = Head(asioQueue)
  /\ asioQueue' = Tail(asioQueue)
  /\ UNCHANGED <<asioMap, asioSetting, asioStopped>>

RunPosted(id) ==
  /\ Takes([what |-> "posted", id |-> id])
  /\ asioCalling' = {id}
  /\ UNCHANGED <<asioWaits, asioMissed>>

(* expires_from_now cancels the wait there may be, and async_wait waits    *)
(* anew, before the callback is called.                                    *)
ontimer_internal(id) ==
  /\ Takes([what |-> "ended", id |-> id])
  /\ IF id \in asioMap
       THEN /\ asioWaits' = asioWaits \union {id}
            /\ asioCalling' = {id}
       ELSE UNCHANGED <<asioWaits, asioCalling>>
  /\ asioMissed' = IF Arming(id) THEN asioMissed \union {id} ELSE asioMissed \ {id}

(* Mutant: the wait is cancelled, but the entry stays. *)
KillKeepsEntry(id) ==
  /\ asioCalling # {} /\ id \in asioMap
  /\ asioWaits' = asioWaits \ {id}
  /\ UNCHANGED <<asioMap, asioSetting, asioQueue, asioCalling, asioStopped, asioMissed>>

(* By a callback.  A completion that is queued stays.                      *)
kill_timer(id) ==
  /\ asioCalling # {} /\ id \in asioMap
  /\ asioMap' = asioMap \ {id}
  /\ asioWaits' = asioWaits \ {id}
  /\ UNCHANGED <<asioSetting, asioQueue, asioCalling, asioStopped, asioMissed>>

(* By a callback: no completion runs before it has inserted the timer.     *)
set_timer(id, run_once) ==
  /\ asioCalling # {} /\ id \notin asioMap
  /\ IF run_once THEN Queued("posted", id) ELSE UNCHANGED asioQueue
  /\ asioMap' = asioMap \union {id}
  /\ asioWaits' = asioWaits \union {id}
  /\ asioMissed' = IF Arming(id) THEN asioMissed ELSE asioMissed \ {id}
  /\ UNCHANGED <<asioSetting, asioCalling, asioStopped>>

(* It returns, or throws, and io_main_thread calls run again.              *)
CallbackEnds ==
  /\ asioCalling # {}
  /\ asioCalling' = {}
  /\ UNCHANGED <<asioMap, asioWaits, asioSetting, asioQueue, asioStopped, asioMissed>>

(* The destructor stops the service and does not join the thread: the      *)
(* callback that runs goes on.                                             *)
Stop ==
  /\ asioSetting.at = "out" /\ ~asioStopped
  /\ asioStopped' = TRUE
  /\ UNCHANGED <<asioMap, asioWaits, asioSetting, asioQueue, asioCalling, asioMissed>>

Next ==
  \/ \E id \in TimerIds : \/ SetBegins(id) \/ WaitEnds(id) \/ RunPosted(id)
                          \/ ontimer_internal(id) \/ kill_timer(id)
                          \/ \E run_once \in BOOLEAN : set_timer(id, run_once)
  \/ \E run_once \in BOOLEAN : Post(run_once)
  \/ Arm \/ Insert \/ CallbackEnds \/ Stop

Spec == Init /\ [][Next]_asioVars

-----------------------------------------------------------------------------
(* A timer in the map goes on firing: it waits, or the end of its wait is  *)
(* queued.  Kills, sets under the same id, completions left behind by an   *)
(* earlier timer, and callbacks that throw take no timer's wait away       *)
(* (asio_timer_base.cpp:51-63).  The one exception is a wait that ended    *)
(* and was handled after :40 armed it and before :41 inserted the timer.   *)
StaysArmed ==
  \A id \in asioMap \ asioMissed :
    \/ id \in asioWaits
    \/ \E i \in 1 .. Len(asioQueue) : asioQueue[i] = [what |-> "ended", id |-> id]
====
