---- MODULE Toolbox ----
(***************************************************************************)
(* The parts of the repository that nothing else here uses and that use    *)
(* nothing else, each in a module of its own, checked side by side: a      *)
(* behaviour is a behaviour of one of them, and the variables of the       *)
(* others are "idle" in it. WorkerProcess and Daemon are extended, so that *)
(* what is proved of them is what is checked here: LockedServesAlone,      *)
(* SomebodyServes, Ours, Backoff and Respawn are theirs, and so are        *)
(* DaemonInit and DaemonNext, Init and Next. Idle is a master that is dead *)
(* and has no worker, and are daemons whose processes were killed.         *)
(***************************************************************************)
EXTENDS WorkerProcess, Daemon, Sequences

CONSTANTS
  Keys, Values,                                         \* LruMap, LruCache
  Capacities, Lifetimes, VacateCount, MaxNow,           \* LruMap
  CacheCapacities,                                      \* LruCache
  PoolSize, MaxGets,                                    \* FreeRing
  MaxObjects,                                           \* PointerPool
  kBlockSize, Align, PointerSize, Requests, MaxAllocations,  \* Arena
  Places, Contents, Blocks,                             \* OwnedValue
  TimerIds, MaxQueue,                                   \* AsioTimer
  RemoteSize, MaxFaults,                                \* Download
  MaxStrings,                                           \* ClientWriter
  Users, Objects                                        \* AtomicSharedPtr

(* What the definitions of the parts take for granted of the constants.    *)
ASSUME ToolboxAssumption ==
  /\ Capacities \subseteq Nat /\ Lifetimes \subseteq Nat /\ MaxNow \in Nat
  /\ VacateCount \in Nat \ {0} /\ CacheCapacities \subseteq Nat
  /\ PoolSize \in Nat \ {0, 1} /\ MaxGets \in Nat /\ MaxObjects \in Nat
  /\ Requests \subseteq Nat \ {0} /\ PointerSize \in Nat /\ MaxAllocations \in Nat
  /\ kBlockSize \in Nat \ {0} /\ Align \in Nat \ {0} /\ kBlockSize % Align = 0
  /\ IsFiniteSet(Places) /\ IsFiniteSet(Blocks) /\ 0 \notin Blocks
  /\ Cardinality(Places) <= Cardinality(Blocks) /\ "none" \notin Contents
  /\ RemoteSize \in Nat \ {0} /\ MaxFaults \in Nat
  /\ MaxQueue \in Nat \ {0} /\ MaxStrings \in Nat
  /\ IsFiniteSet(Users) /\ 0 \notin Objects

VARIABLES
  part,
  lru, now, lruUsed, lruLatest,
  cache, cacheUsed,
  ring, ringOut,
  pool, poolMade, poolOut,
  arena, handed,
  ovType, ovState, ovHeap, ovMeant,
  asioMap, asioWaits, asioSetting, asioQueue, asioCalling, asioStopped, asioMissed,
  dlAt, dlStop, dlFile, dlBuffer, dlStart, dlRet, dlResult, dlReported, dlRefuses,
  dlFaults, dlUnnoticed,
  cwMain, cwThread, cwHandle, cwQueue, cwCalls, cwWritten, cwAccepted,
  spPc, spMutex, spStorage, spHeld, spArg, spCount

L == INSTANCE LruMap
C == INSTANCE LruCache
R == INSTANCE FreeRing
P == INSTANCE PointerPool
A == INSTANCE Arena
V == INSTANCE OwnedValue
T == INSTANCE AsioTimer
D == INSTANCE Download
W == INSTANCE ClientWriter
S == INSTANCE AtomicSharedPtr

lruVars == <<lru, now, lruUsed, lruLatest>>
cacheVars == <<cache, cacheUsed>>
ringVars == <<ring, ringOut>>
poolVars == <<pool, poolMade, poolOut>>
arenaVars == <<arena, handed>>
ovVars == <<ovType, ovState, ovHeap, ovMeant>>
asioVars == <<asioMap, asioWaits, asioSetting, asioQueue, asioCalling, asioStopped,
              asioMissed>>
dlVars == <<dlAt, dlStop, dlFile, dlBuffer, dlStart, dlRet, dlResult, dlReported,
            dlRefuses, dlFaults, dlUnnoticed>>
cwVars == <<cwMain, cwThread, cwHandle, cwQueue, cwCalls, cwWritten, cwAccepted>>
spVars == <<spPc, spMutex, spStorage, spHeld, spArg, spCount>>

toolboxVars == <<part, lruVars, cacheVars, ringVars, poolVars, arenaVars, ovVars,
                 asioVars, dlVars, cwVars, dmVars, spVars, vars>>

IdleLruMap ==
  /\ lru = "idle" /\ now = "idle" /\ lruUsed = "idle"
  /\ lruLatest = "idle"
IdleLruCache ==
  /\ cache = "idle" /\ cacheUsed = "idle"
IdleFreeRing ==
  /\ ring = "idle" /\ ringOut = "idle"
IdlePointerPool ==
  /\ pool = "idle" /\ poolMade = "idle" /\ poolOut = "idle"
IdleArena ==
  /\ arena = "idle" /\ handed = "idle"
IdleOwnedValue ==
  /\ ovType = "idle" /\ ovState = "idle" /\ ovHeap = "idle"
  /\ ovMeant = "idle"
IdleAsioTimer ==
  /\ asioMap = "idle" /\ asioWaits = "idle"
  /\ asioSetting = "idle" /\ asioQueue = "idle"
  /\ asioCalling = "idle" /\ asioStopped = "idle"
  /\ asioMissed = "idle"
IdleDownload ==
  /\ dlAt = "idle" /\ dlStop = "idle" /\ dlFile = "idle"
  /\ dlBuffer = "idle" /\ dlStart = "idle" /\ dlRet = "idle"
  /\ dlResult = "idle" /\ dlReported = "idle"
  /\ dlRefuses = "idle" /\ dlFaults = "idle"
  /\ dlUnnoticed = "idle"
IdleClientWriter ==
  /\ cwMain = "idle" /\ cwThread = "idle" /\ cwHandle = "idle"
  /\ cwQueue = "idle" /\ cwCalls = "idle" /\ cwWritten = "idle"
  /\ cwAccepted = "idle"
IdleAtomicSharedPtr ==
  /\ spPc = "idle" /\ spMutex = "idle" /\ spStorage = "idle"
  /\ spHeld = "idle" /\ spArg = "idle" /\ spCount = "idle"
IdleDaemon ==
  /\ dmPc = [p \in Procs |-> "gone"]
  /\ dmLock = {} /\ dmFile = {} /\ dmUnlocked = {}
  /\ dmFaults = 1 /\ dmOwnParent = FALSE
IdleWorkerProcess ==
  /\ proc = [p \in Pids |-> "free"]
  /\ g_pidWorker = 0 /\ inherited = [p \in Pids |-> 0]
  /\ pc = "dead" /\ ret = 0
  /\ m_timevalCurrent = Min /\ timeout = Min
  /\ fails = 0 /\ born = FALSE

ToolboxInit ==
  /\ part \in {"LruMap", "LruCache", "FreeRing", "PointerPool", "Arena",
               "OwnedValue", "AsioTimer", "Download", "ClientWriter", "Daemon",
               "AtomicSharedPtr", "WorkerProcess"}
  /\ IF part = "LruMap" THEN L!Init ELSE IdleLruMap
  /\ IF part = "LruCache" THEN C!Init ELSE IdleLruCache
  /\ IF part = "FreeRing" THEN R!Init ELSE IdleFreeRing
  /\ IF part = "PointerPool" THEN P!Init ELSE IdlePointerPool
  /\ IF part = "Arena" THEN A!Init ELSE IdleArena
  /\ IF part = "OwnedValue" THEN V!Init ELSE IdleOwnedValue
  /\ IF part = "AsioTimer" THEN T!Init ELSE IdleAsioTimer
  /\ IF part = "Download" THEN D!Init ELSE IdleDownload
  /\ IF part = "ClientWriter" THEN W!Init ELSE IdleClientWriter
  /\ IF part = "Daemon" THEN DaemonInit ELSE IdleDaemon
  /\ IF part = "AtomicSharedPtr" THEN S!Init ELSE IdleAtomicSharedPtr
  /\ IF part = "WorkerProcess" THEN Init ELSE IdleWorkerProcess

(* One step of the part that the behaviour is of.                          *)
LruMapStep ==
  /\ part = "LruMap" /\ L!Next
  /\ UNCHANGED <<part, cacheVars, ringVars, poolVars, arenaVars, ovVars,
                  asioVars, dlVars, cwVars, dmVars, spVars, vars>>
LruCacheStep ==
  /\ part = "LruCache" /\ C!Next
  /\ UNCHANGED <<part, lruVars, ringVars, poolVars, arenaVars, ovVars,
                  asioVars, dlVars, cwVars, dmVars, spVars, vars>>
FreeRingStep ==
  /\ part = "FreeRing" /\ R!Next
  /\ UNCHANGED <<part, lruVars, cacheVars, poolVars, arenaVars, ovVars,
                  asioVars, dlVars, cwVars, dmVars, spVars, vars>>
PointerPoolStep ==
  /\ part = "PointerPool" /\ P!Next
  /\ UNCHANGED <<part, lruVars, cacheVars, ringVars, arenaVars, ovVars,
                  asioVars, dlVars, cwVars, dmVars, spVars, vars>>
ArenaStep ==
  /\ part = "Arena" /\ A!Next
  /\ UNCHANGED <<part, lruVars, cacheVars, ringVars, poolVars, ovVars,
                  asioVars, dlVars, cwVars, dmVars, spVars, vars>>
OwnedValueStep ==
  /\ part = "OwnedValue" /\ V!Next
  /\ UNCHANGED <<part, lruVars, cacheVars, ringVars, poolVars, arenaVars,
                  asioVars, dlVars, cwVars, dmVars, spVars, vars>>
AsioTimerStep ==
  /\ part = "AsioTimer" /\ T!Next
  /\ UNCHANGED <<part, lruVars, cacheVars, ringVars, poolVars, arenaVars,
                  ovVars, dlVars, cwVars, dmVars, spVars, vars>>
DownloadStep ==
  /\ part = "Download" /\ D!Next
  /\ UNCHANGED <<part, lruVars, cacheVars, ringVars, poolVars, arenaVars,
                  ovVars, asioVars, cwVars, dmVars, spVars, vars>>
ClientWriterStep ==
  /\ part = "ClientWriter" /\ W!Next
  /\ UNCHANGED <<part, lruVars, cacheVars, ringVars, poolVars, arenaVars,
                  ovVars, asioVars, dlVars, dmVars, spVars, vars>>
DaemonStep ==
  /\ part = "Daemon" /\ DaemonNext
  /\ UNCHANGED <<part, lruVars, cacheVars, ringVars, poolVars, arenaVars,
                  ovVars, asioVars, dlVars, cwVars, spVars, vars>>
AtomicSharedPtrStep ==
  /\ part = "AtomicSharedPtr" /\ S!Next
  /\ UNCHANGED <<part, lruVars, cacheVars, ringVars, poolVars, arenaVars,
                  ovVars, asioVars, dlVars, cwVars, dmVars, vars>>
WorkerProcessStep ==
  /\ part = "WorkerProcess" /\ Next
  /\ UNCHANGED <<part, lruVars, cacheVars, ringVars, poolVars, arenaVars,
                  ovVars, asioVars, dlVars, cwVars, dmVars, spVars>>

ToolboxNext ==
  \/ LruMapStep \/ LruCacheStep \/ FreeRingStep \/ PointerPoolStep \/ ArenaStep
  \/ OwnedValueStep \/ AsioTimerStep \/ DownloadStep \/ ClientWriterStep
  \/ DaemonStep \/ AtomicSharedPtrStep \/ WorkerProcessStep

(* The fairness of a part that is idle says nothing: none of the actions   *)
(* it is about is enabled.                                                 *)
ToolboxSpec ==
  /\ ToolboxInit /\ [][ToolboxNext]_toolboxVars
  /\ D!Fairness /\ DaemonFairness /\ WF_vars(Master)

-----------------------------------------------------------------------------
(* The types of the part that runs.                                        *)
ToolboxTypes ==
  /\ part = "LruMap" => L!TypeOK
  /\ part = "LruCache" => C!TypeOK
  /\ part = "FreeRing" => R!TypeOK
  /\ part = "PointerPool" => P!TypeOK
  /\ part = "Arena" => A!TypeOK
  /\ part = "OwnedValue" => V!TypeOK
  /\ part = "AsioTimer" => T!TypeOK
  /\ part = "Download" => D!TypeOK
  /\ part = "ClientWriter" => W!TypeOK
  /\ part = "AtomicSharedPtr" => S!TypeOK
  /\ DaemonTypeOK
  /\ TypeOK

(* Both caches hold the keys used last, in the order of their use, and the *)
(* map finds under each what was put last, whatever is evicted, erased,    *)
(* expired or cleared between (lurmap.h:76-141, lrucache.h:35-97).         *)
Recency ==
  /\ part = "LruMap" => L!Recency
  /\ part = "LruCache" => C!Recency

(* The map never grows above its capacity, also when the capacity is set   *)
(* while it is in use (lurmap.h:62-74, 93-114).                            *)
WithinCapacity == [][part = "LruMap" => L!WithinCapacity]_lru

(* What is handed out has one holder until it is given back, what is given *)
(* back has none, and what is shared lives while it is held: slots of the  *)
(* ring (object_pool.cpp:82-95), pooled objects (objectpool.h:27-58),      *)
(* pieces of the arena (arena.cpp:18-58), blocks behind a Status or a      *)
(* hyper_function (status.h:89-108, hyper_function.h:53-100), objects      *)
(* behind an AtomicSharedPtr (save_obj_main.cpp:33-52).                    *)
Ownership ==
  /\ part = "FreeRing" => R!OneHolder
  /\ part = "PointerPool" => P!OneHolder
  /\ part = "Arena" => A!OneHolder
  /\ part = "OwnedValue" => V!OneOwner
  /\ part = "AtomicSharedPtr" => S!LivesWhileHeld

(* A timer of asio_timer in the map goes on firing until it is killed      *)
(* (asio_timer_base.cpp:20-68).                                            *)
StaysArmed == part = "AsioTimer" => T!StaysArmed

(* What arrives is a beginning of what was sent, in order and without      *)
(* gaps: the file of a download that is resumed, unless a failure the code *)
(* does not look at came between (CurlDown.cpp:101-212), the strings the   *)
(* pipe client writes (WritePipe.cpp:64-134).                              *)
InOrder ==
  /\ part = "Download" => D!FileIsPrefix
  /\ part = "ClientWriter" => W!WrittenInOrder

(* The delegate of a download is told how it ended (CurlDown.cpp:214-248). *)
Reports == part = "Download" => D!Reports
====
