SPECIFICATION ToolboxSpec
CONSTANTS
  Keys = {k1, k2, k3}
  Values = {v1, v2}
  Capacities = {0, 1, 2}
  Lifetimes = {0}
  VacateCount = 1
  MaxNow = 1
  CacheCapacities = {1, 2}
  PoolSize = 4
  MaxGets = 8
  MaxObjects = 4
  kBlockSize = 12
  Align = 2
  PointerSize = 1
  Requests = {1, 2, 3, 5}
  MaxAllocations = 4
  Places = {"a", "b", "c"}
  Contents = {"x", "y"}
  Blocks = {1, 2, 3}
  TimerIds = {1, 2}
  MaxQueue = 2
  RemoteSize = 3
  MaxFaults = 2
  MaxKills = 1
  MaxStrings = 3
  Instances = {i1, i2, i3}
  Users = {t1, t2}
  Objects = {1, 2, 3}
  Pids = {1, 2, 3}
  Min = 1
  Max = 5
  MaxFails = 4
INVARIANTS ToolboxTypes Recency Ownership StaysArmed InOrder LockedServesAlone Ours Backoff
PROPERTIES WithinCapacity Reports SomebodyServes Respawn
CHECK_DEADLOCK FALSE
