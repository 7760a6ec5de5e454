SPECIFICATION DaemonSpec
CONSTANTS
  Instances = {i1, i2}
  MaxKills = 1
INVARIANT OneServes
CHECK_DEADLOCK FALSE
