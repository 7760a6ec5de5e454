SPECIFICATION Spec
CONSTANTS
  Threads = {t1}
  SeqSize = 4
  MaxClock = 2
  MaxBack = 0
  MaxIds = 3
  Unlocked = Unlocked
INVARIANT NoDuplicates
CHECK_DEADLOCK FALSE
