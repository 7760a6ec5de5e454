SPECIFICATION Spec
CONSTANTS
  Threads = {t1, t2}
  InitNum = 2
  MaxNum = 2
  IncNum = 1
  MaxNums = {}
  IncNums = {}
  Locking = FALSE
  None = None
INVARIANT NoSharing
CHECK_DEADLOCK FALSE
