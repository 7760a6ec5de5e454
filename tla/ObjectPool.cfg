SPECIFICATION Spec
CONSTANTS
  Threads = {t1, t2}
  InitNum = 1
  MaxNum = 3
  IncNum = 1
  MaxNums = {0, 4}
  IncNums = {2}
  Locking = TRUE
  None = None
INVARIANTS NoSharing ObjectsConserved
PROPERTY CallsReturn
