SPECIFICATION Spec
CONSTANTS
  Workers = {w1, w2}
  Clients = {c1, c2}
  Task = {t1, t2, t3}
  Size = 4
  MaxNum = 2
  None = None
INVARIANTS
  WorkConserving
  IdleCount
  NobodyInsideWhenGone
PROPERTY ImplementsService
CHECK_DEADLOCK FALSE
