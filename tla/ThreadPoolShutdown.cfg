SPECIFICATION Spec
CONSTANTS
  Workers = {w1, w2}
  Clients = {c1}
  Task = {t1}
  Size = 2
  MaxNum = 16
  None = None
PROPERTY DestructorReturns
CHECK_DEADLOCK FALSE
