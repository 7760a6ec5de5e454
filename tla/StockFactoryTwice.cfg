SPECIFICATION Spec
CONSTANTS
  Threads = {t1, t2, t3}
  Keys = {ibm}
  MaxStocks = 3
  NoStock = NoStock
INVARIANT SameStock
CHECK_DEADLOCK FALSE
