SPECIFICATION Spec
CONSTANTS
  Threads = {t1, t2, t3}
  Keys = {ibm, ge}
  MaxStocks = 3
  NoStock = NoStock
INVARIANTS
  EndsOnce
  NoEntryLeftBehind
  FoundUnlessOvertaken
PROPERTY Reclaimed
CHECK_DEADLOCK FALSE
