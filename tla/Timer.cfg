SPECIFICATION Spec
CONSTANTS
  Clients = {c1, c2}
  Delays = {1}
  Periods = {1}
  Repeats = {1}
  Instants = {0}
  MS = 2
  MaxClock = 2
  MaxId = 2
  Capacity = 2
  NoNode = NoNode
  Always = Always
INVARIANTS
  SleepsOnEarliest
  CommitsToOpenPool
  NeverBeforeAsked
  FiringsAccounted
PROPERTIES
  CancelIsFinal
  DueTimersFire
CHECK_DEADLOCK FALSE
