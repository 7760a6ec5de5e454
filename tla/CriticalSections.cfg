SPECIFICATION SectionSpec
CONSTANTS
  Threads = {t1, t2}
  SeqSize = 2
  MaxClock = 4
  MaxBack = 1
  MaxIds = 5
  Unlocked = Unlocked
  Clients = {c1, c2}
  Server = server
  None = none
  MaxStarts = 2
  MaxSends = 2
INVARIANTS
  MillisecondsInOrder
  RepeatsOnlyTheFirst
  Exclusive
  SemaphoreCounts
  AnnouncedIsStored
PROPERTIES
  SpinEnds
  GoesOn
CHECK_DEADLOCK FALSE
