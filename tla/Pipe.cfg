SPECIFICATION Spec
CONSTANTS
  MaxPosts = 4
  Sizes = {0, 2}
  PACKGE_HEADER_SIZE = 2
  BUFFER_MAX_LEN = 4
  CacheSize = 8
INVARIANTS
  TypeOK
  Framing
  Conserved
PROPERTY Handled
CHECK_DEADLOCK FALSE
