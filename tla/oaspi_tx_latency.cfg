SPECIFICATION FairSpec
CONSTANTS
  PACKETS = 3
  PKT_CHUNKS = 3
  MAX_CHUNKS = 3
  BUFFER = 3
  RESETS = 1
  BIT_ERRORS = 0
  MIN_LATENCY = TRUE
INVARIANTS NeverOverrun NothingLost
PROPERTY PacketEnds
