SPECIFICATION FairSpec
CONSTANTS
  PACKETS = 2
  PKT_CHUNKS = 3
  MAX_CHUNKS = 2
  BUFFER = 3
  RESETS = 1
  BIT_ERRORS = 1
  MIN_LATENCY = FALSE
INVARIANTS TypeOK WholeFramesInOrder
PROPERTY PacketEnds
