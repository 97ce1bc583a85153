SPECIFICATION Spec
CONSTANTS
  PACKETS = 2
  PKT_CHUNKS = 3
  MAX_CHUNKS = 3
  BUFFER = 4
  RESETS = 0
  BIT_ERRORS = 1
  MIN_LATENCY = TRUE
INVARIANT NeverOverrun
