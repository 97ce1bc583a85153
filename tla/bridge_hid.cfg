SPECIFICATION Spec
CONSTANTS
  Packets = {p1, p2, p3, p4, p5}
  NULL = NULL
  REQ_SIZE = 1
  EVQ_SIZE = 8
  PKT_CHUNKS = 1
  MAX_CHUNKS = 1
  CREDITS = 1
  IN_NTBS = 1
  HOST_USES = {"out", "hid"}
  MACPHY_USES = {}
  MIN_LATENCY = TRUE
SYMMETRY Symmetry
INVARIANTS TypeOK Ownership StallHasWakeup FrameHasWakeup EvqHasRoom
