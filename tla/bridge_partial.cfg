SPECIFICATION Spec
CONSTANTS
  Packets = {p1, p2, p3, p4, p5}
  NULL = NULL
  REQ_SIZE = 1
  EVQ_SIZE = 8
  PKT_CHUNKS = 2
  MAX_CHUNKS = 1
  CREDITS = 2
  IN_NTBS = 2
  HOST_USES = {"out", "notif"}
  MACPHY_USES = {"pending", "interrupt"}
  MIN_LATENCY = FALSE
SYMMETRY Symmetry
INVARIANT NoLostWakeup
PROPERTIES ImplementsTxChannel ImplementsRxChannel
