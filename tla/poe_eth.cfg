SPECIFICATION FairSpec
CONSTANTS
  NUM_BUFFERS = 6
  NUM_TX_DESC = 2
  NUM_RX_DESC = 3
  EVENTS = 1
  FRAMES = 4
INVARIANTS TypeOK Ownership InOrder NoLostWakeup
PROPERTIES DmaOwnsBuffer RingEmptied
