SPECIFICATION FairSpec
CONSTANTS
  Packets = {p1, p2, p3, p4}
  CAPACITY = 3
PROPERTY StallEnds
