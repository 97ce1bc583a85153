SPECIFICATION Spec
CONSTANTS
  FRAMES = 3
  SIZES = {1, 4, 6}
  CHUNK = 3
  TS_UNITS = 2
  BUF = 4
  MIN_LEN = 1
  ERRORS = 2
INVARIANTS TypeOK GivenInOrder WholeFrameGiven StampsInOrder
