SPECIFICATION Spec
CONSTANTS
  FRAMES = 2
  SIZES = {1, 3}
  CHUNK = 3
  TS_UNITS = 2
  BUF = 4
  MIN_LEN = 1
  ERRORS = 1
INVARIANT OwnTimestamp
