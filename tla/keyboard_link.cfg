SPECIFICATION FairSpec
CONSTANTS
  NULL = NULL
  Nonces = {n1, n2, n3, n4, n5, n6, n7, n8, n9, n10}
  CHANS = 2
  QUEUE = 1
  KEYS = 3
  RESTARTS = 1
INVARIANT TypeOK
PROPERTIES ImplementsKeyChannel KeyPrinted DeviceAnswered
