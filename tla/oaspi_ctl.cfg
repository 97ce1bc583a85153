SPECIFICATION FairSpec
CONSTANTS
  NULL = NULL
  RESETS = 2
  APP_CALLS = 2
INVARIANTS TypeOK ResetIsNoticed MdioOwnAddress
PROPERTIES LinkRecovers HidEnds
