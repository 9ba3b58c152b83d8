\* The limit of the code, and runs of backslashes of both parities.
SPECIFICATION DepthSpec
CONSTANTS
  DepthLimit = 64
  MaxBackslashes = 4
INVARIANTS
  DepthTypeOK
  ScannersAgree
CHECK_DEADLOCK FALSE
