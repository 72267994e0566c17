SPECIFICATION TSpec
CONSTANTS
  a = a
  b = b
  c = c
  Address <- MCAddress
  Calls <- MCCalls
  DataRequests <- MCDataRequests
  DEPTH = 2
  CAPACITY = 3
  ARG_CAPACITY = 1
  U8_MAX = 255
  U32_MAX = 7
  UNGUARDED = FALSE
  SBF = TRUE
  MaxIssued = 4
INVARIANTS DataOnlyInstallsNothing
