SPECIFICATION FairSpec
CONSTANTS
  U32_MAX = 9
  Policy <- MCPolicy
  Index = {0, 1}
  Offset = {0, 2}
  Size = {0, 3, 5}
  Args <- MCArgs
INVARIANTS
  AuditAgreesWithGate
PROPERTIES
  ScanEnds
CHECK_DEADLOCK FALSE
