SPECIFICATION Spec
CONSTANTS
  Documents <- MCPlain
  Budget = 40
  MaxRequests = 2
INVARIANTS WarmIsCold
CHECK_DEADLOCK FALSE
