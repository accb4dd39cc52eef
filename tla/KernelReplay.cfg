SPECIFICATION Spec
CONSTANTS
  Documents <- MCDocuments
  Budget = 9
  MaxRequests = 3
INVARIANTS CacheAccounted WarmAgrees
CHECK_DEADLOCK FALSE
