SPECIFICATION MCSpec
CONSTANTS
  plain = plain
  slow = slow
  fatal = fatal
  Nobody = nobody
  Calls <- MixedCalls
  Slow <- SlowCalls
  Fatal <- FatalCalls
  MaxServers = 3
  MaxTries = 2
INVARIANTS
  TypeOK
  OneServer
  NothingLeft
  LostToOthers
PROPERTIES
  KilledForCause
  SerialCallAnswered
CHECK_DEADLOCK FALSE
