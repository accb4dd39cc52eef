CONSTANTS
  Rounds = 3
  AliasCap = 2
  Near = 6
  Queries <- MCQueries
  Documents <- MCDocuments
  Cylinder <- MCCylinder
  Solid <- MCBall
  Slots <- MCSlots
SPECIFICATION Spec
CHECK_DEADLOCK FALSE
INVARIANTS
  IndexSound
  TokenFollowsItsEntity
  RecordNamesItsShape
  AnchoredIsFound
