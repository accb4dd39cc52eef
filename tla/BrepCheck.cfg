SPECIFICATION Spec
CONSTANTS
  Bodies <- MCBodies
  Fuels = {3, 12}
INVARIANTS
  TypeOK
  LinkVerdict
  ShellVerdict
  RoundsSettle
  EulerEven
  RimCloses
CHECK_DEADLOCK FALSE
