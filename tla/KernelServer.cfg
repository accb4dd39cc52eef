SPECIFICATION Spec
CONSTANTS
  w1 = w1
  e1 = e1
  c1 = c1
  h1 = h1
  f1 = f1
  Works = {w1, e1}
  Exports = {e1}
  Verified = {e1}
  Cancels = {c1}
  Immediate = {h1}
  Faulty = {f1}
  Target <- MCTarget
  NOps <- MCNOps
  NBodies = 1
CHECK_DEADLOCK FALSE
INVARIANTS InterruptHonest CancelIsBarrier ExportHonest
PROPERTIES BusyIsTrue EveryRequestAnswered
