SPECIFICATION GateSpec
CONSTANTS
  Flags    <- MCFlags
  Words    <- MCWords
  Numerals <- MCNumerals
  Value    <- MCValue
  CapMax   = 3
  MaxArgs  = 4
  MaxNodes = 4
INVARIANTS
  GateTypeOK
  BudgetExact
  DecidedAsAsked
PROPERTY
  EventuallyDecided
\* a decided request does nothing more
CHECK_DEADLOCK FALSE
