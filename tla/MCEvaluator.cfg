SPECIFICATION Spec
CONSTANTS
  Designs <- MCDesigns
  Asked <- MCAsked
  Bumps <- MCBumps
  Digest <- MCDigest
  MaxRequests = 3
INVARIANTS
  TypeOK
  Coherent
  AnswerFresh
  InputsSettled
  SecondPassBuildsNothing
PROPERTY
  EveryRequestAnswered
CHECK_DEADLOCK FALSE
