\* One HAL thread: hint windows and the duration_ms they add up to.
CONSTANTS
  n0 = n0
  n1 = n1
  LAUNCH = LAUNCH
  INTERACTION = INTERACTION
  MASK_LAUNCH = MASK_LAUNCH
  CHAIN = CHAIN
  c1 = c1
  NoSuchHint = NoSuchHint
  Nodes <- MCNodes
  Owners <- MCOwners
  Default <- MCDefault
  NumValues = 3
  MaxTime = 4
  MaxTimeout = 2
  WriteCanFail = FALSE
  Callers <- MCCallers1
  HintNodeActions <- MCHintNodeActions
  HintActions <- MCHintActions
  Overrides = {}
  MaxCalls = 4
SPECIFICATION Spec
INVARIANT DurationWithinElapsed
