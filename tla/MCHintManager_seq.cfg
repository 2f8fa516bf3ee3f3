\* One HAL thread, every hint of the MC configuration, with and without a
\* timeout override, and node writes that may fail: masking, arbitration
\* of the nodes, and expiry.
CONSTANTS
  n0 = n0
  n1 = n1
  LAUNCH = LAUNCH
  INTERACTION = INTERACTION
  MASK_LAUNCH = MASK_LAUNCH
  CHAIN = CHAIN
  c1 = c1
  NoSuchHint = NoSuchHint
  Nodes <- MCNodes
  Owners <- MCOwners
  Default <- MCDefault
  NumValues = 3
  MaxTime = 3
  MaxTimeout = 2
  WriteCanFail = TRUE
  Callers <- MCCallers1
  HintNodeActions <- MCHintNodeActions
  HintActions <- MCHintActions
  Overrides = {1}
  MaxCalls = 3
SPECIFICATION Spec
INVARIANT TypeOK
INVARIANT MaskReflectsMaskers
