\* Aidl provider: a client that restarts and registers again is not used.
CONSTANTS
  e1 = e1  e2 = e2  eUnknown = eUnknown
  s1 = s1  s2 = s2  sUnknown = sUnknown
  c1 = c1  c2 = c2
  Entities <- MCEntities
  UnknownEntity = eUnknown
  EntityStates <- MCEntityStates
  StateNames <- MCStateNames
  Clients = {c1, c2}
  Replies <- MCReplies
  MaxCalls = 3
  NoCallback = NoCallback
SPECIFICATION Spec
INVARIANTS RegisteredCallbackUsed
