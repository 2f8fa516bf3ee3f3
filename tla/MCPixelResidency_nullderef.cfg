\* Pixel provider: unregisterCallback scanning an entry without callback.
CONSTANTS
  e1 = e1  e2 = e2
  EntityNames <- MCEntityNames
  UnknownEntity = eUnknown
  Clients = {c1, c2}
  Null = Null
  MaxCalls = 4
SPECIFICATION Spec
INVARIANTS NoNullDeref
