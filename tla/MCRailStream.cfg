\* One stream at a time, every stream is released, and rail indices are dense.
CONSTANTS
  Unreadable = Unreadable
  Malformed = Malformed
  ULongMax = ULongMax
  rA = rA
  rB = rB
  Boards <- MCBoards
  EnergyFiles <- MCEnergyFiles
  RailIndexArgs <- MCRailIndexArgs
  TimesMs = {100, 200}
  Rates = {0, 10, 25}
  MaxStreams = 3
  QueueSamples = 1
SPECIFICATION Spec
INVARIANTS RailTypeOK OneStreamAtATime RailIndicesDense
PROPERTIES StreamReleased
