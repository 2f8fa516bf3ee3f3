\* The HIDL service: honest residency replies, with the AIDL provider's
\* clients registering and dying meanwhile.  Streaming is left to MCRailStream.
CONSTANTS
  Unreadable = Unreadable
  Malformed = Malformed
  ULongMax = ULongMax
  NoHeader = NoHeader
  Unopenable = Unopenable
  NoCallback = NoCallback
  UnknownEntity = UnknownEntity
  rA = rA
  rB = rB
  hApss = hApss
  hMpss = hMpss
  hAosd = hAosd
  hCxsd = hCxsd
  citadel = citadel
  sLast = sLast
  sActive = sActive
  c1 = c1
  Boards <- MCBoards
  EnergyFiles <- MCEnergyFiles
  RailIndexArgs <- MCRailIndexArgs
  TimesMs = {200}
  Rates = {10}
  MaxStreams = 0
  QueueSamples = 1
  NumEntities = 6
  Providers <- MCProviders
  AidlEntities = {citadel}
  AidlStates <- MCAidlStates
  AidlStateNames = {sLast, sActive}
  AidlClients = {c1}
  AidlReplies <- MCAidlReplies
  AidlMaxCalls = 1
  ReqIds <- MCReqIds
SPECIFICATION HidlSpec
INVARIANT ResidencyReplyHonest
