\* A call of getEnergyConsumed on a meter rail whose energy since the
\* attribution consumer's snapshot is not a float: powerScale is rounded
\* and the uids' truncated shares sum to more than that energy.
CONSTANTS
  e1 = e1  eDisplay = eDisplay
  NumStates = 2
  Reads <- MCReads
  MaxTime = 2
  MaxUpdates = 1
  EntityNames <- MCEntityNames
  UnknownEntity = eUnknown
  Clients = {c1}
  Null = Null
  MaxCalls = 1
  DisplayName = eDisplay
  StateNames <- MCStateNames
  PixelStates <- MCPixelStates
  CallbackTotal = 4
  DeviceNames <- MCDeviceNames
  IioEntries <- MCIioEntries
  EnabledRails <- MCEnabledRails
  UseSelector = TRUE
  OdpmConfig <- MCOdpmConfig
  DevEnergy <- MCDevEnergyLarge
  ReadOutcomes <- MCReadOutcomesParse
  Unreadable = Unreadable
  Malformed = Malformed
  Blank = Blank
  ChannelRequests <- MCChannelRequests
  GenericEntities <- MCGenericEntities
  GenericFiles <- MCGenericFiles
  NoHeader = NoHeader
  Unopenable = Unopenable
  Consumers <- MCConsumers
  Setup <- MCSetup
  EntityRequests <- MCEntityRequests
  ConsumerRequests <- MCConsumerRequests
  MaxCrashes = 1
  UidStateNames <- MCUidStateNames
  UidFileAt <- MCUidFileAt
SPECIFICATION Spec
VIEW MCView
PROPERTY AttributionShareBounded
