\* The PowerStats AIDL service with the Display, Pixel and Generic
\* providers, the meter and six consumers, one of them attributing its
\* energy to uids; Pixel clients register, unregister and die, and the HAL
\* process restarts after a crash.
CONSTANTS
  e1 = e1  eDisplay = eDisplay
  NumStates = 2
  Reads <- MCReads
  MaxTime = 1
  MaxUpdates = 1
  EntityNames <- MCEntityNames
  UnknownEntity = eUnknown
  Clients = {c1}
  Null = Null
  MaxCalls = 1
  DisplayName = eDisplay
  StateNames <- MCStateNames
  PixelStates <- MCPixelStates
  CallbackTotal = 4
  DeviceNames <- MCDeviceNames
  IioEntries <- MCIioEntries
  EnabledRails <- MCEnabledRails
  UseSelector = TRUE
  OdpmConfig <- MCOdpmConfig
  DevEnergy <- MCDevEnergy
  ReadOutcomes <- MCReadOutcomes
  Unreadable = Unreadable
  Malformed = Malformed
  Blank = Blank
  ChannelRequests <- MCChannelRequests
  GenericEntities <- MCGenericEntities
  GenericFiles <- MCGenericFiles
  NoHeader = NoHeader
  Unopenable = Unopenable
  Consumers <- MCConsumers
  Setup <- MCSetup
  EntityRequests <- MCEntityRequests
  ConsumerRequests <- MCConsumerRequests
  MaxCrashes = 1
  UidStateNames <- MCUidStateNames
  UidFileAt <- MCUidFileShort
SPECIFICATION Spec
INVARIANT PowerStatsTypeOK
INVARIANT SelectorWritesSections
PROPERTY ResidencyMatchesProviders
PROPERTY EnergyMatchesFormula
PROPERTY MeterReplyFresh
VIEW MCView
