\* A call of getEnergyConsumed in which an energy_value file of the meter
\* does not parse: the attribution consumer reports 0 and resets its meter
\* snapshot while its uids keep their energy.
CONSTANTS
  e1 = e1  eDisplay = eDisplay
  NumStates = 2
  Reads <- MCReads
  MaxTime = 2
  MaxUpdates = 1
  EntityNames <- MCEntityNames
  UnknownEntity = eUnknown
  Clients = {c1}
  Null = Null
  MaxCalls = 1
  DisplayName = eDisplay
  StateNames <- MCStateNames
  PixelStates <- MCPixelStates
  CallbackTotal = 4
  DeviceNames <- MCDeviceNames
  IioEntries <- MCIioEntries
  EnabledRails <- MCEnabledRails
  UseSelector = TRUE
  OdpmConfig <- MCOdpmConfig
  DevEnergy <- MCDevEnergy
  ReadOutcomes <- MCReadOutcomes
  Unreadable = Unreadable
  Malformed = Malformed
  Blank = Blank
  ChannelRequests <- MCChannelRequests
  GenericEntities <- MCGenericEntities
  GenericFiles <- MCGenericFiles
  NoHeader = NoHeader
  Unopenable = Unopenable
  Consumers <- MCConsumers
  Setup <- MCSetup
  EntityRequests <- MCEntityRequests
  ConsumerRequests <- MCConsumerRequests
  MaxCrashes = 1
  UidStateNames <- MCUidStateNames
  UidFileAt <- MCUidFileAt
SPECIFICATION Spec
VIEW MCView
PROPERTY AttributionWithinEnergy
