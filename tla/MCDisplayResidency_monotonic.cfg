\* Display state residency: a reported total read twice may go backwards.
CONSTANTS
  NumStates = 3
  Reads <- MCReads
  MaxTime = 3
  MaxUpdates = 4
SPECIFICATION Spec
PROPERTIES ReportedResidencyMonotonic
