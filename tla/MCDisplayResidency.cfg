\* Display state residency: accounting and refinement of the tracker.
CONSTANTS
  NumStates = 3
  Reads <- MCReads
  MaxTime = 3
  MaxUpdates = 4
SPECIFICATION Spec
INVARIANTS DisplayTypeOK AccountingConserved
