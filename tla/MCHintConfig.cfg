\* GetFromJSON on every bounded config file.  The service loads its
\* config once at start-up: the behaviour ends after Load.
CONSTANTS
  None = None
  Documents <- MCDocuments
SPECIFICATION Spec
INVARIANT ConfigMatchesContract
CHECK_DEADLOCK FALSE
