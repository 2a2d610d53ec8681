CONSTANTS
  MaxQueued = 3
  Executors <- MCExecutors
SPECIFICATION Spec
INVARIANT ResultsOfKeptCommands
