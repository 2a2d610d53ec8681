CONSTANTS
  NumCmds = 4
  MaxBatch = 4
  Database = 1
  MaxFaults = 3
  MaxAttempts = 2
  MaxTimeouts = 1
SPECIFICATION Spec
INVARIANT RanInConfiguredSession
PROPERTY AllCommandsComplete
PROPERTY RefinesMultiplexer
