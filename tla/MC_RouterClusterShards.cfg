CONSTANTS
  NumShards = 2
  Replicas <- MCReplicas
  MaxConnFailures = 0
  InitOwner <- MCInitOwner
  KeySlot <- MCKeySlot
  Cmds <- MCCmds
  NumMsgs = 2
  MaxInFlight = 2
  MaxBatch = 1
  MaxAttempts = 1
  MaxMigrations = 0
  MaxSlotMoves = 0
SPECIFICATION Spec
INVARIANT ResultForOwnMessage
