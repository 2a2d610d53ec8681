CONSTANTS
  NumShards = 2
  Replicas <- MCReplicas
  MaxConnFailures = 0
  InitOwner <- MCInitOwner
  KeySlot <- MCKeySlot
  Cmds <- MCCmds
  NumMsgs = 2
  MaxInFlight = 2
  MaxBatch = 1
  MaxAttempts = 3
  MaxMigrations = 0
  MaxSlotMoves = 1
SPECIFICATION Spec
INVARIANT InboxAligned
