CONSTANTS
  NumShards = 2
  Replicas <- MCReplicas
  MaxConnFailures = 1
  InitOwner <- MCInitOwner
  KeySlot <- MCKeySlot
  Cmds <- MCCmds
  NumMsgs = 2
  MaxInFlight = 1
  MaxBatch = 1
  MaxAttempts = 4
  MaxMigrations = 2
  MaxSlotMoves = 1
SPECIFICATION Spec
INVARIANT InboxAligned
INVARIANT NeverExhausted
INVARIANT ResultMatchesKeys
PROPERTY AllAnswered
