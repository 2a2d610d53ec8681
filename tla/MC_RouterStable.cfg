CONSTANTS
  NumShards = 2
  Replicas <- MCReplicas
  MaxConnFailures = 0
  InitOwner <- MCInitOwner
  KeySlot <- MCKeySlot
  Cmds <- MCCmds
  NumMsgs = 3
  MaxInFlight = 3
  MaxBatch = 1
  MaxAttempts = 2
  MaxMigrations = 0
  MaxSlotMoves = 0
SPECIFICATION Spec
INVARIANT TypeOK
INVARIANT InboxAligned
INVARIANT ResultForOwnMessage
INVARIANT ResultMatchesKeys
INVARIANT KeysExtracted
PROPERTY AllAnswered
