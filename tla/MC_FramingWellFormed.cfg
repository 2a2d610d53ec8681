CONSTANTS
  Replies <- MCReplies
  MaxChunk = 8
SPECIFICATION Spec
INVARIANT TypeOK
INVARIANT FramesAreReplies
INVARIANT ErrorOnlyAtUnsupported
PROPERTY AllRepliesFramed
