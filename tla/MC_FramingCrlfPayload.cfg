CONSTANTS
  Replies <- MCReplies
  MaxChunk = 4
SPECIFICATION Spec
INVARIANT FramesAreReplies
