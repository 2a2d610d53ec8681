CONSTANTS
  Alphabet <- MCAlphabet
  MaxKeyLen = 6
SPECIFICATION Spec
INVARIANT SlotFollowsHashTagRule
