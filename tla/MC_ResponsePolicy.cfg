CONSTANTS
  Ints = {0, 1, 2}
  ArrayLens = {1, 2}
  ErrIds = {1, 2}
  MaxSubs = 3
SPECIFICATION Spec
INVARIANT ResultFollowsPolicy
