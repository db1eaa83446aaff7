CONSTANTS
  Tags <- MCTags
  Empty = {4}
  Ends = {"timeout"}
  Modes = {"url"}
  InCap = 1
  OutCap = 1
  ErrCap = 1
SPECIFICATION FairSpec

PROPERTY EndsOnTimeout
