CONSTANTS
  Tags <- MCTags
  Empty = {4}
  Ends = {"eof", "timeout", "reset"}
  Modes = {"url", "pipe", "play"}
  InCap = 1
  OutCap = 1
  ErrCap = 1
SPECIFICATION FairSpec
INVARIANTS Flow VideoOnly SentToTheEnd
PROPERTIES EndsUnlessStuck DecoderEnds
