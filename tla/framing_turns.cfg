CONSTANTS
  NFrames = 6
  NPlain = 4
  Size <- MCSize
  Start <- MCStart
  Await <- MCTurns
  CamCrc = TRUE
  PdMin = 2
  ClModeLen = 3
  ReadMax = 8
  Whole = TRUE
  Prompt = TRUE
  MaxGarbage = 3
SPECIFICATION FairSpec
INVARIANTS NothingSkipped  Aligned NoByteTwice
PROPERTIES DeliversFrames AllRead
