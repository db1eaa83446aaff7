CONSTANTS
  Polls = 3
  MaxInbound = 2
  LateClient = TRUE
  Failures = TRUE
  Interrupts = TRUE
  MaxFd = 5
SPECIFICATION FairSpec
INVARIANTS Holding ReturnsInbound ClosesOwn Released
PROPERTY OpenReturns
