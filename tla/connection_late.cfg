CONSTANTS
  Polls = 3
  MaxInbound = 1
  LateClient = TRUE
  Failures = TRUE
  Interrupts = FALSE
  MaxFd = 5
SPECIFICATION Spec
INVARIANT OutboundDropped
