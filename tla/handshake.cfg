CONSTANTS
  ScTries = 5
  ServeTries = 2
  QueryTries = 5
  SvcTries = 5
  CompId = 64539
  Worlds <- MCWorlds
  MaxQueries = 1
SPECIFICATION FairSpec
INVARIANTS TypeOK ConnectedIsGranted AsksRightComponent AcceptorListed NoQueryUnanswered InStep
PROPERTIES AnswersQueries HostSpends Connects HandshakeEnds
