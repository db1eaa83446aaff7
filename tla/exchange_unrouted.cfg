CONSTANTS
  InfoTries = 6
  DrainTries = 2
  LiveTries = 6
  ScanTries = 2
  UrlTries = 2
  Probes = 2
  Cmd = 10
  Capex = 1
  MaxEach = 1
  MaxInfos = 2
  Worlds <- MCUnrouted
SPECIFICATION Spec
INVARIANT PlaysTheCamera
