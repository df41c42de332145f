SPECIFICATION FairSpec
CONSTANTS
  Pages = {p1}
  MaxLinks = 1
  MaxClients = 1
  NoToken = NoToken
  MaxDrops = 2
  EdgeReports = TRUE
INVARIANTS
  ReadyPageHasKey
  LateOnlyThroughGap
PROPERTIES
  DaemonComesBack
  PagePairs
  RotationCutsOff
CHECK_DEADLOCK FALSE
