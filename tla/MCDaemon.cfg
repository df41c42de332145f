SPECIFICATION FairSpec
CONSTANTS
  Consoles = {c1}
  MaxTexts = 2
  MaxCommits = 2
  MaxFaults = 1
  RequireTag = TRUE
  AsScript = FALSE
  Signed <- SignedFirst
INVARIANTS
  TypeOK
  InFlightExact
  HistoryInOrder
  CheckedTurnsAreSafe
  SeenEditsSurvive
  RunsKnownGood
  TagHonoured
PROPERTIES
  DisconnectEnds
CHECK_DEADLOCK FALSE
