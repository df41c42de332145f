SPECIFICATION Spec
CONSTANTS
  Consoles = {c1}
  MaxTexts = 2
  MaxCommits = 2
  MaxFaults = 1
  RequireTag = TRUE
  AsScript = TRUE
  Signed <- SignedFirst
INVARIANTS
  UpgradeDefers
CHECK_DEADLOCK FALSE
