SPECIFICATION FairSpec
CONSTANTS
  Calls = {c1}
  Surfaces = {console, relay}
  Kinds <- AllKinds
  MaxClicks = 2
INVARIANTS
  TypeOK
  AcceptedClickHonoured
  ConfirmNeedsConsent
  AutonomousReadOnly
  LeaksOnlyFromSending
PROPERTIES
  HumanPromise
  AskedIsDecided
CHECK_DEADLOCK FALSE
