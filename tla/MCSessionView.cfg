SPECIFICATION FairSpec
CONSTANTS
  Sessions = {s1}
  Capacity = 2
  InitialLines = 2
  MaxWrites = 1
  MaxRows = 2
  MaxTroubles = 1
  PromptWrites <- NoPrompts
  MaxReads = 2
  MaxSelects = 1
INVARIANTS
  ViewIsTerminal
PROPERTIES
  ViewCatchesUp
CHECK_DEADLOCK FALSE
