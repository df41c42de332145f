SPECIFICATION WatcherSpec
CONSTANTS
  Sessions = {s1}
  Capacity = 2
  InitialLines = 2
  MaxWrites = 3
  MaxRows = 1
  MaxTroubles = 2
  PromptWrites <- FirstWrites
  TailLines = 1
INVARIANTS
  AnnouncedOnce
PROPERTIES
  WatcherCatchesUp
CHECK_DEADLOCK FALSE
