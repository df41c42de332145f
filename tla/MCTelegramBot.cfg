SPECIFICATION FairSpec
CONSTANTS
  Users = {u1, u2}
  Sessions = {s1, s2}
  EveryK = 2
  MaxUpdates = 3
  MaxAsks = 1
  MaxTroubles = 1
INVARIANTS
  CommandGoesWhereChosen
  ClickInTimeCounts

  
CHECK_DEADLOCK FALSE
