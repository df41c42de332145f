SPECIFICATION Spec
CONSTANTS
  Clients = {c1, c2}
  EveryK = 2
  MaxTurns = 2
  MaxSessions = 3
  MaxTroubles = 1
SYMMETRY Symmetry
INVARIANTS
  ReplyFollowsPrompt
  OneConversation
  RowsKeepTheirSession
  PassSeesItsTurn
CHECK_DEADLOCK FALSE
