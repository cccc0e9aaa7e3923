SPECIFICATION Spec
CONSTANTS
  MaxTurns = 1
  MinTurns = 1
  InputBudget = 6
  Limit = 2
  EventCap = 1
  MaxChunks = 1
  Replies <- FewReplies
  MaxMail = 0
  MaxAsks = 0
  Before <- OneTurn
INVARIANT CancelledRunIsAborted
CHECK_DEADLOCK FALSE
