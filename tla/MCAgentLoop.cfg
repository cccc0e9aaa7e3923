SPECIFICATION Spec
CONSTANTS
  MaxTurns = 1
  MinTurns = 1
  InputBudget = 6
  Limit = 2
  EventCap = 1
  MaxChunks = 1
  Replies <- SomeReplies
  MaxMail = 1
  MaxAsks = 0
  Before <- OneTurn
INVARIANTS TypeOK ConversationIsPaired
PROPERTIES RunKept
CHECK_DEADLOCK FALSE
