SPECIFICATION Spec
CONSTANTS
  NoTool = NoTool
  Requests <- AllRequests
  Replies <- SomeReplies
  MaxLine = 1
  MaxAttempts = 1
CHECK_DEADLOCK FALSE
INVARIANTS OneEnding HistoryTells InOrder StreamTellsTheWhole FinishNamesCalls RetriesShowNothing ItemsClosed ChoiceKept
