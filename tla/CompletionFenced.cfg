SPECIFICATION Spec
CONSTANTS
  NoTool = NoTool
  Requests <- OneRequest
  Replies <- FencedReply
  MaxLine = 3
  MaxAttempts = 1
CHECK_DEADLOCK FALSE
INVARIANTS FencedStaysText
