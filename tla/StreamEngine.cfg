\* Three lines over channels of one; the content of every line is new.
SPECIFICATION Spec
CONSTANTS
  nl = nl
  blank = blank
  openTag = openTag
  closeTag = closeTag
  leak = leak
  NewLine = nl
  Blank = blank
  OpenTag = openTag
  CloseTag = closeTag
  Leak = leak
  MinSnapshot = 3
  MinChars = 2
  MaxLines = 3
  BufferSize = 1
  ThinkingEnabled = TRUE
  Script <- FreshScript
  MaxKeepAlive = 2
  IdleTicks = 1
CHECK_DEADLOCK FALSE
INVARIANTS
  TypeOK
  TextMatchesCollect
  SeenInOrder
PROPERTIES
  StreamEnds
  PumpEnds
