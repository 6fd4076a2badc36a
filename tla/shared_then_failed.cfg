CONSTANTS
  Call = {c1}
  MaxEvents = 1
  MaxServerExits = 0
  MaxWriterExits = 0
SPECIFICATION Spec
INVARIANT SharedOnlyIfAnswered
CHECK_DEADLOCK FALSE
