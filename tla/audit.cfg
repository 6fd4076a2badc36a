CONSTANTS
  Call = {c1}
  MaxEvents = 2
  MaxServerExits = 1
  MaxWriterExits = 1
SPECIFICATION FairSpec
INVARIANTS
  TypeOK
  NoSilentAuditLoss
  ProjectionsInOrder
  RowsBounded
PROPERTIES
  AnswerNeedsNoPublish
  EveryEventTaken
  TakesEventsAtLeastOnce
CHECK_DEADLOCK FALSE
