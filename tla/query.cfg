\* A call ends; so does every behaviour.
CONSTANTS
  Rows <- MCRows
  Request <- MCRequest
  Service <- MCService
  MaxChanges = 2
SPECIFICATION DisclosureSpec
INVARIANTS
  TypeOK
  Entitled
  LandBelongsToFarmer
  NoPartialAnswer
  AnswerIsJoin
  EveryKeyFormSeals
  RowsTellWhatWasShared
CHECK_DEADLOCK FALSE
