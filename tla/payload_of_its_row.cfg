\* A call ends; so does every behaviour.
CONSTANTS
  Rows <- MCRows
  Request <- MCRequest
  Service <- MCService
  MaxChanges = 0
SPECIFICATION DisclosureSpec
INVARIANT
  EachRowItsOwnPayload
CHECK_DEADLOCK FALSE
