SPECIFICATION FairSpec
CONSTANTS
  r1 = r1
  r2 = r2
  t1 = t1
  Request = {r1, r2}
  Txn = {t1}
  TxnOf <- MCTxnOf
  MaxLog = 2
  MaxResends = 1
  MaxWindow = 1
  MaxApiExits = 1
  MaxWorkerExits = 1
ACTION_CONSTRAINT MCOneOrder
INVARIANTS
  TypeOK
  AdmittedOncePerWindow
  NoDuplicateReachesQueue
  AckMeansQueued
  QueuedAreDeliverable
  RefusalIsJustified
  RedeliveryBounded
  CommitNeverPassesUnhandled
PROPERTIES
  KeepsContract
  ConsumesAtLeastOnce
  EveryCallAnswered
  QueuedEventuallyHandled
CHECK_DEADLOCK FALSE
