SPECIFICATION Spec
CONSTANTS
  r1 = r1
  r2 = r2
  t1 = t1
  Request = {r1, r2}
  Txn = {t1}
  TxnOf <- MCTxnOf
  MaxLog = 1
  MaxResends = 0
  MaxWindow = 0
  MaxApiExits = 0
  MaxWorkerExits = 0
INVARIANT CommitOnlyAfterSuccess
CHECK_DEADLOCK FALSE
