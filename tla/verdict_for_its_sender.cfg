CONSTANTS
  t1 = t1
  s1 = s1
  s2 = s2
  account = account
  Request = {q1, q2}
  Token = {t1}
  Sender = {s1, s2}
  Subject = {account}
  SubOf <- MCSubOf
  ValidFor <- MCValidFor
  MaxRestarts = 0
SPECIFICATION Spec
INVARIANT
  PassesOnlyForItsSender
