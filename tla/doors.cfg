SPECIFICATION Spec
CONSTANTS
  c1 = c1
  k1 = k1
  k2 = k2
  Call <- MCCall
  Key <- MCKey
  State = {"36", "32"}
  Home = "36"
  Blank = "blank"
  MaxRestarts = 3
SYMMETRY MCSymmetry
INVARIANTS
  TypeOK
  GatewayIsNoShortcut
  TablesReadForVerifiedCalls
  UnreachableOnlyMisplaced
PROPERTIES
  RefusedOnlyEarlyOrLate
CHECK_DEADLOCK FALSE
