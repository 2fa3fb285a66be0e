SPECIFICATION Spec
CONSTANTS
  r1 = r1
  r2 = r2
  r3 = r3
  Requests <- MCRequests
  Clients = {c1}
  Keys = {k1, k2}
  NoKey = NoKey
  KeySets = {{}, {k1}}
  Limit = 2
  MaxMinute = 1
  MaxUpdates = 1
SYMMETRY MCSymmetry
INVARIANTS
  TypeOK
  RefusedOnlyAtLimit
  LimitInOrder
  AuthHasReason
  DefaultsInOrder
CHECK_DEADLOCK FALSE
