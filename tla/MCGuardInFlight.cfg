SPECIFICATION Spec
CONSTANTS
  r1 = r1
  r2 = r2
  Requests <- MCRequests
  Bodies <- MCBodies
  GuardConfigs <- MCGuardConfigs
  Types <- MCTypes
  MaxUpdates = 2
  Scan <- MCScan
INVARIANT InFlightKeepsScanner
CHECK_DEADLOCK FALSE
