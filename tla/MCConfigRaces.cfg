SPECIFICATION Spec
CONSTANTS
  h1 = h1
  h2 = h2
  k1 = k1
  k2 = k2
  pw = pw
  Handlers <- TwoHandlers
  Keys <- MCKeys
  Passwords <- MCPasswords
  Defaults <- MCDefaults
  NoDefaults = "none"
  ApiPorts = {9881}
  Ports <- MCPorts
  NewPort = 8080
  GuardConfigs <- MCGuardConfigs
  DefaultGuard = "all"
  StartFiles <- OneFile
  MaxRequests = 2
  MaxFaults = 1
INVARIANT RuntimeWasSaved
CHECK_DEADLOCK FALSE
