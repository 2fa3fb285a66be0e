SPECIFICATION Spec
CONSTANTS
  h1 = h1
  h2 = h2
  k1 = k1
  k2 = k2
  pw = pw
  Handlers <- OneHandler
  Keys <- MCKeys
  Passwords <- MCPasswords
  Defaults <- MCDefaults
  NoDefaults = "none"
  ApiPorts = {9881}
  Ports <- MCPorts
  NewPort = 8080
  GuardConfigs <- MCGuardConfigs
  DefaultGuard = "all"
  StartFiles <- AnyFile
  MaxRequests = 3
  MaxFaults = 2
INVARIANTS
  TypeOK
  FileReadable
  SettingsActive
PROPERTY
  ImplementsContract
CHECK_DEADLOCK FALSE
