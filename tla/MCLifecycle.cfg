SPECIFICATION FairSpec
CONSTANTS
  Keys = {}
  Passwords = {}
  Defaults = {"none"}
  NoDefaults = "none"
  ApiPorts = {9881}
  Ports <- MCPorts
  NewPort = 8080
  GuardConfigs <- MCGuardConfigs
  DefaultGuard = "all"
  StartFiles <- MCStartFiles
  Taken = {9999}
  MaxSaves = 2
  MaxStarts = 2
INVARIANTS
  TypeOK
  OwnSettings
  ActiveWhenSaved
PROPERTY
  EveryPortServed
CHECK_DEADLOCK FALSE
