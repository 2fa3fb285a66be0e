SPECIFICATION Spec
CONSTANTS
  Types <- MCTypes
  Priority <- MCPriority
  Symbols <- MCSymbols
  Blank <- MCBlank
  Lower <- MCLower
  Texts <- MCTexts
  DetectorLists <- MCDetectorLists
  Whitelists <- MCWhitelists
  Reports <- MCReports
INVARIANTS
  TypeOK
  KeptDisjoint
  TopFindingKept
  PlaceholdersOneToOne
  RoundTrip
PROPERTY
  ImplementsContract
