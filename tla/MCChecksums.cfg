SPECIFICATION Spec
CONSTANTS
  CardLengths <- MCCardLengths
  IbanLengths <- MCIbanLengths
  Letters <- MCLetters
INVARIANTS
  TypeOK
  SymbolCaught
  SwapCaught
CHECK_DEADLOCK FALSE
