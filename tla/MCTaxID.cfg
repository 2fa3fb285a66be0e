SPECIFICATION Spec
CONSTANTS
  CardLengths <- MCCardLengths
  IbanLengths <- MCIbanLengths
  Letters <- MCLetters
INVARIANTS
  TaxIDHasCheckDigit
CHECK_DEADLOCK FALSE
