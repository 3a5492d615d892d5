CONSTANTS
  small = small
  full = full
  full2 = full2
  large = large
  NoDoc = NoDoc
  Doc <- MCDoc
  Length <- MCLength
  MaxLength = 2
SPECIFICATION Spec
INVARIANTS TypeOK AcknowledgedSurvives LoadsAreWhole SaveInvariant
PROPERTIES ImplementsRegister
CHECK_DEADLOCK FALSE
