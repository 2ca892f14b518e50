SPECIFICATION Spec
CONSTANTS
  MaxCodes = 2
  MaxPasswords = 2
  asked = asked
  askedAgain = askedAgain
  first = first
  second = second
  Request <- MCRequest
  Confirmation <- MCConfirmation
SYMMETRY Symmetry
INVARIANTS
  DeadForAReason
PROPERTIES
  ConfirmedCodeOpens
  SwitchIsHonest
CHECK_DEADLOCK FALSE
