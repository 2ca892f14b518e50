SPECIFICATION Spec
CONSTANTS
  alice = alice
  bob = bob
  ill = ill
  p1 = p1
  None = None
  Other = Other
  Name = {alice, bob}
  BadName = {ill}
  Strong = {p1}
  Weak = {}
  MaxAttempts = 2
  MaxChecks = 1
  MaxEdits = 2
  MaxOthers = 1
INVARIANTS
  LoginIsRegistered
  NamesAreReleased
PROPERTY
  AttemptsEnd
CHECK_DEADLOCK FALSE
