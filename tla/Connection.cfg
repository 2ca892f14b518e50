SPECIFICATION Spec
CONSTANTS
  STR = 4
  Payments <- SomePayments
  First = 6
  MaxChanges = 3
  MaxReports = 4
  MaxLoads = 2
INVARIANTS
  AlertTellsConnection
  AccountFollowsLedger
PROPERTY
  WaitingEnds
CHECK_DEADLOCK FALSE
