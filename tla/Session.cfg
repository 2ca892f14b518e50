SPECIFICATION Spec
CONSTANTS
  t1 = t1
  t2 = t2
  u1 = u1
  NoWallet = NoWallet
  Tab = {t1, t2}
  User = {u1}
  PERSISTENT_SESSION = FALSE
  IdleTime = 2
  Wait = 2
  MaxTime = 3
  MaxSaves = 2
  MaxAttempts = 1
INVARIANTS
  ForgottenIsPurged
  UnwatchedIsKept
  OnlyTornSavesFail
PROPERTY
  IdleLogoutIsIdle
CHECK_DEADLOCK FALSE
