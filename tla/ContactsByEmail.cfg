SPECIFICATION Spec
CONSTANTS
  p1 = p1
  n1 = n1
  a1 = a1
  a2 = a2
  Page = {p1}
  Name = {n1}
  Fairy = n1
  Address = {a1, a2}
  MaxAge = 1
  MaxTime = 2
  MaxMoves = 1
  MaxReloads = 1
INVARIANT
  EmailAnswersAreRecent
CHECK_DEADLOCK FALSE
