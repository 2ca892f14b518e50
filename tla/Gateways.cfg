SPECIFICATION Spec
CONSTANTS
  justcoin = justcoin
  ripplefox = ripplefox
  usd = usd
  btc = btc
  cny = cny
  Domain = {justcoin, ripplefox}
  CurrenciesOf <- MCCurrenciesOf
  MaxOps = 3
  MaxReloads = 1
  LateAnswers = TRUE
INVARIANTS
  AddedIsTrusted
  PendingHasWork
PROPERTY
  PendingSettles
CHECK_DEADLOCK FALSE
