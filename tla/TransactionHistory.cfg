SPECIFICATION Spec
CONSTANTS
  payments = payments
  trades = trades
  Reader = {payments, trades}
  Passes <- MCPasses
  PerPage = 1
  MaxLedger = 3
  MaxCalls = 3
  MaxAtOnce = 2
  MaxViews = 2
INVARIANTS
  HistoryIsComplete
  ViewIsCurrent
PROPERTY
  CallsSettle
CHECK_DEADLOCK FALSE
