SPECIFICATION PaneSpec
CONSTANTS
  alice = alice
  gateway = gateway
  dt1 = dt1
  str1 = str1
  usd1 = usd1
  None = None
  Account = {alice, gateway}
  Name = {}
  Tag = {}
  BadTag = {}
  Amount = {str1, usd1}
  Native = {str1}
  Overspends = {}
  NeedsTag = {}
  Underfunds = {}
  MaxLate = 1
  MaxSends = 2
  Inputs <- MCInputs
  Federation <- MCFederation
INVARIANTS
  SignedAsProposed
