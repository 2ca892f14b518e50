SPECIFICATION Spec
CONSTANTS
  alice = alice
  bob = bob
  gateway = gateway
  bobName = bobName
  dt1 = dt1
  dt2 = dt2
  str1 = str1
  str9 = str9
  usd1 = usd1
  None = None
  Account = {alice, bob, gateway}
  Name = {bobName}
  Tag = {dt1, dt2}
  BadTag = {dt2}
  Amount = {str1, str9, usd1}
  Native = {str1, str9}
  Overspends = {str9}
  NeedsTag = {gateway}
  Inputs <- MCInputs
  Federation <- MCFederation
  Underfunds <- MCUnderfunds
  MaxLate = 1
INVARIANTS
  TypeOK
  DestinationAnswersLookup
  OffersAreCurrent
  PayeeIsRecipient
  OneDestination
PROPERTY
  AnswersLatest
