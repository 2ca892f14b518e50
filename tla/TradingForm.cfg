SPECIFICATION FormSpec
CONSTANTS
  btc = btc
  usd = usd
  m1 = m1
  m2 = m2
  x1 = x1
  NoPair = NoPair
  Pair = {btc, usd}
  Offer = {m1, m2, x1}
  Mine = {m1, m2}
  PairOf <- MCPairOf
  MaxChanges = 2
  MaxVisits = 2
  MaxDown = 1
  MaxOffers = 2
INVARIANTS
  BooksFollowLedger
  OneBookWatched
  MyOffersAreListed
  ResultIsOfLastOffer
SYMMETRY
  MCSymmetry
CHECK_DEADLOCK FALSE
