SPECIFICATION MarketSpec
CONSTANTS
  str = str
  usdG = usdG
  usdH = usdH
  me = me
  peer = peer
  Me = me
  Peer = peer
  High = {me}
  Str = str
  StrCode = "STR"
  Currency = {str, usdG, usdH}
  Code <- MCCode
  NoPair = NoPair
  Orders <- MCOrders
  Balance0 <- MCBalance0
  Offers0 <- MCOffers0
  Favorites0 <- MCFavorites0
  Trusted <- MCTrusted
  MaxTx = 2
  MaxTouches = 3
INVARIANTS
  FavoritesAreByUse
  DirectionAsUsed
  LevelsAreTheBook
  TradesAreExchanges
CHECK_DEADLOCK FALSE
