SPECIFICATION FairSpec
CONSTANTS
  Bidders = {b1, b2}
  Seller = s
  Nobody = Nobody
  Keys = {1}
  Amounts = {1, 2, 3}
  StartPrice = 1
  BidIncrement = 1
  BuyNowPrice = 3
  MinDuration = 1
  MaxDuration = 2
  MaxWait = 1
  Grace = 1
  Window = 1
  Extension = 2
  MaxExtension = 3
  MaxRounds = 2
  MaxOrders = 2
INVARIANTS TypeOK HighestBidWins SoldOnce  PayersAreNotBlamed EndBounded
PROPERTIES WinnerWaitsForQuote Concluded
CHECK_DEADLOCK FALSE
