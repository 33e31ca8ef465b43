SPECIFICATION Spec
CONSTANTS
  Sellers = {s}
  Withdrawals = {a, b}
  SellerOf <- MCSellerOf
  Workers = {k1, k2}
  Hooks = {h1, h2}
  Amount = 2
  Fee = 1
  Earnings <- MCEarnings
  Reserve = 2
  MaxRetries = 1
  KnownReplies = TRUE
  RejectsUnsent = TRUE
  NoRef = NoRef
INVARIANTS TypeOK PaidOnce BooksFollowGateway BalancesMatchRows
PROPERTIES FinalStays WithdrawalsInCustody
SYMMETRY Symmetry
CHECK_DEADLOCK FALSE
