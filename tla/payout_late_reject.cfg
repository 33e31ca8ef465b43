SPECIFICATION Spec
CONSTANTS
  Sellers = {s}
  Withdrawals = {a}
  SellerOf <- MCSellerOf
  Workers = {k1}
  Hooks = {h1}
  Amount = 2
  Fee = 1
  Earnings <- MCEarnings
  Reserve = 2
  MaxRetries = 1
  KnownReplies = TRUE
  RejectsUnsent = FALSE
  NoRef = NoRef
INVARIANT RejectedIsNotSubmitted
CHECK_DEADLOCK FALSE
