CONSTANTS
  Workers = {w1, w2}
  Payment = payment
  Amount = 3
SPECIFICATION FairSpec
INVARIANTS
  TypeOK
  OneRefundAtGateway
PROPERTIES
  OrderStep
  ConfirmedStays
  RefundIsConfirmed
CHECK_DEADLOCK FALSE
