CONSTANTS
  Workers = {w1, w2}
  Payment = payment
  Amount = 3
SPECIFICATION FairSpec
PROPERTY
  IntentReachesGateway
CHECK_DEADLOCK FALSE
