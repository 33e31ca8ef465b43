CONSTANTS
  PD = 2
  S = 1
  K = 0
  Fee = 1
  MaxRefunds = 2
  Notices = {"capture", "settlement"}
  OrderRef = OrderRef
  ChargeRef = OrderRef
  GatewayMayDeny = FALSE
  ResponsesMayBeLost = FALSE
SPECIFICATION Spec
INVARIANT
  NoDoublePayout
CHECK_DEADLOCK FALSE
