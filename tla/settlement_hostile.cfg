CONSTANTS
  PD = 2
  S = 0
  K = 0
  Fee = 1
  MaxRefunds = 2
  Notices = {"capture","settlement"}
  OrderRef = OrderRef
  ChargeRef = OrderRef
  GatewayMayDeny = TRUE
  ResponsesMayBeLost = TRUE
SPECIFICATION Spec
INVARIANTS
  LedgerMirrorsGateway
PROPERTIES
  ClosedOrderStaysClosed
CHECK_DEADLOCK FALSE
