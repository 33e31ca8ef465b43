SPECIFICATION Spec
CONSTANTS
  Buyers = {b1, b2}
  Seller = s
  Stock = 2
  ListPrice = 3
  Offers = {1}
  Validity = 0
  MaxSessions = 2
  MaxOrders = 2
INVARIANTS TypeOK StockConserved OneOrderPerAgreement
PROPERTY FreshDealStands
CHECK_DEADLOCK FALSE
SYMMETRY Symmetry
