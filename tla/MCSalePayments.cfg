SPECIFICATION PaymentsSpec
CONSTANTS
  l1 = l1
  l2 = l2
  p1 = p1
  p2 = p2
  p3 = p3
  Lines = {l1, l2}
  Payments = {p1, p2, p3}
  Clerks = {c1, c2, c3}
  Requests <- AllRequests
  LinePrice <- Prices
  Initial <- Deposit
  Header = Header
  Nobody = Nobody
SYMMETRY ClerkSymmetry
INVARIANTS TypeOK
PROPERTIES SoloRequestBalances
