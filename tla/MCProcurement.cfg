SPECIFICATION Spec
CONSTANTS
  l1 = l1
  l2 = l2
  Lines = {l1, l2}
  Ordered <- Quantities
  Txs = {t1, t2, t3}
  Requests <- AllRequests
  OrderKey = OrderKey
  Nobody = Nobody
SYMMETRY TxSymmetry
INVARIANTS LinesNeverAhead LinesMatchStock StatusFollowsLines
