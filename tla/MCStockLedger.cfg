SPECIFICATION MCSpec
CONSTANTS
  s1 = s1
  s2 = s2
  v1 = v1
  v2 = v2
  v3 = v3
  p1 = p1
  p2 = p2
  Stores = {s1, s2}
  Variants = {v1, v2, v3}
  Products = {p1, p2}
  ProductOf <- Catalogue
  Txs = {t1, t2}
  NoTx = NoTx
  Requests <- StoreRequests
  InitialRows <- DatabaseRows
INVARIANTS TypeOK  CheckedStockStaysAvailable
PROPERTIES EveryRequestEnds TransferConserves RefinesAtomicStock
