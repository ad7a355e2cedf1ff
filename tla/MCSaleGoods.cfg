SPECIFICATION FairSpec
CONSTANTS
  l1 = l1
  l2 = l2
  l3 = l3
  a = a
  b = b
  Lines = {l1, l2, l3}
  Packages = {l2}
  Variants = {a, b}
  Recipe <- Contents
  StartQty <- Sold
  Txs = {t1, t2, t3}
  Requests <- AllRequests
  Exclusive <- Unlocked
  MaxOverlap = 2
  Header = Header
  NoTx = NoTx
INVARIANT GoodsMatchSale
PROPERTIES ReturnsAreExact EveryRequestEnds
