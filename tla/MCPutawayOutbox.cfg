SPECIFICATION FairSpec
CONSTANTS
  r1 = r1
  r2 = r2
  l1 = l1
  l2 = l2
  l3 = l3
  Receipts = {r1, r2}
  Lines = {l1, l2, l3}
  ReceiptOf <- Origin
  Pollers = {p}
  Clerks = {c}
  Manual <- WholeReceipts
  MaxRetries = 1
  Limit = 2
  MaxFaults = 2
  MaxChanges = 1
INVARIANTS TypeOK SentMeansPutAway PutAwayOnce
PROPERTIES EveryEventIsTried
CHECK_DEADLOCK FALSE
