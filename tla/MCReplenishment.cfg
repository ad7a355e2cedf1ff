SPECIFICATION MCSpec
CONSTANTS
  r1 = r1
  r2 = r2
  c1 = c1
  c2 = c2
  Rules = {r1, r2}
  Settings <- AllSettings
  Suggestions = {s1, s2, s3}
  Orders = {o1, o2}
  Schedulers = {p1}
  Clerks = {c1, c2}
  MaxStock = 2
  MaxFaults = 1
  MaxChanges = 1
  Null = Null
CHECK_DEADLOCK FALSE
INVARIANTS OnePendingPerRule OrdersAccountedFor
PROPERTIES ShortageIsSuggested
