SPECIFICATION FairSpec
CONSTANTS
  b1 = b1
  o1 = o1
  o2 = o2
  e1 = e1
  e2 = e2
  e3 = e3
  e4 = e4
  Batches = {b1}
  Ops = {o1, o2}
  OpsOf <- OpsOfBatch
  Attempts = {a1, a2, a3}
  Events = {e1, e2, e3, e4}
  Stamp <- Stamps
  Tick = 2
  Limit = 2
  Workloads <- PushOrPull
  MaxFaults = 2
CHECK_DEADLOCK FALSE
INVARIANTS AppliedAsAnswered FeedComplete
PROPERTIES EveryBatchIsAnswered EveryEventArrives
