SPECIFICATION Spec
CONSTANTS
  l1 = l1
  l2 = l2
  put = put
  pick = pick
  wave = wave
  Lines = {l1, l2}
  Tasks = {put, pick, wave}
  Kind <- Kinds
  Asked <- Quantities
  InWave <- Waves
  Handlers = {h1, h2, h3, h4}
  Workloads <- AllWorkloads
  Session = Session
  Null = Null
SYMMETRY HandlerSymmetry
INVARIANTS TypeOK AdjustedOnce ClosedMeansBooked
PROPERTIES FinishedStaysFinished
