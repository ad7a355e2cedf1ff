SPECIFICATION Spec
CONSTANTS
  product = product
  Product = product
  h1 = h1
  h2 = h2
  h3 = h3
  h4 = h4
  s1 = s1
  s2 = s2
  price = price
  stock = stock
  order = order
  u1 = u1
  u2 = u2
  r1 = r1
  r2 = r2
  Stores = {s1, s2}
  Handlers = {h1, h2, h3, h4}
  Jobs <- PriceJobs
  DefaultUnit = 50
  DefaultTax = 20
  Users = {u1, u2}
  Requests = {r1, r2}
  Subjects = {price, stock, order}
  TypeOf <- Types
  PriceOf <- Overrides
  Workloads <- DecideOrPrice
SYMMETRY Symmetry
CHECK_DEADLOCK FALSE
INVARIANTS OnePending CarriedOutAsDecided ReviewedFirst 
