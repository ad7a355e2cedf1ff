SPECIFICATION ShopSpec
CONSTANTS
  Stores = {"s1", "s2"}
  Variants = {"v1", "v2"}
  Packages = {"set"}
  Customers = {"c1"}
  Employees = {"e1", "e2"}
  Campaigns = {"summer", "NO_CAMPAIGN"}
  Lots = {"lot1"}
  Locations = {"shelf"}
  Product <- MCProduct
  Recipe <- MCRecipe
  PartPrice <- MCPartPrice
  Baskets <- MCBaskets
  Deliveries <- MCDeliveries
  Adjustments <- MCAdjustments
  Transfers <- MCTransfers
  Switches <- MCSwitches
  Moments <- MCMoments
  MaxSales = 2
  MaxMoves = 3
  MaxReturns = 5
  Supplier <- MCSupplier
  NoSupplier = "none"
  Cost <- MCCost
  Ranges <- MCRanges
  NoStore = "none"
  Warehouse <- MCWarehouse
INVARIANTS StockAgrees  BooksAgree
PROPERTY TimeOnlyAges
