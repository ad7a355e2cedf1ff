SPECIFICATION CatalogueSpec
CONSTANTS
  AllStores = {"s1", "s2"}
  NoStore = "none"
  Values = {"red", "shade", "tone"}
  Names = {"Red", "Redd", "Red2", "Reed"}
  RED = RED
  VARIANT = VARIANT
  Texts = {RED, VARIANT}
  Words <- MCWords
  FirstName <- MCFirstName
  Renames <- MCRenames
  Selections <- MCSelections
  Scopes <- MCScopes
  Clerks = {"c1", "c2"}
  MaxRequests = 4
INVARIANTS LoneSyncSucceeds 
PROPERTY SyncKeepsItsBounds
CHECK_DEADLOCK FALSE
