CONSTANTS
  Accounts = {a, b}
  Underlyings = {x, y}
  MaxAssets = 2
  Entries = {p, q}
  AssetRules = {r}
  r = r
  MarketRules <- SomeMarketRules
  MaxRules = 2
  MaxLength = 3
  None = None
SYMMETRY Alike
SPECIFICATION SpecListing
INVARIANTS ListingTypeOK BaseRuleComplete NothingAhead
PROPERTIES PositionsReplaced
CHECK_DEADLOCK FALSE
