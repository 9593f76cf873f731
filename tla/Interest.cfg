CONSTANTS
  E18 = 10
  E8 = 4
  E6 = 4
  U128Max = 200
  U64Max = 200
  U32Max = 200
  None = None
  a = a
  b = b
  Accounts = {a, b}
  NumAssets = 1
  DecimalMultiplier <- UnitOne
  E10 = 1
  Supply <- SupplyFour
  FeeReduction <- HalfCutForA
  InitialModel <- CostlyModels
  InitialFees <- SomeFees
  InitialLimits <- NoLimits
  InitialPrice <- PriceOne
  InitialRules <- FullRules
  Requests <- InterestRequests
  MultiRequests <- Nobody
  DepositTransfers <- Nobody
  DebtTransfers <- Nobody
  Liquidations <- Nobody
  CollateralSwitches <- AOnZero
  RuleChoices <- Nobody
  Adjustments <- LowerTarget
  Admin <- NoAdmin
  Prices <- SteadyPrices
  MaxTime = 2
  MaxRules = 1
SPECIFICATION Spec
INVARIANTS LedgerBalanced PositionsFollowIndexes InterestFunded
PROPERTIES BooksBalance
CHECK_DEADLOCK FALSE
