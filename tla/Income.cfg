CONSTANTS
  E18 = 10
  E8 = 4
  E6 = 4
  U128Max = 200
  U64Max = 200
  U32Max = 200
  None = None
  a = a
  b = b
  Accounts = {a, b}
  NumAssets = 2
  DecimalMultiplier <- UnitOne
  E10 = 1
  Supply <- SupplyFour
  FeeReduction <- NoCut
  InitialModel <- CostlyModels
  InitialFees <- SomeFees
  InitialLimits <- NoLimits
  InitialPrice <- PriceOne
  InitialRules <- FullRules
  Requests <- BackingRequests
  MultiRequests <- Nobody
  DepositTransfers <- Nobody
  DebtTransfers <- Nobody
  Liquidations <- Nobody
  CollateralSwitches <- BackingSwitches
  RuleChoices <- Nobody
  Adjustments <- Nobody
  Admin <- IncomeAdmin
  Prices <- SteadyPrices
  MaxTime = 2
  MaxRules = 1
SPECIFICATION Spec
PROPERTIES IncomeIsPaid
CHECK_DEADLOCK FALSE
