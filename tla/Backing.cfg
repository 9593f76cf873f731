CONSTANTS
  E18 = 10
  E8 = 4
  E6 = 4
  U128Max = 200
  U64Max = 200
  U32Max = 200
  None = None
  a = a
  b = b
  Accounts = {a, b}
  NumAssets = 2
  DecimalMultiplier <- UnitOne
  E10 = 1
  Supply <- SupplyFour
  FeeReduction <- NoCut
  InitialModel <- CostlyModels
  InitialFees <- NoFees
  InitialLimits <- BackingLimits
  InitialPrice <- PriceTwo
  InitialRules <- BonusRules
  Requests <- BackingRequests
  MultiRequests <- SwapOps
  DepositTransfers <- BTransfers
  DebtTransfers <- DebtToB
  Liquidations <- BLiquidatesA
  CollateralSwitches <- BackingSwitches
  RuleChoices <- Nobody
  Adjustments <- Nobody
  Admin <- EitherCloses
  Prices <- FallingPrices
  MaxTime = 1
  MaxRules = 1
SPECIFICATION Spec
INVARIANTS TypeOK LedgerBalanced BitmapsCover MinimumsKept
PROPERTIES BackingPreserved InactiveIsClosed
CHECK_DEADLOCK FALSE
