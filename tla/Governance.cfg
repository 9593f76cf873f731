CONSTANTS
  E18 = 10
  E8 = 4
  E6 = 4
  U128Max = 200
  U64Max = 200
  U32Max = 10
  None = None
  a = a
  b = b
  Accounts = {a, b}
  NumAssets = 2
  DecimalMultiplier <- UnitOne
  E10 = 1
  Supply <- SupplyFour
  FeeReduction <- NoCut
  InitialModel <- StableModels
  InitialFees <- SomeFees
  InitialLimits <- GovernanceLimits
  InitialPrice <- PriceOne
  InitialRules <- FullRules
  Requests <- GovernanceRequests
  MultiRequests <- Nobody
  DepositTransfers <- Nobody
  DebtTransfers <- Nobody
  Liquidations <- Nobody
  CollateralSwitches <- SwitchOfEach
  RuleChoices <- RulesOfA
  Adjustments <- HighTarget
  Admin <- GovernanceAdmin
  Prices <- SteadyPrices
  MaxTime = 1
  MaxRules = 2
SPECIFICATION Spec
INVARIANTS InterestFunded StablecoinBacked Repayable
PROPERTIES BackingPreserved
CHECK_DEADLOCK FALSE
