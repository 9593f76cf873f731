CONSTANTS
  E18 = 10
  E8 = 4
  E6 = 4
  U128Max = 200
  U64Max = 200
  U32Max = 200
  None = None
  a = a
  b = b
  Accounts = {a, b}
  NumAssets = 2
  DecimalMultiplier <- UnitOne
  E10 = 1
  Supply <- SupplyThree
  FeeReduction <- NoCut
  InitialModel <- FreeModels
  InitialFees <- NoFees
  InitialLimits <- NoLimits
  InitialPrice <- PriceOne
  InitialRules <- FullRules
  Requests <- AllowanceRequests
  MultiRequests <- Nobody
  DepositTransfers <- Nobody
  DebtTransfers <- Nobody
  Liquidations <- Nobody
  CollateralSwitches <- CounterSwitches
  RuleChoices <- Nobody
  Adjustments <- Nobody
  Admin <- NoAdmin
  Prices <- SteadyPrices
  MaxTime = 0
  MaxRules = 1
  OnBehalf <- Themselves
  Approvals <- Nobody
  MaxAllowance = 1
  InitialAllowances <- AllowsNothing
  LoanRequests <- CounterLoans
  FlashReduction <- NoReduction
  InitialFlashFee = 0
  FlashFees <- Nobody
  MaxLoans = 1
SPECIFICATION SpecAll
INVARIANTS CountersKept
CHECK_DEADLOCK FALSE
