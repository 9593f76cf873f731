CONSTANTS
  E18 = 10
  E8 = 4
  E6 = 4
  U128Max = 200
  U64Max = 200
  U32Max = 200
  None = None
  a = a
  b = b
  Accounts = {a, b}
  NumAssets = 2
  DecimalMultiplier <- UnitOne
  E10 = 1
  Supply <- SupplyThree
  FeeReduction <- NoCut
  InitialModel <- FreeModels
  InitialFees <- NoFees
  InitialLimits <- NoLimits
  InitialPrice <- PriceOne
  InitialRules <- FullRules
  Requests <- AllowanceRequests
  MultiRequests <- FirstThenWithdraw
  DepositTransfers <- Nobody
  DebtTransfers <- Nobody
  Liquidations <- Nobody
  CollateralSwitches <- Nobody
  RuleChoices <- Nobody
  Adjustments <- Nobody
  Admin <- NoAdmin
  Prices <- SteadyPrices
  MaxTime = 0
  MaxRules = 1
  OnBehalf <- ForEachOther
  Approvals <- Withdrawals
  MaxAllowance = 1
  InitialAllowances <- AllowsNothing
  LoanRequests <- Nobody
  FlashReduction <- NoReduction
  InitialFlashFee = 0
  FlashFees <- Nobody
  MaxLoans = 1
SPECIFICATION SpecAll
PROPERTIES AllowanceCovers
CHECK_DEADLOCK FALSE
