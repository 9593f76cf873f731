CONSTANTS
  E18 = 10
  E8 = 4
  E6 = 4
  U128Max = 200
  U64Max = 200
  U32Max = 200
  None = None
  a = a
  b = b
  Accounts = {a, b}
  NumAssets = 1
  DecimalMultiplier <- UnitOne
  E10 = 1
  Supply <- SupplyThree
  FeeReduction <- NoCut
  InitialModel <- FreeModels
  InitialFees <- NoFees
  InitialLimits <- SystemLimits
  InitialPrice <- PriceOne
  InitialRules <- FullRules
  Requests <- SystemRequests
  MultiRequests <- SystemOps
  DepositTransfers <- SystemTransfers
  DebtTransfers <- SystemTransfers
  Liquidations <- SystemLiquidations
  CollateralSwitches <- SystemSwitches
  RuleChoices <- RuleOfA
  Adjustments <- SameRate
  Admin <- SystemAdmin
  Prices <- SteadyPrices
  MaxTime = 0
  MaxRules = 1
  OnBehalf <- ForEachOther
  Approvals <- Allowances
  MaxAllowance = 1
  InitialAllowances <- AllowsItself
  LoanRequests <- SystemLoans
  FlashReduction <- NoReduction
  InitialFlashFee = 0
  FlashFees <- FeeOne
  MaxLoans = 1
SPECIFICATION SpecAll
INVARIANTS SystemTypeOK LedgerBalanced BitmapsCover
PROPERTIES AllowanceCovers LoanPays
CHECK_DEADLOCK FALSE
