SPECIFICATION MCSpec
CONSTANTS
  DECIMAL_PRECISION = 100
  MCR = 110
  CCR = 150
  THUSD_GAS_COMPENSATION = 20
  MIN_NET_DEBT = 180
  PERCENT_DIVISOR = 20
  MaxUint = 1000000
  NumUsers = 3
  FirstTroves <- MCMixedTroves
  SCALE_FACTOR = 10
  MaxEpoch = 1
  MaxScale = 1
  REDEMPTION_FEE_FLOOR = 1
  BORROWING_FEE_FLOOR = 1
  MAX_BORROWING_FEE = 5
  BETA = 2
  MINIMUM_BORROWING_RATE = 1
  MAXIMUM_BORROWING_RATE = 5
  MINIMUM_REDEMPTION_RATE = 1
  borrowingRateSlippageTolerance = 1
  redemptionRateSlippageTolerance = 1
  decayToleranceFactor = 50
  liqbotTroves = 2
  redeemMaxIterations = 2
  HasPCV = TRUE
  BorrowAmounts = {}
  CollAmounts = {400}
  CollChanges = {100}
  DebtChanges = {0}
  DepositAmounts = {150}
  RedeemAmounts = {}
  TransferAmounts = {}
  OtherLoans = {}
  MaxFees = {100}
  DecayFactors = {100}
  Prices = {100, 60, 56, 50}
  FeedStatuses = {"active"}
  MintListChanges = 0
  PriceChanges = 1
  MaxCalls = 5
INVARIANTS
  BooksAgree
  LiquidationIsNeverBlocked
  ClientSeesTheSystem
PROPERTIES
  LiquidationsAreFair
  LiquidationsAreReported
CHECK_DEADLOCK FALSE
