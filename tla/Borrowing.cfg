SPECIFICATION Spec
CONSTANTS
  DECIMAL_PRECISION = 100
  MCR = 110
  CCR = 150
  THUSD_GAS_COMPENSATION = 20
  MIN_NET_DEBT = 180
  PERCENT_DIVISOR = 20
  MaxUint = 1000000
  NumUsers = 2
  FirstTroves <- MCNoTroves
  SCALE_FACTOR = 10
  MaxEpoch = 1
  MaxScale = 1
  REDEMPTION_FEE_FLOOR = 1
  BORROWING_FEE_FLOOR = 1
  MAX_BORROWING_FEE = 5
  BETA = 2
  MINIMUM_BORROWING_RATE = 1
  MAXIMUM_BORROWING_RATE = 5
  MINIMUM_REDEMPTION_RATE = 1
  borrowingRateSlippageTolerance = 1
  redemptionRateSlippageTolerance = 1
  decayToleranceFactor = 50
  liqbotTroves = 2
  redeemMaxIterations = 2
  HasPCV = TRUE
  BorrowAmounts = {180, 300}
  CollAmounts = {310, 600}
  CollChanges <- MCUpAndDown
  DebtChanges <- MCUpAndDown
  DepositAmounts = {}
  RedeemAmounts = {}
  TransferAmounts = {150}
  OtherLoans = {}
  MaxFees = {0, 100}
  DecayFactors = {100}
  Prices = {100, 76}
  FeedStatuses = {"active"}
  MintListChanges = 2
  PriceChanges = 1
  MaxCalls = 5
INVARIANTS
  ValidatedChangesSucceed
  BorrowingIsReported
PROPERTIES
  BorrowingIsSafe
CHECK_DEADLOCK FALSE
