SPECIFICATION MCSpec
CONSTANTS
  Randoms = {10, 95}
  RandomValues = {1, 3, 6}
  DebtPerValue = 100
  tinyDifference = 20
  LowestPrice = 1
  DECIMAL_PRECISION = 100
  MCR = 110
  CCR = 150
  THUSD_GAS_COMPENSATION = 20
  MIN_NET_DEBT = 180
  PERCENT_DIVISOR = 20
  MaxUint = 1000000
  NumUsers = 2
  FirstTroves <- MCTwoTroves
  SCALE_FACTOR = 10
  MaxEpoch = 1
  MaxScale = 1
  REDEMPTION_FEE_FLOOR = 1
  BORROWING_FEE_FLOOR = 1
  MAX_BORROWING_FEE = 5
  BETA = 2
  MINIMUM_BORROWING_RATE = 1
  MAXIMUM_BORROWING_RATE = 5
  MINIMUM_REDEMPTION_RATE = 1
  borrowingRateSlippageTolerance = 1
  redemptionRateSlippageTolerance = 1
  decayToleranceFactor = 50
  liqbotTroves = 2
  redeemMaxIterations = 2
  HasPCV = TRUE
  BorrowAmounts = {180}
  CollAmounts = {900}
  CollChanges = {}
  DebtChanges = {0}
  DepositAmounts = {450}
  RedeemAmounts = {}
  TransferAmounts = {}
  OtherLoans = {450}
  MaxFees = {100}
  DecayFactors = {100}
  Prices = {100, 60, 47}
  FeedStatuses = {"active"}
  MintListChanges = 2
  PriceChanges = 2
  MaxCalls = 5
INVARIANTS
  FuzzerIsRight
PROPERTIES
  SystemStaysUsable
CHECK_DEADLOCK FALSE
