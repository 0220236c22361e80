SPECIFICATION BammSpec
CONSTANTS
  Holders = {a, b}
  VirtualShares = 10
  PRECISION = 10
  MIN_A = 20
  MAX_A = 200
  MAX_FEE = 100
  maxDiscount = 1000
  Amplifications = {19, 200}
  Fees = {0, 100}
  Prices = {0, 10, 25}
  THUSDPrices = {10, 13}
  Amounts = {0, 3, 40}
  Losses = {1, 20}
  Gains = {0, 30}
  Gifts = {1}
  MaxCalls = 6
  nativeCollateral = TRUE
INVARIANTS
  HoldersCanWithdrawEverything
CHECK_DEADLOCK FALSE
