SPECIFICATION TimedSpec
CONSTANTS
  eoa = eoa
  old = old
  new = new
  Accounts = {eoa, old, new}
  Contracts = {old, new}
  ContractSets <- MCContractSets
  Owners = {eoa, new}
  NoAddress = zero
  Deployer = eoa
  FirstTroveManager = old
  FirstStabilityPool = old
  FirstBorrowerOperations = old
  governanceTimeDelay = 2
  FirstTimestamp = 1
  MaxTimestamp = 5
  Members = {c1}
  Nobody = none
  PcvOwner = c0
  BOOTSTRAP_LOAN = 2
  pcvTimeDelay = 2
  PcvAmounts = {1, 2}
  PcvMaxBalance = 2
  PcvFirstTime = 3
  PcvMaxTime = 6
  RateUnit = 1000
  MINUTE_DECAY_FACTOR = 900
  SECONDS_IN_ONE_MINUTE = 3
  RateRises = {0, 50, 900}
  DeployedAt = 4
  LastBlockAt = 18
  RAY = 100
  LEDPrices = {0, 7}
  MarketPrices = {0, 9}
  ControllerRates = {90, 110}
  FeedMaxTime = 5
  Holders = {h1, h2}
  VirtualShares = 10
  PRECISION = 10
  MIN_A = 20
  MAX_A = 200
  MAX_FEE = 100
  maxDiscount = 1000
  Amplifications = {19, 200}
  Fees = {0, 100}
  Prices = {0, 10, 25}
  THUSDPrices = {10, 13}
  Amounts = {0, 3, 40}
  Losses = {1, 20}
  Gains = {0, 30}
  Gifts = {1}
  MaxCalls = 5
  nativeCollateral = TRUE
INVARIANTS
  GovTypeOK
  FeedTracksOracle
PROPERTIES
  ChangesAreAnnounced
  PcvIsBound
  BaseRateDecays
  HoldersGetTheirPart
  SwapsAreSound
SYMMETRY HoldersAlike
CHECK_DEADLOCK FALSE
