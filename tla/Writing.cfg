SPECIFICATION WritingSpec
CONSTANTS
  ButtonIds = {b}
  FormIds = {f}
  Keys = {k1, k2}
  NoKey = none
  MaxSends = 3
  MaxReconnects = 1
  DECIMAL_PRECISION = 10
  MCR = 11
  CCR = 15
  THUSD_GAS_COMPENSATION = 1
  MIN_NET_DEBT = 1
  PERCENT_DIVISOR = 200
  MaxUint = 1000000
  NumUsers = 1
  MINIMUM_BORROWING_RATE = 0
  MAXIMUM_BORROWING_RATE = 1
  MINIMUM_REDEMPTION_RATE = 0
  PanelAmounts = {3}
  PanelDebts = {1}
  isMintList = TRUE
  MaxPanelSends = 2
  MaxPanelEvents = 1
  DepositAmounts = {0, 3}
  isStabilityPools = TRUE
  MaxDepositSends = 2
  MaxLiquidations = 1
  NumDeployed = 4
  NumConnections = 3
  DeployedAssets = {tbtc, eth}
  MaxRuns = 2
  MaxFailedTxs = 1
  MaxReceipts = 2
INVARIANTS
  VaultPanelAgrees
  StabilityPanelAgrees
PROPERTIES
  TransactionsAreFollowed
  DeploymentsAreSound
  KeepsItsPromise
CHECK_DEADLOCK FALSE
