SPECIFICATION Spec
CONSTANTS
  DECIMAL_PRECISION = 100
  SCALE_FACTOR = 10
  MCR = 110
  CCR = 150
  THUSD_GAS_COMPENSATION = 1
  MIN_NET_DEBT = 1
  PERCENT_DIVISOR = 200
  MaxUint = 1000000
  NumUsers = 2
  MaxEpoch = 1
  MaxScale = 2
  Amounts = {0, 25, 100}
  Offsets <- MCOffsets
  MaxTHUSD = 200
  MaxCalls = 8
INVARIANTS
  TypeOK
  SnapshotsBehindPool
  RewardFormulasNeverUnderflow
  ShortfallBounded
PROPERTIES
  DepositsEarnTheirOwn
CHECK_DEADLOCK FALSE
