SPECIFICATION ReadingSpec
CONSTANTS
  Subscribers = {s1, s2}
  MaxHeight = 3
  MaxStarts = 1
  MaxFetches = 2
  MaxFailedFetches = 1
  WalletUsers = {u1, u2}
  NoUser = none
  Collaterals = {c1, c2}
  MaxSwitches = 3
  MaxOpens = 2
  MaxCloses = 1
  MaxRegistrations = 2
  BatchCalls = {k1, k2, k3, k4}
  Unbatchable = {k1}
  Reverting = {k3}
  Tags = {t1, t2}
  MaxEvents = 4
  pageSize = 2
  MaxVaults = 3
  MaxPageBlocks = 3
  MaxPresses = 2
  NetValues <- NetValuesOfTraders
  Blacklisted = {2}
  MaxActivations = 3
  MaxWalletEvents = 2
  StatStores = {c1, c2}
  MainStore = c1
  MaxStat = 1
  MaxStatUpdates = 2
  MaxVisits = 2
  Nodes = {n1, n2}
  KeptStates = 2
  MaxChain = 4
  DecimalPlaces = 2
  FieldIds = {r1, r2}
  ShownPlaces = 1
  TypedTexts <- TextsToType
  MaxAmounts = {0, 155, 158}
  FormAmounts = {0, 94, 95}
  MaxKeys = 3
PROPERTIES
  StoreServesItsReaders
  ApplicationSettles
  BlocksAreHeard
  LaggingNodesAreOutwaited
  BatchesAreAnswered
  PagesAreCurrent
  GateOpens
  FieldsKeepAmounts
CHECK_DEADLOCK FALSE
