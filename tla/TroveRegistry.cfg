SPECIFICATION RegSpec
CONSTANTS
  Ids = {a, b, c, d}
  NoId = zero
  Ratios = {1, 2, 3}
  NoRatio = 4
  maxSize = 4
INVARIANTS
  RegistersAreSound
PROPERTIES
  ImplementsTroveList
SYMMETRY BorrowersAlike
