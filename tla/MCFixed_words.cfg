SPECIFICATION Spec
CONSTANTS
  WAD = 100
  U64_MAX = 255
  U128_MAX = 65535
  U192_MAX = 16777215
  Wide <- MCWide
  Narrow <- MCNarrow
  Ints = {0, 1, 2, 3, 100, 254, 255}
  Percents = {0, 1, 50, 99, 100, 255}
  Exponents = {0, 1, 2, 3, 4}
CHECK_DEADLOCK FALSE
INVARIANTS
  RoundsAsNamed
  PercentOfAnyAmount
