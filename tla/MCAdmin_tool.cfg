SPECIFICATION Spec
CONSTANTS
  Owners = {o1, o2}
  Commands = {1, 2}
  Rent = 2
  Fee = 1
  Lamports = 17
  Supply = 3
CHECK_DEADLOCK FALSE
INVARIANTS
  NoHalfReserves
  CheckedIsAffordable
PROPERTIES
  UntouchedUnlessRaced
