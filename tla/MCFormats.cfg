SPECIFICATION FormatsSpec
CONSTANTS
  MAX_OBLIGATION_RESERVES = 3
  Reserves = {1, 2}
  Slots = {1, 2}
  MaxReserves = 2
INVARIANTS
  DecodedAsSent
  HandlerFindsItsAccounts
  RoundTrip
  TsAgrees
PROPERTIES
  ImplementsSlots
