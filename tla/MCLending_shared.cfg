CONSTANTS
    usdc = usdc
    alice = alice
    bob = bob
    o1 = o1
    o2 = o2
    Wad = 100
    SlotsPerYear = 1
    MAX = MAX
    Reserves = {usdc}
    Obligations = {o1, o2}
    Users = {alice, bob}
    OwnerOf <- OneEach
    InitialConfig <- AllFree
    Configs <- FreeOrRetired
    InitialLiquidity <- Purse
    Feeds <- Fallback
    InitialFeed <- AllAtOne
    Amounts = {1, 4}
    Extras = {1}
    MaxObligationReserves = 2
    CapStart = 50000
    CapEnd = 40000
    CapFrom = 0
    CapTo = 2
    CapMargin = 100
    MaxSlot = 1
    MaxOps = 3
    MaxEvents = 1
    NoReserve = NoReserve
    NoObligation = NoObligation
    NoEntry = NoEntry
    NoPrice = NoPrice
SPECIFICATION Spec
INVARIANTS
  Custody
  FreshMeansUnchanged
PROPERTIES
  LendersLoseOnlyDust
