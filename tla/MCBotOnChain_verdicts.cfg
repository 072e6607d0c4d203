CONSTANTS
    sol = sol
    usdc = usdc
    alice = alice
    bob = bob
    o1 = o1
    Wad = 100
    SlotsPerYear = 1
    MAX = MAX
    Reserves = {sol, usdc}
    Obligations = {o1}
    Users = {alice, bob}
    OwnerOf <- AliceOwns
    InitialConfig <- AllLoose
    Configs <- Terms3
    InitialLiquidity <- Funds
    Feeds <- TwoPrices
    InitialFeed <- SolAtTwo
    Amounts = {100}
    Extras = {}
    MaxObligationReserves = 10
    CapStart = 14000
    CapEnd = 10000
    CapFrom = 0
    CapTo = 2
    CapMargin = 100
    MaxSlot = 1
    MaxOps = 3
    MaxEvents = 1
    NoReserve = NoReserve
    NoObligation = NoObligation
    NoEntry = NoEntry
    NoPrice = NoPrice
SPECIFICATION ChainSpec
INVARIANTS
  DebtsBooked
  
  
  FreshMeansThisSlotsTerms
PROPERTIES
  OwnerStaysCovered
