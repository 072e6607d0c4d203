SPECIFICATION FairSpec
CONSTANTS
  m1 = m1
  m2 = m2
  o1 = o1
  o2 = o2
  o3 = o3
  MarketsInOrder <- MCMarkets
  Held <- MCHeld2
  AllMarkets = AllMarkets
  Target = AllMarkets
  MaxDebt = 3
  LowLimit = 1
  Funds = 2
  MaxMoves = 1
  MaxFaults = 10
PROPERTIES
  ErrorsAreLocal
  VisitEnds
  
