CONSTANTS
    m1 = m1
    m2 = m2
    o1 = o1
    o2 = o2
    sol = sol
    usdc = usdc
    cusdc = cusdc
    t1 = t1
    t2 = t2
    MarketList <- OneMarket
    Obligations = {o1, o2}
    MarketOf <- InOneMarket
    Accounts = {sol, usdc, cusdc}
    RepayAccount <- AllRepaySol
    CollateralAccount <- AllSeizeCusdc
    LiquidityAccount <- AllSeizeUsdc
    InitialAccounts = {sol, usdc}
    InitialBalance <- Holdings
    Gains = {1}
    TxSlots = {t1}
    Prices = {1}
    Debts = {2}
    Eternal = TRUE
    MaxFaults = 1
    MaxEvents = 0
    NoObl = NoObl
    NoRsv = NoRsv
    NoMarket = NoMarket
    NoTask = NoTask
    NoTx = NoTx
SPECIFICATION FairSpec
INVARIANTS
    
    TasksJoined
    
PROPERTIES IterationsComplete PanicIsFatal 
    CapsuleNeverRegresses
