CONSTANTS
    m1 = m1
    m2 = m2
    o1 = o1
    o2 = o2
    sol = sol
    usdc = usdc
    cusdc = cusdc
    t1 = t1
    t2 = t2
    MarketList <- TwoMarkets
    Obligations = {o1, o2}
    MarketOf <- OneEach
    Accounts = {sol, usdc, cusdc}
    RepayAccount <- CrossRepay
    CollateralAccount <- AllSeizeCusdc
    LiquidityAccount <- CrossYield
    InitialAccounts = {sol, cusdc}
    InitialBalance <- Holdings
    Gains = {1}
    TxSlots = {t1, t2}
    Prices = {0, 1}
    Debts = {0, 2}
    Eternal = FALSE
    MaxFaults = 1
    MaxEvents = 1
    NoObl = NoObl
    NoRsv = NoRsv
    NoMarket = NoMarket
    NoTask = NoTask
    NoTx = NoTx
SPECIFICATION Spec
INVARIANTS
    
    OneTransactionPerDecision
SYMMETRY TxSymmetry
