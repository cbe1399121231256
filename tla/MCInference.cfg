SPECIFICATION MCSpec
CONSTANTS
    r1 = r1
    r2 = r2
    s1 = s1
    o1 = o1
    o2 = o2
    m1 = m1
    p1 = p1
    Requests = {r1, r2}
    Sessions = {s1}
    Offers = {o1, o2}
    Machines = {m1}
    machineOf <- TwoOffers
    providerOf <- OneProvider
    Balance <- BalanceOfThree
    Costs = {1, 2}
    QueueSize = 2
    StreamSize = 2
    MaxChunks = 1
    MaxCrashes = 1
SYMMETRY RequestsAlike
INVARIANTS
    HoldsWithinBalance
    OneJobPerSlot
    QueuedReceiptsStayHeld
    SettlementsDrainTheBalance
    NoncesDiffer
    
