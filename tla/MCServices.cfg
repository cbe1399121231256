SPECIFICATION FairSpec
CONSTANTS
    l1 = l1
    l2 = l2
    l3 = l3
    h1 = h1
    h2 = h2
    a1 = a1
    a2 = a2
    x1 = x1
    x2 = x2
    w1 = w1
    t1 = t1
    t2 = t2
    k1 = k1
    c1 = c1
    c2 = c2
    c3 = c3
    r1 = r1
    r2 = r2
    noRates = noRates
PROPERTIES
    
    SpentOnce
    ActionsAreSettled
    
    FreshIsGiven
CHECK_DEADLOCK FALSE
