SPECIFICATION FairSpec
CONSTANTS
    s1 = s1
    r1 = r1
    cust = cust
    prov = prov
    fee = fee
INVARIANTS
    IndexIsSound
PROPERTIES
    ImplementsFinalityView
    CatchesUp
CHECK_DEADLOCK FALSE
