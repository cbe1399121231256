SPECIFICATION MCSpec
CHECK_DEADLOCK FALSE
CONSTANTS
    r1 = r1
    r2 = r2
    r3 = r3
    s1 = s1
    s2 = s2
    o1 = o1
    m1 = m1
    p1 = p1
    Requests = {r1, r2, r3}
    Sessions = {s1, s2}
    sessionOf <- TwoSessions
    MaxFees = 1
    MaxCloses = 1
    MaxFaults = 2
    MaxDrops = 1
INVARIANT BilledOutputIsComplete
