SPECIFICATION MCFairSpec
CONSTANTS
    b1 = b1
    b2 = b2
    p1 = p1
    p2 = p2
    l1 = l1
    a1 = a1
    o1 = o1
    n1 = n1
    None = None
    Sync = sync
    Names = {b1, b2}
    Procs = {p1, p2}
    Ops = {"add", "start", "stop", "remove", "version", "attach", "publish", "local", "host"}
    Overlap = FALSE
    MaxCommands = 2
    MaxFaults = 1
    MaxVersion = 2

    
PROPERTIES
    
    TerminalFollows
    OfferedIsPrepared
    
CHECK_DEADLOCK FALSE
