SPECIFICATION MCSpec
CONSTANTS
    Word = 8
    TokenRates = {0, 1, 500000, 1000000, 2500001}
    SecondRates = {0, 1, 1000, 2501}
    MaxUnits = 2
    Prices <- AllPrices
    Usages <- AllUsages
    Offers = {"a", "b", "c"}
    Machines = {1, 2}
    MachineOf <- TwoMachines
    MaxCost = 2
    MaxMark = 1
INVARIANTS
    ChargesAgree
    RoutingIsSound
CHECK_DEADLOCK FALSE
