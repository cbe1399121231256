------------------------------ MODULE MCCharges ------------------------------
(* Rates around the divisors, and a word small enough to overflow.  Beside  *)
(* the charges, the choice of the offer that is charged: a behaviour is one *)
(* of either part.                                                          *)
EXTENDS Charges, Router

CONSTANTS TokenRates, SecondRates, MaxUnits

AllPrices ==
    {[m \in Meters |-> IF m = "input" THEN i ELSE IF m = "output" THEN o ELSE c] :
        i \in TokenRates, o \in TokenRates, c \in SecondRates}
AllUsages == [Meters -> 0 .. MaxUnits]

VARIABLE part

(* Two offers of one machine and one of another.                           *)
TwoMachines == [o \in Offers |-> IF o = "c" THEN 2 ELSE 1]

Unknown == [eligible |-> FALSE, cost |-> 1, latency |-> 0, success |-> 0, reputation |-> 0]

MCInit ==
    /\ Init /\ RouteInit
    /\ part \in {"routes", "charges"}
    /\ part = "charges" => candidates = [o \in Offers |-> Unknown]

MCNext ==
    \/ part = "charges" /\ Next /\ UNCHANGED <<part, routeVars>>
    \/ part = "routes" /\ RouteNext /\ UNCHANGED <<part, vars>>

MCSpec == MCInit /\ [][MCNext]_<<part, vars, routeVars>>
=============================================================================
