----------------------------- MODULE MCInference -----------------------------
(***************************************************************************)
(* Two small instances of the life of an inference request: one offer that *)
(* is heartbeaten, output in chunks and a restart of the server; and two   *)
(* offers that fit the balance together.  A behaviour is one of either.    *)
(***************************************************************************)
EXTENDS Inference, TLC

CONSTANTS r1, r2, s1, o1, o2, m1, p1

TwoOffers == (o1 :> m1) @@ (o2 :> m1)
OneProvider == [o \in Offers |-> p1]
BalanceOfThree == [s \in Sessions |-> 3]

VARIABLE scenario

Restart == INSTANCE Inference WITH Costs <- {2}
Parallel == INSTANCE Inference WITH Costs <- {1}, MaxChunks <- 0,
    MaxCrashes <- 0

MCInit == Init /\ scenario \in {"restart", "parallel"}
MCNext ==
    /\ \/ scenario = "restart" /\ Restart!Next /\ capacity'[o2] = 0
       \/ scenario = "parallel" /\ Parallel!Next
    /\ UNCHANGED scenario
MCSpec == MCInit /\ [][MCNext]_<<vars, scenario>>

RequestsAlike == Permutations(Requests)
=============================================================================
