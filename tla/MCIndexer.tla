----------------------------- MODULE MCIndexer ------------------------------
(***************************************************************************)
(* One session that settles a request and closes, on a chain whose forks   *)
(* are no deeper than the confirmations, and on one whose forks replace    *)
(* anything.  A behaviour is one of either.                                *)
(***************************************************************************)
EXTENDS Integers, Sequences, TLC

CONSTANTS s1, r1, cust, prov, fee

VARIABLES chains, chain, minted, peak, forks, faults, db, cursor, sync

Shallow == INSTANCE Indexer WITH
    Sessions <- {s1}, Requests <- {r1}, sessionOf <- (r1 :> s1), charge <- (r1 :> 2),
    allowance <- (s1 :> 3), customer <- cust, provider <- prov, feeRecipient <- fee,
    Confirmations <- 1, BatchSize <- 2, MaxDepth <- 1, MaxHeight <- 5, MaxForks <- 1,
    MaxFaults <- 1

Deep == INSTANCE Indexer WITH
    Sessions <- {s1}, Requests <- {r1}, sessionOf <- (r1 :> s1), charge <- (r1 :> 2),
    allowance <- (s1 :> 3), customer <- cust, provider <- prov, feeRecipient <- fee,
    Confirmations <- 1, BatchSize <- 2, MaxDepth <- 4, MaxHeight <- 4, MaxForks <- 1,
    MaxFaults <- 1

indexVars == <<chain, minted, peak, forks, faults, db, cursor, sync>>

Init == chains \in {"shallow", "deep"} /\ Shallow!Init

Next ==
    /\ \/ chains = "shallow" /\ Shallow!Next
       \/ chains = "deep" /\ Deep!Next
    /\ UNCHANGED chains

FairSpec ==
    /\ Init /\ [][Next]_<<chains, indexVars>>
    /\ WF_indexVars(chains = "shallow" /\ Shallow!Sync)

-----------------------------------------------------------------------------
Replay(events) == Shallow!Replay(events)

(* The promise is about forks no deeper than the confirmations.            *)
Feed == INSTANCE FinalityView WITH
    final <- IF chains = "shallow" THEN Shallow!FinalEvents ELSE <<>>,
    view <- IF chains = "shallow" THEN Shallow!ChainView(db) ELSE Replay(<<>>)

(* The chain tables are always the replay of a prefix of the final events. *)
ImplementsFinalityView == Feed!Spec

(* A request is settled, its queue row is settled and its hold is released *)
(* exactly when the index has its settlement, whatever forks; and what the *)
(* broker lets a session spend is still there on the chain while no fork   *)
(* is deeper than the confirmations (rewind, project).                     *)
IndexIsSound ==
    /\ Shallow!SettledIffIndexed
    /\ chains = "shallow" => Shallow!SpendableIsBacked

(* The indexer catches up with the final part of the chain (Sync).         *)
CatchesUp == <>[](chains = "shallow" => Shallow!CaughtUp)
=============================================================================
