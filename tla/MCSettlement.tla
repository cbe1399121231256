---------------------------- MODULE MCSettlement ----------------------------
(***************************************************************************)
(* Receipts of two sessions on their way to the chain, taken twice: in a   *)
(* storm of fee changes, closes, faults and drops, and while the contract  *)
(* accepts all of them.  Beside them the life of one request up to its     *)
(* receipt.  A behaviour is one of a single part, chosen at the start.     *)
(***************************************************************************)
EXTENDS Settlement, TLC

CONSTANTS r1, r2, r3, s1, s2, o1, m1, p1

TwoSessions == [r \in Requests |-> IF r = r1 THEN s1 ELSE s2]

VARIABLES
    part,
    state, session, offerOf, maximum, hold, held, receiptNonce, capacity, confirmed, queued,
    handler, clientGone, events, overflow, connected, down, crashes, serving, job, chunks

Calm == INSTANCE Settlement WITH MaxFees <- 0, MaxCloses <- 0, MaxDrops <- 0

(* One request whose client, channel and daemon are as small as can be.    *)
Life == INSTANCE Inference WITH
    Requests <- {r1}, Sessions <- {s1}, Offers <- {o1}, Machines <- {m1},
    machineOf <- (o1 :> m1), providerOf <- (o1 :> p1), Balance <- (s1 :> 3), Costs <- {2},
    QueueSize <- 1, StreamSize <- 1, MaxChunks <- 2, MaxCrashes <- 0,
    sessionOf <- session, nonce <- receiptNonce, queue <- queued

lifeVars == <<state, session, offerOf, maximum, hold, held, receiptNonce, capacity,
              confirmed, queued, handler, clientGone, events, overflow, connected, down,
              crashes, serving, job, chunks>>

MCInit == part \in {"storm", "calm", "life"} /\ Init /\ Life!Init

MCNext ==
    \/ part = "storm" /\ Next /\ UNCHANGED <<part, lifeVars>>
    \/ part = "calm" /\ Calm!Next /\ UNCHANGED <<part, lifeVars>>
    \/ part = "life" /\ Life!Next /\ UNCHANGED <<part, vars>>

(* Each part has the fairness of its own specification.                    *)
MCSpec ==
    /\ MCInit /\ [][MCNext]_<<part, vars, lifeVars>>
    /\ WF_vars(part = "calm" /\ Calm!SettleBatch)
    /\ WF_vars(part = "calm" /\ \E r \in Requests : Calm!Mine(r))
    /\ WF_vars(part = "calm" /\ Calm!Finalize)
    /\ WF_vars(part = "calm" /\ Calm!Index)
    /\ WF_lifeVars(part = "life" /\ Life!HandlerStep(r1))

(* Every receipt both sides signed is settled while the contract accepts   *)
(* all of them.                                                            *)
CalmReceiptsSettle == []<>(part = "calm" => NoneOpen)

(* An accepted request is decided (ServeHTTP, Complete).                   *)
AcceptedRequestsResolve == Life!AcceptedRequestsResolve

(* A handler that returned without a queued receipt released its hold.     *)
ReturnedHandlersReleased == Life!ReturnedHandlersReleased

(* No chunk of a billed answer was dropped on the way to the client.       *)
BilledOutputIsComplete == Life!BilledOutputIsComplete
=============================================================================
