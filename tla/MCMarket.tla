------------------------------ MODULE MCMarket ------------------------------
(***************************************************************************)
(* One instance of the escrow contract in three scenarios: sessions and    *)
(* their receipts, changes of the fee, bonds and slashing.  A behaviour is *)
(* one of the three: it differs from the others in who calls and with      *)
(* which arguments.                                                        *)
(***************************************************************************)
EXTENDS MyferenceMarket

CONSTANTS cust, prov, mach, fee, broker, owner, nobody, s1, s2, r1, r2, r3, o1, textModel

(* One wei per token; the other price rounds up on odd numbers of tokens. *)
UnitPrice == {[input |-> 1000000, output |-> 0, compute |-> 0]}

MCPrices == {[input |-> 1000000, output |-> 0, compute |-> 0],
             [input |-> 1500000, output |-> 0, compute |-> 0]}

Use(n) == [input |-> n, output |-> 0, compute |-> 0]

(* A receipt for n tokens that quotes the given version and total. *)
Receipt(req, ses, version, n, total, nonce) ==
    [requestId |-> req, sessionId |-> ses, customer |-> cust, provider |-> prov,
     settlementSigner |-> broker, offerId |-> o1, priceVersion |-> version,
     content |-> textModel, usage |-> Use(n), maximumCharge |-> total,
     totalCharge |-> total, feeBasisPoints |-> 500, feeVersion |-> 1,
     status |-> 1, completedAt |-> 2, nonce |-> nonce]

Signed(receipt) == [receipt |-> receipt, providerSignature |-> prov,
                    settlementSignature |-> broker]

(* Two requests on s1, the first also billed to s2 by another version, a   *)
(* receipt that reuses a nonce, one that overcharges.                      *)
SessionReceipts ==
    {Signed(r) : r \in {Receipt(r1, s1, 1, 2, 2, 1), Receipt(r2, s1, 1, 1, 1, 2),
                        Receipt(r3, s1, 1, 1, 1, 1), Receipt(r1, s2, 2, 1, 2, 3),
                        Receipt(r3, s2, 1, 1, 2, 4)}}

(* Receipts that quote fee versions before, in and after force. *)
FeeReceipts ==
    {Signed([Receipt(IF v = 1 THEN r1 ELSE r2, s1, 1, 20, 20, v) EXCEPT
                 !.feeVersion = v, !.feeBasisPoints = f]) :
        v \in {1, 2}, f \in {500, 1500, 5000}}

(* Conflicting receipts for two requests, signed by the provider or by a   *)
(* machine whose authorization comes and goes.                             *)
SlashReceipts ==
    {Signed(Receipt(r1, s1, 1, 1, 1, 1)), Signed(Receipt(r1, s1, 1, 2, 2, 1)),
     Signed(Receipt(r2, s1, 1, 1, 1, 2)),
     [Signed(Receipt(r2, s1, 1, 2, 2, 2)) EXCEPT !.providerSignature = mach],
     [Signed(Receipt(r3, s1, 1, 1, 1, 2)) EXCEPT !.settlementSignature = prov]}

AllReceipts == SessionReceipts \cup FeeReceipts \cup SlashReceipts

VARIABLE scenario

Sessions == INSTANCE MyferenceMarket WITH
    Providers <- {prov}, MachineSigners <- {}, Owners <- {}, Receipts <- SessionReceipts,
    Amounts <- {2}, FeeProposals <- {}, bondExitDelay <- 9, MaxTime <- 3, MaxWei <- 6

Fees == INSTANCE MyferenceMarket WITH
    Providers <- {prov}, MachineSigners <- {}, SessionIds <- {s1}, Prices <- UnitPrice,
    Receipts <- FeeReceipts, Amounts <- {20}, minimumBond <- 20, bondExitDelay <- 9,
    MaxTime <- 3, MaxVersion <- 1, MaxBatch <- 1

Bonds == INSTANCE MyferenceMarket WITH
    Customers <- {}, Owners <- {}, Receipts <- SlashReceipts, Amounts <- {1, 2},
    FeeProposals <- {}, MaxWei <- 4, MaxVersion <- 0

MCInit == Init /\ scenario \in {"sessions", "fees", "bonds"}

MCNext ==
    /\ \/ scenario = "sessions" /\ Sessions!Next
       \/ scenario = "fees" /\ Fees!Next
       \/ scenario = "bonds" /\ Bonds!Next
    /\ UNCHANGED scenario

MCSpec == MCInit /\ [][MCNext]_<<vars, scenario>>
=============================================================================
