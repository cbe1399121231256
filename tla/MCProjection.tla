---------------------------- MODULE MCProjection ----------------------------
(* Small instances of the contract with its indexer. *)
EXTENDS ChainProjection

CONSTANTS cust, prov, mach, fee, broker, nobody, s1, r1, r2, o1, textModel

MCPrices == {[input |-> 1000000, output |-> 0, compute |-> 0]}

(* A receipt for n tokens; the fee of the larger one is not zero. *)
Receipt(req, n, nonce) ==
    [requestId |-> req, sessionId |-> s1, customer |-> cust, provider |-> prov,
     settlementSigner |-> broker, offerId |-> o1, priceVersion |-> 1,
     content |-> textModel, usage |-> [input |-> n, output |-> 0, compute |-> 0],
     maximumCharge |-> n, totalCharge |-> n, feeBasisPoints |-> 500,
     feeVersion |-> 1, status |-> 1, completedAt |-> 1, nonce |-> nonce]

Signed(receipt) == [receipt |-> receipt, providerSignature |-> prov,
                    settlementSignature |-> broker]

MCReceipts == {Signed(Receipt(r1, 20, 1)), Signed(Receipt(r1, 1, 1)),
               Signed(Receipt(r2, 20, 2))}
=============================================================================
