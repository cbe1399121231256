----------------------------- MODULE Settlement -----------------------------
(***************************************************************************)
(* From a co-signed receipt to its settlement: the terms the coordinator   *)
(* reads from the contract, the settlement queue, the loop that signs and  *)
(* broadcasts one transaction at a time, the node's pool, the chain and    *)
(* the indexer.  The contract accepts a receipt or reverts it for good;    *)
(* what else it checks is MyferenceMarket.  The transaction of a request   *)
(* is named by the request.                                                *)
(***************************************************************************)
EXTENDS Integers, Sequences, FiniteSets

CONSTANTS
    Requests, Sessions, sessionOf,
    MaxFees,        \* bound: changes of the fee
    MaxCloses,      \* bound: sessions that close with receipts outstanding
    MaxFaults,      \* bound: restarts, failed calls, forks and rewinds
    MaxDrops        \* bound: transactions the node forgets

ASSUME SettlementAssumption ==
    /\ IsFiniteSet(Requests) /\ sessionOf \in [Requests -> Sessions]
    /\ {MaxFees, MaxCloses, MaxFaults, MaxDrops} \subseteq Nat

VARIABLES
    (* the database *)
    queue,          \* settlement_queue.state
    created,        \* requests in the order of created_at
    updatedAt,      \* settlement_queue.updated_at
    nonce,          \* of the raw transaction in the row, -1 without one
    request,        \* requests.state
    (* the server's memory *)
    quotedFee,      \* the fee the coordinator read, 0 before
    quotedVersion,
    waiting,        \* the transaction the loop waits for, or Nobody
    (* the chain *)
    fee,            \* the fee in force, which is also its version's number
    closed,         \* sessions closed for good
    pool,           \* transactions the node knows and has not mined
    mined,          \* requests, in the order of the nonces
    final,          \* how many of them can no longer be dropped
    paid,           \* mined transactions that did not revert
    faults, drops

dbVars == <<queue, created, updatedAt, nonce, request>>
quoteVars == <<quotedFee, quotedVersion>>
chainVars == <<fee, closed, pool, mined, final, paid>>
vars == <<queue, created, updatedAt, nonce, request, quotedFee, quotedVersion,
          waiting, fee, closed, pool, mined, final, paid, faults, drops>>

Nobody == "nobody"

Init ==
    /\ queue = [r \in Requests |-> "none"]
    /\ created = <<>>
    /\ updatedAt = [r \in Requests |-> 0]
    /\ nonce = [r \in Requests |-> -1]
    /\ request = [r \in Requests |-> "completed"]
    /\ quotedFee = [r \in Requests |-> 0] /\ quotedVersion = [r \in Requests |-> 0]
    /\ waiting = Nobody
    /\ fee = 1 /\ closed = {} /\ pool = {} /\ mined = <<>> /\ final = 0 /\ paid = {}
    /\ faults = 0 /\ drops = 0

-----------------------------------------------------------------------------
(* The coordinator *)

(* ReceiptTerms: feeBasisPoints and feeVersion are two calls. *)
FeeBasisPoints(r) ==
    /\ queue[r] = "none" /\ quotedFee[r] = 0
    /\ quotedFee' = [quotedFee EXCEPT ![r] = fee]
    /\ UNCHANGED <<dbVars, quotedVersion, waiting, chainVars, faults, drops>>

(* transitionSettlementRequest *)
Moved(states, r, from, to) == IF states[r] = from THEN [states EXCEPT ![r] = to] ELSE states

(* FeeVersion, the signatures, and Enqueue. *)
Enqueue(r) ==
    /\ queue[r] = "none" /\ quotedFee[r] # 0
    /\ quotedVersion' = [quotedVersion EXCEPT ![r] = fee]
    /\ queue' = [queue EXCEPT ![r] = "cosigned"]
    /\ created' = Append(created, r)
    /\ request' = Moved(request, r, "completed", "signed")
    /\ UNCHANGED <<updatedAt, nonce, quotedFee, waiting, chainVars, faults, drops>>

-----------------------------------------------------------------------------
(* The contract and the node *)

(* What _settleReceipt checks and nobody can repair afterwards. *)
Acceptable(r) == quotedFee[r] = quotedVersion[r] /\ sessionOf[r] \notin closed

Mined(r) == \E i \in DOMAIN mined : mined[i] = r

(* PendingNonceAt *)
PendingNonce ==
    CHOOSE n \in Len(mined) .. Len(mined) + Cardinality(Requests) :
        /\ \A r \in pool : nonce[r] # n
        /\ \A m \in Len(mined) .. n - 1 : \E r \in pool : nonce[r] = m

Mine(r) ==
    /\ r \in pool /\ nonce[r] = Len(mined)
    /\ mined' = Append(mined, r)
    /\ pool' = pool \ {r}
    /\ paid' = IF Acceptable(r) /\ r \notin paid THEN paid \cup {r} ELSE paid
    /\ UNCHANGED <<dbVars, quoteVars, waiting, fee, closed, final, faults, drops>>

Finalize ==
    /\ final < Len(mined)
    /\ final' = final + 1
    /\ UNCHANGED <<dbVars, quoteVars, waiting, fee, closed, pool, mined, paid, faults, drops>>

(* A fork drops blocks that are not final; their transactions are pending  *)
(* again.                                                                  *)
Fork ==
    /\ faults < MaxFaults
    /\ \E kept \in final .. Len(mined) - 1 :
           LET dropped == {mined[i] : i \in kept + 1 .. Len(mined)}
           IN  /\ mined' = SubSeq(mined, 1, kept)
               /\ pool' = pool \cup dropped
               /\ paid' = paid \ dropped
    /\ faults' = faults + 1
    /\ UNCHANGED <<dbVars, quoteVars, waiting, fee, closed, final, drops>>

(* The node forgets a transaction: its pool is full, or it restarts. *)
Drop(r) ==
    /\ drops < MaxDrops /\ r \in pool
    /\ pool' = pool \ {r}
    /\ drops' = drops + 1
    /\ UNCHANGED <<dbVars, quoteVars, waiting, fee, closed, mined, final, paid, faults>>

executeFeeChange ==
    /\ fee <= MaxFees
    /\ fee' = fee + 1
    /\ UNCHANGED <<dbVars, quoteVars, waiting, closed, pool, mined, final, paid, faults, drops>>

finalizeSessionClose(s) ==
    /\ s \notin closed /\ Cardinality(closed) < MaxCloses
    /\ closed' = closed \cup {s}
    /\ UNCHANGED <<dbVars, quoteVars, waiting, fee, pool, mined, final, paid, faults, drops>>

-----------------------------------------------------------------------------
(* SettleBatch *)

Broadcasting == {r \in Requests : queue[r] = "broadcasting"}

NeverPending == {}

(* pendingBroadcast: the row that was updated first. *)
Pending == {r \in Broadcasting : \A q \in Broadcasting : updatedAt[r] <= updatedAt[q]}

(* SendTransaction, and TransactionReceipt when the node refuses it.  A    *)
(* transaction whose nonce another one has used is refused for good.       *)
Broadcast(r) ==
    IF nonce'[r] >= Len(mined)
    THEN pool' = pool \cup {r} /\ waiting' = r
    ELSE UNCHANGED pool /\ waiting' = IF Mined(r) THEN r ELSE Nobody

(* An unsettled transaction is sent again before any other receipt. *)
Rebroadcast ==
    /\ waiting = Nobody
    /\ \E r \in Pending : UNCHANGED nonce /\ Broadcast(r)
    /\ UNCHANGED <<queue, created, updatedAt, request, quoteVars, fee, closed, mined,
                   final, paid, faults, drops>>

(* The co-signed row that was created first, if there is one. *)
Oldest ==
    {created[i] : i \in {j \in DOMAIN created :
        /\ queue[created[j]] = "cosigned"
        /\ \A k \in 1 .. j - 1 : queue[created[k]] # "cosigned"}}

Latest == CHOOSE t \in {0} \cup {updatedAt[r] : r \in Requests} :
              \A r \in Requests : updatedAt[r] <= t

SeveralAtOnce == TRUE

(* A new transaction is made only when no other is outstanding. *)
NoneOutstanding == Broadcasting = {}

(* PrepareSettlement estimates the gas of the call: a receipt the contract *)
(* does not accept gets no transaction and stays the oldest.               *)
Preparable(r) == Acceptable(r) /\ r \notin paid

(* The transaction is committed to the row before it is sent; the server   *)
(* may stop in between.                                                    *)
PrepareSettlement ==
    /\ waiting = Nobody /\ NoneOutstanding
    /\ \E r \in Oldest :
           /\ Preparable(r)
           /\ nonce' = [nonce EXCEPT ![r] = PendingNonce]
           /\ queue' = [queue EXCEPT ![r] = "broadcasting"]
           /\ updatedAt' = [updatedAt EXCEPT ![r] = Latest + 1]
           /\ request' = Moved(request, r, "signed", "submitted")
           /\ \/ Broadcast(r) /\ UNCHANGED faults
              \/ faults < MaxFaults /\ faults' = faults + 1 /\ UNCHANGED <<pool, waiting>>
    /\ UNCHANGED <<created, quoteVars, fee, closed, mined, final, paid, drops>>

(* WaitMined returns once the transaction has a receipt, good or bad; the  *)
(* row stays broadcasting for the indexer to settle.                       *)
WaitMined ==
    /\ waiting # Nobody /\ Mined(waiting)
    /\ waiting' = Nobody
    /\ UNCHANGED <<dbVars, quoteVars, chainVars, faults, drops>>

(* The server restarts, or a call of the loop fails. *)
Restart ==
    /\ waiting # Nobody /\ faults < MaxFaults
    /\ waiting' = Nobody
    /\ faults' = faults + 1
    /\ UNCHANGED <<dbVars, quoteVars, chainVars, drops>>

-----------------------------------------------------------------------------
(* The indexer's side of the queue *)

Confirmed(r) == \E i \in 1 .. final : mined[i] = r

ReceiptSettled(r) ==
    /\ r \in paid /\ Confirmed(r)
    /\ queue[r] = "broadcasting"
    /\ queue' = [queue EXCEPT ![r] = "settled"]
    /\ updatedAt' = [updatedAt EXCEPT ![r] = Latest + 1]
    /\ request' = Moved(request, r, "submitted", "settled")
    /\ UNCHANGED <<created, nonce, quoteVars, waiting, chainVars, faults, drops>>

(* A failed call makes the indexer rewind: every settled row is            *)
(* broadcasting again, all at one instant, until its event is replayed.    *)
rewind ==
    /\ faults < MaxFaults
    /\ \E r \in Requests : queue[r] = "settled"
    /\ queue' = [r \in Requests |-> IF queue[r] = "settled" THEN "broadcasting" ELSE queue[r]]
    /\ updatedAt' = [r \in Requests |-> IF queue[r] = "settled" THEN Latest + 1 ELSE updatedAt[r]]
    /\ request' = [r \in Requests |-> IF queue[r] = "settled" THEN "submitted" ELSE request[r]]
    /\ faults' = faults + 1
    /\ UNCHANGED <<created, nonce, quoteVars, waiting, chainVars, drops>>

-----------------------------------------------------------------------------
SettleBatch == Rebroadcast \/ PrepareSettlement \/ WaitMined

Index == \E r \in Requests : ReceiptSettled(r)

Next ==
    \/ \E r \in Requests : FeeBasisPoints(r) \/ Enqueue(r) \/ Mine(r) \/ Drop(r)
    \/ SettleBatch \/ Restart
    \/ Finalize \/ Fork \/ executeFeeChange
    \/ \E s \in Sessions : finalizeSessionClose(s)
    \/ Index \/ rewind

Spec == Init /\ [][Next]_vars

(* The loop and the indexer run on tickers; a live chain mines what its    *)
(* pool can execute and finalizes what it mined.                           *)
FairSpec ==
    /\ Spec
    /\ WF_vars(SettleBatch)
    /\ WF_vars(\E r \in Requests : Mine(r))
    /\ WF_vars(Finalize)
    /\ WF_vars(Index)

-----------------------------------------------------------------------------
(* Properties *)

(* No two transactions that still matter share a nonce, whatever was       *)
(* committed and not sent, forgotten by the node or thrown back by a fork: *)
(* otherwise one of two co-signed receipts could never be mined.           *)
TransactionsDoNotCollide ==
    \A r, q \in Requests :
        r # q /\ nonce[r] >= 0 /\ nonce[q] >= 0 => nonce[r] # nonce[q]

(* "The runtime persists the raw transaction before broadcast": whatever   *)
(* the node or the chain knows can be found, and sent again, from the      *)
(* queue after a restart.                                                  *)
PersistedBeforeBroadcast ==
    \A r \in Requests : r \in pool \/ Mined(r) =>
        nonce[r] >= 0 /\ queue[r] \in {"broadcasting", "settled"}

(* A provider counted as paid stays paid, and a row the broker shows as    *)
(* settled has its payment on the final part of the chain.                 *)
SettledMeansPaid ==
    \A r \in Requests : queue[r] = "settled" \/ request[r] = "settled" =>
        r \in paid /\ \E i \in 1 .. final : mined[i] = r

(* The queue and the chain agree: no two transactions share a nonce, none  *)
(* is out that a restart would not find, and settled means paid in a final *)
(* block (SettleBatch, prepareSettlement, broadcastSettlement).            *)
QueueMatchesChain == TransactionsDoNotCollide /\ PersistedBeforeBroadcast /\ SettledMeansPaid

(* Every receipt both sides signed is settled, through restarts, failed    *)
(* calls, forks and rewinds, while the contract accepts all of them.       *)
NoneOpen == \A r \in Requests : queue[r] \in {"none", "settled"}
ReceiptsSettle == []<>NoneOpen

(* "Settlement transactions contain one receipt so a stale or invalid      *)
(* receipt cannot revert unrelated providers' payouts": a receipt that the *)
(* contract goes on accepting is settled, whatever becomes of the others.  *)
(* (Fails: one that cannot be settled holds up all that follow.)           *)
ReceiptsAreIsolated ==
    \A r \in Requests :
        queue[r] = "cosigned" ~> (queue[r] = "settled" \/ ~Acceptable(r))
=============================================================================
