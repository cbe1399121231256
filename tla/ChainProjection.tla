--------------------------- MODULE ChainProjection ---------------------------
(***************************************************************************)
(* The escrow contract composed with the indexer that follows it, on a     *)
(* chain that never forks: every call of the contract emits its event, and *)
(* the indexer applies the events it has not seen yet, a range of blocks   *)
(* at a time.  (Forks are the subject of Indexer.)                         *)
(***************************************************************************)
EXTENDS MyferenceMarket, SequencesExt

CONSTANT MaxLag     \* bound: events emitted and not indexed yet

Tables == INSTANCE ChainTables

VARIABLES
    log,        \* events of blocks that are not indexed yet
    tables      \* the broker's database

projectionVars == <<log, tables>>

ProjectionInit ==
    /\ Init
    /\ log = <<>>
    /\ tables = Tables!EmptyTables(Customers)

Emit(event) ==
    /\ Len(log) < MaxLag
    /\ log' = Append(log, event)
    /\ UNCHANGED tables

-----------------------------------------------------------------------------
(* Each external function with the event it emits *)

CustomerEvent ==
    \E sender \in Customers :
        \/ \E value \in Amounts :
               /\ deposit(sender, value)
               /\ Emit([kind |-> "Deposited", account |-> sender, amount |-> value])
        \/ \E amount \in Amounts :
               /\ requestWithdrawal(sender, amount)
               /\ Emit([kind |-> "WithdrawalRequested", account |-> sender, amount |-> amount])
        \/ \E s \in SessionIds, allowance \in Amounts, expiresAt \in Expiries :
               /\ openSession(sender, s, allowance, expiresAt)
               /\ Emit([kind |-> "SessionOpened", session |-> s, account |-> sender,
                        amount |-> allowance, at |-> expiresAt])
        \/ \E s \in SessionIds :
               /\ requestSessionClose(sender, s)
               /\ Emit([kind |-> "SessionCloseRequested", session |-> s,
                        at |-> sessions'[s].closeAvailableAt])
        \/ \E s \in SessionIds :
               /\ finalizeSessionClose(sender, s)
               /\ Emit([kind |-> "SessionClosed", session |-> s,
                        amount |-> Remaining(sessions[s])])

ProviderEvent ==
    \E sender \in Providers :
        \/ \E value \in Amounts :
               /\ depositBond(sender, value)
               /\ Emit([kind |-> "BondDeposited", account |-> sender,
                        amount |-> value, total |-> providerBonds'[sender]])
        \/ \E signer \in MachineSigners, allowed \in BOOLEAN :
               /\ setProviderSigner(sender, signer, allowed)
               /\ Emit([kind |-> "ProviderSignerSet", account |-> sender,
                        signer |-> signer, allowed |-> allowed])
        \/ /\ requestBondExit(sender)
           /\ Emit([kind |-> "BondExitRequested", account |-> sender,
                    at |-> bondExitAvailableAt'[sender]])
        \/ /\ finalizeBondExit(sender)
           /\ Emit([kind |-> "BondExitFinalized", account |-> sender,
                    amount |-> providerBonds[sender]])
        \/ \E o \in OfferIds, content \in Contents, price \in Prices :
               /\ publishOffer(sender, o, content, price)
               /\ Emit([kind |-> "OfferPublished", account |-> sender, offer |-> o,
                        version |-> Len(offerVersions'[sender][o]),
                        terms |-> [content |-> content, price |-> price]])

ReceiptEvent(receipt) ==
    [kind |-> "ReceiptSettled", request |-> receipt.requestId,
     session |-> receipt.sessionId, account |-> receipt.provider,
     amount |-> receipt.totalCharge - FeeAmount(receipt), fee |-> FeeAmount(receipt)]

SettlementEvent ==
    \/ \E signed \in Receipts : settleReceipt(signed) /\ Emit(ReceiptEvent(signed.receipt))
    \/ /\ \E b \in Batches({s \in Receipts : Settleable(s)}) : settleReceipts(b)
       /\ UNCHANGED projectionVars
    \/ SettleNext /\ Emit(ReceiptEvent(Head(batch).receipt))
    \/ \E first, second \in Receipts :
           /\ slashDoubleSign(first, second)
           /\ Emit([kind |-> "ProviderSlashed", account |-> first.receipt.provider,
                    request |-> first.receipt.requestId,
                    amount |-> SlashAmount(first.receipt.provider)])

ClaimEvent ==
    \E sender \in Accounts :
        /\ claim(sender)
        /\ Emit([kind |-> "Claimed", account |-> sender, amount |-> claimable[sender]])

-----------------------------------------------------------------------------
(* The events of blocks not indexed yet, applied in the order of the chain. *)
Indexed(db, events) == FoldLeft(Tables!applyLog, db, events)

(* indexRange over all complete blocks; a range that fails is retried and  *)
(* leaves no trace.                                                        *)
indexRange ==
    /\ Idle /\ log # <<>>
    /\ ~Indexed(tables, log).failed
    /\ tables' = Indexed(tables, log)
    /\ log' = <<>>
    /\ UNCHANGED vars

ProjectionNext ==
    \/ CustomerEvent
    \/ ProviderEvent
    \/ SettlementEvent
    \/ ClaimEvent
    \/ Tick /\ UNCHANGED projectionVars
    \/ indexRange

ProjectionSpec == ProjectionInit /\ [][ProjectionNext]_<<vars, projectionVars>>

-----------------------------------------------------------------------------
(* Properties *)

AccountsAgree(db) ==
    \A a \in Accounts : Tables!AccountRow(db, a) =
        [customerBalance |-> customerBalances[a], bond |-> providerBonds[a],
         claimable |-> claimable[a], exitAt |-> bondExitAvailableAt[a]]

SessionsAgree(db) ==
    \A s \in SessionIds :
        IF sessions[s].customer = NoAddress THEN s \notin DOMAIN db.chainSessions
        ELSE /\ db.chainSessions[s] =
                  [customer |-> sessions[s].customer, allowance |-> sessions[s].allowance,
                   spent |-> sessions[s].spent, expiresAt |-> sessions[s].expiresAt,
                   closeAt |-> sessions[s].closeAvailableAt,
                   finalized |-> sessions[s].finalized]
             /\ db.sessions[s] =
                  [state |-> IF sessions[s].finalized THEN "closed"
                             ELSE IF sessions[s].closeAvailableAt # 0 THEN "closing"
                             ELSE "open",
                   confirmed |-> Locked[s]]

(* Once it has indexed every event, the broker's database says what the    *)
(* contract says: balances, bonds and running exits, what can be claimed,  *)
(* signers, price versions, sessions with what is left of them, settled    *)
(* and slashed requests.  No event is missing from applyLog, none is       *)
(* applied twice, and no range of a real chain fails.                      *)
ProjectionAgrees ==
    LET db == Indexed(tables, log)
    IN  /\ ~db.failed
        /\ AccountsAgree(db)
        /\ SessionsAgree(db)
        /\ db.signers = providerSigners
        /\ \A p \in Accounts, o \in OfferIds :
              /\ \A v \in DOMAIN offerVersions[p][o] :
                    db.offers[<<p, o, v>>] = offerVersions[p][o][v]
              /\ {k \in DOMAIN db.offers : k[1] = p /\ k[2] = o}
                   = {<<p, o, v>> : v \in DOMAIN offerVersions[p][o]}
        /\ DOMAIN db.settlements = settledRequests
        /\ DOMAIN db.slashes = slashedRequests
=============================================================================
