----------------------------- MODULE ChainTables -----------------------------
(***************************************************************************)
(* What one contract event does to the broker's database: applyLog of      *)
(* chain/indexer.go, one operator per event, as functions from the tables  *)
(* to the tables.  A table is a function whose domain is the set of its    *)
(* keys, so that an UPDATE of a row that is not there changes nothing.     *)
(* An event is a record; which fields it has depends on its kind.          *)
(***************************************************************************)
EXTENDS Integers, FiniteSets, TLC

CONSTANT feeRecipient   \* read from the contract when the indexer is opened

NoRows == [k \in {} |-> 0]

NoAccount == [customerBalance |-> 0, bond |-> 0, claimable |-> 0, exitAt |-> 0]

(* wallets: addresses with an account of the broker.  The chain tables are *)
(* emptied by a rewind, the broker's own tables are not.                   *)
EmptyTables(wallets) ==
    [accounts |-> NoRows, signers |-> {}, offers |-> NoRows,
     chainSessions |-> NoRows, settlements |-> NoRows, slashes |-> NoRows,
     wallets |-> wallets, sessions |-> NoRows, hold |-> NoRows, held |-> {},
     queue |-> NoRows, requests |-> NoRows, failed |-> FALSE]

Upsert(table, key, row) == (key :> row) @@ table

Update(table, key, row) == IF key \in DOMAIN table THEN Upsert(table, key, row) ELSE table

InsertNew(table, key, row) == IF key \in DOMAIN table THEN table ELSE Upsert(table, key, row)

AccountRow(db, a) == IF a \in DOMAIN db.accounts THEN db.accounts[a] ELSE NoAccount

-----------------------------------------------------------------------------
(* Accounts, bonds, signers and offers *)

(* INSERT ... ON CONFLICT DO UPDATE of the claimable column. *)
CreditClaimable(db, a, amount) ==
    [db EXCEPT !.accounts = Upsert(@, a, [AccountRow(db, a) EXCEPT !.claimable = @ + amount])]

UpdateAccount(db, a, row) == [db EXCEPT !.accounts = Update(@, a, row)]

Deposited(db, log) ==
    [db EXCEPT !.accounts = Upsert(@, log.account,
        [AccountRow(db, log.account) EXCEPT !.customerBalance = @ + log.amount])]

WithdrawalRequested(db, log) ==
    UpdateAccount(db, log.account,
        [AccountRow(db, log.account) EXCEPT !.customerBalance = @ - log.amount,
                                            !.claimable = @ + log.amount])

Claimed(db, log) ==
    UpdateAccount(db, log.account,
        [AccountRow(db, log.account) EXCEPT !.claimable = @ - log.amount])

BondDepositedAdds(db, log) ==
    [db EXCEPT !.accounts = Upsert(@, log.account,
        [AccountRow(db, log.account) EXCEPT !.bond = @ + log.total])]

(* The event carries the total bond, which replaces the column. *)
BondDeposited(db, log) ==
    [db EXCEPT !.accounts = Upsert(@, log.account,
        [AccountRow(db, log.account) EXCEPT !.bond = log.total])]

ProviderSignerSet(db, log) ==
    [db EXCEPT !.signers = IF log.allowed THEN @ \cup {<<log.account, log.signer>>}
                                          ELSE @ \ {<<log.account, log.signer>>}]

BondExitRequested(db, log) ==
    UpdateAccount(db, log.account, [AccountRow(db, log.account) EXCEPT !.exitAt = log.at])

BondExitFinalized(db, log) ==
    UpdateAccount(db, log.account,
        [AccountRow(db, log.account) EXCEPT !.bond = 0, !.exitAt = 0,
                                            !.claimable = @ + log.amount])

OfferPublished(db, log) ==
    [db EXCEPT !.offers = InsertNew(@, <<log.account, log.offer, log.version>>, log.terms)]

(* A second slash of a request cannot happen, so the row is always new.    *)
(* A bond slashed to nothing also loses its running exit.                  *)
ProviderSlashed(db, log) ==
    LET row == AccountRow(db, log.account)
        slashed == UpdateAccount(
                       [db EXCEPT !.slashes = InsertNew(@, log.request, log.amount)],
                       log.account,
                       [row EXCEPT !.bond = @ - log.amount,
                                   !.exitAt = IF row.bond = log.amount THEN 0 ELSE @])
    IN  CreditClaimable(slashed, feeRecipient, log.amount)

-----------------------------------------------------------------------------
(* Sessions *)

(* The broker's own session row is written only for a wallet it knows, and *)
(* written over when it is there already.                                  *)
SessionOpened(db, log) ==
    LET row == [customer |-> log.account, allowance |-> log.amount, spent |-> 0,
                expiresAt |-> log.at, closeAt |-> 0, finalized |-> FALSE]
        charged == UpdateAccount(db, log.account,
                       [AccountRow(db, log.account) EXCEPT !.customerBalance = @ - log.amount])
    IN  [charged EXCEPT !.chainSessions = InsertNew(@, log.session, row),
                        !.sessions = IF log.account \in db.wallets
                                     THEN Upsert(@, log.session,
                                                 [state |-> "open", confirmed |-> log.amount])
                                     ELSE @]

SessionCloseRequested(db, log) ==
    LET s == log.session
    IN  [db EXCEPT !.chainSessions =
                       IF s \in DOMAIN @ THEN [@ EXCEPT ![s].closeAt = log.at] ELSE @,
                   !.sessions = IF s \in DOMAIN @ /\ @[s].state = "open"
                                THEN [@ EXCEPT ![s].state = "closing"] ELSE @]

(* UPDATE ... RETURNING customer finds no row: the whole range fails. *)
SessionClosed(db, log) ==
    LET s == log.session
    IN  IF s \notin DOMAIN db.chainSessions THEN [db EXCEPT !.failed = TRUE]
        ELSE LET opener == db.chainSessions[s].customer
                 returned == UpdateAccount(db, opener,
                                 [AccountRow(db, opener) EXCEPT
                                     !.customerBalance = @ + log.amount])
             IN  [returned EXCEPT !.chainSessions[s].finalized = TRUE,
                                  !.sessions = Update(@, s, [state |-> "closed",
                                                             confirmed |-> 0])]

-----------------------------------------------------------------------------
(* Settlements *)

(* transitionSettlementRequest: only a request in the expected state moves. *)
transitionSettlementRequest(db, r, from, to) ==
    IF r \in DOMAIN db.requests /\ db.requests[r] = from
    THEN [db EXCEPT !.requests[r] = to] ELSE db

GreatestZero(n) == IF n < 0 THEN 0 ELSE n

(* The money side of ReceiptSettled, for a settlement not seen before. *)
SettledFunds(db, log) ==
    LET s == log.session
        total == log.amount + log.fee
        spent == [db EXCEPT
            !.settlements = Upsert(@, log.request, [session |-> s, charge |-> total]),
            !.chainSessions = IF s \in DOMAIN @ THEN [@ EXCEPT ![s].spent = @ + total] ELSE @,
            !.sessions = IF s \in DOMAIN @
                         THEN [@ EXCEPT ![s].confirmed = GreatestZero(@ - total)] ELSE @]
    IN  CreditClaimable(CreditClaimable(spent, log.account, log.amount), feeRecipient, log.fee)

(* The receipt's own rows: out of the queue, hold released, settled. *)
ReleasedHold(db, r) ==
    transitionSettlementRequest(
        [db EXCEPT !.queue = IF r \in DOMAIN @ /\ @[r] = "broadcasting"
                             THEN [@ EXCEPT ![r] = "settled"] ELSE @,
                   !.held = @ \ {r}],
        r, "submitted", "settled")

ReceiptSettled(db, log) ==
    LET r == log.request
    IN  IF r \in DOMAIN db.hold /\ db.hold[r] # log.amount + log.fee
        THEN [db EXCEPT !.failed = TRUE]
        ELSE IF r \in DOMAIN db.settlements THEN db
        ELSE ReleasedHold(SettledFunds(db, log), r)

-----------------------------------------------------------------------------
(* FeeProposed, FeeChanged, Paused and Unpaused project nothing. *)
applyLog(db, log) ==
    CASE log.kind = "Deposited" -> Deposited(db, log)
      [] log.kind = "WithdrawalRequested" -> WithdrawalRequested(db, log)
      [] log.kind = "Claimed" -> Claimed(db, log)
      [] log.kind = "BondDeposited" -> BondDeposited(db, log)
      [] log.kind = "ProviderSignerSet" -> ProviderSignerSet(db, log)
      [] log.kind = "BondExitRequested" -> BondExitRequested(db, log)
      [] log.kind = "BondExitFinalized" -> BondExitFinalized(db, log)
      [] log.kind = "OfferPublished" -> OfferPublished(db, log)
      [] log.kind = "SessionOpened" -> SessionOpened(db, log)
      [] log.kind = "SessionCloseRequested" -> SessionCloseRequested(db, log)
      [] log.kind = "SessionClosed" -> SessionClosed(db, log)
      [] log.kind = "ReceiptSettled" -> ReceiptSettled(db, log)
      [] log.kind = "ProviderSlashed" -> ProviderSlashed(db, log)
      [] OTHER -> db

RewoundWithoutHolds(db) ==
    [EmptyTables(db.wallets) EXCEPT
        !.sessions = db.sessions, !.hold = db.hold, !.held = db.held,
        !.queue = db.queue, !.requests = db.requests]

(* rewind: the settlements of the index come back as submitted, with their *)
(* holds, and every chain table is emptied.  The sessions stay as they are. *)
rewind(db) ==
    LET reverted == DOMAIN db.settlements
        back == {r \in reverted \cap DOMAIN db.hold : db.hold[r] > 0}
    IN  [EmptyTables(db.wallets) EXCEPT
            !.sessions = db.sessions, !.hold = db.hold, !.held = db.held \cup back,
            !.queue = [r \in DOMAIN db.queue |->
                          IF r \in reverted /\ db.queue[r] = "settled"
                          THEN "broadcasting" ELSE db.queue[r]],
            !.requests = [r \in DOMAIN db.requests |->
                             IF r \in reverted /\ db.requests[r] = "settled"
                             THEN "submitted" ELSE db.requests[r]]]
=============================================================================
