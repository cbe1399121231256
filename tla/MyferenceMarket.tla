--------------------------- MODULE MyferenceMarket ---------------------------
(***************************************************************************)
(* The escrow contract (contracts/src/MyferenceMarket.sol).  One action    *)
(* per external function; a call that reverts changes nothing and is no    *)
(* step.  Mappings are functions over the addresses and identifiers in     *)
(* play, boolean mappings are sets, the arrays indexed by a version are    *)
(* sequences.  Addresses and hashes are model values: bytes32(0) and       *)
(* address(0) are not among them, NoAddress marks an unused session.       *)
(***************************************************************************)
EXTENDS Integers, Sequences, FiniteSets, Pricing, Sums

CONSTANTS
    Accounts,           \* every address that can hold funds here
    Customers,          \* addresses that call the customer's functions
    Providers,          \* addresses that call the provider's functions
    MachineSigners,     \* addresses a provider may authorize to sign
    Owners,             \* the owner, or nobody once ownership is renounced
    feeRecipient, settlementSigner, NoAddress,
    SessionIds, RequestIds, OfferIds,
    Contents,           \* pairs of a model hash and a capability hash
    Prices,             \* prices a provider may publish
    Receipts,           \* signed receipts that may be presented
    Amounts, Expiries, FeeProposals,    \* other arguments of calls
    minimumBond, bondExitDelay, feeDelay, SESSION_CLOSE_DELAY,
    MaxTime, MaxWei, MaxVersion, MaxFeeVersion, MaxBatch    \* bounds

MAXIMUM_FEE_BASIS_POINTS == 1500
InitialFee == 500

Signers == Accounts \cup MachineSigners \cup {settlementSigner}

ReceiptType ==
    [requestId : RequestIds, sessionId : SessionIds, customer : Accounts,
     provider : Accounts, settlementSigner : Signers, offerId : OfferIds,
     priceVersion : Nat, content : Contents, usage : UsageType,
     maximumCharge : Nat, totalCharge : Nat, feeBasisPoints : Nat,
     feeVersion : Nat, status : Nat, completedAt : Nat, nonce : Nat]

(* A receipt with the addresses its two signatures recover to. *)
SignedReceiptType ==
    [receipt : ReceiptType, providerSignature : Signers,
     settlementSignature : Signers]

ASSUME MarketAssumption ==
    /\ IsFiniteSet(Accounts) /\ IsFiniteSet(SessionIds)
    /\ Customers \subseteq Accounts /\ Providers \subseteq Accounts
    /\ feeRecipient \in Accounts
    /\ NoAddress \notin Accounts
    /\ Prices \subseteq PriceType
    /\ Receipts \subseteq SignedReceiptType
    /\ Amounts \subseteq Nat /\ Expiries \subseteq Nat /\ FeeProposals \subseteq Nat
    /\ {minimumBond, bondExitDelay, feeDelay, SESSION_CLOSE_DELAY} \subseteq Nat
    /\ {MaxTime, MaxWei, MaxVersion, MaxFeeVersion, MaxBatch} \subseteq Nat
    /\ MaxFeeVersion >= 1

VARIABLES
    now,                    \* block.timestamp
    paused,
    balance,                \* the wei the contract holds
    customerBalances, claimable, providerBonds, bondExitAvailableAt,
    providerSigners,        \* pairs <<provider, signer>>
    offerVersions,          \* per provider and offer, versions 1 .. latest
    sessions,
    settledRequests, usedNonces, slashedRequests,
    feeBasisPoints, feeVersion, feeBpsByVersion,
    pendingFeeBasisPoints, pendingFeeAvailableAt, pendingFeeChange,
    totalCustomerBalances, totalProviderBonds, totalLockedSessions,
    totalClaimable,
    batch,                  \* receipts the running settleReceipts has left
    settlements,            \* the ReceiptSettled events, with their receipts
    lastBondAt,             \* history: when the provider last paid in a bond
    paidIn                  \* history: all wei ever sent in

accountVars == <<customerBalances, totalCustomerBalances>>
claimVars == <<claimable, totalClaimable>>
bondVars == <<providerBonds, bondExitAvailableAt, totalProviderBonds, lastBondAt>>
sessionVars == <<sessions, totalLockedSessions>>
receiptVars == <<settledRequests, usedNonces, settlements>>
feeVars == <<feeBasisPoints, feeVersion, feeBpsByVersion,
             pendingFeeBasisPoints, pendingFeeAvailableAt, pendingFeeChange>>
fundVars == <<balance, paidIn>>
miscVars == <<providerSigners, offerVersions, slashedRequests>>
clockVars == <<now, paused>>
vars == <<now, paused, balance, paidIn, customerBalances, totalCustomerBalances,
          claimable, totalClaimable, providerBonds, bondExitAvailableAt,
          totalProviderBonds, lastBondAt, sessions, totalLockedSessions,
          settledRequests, usedNonces, settlements, feeBasisPoints, feeVersion,
          feeBpsByVersion, pendingFeeBasisPoints, pendingFeeAvailableAt,
          pendingFeeChange, providerSigners, offerVersions, slashedRequests,
          batch>>

NoSession == [customer |-> NoAddress, allowance |-> 0, spent |-> 0,
              expiresAt |-> 0, closeAvailableAt |-> 0, finalized |-> FALSE]

Init ==
    /\ now = 1 /\ paused = FALSE
    /\ balance = 0 /\ paidIn = 0
    /\ customerBalances = [a \in Accounts |-> 0]
    /\ claimable = [a \in Accounts |-> 0]
    /\ providerBonds = [a \in Accounts |-> 0]
    /\ bondExitAvailableAt = [a \in Accounts |-> 0]
    /\ lastBondAt = [a \in Accounts |-> 0]
    /\ providerSigners = {}
    /\ offerVersions = [p \in Accounts |-> [o \in OfferIds |-> <<>>]]
    /\ sessions = [s \in SessionIds |-> NoSession]
    /\ settledRequests = {} /\ usedNonces = {} /\ slashedRequests = {}
    /\ feeBasisPoints = InitialFee /\ feeVersion = 1
    /\ feeBpsByVersion = [v \in 1 .. MaxFeeVersion |-> IF v = 1 THEN InitialFee ELSE 0]
    /\ pendingFeeBasisPoints = 0 /\ pendingFeeAvailableAt = 0
    /\ pendingFeeChange = FALSE
    /\ totalCustomerBalances = 0 /\ totalProviderBonds = 0
    /\ totalLockedSessions = 0 /\ totalClaimable = 0
    /\ batch = <<>> /\ settlements = {}

(* Transactions run one at a time: nothing else happens inside a batch. *)
Idle == batch = <<>>

(* The wei a payable call brings along; MaxWei bounds what ever comes in. *)
Receives(amount) ==
    /\ paidIn + amount <= MaxWei
    /\ balance' = balance + amount
    /\ paidIn' = paidIn + amount

CreditedOverwriting(credits, account, amount) == [credits EXCEPT ![account] = amount]

(* _creditClaimable, on the mapping alone. *)
Credited(credits, account, amount) == [credits EXCEPT ![account] = @ + amount]

-----------------------------------------------------------------------------
(* Customer balances *)

deposit(sender, value) ==
    /\ Idle /\ ~paused
    /\ value # 0
    /\ Receives(value)
    /\ customerBalances' = [customerBalances EXCEPT ![sender] = @ + value]
    /\ totalCustomerBalances' = totalCustomerBalances + value
    /\ UNCHANGED <<claimVars, bondVars, sessionVars, receiptVars, feeVars,
                   miscVars, clockVars, batch>>

Withdrawable(sender, amount) == amount # 0 /\ amount <= customerBalances[sender]

requestWithdrawal(sender, amount) ==
    /\ Idle
    /\ Withdrawable(sender, amount)
    /\ customerBalances' = [customerBalances EXCEPT ![sender] = @ - amount]
    /\ totalCustomerBalances' = totalCustomerBalances - amount
    /\ claimable' = Credited(claimable, sender, amount)
    /\ totalClaimable' = totalClaimable + amount
    /\ UNCHANGED <<fundVars, bondVars, sessionVars, receiptVars, feeVars,
                   miscVars, clockVars, batch>>

(* The transfer is the last effect; a receiver that refuses it reverts the *)
(* whole call, which is then no step.                                      *)
claim(sender) ==
    /\ Idle
    /\ claimable[sender] # 0
    /\ claimable' = [claimable EXCEPT ![sender] = 0]
    /\ totalClaimable' = totalClaimable - claimable[sender]
    /\ balance' = balance - claimable[sender]
    /\ UNCHANGED <<paidIn, accountVars, bondVars, sessionVars, receiptVars,
                   feeVars, miscVars, clockVars, batch>>

-----------------------------------------------------------------------------
(* Provider bonds, signers and offers *)

BondAcceptedDuringExit(sender, value) == value # 0

BondAccepted(sender, value) == value # 0 /\ bondExitAvailableAt[sender] = 0

depositBond(sender, value) ==
    /\ Idle /\ ~paused
    /\ BondAccepted(sender, value)
    /\ Receives(value)
    /\ providerBonds' = [providerBonds EXCEPT ![sender] = @ + value]
    /\ totalProviderBonds' = totalProviderBonds + value
    /\ lastBondAt' = [lastBondAt EXCEPT ![sender] = now]
    /\ UNCHANGED <<bondExitAvailableAt, accountVars, claimVars, sessionVars,
                   receiptVars, feeVars, miscVars, clockVars, batch>>

setProviderSigner(sender, signer, allowed) ==
    /\ Idle
    /\ providerSigners' = IF allowed THEN providerSigners \cup {<<sender, signer>>}
                                     ELSE providerSigners \ {<<sender, signer>>}
    /\ UNCHANGED <<offerVersions, slashedRequests, fundVars, accountVars,
                   claimVars, bondVars, sessionVars, receiptVars, feeVars,
                   clockVars, batch>>

requestBondExit(sender) ==
    /\ Idle
    /\ providerBonds[sender] # 0
    /\ bondExitAvailableAt[sender] = 0
    /\ bondExitAvailableAt' = [bondExitAvailableAt EXCEPT ![sender] = now + bondExitDelay]
    /\ UNCHANGED <<providerBonds, totalProviderBonds, lastBondAt, fundVars,
                   accountVars, claimVars, sessionVars, receiptVars, feeVars,
                   miscVars, clockVars, batch>>

finalizeBondExit(sender) ==
    /\ Idle
    /\ bondExitAvailableAt[sender] # 0
    /\ now >= bondExitAvailableAt[sender]
    /\ providerBonds' = [providerBonds EXCEPT ![sender] = 0]
    /\ bondExitAvailableAt' = [bondExitAvailableAt EXCEPT ![sender] = 0]
    /\ totalProviderBonds' = totalProviderBonds - providerBonds[sender]
    /\ claimable' = Credited(claimable, sender, providerBonds[sender])
    /\ totalClaimable' = totalClaimable + providerBonds[sender]
    /\ UNCHANGED <<lastBondAt, fundVars, accountVars, sessionVars, receiptVars,
                   feeVars, miscVars, clockVars, batch>>

LatestReplaced(versions, offer) ==
    IF versions = <<>> THEN <<offer>> ELSE [versions EXCEPT ![Len(versions)] = offer]

(* latestOfferVersion + 1 becomes the new version. *)
WithNewVersion(versions, offer) == Append(versions, offer)

publishOffer(sender, offerId, content, price) ==
    /\ Idle /\ ~paused
    /\ providerBonds[sender] >= minimumBond
    /\ bondExitAvailableAt[sender] = 0
    /\ Len(offerVersions[sender][offerId]) < MaxVersion
    /\ offerVersions' = [offerVersions EXCEPT ![sender][offerId] =
                            WithNewVersion(@, [content |-> content, price |-> price])]
    /\ UNCHANGED <<providerSigners, slashedRequests, fundVars, accountVars,
                   claimVars, bondVars, sessionVars, receiptVars, feeVars,
                   clockVars, batch>>

-----------------------------------------------------------------------------
(* Sessions *)

ValidSession(sessionId, allowance, expiresAt) ==
    /\ allowance # 0
    /\ expiresAt > now
    /\ sessions[sessionId].customer = NoAddress

openSession(sender, sessionId, allowance, expiresAt) ==
    /\ Idle /\ ~paused
    /\ ValidSession(sessionId, allowance, expiresAt)
    /\ customerBalances[sender] >= allowance
    /\ customerBalances' = [customerBalances EXCEPT ![sender] = @ - allowance]
    /\ totalCustomerBalances' = totalCustomerBalances - allowance
    /\ totalLockedSessions' = totalLockedSessions + allowance
    /\ sessions' = [sessions EXCEPT ![sessionId] =
           [customer |-> sender, allowance |-> allowance, spent |-> 0,
            expiresAt |-> expiresAt, closeAvailableAt |-> 0, finalized |-> FALSE]]
    /\ UNCHANGED <<fundVars, claimVars, bondVars, receiptVars, feeVars,
                   miscVars, clockVars, batch>>

requestSessionClose(sender, sessionId) ==
    /\ Idle
    /\ sessions[sessionId].customer = sender /\ ~sessions[sessionId].finalized
    /\ sessions[sessionId].closeAvailableAt = 0
    /\ sessions' = [sessions EXCEPT ![sessionId].closeAvailableAt =
                        now + SESSION_CLOSE_DELAY]
    /\ UNCHANGED <<totalLockedSessions, fundVars, accountVars, claimVars,
                   bondVars, receiptVars, feeVars, miscVars, clockVars, batch>>

Remaining(session) == session.allowance - session.spent

finalizeSessionClose(sender, sessionId) ==
    LET session == sessions[sessionId]
        remaining == Remaining(session)
    IN  /\ Idle
        /\ session.customer = sender /\ ~session.finalized
        /\ session.closeAvailableAt # 0
        /\ now >= session.closeAvailableAt
        /\ sessions' = [sessions EXCEPT ![sessionId].finalized = TRUE]
        /\ totalLockedSessions' = totalLockedSessions - remaining
        /\ customerBalances' = [customerBalances EXCEPT ![sender] = @ + remaining]
        /\ totalCustomerBalances' = totalCustomerBalances + remaining
        /\ UNCHANGED <<fundVars, claimVars, bondVars, receiptVars, feeVars,
                       miscVars, clockVars, batch>>

-----------------------------------------------------------------------------
(* Receipts *)

isProviderSigner(provider, signer) ==
    signer = provider \/ <<provider, signer>> \in providerSigners

(* An absent key of a Solidity mapping reads as zero. *)
FeeBpsAt(version) ==
    IF version \in DOMAIN feeBpsByVersion THEN feeBpsByVersion[version] ELSE 0

OfferOf(receipt) ==
    offerVersions[receipt.provider][receipt.offerId][receipt.priceVersion]

ReceiptCharge(receipt) == ContractCharge(receipt.usage, OfferOf(receipt).price)

FreshNonceOnly(receipt) == <<receipt.provider, receipt.nonce>> \notin usedNonces

Fresh(receipt) ==
    /\ receipt.requestId \notin settledRequests
    /\ <<receipt.provider, receipt.nonce>> \notin usedNonces

AllowanceNotSpent(session, charge) == session.spent < session.allowance

AllowanceCovers(session, charge) == session.spent + charge <= session.allowance

(* The checks of _settleReceipt, in the order of the code. *)
Settleable(signed) ==
    LET receipt == signed.receipt
        session == sessions[receipt.sessionId]
    IN  /\ Fresh(receipt)
        /\ receipt.status = 1
        /\ receipt.settlementSigner = settlementSigner
        /\ receipt.feeVersion # 0
        /\ FeeBpsAt(receipt.feeVersion) = receipt.feeBasisPoints
        /\ receipt.completedAt <= now
        /\ session.customer = receipt.customer
        /\ ~session.finalized
        /\ receipt.completedAt <= session.expiresAt
        /\ receipt.priceVersion \in DOMAIN offerVersions[receipt.provider][receipt.offerId]
        /\ OfferOf(receipt).content = receipt.content
        /\ ReceiptCharge(receipt) = receipt.totalCharge
        /\ receipt.totalCharge <= receipt.maximumCharge
        /\ AllowanceCovers(session, receipt.totalCharge)
        /\ isProviderSigner(receipt.provider, signed.providerSignature)
        /\ signed.settlementSignature = settlementSigner

FeeAmount(receipt) == (receipt.totalCharge * receipt.feeBasisPoints) \div 10000

(* The effects of _settleReceipt. *)
Settle(signed) ==
    LET receipt == signed.receipt
        charge == receipt.totalCharge
        feeAmount == FeeAmount(receipt)
        providerAmount == charge - feeAmount
    IN  /\ Settleable(signed)
        /\ settledRequests' = settledRequests \cup {receipt.requestId}
        /\ usedNonces' = usedNonces \cup {<<receipt.provider, receipt.nonce>>}
        /\ sessions' = [sessions EXCEPT ![receipt.sessionId].spent = @ + charge]
        /\ totalLockedSessions' = totalLockedSessions - charge
        /\ claimable' = Credited(Credited(claimable, receipt.provider, providerAmount),
                                 feeRecipient, feeAmount)
        /\ totalClaimable' = totalClaimable + providerAmount + feeAmount
        /\ settlements' = settlements \cup
               {[receipt |-> receipt, providerAmount |-> providerAmount,
                 feeAmount |-> feeAmount]}
        /\ UNCHANGED <<fundVars, accountVars, bondVars, feeVars, miscVars, clockVars>>

settleReceipt(signed) ==
    /\ Idle /\ ~paused
    /\ Settle(signed)
    /\ UNCHANGED batch

BatchFitsOneByOne(b) == TRUE

(* Together the receipts of a batch fit their sessions. *)
BatchFits(b) ==
    \A s \in SessionIds :
        sessions[s].spent
            + Sum([i \in {j \in DOMAIN b : b[j].receipt.sessionId = s} |->
                      b[i].receipt.totalCharge])
          <= sessions[s].allowance

(* A batch goes through exactly when each receipt is good on its own, no   *)
(* two share a request or a nonce, and together they fit their sessions;   *)
(* otherwise some iteration reverts all of it.                             *)
BatchSettles(b) ==
    /\ \A i \in DOMAIN b : Settleable(b[i])
    /\ \A i, j \in DOMAIN b : i # j =>
          /\ b[i].receipt.requestId # b[j].receipt.requestId
          /\ \/ b[i].receipt.provider # b[j].receipt.provider
             \/ b[i].receipt.nonce # b[j].receipt.nonce
    /\ BatchFits(b)

Batches(signed) == UNION {[1 .. n -> signed] : n \in 1 .. MaxBatch}

settleReceipts(b) ==
    /\ Idle /\ ~paused
    /\ BatchSettles(b)
    /\ batch' = b
    /\ UNCHANGED <<fundVars, accountVars, claimVars, bondVars, sessionVars,
                   receiptVars, feeVars, miscVars, clockVars>>

(* One iteration of the loop over the batch. *)
SettleNext ==
    /\ batch # <<>>
    /\ Settle(Head(batch))
    /\ batch' = Tail(batch)

SlashAmount(provider) ==
    IF providerBonds[provider] < minimumBond THEN providerBonds[provider] ELSE minimumBond

(* Two different receipts that signers of the provider signed for one      *)
(* request; the settlement signatures play no part.                        *)
slashDoubleSign(first, second) ==
    LET requestId == first.receipt.requestId
        provider == first.receipt.provider
        amount == SlashAmount(provider)
    IN  /\ Idle
        /\ requestId = second.receipt.requestId
        /\ provider = second.receipt.provider
        /\ first.receipt # second.receipt
        /\ requestId \notin slashedRequests
        /\ isProviderSigner(provider, first.providerSignature)
        /\ isProviderSigner(provider, second.providerSignature)
        /\ amount # 0
        /\ slashedRequests' = slashedRequests \cup {requestId}
        /\ providerBonds' = [providerBonds EXCEPT ![provider] = @ - amount]
        /\ totalProviderBonds' = totalProviderBonds - amount
        /\ bondExitAvailableAt' = [bondExitAvailableAt EXCEPT ![provider] =
                                       IF providerBonds[provider] = amount THEN 0 ELSE @]
        /\ claimable' = Credited(claimable, feeRecipient, amount)
        /\ totalClaimable' = totalClaimable + amount
        /\ UNCHANGED <<lastBondAt, providerSigners, offerVersions, fundVars,
                       accountVars, sessionVars, receiptVars, feeVars,
                       clockVars, batch>>

-----------------------------------------------------------------------------
(* Fees, pausing and time *)

FeeAllowedUncapped(newFeeBasisPoints) == TRUE

FeeAllowed(newFeeBasisPoints) == newFeeBasisPoints <= MAXIMUM_FEE_BASIS_POINTS

proposeFee(newFeeBasisPoints) ==
    /\ Idle
    /\ FeeAllowed(newFeeBasisPoints)
    /\ pendingFeeBasisPoints' = newFeeBasisPoints
    /\ pendingFeeAvailableAt' = now + feeDelay
    /\ pendingFeeChange' = TRUE
    /\ UNCHANGED <<feeBasisPoints, feeVersion, feeBpsByVersion, fundVars,
                   accountVars, claimVars, bondVars, sessionVars, receiptVars,
                   miscVars, clockVars, batch>>

NextFeeVersion == feeVersion + 1

executeFeeChange ==
    /\ Idle
    /\ pendingFeeChange
    /\ now >= pendingFeeAvailableAt
    /\ feeVersion < MaxFeeVersion
    /\ feeBasisPoints' = pendingFeeBasisPoints
    /\ feeVersion' = NextFeeVersion
    /\ feeBpsByVersion' = [feeBpsByVersion EXCEPT ![NextFeeVersion] = pendingFeeBasisPoints]
    /\ pendingFeeBasisPoints' = 0
    /\ pendingFeeAvailableAt' = 0
    /\ pendingFeeChange' = FALSE
    /\ UNCHANGED <<fundVars, accountVars, claimVars, bondVars, sessionVars,
                   receiptVars, miscVars, clockVars, batch>>

pause ==
    /\ Idle /\ ~paused
    /\ paused' = TRUE
    /\ UNCHANGED <<now, fundVars, accountVars, claimVars, bondVars, sessionVars,
                   receiptVars, feeVars, miscVars, batch>>

unpause ==
    /\ Idle /\ paused
    /\ paused' = FALSE
    /\ UNCHANGED <<now, fundVars, accountVars, claimVars, bondVars, sessionVars,
                   receiptVars, feeVars, miscVars, batch>>

(* The next block is later than this one. *)
Tick ==
    /\ Idle
    /\ now < MaxTime
    /\ now' = now + 1
    /\ UNCHANGED <<paused, fundVars, accountVars, claimVars, bondVars,
                   sessionVars, receiptVars, feeVars, miscVars, batch>>

-----------------------------------------------------------------------------
CustomerStep ==
    \E sender \in Customers :
        \/ \E value \in Amounts : deposit(sender, value)
        \/ \E amount \in Amounts : requestWithdrawal(sender, amount)
        \/ \E s \in SessionIds, allowance \in Amounts, expiresAt \in Expiries :
               openSession(sender, s, allowance, expiresAt)
        \/ \E s \in SessionIds : requestSessionClose(sender, s)
        \/ \E s \in SessionIds : finalizeSessionClose(sender, s)

ProviderStep ==
    \E sender \in Providers :
        \/ \E value \in Amounts : depositBond(sender, value)
        \/ \E signer \in MachineSigners, allowed \in BOOLEAN :
               setProviderSigner(sender, signer, allowed)
        \/ requestBondExit(sender)
        \/ finalizeBondExit(sender)
        \/ \E o \in OfferIds, content \in Contents, price \in Prices :
               publishOffer(sender, o, content, price)

SettlementStep ==
    \/ \E signed \in Receipts : settleReceipt(signed)
    \/ \E b \in Batches({s \in Receipts : Settleable(s)}) : settleReceipts(b)
    \/ SettleNext
    \/ \E first, second \in Receipts : slashDoubleSign(first, second)

OwnerStep ==
    /\ Owners # {}
    /\ \/ \E newFee \in FeeProposals : proposeFee(newFee)
       \/ pause
       \/ unpause

Next ==
    \/ CustomerStep
    \/ ProviderStep
    \/ \E sender \in Accounts : claim(sender)
    \/ SettlementStep
    \/ OwnerStep
    \/ executeFeeChange
    \/ Tick

Spec == Init /\ [][Next]_vars

-----------------------------------------------------------------------------
(* Properties *)

SessionType ==
    [customer : Accounts \cup {NoAddress}, allowance : Nat, spent : Nat,
     expiresAt : Nat, closeAvailableAt : Nat, finalized : BOOLEAN]

SettlementType ==
    [receipt : ReceiptType, providerAmount : Nat, feeAmount : Nat]

Ledgers == [Accounts -> Nat]

FundsTyped == balance \in Nat /\ paidIn \in Nat
AccountsTyped == customerBalances \in Ledgers /\ totalCustomerBalances \in Nat
ClaimsTyped == claimable \in Ledgers /\ totalClaimable \in Nat
BondsTyped ==
    /\ providerBonds \in Ledgers /\ bondExitAvailableAt \in Ledgers
    /\ lastBondAt \in Ledgers /\ totalProviderBonds \in Nat
SessionsTyped == sessions \in [SessionIds -> SessionType] /\ totalLockedSessions \in Nat
ReceiptsTyped ==
    /\ settledRequests \subseteq RequestIds
    /\ usedNonces \subseteq Accounts \X Nat
    /\ settlements \subseteq SettlementType
    /\ batch \in Seq(Receipts)
FeesTyped ==
    /\ feeBasisPoints \in Nat /\ feeVersion \in 1 .. MaxFeeVersion
    /\ feeBpsByVersion \in [1 .. MaxFeeVersion -> Nat]
    /\ pendingFeeBasisPoints \in Nat /\ pendingFeeAvailableAt \in Nat
    /\ pendingFeeChange \in BOOLEAN
MiscTyped ==
    /\ now \in Nat /\ paused \in BOOLEAN
    /\ providerSigners \subseteq Accounts \X MachineSigners
    /\ offerVersions \in
           [Accounts -> [OfferIds -> Seq([content : Contents, price : Prices])]]
    /\ slashedRequests \subseteq RequestIds

(* Every variable has its type.  Balances, totals and amounts are naturals: *)
(* no subtraction of the contract ever underflows.                         *)
TypeOK ==
    /\ FundsTyped /\ AccountsTyped /\ ClaimsTyped /\ BondsTyped
    /\ SessionsTyped /\ ReceiptsTyped /\ FeesTyped /\ MiscTyped

(* What a session still has to give back or to pay out. *)
Locked ==
    [s \in SessionIds |-> IF sessions[s].finalized THEN 0
                          ELSE sessions[s].allowance - sessions[s].spent]

(* Each running total is the sum of the mapping it summarises, and the     *)
(* contract holds exactly the wei the four totals promise.  (Stated for    *)
(* the totals alone by invariantMonIsConserved of the contract's tests.)   *)
MonIsConserved ==
    /\ totalCustomerBalances = Sum(customerBalances)
    /\ totalProviderBonds = Sum(providerBonds)
    /\ totalClaimable = Sum(claimable)
    /\ totalLockedSessions = Sum(Locked)
    /\ balance = totalCustomerBalances + totalProviderBonds
                   + totalClaimable + totalLockedSessions

ChargesOf(sessionId) ==
    [x \in {y \in settlements : y.receipt.sessionId = sessionId} |->
        x.providerAmount + x.feeAmount]

(* What a session has spent is the sum of what its ReceiptSettled events   *)
(* paid out, and never more than the allowance the customer locked: no     *)
(* receipt is charged twice, alone or within a batch.                      *)
SessionsPayOnlyForReceipts ==
    \A s \in SessionIds :
        /\ sessions[s].spent <= sessions[s].allowance
        /\ sessions[s].spent = Sum(ChargesOf(s))

(* No iteration of an accepted batch can revert: the receipts before it     *)
(* leave its session, its request and its nonce free.                      *)
BatchRunsToItsEnd == batch # <<>> => Settleable(Head(batch))

(* A request settles at most once, a provider's nonce is used at most once. *)
ReceiptsSettleOnce ==
    \A x, y \in settlements : x # y =>
        /\ x.receipt.requestId # y.receipt.requestId
        /\ \/ x.receipt.provider # y.receipt.provider
           \/ x.receipt.nonce # y.receipt.nonce

(* Every settled receipt was priced by a version its provider published,   *)
(* and the published record still shows that price and content.            *)
SettledAtPublishedPrice ==
    \A x \in settlements :
        LET versions == offerVersions[x.receipt.provider][x.receipt.offerId]
        IN  /\ x.receipt.priceVersion \in DOMAIN versions
            /\ versions[x.receipt.priceVersion].content = x.receipt.content
            /\ ContractCharge(x.receipt.usage, versions[x.receipt.priceVersion].price)
                 = x.providerAmount + x.feeAmount

(* The platform never takes more than 15% of a charge, whichever fee       *)
(* version a receipt quotes and however often the fee changed in between.  *)
FeeWithinCeiling ==
    \A x \in settlements :
        10000 * x.feeAmount
            <= MAXIMUM_FEE_BASIS_POINTS * (x.providerAmount + x.feeAmount)

(* A bond stays within reach of slashing for the whole exit delay after    *)
(* the provider last paid into it, and an exit that runs has a bond to     *)
(* release: slashing a bond to nothing also ends the exit, so that a later *)
(* bond cannot leave on the earlier timer.                                 *)
BondServesExitDelay ==
    \A p \in Accounts : bondExitAvailableAt[p] # 0 =>
        /\ providerBonds[p] # 0
        /\ bondExitAvailableAt[p] >= lastBondAt[p] + bondExitDelay

(* One step: every version and settlement on record is still there. *)
KeepsHistory ==
    /\ \A p \in Accounts, o \in OfferIds :
          \A v \in DOMAIN offerVersions[p][o] :
              /\ v \in DOMAIN offerVersions'[p][o]
              /\ offerVersions'[p][o][v] = offerVersions[p][o][v]
    /\ \A v \in 1 .. feeVersion : feeBpsByVersion'[v] = feeBpsByVersion[v]
    /\ settlements \subseteq settlements'

(* One step: an open session keeps its customer, allowance and expiry, its *)
(* spending never shrinks, and once finalized nothing about it changes.    *)
KeepsSessions ==
    \A s \in SessionIds : sessions[s].customer # NoAddress =>
        /\ sessions'[s].customer = sessions[s].customer
        /\ sessions'[s].allowance = sessions[s].allowance
        /\ sessions'[s].expiresAt = sessions[s].expiresAt
        /\ sessions'[s].spent >= sessions[s].spent
        /\ sessions[s].finalized => sessions'[s] = sessions[s]

(* What the contract has written down stays.  A published version, a fee   *)
(* version in force and a settlement are never rewritten, for receipts     *)
(* refer to them by number; the terms of a session never change            *)
(* (publishOffer, executeFeeChange, openSession).                          *)
RecordsAreKept == [][KeepsHistory /\ KeepsSessions]_vars
=============================================================================
