---------------------------- MODULE MarketProofs ----------------------------
(***************************************************************************)
(* Proofs that the escrow contract conserves the wei it holds, and proofs  *)
(* about what it keeps on record: bonds and their exits, the versions and  *)
(* sessions receipts refer to, what sessions paid for, and the batch a     *)
(* settleReceipts works through.                                           *)
(***************************************************************************)
EXTENDS MyferenceMarket, SumTheorems

(* Facts about sessions and fees that conservation rests on: a session     *)
(* never spends more than it locked, an identifier not yet used has        *)
(* nothing locked, and every fee is below the ceiling.                     *)
SessionsWithinAllowance ==
    \A s \in SessionIds :
        /\ sessions[s].spent <= sessions[s].allowance
        /\ sessions[s].customer = NoAddress =>
              sessions[s].allowance = 0 /\ ~sessions[s].finalized

FeesCapped ==
    /\ pendingFeeBasisPoints <= MAXIMUM_FEE_BASIS_POINTS
    /\ \A v \in 1 .. MaxFeeVersion : feeBpsByVersion[v] <= MAXIMUM_FEE_BASIS_POINTS

(* The inductive invariant.  TypeOK alone is not inductive: that a total   *)
(* stays a natural number when something is taken from it follows only     *)
(* from its being the sum of the mapping.                                  *)
Conservation ==
    /\ TypeOK
    /\ MonIsConserved
    /\ SessionsWithinAllowance
    /\ FeesCapped

-----------------------------------------------------------------------------
(* Sums of account mappings *)

(* _creditClaimable adds exactly the amount to the sum of the claims.      *)
LEMMA CreditedSum ==
    ASSUME NEW S, IsFiniteSet(S), NEW f \in [S -> Nat], NEW a \in S, NEW n \in Nat
    PROVE  /\ Credited(f, a, n) \in [S -> Nat]
           /\ Sum(Credited(f, a, n)) = Sum(f) + n
<1>1. f[a] \in Nat /\ f[a] + n \in Nat
  OBVIOUS
<1>2. Credited(f, a, n) = [f EXCEPT ![a] = f[a] + n]
  BY Zenon DEF Credited
<1>3. Sum([f EXCEPT ![a] = f[a] + n]) = Sum(f) - f[a] + (f[a] + n)
  <2>1. \A m \in Nat : Sum([f EXCEPT ![a] = m]) = Sum(f) - f[a] + m
    BY SumUpdate, Zenon
  <2> QED BY <1>1, <2>1, Zenon
<1>4. Sum(f) \in Nat
  BY SumType, Zenon
<1> QED
  BY <1>1, <1>2, <1>3, <1>4

(* Taking a claim or a bond off one account takes it off the sum.          *)
LEMMA DebitedSum ==
    ASSUME NEW S, IsFiniteSet(S), NEW f \in [S -> Nat], NEW a \in S,
           NEW n \in Nat, n <= f[a]
    PROVE  /\ [f EXCEPT ![a] = f[a] - n] \in [S -> Nat]
           /\ Sum([f EXCEPT ![a] = f[a] - n]) = Sum(f) - n
           /\ n <= Sum(f)
<1>1. f[a] \in Nat /\ f[a] - n \in Nat
  OBVIOUS
<1>2. Sum([f EXCEPT ![a] = f[a] - n]) = Sum(f) - f[a] + (f[a] - n)
  <2>1. \A m \in Nat : Sum([f EXCEPT ![a] = m]) = Sum(f) - f[a] + m
    BY SumUpdate, Zenon
  <2> QED BY <1>1, <2>1, Zenon
<1>3. Sum(f) \in Nat /\ f[a] <= Sum(f)
  BY SumType, SumBoundsValue, Zenon
<1> QED
  BY <1>1, <1>2, <1>3

(* What the sessions hold is a natural number each. *)
LEMMA LockedType ==
    ASSUME SessionsTyped, SessionsWithinAllowance
    PROVE  Locked \in [SessionIds -> Nat]
<1>1. \A s \in SessionIds : /\ sessions[s].spent \in Nat
                            /\ sessions[s].allowance \in Nat
                            /\ sessions[s].spent <= sessions[s].allowance
  BY DEF SessionsTyped, SessionsWithinAllowance, SessionType
<1> QED
  BY <1>1 DEF Locked

(* The fee of a charge under a capped rate. *)
LEMMA FeeBounds ==
    ASSUME NEW c \in Nat, NEW b \in Nat, b <= MAXIMUM_FEE_BASIS_POINTS
    PROVE  /\ (c * b) \div 10000 \in Nat
           /\ (c * b) \div 10000 <= c
           /\ 10000 * ((c * b) \div 10000) <= MAXIMUM_FEE_BASIS_POINTS * c
<1>1. c * b \in Nat /\ c * b <= c * 1500
  BY DEF MAXIMUM_FEE_BASIS_POINTS
<1>2. \A x \in Nat : x <= c * 1500 =>
          /\ x \div 10000 \in Nat
          /\ x \div 10000 <= c
          /\ 10000 * (x \div 10000) <= 1500 * c
  OBVIOUS
<1> QED
  BY <1>1, <1>2 DEF MAXIMUM_FEE_BASIS_POINTS

(* The sums range over finitely many accounts and sessions.                *)
LEMMA FiniteDomains == IsFiniteSet(Accounts) /\ IsFiniteSet(SessionIds)
  BY MarketAssumption, Zenon

(* What a step leaves alone stays typed and within its limits. *)
LEMMA Frame ==
    ASSUME Conservation
    PROVE  /\ UNCHANGED fundVars => FundsTyped'
           /\ UNCHANGED accountVars => AccountsTyped'
           /\ UNCHANGED claimVars => ClaimsTyped'
           /\ UNCHANGED bondVars => BondsTyped'
           /\ UNCHANGED sessionVars =>
                 SessionsTyped' /\ SessionsWithinAllowance' /\ Locked' = Locked
           /\ UNCHANGED <<receiptVars, batch>> => ReceiptsTyped'
           /\ UNCHANGED feeVars => FeesTyped' /\ FeesCapped'
           /\ UNCHANGED <<miscVars, clockVars>> => MiscTyped'
<1> USE DEF Conservation, TypeOK
<1>1. UNCHANGED fundVars => FundsTyped'
  BY Zenon DEF fundVars, FundsTyped
<1>2. UNCHANGED accountVars => AccountsTyped'
  BY Zenon DEF accountVars, AccountsTyped
<1>3. UNCHANGED claimVars => ClaimsTyped'
  BY Zenon DEF claimVars, ClaimsTyped
<1>4. UNCHANGED bondVars => BondsTyped'
  BY Zenon DEF bondVars, BondsTyped
<1>5. UNCHANGED sessionVars =>
          SessionsTyped' /\ SessionsWithinAllowance' /\ Locked' = Locked
  BY Zenon DEF sessionVars, SessionsTyped, SessionsWithinAllowance, Locked
<1>6. UNCHANGED <<receiptVars, batch>> => ReceiptsTyped'
  BY Zenon DEF receiptVars, ReceiptsTyped
<1>7. UNCHANGED feeVars => FeesTyped' /\ FeesCapped'
  BY Zenon DEF feeVars, FeesTyped, FeesCapped
<1>8. UNCHANGED <<miscVars, clockVars>> => MiscTyped'
  BY Zenon DEF miscVars, clockVars, MiscTyped
<1> QED
  BY <1>1, <1>2, <1>3, <1>4, <1>5, <1>6, <1>7, <1>8, Zenon

(* A step that moves no wei conserves it. *)
LEMMA QuietStep ==
    ASSUME MonIsConserved,
           UNCHANGED <<balance, customerBalances, totalCustomerBalances,
                       claimable, totalClaimable, providerBonds,
                       totalProviderBonds, totalLockedSessions>>,
           Locked' = Locked
    PROVE  MonIsConserved'
  BY Zenon DEF MonIsConserved

(* The values of the ledgers are numbers the provers can add up. *)
LEMMA Amountable ==
    ASSUME Conservation
    PROVE  /\ balance \in Nat /\ totalCustomerBalances \in Nat /\ totalClaimable \in Nat
           /\ totalProviderBonds \in Nat /\ totalLockedSessions \in Nat
           /\ customerBalances \in [Accounts -> Nat] /\ claimable \in [Accounts -> Nat]
           /\ providerBonds \in [Accounts -> Nat] /\ Locked \in [SessionIds -> Nat]
  BY LockedType, Zenon DEF Conservation, TypeOK, FundsTyped, AccountsTyped, ClaimsTyped,
     BondsTyped, SessionsTyped, Ledgers

-----------------------------------------------------------------------------
(* One lemma per action *)

(* deposit keeps the conservation invariant.                               *)
LEMMA DepositStep ==
    ASSUME Conservation, NEW sender \in Customers, NEW value \in Amounts,
           deposit(sender, value)
    PROVE  Conservation'
<1>1. /\ sender \in Accounts /\ value \in Nat /\ Locked' = Locked
      /\ customerBalances' = Credited(customerBalances, sender, value)
      /\ balance' = balance + value /\ paidIn' = paidIn + value
      /\ totalCustomerBalances' = totalCustomerBalances + value
      /\ UNCHANGED <<claimVars, bondVars, sessionVars, receiptVars, feeVars,
                     miscVars, clockVars, batch>>
  BY MarketAssumption, Frame, Zenon DEF deposit, Receives, Credited
<1>2. /\ Credited(customerBalances, sender, value) \in [Accounts -> Nat]
      /\ Sum(Credited(customerBalances, sender, value)) = Sum(customerBalances) + value
  BY <1>1, Amountable, CreditedSum, FiniteDomains
<1>3. FundsTyped' /\ AccountsTyped'
  BY <1>1, <1>2, Amountable DEF FundsTyped, AccountsTyped, Ledgers, Conservation, TypeOK
<1>4. MonIsConserved'
  BY <1>1, <1>2, Amountable DEF Conservation, MonIsConserved, claimVars, bondVars, sessionVars
<1> QED
  BY <1>1, <1>3, <1>4, Frame, Zenon DEF Conservation, TypeOK

(* requestWithdrawal moves wei from balance to claim and keeps it.         *)
LEMMA WithdrawalStep ==
    ASSUME Conservation, NEW sender \in Customers, NEW amount \in Amounts,
           requestWithdrawal(sender, amount)
    PROVE  Conservation'
<1>1. /\ sender \in Accounts /\ amount \in Nat /\ Locked' = Locked
      /\ amount <= customerBalances[sender]
      /\ customerBalances' = [customerBalances EXCEPT ![sender] = customerBalances[sender] - amount]
      /\ totalCustomerBalances' = totalCustomerBalances - amount
      /\ claimable' = Credited(claimable, sender, amount)
      /\ totalClaimable' = totalClaimable + amount
      /\ UNCHANGED <<fundVars, bondVars, sessionVars, receiptVars, feeVars,
                     miscVars, clockVars, batch>>
  BY MarketAssumption, Frame, Zenon DEF requestWithdrawal, Withdrawable
<1>2. /\ Credited(claimable, sender, amount) \in [Accounts -> Nat]
      /\ Sum(Credited(claimable, sender, amount)) = Sum(claimable) + amount
  BY <1>1, Amountable, CreditedSum, FiniteDomains
<1>3. LET debited == [customerBalances EXCEPT ![sender] = customerBalances[sender] - amount]
      IN  /\ debited \in [Accounts -> Nat]
          /\ Sum(debited) = Sum(customerBalances) - amount
          /\ amount <= Sum(customerBalances)
  BY <1>1, Amountable, DebitedSum, FiniteDomains, Zenon
<1>4. AccountsTyped' /\ ClaimsTyped'
  BY <1>1, <1>2, <1>3, Amountable
  DEF AccountsTyped, ClaimsTyped, Ledgers, Conservation, MonIsConserved
<1>5. MonIsConserved'
  BY <1>1, <1>2, <1>3, Amountable DEF Conservation, MonIsConserved, fundVars, bondVars, sessionVars
<1> QED
  BY <1>1, <1>4, <1>5, Frame, Zenon DEF Conservation, TypeOK

(* Claiming pays out what the ledger holds for the caller. *)
LEMMA ClaimStep ==
    ASSUME Conservation, NEW sender \in Accounts, claim(sender)
    PROVE  Conservation'
<1> DEFINE amount == claimable[sender]
<1>1. /\ amount \in Nat /\ Locked' = Locked
      /\ claimable' = [claimable EXCEPT ![sender] = 0]
      /\ totalClaimable' = totalClaimable - amount
      /\ balance' = balance - amount
      /\ UNCHANGED <<paidIn, accountVars, bondVars, sessionVars, receiptVars, feeVars,
                     miscVars, clockVars, batch>>
  BY Amountable, Frame, Zenon DEF claim
<1>2. /\ claimable' \in [Accounts -> Nat]
      /\ Sum([claimable EXCEPT ![sender] = 0]) = Sum(claimable) - amount
      /\ Sum(claimable) \in Nat /\ amount <= Sum(claimable)
  <2>1. claimable \in [Accounts -> Nat] /\ claimable[sender] - claimable[sender] = 0
    BY Amountable
  <2>2. LET debited == [claimable EXCEPT ![sender] = claimable[sender] - claimable[sender]]
        IN  /\ debited \in [Accounts -> Nat]
            /\ Sum(debited) = Sum(claimable) - claimable[sender]
            /\ claimable[sender] <= Sum(claimable)
    <3>1. \A n \in Nat : n <= claimable[sender] =>
              /\ [claimable EXCEPT ![sender] = claimable[sender] - n] \in [Accounts -> Nat]
              /\ Sum([claimable EXCEPT ![sender] = claimable[sender] - n])
                   = Sum(claimable) - n
              /\ n <= Sum(claimable)
      BY <2>1, DebitedSum, FiniteDomains, Zenon
    <3>2. claimable[sender] \in Nat /\ claimable[sender] <= claimable[sender]
      BY <2>1
    <3> QED BY <3>1, <3>2, Zenon
  <2>3. Sum(claimable) \in Nat
    BY <2>1, SumType, FiniteDomains, Zenon
  <2> QED
    BY <1>1, <2>1, <2>2, <2>3, Zenon
<1>3. FundsTyped' /\ ClaimsTyped'
  BY <1>1, <1>2, Amountable
     DEF FundsTyped, ClaimsTyped, Ledgers, Conservation, MonIsConserved, TypeOK
<1>4. MonIsConserved'
  BY <1>1, <1>2, Amountable DEF Conservation, MonIsConserved, accountVars, bondVars, sessionVars
<1> QED
  BY <1>1, <1>3, <1>4, Frame, Zenon DEF Conservation, TypeOK

(* A bond paid in is credited to its provider. *)
LEMMA DepositBondStep ==
    ASSUME Conservation, NEW sender \in Providers, NEW value \in Amounts,
           depositBond(sender, value)
    PROVE  Conservation'
<1>1. /\ sender \in Accounts /\ value \in Nat /\ Locked' = Locked
      /\ providerBonds' = Credited(providerBonds, sender, value)
      /\ lastBondAt' = [lastBondAt EXCEPT ![sender] = now]
      /\ balance' = balance + value /\ paidIn' = paidIn + value
      /\ totalProviderBonds' = totalProviderBonds + value
      /\ UNCHANGED <<bondExitAvailableAt, accountVars, claimVars, sessionVars, receiptVars,
                     feeVars, miscVars, clockVars, batch>>
  BY MarketAssumption, Frame, Zenon DEF depositBond, Receives, Credited
<1>2. /\ Credited(providerBonds, sender, value) \in [Accounts -> Nat]
      /\ Sum(Credited(providerBonds, sender, value)) = Sum(providerBonds) + value
  BY <1>1, Amountable, CreditedSum, FiniteDomains
<1>3. FundsTyped'
  BY <1>1, Amountable DEF FundsTyped, Conservation, TypeOK
<1>5. BondsTyped'
  <2>1. bondExitAvailableAt \in Ledgers /\ lastBondAt \in Ledgers /\ now \in Nat
    BY Zenon DEF Conservation, TypeOK, BondsTyped, MiscTyped
  <2>2. lastBondAt' \in Ledgers
    BY <1>1, <2>1, Zenon DEF Ledgers
  <2> QED
    BY <1>1, <1>2, <2>1, <2>2, Amountable DEF BondsTyped, Ledgers
<1>4. MonIsConserved'
  BY <1>1, <1>2, Amountable DEF Conservation, MonIsConserved, accountVars, claimVars, sessionVars
<1> QED
  BY <1>1, <1>3, <1>4, <1>5, Frame, Zenon DEF Conservation, TypeOK

(* Taking n out of a bond and crediting it to an account: what finalizing  *)
(* an exit and slashing have in common.                                    *)
LEMMA BondMoved ==
    ASSUME Conservation, NEW p \in Accounts, NEW to \in Accounts,
           NEW n \in Nat, n <= providerBonds[p],
           providerBonds' = [providerBonds EXCEPT ![p] = providerBonds[p] - n],
           bondExitAvailableAt' \in Ledgers,
           totalProviderBonds' = totalProviderBonds - n,
           claimable' = Credited(claimable, to, n),
           totalClaimable' = totalClaimable + n,
           UNCHANGED <<lastBondAt, fundVars, accountVars, sessionVars>>
    PROVE  BondsTyped' /\ ClaimsTyped' /\ MonIsConserved'
<1>0. claimable \in [Accounts -> Nat] /\ providerBonds \in [Accounts -> Nat]
  BY Amountable, Zenon
<1>1. /\ Credited(claimable, to, n) \in [Accounts -> Nat]
      /\ Sum(Credited(claimable, to, n)) = Sum(claimable) + n
  BY <1>0, CreditedSum, FiniteDomains
<1>2. LET debited == [providerBonds EXCEPT ![p] = providerBonds[p] - n]
      IN  /\ debited \in [Accounts -> Nat]
          /\ Sum(debited) = Sum(providerBonds) - n
          /\ n <= Sum(providerBonds)
  BY <1>0, DebitedSum, FiniteDomains, Zenon
<1>3. BondsTyped' /\ ClaimsTyped'
  BY <1>1, <1>2, Amountable
     DEF BondsTyped, ClaimsTyped, Ledgers, Conservation, MonIsConserved, TypeOK
<1>4. MonIsConserved'
  BY <1>1, <1>2, Amountable, Frame
     DEF Conservation, MonIsConserved, fundVars, accountVars, sessionVars
<1> QED
  BY <1>3, <1>4, Zenon

(* Finalizing an exit moves the whole bond to the provider's claims. *)
LEMMA BondExitStep ==
    ASSUME Conservation, NEW sender \in Providers, finalizeBondExit(sender)
    PROVE  Conservation'
<1>1. /\ sender \in Accounts /\ providerBonds[sender] \in Nat
      /\ bondExitAvailableAt \in Ledgers
  BY MarketAssumption, Amountable, Zenon DEF Conservation, TypeOK, BondsTyped
<1> DEFINE n == providerBonds[sender]
<1>2. /\ providerBonds' = [providerBonds EXCEPT ![sender] = 0]
      /\ bondExitAvailableAt' = [bondExitAvailableAt EXCEPT ![sender] = 0]
      /\ totalProviderBonds' = totalProviderBonds - n
      /\ claimable' = Credited(claimable, sender, n)
      /\ totalClaimable' = totalClaimable + n
      /\ UNCHANGED <<lastBondAt, fundVars, accountVars, sessionVars>>
      /\ UNCHANGED <<receiptVars, feeVars, miscVars, clockVars, batch>>
  BY Zenon DEF finalizeBondExit
<1>3. BondsTyped' /\ ClaimsTyped' /\ MonIsConserved'
  <2>1. n \in Nat /\ n <= n /\ n - n = 0
    BY <1>1
  <2>2. providerBonds' = [providerBonds EXCEPT ![sender] = providerBonds[sender] - n]
    BY <1>2, <2>1, Zenon
  <2>3. bondExitAvailableAt' \in Ledgers
    BY <1>1, <1>2, Zenon DEF Ledgers
  <2>4. n <= providerBonds[sender]
    BY <2>1, Zenon
  <2> HIDE DEF n
  <2> QED BY <1>1, <1>2, <2>1, <2>2, <2>3, <2>4, BondMoved, Zenon
<1> QED
  BY <1>2, <1>3, Frame, Zenon DEF Conservation, TypeOK, finalizeBondExit

(* Slashing moves at most the bond to the fee recipient's claims. *)
LEMMA SlashStep ==
    ASSUME Conservation, NEW first \in Receipts, NEW second \in Receipts,
           slashDoubleSign(first, second)
    PROVE  Conservation'
<1> DEFINE p == first.receipt.provider
           n == SlashAmount(p)
<1>1. /\ p \in Accounts /\ first.receipt.requestId \in RequestIds
      /\ feeRecipient \in Accounts /\ minimumBond \in Nat
  <2>1. first \in SignedReceiptType /\ feeRecipient \in Accounts /\ minimumBond \in Nat
    BY MarketAssumption, Zenon
  <2> QED BY <2>1, Zenon DEF SignedReceiptType, ReceiptType
<1>2. n \in Nat /\ n <= providerBonds[p] /\ bondExitAvailableAt \in Ledgers
  BY <1>1, Amountable DEF SlashAmount, Conservation, TypeOK, BondsTyped
<1>3. /\ providerBonds' = [providerBonds EXCEPT ![p] = providerBonds[p] - n]
      /\ totalProviderBonds' = totalProviderBonds - n
      /\ claimable' = Credited(claimable, feeRecipient, n)
      /\ totalClaimable' = totalClaimable + n
      /\ slashedRequests' = slashedRequests \cup {first.receipt.requestId}
      /\ UNCHANGED <<lastBondAt, providerSigners, offerVersions, fundVars, accountVars,
                     sessionVars, receiptVars, feeVars, clockVars, batch>>
  BY Zenon DEF slashDoubleSign
<1>4. bondExitAvailableAt' \in Ledgers
  BY <1>1, <1>2, Zenon DEF slashDoubleSign, Ledgers
<1>5. BondsTyped' /\ ClaimsTyped' /\ MonIsConserved'
  <2> HIDE DEF n, p
  <2> QED BY <1>1, <1>2, <1>3, <1>4, BondMoved, Zenon
<1>6. MiscTyped'
  BY <1>1, <1>3, Zenon DEF Conservation, TypeOK, MiscTyped, clockVars
<1> QED
  BY <1>3, <1>5, <1>6, Frame, Zenon DEF Conservation, TypeOK

-----------------------------------------------------------------------------
(* Sessions *)

(* Replacing the record of one session replaces what that session holds.   *)
LEMMA SessionReplaced ==
    ASSUME SessionsTyped, SessionsWithinAllowance,
           NEW s \in SessionIds, NEW r \in SessionType,
           r.spent <= r.allowance, r.customer # NoAddress,
           sessions' = [sessions EXCEPT ![s] = r]
    PROVE  LET held == IF r.finalized THEN 0 ELSE r.allowance - r.spent
           IN  /\ sessions' \in [SessionIds -> SessionType]
               /\ SessionsWithinAllowance'
               /\ Locked \in [SessionIds -> Nat]
               /\ held \in Nat /\ Locked[s] \in Nat
               /\ Sum(Locked') = Sum(Locked) - Locked[s] + held
               /\ Sum(Locked) \in Nat /\ Locked[s] <= Sum(Locked)
<1> DEFINE held == IF r.finalized THEN 0 ELSE r.allowance - r.spent
<1>1. /\ sessions \in [SessionIds -> SessionType]
      /\ r.spent \in Nat /\ r.allowance \in Nat /\ r.finalized \in BOOLEAN
  BY Zenon DEF SessionsTyped, SessionType
<1>2. sessions' \in [SessionIds -> SessionType]
  BY <1>1, Zenon
<1>3. SessionsWithinAllowance'
  BY <1>1, Zenon DEF SessionsWithinAllowance
<1>4. Locked \in [SessionIds -> Nat]
  BY LockedType, Zenon
<1>5. held \in Nat
  BY <1>1
<1>6. Locked' = [Locked EXCEPT ![s] = held]
  BY <1>1, <1>4, Zenon DEF Locked
<1>7. \A m \in Nat : Sum([Locked EXCEPT ![s] = m]) = Sum(Locked) - Locked[s] + m
  BY <1>4, SumUpdate, FiniteDomains, Zenon
<1>8. Sum(Locked) \in Nat /\ Locked[s] <= Sum(Locked) /\ Locked[s] \in Nat
  BY <1>4, SumType, SumBoundsValue, FiniteDomains, Zenon
<1>9. Sum(Locked') = Sum(Locked) - Locked[s] + held
  <2> HIDE DEF held
  <2> QED BY <1>5, <1>6, <1>7, Zenon
<1> QED
  BY <1>2, <1>3, <1>4, <1>5, <1>8, <1>9, Zenon

(* Opening a session moves its allowance from the balance to the lock. *)
LEMMA OpenSessionStep ==
    ASSUME Conservation, NEW sender \in Customers, NEW s \in SessionIds,
           NEW allowance \in Amounts, NEW expiresAt \in Expiries,
           openSession(sender, s, allowance, expiresAt)
    PROVE  Conservation'
<1> DEFINE r == [customer |-> sender, allowance |-> allowance, spent |-> 0,
                 expiresAt |-> expiresAt, closeAvailableAt |-> 0, finalized |-> FALSE]
           debited == [customerBalances EXCEPT ![sender] = customerBalances[sender] - allowance]
<1>1. /\ sender \in Accounts /\ sender # NoAddress /\ allowance \in Nat /\ expiresAt \in Nat
      /\ allowance <= customerBalances[sender]
      /\ sessions[s].customer = NoAddress
  BY MarketAssumption, Zenon DEF openSession, ValidSession
<1>2. /\ customerBalances' = debited
      /\ totalCustomerBalances' = totalCustomerBalances - allowance
      /\ totalLockedSessions' = totalLockedSessions + allowance
      /\ sessions' = [sessions EXCEPT ![s] = r]
      /\ UNCHANGED <<fundVars, claimVars, bondVars, receiptVars, feeVars,
                     miscVars, clockVars, batch>>
  BY Zenon DEF openSession
<1>3. SessionsTyped /\ SessionsWithinAllowance
  BY Zenon DEF Conservation, TypeOK
<1>4. Locked[s] = 0
  BY <1>1, <1>3 DEF SessionsWithinAllowance, SessionsTyped, SessionType, Locked
<1>5. /\ r \in SessionType /\ r.spent <= r.allowance /\ r.customer # NoAddress
      /\ (IF r.finalized THEN 0 ELSE r.allowance - r.spent) = allowance
  <2>1. r \in SessionType
    BY <1>1, Zenon DEF SessionType
  <2>2. r.customer = sender /\ r.allowance = allowance /\ r.spent = 0 /\ ~r.finalized
    OBVIOUS
  <2> HIDE DEF r
  <2> QED BY <1>1, <2>1, <2>2
<1>6. /\ sessions' \in [SessionIds -> SessionType] /\ SessionsWithinAllowance'
      /\ Sum(Locked) \in Nat /\ Sum(Locked') = Sum(Locked) + allowance
  <2> HIDE DEF r
  <2>1. /\ sessions' \in [SessionIds -> SessionType] /\ SessionsWithinAllowance'
        /\ Sum(Locked) \in Nat /\ Sum(Locked') = Sum(Locked) - Locked[s] + allowance
    BY <1>2, <1>3, <1>5, SessionReplaced, Zenon
  <2>2. Sum(Locked') = Sum(Locked) - 0 + allowance
    BY <1>4, <2>1, Zenon
  <2>3. \A n \in Nat : n - 0 + allowance = n + allowance
    BY <1>1
  <2> QED BY <2>1, <2>2, <2>3, Zenon
<1>7. /\ debited \in [Accounts -> Nat] /\ Sum(debited) = Sum(customerBalances) - allowance
      /\ allowance <= Sum(customerBalances)
  <2>1. customerBalances \in [Accounts -> Nat]
    BY Amountable, Zenon
  <2>2. \A n \in Nat : n <= customerBalances[sender] =>
            /\ [customerBalances EXCEPT ![sender] = customerBalances[sender] - n]
                 \in [Accounts -> Nat]
            /\ Sum([customerBalances EXCEPT ![sender] = customerBalances[sender] - n])
                 = Sum(customerBalances) - n
            /\ n <= Sum(customerBalances)
    BY <1>1, <2>1, DebitedSum, FiniteDomains, Zenon
  <2> QED BY <1>1, <2>2, Zenon
<1>8. AccountsTyped' /\ SessionsTyped'
  <2> HIDE DEF debited, r
  <2> QED BY <1>1, <1>2, <1>6, <1>7, Amountable
            DEF AccountsTyped, SessionsTyped, Ledgers, Conservation, MonIsConserved
<1>9. MonIsConserved'
  <2> HIDE DEF debited, r
  <2> QED BY <1>1, <1>2, <1>6, <1>7, Amountable
            DEF Conservation, MonIsConserved, fundVars, claimVars, bondVars
<1> QED
  BY <1>2, <1>6, <1>8, <1>9, Frame, Zenon DEF Conservation, TypeOK

(* Asking for a close changes nothing but the time it becomes possible. *)
LEMMA RequestCloseStep ==
    ASSUME Conservation, NEW sender \in Customers, NEW s \in SessionIds,
           requestSessionClose(sender, s)
    PROVE  Conservation'
<1>1. /\ now \in Nat /\ SESSION_CLOSE_DELAY \in Nat
      /\ sessions \in [SessionIds -> SessionType]
  BY MarketAssumption, Zenon DEF Conservation, TypeOK, MiscTyped, SessionsTyped
<1>2. /\ sessions' = [sessions EXCEPT ![s] =
                          [sessions[s] EXCEPT !.closeAvailableAt = now + SESSION_CLOSE_DELAY]]
      /\ UNCHANGED <<totalLockedSessions, fundVars, accountVars, claimVars, bondVars,
                     receiptVars, feeVars, miscVars, clockVars, batch>>
  BY <1>1, Zenon DEF requestSessionClose
<1>3. SessionsTyped' /\ SessionsWithinAllowance' /\ Locked' = Locked
  BY <1>1, <1>2 DEF Conservation, TypeOK, SessionsTyped, SessionsWithinAllowance, SessionType,
     Locked
<1>4. MonIsConserved'
  BY <1>2, <1>3, QuietStep, Zenon DEF Conservation, fundVars, accountVars, claimVars, bondVars
<1> QED
  BY <1>2, <1>3, <1>4, Frame, Zenon DEF Conservation, TypeOK

(* Finalizing a close gives back exactly what the session still holds. *)
LEMMA FinalizeCloseStep ==
    ASSUME Conservation, NEW sender \in Customers, NEW s \in SessionIds,
           finalizeSessionClose(sender, s)
    PROVE  Conservation'
<1> DEFINE r == [sessions[s] EXCEPT !.finalized = TRUE]
           remaining == Remaining(sessions[s])
           credited == Credited(customerBalances, sender, remaining)
<1>1. /\ sender \in Accounts /\ sender # NoAddress
      /\ sessions[s].customer = sender /\ ~sessions[s].finalized
      /\ sessions \in [SessionIds -> SessionType]
      /\ SessionsTyped /\ SessionsWithinAllowance
  BY MarketAssumption, Zenon DEF finalizeSessionClose, Conservation, TypeOK, SessionsTyped
<1>2. /\ customerBalances' = credited
      /\ totalCustomerBalances' = totalCustomerBalances + remaining
      /\ totalLockedSessions' = totalLockedSessions - remaining
      /\ sessions' = [sessions EXCEPT ![s] = r]
      /\ UNCHANGED <<fundVars, claimVars, bondVars, receiptVars, feeVars,
                     miscVars, clockVars, batch>>
  BY <1>1, Zenon DEF finalizeSessionClose, Credited
<1>3. remaining \in Nat /\ Locked[s] = remaining
  BY <1>1 DEF Remaining, Locked, SessionType, SessionsWithinAllowance
<1>4. /\ r \in SessionType /\ r.spent <= r.allowance /\ r.customer # NoAddress
      /\ (IF r.finalized THEN 0 ELSE r.allowance - r.spent) = 0
  BY <1>1, Zenon DEF SessionType, SessionsWithinAllowance
<1>5. /\ sessions' \in [SessionIds -> SessionType] /\ SessionsWithinAllowance'
      /\ Sum(Locked) \in Nat /\ Sum(Locked') = Sum(Locked) - remaining
      /\ remaining <= Sum(Locked)
  <2> HIDE DEF r, remaining
  <2>1. /\ sessions' \in [SessionIds -> SessionType] /\ SessionsWithinAllowance'
        /\ Sum(Locked) \in Nat /\ Sum(Locked') = Sum(Locked) - Locked[s] + 0
        /\ Locked[s] <= Sum(Locked)
    BY <1>1, <1>2, <1>4, SessionReplaced, Zenon
  <2>2. Sum(Locked') = Sum(Locked) - remaining + 0 /\ remaining <= Sum(Locked)
    BY <1>3, <2>1, Zenon
  <2>3. \A n \in Nat : n - remaining + 0 = n - remaining
    BY <1>3
  <2> QED BY <2>1, <2>2, <2>3, Zenon
<1> HIDE DEF r, remaining
<1>6. credited \in [Accounts -> Nat] /\ Sum(credited) = Sum(customerBalances) + remaining
  <2>1. customerBalances \in [Accounts -> Nat]
    BY Amountable, Zenon
  <2>2. \A n \in Nat : /\ Credited(customerBalances, sender, n) \in [Accounts -> Nat]
                       /\ Sum(Credited(customerBalances, sender, n))
                            = Sum(customerBalances) + n
    BY <1>1, <2>1, CreditedSum, FiniteDomains
  <2> QED BY <1>3, <2>2, Zenon
<1> HIDE DEF credited
<1>7. AccountsTyped' /\ SessionsTyped'
  BY <1>2, <1>3, <1>5, <1>6, Amountable, SMTT(30)
     DEF AccountsTyped, SessionsTyped, Ledgers, Conservation, MonIsConserved
<1>8. MonIsConserved'
  BY <1>2, <1>3, <1>5, <1>6, Amountable
     DEF Conservation, MonIsConserved, fundVars, claimVars, bondVars
<1> QED
  BY <1>2, <1>5, <1>7, <1>8, Frame, Zenon DEF Conservation, TypeOK

-----------------------------------------------------------------------------
(* Settlement *)

(* The fee rate of a receipt that can settle is one of the recorded rates. *)
LEMMA SettledRate ==
    ASSUME Conservation, NEW signed \in Receipts, Settleable(signed)
    PROVE  /\ signed.receipt \in ReceiptType
           /\ signed.receipt.totalCharge \in Nat /\ signed.receipt.feeBasisPoints \in Nat
           /\ signed.receipt.feeBasisPoints <= MAXIMUM_FEE_BASIS_POINTS
<1>1. signed.receipt \in ReceiptType
  BY MarketAssumption, Zenon DEF SignedReceiptType
<1>2. /\ signed.receipt.totalCharge \in Nat /\ signed.receipt.feeBasisPoints \in Nat
      /\ FeeBpsAt(signed.receipt.feeVersion) = signed.receipt.feeBasisPoints
  BY <1>1, Zenon DEF ReceiptType, Settleable
<1>3. signed.receipt.feeBasisPoints <= MAXIMUM_FEE_BASIS_POINTS
  BY <1>2 DEF FeeBpsAt, Conservation, TypeOK, FeesTyped, FeesCapped, MAXIMUM_FEE_BASIS_POINTS
<1> QED
  BY <1>1, <1>2, <1>3, Zenon

(* What the checks of _settleReceipt say about the amounts of a receipt:   *)
(* its fee is below the ceiling, and the provider gets the rest.           *)
LEMMA SettledFee ==
    ASSUME Conservation, NEW signed \in Receipts, Settleable(signed)
    PROVE  /\ FeeAmount(signed.receipt) \in Nat
           /\ FeeAmount(signed.receipt) <= signed.receipt.totalCharge
           /\ 10000 * FeeAmount(signed.receipt) <= 1500 * signed.receipt.totalCharge
<1> DEFINE c == signed.receipt.totalCharge
           b == signed.receipt.feeBasisPoints
<1>1. c \in Nat /\ b \in Nat /\ b <= MAXIMUM_FEE_BASIS_POINTS
  BY SettledRate
<1>2. FeeAmount(signed.receipt) = (c * b) \div 10000
  BY DEF FeeAmount
<1> HIDE DEF c, b
<1>3. /\ (c * b) \div 10000 \in Nat /\ (c * b) \div 10000 <= c
      /\ 10000 * ((c * b) \div 10000) <= 1500 * c
  BY <1>1, FeeBounds DEF MAXIMUM_FEE_BASIS_POINTS
<1>4. /\ FeeAmount(signed.receipt) \in Nat /\ FeeAmount(signed.receipt) <= c
      /\ 10000 * FeeAmount(signed.receipt) <= 1500 * c
  <2> DEFINE quotient == (c * b) \div 10000
  <2>1. /\ FeeAmount(signed.receipt) = quotient
        /\ quotient \in Nat /\ quotient <= c /\ 10000 * quotient <= 1500 * c
    BY <1>2, <1>3
  <2> HIDE DEF quotient
  <2> QED BY <2>1
<1> QED
  BY <1>4 DEF c

(* So both parts of a settled charge are amounts. *)
LEMMA SettledAmounts ==
    ASSUME Conservation, NEW signed \in Receipts, Settleable(signed)
    PROVE  /\ signed.receipt \in ReceiptType
           /\ FeeAmount(signed.receipt) \in Nat
           /\ signed.receipt.totalCharge - FeeAmount(signed.receipt) \in Nat
  BY SettledFee, SettledRate

(* Crediting an account adds the amount to the sum. *)
LEMMA AccountCredited ==
    \A f \in [Accounts -> Nat], a \in Accounts, n \in Nat :
        /\ Credited(f, a, n) \in [Accounts -> Nat]
        /\ Sum(Credited(f, a, n)) = Sum(f) + n
  BY CreditedSum, FiniteDomains, Zenon

(* Crediting two accounts, which may be one and the same. *)
LEMMA CreditedTwice ==
    ASSUME NEW f \in [Accounts -> Nat], NEW a \in Accounts, NEW b \in Accounts,
           NEW m \in Nat, NEW n \in Nat
    PROVE  /\ Credited(Credited(f, a, m), b, n) \in [Accounts -> Nat]
           /\ Sum(Credited(Credited(f, a, m), b, n)) = Sum(f) + m + n
<1>1. /\ Credited(f, a, m) \in [Accounts -> Nat]
      /\ Sum(Credited(f, a, m)) = Sum(f) + m
  BY AccountCredited, Zenon
<1>2. /\ Credited(Credited(f, a, m), b, n) \in [Accounts -> Nat]
      /\ Sum(Credited(Credited(f, a, m), b, n)) = Sum(Credited(f, a, m)) + n
  <2> HIDE DEF Credited
  <2> QED BY <1>1, AccountCredited, Zenon
<1> QED
  BY <1>1, <1>2, Zenon

(* A session pays a charge: what it holds shrinks by exactly the charge. *)
LEMMA SessionCharged ==
    ASSUME SessionsTyped, SessionsWithinAllowance, NEW s \in SessionIds, NEW charge \in Nat,
           sessions[s].customer # NoAddress, ~sessions[s].finalized,
           sessions[s].spent + charge <= sessions[s].allowance,
           sessions' = [sessions EXCEPT ![s].spent = @ + charge]
    PROVE  /\ sessions' \in [SessionIds -> SessionType] /\ SessionsWithinAllowance'
           /\ Sum(Locked) \in Nat /\ charge <= Sum(Locked)
           /\ Sum(Locked') = Sum(Locked) - charge
<1> DEFINE r == [sessions[s] EXCEPT !.spent = sessions[s].spent + charge]
<1>1. /\ sessions \in [SessionIds -> SessionType] /\ sessions[s] \in SessionType
      /\ sessions[s].allowance \in Nat /\ sessions[s].spent \in Nat
  BY Zenon DEF SessionsTyped, SessionType
<1>2. sessions' = [sessions EXCEPT ![s] = r]
  BY <1>1, Zenon
<1>3. /\ r \in SessionType /\ r.customer # NoAddress /\ ~r.finalized
      /\ r.allowance = sessions[s].allowance /\ r.spent = sessions[s].spent + charge
  BY <1>1 DEF SessionType
<1> HIDE DEF r
<1>4. Locked[s] = sessions[s].allowance - sessions[s].spent
  BY Zenon DEF Locked
<1>5. /\ sessions' \in [SessionIds -> SessionType] /\ SessionsWithinAllowance'
      /\ Sum(Locked) \in Nat /\ Locked[s] <= Sum(Locked)
      /\ Sum(Locked') = Sum(Locked) - Locked[s] + (r.allowance - r.spent)
  BY <1>2, <1>3, SessionReplaced, Zenon
<1> QED
  BY <1>1, <1>3, <1>4, <1>5

(* Settling moves the charge from the session to the provider and the fee  *)
(* recipient, and nothing is lost when the two are one account.            *)
LEMMA SettleStep ==
    ASSUME Conservation, NEW signed \in Receipts, Settle(signed), batch' \in Seq(Receipts)
    PROVE  Conservation'
<1> DEFINE receipt == signed.receipt
           s == receipt.sessionId
           charge == receipt.totalCharge
           fee == FeeAmount(receipt)
           share == charge - fee
           paid == Credited(Credited(claimable, receipt.provider, share), feeRecipient, fee)
<1>1. receipt \in ReceiptType /\ fee \in Nat /\ share \in Nat
  BY SettledAmounts, Zenon DEF Settle
<1>2. /\ s \in SessionIds /\ charge \in Nat /\ receipt.provider \in Accounts
      /\ receipt.requestId \in RequestIds /\ receipt.nonce \in Nat
      /\ receipt.customer # NoAddress /\ feeRecipient \in Accounts
  BY <1>1, MarketAssumption, Zenon DEF ReceiptType
<1>3. /\ SessionsTyped /\ SessionsWithinAllowance
      /\ sessions[s].customer = receipt.customer /\ ~sessions[s].finalized
      /\ sessions[s].spent + charge <= sessions[s].allowance
  BY Zenon DEF Conservation, TypeOK, Settle, Settleable, AllowanceCovers
<1>4. /\ sessions' = [sessions EXCEPT ![s].spent = @ + charge]
      /\ totalLockedSessions' = totalLockedSessions - charge
      /\ claimable' = paid
      /\ totalClaimable' = totalClaimable + share + fee
      /\ UNCHANGED <<fundVars, accountVars, bondVars, feeVars, miscVars, clockVars>>
  BY Zenon DEF Settle
<1>5. /\ settledRequests' = settledRequests \cup {receipt.requestId}
      /\ usedNonces' = usedNonces \cup {<<receipt.provider, receipt.nonce>>}
      /\ settlements' = settlements \cup
             {[receipt |-> receipt, providerAmount |-> share, feeAmount |-> fee]}
  BY Zenon DEF Settle
<1>6. ReceiptsTyped'
  <2>1. [receipt |-> receipt, providerAmount |-> share, feeAmount |-> fee]
          \in SettlementType
    <3> HIDE DEF receipt, share, fee
    <3> QED BY <1>1, Zenon DEF SettlementType
  <2>2. ReceiptsTyped
    BY Zenon DEF Conservation, TypeOK
  <2> HIDE DEF receipt, share, fee
  <2>3. /\ settledRequests' \subseteq RequestIds
        /\ usedNonces' \subseteq Accounts \X Nat
    BY <1>2, <1>5, <2>2 DEF ReceiptsTyped
  <2>4. settlements' \subseteq SettlementType
    BY <1>5, <2>1, <2>2, Zenon DEF ReceiptsTyped
  <2> QED
    BY <2>2, <2>3, <2>4, Zenon DEF ReceiptsTyped
<1>7. /\ sessions' \in [SessionIds -> SessionType] /\ SessionsWithinAllowance'
      /\ Sum(Locked) \in Nat /\ charge <= Sum(Locked)
      /\ Sum(Locked') = Sum(Locked) - charge
  <2> HIDE DEF receipt, s, charge
  <2> QED BY <1>2, <1>3, <1>4, SessionCharged, Zenon
<1>8. paid \in [Accounts -> Nat] /\ Sum(paid) = Sum(claimable) + share + fee
  <2>1. claimable \in [Accounts -> Nat]
    BY Amountable, Zenon
  <2>2. \A a \in Accounts, m \in Nat, n \in Nat :
            LET credited == Credited(Credited(claimable, a, m), feeRecipient, n)
            IN  credited \in [Accounts -> Nat] /\ Sum(credited) = Sum(claimable) + m + n
    BY <1>2, <2>1, CreditedTwice
  <2> HIDE DEF receipt, share, fee
  <2> QED BY <1>1, <1>2, <2>2, Zenon
<1>9. charge = share + fee
  <2> HIDE DEF charge, fee
  <2> QED BY <1>1, <1>2
<1> HIDE DEF paid, share, fee, charge, s, receipt
<1>10. ClaimsTyped'
  BY <1>1, <1>4, <1>8, Amountable DEF ClaimsTyped, Ledgers
<1>11. SessionsTyped'
  BY <1>2, <1>4, <1>7 DEF SessionsTyped, Conservation, MonIsConserved
<1>12. MonIsConserved'
  <2>1. MonIsConserved
    BY Zenon DEF Conservation
  <2>2. UNCHANGED <<balance, customerBalances, totalCustomerBalances,
                    providerBonds, totalProviderBonds>>
    BY <1>4, Zenon DEF fundVars, accountVars, bondVars
  <2>3. totalClaimable' = Sum(claimable')
    BY <1>4, <1>8, <2>1, Zenon DEF MonIsConserved
  <2>4. totalLockedSessions' = Sum(Locked')
    BY <1>4, <1>7, <2>1, Zenon DEF MonIsConserved
  <2>5. balance' = totalCustomerBalances' + totalProviderBonds'
                     + totalClaimable' + totalLockedSessions'
    <3>1. /\ balance = totalCustomerBalances + totalProviderBonds
                         + totalClaimable + totalLockedSessions
          /\ balance \in Nat /\ totalCustomerBalances \in Nat /\ totalProviderBonds \in Nat
          /\ totalClaimable \in Nat /\ totalLockedSessions \in Nat
      BY <2>1, Amountable, Zenon DEF MonIsConserved
    <3>2. /\ totalClaimable' = totalClaimable + share + fee
          /\ totalLockedSessions' = totalLockedSessions - (share + fee)
      BY <1>4, <1>9, Zenon
    <3>3. share \in Nat /\ fee \in Nat
      BY <1>1, Zenon
    <3> QED BY <2>2, <3>1, <3>2, <3>3
  <2> QED
    BY <2>1, <2>2, <2>3, <2>4, <2>5, Zenon DEF MonIsConserved
<1> QED
  BY <1>4, <1>6, <1>7, <1>10, <1>11, <1>12, Frame, Zenon DEF Conservation, TypeOK

(* Accepting a batch only fixes what the following iterations settle. *)
LEMMA BatchStep ==
    ASSUME Conservation, NEW b \in Batches({x \in Receipts : Settleable(x)}), settleReceipts(b)
    PROVE  Conservation'
<1>1. b \in Seq(Receipts)
  <2>1. PICK n \in 1 .. MaxBatch : b \in [1 .. n -> {x \in Receipts : Settleable(x)}]
    BY Zenon DEF Batches
  <2>2. n \in Nat /\ b \in [1 .. n -> Receipts]
    BY <2>1, MarketAssumption
  <2> QED BY <2>2
<1>2. /\ UNCHANGED <<fundVars, accountVars, claimVars, bondVars, sessionVars,
                     receiptVars, feeVars, miscVars, clockVars>>
      /\ batch' = b
  BY Zenon DEF settleReceipts
<1>3. ReceiptsTyped'
  BY <1>1, <1>2, Zenon DEF ReceiptsTyped, receiptVars, Conservation, TypeOK
<1>4. MonIsConserved'
  BY <1>2, Frame, QuietStep, Zenon
     DEF Conservation, fundVars, accountVars, claimVars, bondVars, sessionVars
<1> QED
  BY <1>2, <1>3, <1>4, Frame, Zenon DEF Conservation, TypeOK

(* An iteration of the batch settles its next receipt. *)
LEMMA SettleNextStep ==
    ASSUME Conservation, SettleNext
    PROVE  Conservation'
<1>1. batch \in Seq(Receipts) /\ batch # <<>>
  BY Zenon DEF Conservation, TypeOK, ReceiptsTyped, SettleNext
<1>2. Head(batch) \in Receipts /\ Tail(batch) \in Seq(Receipts)
  BY <1>1
<1> QED
  BY <1>2, SettleStep, Zenon DEF SettleNext

-----------------------------------------------------------------------------
(* Steps that move no wei *)

(* Signers, exit requests, offers, fees, pausing and time leave every      *)
(* ledger alone, and a fee enters the record only below the ceiling.       *)
LEMMA NoWeiMoved ==
    ASSUME Conservation,
           UNCHANGED <<fundVars, accountVars, claimVars, sessionVars, receiptVars, batch,
                       providerBonds, totalProviderBonds, lastBondAt>>,
           bondExitAvailableAt' \in Ledgers,
           FeesTyped', FeesCapped', MiscTyped'
    PROVE  Conservation'
<1>1. BondsTyped'
  BY Zenon DEF Conservation, TypeOK, BondsTyped
<1>2. MonIsConserved'
  BY Frame, QuietStep, Zenon DEF Conservation, fundVars, accountVars, claimVars, sessionVars
<1> QED
  BY <1>1, <1>2, Frame, Zenon DEF Conservation, TypeOK

(* Authorizing or revoking a machine's signer moves no wei. *)
LEMMA SignerStep ==
    ASSUME Conservation, NEW sender \in Providers, NEW signer \in MachineSigners,
           NEW allowed \in BOOLEAN, setProviderSigner(sender, signer, allowed)
    PROVE  Conservation'
<1>1. sender \in Accounts
  BY MarketAssumption, Zenon
<1>2. UNCHANGED <<offerVersions, slashedRequests, fundVars, accountVars, claimVars,
                  bondVars, sessionVars, receiptVars, feeVars, clockVars, batch>>
  BY Zenon DEF setProviderSigner
<1>3. providerSigners' \subseteq Accounts \X MachineSigners
  <2>1. providerSigners \subseteq Accounts \X MachineSigners
    BY Zenon DEF Conservation, TypeOK, MiscTyped
  <2>2. \/ providerSigners' = providerSigners \cup {<<sender, signer>>}
        \/ providerSigners' = providerSigners \ {<<sender, signer>>}
    BY Zenon DEF setProviderSigner
  <2> QED BY <1>1, <2>1, <2>2
<1>4. MiscTyped'
  BY <1>2, <1>3, Zenon DEF Conservation, TypeOK, MiscTyped, clockVars
<1>5. bondExitAvailableAt' \in Ledgers
  BY <1>2, Zenon DEF bondVars, Conservation, TypeOK, BondsTyped
<1> QED
  BY <1>2, <1>4, <1>5, Frame, NoWeiMoved, Zenon DEF bondVars

(* Asking for the bond back only starts the delay. *)
LEMMA RequestExitStep ==
    ASSUME Conservation, NEW sender \in Providers, requestBondExit(sender)
    PROVE  Conservation'
<1>1. /\ sender \in Accounts /\ now \in Nat /\ bondExitDelay \in Nat
      /\ bondExitAvailableAt \in Ledgers
  BY MarketAssumption, Zenon DEF Conservation, TypeOK, MiscTyped, BondsTyped
<1>2. bondExitAvailableAt' \in Ledgers
  BY <1>1 DEF requestBondExit, Ledgers
<1>3. /\ UNCHANGED <<fundVars, accountVars, claimVars, sessionVars, receiptVars, batch,
                     providerBonds, totalProviderBonds, lastBondAt>>
      /\ UNCHANGED <<feeVars, miscVars, clockVars>>
  BY Zenon DEF requestBondExit
<1> QED
  BY <1>2, <1>3, Frame, NoWeiMoved, Zenon

(* Publishing an offer appends a version to the provider's offers. *)
LEMMA OfferStep ==
    ASSUME Conservation, NEW sender \in Providers, NEW o \in OfferIds,
           NEW content \in Contents, NEW price \in Prices,
           publishOffer(sender, o, content, price)
    PROVE  Conservation'
<1> DEFINE Versions == Seq([content : Contents, price : Prices])
           offer == [content |-> content, price |-> price]
<1>1. sender \in Accounts /\ offerVersions \in [Accounts -> [OfferIds -> Versions]]
  BY MarketAssumption, Zenon DEF Conservation, TypeOK, MiscTyped
<1>2. Append(offerVersions[sender][o], offer) \in Versions
  <2>1. offer \in [content : Contents, price : Prices]
    OBVIOUS
  <2>2. offerVersions[sender][o] \in Versions
    BY <1>1, Zenon
  <2> QED BY <2>1, <2>2
<1>3. offerVersions' = [offerVersions EXCEPT ![sender] =
          [offerVersions[sender] EXCEPT ![o] = Append(offerVersions[sender][o], offer)]]
  BY <1>1, Zenon DEF publishOffer, WithNewVersion
<1> HIDE DEF Versions, offer
<1>4. offerVersions' \in [Accounts -> [OfferIds -> Versions]]
  BY <1>1, <1>2, <1>3, Zenon
<1>5. UNCHANGED <<providerSigners, slashedRequests, fundVars, accountVars, claimVars,
                  bondVars, sessionVars, receiptVars, feeVars, clockVars, batch>>
  BY Zenon DEF publishOffer
<1>6. MiscTyped'
  BY <1>4, <1>5, Zenon DEF Conservation, TypeOK, MiscTyped, clockVars, Versions
<1>7. bondExitAvailableAt' \in Ledgers
  BY <1>5, Zenon DEF bondVars, Conservation, TypeOK, BondsTyped
<1> QED
  BY <1>5, <1>6, <1>7, Frame, NoWeiMoved, Zenon DEF bondVars

(* Proposing a fee checks it against the ceiling. *)
LEMMA ProposeFeeStep ==
    ASSUME Conservation, NEW newFee \in FeeProposals, proposeFee(newFee)
    PROVE  Conservation'
<1>1. newFee \in Nat /\ now \in Nat /\ feeDelay \in Nat
  BY MarketAssumption, Zenon DEF Conservation, TypeOK, MiscTyped
<1>2. FeesTyped' /\ FeesCapped'
  BY <1>1 DEF proposeFee, FeeAllowed, Conservation, TypeOK, FeesTyped, FeesCapped
<1>3. UNCHANGED <<fundVars, accountVars, claimVars, bondVars, sessionVars, receiptVars,
                  miscVars, clockVars, batch>>
  BY Zenon DEF proposeFee
<1>4. bondExitAvailableAt' \in Ledgers
  BY <1>3, Zenon DEF bondVars, Conservation, TypeOK, BondsTyped
<1> QED
  BY <1>2, <1>3, <1>4, Frame, NoWeiMoved, Zenon DEF bondVars

(* The executed fee is the proposed one, under a version of its own. *)
LEMMA ExecuteFeeStep ==
    ASSUME Conservation, executeFeeChange
    PROVE  Conservation'
<1>1. /\ feeVersion \in 1 .. MaxFeeVersion /\ feeVersion < MaxFeeVersion
      /\ feeBpsByVersion \in [1 .. MaxFeeVersion -> Nat] /\ MaxFeeVersion \in Nat
      /\ pendingFeeBasisPoints \in Nat
      /\ pendingFeeBasisPoints <= MAXIMUM_FEE_BASIS_POINTS
  BY MarketAssumption, Zenon DEF executeFeeChange, Conservation, TypeOK, FeesTyped, FeesCapped
<1>2. feeVersion + 1 \in 1 .. MaxFeeVersion
  BY <1>1
<1>3. /\ feeVersion' = feeVersion + 1
      /\ feeBpsByVersion' = [feeBpsByVersion EXCEPT ![feeVersion + 1] = pendingFeeBasisPoints]
      /\ feeBasisPoints' = pendingFeeBasisPoints /\ pendingFeeBasisPoints' = 0
      /\ pendingFeeAvailableAt' = 0 /\ pendingFeeChange' = FALSE
  BY Zenon DEF executeFeeChange, NextFeeVersion
<1>4. FeesTyped'
  BY <1>1, <1>2, <1>3, Zenon DEF FeesTyped
<1>5. FeesCapped'
  BY <1>1, <1>2, <1>3 DEF FeesCapped, Conservation, MAXIMUM_FEE_BASIS_POINTS
<1>6. UNCHANGED <<fundVars, accountVars, claimVars, bondVars, sessionVars, receiptVars,
                  miscVars, clockVars, batch>>
  BY Zenon DEF executeFeeChange
<1>7. bondExitAvailableAt' \in Ledgers
  BY <1>6, Zenon DEF bondVars, Conservation, TypeOK, BondsTyped
<1> QED
  BY <1>4, <1>5, <1>6, <1>7, Frame, NoWeiMoved, Zenon DEF bondVars

(* Pausing, resuming and the passing of time touch only the clock. *)
LEMMA ClockStep ==
    ASSUME Conservation, pause \/ unpause \/ Tick
    PROVE  Conservation'
<1>1. UNCHANGED <<fundVars, accountVars, claimVars, bondVars, sessionVars, receiptVars,
                  feeVars, miscVars, batch>>
  BY Zenon DEF pause, unpause, Tick
<1>2. now' \in Nat
  BY DEF pause, unpause, Tick, Conservation, TypeOK, MiscTyped
<1>3. paused' \in BOOLEAN
  BY Zenon DEF pause, unpause, Tick, Conservation, TypeOK, MiscTyped
<1>4. MiscTyped'
  BY <1>1, <1>2, <1>3, Zenon DEF Conservation, TypeOK, MiscTyped, miscVars
<1>5. bondExitAvailableAt' \in Ledgers
  BY <1>1, Zenon DEF bondVars, Conservation, TypeOK, BondsTyped
<1> QED
  BY <1>1, <1>4, <1>5, Frame, NoWeiMoved, Zenon DEF bondVars

-----------------------------------------------------------------------------
(* The invariant *)

(* After the constructor every ledger is empty. *)
LEMMA ConservationInit == Init => Conservation
<1> SUFFICES ASSUME Init PROVE Conservation
  OBVIOUS
<1>1. TypeOK
  <2>1. FundsTyped /\ AccountsTyped /\ ClaimsTyped /\ BondsTyped
    BY Zenon DEF Init, FundsTyped, AccountsTyped, ClaimsTyped, BondsTyped, Ledgers
  <2>2. SessionsTyped
    BY Zenon DEF Init, SessionsTyped, SessionType, NoSession
  <2>3. ReceiptsTyped
    BY DEF Init, ReceiptsTyped
  <2>4. FeesTyped
    <3>1. MaxFeeVersion \in Nat /\ 1 \in 1 .. MaxFeeVersion
      BY MarketAssumption
    <3>2. feeBpsByVersion \in [1 .. MaxFeeVersion -> Nat]
      BY <3>1 DEF Init, InitialFee
    <3>3. pendingFeeChange \in BOOLEAN
      BY Zenon DEF Init
    <3> QED BY <3>1, <3>2, <3>3 DEF Init, FeesTyped, InitialFee
  <2>5. MiscTyped
    <3>1. offerVersions \in
              [Accounts -> [OfferIds -> Seq([content : Contents, price : Prices])]]
      BY DEF Init
    <3>2. paused \in BOOLEAN
      BY Zenon DEF Init
    <3> QED BY <3>1, <3>2, Zenon DEF Init, MiscTyped
  <2> QED BY <2>1, <2>2, <2>3, <2>4, <2>5, Zenon DEF TypeOK
<1>2. SessionsWithinAllowance
  BY DEF Init, SessionsWithinAllowance, NoSession
<1>3. FeesCapped
  BY DEF Init, FeesCapped, InitialFee, MAXIMUM_FEE_BASIS_POINTS
<1>4. MonIsConserved
  <2>1. Sum([a \in Accounts |-> 0]) = 0 /\ Sum([s \in SessionIds |-> 0]) = 0
    BY SumZero, FiniteDomains, Zenon
  <2>2. Locked = [s \in SessionIds |-> 0]
    BY DEF Init, Locked, NoSession
  <2>3. /\ customerBalances = [a \in Accounts |-> 0] /\ totalCustomerBalances = 0
        /\ providerBonds = [a \in Accounts |-> 0] /\ totalProviderBonds = 0
        /\ claimable = [a \in Accounts |-> 0] /\ totalClaimable = 0
        /\ totalLockedSessions = 0 /\ balance = 0
    BY Zenon DEF Init
  <2> QED BY <2>1, <2>2, <2>3 DEF MonIsConserved
<1> QED BY <1>1, <1>2, <1>3, <1>4, Zenon DEF Conservation

(* Every transaction, and every iteration of a batch, keeps the invariant. *)
LEMMA ConservationNext == Conservation /\ [Next]_vars => Conservation'
<1> SUFFICES ASSUME Conservation, [Next]_vars PROVE Conservation'
  OBVIOUS
<1>1. CASE CustomerStep
  BY <1>1, DepositStep, WithdrawalStep, OpenSessionStep, RequestCloseStep, FinalizeCloseStep, Zenon
     DEF CustomerStep
<1>2. CASE ProviderStep
  BY <1>2, DepositBondStep, SignerStep, RequestExitStep, BondExitStep, OfferStep, Zenon
     DEF ProviderStep
<1>3. CASE \E sender \in Accounts : claim(sender)
  BY <1>3, ClaimStep, Zenon
<1>4. CASE SettlementStep
  <2>1. ASSUME NEW signed \in Receipts, settleReceipt(signed) PROVE Conservation'
    <3>1. batch' \in Seq(Receipts)
      BY <2>1, Zenon DEF settleReceipt, Conservation, TypeOK, ReceiptsTyped
    <3> QED BY <2>1, <3>1, SettleStep, Zenon DEF settleReceipt
  <2> QED
    BY <1>4, <2>1, BatchStep, SettleNextStep, SlashStep, Zenon DEF SettlementStep
<1>5. CASE OwnerStep
  BY <1>5, ProposeFeeStep, ClockStep, Zenon DEF OwnerStep
<1>6. CASE executeFeeChange
  BY <1>6, ExecuteFeeStep, Zenon
<1>7. CASE Tick
  BY <1>7, ClockStep, Zenon
<1>8. CASE UNCHANGED vars
  <2>1. UNCHANGED <<fundVars, accountVars, claimVars, bondVars, sessionVars, receiptVars,
                    feeVars, miscVars, clockVars, batch>>
    BY <1>8, Zenon DEF vars, fundVars, accountVars, claimVars, bondVars, sessionVars, receiptVars,
       feeVars, miscVars, clockVars
  <2>2. MonIsConserved'
    BY <2>1, Frame, QuietStep, Zenon
       DEF Conservation, fundVars, accountVars, claimVars, bondVars, sessionVars
  <2> QED BY <2>1, <2>2, Frame, Zenon DEF Conservation, TypeOK
<1> QED
  BY <1>1, <1>2, <1>3, <1>4, <1>5, <1>6, <1>7, <1>8, Zenon DEF Next

(* The invariant holds throughout. *)
THEOREM ConservationHolds == Spec => []Conservation
<1>1. Init => Conservation
  BY ConservationInit, Zenon
<1>2. Conservation /\ [Next]_vars => Conservation'
  BY ConservationNext, Zenon
<1> QED
  BY <1>1, <1>2, PTL DEF Spec

(* Type correctness: no total and no balance ever drops below zero. *)
THEOREM TypeCorrect == Spec => []TypeOK
<1>1. Conservation => TypeOK
  BY Zenon DEF Conservation
<1> QED
  BY <1>1, ConservationHolds, PTL

(* The contract's wei is always exactly what its ledgers promise. *)
THEOREM MonConserved == Spec => []MonIsConserved
<1>1. Conservation => MonIsConserved
  BY Zenon DEF Conservation
<1> QED
  BY <1>1, ConservationHolds, PTL

-----------------------------------------------------------------------------
(* The record of settlements *)

(* A settlement leaves its request and its nonce marked; the marks are     *)
(* what keeps the next receipt for the same request out.                   *)
SettlementsMarked ==
    \A x \in settlements : /\ x.receipt.requestId \in settledRequests
                           /\ <<x.receipt.provider, x.receipt.nonce>> \in usedNonces

SettlementRecord == SettlementsMarked /\ ReceiptsSettleOnce /\ FeeWithinCeiling

(* Settling adds one entry to the record, for a request that had none. *)
LEMMA SettleRecords ==
    ASSUME Conservation, SettlementRecord, NEW signed \in Receipts, Settle(signed)
    PROVE  SettlementRecord'
<1> DEFINE receipt == signed.receipt
           fee == FeeAmount(receipt)
           share == receipt.totalCharge - fee
           entry == [receipt |-> receipt, providerAmount |-> share, feeAmount |-> fee]
<1>1. /\ receipt.requestId \notin settledRequests
      /\ <<receipt.provider, receipt.nonce>> \notin usedNonces
  BY Zenon DEF Settle, Settleable, Fresh
<1>2. /\ settledRequests' = settledRequests \cup {receipt.requestId}
      /\ usedNonces' = usedNonces \cup {<<receipt.provider, receipt.nonce>>}
      /\ settlements' = settlements \cup {entry}
  BY Zenon DEF Settle
<1>3. /\ entry.receipt = receipt /\ entry.feeAmount = fee /\ entry.providerAmount = share
  OBVIOUS
<1>4. SettlementsMarked'
  <2> HIDE DEF entry, receipt
  <2> QED BY <1>2, <1>3, Zenon DEF SettlementsMarked, SettlementRecord
<1>5. ReceiptsSettleOnce'
  <2> HIDE DEF entry, receipt
  <2>1. \A x \in settlements : /\ x.receipt.requestId # receipt.requestId
                               /\ \/ x.receipt.provider # receipt.provider
                                  \/ x.receipt.nonce # receipt.nonce
    BY <1>1, Zenon DEF SettlementsMarked, SettlementRecord
  <2> QED BY <1>2, <1>3, <2>1 DEF ReceiptsSettleOnce, SettlementRecord
<1>6. 10000 * fee <= 1500 * (share + fee)
  <2>1. Settleable(signed)
    BY DEF Settle
  <2>2. fee \in Nat /\ 10000 * fee <= 1500 * receipt.totalCharge
    BY <2>1, SettledFee
  <2>3. receipt.totalCharge \in Nat
    BY <2>1, SettledRate, Zenon
  <2>4. share = receipt.totalCharge - fee
    OBVIOUS
  <2> HIDE DEF fee, share, receipt
  <2> QED BY <2>2, <2>3, <2>4
<1>7. FeeWithinCeiling'
  <2> HIDE DEF entry, fee, share, receipt
  <2>1. \A x \in settlements : 10000 * x.feeAmount <= 1500 * (x.providerAmount + x.feeAmount)
    BY DEF SettlementRecord, FeeWithinCeiling, MAXIMUM_FEE_BASIS_POINTS
  <2>2. 10000 * entry.feeAmount <= 1500 * (entry.providerAmount + entry.feeAmount)
    BY <1>3, <1>6
  <2>3. \A x \in settlements' : x \in settlements \/ x = entry
    BY <1>2, Zenon
  <2> QED BY <2>1, <2>2, <2>3 DEF FeeWithinCeiling, MAXIMUM_FEE_BASIS_POINTS
<1> QED
  BY <1>4, <1>5, <1>7, Zenon DEF SettlementRecord

(* Every other step leaves the record as it is. *)
LEMMA OnlySettlementRecords ==
    ASSUME [Next]_vars
    PROVE  \/ \E signed \in Receipts : settleReceipt(signed)
           \/ SettleNext
           \/ UNCHANGED receiptVars
<1>1. CASE CustomerStep
  BY <1>1 DEF CustomerStep, deposit, requestWithdrawal, openSession, requestSessionClose,
     finalizeSessionClose
<1>2. CASE ProviderStep
  BY <1>2, Zenon DEF ProviderStep, depositBond, setProviderSigner, requestBondExit,
     finalizeBondExit, publishOffer
<1>3. CASE \E sender \in Accounts : claim(sender)
  BY <1>3, Zenon DEF claim
<1>4. CASE SettlementStep
  BY <1>4, Zenon DEF SettlementStep, settleReceipts, slashDoubleSign
<1>5. CASE OwnerStep \/ executeFeeChange \/ Tick
  BY <1>5, Zenon DEF OwnerStep, proposeFee, pause, unpause, executeFeeChange, Tick
<1>6. CASE UNCHANGED vars
  BY <1>6, Zenon DEF vars, receiptVars
<1> QED
  BY <1>1, <1>2, <1>3, <1>4, <1>5, <1>6, Zenon DEF Next

(* The record is kept by every step. *)
LEMMA RecordNext == Conservation /\ SettlementRecord /\ [Next]_vars => SettlementRecord'
<1> SUFFICES ASSUME Conservation, SettlementRecord, [Next]_vars PROVE SettlementRecord'
  OBVIOUS
<1>1. CASE \E signed \in Receipts : settleReceipt(signed)
  BY <1>1, SettleRecords, Zenon DEF settleReceipt
<1>2. CASE SettleNext
  <2>1. batch \in Seq(Receipts) /\ batch # <<>>
    BY <1>2, Zenon DEF Conservation, TypeOK, ReceiptsTyped, SettleNext
  <2>2. Head(batch) \in Receipts
    BY <2>1
  <2> QED BY <1>2, <2>2, SettleRecords, Zenon DEF SettleNext
<1>3. CASE UNCHANGED receiptVars
  BY <1>3 DEF receiptVars, SettlementRecord, SettlementsMarked, ReceiptsSettleOnce,
     FeeWithinCeiling
<1> QED
  BY <1>1, <1>2, <1>3, OnlySettlementRecords, Zenon

(* The record holds throughout. *)
THEOREM RecordHolds == Spec => []SettlementRecord
<1>1. Init => SettlementRecord
  BY DEF Init, SettlementRecord, SettlementsMarked, ReceiptsSettleOnce, FeeWithinCeiling
<1>2. Conservation /\ SettlementRecord /\ [Next]_vars => SettlementRecord'
  BY RecordNext, Zenon
<1> QED
  BY <1>1, <1>2, ConservationHolds, PTL DEF Spec

(* A request is settled, and a provider's nonce used, at most once. *)
THEOREM SettledOnce == Spec => []ReceiptsSettleOnce
<1>1. SettlementRecord => ReceiptsSettleOnce
  BY Zenon DEF SettlementRecord
<1> QED
  BY <1>1, RecordHolds, PTL

(* The platform never takes more than 15% of a charge. *)
THEOREM FeeCeiling == Spec => []FeeWithinCeiling
<1>1. SettlementRecord => FeeWithinCeiling
  BY Zenon DEF SettlementRecord
<1> QED
  BY <1>1, RecordHolds, PTL

-----------------------------------------------------------------------------
(* The record *)

(* Only the calls about bonds, slashing and time touch a bond or the clock. *)
LEMMA OnlyBondCalls ==
    ASSUME [Next]_vars
    PROVE  \/ \E sender \in Providers : \/ \E value \in Amounts : depositBond(sender, value)
                                        \/ requestBondExit(sender)
                                        \/ finalizeBondExit(sender)
           \/ \E first, second \in Receipts : slashDoubleSign(first, second)
           \/ Tick
           \/ UNCHANGED <<bondVars, now>>
<1>1. CASE CustomerStep
  BY <1>1 DEF CustomerStep, deposit, requestWithdrawal, openSession, requestSessionClose,
     finalizeSessionClose, clockVars
<1>2. CASE ProviderStep
  BY <1>2, Zenon DEF ProviderStep, setProviderSigner, publishOffer, clockVars
<1>3. CASE \E sender \in Accounts : claim(sender)
  BY <1>3, Zenon DEF claim, clockVars
<1>4. CASE SettlementStep
  BY <1>4, Zenon DEF SettlementStep, settleReceipt, settleReceipts, SettleNext, Settle, clockVars
<1>5. CASE OwnerStep \/ executeFeeChange \/ Tick
  BY <1>5, Zenon DEF OwnerStep, proposeFee, pause, unpause, executeFeeChange, clockVars
<1>6. CASE UNCHANGED vars
  BY <1>6, Zenon DEF vars, bondVars
<1> QED
  BY <1>1, <1>2, <1>3, <1>4, <1>5, <1>6, Zenon DEF Next

(* Only publishOffer touches the offers. *)
LEMMA OnlyPublishing ==
    ASSUME [Next]_vars
    PROVE  \/ \E sender \in Providers, o \in OfferIds, content \in Contents, price \in Prices :
                  publishOffer(sender, o, content, price)
           \/ UNCHANGED offerVersions
<1>1. CASE CustomerStep
  BY <1>1 DEF CustomerStep, deposit, requestWithdrawal, openSession, requestSessionClose,
     finalizeSessionClose, miscVars
<1>2. CASE ProviderStep
  BY <1>2, Zenon DEF ProviderStep, depositBond, setProviderSigner, requestBondExit,
     finalizeBondExit, miscVars
<1>3. CASE \E sender \in Accounts : claim(sender)
  BY <1>3, Zenon DEF claim, miscVars
<1>4. CASE SettlementStep
  BY <1>4, Zenon DEF SettlementStep, settleReceipt, settleReceipts, SettleNext, Settle,
     slashDoubleSign, miscVars
<1>5. CASE OwnerStep \/ executeFeeChange \/ Tick
  BY <1>5, Zenon DEF OwnerStep, proposeFee, pause, unpause, executeFeeChange, Tick, miscVars
<1>6. CASE UNCHANGED vars
  BY <1>6, Zenon DEF vars
<1> QED
  BY <1>1, <1>2, <1>3, <1>4, <1>5, <1>6, Zenon DEF Next

(* Only executeFeeChange touches the recorded fees. *)
LEMMA OnlyFeeChange ==
    ASSUME [Next]_vars
    PROVE  executeFeeChange \/ UNCHANGED feeBpsByVersion
<1>1. CASE CustomerStep
  BY <1>1 DEF CustomerStep, deposit, requestWithdrawal, openSession, requestSessionClose,
     finalizeSessionClose, feeVars
<1>2. CASE ProviderStep
  BY <1>2, Zenon DEF ProviderStep, depositBond, setProviderSigner, requestBondExit,
     finalizeBondExit, publishOffer, feeVars
<1>3. CASE \E sender \in Accounts : claim(sender)
  BY <1>3, Zenon DEF claim, feeVars
<1>4. CASE SettlementStep
  BY <1>4, Zenon DEF SettlementStep, settleReceipt, settleReceipts, SettleNext, Settle,
     slashDoubleSign, feeVars
<1>5. CASE OwnerStep \/ executeFeeChange \/ Tick
  BY <1>5, Zenon DEF OwnerStep, proposeFee, pause, unpause, Tick, feeVars
<1>6. CASE UNCHANGED vars
  BY <1>6, Zenon DEF vars
<1> QED
  BY <1>1, <1>2, <1>3, <1>4, <1>5, <1>6, Zenon DEF Next

(* Only the calls about a session and settlements touch a session. *)
LEMMA OnlySessionCalls ==
    ASSUME [Next]_vars
    PROVE  \/ \E sender \in Customers, s \in SessionIds :
                  \/ \E allowance \in Amounts, expiresAt \in Expiries :
                         openSession(sender, s, allowance, expiresAt)
                  \/ requestSessionClose(sender, s)
                  \/ finalizeSessionClose(sender, s)
           \/ \E signed \in Receipts : settleReceipt(signed)
           \/ SettleNext
           \/ UNCHANGED sessions
<1>1. CASE CustomerStep
  BY <1>1, Zenon DEF CustomerStep, deposit, requestWithdrawal, sessionVars
<1>2. CASE ProviderStep
  BY <1>2, Zenon DEF ProviderStep, depositBond, setProviderSigner, requestBondExit,
     finalizeBondExit, publishOffer, sessionVars
<1>3. CASE \E sender \in Accounts : claim(sender)
  BY <1>3, Zenon DEF claim, sessionVars
<1>4. CASE SettlementStep
  BY <1>4, Zenon DEF SettlementStep, settleReceipts, slashDoubleSign, sessionVars
<1>5. CASE OwnerStep \/ executeFeeChange \/ Tick
  BY <1>5, Zenon DEF OwnerStep, proposeFee, pause, unpause, executeFeeChange, Tick, sessionVars
<1>6. CASE UNCHANGED vars
  BY <1>6, Zenon DEF vars
<1> QED
  BY <1>1, <1>2, <1>3, <1>4, <1>5, <1>6, Zenon DEF Next

-----------------------------------------------------------------------------
(* Bonds *)

(* The delay of an exit counts from the last payment because no payment    *)
(* lies in the future.                                                     *)
BondRecord == BondServesExitDelay /\ \A p \in Accounts : lastBondAt[p] <= now

(* depositBond is refused while an exit runs, requestBondExit starts the   *)
(* delay now, finalizeBondExit ends the exit, and slashDoubleSign ends it  *)
(* exactly when nothing of the bond is left.                               *)
LEMMA BondNext == Conservation /\ BondRecord /\ [Next]_vars => BondRecord'
<1> SUFFICES ASSUME Conservation, BondRecord, [Next]_vars PROVE BondRecord'
  OBVIOUS
<1>1. /\ providerBonds \in [Accounts -> Nat] /\ bondExitAvailableAt \in [Accounts -> Nat]
      /\ lastBondAt \in [Accounts -> Nat] /\ now \in Nat
      /\ bondExitDelay \in Nat /\ minimumBond \in Nat /\ Providers \subseteq Accounts
      /\ Amounts \subseteq Nat
  BY MarketAssumption, Zenon DEF Conservation, TypeOK, BondsTyped, MiscTyped, Ledgers
<1>2. /\ \A p \in Accounts : bondExitAvailableAt[p] # 0 =>
             /\ providerBonds[p] # 0
             /\ bondExitAvailableAt[p] >= lastBondAt[p] + bondExitDelay
      /\ \A p \in Accounts : lastBondAt[p] <= now
  BY Zenon DEF BondRecord, BondServesExitDelay
<1>3. ASSUME NEW sender \in Providers, NEW value \in Amounts, depositBond(sender, value)
      PROVE  BondRecord'
  <2>1. /\ bondExitAvailableAt[sender] = 0 /\ UNCHANGED <<bondExitAvailableAt, now>>
        /\ providerBonds' = [providerBonds EXCEPT ![sender] = @ + value]
        /\ lastBondAt' = [lastBondAt EXCEPT ![sender] = now]
    BY <1>3, Zenon DEF depositBond, BondAccepted, clockVars
  <2> QED BY <1>1, <1>2, <2>1 DEF BondRecord, BondServesExitDelay
<1>4. ASSUME NEW sender \in Providers, requestBondExit(sender)
      PROVE  BondRecord'
  <2>1. /\ providerBonds[sender] # 0 /\ UNCHANGED <<providerBonds, lastBondAt, now>>
        /\ bondExitAvailableAt' = [bondExitAvailableAt EXCEPT ![sender] = now + bondExitDelay]
    BY <1>4, Zenon DEF requestBondExit, clockVars
  <2> QED BY <1>1, <1>2, <2>1 DEF BondRecord, BondServesExitDelay
<1>5. ASSUME NEW sender \in Providers, finalizeBondExit(sender)
      PROVE  BondRecord'
  <2>1. /\ UNCHANGED <<lastBondAt, now>>
        /\ providerBonds' = [providerBonds EXCEPT ![sender] = 0]
        /\ bondExitAvailableAt' = [bondExitAvailableAt EXCEPT ![sender] = 0]
    BY <1>5, Zenon DEF finalizeBondExit, clockVars
  <2> QED BY <1>1, <1>2, <2>1, Zenon DEF BondRecord, BondServesExitDelay
<1>6. ASSUME NEW first \in Receipts, NEW second \in Receipts, slashDoubleSign(first, second)
      PROVE  BondRecord'
  <2> DEFINE provider == first.receipt.provider
             amount == SlashAmount(provider)
  <2>1. provider \in Accounts
    BY MarketAssumption, Zenon DEF SignedReceiptType, ReceiptType
  <2>2. /\ UNCHANGED <<lastBondAt, now>>
        /\ providerBonds' = [providerBonds EXCEPT ![provider] = @ - amount]
        /\ bondExitAvailableAt' = [bondExitAvailableAt EXCEPT ![provider] =
                                       IF providerBonds[provider] = amount THEN 0 ELSE @]
    BY <1>6, Zenon DEF slashDoubleSign, clockVars
  <2>3. amount \in Nat
    BY <1>1, <2>1, Zenon DEF SlashAmount
  <2> HIDE DEF provider, amount
  <2> QED BY <1>1, <1>2, <2>1, <2>2, <2>3, SMTT(30) DEF BondRecord, BondServesExitDelay
<1>7. CASE Tick
  <2>1. now' = now + 1 /\ UNCHANGED bondVars
    BY <1>7, Zenon DEF Tick
  <2> QED BY <1>1, <1>2, <2>1 DEF BondRecord, BondServesExitDelay, bondVars
<1>8. CASE UNCHANGED <<bondVars, now>>
  BY <1>2, <1>8, Zenon DEF BondRecord, BondServesExitDelay, bondVars
<1> QED
  BY <1>3, <1>4, <1>5, <1>6, <1>7, <1>8, OnlyBondCalls, Zenon

(* A bond stays within reach of slashing for the whole exit delay after    *)
(* the last payment into it.                                               *)
THEOREM BondsServeTheDelay == Spec => []BondServesExitDelay
<1>1. Init => BondRecord
  BY DEF Init, BondRecord, BondServesExitDelay
<1>2. Conservation /\ BondRecord /\ [Next]_vars => BondRecord'
  BY BondNext, Zenon
<1>3. BondRecord => BondServesExitDelay
  BY Zenon DEF BondRecord
<1> QED
  BY <1>1, <1>2, <1>3, ConservationHolds, PTL DEF Spec

-----------------------------------------------------------------------------
(* Versions, settlements and sessions *)

(* publishOffer appends a version and leaves the earlier ones alone. *)
LEMMA OffersAppendOnly ==
    ASSUME Conservation, [Next]_vars, NEW p \in Accounts, NEW o \in OfferIds,
           NEW v \in DOMAIN offerVersions[p][o]
    PROVE  /\ v \in DOMAIN offerVersions'[p][o]
           /\ offerVersions'[p][o][v] = offerVersions[p][o][v]
<1>1. offerVersions \in [Accounts -> [OfferIds -> Seq([content : Contents, price : Prices])]]
  BY Zenon DEF Conservation, TypeOK, MiscTyped
<1>2. ASSUME NEW sender \in Providers, NEW offerId \in OfferIds, NEW content \in Contents,
             NEW price \in Prices, publishOffer(sender, offerId, content, price)
      PROVE  /\ v \in DOMAIN offerVersions'[p][o]
             /\ offerVersions'[p][o][v] = offerVersions[p][o][v]
  <2> DEFINE offer == [content |-> content, price |-> price]
             versions == offerVersions[sender][offerId]
  <2>1. sender \in Accounts
    BY MarketAssumption, Zenon
  <2>2. offerVersions' = [offerVersions EXCEPT ![sender][offerId] = Append(versions, offer)]
    BY <1>2, Zenon DEF publishOffer, WithNewVersion
  <2>3. versions \in Seq([content : Contents, price : Prices])
    BY <1>1, <2>1, Zenon
  <2>4. CASE p = sender /\ o = offerId
    <3>1. offerVersions'[p][o] = Append(versions, offer) /\ offerVersions[p][o] = versions
      BY <1>1, <2>1, <2>2, <2>4, Zenon
    <3>2. offer \in [content : Contents, price : Prices]
      OBVIOUS
    <3> HIDE DEF versions, offer
    <3>3. /\ DOMAIN versions = 1 .. Len(versions) /\ Len(versions) \in Nat
          /\ DOMAIN Append(versions, offer) = 1 .. Len(versions) + 1
          /\ \A i \in 1 .. Len(versions) : Append(versions, offer)[i] = versions[i]
      BY <2>3, <3>2
    <3>4. v \in DOMAIN versions
      BY <3>1, Zenon
    <3>5. v \in 1 .. Len(versions) /\ v \in 1 .. Len(versions) + 1
      BY <3>3, <3>4
    <3> QED BY <3>1, <3>3, <3>5, Zenon
  <2>5. CASE ~(p = sender /\ o = offerId)
    <3>1. offerVersions'[p][o] = offerVersions[p][o]
      BY <1>1, <2>1, <2>2, <2>5, Zenon
    <3> QED BY <3>1, Zenon
  <2> QED BY <2>4, <2>5, Zenon
<1> QED
  BY <1>2, OnlyPublishing, Zenon

(* Every step keeps the history: a fee change writes the version after the *)
(* one in force, and a settlement only joins the others.                   *)
LEMMA StepKeepsHistory == Conservation /\ [Next]_vars => KeepsHistory
<1> SUFFICES ASSUME Conservation, [Next]_vars PROVE KeepsHistory
  OBVIOUS
<1>1. /\ feeVersion \in 1 .. MaxFeeVersion /\ feeBpsByVersion \in [1 .. MaxFeeVersion -> Nat]
      /\ MaxFeeVersion \in Nat
  BY MarketAssumption, Zenon DEF Conservation, TypeOK, FeesTyped
<1>2. \A v \in 1 .. feeVersion : feeBpsByVersion'[v] = feeBpsByVersion[v]
  <2>1. CASE executeFeeChange
    <3>1. feeBpsByVersion' = [feeBpsByVersion EXCEPT ![feeVersion + 1] = pendingFeeBasisPoints]
      BY <2>1, Zenon DEF executeFeeChange, NextFeeVersion
    <3> QED BY <1>1, <3>1
  <2>2. CASE UNCHANGED feeBpsByVersion
    BY <2>2, Zenon
  <2> QED BY <2>1, <2>2, OnlyFeeChange, Zenon
<1>3. settlements \subseteq settlements'
  BY OnlySettlementRecords, Zenon DEF settleReceipt, SettleNext, Settle, receiptVars
<1> QED
  BY <1>2, <1>3, OffersAppendOnly, Zenon DEF KeepsHistory

(* A settlement only adds to what its session has spent. *)
LEMMA SettleKeepsSessions ==
    ASSUME Conservation, NEW signed \in Receipts, Settle(signed)
    PROVE  KeepsSessions
<1> DEFINE id == signed.receipt.sessionId
           charge == signed.receipt.totalCharge
<1>1. sessions \in [SessionIds -> SessionType] /\ id \in SessionIds /\ charge \in Nat
  BY MarketAssumption, Zenon
     DEF Conservation, TypeOK, SessionsTyped, SignedReceiptType, ReceiptType
<1>2. sessions' = [sessions EXCEPT ![id].spent = @ + charge] /\ ~sessions[id].finalized
  BY Zenon DEF Settle, Settleable
<1> HIDE DEF id, charge
<1> QED
  BY <1>1, <1>2 DEF KeepsSessions, SessionType

(* Every step keeps the terms of the sessions: only an unused identifier   *)
(* is opened, and a finalized session is refused by all calls.             *)
LEMMA StepKeepsSessions == Conservation /\ [Next]_vars => KeepsSessions
<1> SUFFICES ASSUME Conservation, [Next]_vars PROVE KeepsSessions
  OBVIOUS
<1>1. sessions \in [SessionIds -> SessionType] /\ now \in Nat
  BY Zenon DEF Conservation, TypeOK, SessionsTyped, MiscTyped
<1>2. ASSUME NEW sender \in Customers, NEW s \in SessionIds,
             NEW allowance \in Amounts, NEW expiresAt \in Expiries,
             openSession(sender, s, allowance, expiresAt)
      PROVE  KeepsSessions
  <2>1. sessions[s].customer = NoAddress
    BY <1>2, Zenon DEF openSession, ValidSession
  <2>2. \A x \in SessionIds : x # s => sessions'[x] = sessions[x]
    BY <1>1, <1>2, Zenon DEF openSession
  <2> QED BY <1>1, <2>1, <2>2 DEF KeepsSessions, SessionType
<1>3. ASSUME NEW sender \in Customers, NEW s \in SessionIds,
             requestSessionClose(sender, s) \/ finalizeSessionClose(sender, s)
      PROVE  KeepsSessions
  <2>1. ~sessions[s].finalized
    BY <1>3, Zenon DEF requestSessionClose, finalizeSessionClose
  <2>2. \/ sessions' = [sessions EXCEPT ![s].closeAvailableAt = now + SESSION_CLOSE_DELAY]
        \/ sessions' = [sessions EXCEPT ![s].finalized = TRUE]
    BY <1>3, Zenon DEF requestSessionClose, finalizeSessionClose
  <2> QED BY <1>1, <2>1, <2>2 DEF KeepsSessions, SessionType
<1>4. ASSUME NEW signed \in Receipts, settleReceipt(signed) PROVE KeepsSessions
  BY <1>4, SettleKeepsSessions, Zenon DEF settleReceipt
<1>5. CASE SettleNext
  <2>1. batch \in Seq(Receipts) /\ batch # <<>>
    BY <1>5, Zenon DEF Conservation, TypeOK, ReceiptsTyped, SettleNext
  <2>2. Head(batch) \in Receipts
    BY <2>1
  <2> QED BY <1>5, <2>2, SettleKeepsSessions, Zenon DEF SettleNext
<1>6. CASE UNCHANGED sessions
  BY <1>1, <1>6 DEF KeepsSessions, SessionType
<1> QED
  BY <1>2, <1>3, <1>4, <1>5, <1>6, OnlySessionCalls, Zenon

(* No call of the contract rewrites a version, a settlement or the terms   *)
(* of a session.                                                           *)
THEOREM RecordsStay == Spec => RecordsAreKept
<1>1. Conservation /\ [Next]_vars => [KeepsHistory /\ KeepsSessions]_vars
  BY StepKeepsHistory, StepKeepsSessions, Zenon
<1> QED
  BY <1>1, ConservationHolds, PTL DEF Spec, RecordsAreKept

-----------------------------------------------------------------------------
(* Prices and spending *)

(* A settlement is entered at the price of the version the receipt quotes, *)
(* and the entry's two amounts add up to the receipt's charge.             *)
LEMMA SettleEntry ==
    ASSUME Conservation, NEW signed \in Receipts, Settle(signed)
    PROVE  \E entry \in SettlementType :
               /\ entry.receipt = signed.receipt
               /\ entry.providerAmount + entry.feeAmount = signed.receipt.totalCharge
               /\ settlements' = settlements \cup {entry}
<1> DEFINE receipt == signed.receipt
           fee == FeeAmount(receipt)
           share == receipt.totalCharge - fee
           entry == [receipt |-> receipt, providerAmount |-> share, feeAmount |-> fee]
<1>1. /\ receipt \in ReceiptType /\ fee \in Nat /\ share \in Nat
      /\ receipt.totalCharge \in Nat
  BY SettledAmounts, SettledRate, Zenon DEF Settle
<1>2. share + fee = receipt.totalCharge
  <2> HIDE DEF receipt, fee
  <2> QED BY <1>1
<1>3. settlements' = settlements \cup {entry}
  BY Zenon DEF Settle
<1>4. /\ entry \in SettlementType /\ entry.receipt = receipt
      /\ entry.providerAmount + entry.feeAmount = receipt.totalCharge
  <2> HIDE DEF receipt, share, fee
  <2> QED BY <1>1, <1>2, Zenon DEF SettlementType
<1> HIDE DEF entry
<1> QED
  BY <1>3, <1>4, Zenon

(* Settling keeps every settlement at a published price. *)
LEMMA SettleAtPrice ==
    ASSUME Conservation, SettledAtPublishedPrice, NEW signed \in Receipts, Settle(signed)
    PROVE  SettledAtPublishedPrice'
<1> DEFINE receipt == signed.receipt
           versions == offerVersions[receipt.provider][receipt.offerId]
<1>1. PICK entry \in SettlementType :
          /\ entry.receipt = signed.receipt
          /\ entry.providerAmount + entry.feeAmount = signed.receipt.totalCharge
          /\ settlements' = settlements \cup {entry}
  BY SettleEntry, Zenon
<1>2. /\ receipt.priceVersion \in DOMAIN versions
      /\ versions[receipt.priceVersion].content = receipt.content
      /\ ContractCharge(receipt.usage, versions[receipt.priceVersion].price)
           = receipt.totalCharge
  BY Zenon DEF Settle, Settleable, OfferOf, ReceiptCharge
<1>3. UNCHANGED offerVersions
  BY Zenon DEF Settle, miscVars
<1> HIDE DEF receipt
<1>4. \A x \in settlements' : x \in settlements \/ x = entry
  BY <1>1, Zenon
<1>5. entry.receipt = receipt
  BY <1>1, Zenon DEF receipt
<1>6. entry.providerAmount + entry.feeAmount = receipt.totalCharge
  BY <1>1, Zenon DEF receipt
<1> QED
  BY <1>2, <1>3, <1>4, <1>5, <1>6, Zenon DEF SettledAtPublishedPrice

(* Publishing further versions leaves the settlements' prices on record.   *)
LEMMA PriceNext ==
    Conservation /\ SettledAtPublishedPrice /\ [Next]_vars => SettledAtPublishedPrice'
<1> SUFFICES ASSUME Conservation, SettledAtPublishedPrice, [Next]_vars
             PROVE  SettledAtPublishedPrice'
  OBVIOUS
<1>1. ASSUME NEW signed \in Receipts, settleReceipt(signed) PROVE SettledAtPublishedPrice'
  BY <1>1, SettleAtPrice, Zenon DEF settleReceipt
<1>2. CASE SettleNext
  <2>1. batch \in Seq(Receipts) /\ batch # <<>>
    BY <1>2, Zenon DEF Conservation, TypeOK, ReceiptsTyped, SettleNext
  <2>2. Head(batch) \in Receipts
    BY <2>1, SMTT(30)
  <2> QED BY <1>2, <2>2, SettleAtPrice, Zenon DEF SettleNext
<1>3. CASE UNCHANGED receiptVars
  <2> SUFFICES ASSUME NEW x \in settlements
               PROVE  LET versions == offerVersions'[x.receipt.provider][x.receipt.offerId]
                      IN  /\ x.receipt.priceVersion \in DOMAIN versions
                          /\ versions[x.receipt.priceVersion].content = x.receipt.content
                          /\ ContractCharge(x.receipt.usage,
                                            versions[x.receipt.priceVersion].price)
                               = x.providerAmount + x.feeAmount
    BY <1>3, Zenon DEF receiptVars, SettledAtPublishedPrice
  <2> DEFINE old == offerVersions[x.receipt.provider][x.receipt.offerId]
             new == offerVersions'[x.receipt.provider][x.receipt.offerId]
             v == x.receipt.priceVersion
  <2>1. x.receipt.provider \in Accounts /\ x.receipt.offerId \in OfferIds
    BY Zenon DEF Conservation, TypeOK, ReceiptsTyped, SettlementType, ReceiptType
  <2>2. /\ v \in DOMAIN old /\ old[v].content = x.receipt.content
        /\ ContractCharge(x.receipt.usage, old[v].price) = x.providerAmount + x.feeAmount
    BY Zenon DEF SettledAtPublishedPrice
  <2>3. v \in DOMAIN new /\ new[v] = old[v]
    BY <2>1, <2>2, OffersAppendOnly, Zenon
  <2> QED BY <2>2, <2>3, Zenon
<1> QED
  BY <1>1, <1>2, <1>3, OnlySettlementRecords, Zenon

(* Every settled receipt was priced by a version its provider published,   *)
(* and that version still says so.                                         *)
THEOREM PricesWerePublished == Spec => []SettledAtPublishedPrice
<1>1. Init => SettledAtPublishedPrice
  BY Zenon DEF Init, SettledAtPublishedPrice
<1>2. Conservation /\ SettledAtPublishedPrice /\ [Next]_vars => SettledAtPublishedPrice'
  BY PriceNext, Zenon
<1> QED
  BY <1>1, <1>2, ConservationHolds, PTL DEF Spec

(* What a session spent, counted over finitely many settlements. *)
SpendingRecord == IsFiniteSet(settlements) /\ SessionsPayOnlyForReceipts

(* The charges of a session's settlements are amounts. *)
LEMMA ChargesTyped ==
    ASSUME Conservation, SpendingRecord, NEW s
    PROVE  /\ IsFiniteSet({y \in settlements : y.receipt.sessionId = s})
           /\ ChargesOf(s) \in [{y \in settlements : y.receipt.sessionId = s} -> Nat]
<1>1. IsFiniteSet({y \in settlements : y.receipt.sessionId = s})
  BY FS_Subset, Zenon DEF SpendingRecord
<1>2. \A x \in settlements : x.providerAmount + x.feeAmount \in Nat
  BY DEF Conservation, TypeOK, ReceiptsTyped, SettlementType
<1> QED
  BY <1>1, <1>2, Zenon DEF ChargesOf

(* Settling adds the charge to the spending of the session and, because    *)
(* its request had no settlement before, to the sum over the settlements.  *)
LEMMA SettleSpends ==
    ASSUME Conservation, SettlementRecord, SpendingRecord,
           NEW signed \in Receipts, Settle(signed)
    PROVE  SpendingRecord'
<1> DEFINE receipt == signed.receipt
           id == receipt.sessionId
           charge == receipt.totalCharge
           Of(s) == {y \in settlements : y.receipt.sessionId = s}
<1>1. PICK entry \in SettlementType :
          /\ entry.receipt = signed.receipt
          /\ entry.providerAmount + entry.feeAmount = signed.receipt.totalCharge
          /\ settlements' = settlements \cup {entry}
  BY SettleEntry, Zenon
<1>2. /\ sessions' = [sessions EXCEPT ![id].spent = @ + charge]
      /\ sessions[id].spent + charge <= sessions[id].allowance
      /\ receipt.requestId \notin settledRequests
  BY Zenon DEF Settle, Settleable, AllowanceCovers, Fresh
<1>3. sessions \in [SessionIds -> SessionType] /\ id \in SessionIds /\ charge \in Nat
  BY MarketAssumption, Zenon
     DEF Conservation, TypeOK, SessionsTyped, SignedReceiptType, ReceiptType
<1>4. /\ entry.receipt = receipt /\ entry.receipt.sessionId = id
      /\ entry.providerAmount + entry.feeAmount = charge
  BY <1>1, Zenon
<1>5. entry \notin settlements
  BY <1>2, <1>4, Zenon DEF SettlementRecord, SettlementsMarked
<1>6. IsFiniteSet(settlements')
  BY <1>1, FS_AddElement, Zenon DEF SpendingRecord
<1> HIDE DEF receipt, id, charge
<1>7. ASSUME NEW s \in SessionIds
      PROVE  sessions'[s].spent <= sessions'[s].allowance
             /\ sessions'[s].spent = Sum(ChargesOf(s)')
  <2>0. /\ sessions[s].spent <= sessions[s].allowance
        /\ sessions[s].spent = Sum(ChargesOf(s))
    BY Zenon DEF SpendingRecord, SessionsPayOnlyForReceipts
  <2>1. IsFiniteSet(Of(s)) /\ ChargesOf(s) \in [Of(s) -> Nat]
    BY ChargesTyped, Zenon
  <2>2. CASE s = id
    <3>1. {y \in settlements' : y.receipt.sessionId = s} = Of(s) \cup {entry}
      BY <1>1, <1>4, <2>2, Zenon
    <3>2. ChargesOf(s)' = [x \in Of(s) \cup {entry} |-> x.providerAmount + x.feeAmount]
      BY <3>1, Zenon DEF ChargesOf
    <3>3. ChargesOf(s) = [x \in Of(s) |-> x.providerAmount + x.feeAmount]
      BY Zenon DEF ChargesOf
    <3>4. entry \notin Of(s)
      BY <1>5, Zenon
    <3> HIDE DEF Of
    <3> DEFINE f == [x \in Of(s) \cup {entry} |-> x.providerAmount + x.feeAmount]
    <3>5. /\ f \in [Of(s) \cup {entry} -> Nat] /\ f[entry] = charge
          /\ [b \in Of(s) |-> f[b]] = ChargesOf(s)
      BY <1>3, <1>4, <2>1, <3>3, Zenon
    <3> HIDE DEF f
    <3>6. Sum(f) = Sum([b \in Of(s) |-> f[b]]) + f[entry]
      BY <2>1, <3>4, <3>5, SumOneMore, Zenon
    <3>7. Sum(ChargesOf(s)') = Sum(ChargesOf(s)) + charge
      BY <3>2, <3>5, <3>6, Zenon DEF f
    <3>8. /\ sessions'[s].spent = sessions[s].spent + charge
          /\ sessions'[s].allowance = sessions[s].allowance
      BY <1>2, <1>3, <2>2, Zenon DEF SessionType
    <3> QED BY <1>2, <2>0, <2>2, <3>7, <3>8, Zenon
  <2>3. CASE s # id
    <3>1. {y \in settlements' : y.receipt.sessionId = s} = Of(s)
      BY <1>1, <1>4, <2>3, Zenon
    <3>2. ChargesOf(s)' = ChargesOf(s)
      BY <3>1, Zenon DEF ChargesOf
    <3>3. sessions'[s] = sessions[s]
      BY <1>2, <1>3, <2>3, Zenon
    <3> QED BY <2>0, <3>2, <3>3, Zenon
  <2> QED BY <2>2, <2>3, Zenon
<1> QED
  BY <1>6, <1>7, Zenon DEF SpendingRecord, SessionsPayOnlyForReceipts

(* A call that is no settlement leaves the spending of every session and   *)
(* its settlements as they are; a session opened anew has neither.         *)
LEMMA QuietSpending ==
    ASSUME Conservation, SpendingRecord, UNCHANGED receiptVars,
           \A s \in SessionIds :
               \/ /\ sessions'[s].spent = sessions[s].spent
                  /\ sessions'[s].allowance = sessions[s].allowance
               \/ /\ sessions[s].customer = NoAddress
                  /\ sessions'[s].spent = 0 /\ sessions'[s].allowance \in Nat
    PROVE  SpendingRecord'
<1>1. settlements' = settlements
  BY Zenon DEF receiptVars
<1>2. \A s : ChargesOf(s)' = ChargesOf(s)
  BY <1>1, Zenon DEF ChargesOf
<1>3. ASSUME NEW s \in SessionIds
      PROVE  /\ sessions'[s].spent <= sessions'[s].allowance
             /\ sessions'[s].spent = Sum(ChargesOf(s)')
  <2>1. /\ sessions[s].spent <= sessions[s].allowance
        /\ sessions[s].spent = Sum(ChargesOf(s))
    BY Zenon DEF SpendingRecord, SessionsPayOnlyForReceipts
  <2>2. sessions[s].customer = NoAddress => sessions[s].spent = 0
    BY <2>1 DEF Conservation, SessionsWithinAllowance, TypeOK, SessionsTyped, SessionType
  <2> QED BY <1>2, <2>1, <2>2, SMTT(30)
<1> QED
  BY <1>1, <1>3, Zenon DEF SpendingRecord, SessionsPayOnlyForReceipts

(* Every step keeps the record of the spending. *)
LEMMA SpendingNext ==
    Conservation /\ SettlementRecord /\ SpendingRecord /\ [Next]_vars => SpendingRecord'
<1> SUFFICES ASSUME Conservation, SettlementRecord, SpendingRecord, [Next]_vars
             PROVE  SpendingRecord'
  OBVIOUS
<1>1. ASSUME NEW signed \in Receipts, settleReceipt(signed) PROVE SpendingRecord'
  BY <1>1, SettleSpends, Zenon DEF settleReceipt
<1>2. CASE SettleNext
  <2>1. batch \in Seq(Receipts) /\ batch # <<>>
    BY <1>2, Zenon DEF Conservation, TypeOK, ReceiptsTyped, SettleNext
  <2>2. Head(batch) \in Receipts
    BY <2>1
  <2> QED BY <1>2, <2>2, SettleSpends, Zenon DEF SettleNext
<1>3. sessions \in [SessionIds -> SessionType]
  BY Zenon DEF Conservation, TypeOK, SessionsTyped
<1>4. ASSUME NEW sender \in Customers, NEW s \in SessionIds,
             NEW allowance \in Amounts, NEW expiresAt \in Expiries,
             openSession(sender, s, allowance, expiresAt)
      PROVE  SpendingRecord'
  <2>1. sessions[s].customer = NoAddress /\ UNCHANGED receiptVars /\ allowance \in Nat
    BY <1>4, MarketAssumption, Zenon DEF openSession, ValidSession
  <2>2. /\ sessions'[s].spent = 0 /\ sessions'[s].allowance = allowance
        /\ \A x \in SessionIds : x # s => sessions'[x] = sessions[x]
    BY <1>3, <1>4, Zenon DEF openSession
  <2> QED BY <2>1, <2>2, QuietSpending, Zenon
<1>5. ASSUME NEW sender \in Customers, NEW s \in SessionIds,
             requestSessionClose(sender, s) \/ finalizeSessionClose(sender, s)
      PROVE  SpendingRecord'
  <2>1. UNCHANGED receiptVars
    BY <1>5, Zenon DEF requestSessionClose, finalizeSessionClose
  <2>2. \/ sessions' = [sessions EXCEPT ![s].closeAvailableAt = now + SESSION_CLOSE_DELAY]
        \/ sessions' = [sessions EXCEPT ![s].finalized = TRUE]
    BY <1>5, Zenon DEF requestSessionClose, finalizeSessionClose
  <2>3. \A x \in SessionIds : /\ sessions'[x].spent = sessions[x].spent
                              /\ sessions'[x].allowance = sessions[x].allowance
    BY <1>3, <2>2, SMTT(30) DEF SessionType
  <2> QED BY <2>1, <2>3, QuietSpending, Zenon
<1>6. CASE UNCHANGED sessions /\ UNCHANGED receiptVars
  BY <1>6, QuietSpending, Zenon
<1> QED
  BY <1>1, <1>2, <1>4, <1>5, <1>6, OnlySessionCalls, OnlySettlementRecords, Zenon

(* A session pays exactly for its settled receipts, within its allowance. *)
THEOREM SessionsPayForReceipts == Spec => []SessionsPayOnlyForReceipts
<1>1. Init => SpendingRecord
  <2> SUFFICES ASSUME Init PROVE SpendingRecord
    OBVIOUS
  <2>1. settlements = {} /\ sessions = [s \in SessionIds |-> NoSession]
    BY Zenon DEF Init
  <2>2. \A s : ChargesOf(s) = [x \in {} |-> 0]
    BY <2>1, Zenon DEF ChargesOf
  <2>3. Sum([x \in {} |-> 0]) = 0
    BY SumZero, Zenon
  <2> QED
    BY <2>1, <2>2, <2>3, FS_EmptySet DEF SpendingRecord, SessionsPayOnlyForReceipts, NoSession
<1>2. Conservation /\ SettlementRecord /\ SpendingRecord /\ [Next]_vars => SpendingRecord'
  BY SpendingNext, Zenon
<1>3. SpendingRecord => SessionsPayOnlyForReceipts
  BY Zenon DEF SpendingRecord
<1> QED
  BY <1>1, <1>2, <1>3, ConservationHolds, RecordHolds, PTL DEF Spec

-----------------------------------------------------------------------------
(* Batches *)

(* The positions of a batch that charge a session, and what they charge.   *)
Positions(b, s) == {j \in DOMAIN b : b[j].receipt.sessionId = s}
ChargesAt(b, s) == [i \in Positions(b, s) |-> b[i].receipt.totalCharge]

(* A batch of receipts has finitely many positions, each with an amount.   *)
LEMMA ChargesAtTyped ==
    ASSUME NEW b \in Seq(Receipts), NEW s
    PROVE  /\ IsFiniteSet(Positions(b, s))
           /\ ChargesAt(b, s) \in [Positions(b, s) -> Nat]
<1>1. DOMAIN b = 1 .. Len(b) /\ Len(b) \in Nat
  OBVIOUS
<1>2. IsFiniteSet(1 .. Len(b))
  BY <1>1, FS_Interval
<1>3. Positions(b, s) \subseteq 1 .. Len(b)
  BY <1>1, Zenon DEF Positions
<1>4. \A i \in DOMAIN b : b[i].receipt.totalCharge \in Nat
  <2>1. \A r \in Receipts : r.receipt.totalCharge \in Nat
    BY MarketAssumption, Zenon DEF SignedReceiptType, ReceiptType
  <2>2. \A i \in DOMAIN b : b[i] \in Receipts
    OBVIOUS
  <2> QED BY <2>1, <2>2, Zenon
<1> QED
  BY <1>2, <1>3, <1>4, FS_Subset, Zenon DEF ChargesAt, Positions

(* The charges of a batch are those of its tail and, for the session of    *)
(* its first receipt, that receipt's charge.                               *)
LEMMA TailCharges ==
    ASSUME NEW b \in Seq(Receipts), b # <<>>, NEW s
    PROVE  Sum(ChargesAt(b, s)) = Sum(ChargesAt(Tail(b), s))
               + (IF b[1].receipt.sessionId = s THEN b[1].receipt.totalCharge ELSE 0)
<1> DEFINE S == Positions(Tail(b), s)
           R == Positions(b, s) \ {1}
           f == ChargesAt(Tail(b), s)
           g == [i \in R |-> b[i].receipt.totalCharge]
           h == [i \in S |-> i + 1]
<1>1. /\ Tail(b) \in Seq(Receipts) /\ Len(b) \in Nat /\ Len(b) >= 1
      /\ DOMAIN b = 1 .. Len(b) /\ DOMAIN Tail(b) = 1 .. Len(b) - 1
      /\ \A i \in 1 .. Len(b) - 1 : Tail(b)[i] = b[i + 1]
  OBVIOUS
<1>2. IsFiniteSet(S) /\ f \in [S -> Nat]
  BY <1>1, ChargesAtTyped, Zenon
<1>3. IsFiniteSet(Positions(b, s)) /\ ChargesAt(b, s) \in [Positions(b, s) -> Nat]
  BY ChargesAtTyped, Zenon
<1>4. g \in [R -> Nat]
  BY <1>3, Zenon DEF ChargesAt
<1>5. /\ \A i \in S : i \in 1 .. Len(b) - 1 /\ b[i + 1].receipt.sessionId = s
      /\ \A j \in R : j \in 2 .. Len(b) /\ b[j].receipt.sessionId = s
  BY <1>1 DEF Positions
<1>6. \A i \in S : i + 1 \in R
  BY <1>1, <1>5, SMTT(30) DEF Positions
<1>7. \A j \in R : j - 1 \in S
  BY <1>1, <1>5 DEF Positions
<1>8. h \in Bijection(S, R)
  <2>1. h \in [S -> R] /\ \A a, c \in S : h[a] = h[c] => a = c
    BY <1>5, <1>6
  <2>2. \A t \in R : \E a \in S : h[a] = t
    <3> TAKE t \in R
    <3>1. t - 1 \in S /\ t \in Int
      BY <1>5, <1>7
    <3>2. h[t - 1] = t
      BY <3>1, SMTT(30)
    <3> QED BY <3>1, <3>2, Zenon
  <2> HIDE DEF h, S, R
  <2> QED BY <2>1, <2>2, Fun_IsBij, Zenon
<1>9. \A a \in S : g[h[a]] = f[a]
  BY <1>1, <1>5, <1>6, Zenon DEF ChargesAt
<1>10. Sum(g) = Sum(f)
  <2> HIDE DEF f, g, h, S, R
  <2> QED BY <1>2, <1>4, <1>8, <1>9, SumRenamed, SMTT(30)
<1>11. Sum(f) \in Nat
  <2> HIDE DEF f, S
  <2> QED BY <1>2, SumType, Zenon
<1>12. CASE b[1].receipt.sessionId = s
  <2>1. 1 \in Positions(b, s)
    BY <1>1, <1>12 DEF Positions
  <2>2. ChargesAt(b, s)[1] = b[1].receipt.totalCharge
    BY <2>1, Zenon DEF ChargesAt
  <2>3. [i \in R |-> ChargesAt(b, s)[i]] = g
    BY Zenon DEF ChargesAt
  <2>4. Sum(ChargesAt(b, s)) = Sum([i \in R |-> ChargesAt(b, s)[i]]) + ChargesAt(b, s)[1]
    BY <1>3, <2>1, SumSplit, Zenon
  <2> QED BY <1>10, <1>12, <2>2, <2>3, <2>4, Zenon
<1>13. CASE b[1].receipt.sessionId # s
  <2>1. R = Positions(b, s)
    BY <1>13, Zenon DEF Positions
  <2>2. ChargesAt(b, s) = g
    BY <2>1, Zenon DEF ChargesAt
  <2> HIDE DEF f, g
  <2> QED BY <1>10, <1>11, <1>13, <2>2 DEF f
<1> QED
  BY <1>12, <1>13, Zenon

(* No receipts fit every session. *)
LEMMA EmptyBatch == Conservation /\ batch = <<>> => BatchSettles(batch)
<1> SUFFICES ASSUME Conservation, batch = <<>> PROVE BatchSettles(batch)
  OBVIOUS
<1>1. DOMAIN batch = {}
  OBVIOUS
<1>2. ASSUME NEW s \in SessionIds
      PROVE  sessions[s].spent + Sum(ChargesAt(batch, s)) <= sessions[s].allowance
  <2>1. ChargesAt(batch, s) = [i \in {} |-> 0]
    BY <1>1, Zenon DEF ChargesAt, Positions
  <2>2. Sum([i \in {} |-> 0]) = 0
    BY SumZero, Zenon
  <2>3. /\ sessions[s].spent \in Nat /\ sessions[s].spent <= sessions[s].allowance
    BY Zenon DEF Conservation, TypeOK, SessionsTyped, SessionType, SessionsWithinAllowance
  <2> QED BY <2>1, <2>2, <2>3
<1>3. BatchFits(batch)
  BY <1>2, Zenon DEF BatchFits, ChargesAt, Positions
<1> QED
  BY <1>1, <1>3, Zenon DEF BatchSettles

(* Settling one receipt leaves another one good: a receipt for another     *)
(* request and with another nonce that its session can still pay.          *)
LEMMA StillSettleable ==
    ASSUME Conservation, NEW first \in Receipts, Settle(first),
           NEW other \in Receipts, Settleable(other),
           other.receipt.requestId # first.receipt.requestId,
           \/ other.receipt.provider # first.receipt.provider
           \/ other.receipt.nonce # first.receipt.nonce,
           sessions'[other.receipt.sessionId].spent + other.receipt.totalCharge
               <= sessions'[other.receipt.sessionId].allowance
    PROVE  Settleable(other)'
<1> DEFINE id == first.receipt.sessionId
           receipt == other.receipt
           session == sessions[receipt.sessionId]
<1>1. /\ sessions \in [SessionIds -> SessionType] /\ id \in SessionIds
      /\ receipt.sessionId \in SessionIds
  BY MarketAssumption, Zenon
     DEF Conservation, TypeOK, SessionsTyped, SignedReceiptType, ReceiptType
<1>2. /\ sessions' = [sessions EXCEPT ![id].spent = @ + first.receipt.totalCharge]
      /\ settledRequests' = settledRequests \cup {first.receipt.requestId}
      /\ usedNonces' = usedNonces \cup {<<first.receipt.provider, first.receipt.nonce>>}
      /\ UNCHANGED <<feeBpsByVersion, offerVersions, providerSigners, now>>
  BY Zenon DEF Settle, feeVars, miscVars, clockVars
<1>3. /\ sessions'[receipt.sessionId].customer = session.customer
      /\ sessions'[receipt.sessionId].finalized = session.finalized
      /\ sessions'[receipt.sessionId].expiresAt = session.expiresAt
  BY <1>1, <1>2, Zenon DEF SessionType
<1>4. Fresh(receipt)'
  BY <1>2, Zenon DEF Settleable, Fresh
<1>5. /\ FeeBpsAt(receipt.feeVersion)' = FeeBpsAt(receipt.feeVersion)
      /\ OfferOf(receipt)' = OfferOf(receipt)
      /\ ReceiptCharge(receipt)' = ReceiptCharge(receipt)
      /\ isProviderSigner(receipt.provider, other.providerSignature)'
           = isProviderSigner(receipt.provider, other.providerSignature)
  BY <1>2, Zenon DEF FeeBpsAt, OfferOf, ReceiptCharge, isProviderSigner
<1>6. AllowanceCovers(sessions[receipt.sessionId], receipt.totalCharge)'
  BY Zenon DEF AllowanceCovers
<1> QED
  BY <1>2, <1>3, <1>4, <1>5, <1>6, Zenon DEF Settleable

(* An iteration leaves a batch that settles as a whole: what it takes from *)
(* the session is exactly what the rest of the batch no longer needs.      *)
LEMMA IterationFits ==
    ASSUME Conservation, BatchSettles(batch), SettleNext
    PROVE  BatchFits(batch)'
<1>1. /\ batch \in Seq(Receipts) /\ batch # <<>> /\ batch[1] \in Receipts
      /\ Head(batch) = batch[1] /\ Tail(batch) \in Seq(Receipts)
  BY SMTT(30) DEF Conservation, TypeOK, ReceiptsTyped, SettleNext
<1> DEFINE id == batch[1].receipt.sessionId
           charge == batch[1].receipt.totalCharge
<1>2. sessions \in [SessionIds -> SessionType] /\ id \in SessionIds /\ charge \in Nat
  BY <1>1, MarketAssumption, Zenon
     DEF Conservation, TypeOK, SessionsTyped, SignedReceiptType, ReceiptType
<1>3. sessions' = [sessions EXCEPT ![id].spent = @ + charge] /\ batch' = Tail(batch)
  BY <1>1, Zenon DEF SettleNext, Settle
<1> SUFFICES ASSUME NEW s \in SessionIds
             PROVE  sessions'[s].spent + Sum(ChargesAt(Tail(batch), s))
                        <= sessions'[s].allowance
  BY <1>3, Zenon DEF BatchFits, ChargesAt, Positions
<1> DEFINE paid == IF id = s THEN charge ELSE 0
<1>4. /\ sessions'[s].spent = sessions[s].spent + paid
      /\ sessions'[s].allowance = sessions[s].allowance
      /\ sessions[s].spent \in Nat /\ sessions[s].allowance \in Nat
  BY <1>2, <1>3, SMTT(30) DEF SessionType
<1>5. Sum(ChargesAt(batch, s)) = Sum(ChargesAt(Tail(batch), s)) + paid
  BY <1>1, TailCharges, Zenon
<1>6. sessions[s].spent + Sum(ChargesAt(batch, s)) <= sessions[s].allowance
  BY Zenon DEF BatchSettles, BatchFits, ChargesAt, Positions
<1>7. Sum(ChargesAt(Tail(batch), s)) \in Nat
  BY <1>1, ChargesAtTyped, SumType, Zenon
<1>8. paid \in Nat
  BY <1>2, Zenon
<1> HIDE DEF paid
<1> QED
  BY <1>4, <1>5, <1>6, <1>7, <1>8, SMTT(30)

(* So every receipt left in the batch is still good. *)
LEMMA IterationSettles ==
    ASSUME Conservation, BatchSettles(batch), SettleNext
    PROVE  BatchSettles(batch)'
<1>1. /\ batch \in Seq(Receipts) /\ batch # <<>> /\ batch[1] \in Receipts
      /\ Head(batch) = batch[1] /\ Tail(batch) \in Seq(Receipts)
      /\ batch' = Tail(batch) /\ Settle(batch[1])
  BY DEF Conservation, TypeOK, ReceiptsTyped, SettleNext
<1>2. /\ DOMAIN batch = 1 .. Len(batch) /\ Len(batch) \in Nat
      /\ DOMAIN batch' = 1 .. Len(batch) - 1
      /\ \A i \in 1 .. Len(batch) - 1 : batch'[i] = batch[i + 1] /\ batch'[i] \in Receipts
  BY <1>1
<1>3. BatchFits(batch)'
  BY IterationFits, Zenon
<1>4. ASSUME NEW other \in Receipts, NEW i \in DOMAIN batch', batch'[i] = other
      PROVE  Settleable(other)'
  <2> DEFINE s == other.receipt.sessionId
  <2>1. /\ i + 1 \in DOMAIN batch /\ 1 \in DOMAIN batch /\ i + 1 # 1
        /\ batch'[i] = other /\ batch[i + 1] = other
    BY <1>1, <1>2, <1>4, SMTT(30)
  <2>2. /\ Settleable(other) /\ other.receipt.requestId # batch[1].receipt.requestId
        /\ \/ other.receipt.provider # batch[1].receipt.provider
           \/ other.receipt.nonce # batch[1].receipt.nonce
    BY <2>1, Zenon DEF BatchSettles
  <2>3. s \in SessionIds /\ other.receipt.totalCharge \in Nat
    BY <2>1, MarketAssumption, Zenon DEF SignedReceiptType, ReceiptType
  <2>4. sessions'[s].spent + Sum(ChargesAt(batch', s)) <= sessions'[s].allowance
    BY <1>3, <2>3, Zenon DEF BatchFits, ChargesAt, Positions
  <2>5. i \in Positions(batch', s) /\ ChargesAt(batch', s)[i] = other.receipt.totalCharge
    BY <2>1, Zenon DEF Positions, ChargesAt
  <2>6. /\ IsFiniteSet(Positions(batch', s))
        /\ ChargesAt(batch', s) \in [Positions(batch', s) -> Nat]
    BY <1>1, ChargesAtTyped, Zenon
  <2>7. /\ other.receipt.totalCharge <= Sum(ChargesAt(batch', s))
        /\ Sum(ChargesAt(batch', s)) \in Nat
    BY <2>5, <2>6, SumBoundsValue, SumType, Zenon
  <2>8. sessions'[s].spent \in Nat /\ sessions'[s].allowance \in Nat
    <3>1. Conservation'
      BY SettleNextStep, Zenon
    <3>2. sessions' \in [SessionIds -> SessionType]
      BY <3>1, Zenon DEF Conservation, TypeOK, SessionsTyped
    <3> QED BY <2>3, <3>2, Zenon DEF SessionType
  <2>9. sessions'[s].spent + other.receipt.totalCharge <= sessions'[s].allowance
    BY <2>3, <2>4, <2>7, <2>8, SMTT(30)
  <2>10. PICK first \in Receipts : first = batch[1]
    BY <1>1, Zenon
  <2> QED
    BY <1>1, <2>2, <2>9, <2>10, StillSettleable, Zenon
<1>5. \A i \in DOMAIN batch' : Settleable(batch[i])'
  <2> SUFFICES ASSUME NEW i \in DOMAIN batch' PROVE Settleable(batch[i])'
    OBVIOUS
  <2>1. PICK other \in Receipts : other = batch'[i]
    BY <1>2, Zenon
  <2>2. Settleable(other)'
    BY <1>4, <2>1, Zenon
  <2> QED BY <2>1, <2>2, Zenon
<1>6. \A i, j \in DOMAIN batch' : i # j =>
          /\ batch'[i].receipt.requestId # batch'[j].receipt.requestId
          /\ \/ batch'[i].receipt.provider # batch'[j].receipt.provider
             \/ batch'[i].receipt.nonce # batch'[j].receipt.nonce
  <2> SUFFICES ASSUME NEW i \in DOMAIN batch', NEW j \in DOMAIN batch', i # j
               PROVE  /\ batch'[i].receipt.requestId # batch'[j].receipt.requestId
                      /\ \/ batch'[i].receipt.provider # batch'[j].receipt.provider
                         \/ batch'[i].receipt.nonce # batch'[j].receipt.nonce
    OBVIOUS
  <2>1. /\ i + 1 \in DOMAIN batch /\ j + 1 \in DOMAIN batch /\ i + 1 # j + 1
        /\ batch'[i] = batch[i + 1] /\ batch'[j] = batch[j + 1]
    BY <1>2, SMTT(30)
  <2> QED BY <2>1, Zenon DEF BatchSettles
<1> QED
  BY <1>3, <1>5, <1>6, Zenon DEF BatchSettles

(* A batch stays good while nothing its checks read changes. *)
LEMMA SameBatch ==
    ASSUME NEW b, BatchSettles(b),
           UNCHANGED <<sessions, settledRequests, usedNonces, feeBpsByVersion,
                       offerVersions, providerSigners, now>>
    PROVE  BatchSettles(b)'
<1>1. BatchFits(b)'
  BY Zenon DEF BatchSettles, BatchFits
<1>2. \A signed : Settleable(signed) => Settleable(signed)'
  BY Zenon DEF Settleable, Fresh, FeeBpsAt, OfferOf, ReceiptCharge, AllowanceCovers,
     isProviderSigner
<1> QED
  BY <1>1, <1>2, Zenon DEF BatchSettles

(* A batch is accepted only when it settles as a whole, and nothing else   *)
(* runs before its last iteration.                                         *)
LEMMA BatchNext ==
    Conservation /\ Conservation' /\ BatchSettles(batch) /\ [Next]_vars
        => BatchSettles(batch)'
<1> SUFFICES ASSUME Conservation, Conservation', BatchSettles(batch), [Next]_vars
             PROVE  BatchSettles(batch)'
  OBVIOUS
<1>1. CASE SettleNext
  BY <1>1, IterationSettles, Zenon
<1>2. ASSUME NEW b \in Batches({s \in Receipts : Settleable(s)}), settleReceipts(b)
      PROVE  BatchSettles(batch)'
  <2>1. BatchSettles(b) /\ batch' = b
    BY <1>2, Zenon DEF settleReceipts
  <2>2. UNCHANGED <<sessions, settledRequests, usedNonces, feeBpsByVersion, offerVersions,
                    providerSigners, now>>
    BY <1>2, Zenon DEF settleReceipts, sessionVars, receiptVars, feeVars, miscVars, clockVars
  <2> QED BY <2>1, <2>2, SameBatch, Zenon
<1>3. CASE batch' = <<>>
  <2>1. (Conservation /\ batch = <<>> => BatchSettles(batch))'
    BY EmptyBatch, PTL
  <2> QED BY <1>3, <2>1, Zenon
<1>4. \/ SettleNext
      \/ \E b \in Batches({s \in Receipts : Settleable(s)}) : settleReceipts(b)
      \/ batch' = <<>>
      \/ UNCHANGED vars
  <2>1. CASE CustomerStep
    BY <2>1, Zenon DEF CustomerStep, deposit, requestWithdrawal, openSession,
       requestSessionClose, finalizeSessionClose, Idle
  <2>2. CASE ProviderStep
    BY <2>2, Zenon DEF ProviderStep, depositBond, setProviderSigner, requestBondExit,
       finalizeBondExit, publishOffer, Idle
  <2>3. CASE \E sender \in Accounts : claim(sender)
    BY <2>3, Zenon DEF claim, Idle
  <2>4. CASE SettlementStep
    BY <2>4, Zenon DEF SettlementStep, settleReceipt, slashDoubleSign, Idle
  <2>5. CASE OwnerStep \/ executeFeeChange \/ Tick
    BY <2>5, Zenon DEF OwnerStep, proposeFee, pause, unpause, executeFeeChange, Tick, Idle
  <2> QED BY <2>1, <2>2, <2>3, <2>4, <2>5, Zenon DEF Next
<1>5. CASE UNCHANGED vars
  <2>1. UNCHANGED <<batch, sessions, settledRequests, usedNonces, feeBpsByVersion,
                    offerVersions, providerSigners, now>>
    BY <1>5, Zenon DEF vars
  <2>2. PICK b : b = batch
    OBVIOUS
  <2> QED BY <2>1, <2>2, SameBatch, Zenon
<1> QED
  BY <1>1, <1>2, <1>3, <1>4, <1>5, Zenon

(* No iteration of an accepted batch can revert. *)
THEOREM BatchesRunToTheirEnd == Spec => []BatchRunsToItsEnd
<1>1. Conservation /\ Init => BatchSettles(batch)
  BY EmptyBatch, Zenon DEF Init
<1>2. Conservation /\ Conservation' /\ BatchSettles(batch) /\ [Next]_vars
          => BatchSettles(batch)'
  BY BatchNext, Zenon
<1>3. Conservation /\ BatchSettles(batch) => BatchRunsToItsEnd
  <2> SUFFICES ASSUME Conservation, BatchSettles(batch), batch # <<>>
               PROVE  Settleable(Head(batch))
    BY Zenon DEF BatchRunsToItsEnd
  <2>1. Head(batch) = batch[1] /\ 1 \in DOMAIN batch
    BY DEF Conservation, TypeOK, ReceiptsTyped
  <2> QED BY <2>1, Zenon DEF BatchSettles
<1> QED
  BY <1>1, <1>2, <1>3, ConservationHolds, PTL DEF Spec
=============================================================================
