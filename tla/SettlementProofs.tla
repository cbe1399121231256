-------------------------- MODULE SettlementProofs --------------------------
(***************************************************************************)
(* Proofs about the settlement queue: the transactions of two receipts     *)
(* never share a nonce, nothing is out that a restart would not find, and  *)
(* what the broker shows as settled is paid in a final block.              *)
(***************************************************************************)
EXTENDS Settlement, FiniteSetTheorems, SequenceTheorems, TLAPS

QueueStates == {"none", "cosigned", "broadcasting", "settled"}
RequestStates == {"completed", "signed", "submitted", "settled"}

(* The types of what the queue, the node and the chain hold.               *)
QueueType ==
    /\ queue \in [Requests -> QueueStates]
    /\ created \in Seq(Requests)
    /\ nonce \in [Requests -> Nat \cup {-1}]
    /\ request \in [Requests -> RequestStates]
    /\ pool \subseteq Requests
    /\ mined \in Seq(Requests)
    /\ final \in 0 .. Len(mined)
    /\ paid \subseteq Requests

Sent == {"broadcasting", "settled"}

(* A row has a transaction from the moment it is broadcasting; the chain   *)
(* took the transactions in the order of their nonces, and the node keeps  *)
(* none whose nonce is used up.                                            *)
TransactionsInOrder ==
    /\ \A r \in Requests : nonce[r] >= 0 <=> queue[r] \in Sent
    /\ \A i \in 1 .. Len(mined) : nonce[mined[i]] = i - 1
    /\ \A r \in pool : nonce[r] >= Len(mined)
    /\ \A r \in Requests : request[r] = "settled" => queue[r] = "settled"
    /\ \A r \in Requests : queue[r] = "settled" => r \in paid /\ Confirmed(r)
    /\ TransactionsDoNotCollide

QueueInv == QueueType /\ TransactionsInOrder

(* An empty queue and an empty chain agree.                                *)
LEMMA InitQueue ==
    ASSUME Init
    PROVE  QueueInv
  BY SettlementAssumption
     DEF Init, QueueInv, QueueType, TransactionsInOrder, QueueStates, RequestStates, Sent,
         TransactionsDoNotCollide, Confirmed

(* A step that leaves rows, transactions and chain alone keeps the         *)
(* agreement: quotes, fees, closed sessions, waits and restarts.           *)
LEMMA QueueStays ==
    ASSUME QueueInv, UNCHANGED <<queue, created, nonce, request, mined, final, paid>>,
           pool' \subseteq pool
    PROVE  QueueInv'
<1>1. QueueType'
  BY Zenon DEF QueueInv, QueueType
<1>2. TransactionsInOrder'
  BY Zenon DEF QueueInv, TransactionsInOrder, TransactionsDoNotCollide, Confirmed
<1> QED
  BY <1>1, <1>2, Zenon DEF QueueInv

(* Enqueue adds a row without a transaction.                               *)
LEMMA EnqueueKeepsQueue ==
    ASSUME QueueInv, NEW r \in Requests, Enqueue(r)
    PROVE  QueueInv'
<1>1. /\ queue[r] = "none" /\ queue' = [queue EXCEPT ![r] = "cosigned"]
      /\ created' = Append(created, r)
      /\ request' \in [Requests -> RequestStates]
      /\ \A q \in Requests : request'[q] = "settled" => request[q] = "settled"
      /\ UNCHANGED <<nonce, pool, mined, final, paid>>
  BY Zenon DEF Enqueue, Moved, QueueInv, QueueType, RequestStates, chainVars
<1>2. QueueType'
  BY <1>1 DEF QueueInv, QueueType, QueueStates
<1>3. TransactionsInOrder'
  BY <1>1, Zenon
  DEF QueueInv, QueueType, TransactionsInOrder, TransactionsDoNotCollide, Confirmed, Sent
<1> QED
  BY <1>2, <1>3, Zenon DEF QueueInv

(* The chain takes the transaction whose turn it is.                       *)
LEMMA MineKeepsQueue ==
    ASSUME QueueInv, NEW r \in Requests, Mine(r)
    PROVE  QueueInv'
<1>1. /\ r \in pool /\ nonce[r] = Len(mined)
      /\ mined' = Append(mined, r) /\ pool' = pool \ {r}
      /\ paid \subseteq paid' /\ paid' \subseteq paid \cup {r}
      /\ UNCHANGED <<queue, created, nonce, request, final>>
  BY Zenon DEF Mine, dbVars
<1>2. /\ mined' \in Seq(Requests) /\ Len(mined') = Len(mined) + 1
      /\ \A i \in 1 .. Len(mined) : mined'[i] = mined[i]
      /\ mined'[Len(mined) + 1] = r /\ Len(mined) \in Nat
  BY <1>1 DEF QueueInv, QueueType
<1>3. QueueType'
  BY <1>1, <1>2 DEF QueueInv, QueueType
<1>4. \A i \in 1 .. Len(mined') : nonce'[mined'[i]] = i - 1
  BY <1>1, <1>2 DEF QueueInv, TransactionsInOrder
<1>5. \A q \in pool' : nonce'[q] >= Len(mined')
  <2> SUFFICES ASSUME NEW q \in pool' PROVE nonce[q] >= Len(mined) + 1
    BY <1>1, <1>2, Zenon
  <2>1. q \in pool /\ q # r /\ q \in Requests /\ nonce[q] >= Len(mined) /\ nonce[q] \in Int
    BY <1>1 DEF QueueInv, QueueType, TransactionsInOrder
  <2>2. nonce[q] # nonce[r]
    BY <1>1, <1>2, <2>1 DEF QueueInv, TransactionsInOrder, TransactionsDoNotCollide
  <2> QED BY <1>1, <1>2, <2>1, <2>2
<1>6. \A q \in Requests : queue'[q] = "settled" => q \in paid' /\ Confirmed(q)'
  BY <1>1, <1>2 DEF QueueInv, QueueType, TransactionsInOrder, Confirmed
<1> QED
  BY <1>1, <1>3, <1>4, <1>5, <1>6, Zenon DEF QueueInv, TransactionsInOrder, TransactionsDoNotCollide

(* A block more cannot be dropped.                                         *)
LEMMA FinalizeKeepsQueue ==
    ASSUME QueueInv, Finalize
    PROVE  QueueInv'
<1>1. /\ final < Len(mined) /\ final' = final + 1
      /\ UNCHANGED <<queue, created, nonce, request, pool, mined, paid>>
  BY Zenon DEF Finalize, dbVars
<1>2. QueueType'
  BY <1>1 DEF QueueInv, QueueType
<1>3. \A q \in Requests : queue'[q] = "settled" => q \in paid' /\ Confirmed(q)'
  BY <1>1 DEF QueueInv, QueueType, TransactionsInOrder, Confirmed
<1> QED
  BY <1>1, <1>2, <1>3, Zenon DEF QueueInv, TransactionsInOrder, TransactionsDoNotCollide

(* A fork drops no final block: what is settled stays paid, and what is    *)
(* dropped is pending again, with its nonce.                               *)
LEMMA ForkKeepsQueue ==
    ASSUME QueueInv, Fork
    PROVE  QueueInv'
<1>1. PICK kept \in final .. Len(mined) - 1 :
        /\ mined' = SubSeq(mined, 1, kept)
        /\ pool' = pool \cup {mined[i] : i \in kept + 1 .. Len(mined)}
        /\ paid' = paid \ {mined[i] : i \in kept + 1 .. Len(mined)}
  BY Zenon DEF Fork
<1>2. UNCHANGED <<queue, created, nonce, request, final>>
  BY Zenon DEF Fork, dbVars
<1>3. final \in Nat /\ kept \in Nat /\ Len(mined) \in Nat /\ kept <= Len(mined)
      /\ mined \in Seq(Requests) /\ final <= kept
  BY <1>1 DEF QueueInv, QueueType
<1>4. /\ mined' \in Seq(Requests) /\ Len(mined') = kept
      /\ \A i \in 1 .. kept : mined'[i] = mined[i]
  BY <1>1, <1>3
<1>5. \A i \in 1 .. Len(mined) : mined[i] \in Requests /\ nonce[mined[i]] = i - 1
  BY <1>3 DEF QueueInv, QueueType, TransactionsInOrder
<1>6. QueueType'
  BY <1>1, <1>2, <1>3, <1>4, <1>5 DEF QueueInv, QueueType
<1>7. \A i \in 1 .. Len(mined') : nonce'[mined'[i]] = i - 1
  <2> SUFFICES ASSUME NEW i \in 1 .. kept PROVE nonce[mined'[i]] = i - 1
    BY <1>2, <1>4, Zenon
  <2>1. i \in 1 .. Len(mined)
    BY <1>3
  <2> QED BY <1>4, <1>5, <2>1, Zenon
<1>8. \A q \in pool' : nonce'[q] >= Len(mined')
  <2> SUFFICES ASSUME NEW q \in pool' PROVE nonce[q] >= kept
    BY <1>2, <1>4, Zenon
  <2>1. CASE q \in pool
    <3>1. nonce[q] >= Len(mined) /\ nonce[q] \in Int
      BY <2>1 DEF QueueInv, QueueType, TransactionsInOrder
    <3> QED BY <1>3, <3>1
  <2>2. CASE q \notin pool
    <3>1. PICK i \in kept + 1 .. Len(mined) : q = mined[i]
      BY <1>1, <2>2, Zenon
    <3> QED BY <1>3, <1>5, <3>1
  <2> QED BY <2>1, <2>2, Zenon
<1>9. ASSUME NEW q \in Requests, queue'[q] = "settled"
      PROVE  q \in paid' /\ Confirmed(q)'
  <2>1. q \in paid
    BY <1>2, <1>9, Zenon DEF QueueInv, TransactionsInOrder
  <2>2. PICK i \in 1 .. final : mined[i] = q
    BY <1>2, <1>9, Zenon DEF QueueInv, TransactionsInOrder, Confirmed
  <2>3. ASSUME NEW j \in kept + 1 .. Len(mined) PROVE mined[j] # q
    <3>1. i \in 1 .. Len(mined) /\ j \in 1 .. Len(mined) /\ i # j
      BY <1>3
    <3>2. nonce[q] = i - 1 /\ nonce[mined[j]] = j - 1
      BY <1>5, <2>2, <3>1, Zenon
    <3> QED BY <3>1, <3>2
  <2>4. Confirmed(q)'
    BY <1>2, <1>3, <1>4, <2>2 DEF Confirmed
  <2> QED BY <1>1, <2>1, <2>3, <2>4, Zenon
<1> QED
  BY <1>2, <1>6, <1>7, <1>8, <1>9, Zenon DEF QueueInv, TransactionsInOrder, TransactionsDoNotCollide

(* A transaction is sent again only while its nonce is not used up.        *)
LEMMA BroadcastKeepsOrder ==
    ASSUME NEW r \in Requests, Broadcast(r), pool \subseteq Requests
    PROVE  /\ pool' \subseteq Requests
           /\ \A q \in pool' : q \in pool \/ (q = r /\ nonce'[r] >= Len(mined))
  BY DEF Broadcast

(* Sending an outstanding transaction again changes no row.                *)
LEMMA RebroadcastKeepsQueue ==
    ASSUME QueueInv, Rebroadcast
    PROVE  QueueInv'
<1>1. PICK r \in Pending : nonce' = nonce /\ Broadcast(r)
  BY Zenon DEF Rebroadcast
<1>2. r \in Requests /\ UNCHANGED <<queue, created, request, mined, final, paid>>
  BY <1>1, Zenon DEF Rebroadcast, Pending, Broadcasting
<1>3. pool' \subseteq Requests /\ \A q \in pool' : nonce'[q] >= Len(mined')
  BY <1>1, <1>2, BroadcastKeepsOrder, Zenon DEF QueueInv, QueueType, TransactionsInOrder
<1>4. QueueType'
  BY <1>1, <1>2, <1>3, Zenon DEF QueueInv, QueueType
<1> QED
  BY <1>1, <1>2, <1>3, <1>4, Zenon
  DEF QueueInv, TransactionsInOrder, TransactionsDoNotCollide, Confirmed

(* With no transaction outstanding the node's pool is empty, every nonce   *)
(* so far is used up on the chain, and the next one is the chain's length. *)
LEMMA NextNonceIsUnused ==
    ASSUME QueueInv, NoneOutstanding
    PROVE  /\ PendingNonce = Len(mined)
           /\ \A q \in Requests : nonce[q] < Len(mined)
<1>1. mined \in Seq(Requests) /\ Len(mined) \in Nat /\ final \in 0 .. Len(mined)
  BY DEF QueueInv, QueueType
<1>2. ASSUME NEW q \in Requests PROVE nonce[q] < Len(mined)
  <2>1. CASE queue[q] = "settled"
    <3>1. PICK i \in 1 .. final : mined[i] = q
      BY <2>1, Zenon DEF QueueInv, TransactionsInOrder, Confirmed
    <3> QED BY <1>1, <3>1 DEF QueueInv, TransactionsInOrder
  <2>2. CASE queue[q] # "settled"
    <3>1. queue[q] \notin Sent
      BY <2>2, Zenon DEF NoneOutstanding, Broadcasting, Sent
    <3>2. nonce[q] = -1
      BY <3>1 DEF QueueInv, QueueType, TransactionsInOrder
    <3> QED BY <1>1, <3>2
  <2> QED BY <2>1, <2>2, Zenon
<1>3. pool = {}
  <2> SUFFICES ASSUME NEW q \in pool PROVE FALSE
    OBVIOUS
  <2>1. q \in Requests /\ nonce[q] >= Len(mined) /\ nonce[q] \in Int
    BY DEF QueueInv, QueueType, TransactionsInOrder
  <2> QED BY <1>1, <1>2, <2>1
<1>4. Cardinality(Requests) \in Nat
  BY SettlementAssumption, FS_CardinalityType, Zenon
<1>5. PendingNonce = Len(mined)
  <2> DEFINE Free(n) == /\ \A r \in pool : nonce[r] # n
                        /\ \A m \in Len(mined) .. n - 1 : \E r \in pool : nonce[r] = m
             Candidates == Len(mined) .. Len(mined) + Cardinality(Requests)
  <2>1. Len(mined) \in Candidates /\ Free(Len(mined))
    BY <1>1, <1>3, <1>4
  <2>2. ASSUME NEW n \in Candidates, Free(n) PROVE n = Len(mined)
    BY <1>1, <1>3, <1>4, <2>2
  <2>3. PendingNonce = CHOOSE n \in Candidates : Free(n)
    BY Zenon DEF PendingNonce
  <2> HIDE DEF Free, Candidates
  <2> QED BY <2>1, <2>2, <2>3, Zenon
<1> QED
  BY <1>2, <1>5, Zenon

(* The oldest co-signed row is one.                                        *)
LEMMA OldestIsCosigned ==
    ASSUME QueueType, NEW r \in Oldest
    PROVE  r \in Requests /\ queue[r] = "cosigned"
  BY DEF QueueType, Oldest

(* The transaction committed to the oldest row has a nonce of its own,     *)
(* whether or not it is sent before the server stops.                      *)
LEMMA PrepareKeepsQueue ==
    ASSUME QueueInv, PrepareSettlement
    PROVE  QueueInv'
<1>1. PICK r \in Oldest :
        /\ nonce' = [nonce EXCEPT ![r] = PendingNonce]
        /\ queue' = [queue EXCEPT ![r] = "broadcasting"]
        /\ request' = Moved(request, r, "signed", "submitted")
        /\ Broadcast(r) \/ UNCHANGED pool
  BY Zenon DEF PrepareSettlement
<1>2. r \in Requests /\ queue[r] = "cosigned"
  BY OldestIsCosigned, Zenon DEF QueueInv
<1>3. UNCHANGED <<created, mined, final, paid>>
  BY Zenon DEF PrepareSettlement
<1>4. PendingNonce = Len(mined) /\ \A q \in Requests : nonce[q] < Len(mined)
  BY NextNonceIsUnused, Zenon DEF PrepareSettlement
<1>5. Len(mined) \in Nat /\ nonce \in [Requests -> Nat \cup {-1}] /\ mined \in Seq(Requests)
  BY DEF QueueInv, QueueType
<1>6. /\ nonce' \in [Requests -> Nat \cup {-1}]
      /\ nonce'[r] = Len(mined) /\ \A q \in Requests \ {r} : nonce'[q] = nonce[q]
  BY <1>1, <1>2, <1>4, <1>5, Zenon
<1>7. /\ request' \in [Requests -> RequestStates]
      /\ \A q \in Requests : request'[q] = "settled" => request[q] = "settled"
  BY <1>1, <1>2, Zenon DEF Moved, QueueInv, QueueType, RequestStates
<1>8. /\ pool' \subseteq Requests
      /\ \A q \in pool' : q \in pool \/ (q = r /\ nonce'[r] >= Len(mined))
  BY <1>1, <1>2, BroadcastKeepsOrder, Zenon DEF QueueInv, QueueType
<1>9. QueueType'
  BY <1>1, <1>2, <1>3, <1>6, <1>7, <1>8, Zenon DEF QueueInv, QueueType, QueueStates
<1>10. \A q \in Requests : nonce'[q] >= 0 <=> queue'[q] \in Sent
  BY <1>1, <1>2, <1>5, <1>6 DEF QueueInv, QueueType, TransactionsInOrder, Sent
<1>11. ASSUME NEW i \in 1 .. Len(mined') PROVE nonce'[mined'[i]] = i - 1
  <2>1. mined[i] \in Requests /\ nonce[mined[i]] = i - 1 /\ i - 1 # -1
    BY <1>3, <1>5 DEF QueueInv, TransactionsInOrder
  <2>2. mined[i] # r
    BY <1>2, <1>5, <2>1 DEF QueueInv, TransactionsInOrder, Sent
  <2> QED BY <1>3, <1>6, <2>1, <2>2, Zenon
<1>12. \A q \in pool' : nonce'[q] >= Len(mined')
  BY <1>3, <1>6, <1>8 DEF QueueInv, QueueType, TransactionsInOrder
<1>13. TransactionsDoNotCollide'
  BY <1>4, <1>5, <1>6 DEF QueueInv, TransactionsInOrder, TransactionsDoNotCollide
<1>14. \A q \in Requests : queue'[q] = "settled" => q \in paid' /\ Confirmed(q)'
  BY <1>1, <1>2, <1>3, Zenon DEF QueueInv, QueueType, TransactionsInOrder, Confirmed
<1>15. \A q \in Requests : request'[q] = "settled" => queue'[q] = "settled"
  BY <1>1, <1>2, <1>7, Zenon DEF QueueInv, QueueType, TransactionsInOrder
<1> QED
  BY <1>9, <1>10, <1>11, <1>12, <1>13, <1>14, <1>15, Zenon DEF QueueInv, TransactionsInOrder

(* The indexer settles what is paid in a final block.                      *)
LEMMA SettledKeepsQueue ==
    ASSUME QueueInv, NEW r \in Requests, ReceiptSettled(r)
    PROVE  QueueInv'
<1>1. /\ r \in paid /\ Confirmed(r) /\ queue[r] = "broadcasting"
      /\ queue' = [queue EXCEPT ![r] = "settled"]
      /\ request' = Moved(request, r, "submitted", "settled")
      /\ UNCHANGED <<created, nonce, pool, mined, final, paid>>
  BY Zenon DEF ReceiptSettled, chainVars
<1>2. /\ request' \in [Requests -> RequestStates]
      /\ \A q \in Requests \ {r} : request'[q] = request[q]
  BY <1>1, Zenon DEF Moved, QueueInv, QueueType, RequestStates
<1>3. QueueType'
  BY <1>1, <1>2, Zenon DEF QueueInv, QueueType, QueueStates
<1>4. \A q \in Requests : request'[q] = "settled" => queue'[q] = "settled"
  BY <1>1, <1>2, Zenon DEF QueueInv, QueueType, TransactionsInOrder
<1>5. \A q \in Requests : nonce'[q] >= 0 <=> queue'[q] \in Sent
  BY <1>1, Zenon DEF QueueInv, QueueType, TransactionsInOrder, Sent
<1>6. \A q \in Requests : queue'[q] = "settled" => q \in paid' /\ Confirmed(q)'
  BY <1>1, Zenon DEF QueueInv, QueueType, TransactionsInOrder, Confirmed
<1> QED
  BY <1>1, <1>3, <1>4, <1>5, <1>6, Zenon DEF QueueInv, TransactionsInOrder, TransactionsDoNotCollide

(* A rewind takes back what is shown, never what was sent.                 *)
LEMMA RewindKeepsQueue ==
    ASSUME QueueInv, rewind
    PROVE  QueueInv'
<1>1. /\ queue' = [r \in Requests |-> IF queue[r] = "settled" THEN "broadcasting" ELSE queue[r]]
      /\ request' = [r \in Requests |-> IF queue[r] = "settled" THEN "submitted" ELSE request[r]]
      /\ UNCHANGED <<created, nonce, pool, mined, final, paid>>
  BY Zenon DEF rewind, chainVars
<1>2. QueueType'
  BY <1>1, Zenon DEF QueueInv, QueueType, QueueStates, RequestStates
<1>3. \A q \in Requests : request'[q] # "settled" /\ queue'[q] # "settled"
  BY <1>1, Zenon DEF QueueInv, QueueType, TransactionsInOrder
<1>4. \A q \in Requests : nonce'[q] >= 0 <=> queue'[q] \in Sent
  BY <1>1, Zenon DEF QueueInv, TransactionsInOrder, Sent
<1> QED
  BY <1>1, <1>2, <1>3, <1>4, Zenon DEF QueueInv, TransactionsInOrder, TransactionsDoNotCollide

(* Every step keeps the queue and the chain in agreement.                  *)
LEMMA NextKeepsQueue ==
    ASSUME QueueInv, [Next]_vars
    PROVE  QueueInv'
<1>1. ASSUME NEW r \in Requests, FeeBasisPoints(r) \/ Drop(r)
      PROVE  QueueInv'
  BY <1>1, QueueStays, Zenon DEF FeeBasisPoints, Drop, dbVars, chainVars
<1>2. CASE WaitMined \/ Restart \/ executeFeeChange
  BY <1>2, QueueStays, Zenon DEF WaitMined, Restart, executeFeeChange, dbVars, chainVars
<1>3. ASSUME NEW s \in Sessions, finalizeSessionClose(s)
      PROVE  QueueInv'
  BY <1>3, QueueStays, Zenon DEF finalizeSessionClose, dbVars
<1>4. CASE UNCHANGED vars
  BY <1>4, QueueStays, Zenon DEF vars
<1> QED
  BY <1>1, <1>2, <1>3, <1>4, EnqueueKeepsQueue, MineKeepsQueue, FinalizeKeepsQueue,
     ForkKeepsQueue, RebroadcastKeepsQueue, PrepareKeepsQueue, SettledKeepsQueue,
     RewindKeepsQueue, Zenon
     DEF Next, SettleBatch, Index

(* However the server restarts, calls fail, the node forgets, the chain    *)
(* forks and the indexer rewinds: no two receipts share a nonce, whatever  *)
(* is out is in the queue, and settled means paid for good (SettleBatch,   *)
(* prepareSettlement, pendingBroadcast, the indexer's rewind).             *)
THEOREM QueueIsSound == Spec => []QueueMatchesChain
<1>1. Init => QueueInv
  BY InitQueue, Zenon
<1>2. QueueInv /\ [Next]_vars => QueueInv'
  BY NextKeepsQueue, Zenon
<1>3. QueueInv => QueueMatchesChain
  <2> SUFFICES ASSUME QueueInv PROVE QueueMatchesChain
    OBVIOUS
  <2>1. PersistedBeforeBroadcast
    <3> SUFFICES ASSUME NEW r \in Requests, r \in pool \/ Mined(r)
                 PROVE  nonce[r] >= 0 /\ queue[r] \in Sent
      BY Zenon DEF PersistedBeforeBroadcast, Sent
    <3>1. nonce[r] >= 0
      <4>1. CASE r \in pool
        <5>1. nonce[r] >= Len(mined) /\ Len(mined) \in Nat /\ nonce[r] \in Int
          BY <4>1 DEF QueueInv, QueueType, TransactionsInOrder
        <5> QED BY <5>1
      <4>2. CASE Mined(r)
        <5>1. PICK i \in 1 .. Len(mined) : mined[i] = r
          BY <4>2 DEF Mined, QueueInv, QueueType
        <5> QED BY <5>1 DEF QueueInv, QueueType, TransactionsInOrder
      <4> QED BY <4>1, <4>2, Zenon
    <3> QED BY <3>1, Zenon DEF QueueInv, TransactionsInOrder
  <2>2. SettledMeansPaid
    BY Zenon DEF QueueInv, TransactionsInOrder, SettledMeansPaid, Confirmed
  <2> QED BY <2>1, <2>2, Zenon DEF QueueInv, TransactionsInOrder, QueueMatchesChain
<1> QED
  BY <1>1, <1>2, <1>3, PTL DEF Spec
=============================================================================
