--------------------------- MODULE InferenceProofs ---------------------------
(***************************************************************************)
(* Proofs about the store behind the inference requests.  First its rows:  *)
(* every step is at most one transaction of the store, and the state, the  *)
(* hold, the queue row and the position of the handler keep agreeing with  *)
(* each other.  On that rest what the holds of a session take from its     *)
(* balance, what its settlements leave of it, who occupies the slot of an  *)
(* offer, and which nonces a provider has.                                 *)
(***************************************************************************)
EXTENDS Inference, SumTheorems

(* The types of the columns and of the handlers' positions.                *)
StoreType ==
    /\ state \in [Requests -> States]
    /\ sessionOf \in [Requests -> Sessions \cup {None}]
    /\ offerOf \in [Requests -> Offers \cup {None}]
    /\ maximum \in [Requests -> Nat] /\ hold \in [Requests -> Nat]
    /\ held \subseteq Requests
    /\ capacity \in [Offers -> Nat] /\ confirmed \in [Sessions -> Nat]
    /\ queue \in [Requests -> {None, "cosigned", "broadcasting", "settled"}]
    /\ handler \in [Requests -> Waits]

(* What the rows of a request and the position of its handler say about    *)
(* each other.                                                             *)
RowAgrees(r) ==
    /\ handler[r] = None => state[r] = None
    /\ handler[r] = "preparing" => state[r] = "completed" /\ r \in held
    /\ handler[r] \in {"proposing", "signing"} =>
          state[r] = "completed" /\ (r \in held \/ hold[r] = 0)
    /\ state[r] \in Executing => r \in held
    /\ r \in held => state[r] \in Executing \cup {"completed", "signed", "submitted"}
    /\ state[r] # None => sessionOf[r] \in Sessions /\ offerOf[r] \in Offers
    /\ queue[r] = None <=> state[r] \notin {"signed", "submitted", "settled"}
    /\ queue[r] = "cosigned" => state[r] = "signed" /\ (r \in held \/ hold[r] = 0)
    /\ queue[r] = "broadcasting" => state[r] = "submitted" /\ (r \in held \/ hold[r] = 0)
    /\ queue[r] = "settled" => state[r] = "settled"

RowsAgree == \A r \in Requests : RowAgrees(r)

Rows == StoreType /\ RowsAgree

-----------------------------------------------------------------------------
(* The transactions of the store, without the handlers around them.        *)
StoreStep ==
    \/ UNCHANGED storeVars
    \/ \E r \in Requests, s \in Sessions, o \in Offers, cost \in Costs :
          handler[r] = None /\ ReserveInference(r, s, o, cost)
    \/ \E r \in Requests, next \in {"accepted", "streaming"} : TransitionRequest(r, next)
    \/ \E r \in Requests, terminal \in {"failed", "cancelled"} : AbortInference(r, terminal)
    \/ \E r \in Requests : CompleteInference(r)
    \/ \E r \in Requests : \E charge \in 0 .. maximum[r] :
          handler[r] = "preparing" /\ PrepareReceipt(r, charge)
    \/ \E r \in Requests : handler[r] = "signing" /\ Enqueue(r)
    \/ \E m \in Machines : \E offered \in SUBSET Offers : ReconcileProviderCapacity(m, offered)
    \/ \E r \in Requests : SettleBatch(r)
    \/ \E r \in Requests : ReceiptSettled(r)

(* A step of a handler is one transaction of the store, or none.           *)
LEMMA HandlerStores ==
    ASSUME NEW r \in Requests, HandlerStep(r)
    PROVE  StoreStep
<1>1. CASE SendOffer(r)
  BY <1>1 DEF SendOffer, AbortOnly, StoreStep
<1>2. CASE waitAccepted(r)
  BY <1>2 DEF waitAccepted, AbortAndCancel, StoreStep
<1>3. CASE TransitionAccepted(r)
  BY <1>3 DEF TransitionAccepted, AbortAndCancel, StoreStep
<1>4. CASE TransitionStreaming(r)
  BY <1>4 DEF TransitionStreaming, AbortAndCancel, AbortOnly, StoreStep
<1>5. CASE HandleChunk(r)
  BY <1>5 DEF HandleChunk, AbortAndCancel, StoreStep
<1>6. CASE HandleError(r)
  BY <1>6 DEF HandleError, AbortOnly, StoreStep
<1>7. CASE EndStream(r)
  BY <1>7 DEF EndStream, AbortAndCancel, StoreStep
<1>8. CASE Complete(r)
  BY <1>8 DEF Complete, AbortOnly, StoreStep
<1>9. CASE Prepare(r)
  BY <1>9 DEF Prepare, AbortOnly, StoreStep
<1>10. CASE Propose(r)
  BY <1>10 DEF Propose, AbortOnly, StoreStep
<1>11. CASE Cosign(r)
  BY <1>11 DEF Cosign, StoreStep
<1>12. CASE GiveUp(r)
  BY <1>12 DEF GiveUp, AbortOnly, StoreStep
<1> QED
  BY <1>1, <1>2, <1>3, <1>4, <1>5, <1>6, <1>7, <1>8, <1>9, <1>10, <1>11, <1>12
     DEF HandlerStep

(* So is every step of the system.                                         *)
LEMMA NextStores ==
    ASSUME [Next]_vars
    PROVE  StoreStep
<1>1. ASSUME NEW r \in Requests, NEW s \in Sessions, NEW o \in Offers, NEW cost \in Costs,
             ServeHTTP(r, s, o, cost)
      PROVE  StoreStep
  BY <1>1 DEF ServeHTTP, StoreStep
<1>2. ASSUME NEW r \in Requests, ClientLeaves(r) \/ SendChunk(r) \/ FinishJob(r) \/ FailJob(r)
      PROVE  StoreStep
  BY <1>2 DEF ClientLeaves, SendChunk, FinishJob, FailJob, Deliver, StoreStep
<1>3. ASSUME NEW r \in Requests, SettleBatch(r) \/ ReceiptSettled(r)
      PROVE  StoreStep
  BY <1>3 DEF StoreStep
<1>4. ASSUME NEW r \in Requests, NEW m \in Machines,
             startJob(m, r) \/ CancelJob(m, r) \/ signProposal(m, r)
      PROVE  StoreStep
  BY <1>4 DEF startJob, CancelJob, signProposal, Deliver, StoreStep
<1>5. ASSUME NEW m \in Machines, LoseConnection(m) \/ unregister(m) \/ Connect(m)
      PROVE  StoreStep
  BY <1>5 DEF LoseConnection, unregister, Connect, StoreStep
<1>6. ASSUME NEW m \in Machines, Heartbeat(m)
      PROVE  StoreStep
  BY <1>6 DEF Heartbeat, StoreStep
<1>7. CASE Crash \/ UNCHANGED vars
  BY <1>7 DEF Crash, vars, storeVars, StoreStep
<1> QED
  BY <1>1, <1>2, <1>3, <1>4, <1>5, <1>6, <1>7, HandlerStores DEF Next

-----------------------------------------------------------------------------
(* The rows agree *)

(* A transaction that fails leaves the rows, whatever the handler does     *)
(* next, as long as it is not told that something was completed.           *)
LEMMA RowsStay ==
    ASSUME Rows, UNCHANGED storeVars, handler' \in [Requests -> Waits],
           \A q \in Requests : handler'[q] # handler[q] =>
               \/ handler'[q] \notin {None, "preparing", "proposing", "signing"}
               \/ handler[q] = "proposing" /\ handler'[q] = "signing"
    PROVE  Rows'
<1>1. StoreType'
  BY DEF Rows, StoreType, storeVars
<1>2. ASSUME NEW q \in Requests PROVE RowAgrees(q)'
  <2>1. RowAgrees(q)
    BY DEF Rows, RowsAgree
  <2>2. /\ UNCHANGED <<state, sessionOf, offerOf, hold, held, queue>>
        /\ \/ handler'[q] = handler[q]
           \/ handler'[q] \notin {None, "preparing", "proposing", "signing"}
           \/ handler[q] = "proposing" /\ handler'[q] = "signing"
    BY DEF storeVars
  <2> QED BY <2>1, <2>2 DEF RowAgrees, None
<1> QED
  BY <1>1, <1>2 DEF Rows, RowsAgree

(* AbortInference leaves a row no handler works on.                        *)
LEMMA AbortKeepsRows ==
    ASSUME Rows, NEW r \in Requests, NEW terminal \in {"failed", "cancelled"},
           AbortInference(r, terminal), handler' = [handler EXCEPT ![r] = "done"]
    PROVE  Rows'
<1>1. handler' \in [Requests -> Waits]
  BY DEF Rows, StoreType, Waits
<1>2. CASE ~transitions(state[r], terminal)
  <2>1. UNCHANGED storeVars
    BY <1>2 DEF AbortInference
  <2>2. \A q \in Requests : handler'[q] # handler[q] => handler'[q] = "done"
    BY DEF Rows, StoreType
  <2> QED BY <1>1, <2>1, <2>2, RowsStay DEF None
<1>3. CASE transitions(state[r], terminal)
  <2>1. /\ state' = [state EXCEPT ![r] = terminal]
        /\ held' = held \ {r}
        /\ capacity' = IF SlotReopens(r)
                       THEN [capacity EXCEPT ![offerOf[r]] = @ + 1] ELSE capacity
        /\ UNCHANGED <<sessionOf, offerOf, maximum, hold, nonce, confirmed, queue>>
    BY <1>3 DEF AbortInference
  <2>2. RowAgrees(r)
    BY DEF Rows, RowsAgree
  <2>3. state[r] \in {"offered", "accepted", "streaming", "completed"}
    BY <1>3 DEF transitions
  <2>4. offerOf[r] \in Offers
    BY <2>2, <2>3 DEF RowAgrees, None
  <2>5. capacity' \in [Offers -> Nat]
    BY <2>1, <2>4 DEF Rows, StoreType
  <2>6. StoreType'
    BY <1>1, <2>1, <2>5 DEF Rows, StoreType, States
  <2>7. ASSUME NEW q \in Requests PROVE RowAgrees(q)'
    <3>1. RowAgrees(q)
      BY DEF Rows, RowsAgree
    <3>2. CASE q = r
      BY <2>1, <2>2, <2>3, <3>2 DEF Rows, StoreType, RowAgrees, Executing, None
    <3>3. CASE q # r
      BY <2>1, <3>1, <3>3 DEF Rows, StoreType, RowAgrees
    <3> QED BY <3>2, <3>3
  <2> QED BY <2>6, <2>7 DEF Rows, RowsAgree
<1> QED
  BY <1>2, <1>3

(* A handler that only moves on leaves the rows.                           *)
LEMMA GoesKeepsRows ==
    ASSUME Rows, NEW r \in Requests, NEW where \in Waits, UNCHANGED storeVars,
           handler' = [handler EXCEPT ![r] = where],
           \/ where \notin {None, "preparing", "proposing", "signing"}
           \/ handler[r] = "proposing" /\ where = "signing"
    PROVE  Rows'
<1>1. handler' \in [Requests -> Waits]
  BY DEF Rows, StoreType
<1>2. \A q \in Requests : handler'[q] # handler[q] => q = r /\ handler'[q] = where
  BY DEF Rows, StoreType
<1> QED
  BY <1>1, <1>2, RowsStay

(* TransitionRequest, on the way to the stream.                            *)
LEMMA TransitionKeepsRows ==
    ASSUME Rows, NEW r \in Requests, NEW next \in {"accepted", "streaming"},
           NEW where \in {"streaming", "chunk"},
           TransitionRequest(r, next), handler' = [handler EXCEPT ![r] = where]
    PROVE  Rows'
<1>1. /\ state[r] \in {"offered", "accepted"}
      /\ state' = [state EXCEPT ![r] = next]
      /\ UNCHANGED <<sessionOf, offerOf, maximum, hold, held, nonce, capacity, confirmed, queue>>
  BY DEF TransitionRequest, transitions
<1>2. StoreType'
  BY <1>1 DEF Rows, StoreType, States, Waits
<1>3. ASSUME NEW q \in Requests PROVE RowAgrees(q)'
  <2>1. RowAgrees(q)
    BY DEF Rows, RowsAgree
  <2>2. CASE q = r
    <3>1. state'[q] = next /\ handler'[q] = where /\ state[q] \in {"offered", "accepted"}
      BY <1>1, <2>2 DEF Rows, StoreType
    <3> QED BY <1>1, <2>1, <3>1 DEF RowAgrees, Executing, None
  <2>3. CASE q # r
    BY <1>1, <2>1, <2>3 DEF Rows, StoreType, RowAgrees
  <2> QED BY <2>2, <2>3
<1> QED
  BY <1>2, <1>3 DEF Rows, RowsAgree

(* CompleteInference keeps the hold for the receipt.                       *)
LEMMA CompleteKeepsRows ==
    ASSUME Rows, NEW r \in Requests,
           CompleteInference(r), handler' = [handler EXCEPT ![r] = "preparing"]
    PROVE  Rows'
<1>1. RowAgrees(r) /\ state[r] = "streaming"
  BY DEF Rows, RowsAgree, CompleteInference
<1>2. offerOf[r] \in Offers /\ r \in held
  BY <1>1 DEF RowAgrees, Executing, None
<1>3. /\ state' = [state EXCEPT ![r] = "completed"]
      /\ capacity' = [capacity EXCEPT ![offerOf[r]] = @ + 1]
      /\ UNCHANGED <<sessionOf, offerOf, maximum, hold, held, nonce, confirmed, queue>>
  BY DEF CompleteInference
<1>4. capacity' \in [Offers -> Nat]
  BY <1>2, <1>3 DEF Rows, StoreType
<1>5. StoreType'
  BY <1>3, <1>4 DEF Rows, StoreType, States, Waits
<1>6. ASSUME NEW q \in Requests PROVE RowAgrees(q)'
  <2>1. RowAgrees(q)
    BY DEF Rows, RowsAgree
  <2>2. CASE q = r
    <3>1. state'[q] = "completed" /\ handler'[q] = "preparing"
      BY <1>3, <2>2 DEF Rows, StoreType
    <3> QED BY <1>1, <1>2, <1>3, <2>1, <2>2, <3>1 DEF RowAgrees, Executing, None
  <2>3. CASE q # r
    BY <1>3, <2>1, <2>3 DEF Rows, StoreType, RowAgrees
  <2> QED BY <2>2, <2>3
<1> QED
  BY <1>5, <1>6 DEF Rows, RowsAgree

(* PrepareReceipt keeps the exact charge on hold.                          *)
LEMMA PrepareKeepsRows ==
    ASSUME Rows, NEW r \in Requests, NEW charge \in 0 .. maximum[r],
           handler[r] = "preparing",
           PrepareReceipt(r, charge), handler' = [handler EXCEPT ![r] = "proposing"]
    PROVE  Rows'
<1>1. RowAgrees(r) /\ state[r] = "completed" /\ r \in held
  BY DEF Rows, RowsAgree, RowAgrees
<1>2. /\ hold' = [hold EXCEPT ![r] = charge]
      /\ held' = IF charge = 0 THEN held \ {r} ELSE held \cup {r}
      /\ UNCHANGED <<state, sessionOf, offerOf, maximum, capacity, confirmed, queue>>
  BY DEF PrepareReceipt
<1>3. charge \in Nat
  BY DEF Rows, StoreType
<1>4. StoreType'
  BY <1>2, <1>3 DEF Rows, StoreType, Waits
<1>5. ASSUME NEW q \in Requests PROVE RowAgrees(q)'
  <2>1. RowAgrees(q)
    BY DEF Rows, RowsAgree
  <2>2. CASE q = r
    <3>1. handler'[q] = "proposing" /\ (q \in held' \/ hold'[q] = 0)
      BY <1>2, <1>3, <2>2 DEF Rows, StoreType
    <3> QED BY <1>1, <1>2, <2>1, <2>2, <3>1 DEF RowAgrees, Executing, None
  <2>3. CASE q # r
    BY <1>2, <2>1, <2>3 DEF Rows, StoreType, RowAgrees
  <2> QED BY <2>2, <2>3
<1> QED
  BY <1>4, <1>5 DEF Rows, RowsAgree

(* Enqueue signs a request whose exact charge is on hold.                  *)
LEMMA EnqueueKeepsRows ==
    ASSUME Rows, NEW r \in Requests, handler[r] = "signing", NEW where \in {"done", "unsure"},
           Enqueue(r), handler' = [handler EXCEPT ![r] = where]
    PROVE  Rows'
<1>1. RowAgrees(r) /\ state[r] = "completed" /\ (r \in held \/ hold[r] = 0)
  BY DEF Rows, RowsAgree, RowAgrees
<1>2. /\ queue' = [queue EXCEPT ![r] = "cosigned"]
      /\ state' = [state EXCEPT ![r] = "signed"]
      /\ UNCHANGED <<sessionOf, offerOf, maximum, hold, held, nonce, capacity, confirmed>>
  BY <1>1 DEF Enqueue
<1>3. StoreType'
  BY <1>2 DEF Rows, StoreType, States, Waits
<1>4. ASSUME NEW q \in Requests PROVE RowAgrees(q)'
  <2>1. RowAgrees(q)
    BY SMTT(30) DEF Rows, RowsAgree
  <2>2. CASE q = r
    <3>1. handler'[q] = where /\ queue'[q] = "cosigned" /\ state'[q] = "signed"
      BY <1>2, <2>2 DEF Rows, StoreType
    <3> QED BY <1>1, <1>2, <2>1, <2>2, <3>1 DEF RowAgrees, Executing, None
  <2>3. CASE q # r
    BY <1>2, <2>1, <2>3 DEF Rows, StoreType, RowAgrees
  <2> QED BY <2>2, <2>3
<1> QED
  BY <1>3, <1>4 DEF Rows, RowsAgree

(* ReserveInference opens a row for a new request.                         *)
LEMMA ReserveKeepsRows ==
    ASSUME Rows, NEW r \in Requests, NEW s \in Sessions, NEW o \in Offers, NEW cost \in Costs,
           ServeHTTP(r, s, o, cost)
    PROVE  Rows'
<1>1. RowAgrees(r) /\ handler[r] = None /\ state[r] = None
  BY DEF Rows, RowsAgree, RowAgrees, ServeHTTP
<1>2. /\ capacity[o] > 0
      /\ capacity' = [capacity EXCEPT ![o] = @ - 1]
      /\ state' = [state EXCEPT ![r] = "offered"]
      /\ sessionOf' = [sessionOf EXCEPT ![r] = s]
      /\ offerOf' = [offerOf EXCEPT ![r] = o]
      /\ maximum' = [maximum EXCEPT ![r] = cost]
      /\ hold' = [hold EXCEPT ![r] = cost]
      /\ held' = held \cup {r}
      /\ UNCHANGED <<nonce, confirmed, queue>>
      /\ handler' = [handler EXCEPT ![r] = "reserved"]
  BY DEF ServeHTTP, ReserveInference, HasSlot, Goes
<1>3. capacity' \in [Offers -> Nat]
  BY <1>2 DEF Rows, StoreType
<1>4. StoreType'
  BY <1>2, <1>3, InferenceAssumption DEF Rows, StoreType, States, Waits
<1>5. ASSUME NEW q \in Requests PROVE RowAgrees(q)'
  <2>1. RowAgrees(q)
    BY SMTT(30) DEF Rows, RowsAgree
  <2>2. CASE q = r
    <3>1. /\ handler'[q] = "reserved" /\ state'[q] = "offered" /\ q \in held'
          /\ sessionOf'[q] = s /\ offerOf'[q] = o /\ queue'[q] = queue[q]
      BY <1>2, <2>2 DEF Rows, StoreType
    <3>2. queue[q] = None
      BY <1>1, <2>2 DEF RowAgrees, None
    <3> QED BY <3>1, <3>2 DEF RowAgrees, Executing, None
  <2>3. CASE q # r
    BY <1>2, <2>1, <2>3 DEF Rows, StoreType, RowAgrees
  <2> QED BY <2>2, <2>3
<1> QED
  BY <1>4, <1>5, SMTT(30) DEF Rows, RowsAgree

(* SettleBatch submits a signed request.                                   *)
LEMMA SubmitKeepsRows ==
    ASSUME Rows, NEW r \in Requests, SettleBatch(r)
    PROVE  Rows'
<1>1. RowAgrees(r) /\ queue[r] = "cosigned" /\ state[r] = "signed"
  BY DEF Rows, RowsAgree, RowAgrees, SettleBatch
<1>2. /\ queue' = [queue EXCEPT ![r] = "broadcasting"]
      /\ state' = [state EXCEPT ![r] = "submitted"]
      /\ UNCHANGED <<sessionOf, offerOf, maximum, hold, held, nonce, capacity, confirmed, handler>>
  BY <1>1 DEF SettleBatch, serverVars
<1>3. StoreType'
  BY <1>2 DEF Rows, StoreType, States
<1>4. ASSUME NEW q \in Requests PROVE RowAgrees(q)'
  <2>1. RowAgrees(q)
    BY SMTT(30) DEF Rows, RowsAgree
  <2>2. CASE q = r
    <3>1. queue'[q] = "broadcasting" /\ state'[q] = "submitted"
      BY <1>2, <2>2 DEF Rows, StoreType
    <3> QED BY <1>1, <1>2, <2>1, <2>2, <3>1 DEF RowAgrees, Executing, None
  <2>3. CASE q # r
    BY <1>2, <2>1, <2>3 DEF Rows, StoreType, RowAgrees
  <2> QED BY <2>2, <2>3
<1> QED
  BY <1>3, <1>4 DEF Rows, RowsAgree

(* The indexer's ReceiptSettled closes a submitted request.                *)
LEMMA SettledKeepsRows ==
    ASSUME Rows, NEW r \in Requests, ReceiptSettled(r)
    PROVE  Rows'
<1>1. RowAgrees(r) /\ queue[r] = "broadcasting" /\ state[r] = "submitted"
  BY SMTT(30) DEF Rows, RowsAgree, RowAgrees, ReceiptSettled
<1>2. sessionOf[r] \in Sessions
  BY <1>1 DEF RowAgrees, None
<1>3. /\ queue' = [queue EXCEPT ![r] = "settled"]
      /\ state' = [state EXCEPT ![r] = "settled"]
      /\ held' = held \ {r}
      /\ confirmed' = [confirmed EXCEPT ![sessionOf[r]] =
                           IF confirmed[sessionOf[r]] - hold[r] < 0
                           THEN 0 ELSE confirmed[sessionOf[r]] - hold[r]]
      /\ UNCHANGED <<sessionOf, offerOf, maximum, hold, nonce, capacity, handler>>
  BY <1>1 DEF ReceiptSettled, SettledCharge, serverVars
<1>4. confirmed' \in [Sessions -> Nat]
  BY <1>2, <1>3 DEF Rows, StoreType
<1>5. StoreType'
  BY <1>3, <1>4 DEF Rows, StoreType, States
<1>6. ASSUME NEW q \in Requests PROVE RowAgrees(q)'
  <2>1. RowAgrees(q)
    BY SMTT(30) DEF Rows, RowsAgree
  <2>2. CASE q = r
    <3>1. queue'[q] = "settled" /\ state'[q] = "settled"
      BY <1>3, <2>2, SMTT(30) DEF Rows, StoreType
    <3> QED BY <1>1, <1>3, <2>1, <2>2, <3>1 DEF RowAgrees, Executing, None
  <2>3. CASE q # r
    BY <1>3, <2>1, <2>3 DEF Rows, StoreType, RowAgrees
  <2> QED BY <2>2, <2>3
<1> QED
  BY <1>5, <1>6 DEF Rows, RowsAgree

(* Every step of a handler keeps the rows in agreement.                    *)
LEMMA HandlerKeepsRows ==
    ASSUME Rows, NEW r \in Requests, HandlerStep(r)
    PROVE  Rows'
<1>1. CASE SendOffer(r)
  BY <1>1, GoesKeepsRows, AbortKeepsRows DEF SendOffer, AbortOnly, Return, Goes, Waits, None
<1>2. CASE waitAccepted(r)
  BY <1>2, GoesKeepsRows, AbortKeepsRows DEF waitAccepted, AbortAndCancel, Return, Goes, Waits, None
<1>3. CASE TransitionAccepted(r)
  BY <1>3, TransitionKeepsRows, AbortKeepsRows DEF TransitionAccepted, AbortAndCancel, Return, Goes
<1>4. CASE TransitionStreaming(r)
  BY <1>4, TransitionKeepsRows, AbortKeepsRows
     DEF TransitionStreaming, AbortAndCancel, AbortOnly, Return, Goes
<1>5. CASE HandleChunk(r)
  BY <1>5, GoesKeepsRows, AbortKeepsRows DEF HandleChunk, AbortAndCancel, Return, Goes, Waits, None
<1>6. CASE HandleError(r)
  BY <1>6, AbortKeepsRows, Zenon DEF HandleError, AbortOnly, Return
<1>7. CASE EndStream(r)
  BY <1>7, AbortKeepsRows DEF EndStream, AbortAndCancel, Return
<1>8. CASE Complete(r)
  BY <1>8, CompleteKeepsRows, AbortKeepsRows DEF Complete, AbortOnly, Return, Goes
<1>9. CASE Prepare(r)
  BY <1>9, PrepareKeepsRows, AbortKeepsRows DEF Prepare, AbortOnly, Return, Goes
<1>10. CASE Propose(r)
  BY <1>10, GoesKeepsRows, AbortKeepsRows DEF Propose, AbortOnly, Return, Goes, Waits, None
<1>11. CASE Cosign(r)
  BY <1>11, EnqueueKeepsRows DEF Cosign, Return, Goes
<1>12. CASE GiveUp(r)
  BY <1>12, AbortKeepsRows, Zenon DEF GiveUp, AbortOnly, Return
<1> QED
  BY <1>1, <1>2, <1>3, <1>4, <1>5, <1>6, <1>7, <1>8, <1>9, <1>10, <1>11, <1>12
     DEF HandlerStep

(* Every step of the system keeps the rows in agreement.                   *)
LEMMA NextKeepsRows ==
    ASSUME Rows, [Next]_vars
    PROVE  Rows'
<1>1. ASSUME UNCHANGED <<storeVars, handler>>
      PROVE  Rows'
  BY <1>1, RowsStay, SMTT(30) DEF Rows, StoreType
<1>2. ASSUME NEW r \in Requests, ClientLeaves(r) \/ SendChunk(r) \/ FinishJob(r) \/ FailJob(r)
      PROVE  Rows'
  BY <1>1, <1>2 DEF ClientLeaves, SendChunk, FinishJob, FailJob, Deliver
<1>3. ASSUME NEW r \in Requests, NEW m \in Machines,
             startJob(m, r) \/ CancelJob(m, r) \/ signProposal(m, r)
      PROVE  Rows'
  BY <1>1, <1>3 DEF startJob, CancelJob, signProposal, Deliver
<1>4. ASSUME NEW m \in Machines, LoseConnection(m) \/ unregister(m) \/ Connect(m)
      PROVE  Rows'
  BY <1>1, <1>4 DEF LoseConnection, unregister, Connect, serverVars
<1>5. ASSUME NEW m \in Machines, Heartbeat(m)
      PROVE  Rows'
  <2>1. /\ capacity' \in [Offers -> Nat]
        /\ UNCHANGED <<state, sessionOf, offerOf, maximum, hold, held, nonce, confirmed, queue>>
        /\ UNCHANGED handler
    BY <1>5 DEF Heartbeat, ReconcileProviderCapacity, FreeSlot, serverVars, Rows, StoreType
  <2>2. StoreType'
    BY <2>1, SMTT(30) DEF Rows, StoreType
  <2>3. RowsAgree'
    BY <2>1 DEF Rows, RowsAgree, RowAgrees
  <2> QED BY <2>2, <2>3 DEF Rows
<1>6. CASE Crash
  <2>1. /\ UNCHANGED storeVars
        /\ handler' \in [Requests -> Waits]
        /\ \A q \in Requests : handler'[q] # handler[q] => handler'[q] = "lost"
    BY <1>6 DEF Crash, Rows, StoreType, Waits
  <2> QED BY <2>1, RowsStay DEF None
<1>7. CASE UNCHANGED vars
  BY <1>1, <1>7 DEF vars, storeVars
<1> QED
  BY <1>2, <1>3, <1>4, <1>5, <1>6, <1>7, ReserveKeepsRows, HandlerKeepsRows,
     SubmitKeepsRows, SettledKeepsRows
     DEF Next

-----------------------------------------------------------------------------
(* Billing and the daemon's job *)

Jobs == {None, "running", "cancelled", "finished", "exceeded", "failed"}
Events == {"accept", "data", "finished", "exceeded", "error", "signature"}
Messages == [type : {"offer", "cancel", "proposal"}, request : Requests]

JobType ==
    /\ job \in [Requests -> Jobs]
    /\ events \in [Requests -> Seq(Events)]
    /\ down \in [Machines -> Seq(Messages)]
    /\ connected \subseteq Machines

(* The offers of a request that are under way. *)
OfferAt(r, m, i) == down[m][i] = [type |-> "offer", request |-> r]
InFlight(r) == \E m \in Machines : \E i \in DOMAIN down[m] : OfferAt(r, m, i)
Sole(r) ==
    \A m, n \in Machines : \A i \in DOMAIN down[m], j \in DOMAIN down[n] :
        OfferAt(r, m, i) /\ OfferAt(r, n, j) => m = n /\ i = j

(* Where a handler is once it has read the last chunk. *)
Late == {"completing", "preparing", "proposing", "signing", "unsure"}

(* A request is offered once, so a job that finished never runs again, and *)
(* whatever is done with the receipt is done after it finished.            *)
JobAgrees(r) ==
    /\ Sole(r)
    /\ InFlight(r) => job[r] = None /\ handler[r] \notin {None, "reserved"}
    /\ handler[r] \in {None, "reserved"} => job[r] = None
    /\ \A i \in DOMAIN events[r] : events[r][i] = "finished" => job[r] = "finished"
    /\ handler[r] \in Late \/ queue[r] # None => job[r] = "finished"

JobsAgree == JobType /\ \A r \in Requests : JobAgrees(r)

(* Messages to a machine that are no offers, or are read or lost.          *)
NoOffer ==
    \/ UNCHANGED down
    \/ \E m \in Machines : down[m] # <<>> /\ down' = [down EXCEPT ![m] = Tail(@)]
    \/ \E m \in Machines : down' = [down EXCEPT ![m] = <<>>]
    \/ down' = [m \in Machines |-> <<>>]
    \/ \E m \in Machines, type \in {"cancel", "proposal"}, r \in Requests :
           down' = Sent(m, type, r)

(* The machines' channels hold messages.                                   *)
LEMMA MessagesTyped ==
    ASSUME JobType, NoOffer
    PROVE  down' \in [Machines -> Seq(Messages)]
<1>1. down \in [Machines -> Seq(Messages)]
  BY DEF JobType
<1>2. ASSUME NEW m \in Machines, down[m] # <<>>, down' = [down EXCEPT ![m] = Tail(@)]
      PROVE  down' \in [Machines -> Seq(Messages)]
  <2>1. Tail(down[m]) \in Seq(Messages)
    BY <1>1, <1>2
  <2> QED BY <1>1, <1>2, <2>1
<1>3. ASSUME NEW m \in Machines, NEW type \in {"cancel", "proposal"}, NEW q \in Requests,
             down' = Sent(m, type, q)
      PROVE  down' \in [Machines -> Seq(Messages)]
  <2>1. [type |-> type, request |-> q] \in Messages
    BY DEF Messages
  <2>2. down[m] \in Seq(Messages)
    BY <1>1
  <2>3. Append(down[m], [type |-> type, request |-> q]) \in Seq(Messages)
    BY <2>1, <2>2
  <2> QED BY <1>1, <1>3, <2>3 DEF Sent
<1>4. ASSUME NEW m \in Machines, down' = [down EXCEPT ![m] = <<>>]
      PROVE  down' \in [Machines -> Seq(Messages)]
  BY <1>1, <1>4
<1>5. CASE down' = [m \in Machines |-> <<>>]
  BY <1>5
<1>6. CASE UNCHANGED down
  BY <1>1, <1>6
<1> QED
  BY <1>2, <1>3, <1>4, <1>5, <1>6 DEF NoOffer

(* Without a new offer, what is under way was under way before.            *)
LEMMA OffersStay ==
    ASSUME JobType, NoOffer, NEW r \in Requests, Sole(r)
    PROVE  Sole(r)' /\ (InFlight(r)' => InFlight(r))
<1>1. down \in [Machines -> Seq(Messages)]
  BY DEF JobType
<1>2. CASE UNCHANGED down
  BY <1>1, <1>2 DEF Sole, InFlight, OfferAt
<1>3. ASSUME NEW m \in Machines, down[m] # <<>>, down' = [down EXCEPT ![m] = Tail(@)]
      PROVE  Sole(r)' /\ (InFlight(r)' => InFlight(r))
  <2>1. /\ down[m] \in Seq(Messages)
        /\ Len(down[m]) \in Nat /\ DOMAIN down[m] = 1 .. Len(down[m])
        /\ DOMAIN Tail(down[m]) = 1 .. Len(down[m]) - 1
        /\ \A i \in 1 .. Len(down[m]) - 1 : Tail(down[m])[i] = down[m][i + 1]
    BY <1>1, <1>3
  <2>3. /\ down'[m] = Tail(down[m])
        /\ \A n \in Machines : n # m => down'[n] = down[n]
    BY <1>1, <1>3
  <2>4. \A i \in DOMAIN down'[m] : i \in Int /\ i + 1 \in DOMAIN down[m]
                                   /\ down'[m][i] = down[m][i + 1]
    BY <2>1, <2>3
  <2> DEFINE Was(n, i) == IF n = m THEN i + 1 ELSE i
  <2>5. \A n \in Machines : \A i \in DOMAIN down'[n] :
            OfferAt(r, n, i)' => Was(n, i) \in DOMAIN down[n] /\ OfferAt(r, n, Was(n, i))
    BY <2>3, <2>4, Zenon DEF OfferAt
  <2>6. Sole(r)'
    <3> SUFFICES ASSUME NEW n \in Machines, NEW p \in Machines,
                        NEW i \in DOMAIN down'[n], NEW j \in DOMAIN down'[p],
                        OfferAt(r, n, i)', OfferAt(r, p, j)'
                 PROVE  n = p /\ i = j
      BY DEF Sole
    <3>1. n = p /\ Was(n, i) = Was(p, j)
      <4> HIDE DEF Was
      <4> QED BY <2>5 DEF Sole
    <3> QED BY <2>4, <3>1
  <2>7. InFlight(r)' => InFlight(r)
    <3> HIDE DEF Was
    <3> QED BY <2>5 DEF InFlight
  <2> QED BY <2>6, <2>7
<1>4. ASSUME NEW m \in Machines, down' = [down EXCEPT ![m] = <<>>]
      PROVE  Sole(r)' /\ (InFlight(r)' => InFlight(r))
  <2>1. DOMAIN down'[m] = {} /\ \A n \in Machines : n # m => down'[n] = down[n]
    BY <1>1, <1>4
  <2>3. \A n \in Machines : \A i \in DOMAIN down'[n] :
            OfferAt(r, n, i)' => i \in DOMAIN down[n] /\ OfferAt(r, n, i)
    BY <2>1 DEF OfferAt
  <2>4. Sole(r)' /\ (InFlight(r)' => InFlight(r))
    BY <2>3 DEF Sole, InFlight
  <2> QED BY <2>4
<1>5. CASE down' = [m \in Machines |-> <<>>]
  <2>1. \A m \in Machines : DOMAIN down'[m] = {}
    BY <1>5
  <2> QED BY <2>1 DEF Sole, InFlight
<1>6. ASSUME NEW m \in Machines, NEW type \in {"cancel", "proposal"}, NEW q \in Requests,
             down' = Sent(m, type, q)
      PROVE  Sole(r)' /\ (InFlight(r)' => InFlight(r))
  <2> DEFINE message == [type |-> type, request |-> q]
  <2>1. message \in Messages /\ message # [type |-> "offer", request |-> r]
    BY DEF Messages
  <2>2. down' = [down EXCEPT ![m] = Append(down[m], message)]
    BY <1>1, <1>6 DEF Sent
  <2> HIDE DEF message
  <2>3. down[m] \in Seq(Messages)
    BY <1>1
  <2>4. /\ Len(down[m]) \in Nat
        /\ DOMAIN down[m] = 1 .. Len(down[m])
        /\ DOMAIN Append(down[m], message) = 1 .. Len(down[m]) + 1
        /\ \A i \in 1 .. Len(down[m]) : Append(down[m], message)[i] = down[m][i]
        /\ Append(down[m], message)[Len(down[m]) + 1] = message
    BY <2>1, <2>3
  <2>5. /\ down'[m] = Append(down[m], message)
        /\ \A n \in Machines : n # m => down'[n] = down[n]
    BY <1>1, <2>2
  <2>7. \A n \in Machines : \A i \in DOMAIN down'[n] :
            OfferAt(r, n, i)' => i \in DOMAIN down[n] /\ OfferAt(r, n, i)
    <3> SUFFICES ASSUME NEW n \in Machines, NEW i \in DOMAIN down'[n],
                        down'[n][i] = [type |-> "offer", request |-> r]
                 PROVE  i \in DOMAIN down[n] /\ down[n][i] = down'[n][i]
      BY DEF OfferAt
    <3>1. CASE n # m
      BY <2>5, <3>1
    <3>2. CASE n = m
      <4>1. i \in 1 .. Len(down[m]) + 1
        BY <2>4, <2>5, <3>2
      <4>2. i # Len(down[m]) + 1
        BY <2>1, <2>4, <2>5, <3>2
      <4>3. i \in 1 .. Len(down[m])
        BY <2>4, <4>1, <4>2, SMTT(30)
      <4> QED BY <2>4, <2>5, <3>2, <4>3
    <3> QED BY <3>1, <3>2
  <2>8. Sole(r)' /\ (InFlight(r)' => InFlight(r))
    BY <2>7 DEF Sole, InFlight
  <2> QED BY <2>8
<1> QED
  BY <1>2, <1>3, <1>4, <1>5, <1>6 DEF NoOffer

(* The one offer of a request is gone when the daemon has read it.         *)
LEMMA OfferTaken ==
    ASSUME JobType, NEW r \in Requests, Sole(r), NEW m \in Machines, down[m] # <<>>,
           Head(down[m]) = [type |-> "offer", request |-> r],
           down' = [down EXCEPT ![m] = Tail(@)]
    PROVE  ~InFlight(r)'
<1>1. down \in [Machines -> Seq(Messages)] /\ down[m] \in Seq(Messages)
  BY DEF JobType
<1>2. /\ Len(down[m]) \in Nat /\ DOMAIN down[m] = 1 .. Len(down[m])
      /\ DOMAIN Tail(down[m]) = 1 .. Len(down[m]) - 1
      /\ \A i \in 1 .. Len(down[m]) - 1 : Tail(down[m])[i] = down[m][i + 1]
      /\ Head(down[m]) = down[m][1] /\ 1 \in DOMAIN down[m]
  BY <1>1
<1>3. down'[m] = Tail(down[m]) /\ \A n \in Machines : n # m => down'[n] = down[n]
  BY <1>1
<1>4. OfferAt(r, m, 1)
  BY <1>2 DEF OfferAt
<1> SUFFICES ASSUME NEW n \in Machines, NEW i \in DOMAIN down'[n], OfferAt(r, n, i)'
             PROVE  FALSE
  BY DEF InFlight
<1>5. CASE n # m
  BY <1>2, <1>3, <1>4, <1>5 DEF Sole, OfferAt
<1>6. CASE n = m
  <2>1. i \in 1 .. Len(down[m]) - 1 /\ down'[m][i] = Tail(down[m])[i]
    BY <1>2, <1>3, <1>6, Zenon
  <2>2. i \in Int /\ i >= 1 /\ i + 1 \in DOMAIN down[m] /\ down'[m][i] = down[m][i + 1]
    BY <1>2, <2>1
  <2>3. OfferAt(r, m, i + 1)
    BY <1>6, <2>2 DEF OfferAt
  <2>4. i + 1 = 1
    BY <1>2, <1>4, <2>2, <2>3 DEF Sole
  <2> QED BY <2>2, <2>4
<1> QED
  BY <1>5, <1>6

(* The first offer of a request is its only one; the others are untouched. *)
LEMMA OfferSent ==
    ASSUME JobType, NEW r \in Requests, ~InFlight(r), NEW m \in Machines,
           down' = Sent(m, "offer", r)
    PROVE  /\ down' \in [Machines -> Seq(Messages)]
           /\ Sole(r)'
           /\ \A q \in Requests : q # r /\ Sole(q) => Sole(q)' /\ (InFlight(q)' => InFlight(q))
<1> DEFINE message == [type |-> "offer", request |-> r]
<1>1. down \in [Machines -> Seq(Messages)] /\ down[m] \in Seq(Messages)
  BY DEF JobType
<1>2. message \in Messages /\ \A q : q # r => message # [type |-> "offer", request |-> q]
  BY DEF Messages
<1>3. down' = [down EXCEPT ![m] = Append(down[m], message)]
  BY <1>1 DEF Sent
<1> HIDE DEF message
<1>4. /\ Append(down[m], message) \in Seq(Messages) /\ Len(down[m]) \in Nat
      /\ DOMAIN down[m] = 1 .. Len(down[m])
      /\ DOMAIN Append(down[m], message) = 1 .. Len(down[m]) + 1
      /\ \A i \in 1 .. Len(down[m]) : Append(down[m], message)[i] = down[m][i]
      /\ Append(down[m], message)[Len(down[m]) + 1] = message
  BY <1>1, <1>2
<1>5. /\ down'[m] = Append(down[m], message)
      /\ \A n \in Machines : n # m => down'[n] = down[n]
  BY <1>1, <1>3
<1>6. down' \in [Machines -> Seq(Messages)]
  BY <1>1, <1>3, <1>4, Zenon
<1>7. \A n \in Machines : \A i \in DOMAIN down'[n] :
          \/ i \in DOMAIN down[n] /\ down'[n][i] = down[n][i]
          \/ n = m /\ i = Len(down[m]) + 1 /\ down'[n][i] = message
  <2> SUFFICES ASSUME NEW n \in Machines, NEW i \in DOMAIN down'[n]
               PROVE  \/ i \in DOMAIN down[n] /\ down'[n][i] = down[n][i]
                      \/ n = m /\ i = Len(down[m]) + 1 /\ down'[n][i] = message
    OBVIOUS
  <2>1. CASE n # m
    BY <1>5, <2>1, Zenon
  <2>2. CASE n = m
    <3>1. i \in 1 .. Len(down[m]) + 1
      BY <1>4, <1>5, <2>2
    <3>2. CASE i = Len(down[m]) + 1
      BY <1>4, <1>5, <2>2, <3>2
    <3>3. CASE i \in 1 .. Len(down[m])
      BY <1>4, <1>5, <2>2, <3>3
    <3> QED BY <1>4, <3>1, <3>2, <3>3
  <2> QED BY <2>1, <2>2
<1>8. Sole(r)'
  <2>1. \A n \in Machines : \A i \in DOMAIN down'[n] :
            OfferAt(r, n, i)' => n = m /\ i = Len(down[m]) + 1
    BY <1>7, SMTT(30) DEF OfferAt, InFlight
  <2> QED BY <2>1, Zenon DEF Sole
<1>9. ASSUME NEW q \in Requests, q # r, Sole(q)
      PROVE  Sole(q)' /\ (InFlight(q)' => InFlight(q))
  <2>1. \A n \in Machines : \A i \in DOMAIN down'[n] :
            OfferAt(q, n, i)' => i \in DOMAIN down[n] /\ OfferAt(q, n, i)
    BY <1>2, <1>7, <1>9, Zenon DEF OfferAt
  <2> QED BY <1>9, <2>1, Zenon DEF Sole, InFlight
<1> QED
  BY <1>6, <1>8, <1>9

(* Only Enqueue, from a handler that has a signature, opens a queue row.   *)
LEMMA QueueOpens ==
    ASSUME Rows, [Next]_vars, NEW q \in Requests, queue'[q] # None
    PROVE  queue[q] # None \/ handler[q] = "signing"
<1>1. StoreStep
  BY NextStores
<1>2. queue \in [Requests -> {None, "cosigned", "broadcasting", "settled"}]
  BY Zenon DEF Rows, StoreType
<1>3. CASE UNCHANGED queue
  BY <1>3
<1>4. ASSUME NEW r \in Requests, handler[r] = "signing", Enqueue(r)
      PROVE  queue[q] # None \/ handler[q] = "signing"
  BY <1>2, <1>4 DEF Enqueue
<1>5. ASSUME NEW r \in Requests, SettleBatch(r) \/ ReceiptSettled(r)
      PROVE  queue[q] # None \/ handler[q] = "signing"
  BY <1>2, <1>5, Zenon DEF SettleBatch, ReceiptSettled, None
<1>6. \/ UNCHANGED queue
      \/ \E r \in Requests : handler[r] = "signing" /\ Enqueue(r)
      \/ \E r \in Requests : SettleBatch(r) \/ ReceiptSettled(r)
  BY <1>1, ZenonT(30) DEF StoreStep, storeVars, ReserveInference, TransitionRequest, AbortInference,
     CompleteInference, PrepareReceipt, ReconcileProviderCapacity
<1> QED
  BY <1>3, <1>4, <1>5, <1>6

(* What a step may do to a request: its offer is taken or lost, its job    *)
(* ends, its handler moves on, and past the last chunk only when the job   *)
(* has finished.                                                           *)
LEMMA JobKept ==
    ASSUME NEW q \in Requests, JobAgrees(q), Sole(q)', InFlight(q)' => InFlight(q),
           \/ job'[q] = job[q]
           \/ job[q] \in {"running", "cancelled"} /\ job'[q] # None,
           \/ handler'[q] = handler[q]
           \/ handler'[q] \notin {None, "reserved"}
           \/ handler[q] = None,
           handler'[q] \in Late => handler[q] \in Late \/ job[q] = "finished",
           \A i \in DOMAIN events'[q] : events'[q][i] = "finished" => job'[q] = "finished",
           queue'[q] # None => queue[q] # None \/ handler[q] = "signing"
    PROVE  JobAgrees(q)'
<1>1. /\ InFlight(q) => job[q] = None /\ handler[q] \notin {None, "reserved"}
      /\ handler[q] \in {None, "reserved"} => job[q] = None
      /\ handler[q] \in Late \/ queue[q] # None => job[q] = "finished"
  BY Zenon DEF JobAgrees
<1>2. InFlight(q)' => job'[q] = None /\ handler'[q] \notin {None, "reserved"}
  BY <1>1, Zenon DEF None
<1>3. handler'[q] \in {None, "reserved"} => job'[q] = None
  BY <1>1, Zenon DEF None
<1>4. handler'[q] \in Late \/ queue'[q] # None => job'[q] = "finished"
  BY <1>1 DEF Late
<1> QED
  BY <1>2, <1>3, <1>4, Zenon DEF JobAgrees

(* What a handler's step does to its own channel and to messages.          *)
EventsRead(r) ==
    \/ events' = events
    \/ events' = [events EXCEPT ![r] = <<>>]
    \/ events[r] # <<>> /\ events' = [events EXCEPT ![r] = Tail(@)]

(* Reading or closing a channel brings no new event.                       *)
LEMMA EventsStay ==
    ASSUME JobType, NEW r \in Requests, EventsRead(r)
    PROVE  /\ events' \in [Requests -> Seq(Events)]
           /\ \A q \in Requests : \A i \in DOMAIN events'[q] :
                  \E j \in DOMAIN events[q] : events'[q][i] = events[q][j]
<1>1. events \in [Requests -> Seq(Events)] /\ events[r] \in Seq(Events)
  BY DEF JobType
<1>2. CASE events' = events
  BY <1>1, <1>2
<1>3. CASE events' = [events EXCEPT ![r] = <<>>]
  BY <1>1, <1>3
<1>4. CASE events[r] # <<>> /\ events' = [events EXCEPT ![r] = Tail(@)]
  <2>1. /\ Tail(events[r]) \in Seq(Events) /\ Len(events[r]) \in Nat
        /\ DOMAIN events[r] = 1 .. Len(events[r])
        /\ DOMAIN Tail(events[r]) = 1 .. Len(events[r]) - 1
        /\ \A i \in 1 .. Len(events[r]) - 1 : Tail(events[r])[i] = events[r][i + 1]
    BY <1>1, <1>4
  <2>2. /\ events'[r] = Tail(events[r])
        /\ \A q \in Requests : q # r => events'[q] = events[q]
    BY <1>1, <1>4
  <2>3. \A i \in DOMAIN events'[r] : i + 1 \in DOMAIN events[r]
                                     /\ events'[r][i] = events[r][i + 1]
    BY <2>1, <2>2
  <2>4. events' \in [Requests -> Seq(Events)]
    BY <1>1, <1>4, <2>1
  <2> QED BY <2>2, <2>3, <2>4, Zenon
<1> QED
  BY <1>2, <1>3, <1>4 DEF EventsRead

(* The step of a handler seen from the daemon's side. *)
HandlerMoves(r) ==
    /\ EventsRead(r) /\ UNCHANGED <<connected, job>>
    /\ \/ NoOffer
       \/ handler[r] = "reserved" /\ \E m \in Machines : down' = Sent(m, "offer", r)
    /\ \E where \in Waits \ {None, "reserved"} :
          /\ handler' = [handler EXCEPT ![r] = where]
          /\ where \in Late => handler[r] \in Late \/ NextEvent(r, "finished")

(* Every step of a handler is of this kind. *)
LEMMA HandlerStepMoves ==
    ASSUME JobType, NEW r \in Requests, HandlerStep(r)
    PROVE  HandlerMoves(r)
<1>1. \A type \in {"cancel", "proposal"} :
          Sendable(MachineFor(r)) /\ down' = Sent(MachineFor(r), type, r) => NoOffer
  BY DEF JobType, Sendable, NoOffer
<1>2. UNCHANGED down => NoOffer
  BY DEF NoOffer
<1>3. cancel(r) => NoOffer
  BY <1>1, <1>2 DEF cancel
<1>4. Return(r) /\ NoOffer => HandlerMoves(r)
  BY Zenon DEF Return, HandlerMoves, EventsRead, daemonVars, Waits, Late, None
<1>5. \A terminal : AbortAndCancel(r, terminal) \/ AbortOnly(r, terminal) => HandlerMoves(r)
  BY <1>2, <1>3, <1>4 DEF AbortAndCancel, AbortOnly
<1>6. ASSUME NEW where \in Waits \ {None, "reserved"}, Goes(r, where), EventsRead(r),
             \/ NoOffer
             \/ handler[r] = "reserved" /\ \E m \in Machines : down' = Sent(m, "offer", r),
             where \in Late => handler[r] \in Late \/ NextEvent(r, "finished")
      PROVE  HandlerMoves(r)
  BY <1>6, Zenon DEF Goes, HandlerMoves, daemonVars
<1>7. /\ UNCHANGED events => EventsRead(r)
      /\ \A type : NextEvent(r, type) /\ events' = [events EXCEPT ![r] = Tail(@)]
             => EventsRead(r)
  BY DEF EventsRead, NextEvent
<1>8. {"waitAccepted", "accepting", "streaming", "chunk", "completing", "preparing",
       "proposing", "signing", "unsure"} \subseteq Waits \ {None, "reserved"}
  BY DEF Waits, None
<1>9. CASE SendOffer(r)
  <2>1. Sendable(MachineFor(r)) /\ down' = Sent(MachineFor(r), "offer", r)
            => \E m \in Machines : down' = Sent(m, "offer", r)
    BY DEF Sendable, JobType
  <2> QED BY <1>5, <1>6, <1>7, <1>8, <1>9, <2>1 DEF SendOffer, Late
<1>10. CASE waitAccepted(r)
  BY <1>2, <1>5, <1>6, <1>7, <1>8, <1>10 DEF waitAccepted, Late
<1>11. CASE TransitionAccepted(r)
  BY <1>2, <1>5, <1>6, <1>7, <1>8, <1>11, Zenon DEF TransitionAccepted, Late
<1>12. CASE TransitionStreaming(r)
  BY <1>2, <1>5, <1>6, <1>7, <1>8, <1>12, Zenon DEF TransitionStreaming, Late
<1>13. CASE HandleChunk(r)
  BY <1>2, <1>5, <1>6, <1>7, <1>8, <1>13, Zenon DEF HandleChunk, Late
<1>14. CASE HandleError(r) \/ EndStream(r) \/ GiveUp(r)
  BY <1>5, <1>14 DEF HandleError, EndStream, GiveUp
<1>15. CASE Complete(r)
  BY <1>2, <1>5, <1>6, <1>7, <1>8, <1>15, Zenon DEF Complete, Late
<1>16. CASE Prepare(r)
  BY <1>2, <1>5, <1>6, <1>7, <1>8, <1>16, Zenon DEF Prepare, Late
<1>17. CASE Propose(r)
  BY <1>1, <1>5, <1>6, <1>7, <1>8, <1>17, Zenon DEF Propose, Late
<1>18. CASE Cosign(r)
  BY <1>2, <1>4, <1>6, <1>7, <1>8, <1>18 DEF Cosign, Late
<1> QED
  BY <1>9, <1>10, <1>11, <1>12, <1>13, <1>14, <1>15, <1>16, <1>17, <1>18 DEF HandlerStep

(* A handler passes the last chunk only after the job has finished.        *)
LEMMA HandlerKeepsJobs ==
    ASSUME Rows, JobsAgree, [Next]_vars, NEW r \in Requests, HandlerMoves(r)
    PROVE  JobsAgree'
<1>1. JobType /\ JobAgrees(r) /\ \A q \in Requests : JobAgrees(q) /\ Sole(q)
  BY DEF JobsAgree, JobAgrees
<1>2. PICK where \in Waits \ {None, "reserved"} :
          /\ handler' = [handler EXCEPT ![r] = where]
          /\ where \in Late => handler[r] \in Late \/ NextEvent(r, "finished")
  BY Zenon DEF HandlerMoves
<1>3. handler \in [Requests -> Waits]
  BY DEF Rows, StoreType
<1>4. /\ events' \in [Requests -> Seq(Events)]
      /\ \A q \in Requests : \A i \in DOMAIN events'[q] :
             \E j \in DOMAIN events[q] : events'[q][i] = events[q][j]
  BY <1>1, EventsStay, Zenon DEF HandlerMoves
<1>5. NextEvent(r, "finished") => job[r] = "finished"
  <2> SUFFICES ASSUME events[r] # <<>>, Head(events[r]) = "finished"
               PROVE  job[r] = "finished"
    BY Zenon DEF NextEvent
  <2>1. 1 \in DOMAIN events[r] /\ events[r][1] = "finished"
    BY <1>1 DEF JobType
  <2> QED BY <1>1, <2>1, Zenon DEF JobAgrees
<1>6. UNCHANGED <<connected, job>>
  BY Zenon DEF HandlerMoves
<1>7. ASSUME NEW q \in Requests, Sole(q)',
             InFlight(q)' => InFlight(q)
      PROVE  JobAgrees(q)'
  <2>1. \/ q # r /\ handler'[q] = handler[q]
        \/ q = r /\ handler'[q] = where
    BY <1>2, <1>3, Zenon
  <2>2. \A i \in DOMAIN events'[q] : events'[q][i] = "finished" => job'[q] = "finished"
    BY <1>1, <1>4, <1>6, Zenon DEF JobAgrees
  <2>3. handler'[q] \in Late => handler[q] \in Late \/ job[q] = "finished"
    BY <1>2, <1>5, <2>1, Zenon
  <2>4. queue'[q] # None => queue[q] # None \/ handler[q] = "signing"
    BY QueueOpens, Zenon
  <2> QED BY <1>1, <1>6, <1>7, <2>1, <2>2, <2>3, <2>4, JobKept, Zenon
<1>8. CASE NoOffer
  <2>1. /\ down' \in [Machines -> Seq(Messages)]
        /\ \A q \in Requests : Sole(q)' /\ (InFlight(q)' => InFlight(q))
    BY <1>1, <1>8, MessagesTyped, OffersStay, Zenon
  <2>2. JobType'
    BY <1>1, <1>4, <1>6, <2>1, Zenon DEF JobType
  <2> QED BY <1>7, <2>1, <2>2 DEF JobsAgree
<1>9. ASSUME handler[r] = "reserved", NEW m \in Machines, down' = Sent(m, "offer", r)
      PROVE  JobsAgree'
  <2>1. ~InFlight(r) /\ job[r] = None
    BY <1>1, <1>9, Zenon DEF JobAgrees
  <2>2. /\ down' \in [Machines -> Seq(Messages)] /\ Sole(r)'
        /\ \A q \in Requests : q # r /\ Sole(q) => Sole(q)' /\ (InFlight(q)' => InFlight(q))
    BY <1>1, <1>9, <2>1, OfferSent, Zenon
  <2>3. JobType'
    BY <1>1, <1>4, <1>6, <2>2, Zenon DEF JobType
  <2>4. \A q \in Requests : q # r => JobAgrees(q)'
    BY <1>1, <1>7, <2>2, Zenon
  <2>5. JobAgrees(r)'
    <3>1. handler'[r] = where /\ where \notin {None, "reserved"}
      BY <1>2, <1>3, Zenon
    <3>2. \A i \in DOMAIN events'[r] : events'[r][i] = "finished" => job'[r] = "finished"
      BY <1>1, <1>4, <1>6 DEF JobAgrees
    <3>3. handler'[r] \notin Late
      BY <1>2, <1>5, <1>9, <2>1, <3>1, Zenon DEF Late, None
    <3>4. queue'[r] = None
      BY <1>1, <1>9, <2>1, QueueOpens, Zenon DEF JobAgrees, None
    <3> QED BY <1>6, <2>1, <2>2, <3>1, <3>2, <3>3, <3>4 DEF JobAgrees
  <2> QED BY <2>3, <2>4, <2>5, Zenon DEF JobsAgree
<1> QED
  BY <1>8, <1>9, Zenon DEF HandlerMoves

(* A step beside the handlers: no offer is sent, no handler passes the     *)
(* last chunk, and a job changes only while it runs.                       *)
LEMMA OthersKeepJobs ==
    ASSUME Rows, JobsAgree, [Next]_vars, NoOffer,
           job' \in [Requests -> Jobs], events' \in [Requests -> Seq(Events)],
           connected' \subseteq Machines,
           \A q \in Requests :
               /\ \/ job'[q] = job[q]
                  \/ job[q] \in {"running", "cancelled"} /\ job'[q] # None
               /\ \/ handler'[q] = handler[q]
                  \/ handler'[q] = "lost"
                  \/ handler[q] = None /\ handler'[q] = "reserved"
               /\ \A i \in DOMAIN events'[q] : events'[q][i] = "finished" =>
                      \/ \E j \in DOMAIN events[q] : events[q][j] = "finished"
                      \/ job'[q] = "finished"
    PROVE  JobsAgree'
<1>1. JobType /\ \A q \in Requests : JobAgrees(q) /\ Sole(q)
  BY Zenon DEF JobsAgree, JobAgrees
<1>2. /\ down' \in [Machines -> Seq(Messages)]
      /\ \A q \in Requests : Sole(q)' /\ (InFlight(q)' => InFlight(q))
  BY <1>1, MessagesTyped, OffersStay, Zenon
<1>3. JobType'
  BY <1>2, Zenon DEF JobType
<1>4. ASSUME NEW q \in Requests PROVE JobAgrees(q)'
  <2>1. job[q] = "finished" => job'[q] = "finished"
    BY Zenon
  <2>2. \A i \in DOMAIN events'[q] : events'[q][i] = "finished" => job'[q] = "finished"
    BY <1>1, <2>1, Zenon DEF JobAgrees
  <2>3. /\ \/ handler'[q] = handler[q] \/ handler'[q] \notin {None, "reserved"}
           \/ handler[q] = None
        /\ handler'[q] \in Late => handler[q] \in Late
    BY Zenon DEF Late, None
  <2>4. queue'[q] # None => queue[q] # None \/ handler[q] = "signing"
    BY QueueOpens, Zenon
  <2> QED BY <1>1, <1>2, <2>2, <2>3, <2>4, JobKept, ZenonT(30)
<1> QED
  BY <1>3, <1>4, Zenon DEF JobsAgree

(* The broker appends at most the message it was given.                    *)
LEMMA Delivered ==
    ASSUME JobType, NEW r \in Requests, NEW type \in Events, Deliver(r, type)
    PROVE  /\ events' \in [Requests -> Seq(Events)]
           /\ UNCHANGED <<handler, connected>>
           /\ \A q \in Requests : \A i \in DOMAIN events'[q] :
                  \/ \E j \in DOMAIN events[q] : events'[q][i] = events[q][j]
                  \/ q = r /\ events'[q][i] = type
<1>1. events \in [Requests -> Seq(Events)] /\ events[r] \in Seq(Events)
  BY DEF JobType
<1>2. UNCHANGED <<handler, connected>>
  BY DEF Deliver
<1>3. CASE events' = events
  BY <1>1, <1>2, <1>3
<1>4. CASE events' = [events EXCEPT ![r] = Append(@, type)]
  <2>1. /\ Append(events[r], type) \in Seq(Events) /\ Len(events[r]) \in Nat
        /\ DOMAIN events[r] = 1 .. Len(events[r])
        /\ DOMAIN Append(events[r], type) = 1 .. Len(events[r]) + 1
        /\ \A i \in 1 .. Len(events[r]) : Append(events[r], type)[i] = events[r][i]
        /\ Append(events[r], type)[Len(events[r]) + 1] = type
    BY <1>1
  <2>2. /\ events'[r] = Append(events[r], type)
        /\ \A q \in Requests : q # r => events'[q] = events[q]
    BY <1>1, <1>4, Zenon
  <2>3. \A i \in DOMAIN events'[r] :
            \/ i \in DOMAIN events[r] /\ events'[r][i] = events[r][i]
            \/ events'[r][i] = type
    BY <2>1, <2>2
  <2>4. events' \in [Requests -> Seq(Events)]
    BY <1>1, <1>4, <2>1, Zenon
  <2> QED BY <1>2, <2>2, <2>3, <2>4
<1> QED
  BY <1>3, <1>4 DEF Deliver

(* The daemon's answers: the last chunk is sent as the job finishes.       *)
LEMMA AnswersKeepJobs ==
    ASSUME Rows, JobsAgree, [Next]_vars, NEW r \in Requests,
           SendChunk(r) \/ FinishJob(r) \/ FailJob(r)
    PROVE  JobsAgree'
<1>1. JobType
  BY DEF JobsAgree
<1>2. job \in [Requests -> Jobs] /\ connected \subseteq Machines
  BY <1>1 DEF JobType
<1>3. NoOffer
  BY DEF NoOffer, SendChunk, FinishJob, FailJob
<1>4. PICK type \in {"data", "finished", "exceeded", "error"} :
          /\ Deliver(r, type)
          /\ \/ type = "data" /\ job' = job
             \/ /\ type # "data" /\ job[r] \in {"running", "cancelled"}
                /\ \E result \in Jobs \ {None} :
                       /\ job' = [job EXCEPT ![r] = result]
                       /\ type = "finished" => result = "finished"
  BY DEF SendChunk, FinishJob, FailJob, Jobs, None
<1>5. /\ events' \in [Requests -> Seq(Events)]
      /\ UNCHANGED <<handler, connected>>
      /\ \A q \in Requests : \A i \in DOMAIN events'[q] :
             \/ \E j \in DOMAIN events[q] : events'[q][i] = events[q][j]
             \/ q = r /\ events'[q][i] = type
  <2>1. type \in Events
    BY DEF Events
  <2>2. Deliver(r, type)
    BY <1>4
  <2> QED BY <1>1, <2>1, <2>2, Delivered, Zenon
<1>6. job' \in [Requests -> Jobs]
  BY <1>2, <1>4
<1>7. \A q \in Requests :
          \/ job'[q] = job[q]
          \/ job[q] \in {"running", "cancelled"} /\ job'[q] # None
  BY <1>2, <1>4
<1>8. type = "finished" => job'[r] = "finished"
  BY <1>2, <1>4
<1>9. ASSUME NEW q \in Requests, NEW i \in DOMAIN events'[q], events'[q][i] = "finished"
      PROVE  \/ \E j \in DOMAIN events[q] : events[q][j] = "finished"
             \/ job'[q] = "finished"
  BY <1>5, <1>8, <1>9, Zenon
<1>10. connected' \subseteq Machines /\ \A q \in Requests : handler'[q] = handler[q]
  BY <1>2, <1>5, Zenon
<1>11. events' \in [Requests -> Seq(Events)]
  BY <1>5
<1> QED
  BY <1>3, <1>6, <1>7, <1>9, <1>10, <1>11, OthersKeepJobs, Zenon

(* The daemon's messages: a job starts when its only offer is read, so no  *)
(* finished job starts again.                                              *)
LEMMA ArrivalsKeepJobs ==
    ASSUME Rows, JobsAgree, [Next]_vars, NEW r \in Requests, NEW m \in Machines,
           startJob(m, r) \/ CancelJob(m, r) \/ signProposal(m, r)
    PROVE  JobsAgree'
<1>1. JobType /\ \A q \in Requests : JobAgrees(q) /\ Sole(q)
  BY Zenon DEF JobsAgree, JobAgrees
<1>2. job \in [Requests -> Jobs] /\ connected \subseteq Machines
      /\ events \in [Requests -> Seq(Events)] /\ down \in [Machines -> Seq(Messages)]
  BY <1>1, Zenon DEF JobType
<1>3. down[m] # <<>> /\ down' = [down EXCEPT ![m] = Tail(@)]
  BY DEF startJob, CancelJob, signProposal, Arrives
<1>4. NoOffer
  BY <1>3, Zenon DEF NoOffer
<1>5. CASE CancelJob(m, r)
  <2>1. /\ job' = [job EXCEPT ![r] = IF @ = "running" THEN "cancelled" ELSE @]
        /\ UNCHANGED <<handler, events, connected>>
    BY <1>5 DEF CancelJob
  <2>2. job' \in [Requests -> Jobs]
    BY <1>2, <2>1 DEF Jobs
  <2>3. \A q \in Requests :
            \/ job'[q] = job[q]
            \/ job[q] \in {"running", "cancelled"} /\ job'[q] # None
    BY <1>2, <2>1 DEF None
  <2> QED BY <1>2, <1>4, <2>1, <2>2, <2>3, OthersKeepJobs, Zenon
<1>6. CASE signProposal(m, r)
  <2>1. job' = job
    BY <1>6, Zenon DEF signProposal, daemonVars
  <2>2. /\ events' \in [Requests -> Seq(Events)] /\ UNCHANGED <<handler, connected>>
        /\ \A q \in Requests : \A i \in DOMAIN events'[q] :
               \/ \E j \in DOMAIN events[q] : events'[q][i] = events[q][j]
               \/ q = r /\ events'[q][i] = "signature"
    <3>1. CASE Deliver(r, "signature")
      BY <1>1, <3>1, Delivered, Zenon DEF Events
    <3>2. CASE UNCHANGED <<handler, events, connected>>
      BY <1>2, <3>2, Zenon
    <3> QED BY <1>6, <3>1, <3>2, Zenon DEF signProposal
  <2>3. ASSUME NEW q \in Requests, NEW i \in DOMAIN events'[q], events'[q][i] = "finished"
        PROVE  \E j \in DOMAIN events[q] : events[q][j] = "finished"
    <3>1. events'[q][i] # "signature"
      BY <2>3
    <3> QED BY <2>2, <2>3, <3>1, Zenon
  <2>4. /\ job' \in [Requests -> Jobs] /\ connected' \subseteq Machines
        /\ \A q \in Requests : job'[q] = job[q] /\ handler'[q] = handler[q]
    BY <1>2, <2>1, <2>2, Zenon
  <2>5. events' \in [Requests -> Seq(Events)]
    BY <2>2, Zenon
  <2> QED BY <1>4, <2>3, <2>4, <2>5, OthersKeepJobs, Zenon
<1>7. CASE startJob(m, r)
  <2>1. /\ Head(down[m]) = [type |-> "offer", request |-> r]
        /\ job' = [job EXCEPT ![r] = "running"] /\ Deliver(r, "accept")
    BY <1>7 DEF startJob, Arrives
  <2>2. /\ events' \in [Requests -> Seq(Events)] /\ UNCHANGED <<handler, connected>>
        /\ \A q \in Requests : \A i \in DOMAIN events'[q] :
               \/ \E j \in DOMAIN events[q] : events'[q][i] = events[q][j]
               \/ q = r /\ events'[q][i] = "accept"
    BY <1>1, <2>1, Delivered, Zenon DEF Events
  <2>3. ~InFlight(r)'
    BY <1>1, <1>3, <2>1, OfferTaken, Zenon
  <2>4. InFlight(r)
    <3>1. 1 \in DOMAIN down[m] /\ down[m][1] = Head(down[m])
      BY <1>2, <1>3, SMTT(30)
    <3> QED BY <2>1, <3>1, Zenon DEF InFlight, OfferAt
  <2>5. job[r] = None /\ handler[r] \notin {None, "reserved"}
    BY <1>1, <2>4, Zenon DEF JobAgrees
  <2>6. /\ down' \in [Machines -> Seq(Messages)]
        /\ \A q \in Requests : Sole(q)' /\ (InFlight(q)' => InFlight(q))
    BY <1>1, <1>4, MessagesTyped, OffersStay, Zenon
  <2>7. JobType'
    BY <1>2, <2>1, <2>2, <2>6, Zenon DEF JobType, Jobs
  <2>8. JobAgrees(r)'
    <3>1. \A i \in DOMAIN events'[r] : events'[r][i] # "finished"
      BY <1>1, <2>2, <2>5, Zenon DEF JobAgrees, None
    <3>2. handler'[r] \notin Late \cup {None, "reserved"} /\ queue'[r] = None
      BY <1>1, <2>2, <2>5, QueueOpens, Zenon DEF JobAgrees, Late, None
    <3> QED BY <2>3, <2>6, <3>1, <3>2, Zenon DEF JobAgrees
  <2>9. ASSUME NEW q \in Requests, q # r PROVE JobAgrees(q)'
    <3>1. job'[q] = job[q] /\ handler'[q] = handler[q]
      BY <1>2, <2>1, <2>2, <2>9, Zenon
    <3>2. \A i \in DOMAIN events'[q] : events'[q][i] = "finished" => job'[q] = "finished"
      BY <1>1, <2>2, <2>9, <3>1, Zenon DEF JobAgrees
    <3>3. queue'[q] # None => queue[q] # None \/ handler[q] = "signing"
      BY QueueOpens, Zenon
    <3> QED BY <1>1, <2>6, <3>1, <3>2, <3>3, JobKept, Zenon
  <2> QED BY <2>7, <2>8, <2>9 DEF JobsAgree
<1> QED
  BY <1>5, <1>6, <1>7

(* Connections, crashes, new requests and settlement.                      *)
LEMMA RestKeepsJobs ==
    ASSUME Rows, JobsAgree, [Next]_vars,
           \/ \E r \in Requests :
                  \/ \E s \in Sessions, o \in Offers, cost \in Costs : ServeHTTP(r, s, o, cost)
                  \/ ClientLeaves(r) \/ SettleBatch(r) \/ ReceiptSettled(r)
           \/ \E m \in Machines : LoseConnection(m) \/ unregister(m) \/ Connect(m) \/ Heartbeat(m)
           \/ Crash
           \/ UNCHANGED vars
    PROVE  JobsAgree'
<1>1. JobType
  BY DEF JobsAgree
<1>2. /\ job \in [Requests -> Jobs] /\ connected \subseteq Machines
      /\ events \in [Requests -> Seq(Events)] /\ handler \in [Requests -> Waits]
  BY <1>1, Zenon DEF JobType, Rows, StoreType
<1>3. ASSUME UNCHANGED <<job, handler, events>>, NoOffer, connected' \subseteq Machines
      PROVE  JobsAgree'
  BY <1>2, <1>3, OthersKeepJobs
<1>4. UNCHANGED down => NoOffer
  BY Zenon DEF NoOffer
<1>5. ASSUME NEW r \in Requests, NEW s \in Sessions, NEW o \in Offers, NEW cost \in Costs,
             ServeHTTP(r, s, o, cost)
      PROVE  JobsAgree'
  <2>1. /\ handler[r] = None /\ handler' = [handler EXCEPT ![r] = "reserved"]
        /\ UNCHANGED <<job, events, down, connected>>
    BY <1>5 DEF ServeHTTP, Goes, daemonVars
  <2>2. \A q \in Requests : \/ handler'[q] = handler[q]
                            \/ handler[q] = None /\ handler'[q] = "reserved"
    BY <1>2, <2>1
  <2> QED BY <1>2, <1>4, <2>1, <2>2, OthersKeepJobs, Zenon
<1>6. ASSUME NEW r \in Requests, ClientLeaves(r) \/ SettleBatch(r) \/ ReceiptSettled(r)
      PROVE  JobsAgree'
  <2>1. UNCHANGED <<job, handler, events, down, connected>>
    BY <1>6, Zenon DEF ClientLeaves, SettleBatch, ReceiptSettled, serverVars, daemonVars
  <2> QED BY <1>2, <1>3, <1>4, <2>1, Zenon
<1>7. ASSUME NEW m \in Machines, LoseConnection(m)
      PROVE  JobsAgree'
  <2>1. /\ job' = [r \in Requests |->
                       IF job[r] \in {"running", "cancelled"} /\ MachineFor(r) = m
                       THEN "failed" ELSE job[r]]
        /\ UNCHANGED <<handler, events, down, connected>>
    BY <1>7 DEF LoseConnection, serverVars
  <2>2. job' \in [Requests -> Jobs]
    BY <1>2, <2>1 DEF Jobs
  <2>3. \A q \in Requests :
            \/ job'[q] = job[q]
            \/ job[q] \in {"running", "cancelled"} /\ job'[q] # None
    BY <2>1 DEF None
  <2> QED BY <1>2, <1>4, <2>1, <2>2, <2>3, OthersKeepJobs, Zenon
<1>8. ASSUME NEW m \in Machines, unregister(m) \/ Connect(m)
      PROVE  JobsAgree'
  <2>1. down' = [down EXCEPT ![m] = <<>>]
    BY <1>8, Zenon DEF unregister, Connect
  <2>2. UNCHANGED <<job, handler, events>>
    BY <1>8, Zenon DEF unregister, Connect, daemonVars
  <2>3. connected' \subseteq Machines
    BY <1>2, <1>8 DEF unregister, Connect
  <2>4. NoOffer
    BY <2>1, Zenon DEF NoOffer
  <2> QED BY <1>3, <2>2, <2>3, <2>4, Zenon
<1>9. ASSUME NEW m \in Machines, Heartbeat(m)
      PROVE  JobsAgree'
  <2>1. UNCHANGED <<job, handler, events, down, connected>>
    BY <1>9, Zenon DEF Heartbeat, serverVars, daemonVars
  <2> QED BY <1>2, <1>3, <1>4, <2>1, Zenon
<1>10. CASE Crash
  <2>1. /\ \A q \in Requests : handler'[q] = handler[q] \/ handler'[q] = "lost"
        /\ events' = [r \in Requests |-> <<>>] /\ connected' = {} /\ job' = job
        /\ down' = [m \in Machines |-> <<>>]
    BY <1>10, Zenon DEF Crash, daemonVars
  <2>2. NoOffer
    BY <2>1, Zenon DEF NoOffer
  <2>3. <<>> \in Seq(Events) /\ DOMAIN <<>> = {}
    OBVIOUS
  <2>4. events' \in [Requests -> Seq(Events)]
    BY <2>1, <2>3, Zenon
  <2>5. \A q \in Requests : DOMAIN events'[q] = {}
    BY <2>1, <2>3, Zenon
  <2>6. job' \in [Requests -> Jobs] /\ connected' \subseteq Machines
    BY <1>2, <2>1
  <2> QED BY <2>1, <2>2, <2>4, <2>5, <2>6, OthersKeepJobs, Zenon
<1>11. CASE UNCHANGED vars
  <2>1. UNCHANGED <<job, handler, events, down, connected>>
    BY <1>11, Zenon DEF vars
  <2> QED BY <1>2, <1>3, <1>4, <2>1, Zenon
<1> QED
  BY <1>5, <1>6, <1>7, <1>8, <1>9, <1>10, <1>11

(* Every step keeps what handlers and jobs know of each other.             *)
LEMMA NextKeepsJobs == Rows /\ JobsAgree /\ [Next]_vars => JobsAgree'
<1> SUFFICES ASSUME Rows, JobsAgree, [Next]_vars PROVE JobsAgree'
  OBVIOUS
<1>1. ASSUME NEW r \in Requests, HandlerStep(r) PROVE JobsAgree'
  <2>1. HandlerMoves(r)
    BY <1>1, HandlerStepMoves DEF JobsAgree
  <2> QED BY <2>1, HandlerKeepsJobs
<1> QED
  BY <1>1, AnswersKeepJobs, ArrivalsKeepJobs, RestKeepsJobs, Zenon DEF Next

(* Before the first request nothing is stored, under way or running.       *)
LEMMA RowsAndJobsInit == Init => Rows /\ JobsAgree
<1> SUFFICES ASSUME Init PROVE Rows /\ JobsAgree
  OBVIOUS
<1>1. StoreType
  BY InferenceAssumption, Zenon DEF Init, StoreType, Absent, States, Waits, None
<1>2. RowsAgree
  BY DEF Init, RowsAgree, RowAgrees, Absent, Executing, None
<1>3. JobType
  BY DEF Init, JobType, Absent, Jobs
<1>4. \A m \in Machines : DOMAIN down[m] = {}
  BY DEF Init
<1>5. \A r \in Requests : DOMAIN events[r] = {}
  BY SMTT(30) DEF Init
<1>6. \A r \in Requests : JobAgrees(r)
  BY <1>4, <1>5 DEF Init, JobAgrees, Sole, InFlight, Absent, Late, None
<1> QED
  BY <1>1, <1>2, <1>3, <1>6 DEF Rows, JobsAgree

(* Only a job that its backend finished within the limits is billed.       *)
THEOREM OnlyFinishedIsBilled == Spec => []BilledJobsFinished
<1>1. Init => Rows /\ JobsAgree
  BY RowsAndJobsInit
<1>2. Rows /\ [Next]_vars => Rows'
  BY NextKeepsRows
<1>3. Rows /\ JobsAgree /\ [Next]_vars => JobsAgree'
  BY NextKeepsJobs, Zenon
<1>4. JobsAgree => BilledJobsFinished
  BY Zenon DEF JobsAgree, JobAgrees, BilledJobsFinished
<1> QED
  BY <1>1, <1>2, <1>3, <1>4, PTL DEF Spec

-----------------------------------------------------------------------------
(* The balance of a session *)

Paid(s) == Sum([r \in Settled(s) |-> hold[r]])

Balances == HoldsWithinBalance /\ SettlementsDrainTheBalance

(* Sets of requests are finite and what they hold adds up.                 *)
LEMMA HoldsAddUp ==
    ASSUME NEW S \in SUBSET Requests, NEW h \in [Requests -> Nat]
    PROVE  /\ IsFiniteSet(S)
           /\ [r \in S |-> h[r]] \in [S -> Nat]
           /\ Sum([r \in S |-> h[r]]) \in Nat
<1>1. IsFiniteSet(S)
  BY InferenceAssumption, FS_Subset, Zenon
<1>2. [r \in S |-> h[r]] \in [S -> Nat]
  OBVIOUS
<1> QED
  BY <1>1, <1>2, SumType, Zenon

(* Adding a request to a set of them adds what it holds.                   *)
LEMMA HoldsAddOne ==
    ASSUME NEW S \in SUBSET Requests, NEW r \in Requests, r \notin S, NEW h \in [Requests -> Nat]
    PROVE  Sum([q \in S \cup {r} |-> h[q]]) = Sum([q \in S |-> h[q]]) + h[r]
<1> DEFINE f == [q \in S \cup {r} |-> h[q]]
<1>1. IsFiniteSet(S)
  BY HoldsAddUp, Zenon
<1>2. f \in [S \cup {r} -> Nat] /\ f[r] = h[r] /\ [q \in S |-> f[q]] = [q \in S |-> h[q]]
  OBVIOUS
<1>3. Sum(f) = Sum([q \in S |-> f[q]]) + f[r]
  <2> HIDE DEF f
  <2> QED BY <1>1, <1>2, SumOneMore, Zenon
<1> QED
  BY <1>2, <1>3, Zenon

(* Fewer and smaller holds add up to less.                                 *)
LEMMA HoldsShrink ==
    ASSUME NEW T \in SUBSET Requests, NEW S \in SUBSET T,
           NEW h \in [Requests -> Nat], NEW k \in [Requests -> Nat],
           \A q \in S : k[q] <= h[q]
    PROVE  Sum([q \in S |-> k[q]]) <= Sum([q \in T |-> h[q]])
<1> DEFINE f == [q \in S |-> k[q]]
           g == [q \in T |-> h[q]]
<1>1. IsFiniteSet(T) /\ f \in [S -> Nat] /\ g \in [T -> Nat] /\ \A q \in S : f[q] <= g[q]
  BY HoldsAddUp, Zenon
<1>2. Sum(f) <= Sum(g)
  <2> HIDE DEF f, g
  <2> QED BY <1>1, SumMonotone, Zenon
<1> QED
  BY <1>2, Zenon

(* A step that settles nothing and holds no more.                          *)
HoldsNoMore ==
    /\ confirmed' = confirmed
    /\ held' \subseteq held
    /\ \A q \in held' : sessionOf'[q] = sessionOf[q] /\ hold'[q] <= hold[q]
    /\ \A q \in Requests : (queue'[q] = "settled") <=> (queue[q] = "settled")
    /\ \A q \in Requests : queue[q] = "settled" =>
           sessionOf'[q] = sessionOf[q] /\ hold'[q] = hold[q]

(* A step that settles nothing and holds no more keeps the balances.       *)
LEMMA BalancesStay ==
    ASSUME StoreType, StoreType', Balances, HoldsNoMore
    PROVE  Balances'
<1> USE DEF HoldsNoMore
<1> SUFFICES ASSUME NEW s \in Sessions
             PROVE  Locked(s)' <= confirmed'[s] /\ confirmed'[s] + Paid(s)' = Balance[s]
  BY Zenon DEF Balances, HoldsWithinBalance, SettlementsDrainTheBalance, Paid
<1>1. Locked(s) <= confirmed[s] /\ confirmed[s] + Paid(s) = Balance[s]
  BY Zenon DEF Balances, HoldsWithinBalance, SettlementsDrainTheBalance, Paid
<1>2. Locked(s)' <= Locked(s)
  <2>1. /\ HeldOf(s) \in SUBSET Requests /\ HeldOf(s)' \in SUBSET HeldOf(s)
        /\ hold \in [Requests -> Nat] /\ hold' \in [Requests -> Nat]
        /\ \A q \in HeldOf(s)' : hold'[q] <= hold[q]
    BY Zenon DEF StoreType, HeldOf
  <2>2. Sum([q \in HeldOf(s)' |-> hold'[q]]) <= Sum([q \in HeldOf(s) |-> hold[q]])
    BY <2>1, HoldsShrink, Zenon
  <2> QED BY <2>2, Zenon DEF Locked
<1>3. Paid(s)' = Paid(s)
  <2>1. Settled(s)' = Settled(s) /\ \A q \in Settled(s) : hold'[q] = hold[q]
    BY Zenon DEF Settled
  <2>2. [q \in Settled(s)' |-> hold'[q]] = [q \in Settled(s) |-> hold[q]]
    BY <2>1, Zenon
  <2> QED BY <2>2, Zenon DEF Paid
<1>4. Locked(s) \in Nat /\ Locked(s)' \in Nat /\ confirmed[s] \in Nat
  <2>1. /\ HeldOf(s) \in SUBSET Requests /\ HeldOf(s)' \in SUBSET Requests
        /\ hold \in [Requests -> Nat] /\ hold' \in [Requests -> Nat]
    BY Zenon DEF StoreType, HeldOf
  <2>2. /\ Sum([q \in HeldOf(s) |-> hold[q]]) \in Nat
        /\ Sum([q \in HeldOf(s)' |-> hold'[q]]) \in Nat
    BY <2>1, HoldsAddUp, Zenon
  <2> QED BY <2>2, Zenon DEF Locked, StoreType
<1> QED
  BY <1>1, <1>2, <1>3, <1>4

(* ReserveInference holds no more than the balance leaves.                 *)
LEMMA ReserveKeepsBalances ==
    ASSUME Rows, Rows', Balances, NEW r \in Requests, NEW s \in Sessions, NEW o \in Offers,
           NEW cost \in Costs, handler[r] = None, ReserveInference(r, s, o, cost)
    PROVE  Balances'
<1>1. cost \in Nat
  BY InferenceAssumption, Zenon
<1>2. RowAgrees(r) /\ r \notin held /\ queue[r] # "settled"
  BY Zenon DEF Rows, RowsAgree, RowAgrees, Executing, None
<1>3. /\ Affordable(s, cost)
      /\ sessionOf' = [sessionOf EXCEPT ![r] = s]
      /\ hold' = [hold EXCEPT ![r] = cost]
      /\ held' = held \cup {r}
      /\ UNCHANGED <<confirmed, queue>>
  BY Zenon DEF ReserveInference
<1>4. /\ hold \in [Requests -> Nat] /\ hold' \in [Requests -> Nat]
      /\ held \subseteq Requests /\ sessionOf \in [Requests -> Sessions \cup {None}]
      /\ confirmed \in [Sessions -> Nat]
  BY Zenon DEF Rows, StoreType
<1> SUFFICES ASSUME NEW t \in Sessions
             PROVE  Locked(t)' <= confirmed'[t] /\ confirmed'[t] + Paid(t)' = Balance[t]
  BY Zenon DEF Balances, HoldsWithinBalance, SettlementsDrainTheBalance, Paid
<1>5. Locked(t) <= confirmed[t] /\ confirmed[t] + Paid(t) = Balance[t]
  BY Zenon DEF Balances, HoldsWithinBalance, SettlementsDrainTheBalance, Paid
<1>6. Paid(t)' = Paid(t)
  <2>1. Settled(t)' = Settled(t) /\ \A q \in Settled(t) : hold'[q] = hold[q]
    BY <1>2, <1>3, <1>4, Zenon DEF Settled
  <2>2. [q \in Settled(t)' |-> hold'[q]] = [q \in Settled(t) |-> hold[q]]
    BY <2>1, Zenon
  <2> QED BY <2>2, Zenon DEF Paid
<1>7. HeldOf(t) \in SUBSET Requests /\ r \notin HeldOf(t)
  BY <1>2, <1>4, Zenon DEF HeldOf
<1>8. [q \in HeldOf(t) |-> hold'[q]] = [q \in HeldOf(t) |-> hold[q]]
  BY <1>3, <1>4, <1>7, Zenon
<1>9. Locked(t) \in Nat
  <2>1. Sum([q \in HeldOf(t) |-> hold[q]]) \in Nat
    BY <1>4, <1>7, HoldsAddUp, Zenon
  <2> QED BY <2>1, Zenon DEF Locked
<1>10. CASE t = s
  <2>1. HeldOf(t)' = HeldOf(t) \cup {r}
    BY <1>2, <1>3, <1>4, <1>10, Zenon DEF HeldOf
  <2>2. Sum([q \in HeldOf(t) \cup {r} |-> hold'[q]]) = Sum([q \in HeldOf(t) |-> hold'[q]]) + hold'[r]
    BY <1>4, <1>7, HoldsAddOne, Zenon
  <2>3. Locked(t)' = Locked(t) + cost
    BY <1>3, <1>4, <1>8, <2>1, <2>2, Zenon DEF Locked
  <2>4. cost <= confirmed[t] - Locked(t)
    BY <1>3, <1>10, Zenon DEF Affordable
  <2>5. confirmed' = confirmed /\ confirmed[t] \in Nat
    BY <1>3, <1>4, Zenon
  <2>6. \A c, l, f \in Nat : c <= f - l => l + c <= f
    OBVIOUS
  <2> QED BY <1>1, <1>5, <1>6, <1>9, <2>3, <2>4, <2>5, <2>6, Zenon
<1>11. CASE t # s
  <2>1. HeldOf(t)' = HeldOf(t)
    BY <1>2, <1>3, <1>4, <1>11, Zenon DEF HeldOf
  <2>2. Locked(t)' = Locked(t)
    BY <1>8, <2>1, Zenon DEF Locked
  <2> QED BY <1>3, <1>5, <1>6, <2>2, Zenon
<1> QED
  BY <1>10, <1>11, Zenon

(* ReceiptSettled takes from the balance exactly what was held for it.     *)
LEMMA SettledKeepsBalances ==
    ASSUME Rows, Rows', Balances, NEW r \in Requests, ReceiptSettled(r)
    PROVE  Balances'
<1> DEFINE s == sessionOf[r]
<1>1. /\ RowAgrees(r) /\ queue[r] = "broadcasting" /\ state[r] = "submitted"
      /\ r \in held \/ hold[r] = 0
  BY Zenon DEF Rows, RowsAgree, RowAgrees, ReceiptSettled
<1>2. s \in Sessions
  BY <1>1, Zenon DEF RowAgrees, None
<1>3. /\ queue' = [queue EXCEPT ![r] = "settled"]
      /\ held' = held \ {r}
      /\ confirmed' = [confirmed EXCEPT ![s] = IF confirmed[s] - hold[r] < 0
                                              THEN 0 ELSE confirmed[s] - hold[r]]
      /\ UNCHANGED <<sessionOf, hold>>
  BY Zenon DEF ReceiptSettled, SettledCharge
<1>4. /\ hold \in [Requests -> Nat] /\ held \subseteq Requests
      /\ sessionOf \in [Requests -> Sessions \cup {None}]
      /\ confirmed \in [Sessions -> Nat]
      /\ queue \in [Requests -> {None, "cosigned", "broadcasting", "settled"}]
  BY Zenon DEF Rows, StoreType
<1> SUFFICES ASSUME NEW t \in Sessions
             PROVE  Locked(t)' <= confirmed'[t] /\ confirmed'[t] + Paid(t)' = Balance[t]
  BY Zenon DEF Balances, HoldsWithinBalance, SettlementsDrainTheBalance, Paid
<1>5. Locked(t) <= confirmed[t] /\ confirmed[t] + Paid(t) = Balance[t]
  BY Zenon DEF Balances, HoldsWithinBalance, SettlementsDrainTheBalance, Paid
<1>6. /\ HeldOf(t) \in SUBSET Requests /\ HeldOf(t)' = HeldOf(t) \ {r}
      /\ Settled(t) \in SUBSET Requests /\ r \notin Settled(t)
  BY <1>1, <1>3, <1>4, Zenon DEF HeldOf, Settled
<1>7. Locked(t) \in Nat /\ Locked(t)' \in Nat /\ Paid(t) \in Nat /\ hold[r] \in Nat
  <2>1. HeldOf(t) \ {r} \in SUBSET Requests
    BY <1>6, Zenon
  <2>2. /\ Sum([q \in HeldOf(t) |-> hold[q]]) \in Nat
        /\ Sum([q \in HeldOf(t) \ {r} |-> hold[q]]) \in Nat
        /\ Sum([q \in Settled(t) |-> hold[q]]) \in Nat
    BY <1>4, <1>6, <2>1, HoldsAddUp, Zenon
  <2> QED BY <1>3, <1>4, <1>6, <2>2, Zenon DEF Locked, Paid
<1>8. Locked(t)' = IF r \in HeldOf(t) THEN Locked(t) - hold[r] ELSE Locked(t)
  <2>1. CASE r \in HeldOf(t)
    <3>1. /\ HeldOf(t) \ {r} \in SUBSET Requests /\ r \notin HeldOf(t) \ {r}
          /\ (HeldOf(t) \ {r}) \cup {r} = HeldOf(t)
      BY <1>6, <2>1, Zenon
    <3>2. Sum([q \in (HeldOf(t) \ {r}) \cup {r} |-> hold[q]])
              = Sum([q \in HeldOf(t) \ {r} |-> hold[q]]) + hold[r]
      BY <1>4, <3>1, HoldsAddOne, Zenon
    <3>3. Locked(t) = Locked(t)' + hold[r]
      BY <1>3, <1>6, <3>1, <3>2, Zenon DEF Locked
    <3> QED BY <1>7, <2>1, <3>3
  <2>2. CASE r \notin HeldOf(t)
    BY <1>3, <1>6, <2>2, Zenon DEF Locked
  <2> QED BY <2>1, <2>2, Zenon
<1>9. CASE t = s
  <2>1. Settled(t)' = Settled(t) \cup {r}
    BY <1>3, <1>4, <1>9, Zenon DEF Settled
  <2>2. Paid(t)' = Paid(t) + hold[r]
    <3>1. Sum([q \in Settled(t) \cup {r} |-> hold[q]])
              = Sum([q \in Settled(t) |-> hold[q]]) + hold[r]
      BY <1>4, <1>6, HoldsAddOne, Zenon
    <3> QED BY <1>3, <2>1, <3>1, Zenon DEF Paid
  <2>3. Locked(t)' = Locked(t) - hold[r]
    <3>1. CASE r \in HeldOf(t)
      BY <1>8, <3>1, Zenon
    <3>2. CASE r \notin HeldOf(t)
      <4>1. hold[r] = 0
        BY <1>1, <1>9, <3>2, Zenon DEF HeldOf
      <4> QED BY <1>7, <1>8, <3>2, <4>1
    <3> QED BY <3>1, <3>2, Zenon
  <2>4. confirmed'[t] = confirmed[t] - hold[r]
    BY <1>3, <1>4, <1>5, <1>7, <1>9, <2>3
  <2> HIDE DEF s
  <2> QED BY <1>4, <1>5, <1>7, <2>2, <2>3, <2>4
<1>10. CASE t # s
  <2>1. Settled(t)' = Settled(t)
    BY <1>3, <1>4, <1>10, Zenon DEF Settled
  <2>2. Paid(t)' = Paid(t)
    BY <1>3, <2>1, Zenon DEF Paid
  <2>3. Locked(t)' = Locked(t)
    BY <1>8, <1>10, Zenon DEF HeldOf
  <2>4. confirmed'[t] = confirmed[t]
    BY <1>3, <1>4, <1>10, Zenon
  <2> QED BY <1>5, <2>2, <2>3, <2>4, Zenon
<1> QED
  BY <1>9, <1>10, Zenon

(* No transaction takes a session below what it holds, and every one that  *)
(* lowers its balance settles a receipt.                                   *)
LEMMA StoreKeepsBalances ==
    ASSUME Rows, Rows', Balances, StoreStep
    PROVE  Balances'
<1>1. /\ StoreType /\ StoreType' /\ RowsAgree
      /\ hold \in [Requests -> Nat] /\ held \subseteq Requests
  BY Zenon DEF Rows, StoreType
<1>2. CASE UNCHANGED storeVars
  <2>1. HoldsNoMore
    BY <1>1, <1>2 DEF HoldsNoMore, storeVars
  <2> QED BY <1>1, <2>1, BalancesStay, Zenon
<1>3. ASSUME NEW r \in Requests, NEW next \in {"accepted", "streaming"}, TransitionRequest(r, next)
      PROVE  Balances'
  <2>1. UNCHANGED <<confirmed, held, sessionOf, hold, queue>>
    BY <1>3, Zenon DEF TransitionRequest
  <2>2. HoldsNoMore
    BY <1>1, <2>1 DEF HoldsNoMore
  <2> QED BY <1>1, <2>2, BalancesStay, Zenon
<1>4. ASSUME NEW r \in Requests, NEW terminal \in {"failed", "cancelled"},
             AbortInference(r, terminal)
      PROVE  Balances'
  <2>1. held' \subseteq held /\ UNCHANGED <<confirmed, sessionOf, hold, queue>>
    BY <1>4, Zenon DEF AbortInference, storeVars
  <2>2. HoldsNoMore
    BY <1>1, <2>1 DEF HoldsNoMore
  <2> QED BY <1>1, <2>2, BalancesStay, Zenon
<1>5. ASSUME NEW r \in Requests, CompleteInference(r)
      PROVE  Balances'
  <2>1. UNCHANGED <<confirmed, held, sessionOf, hold, queue>>
    BY <1>5, Zenon DEF CompleteInference
  <2>2. HoldsNoMore
    BY <1>1, <2>1 DEF HoldsNoMore
  <2> QED BY <1>1, <2>2, BalancesStay, Zenon
<1>6. ASSUME NEW r \in Requests, NEW charge \in 0 .. maximum[r],
             handler[r] = "preparing", PrepareReceipt(r, charge)
      PROVE  Balances'
  <2>1. r \in held /\ queue[r] # "settled"
    BY <1>1, <1>6, Zenon DEF RowsAgree, RowAgrees, None
  <2>2. /\ hold' = [hold EXCEPT ![r] = charge] /\ charge <= hold[r]
        /\ held' \subseteq held
        /\ UNCHANGED <<sessionOf, confirmed, queue>>
    BY <1>6, <2>1, Zenon DEF PrepareReceipt
  <2>3. HoldsNoMore
    BY <1>1, <2>1, <2>2 DEF HoldsNoMore
  <2> QED BY <1>1, <2>3, BalancesStay, Zenon
<1>7. ASSUME NEW r \in Requests, handler[r] = "signing", Enqueue(r)
      PROVE  Balances'
  <2>1. queue[r] # "settled"
    BY <1>1, <1>7, Zenon DEF RowsAgree, RowAgrees, None
  <2>2. /\ UNCHANGED <<confirmed, held, sessionOf, hold>>
        /\ \A q \in Requests : (queue'[q] = "settled") <=> (queue[q] = "settled")
    BY <1>1, <1>7, <2>1, Zenon DEF Enqueue, StoreType
  <2>3. HoldsNoMore
    BY <1>1, <2>2 DEF HoldsNoMore
  <2> QED BY <1>1, <2>3, BalancesStay, Zenon
<1>8. ASSUME NEW m \in Machines, NEW offered \in SUBSET Offers,
             ReconcileProviderCapacity(m, offered)
      PROVE  Balances'
  <2>1. UNCHANGED <<confirmed, held, sessionOf, hold, queue>>
    BY <1>8, Zenon DEF ReconcileProviderCapacity
  <2>2. HoldsNoMore
    BY <1>1, <2>1 DEF HoldsNoMore
  <2> QED BY <1>1, <2>2, BalancesStay, Zenon
<1>9. ASSUME NEW r \in Requests, SettleBatch(r)
      PROVE  Balances'
  <2>1. /\ UNCHANGED <<confirmed, held, sessionOf, hold>>
        /\ \A q \in Requests : (queue'[q] = "settled") <=> (queue[q] = "settled")
    BY <1>1, <1>9, Zenon DEF SettleBatch, StoreType
  <2>2. HoldsNoMore
    BY <1>1, <2>1 DEF HoldsNoMore
  <2> QED BY <1>1, <2>2, BalancesStay, Zenon
<1>10. ASSUME NEW r \in Requests, NEW s \in Sessions, NEW o \in Offers, NEW cost \in Costs,
              handler[r] = None, ReserveInference(r, s, o, cost)
       PROVE  Balances'
  BY <1>10, ReserveKeepsBalances, Zenon
<1>11. ASSUME NEW r \in Requests, ReceiptSettled(r)
       PROVE  Balances'
  BY <1>11, SettledKeepsBalances, Zenon
<1> QED
  BY <1>2, <1>3, <1>4, <1>5, <1>6, <1>7, <1>8, <1>9, <1>10, <1>11, Zenon DEF StoreStep

-----------------------------------------------------------------------------
(* The slot of an offer *)

Executors(o) == {r \in held : offerOf[r] = o /\ state[r] \in Executing}

(* The requests that execute on an offer are finitely many.                *)
LEMMA ExecutorsFinite ==
    ASSUME StoreType, NEW o
    PROVE  /\ Executors(o) \subseteq Requests
           /\ IsFiniteSet(Executors(o)) /\ Cardinality(Executors(o)) \in Nat
<1>1. Executors(o) \subseteq Requests
  BY Zenon DEF StoreType, Executors
<1> QED
  BY <1>1, InferenceAssumption, FS_Subset, FS_CardinalityType, Zenon

(* A step that opens no slot and starts no request.                        *)
StartsNothing ==
    /\ \A o \in Offers : capacity'[o] <= capacity[o]
    /\ \A q \in held' : state'[q] \in Executing =>
           q \in held /\ state[q] \in Executing /\ offerOf'[q] = offerOf[q]

(* A step that opens no slot and starts no request keeps the slots.        *)
LEMMA SlotsStay ==
    ASSUME StoreType, StoreType', OneJobPerSlot, StartsNothing
    PROVE  OneJobPerSlot'
<1> SUFFICES ASSUME NEW o \in Offers PROVE capacity'[o] + Cardinality(Executors(o)') <= 1
  BY Zenon DEF OneJobPerSlot, Executors
<1>1. capacity[o] + Cardinality(Executors(o)) <= 1
  BY Zenon DEF OneJobPerSlot, Executors
<1>2. IsFiniteSet(Executors(o)) /\ Cardinality(Executors(o)) \in Nat
  BY ExecutorsFinite, Zenon
<1>3. Executors(o)' \subseteq Executors(o) /\ capacity'[o] <= capacity[o]
  BY Zenon DEF StartsNothing, Executors
<1>4. /\ Cardinality(Executors(o)') <= Cardinality(Executors(o))
      /\ IsFiniteSet(Executors(o)') /\ Cardinality(Executors(o)') \in Nat
  BY <1>2, <1>3, FS_Subset, FS_CardinalityType, Zenon
<1>5. capacity[o] \in Nat /\ capacity'[o] \in Nat
  BY Zenon DEF StoreType
<1> QED
  BY <1>1, <1>2, <1>3, <1>4, <1>5, SMTT(30)

(* ReserveInference takes the only slot of an offer that executes nothing. *)
LEMMA ReserveKeepsSlots ==
    ASSUME Rows, Rows', OneJobPerSlot, NEW r \in Requests, NEW s \in Sessions, NEW o \in Offers,
           NEW cost \in Costs, handler[r] = None, ReserveInference(r, s, o, cost)
    PROVE  OneJobPerSlot'
<1>1. r \notin held
  BY Zenon DEF Rows, RowsAgree, RowAgrees, Executing, None
<1>2. /\ capacity[o] > 0
      /\ capacity' = [capacity EXCEPT ![o] = @ - 1]
      /\ state' = [state EXCEPT ![r] = "offered"]
      /\ offerOf' = [offerOf EXCEPT ![r] = o]
      /\ held' = held \cup {r}
  BY Zenon DEF ReserveInference, HasSlot
<1> SUFFICES ASSUME NEW p \in Offers PROVE capacity'[p] + Cardinality(Executors(p)') <= 1
  BY Zenon DEF OneJobPerSlot, Executors
<1>3. capacity[p] + Cardinality(Executors(p)) <= 1
  BY Zenon DEF OneJobPerSlot, Executors
<1>4. IsFiniteSet(Executors(p)) /\ Cardinality(Executors(p)) \in Nat /\ capacity[p] \in Nat
  BY ExecutorsFinite, Zenon DEF Rows, StoreType
<1>5. CASE p = o
  <2>1. Executors(p)' = Executors(p) \cup {r} /\ r \notin Executors(p)
    BY <1>1, <1>2, <1>5, Zenon DEF Executors, Executing, Rows, StoreType
  <2>2. Cardinality(Executors(p)') = Cardinality(Executors(p)) + 1
    BY <1>4, <2>1, FS_AddElement, Zenon
  <2>3. capacity'[p] = capacity[p] - 1
    BY <1>2, <1>5, Zenon DEF Rows, StoreType
  <2> QED BY <1>2, <1>3, <1>4, <1>5, <2>2, <2>3, SMTT(30)
<1>6. CASE p # o
  <2>1. Executors(p)' = Executors(p)
    <3>1. \A q \in held : q # r /\ state'[q] = state[q] /\ offerOf'[q] = offerOf[q]
      BY <1>1, <1>2, Zenon DEF Rows, StoreType
    <3>2. offerOf'[r] = o
      BY <1>2, Zenon DEF Rows, StoreType
    <3> QED BY <1>2, <1>6, <3>1, <3>2, Zenon DEF Executors
  <2>2. capacity'[p] = capacity[p]
    BY <1>2, <1>6, Zenon DEF Rows, StoreType
  <2> QED BY <1>3, <2>1, <2>2, Zenon
<1> QED
  BY <1>5, <1>6, Zenon

(* Only the end of an execution opens the slot it had.                     *)
LEMMA SlotReopened ==
    ASSUME Rows, OneJobPerSlot, NEW r \in Requests, r \in held, state[r] \in Executing,
           NEW next, next \notin Executing,
           state' = [state EXCEPT ![r] = next], offerOf' = offerOf,
           held' = held \/ held' = held \ {r},
           capacity' = [capacity EXCEPT ![offerOf[r]] = @ + 1]
    PROVE  OneJobPerSlot'
<1>1. offerOf[r] \in Offers
  BY Zenon DEF Rows, RowsAgree, RowAgrees, Executing, None
<1> SUFFICES ASSUME NEW p \in Offers PROVE capacity'[p] + Cardinality(Executors(p)') <= 1
  BY Zenon DEF OneJobPerSlot, Executors
<1>2. capacity[p] + Cardinality(Executors(p)) <= 1
  BY Zenon DEF OneJobPerSlot, Executors
<1>3. IsFiniteSet(Executors(p)) /\ Cardinality(Executors(p)) \in Nat /\ capacity[p] \in Nat
  BY ExecutorsFinite, Zenon DEF Rows, StoreType
<1>4. CASE p = offerOf[r]
  <2>1. Executors(p)' = Executors(p) \ {r} /\ r \in Executors(p)
    BY <1>4, Zenon DEF Executors, Rows, StoreType
  <2>2. Cardinality(Executors(p)') = Cardinality(Executors(p)) - 1
    BY <1>3, <2>1, FS_RemoveElement, Zenon
  <2>3. capacity'[p] = capacity[p] + 1
    BY <1>1, <1>4, Zenon DEF Rows, StoreType
  <2>4. \A a, n \in Nat : (a + 1) + (n - 1) = a + n
    OBVIOUS
  <2> HIDE DEF Executors
  <2> QED BY <1>2, <1>3, <2>2, <2>3, <2>4, Zenon
<1>5. CASE p # offerOf[r]
  <2>1. Executors(p)' = Executors(p)
    BY <1>5, Zenon DEF Executors, Rows, StoreType
  <2>2. capacity'[p] = capacity[p]
    BY <1>1, <1>5, Zenon DEF Rows, StoreType
  <2> QED BY <1>2, <2>1, <2>2, Zenon
<1> QED
  BY <1>4, <1>5, Zenon

(* Every transaction keeps the slots.                                      *)
LEMMA StoreKeepsSlots ==
    ASSUME Rows, Rows', OneJobPerSlot, StoreStep
    PROVE  OneJobPerSlot'
<1>0. /\ StoreType /\ StoreType' /\ RowsAgree
      /\ capacity \in [Offers -> Nat] /\ state \in [Requests -> States]
      /\ held \subseteq Requests
  BY Zenon DEF Rows, StoreType
<1>1. CASE UNCHANGED storeVars
  BY <1>1, Zenon DEF storeVars, OneJobPerSlot
<1>2. ASSUME NEW r \in Requests, NEW s \in Sessions, NEW o \in Offers, NEW cost \in Costs,
             handler[r] = None, ReserveInference(r, s, o, cost)
      PROVE  OneJobPerSlot'
  BY <1>2, ReserveKeepsSlots, Zenon
<1>3. ASSUME NEW r \in Requests, NEW next \in {"accepted", "streaming"}, TransitionRequest(r, next)
      PROVE  OneJobPerSlot'
  <2>1. state[r] \in Executing /\ held' = held /\ offerOf' = offerOf /\ capacity' = capacity
    BY <1>3, Zenon DEF TransitionRequest, transitions, Executing
  <2>2. \A q \in Requests : state'[q] \in Executing => state[q] \in Executing
    <3>1. state' = [state EXCEPT ![r] = next]
      BY <1>3, Zenon DEF TransitionRequest
    <3> QED BY <1>0, <2>1, <3>1, Zenon
  <2>3. StartsNothing
    BY <1>0, <2>1, <2>2 DEF StartsNothing
  <2> QED BY <1>0, <2>3, SlotsStay, Zenon
<1>4. ASSUME NEW r \in Requests, NEW terminal \in {"failed", "cancelled"},
             AbortInference(r, terminal)
      PROVE  OneJobPerSlot'
  <2>1. CASE UNCHANGED storeVars
    BY <2>1, Zenon DEF storeVars, OneJobPerSlot
  <2>2. CASE ~ UNCHANGED storeVars
    <3>1. /\ state' = [state EXCEPT ![r] = terminal] /\ held' = held \ {r} /\ offerOf' = offerOf
          /\ capacity' = IF SlotReopens(r)
                         THEN [capacity EXCEPT ![offerOf[r]] = @ + 1] ELSE capacity
      BY <1>4, <2>2, Zenon DEF AbortInference
    <3>2. CASE SlotReopens(r)
      <4>1. terminal \notin Executing
        BY Zenon DEF Executing
      <4> QED BY <3>1, <3>2, <4>1, SlotReopened, Zenon DEF SlotReopens
    <3>3. CASE ~ SlotReopens(r)
      <4>1. capacity' = capacity /\ \A q \in held' : q # r /\ state'[q] = state[q]
        BY <1>0, <3>1, <3>3, Zenon
      <4>2. StartsNothing
        BY <1>0, <3>1, <4>1 DEF StartsNothing
      <4> QED BY <1>0, <4>2, SlotsStay, Zenon
    <3> QED BY <3>2, <3>3, Zenon
  <2> QED BY <2>1, <2>2, Zenon
<1>5. ASSUME NEW r \in Requests, CompleteInference(r)
      PROVE  OneJobPerSlot'
  <2>1. "completed" \notin Executing /\ state[r] \in Executing /\ r \in held
    BY <1>0, <1>5, Zenon DEF CompleteInference, Executing, RowsAgree, RowAgrees
  <2> QED BY <1>5, <2>1, SlotReopened, Zenon DEF CompleteInference
<1>6. ASSUME NEW r \in Requests, NEW charge \in 0 .. maximum[r], PrepareReceipt(r, charge)
      PROVE  OneJobPerSlot'
  <2>1. /\ state[r] \notin Executing /\ held' \subseteq held \cup {r}
        /\ UNCHANGED <<state, offerOf, capacity>>
    BY <1>6, Zenon DEF PrepareReceipt, Executing
  <2>2. StartsNothing
    BY <1>0, <2>1 DEF StartsNothing
  <2> QED BY <1>0, <2>2, SlotsStay, Zenon
<1>7. ASSUME NEW r \in Requests, Enqueue(r) \/ SettleBatch(r) \/ ReceiptSettled(r)
      PROVE  OneJobPerSlot'
  <2>1. /\ held' \subseteq held /\ offerOf' = offerOf /\ capacity' = capacity
        /\ \A q \in Requests \ {r} : state'[q] = state[q]
    BY <1>0, <1>7, Zenon DEF Enqueue, SettleBatch, ReceiptSettled
  <2>2. state'[r] \in Executing => state[r] \in Executing
    BY <1>0, <1>7, Zenon DEF Enqueue, SettleBatch, ReceiptSettled, Executing
  <2>3. StartsNothing
    BY <1>0, <2>1, <2>2, SMTT(30) DEF StartsNothing
  <2> QED BY <1>0, <2>3, SlotsStay, Zenon
<1>8. ASSUME NEW m \in Machines, NEW offered \in SUBSET Offers,
             ReconcileProviderCapacity(m, offered)
      PROVE  OneJobPerSlot'
  <2> SUFFICES ASSUME NEW o \in Offers PROVE capacity'[o] + Cardinality(Executors(o)') <= 1
    BY Zenon DEF OneJobPerSlot, Executors
  <2>1. Executors(o)' = Executors(o) /\ Cardinality(Executors(o)) \in Nat
    <3>1. UNCHANGED <<held, offerOf, state>>
      BY <1>8, Zenon DEF ReconcileProviderCapacity
    <3> QED BY <1>0, <3>1, ExecutorsFinite, Zenon DEF Executors
  <2>2. capacity[o] \in Nat /\ capacity[o] + Cardinality(Executors(o)) <= 1
    BY <1>0, Zenon DEF OneJobPerSlot, Executors
  <2>3. capacity'[o] \in {capacity[o], FreeSlot(o), 0}
    BY <1>8, Zenon DEF ReconcileProviderCapacity
  <2>4. FreeSlot(o) + Cardinality(Executors(o)) <= 1
    <3>1. CASE Executors(o) = {}
      BY <3>1, FS_EmptySet DEF FreeSlot, Executors
    <3>2. CASE Executors(o) # {}
      <4>1. FreeSlot(o) = 0
        BY <3>2, Zenon DEF FreeSlot, Executors
      <4> QED BY <2>1, <2>2, <4>1
    <3> QED BY <3>1, <3>2, Zenon
  <2> QED BY <2>1, <2>2, <2>3, <2>4, SMTT(30)
<1> QED
  BY <1>1, <1>2, <1>3, <1>4, <1>5, <1>6, <1>7, <1>8, Zenon DEF StoreStep

-----------------------------------------------------------------------------
(* The nonces of a provider *)

(* The nonces of a provider are among 1 to as many as it has, so the next  *)
(* one is within the reach of the query.                                   *)
Nonces ==
    /\ nonce \in [Requests -> Nat]
    /\ \A r \in Requests :
          nonce[r] # 0 => state[r] # None /\ nonce[r] <= Cardinality(SameProvider(r))
    /\ NoncesDiffer

(* The requests a provider has nonces for are finitely many.               *)
LEMMA IssuedFinite ==
    ASSUME NEW r
    PROVE  /\ SameProvider(r) \subseteq Requests
           /\ IsFiniteSet(SameProvider(r)) /\ Cardinality(SameProvider(r)) \in Nat
           /\ Cardinality(SameProvider(r)) <= Cardinality(Requests)
           /\ Cardinality(Requests) \in Nat
<1>1. SameProvider(r) \subseteq Requests
  BY Zenon DEF SameProvider
<1> QED
  BY <1>1, InferenceAssumption, FS_Subset, FS_CardinalityType, Zenon

(* A step that issues no nonce and moves no request that has one keeps     *)
(* the nonces.                                                             *)
LEMMA NoncesStay ==
    ASSUME Nonces, nonce' = nonce,
           \A q \in Requests : nonce[q] # 0 => offerOf'[q] = offerOf[q] /\ state'[q] # None
    PROVE  Nonces'
<1>1. ASSUME NEW r \in Requests, nonce[r] # 0 PROVE SameProvider(r)' = SameProvider(r)
  BY <1>1, Zenon DEF SameProvider
<1>2. NoncesDiffer'
  <2> SUFFICES ASSUME NEW p \in Requests, NEW q \in Requests, nonce[p] # 0, nonce[q] # 0, p # q,
                      providerOf[offerOf'[p]] = providerOf[offerOf'[q]]
               PROVE  nonce[p] # nonce[q]
    BY Zenon DEF NoncesDiffer
  <2>1. offerOf'[p] = offerOf[p] /\ offerOf'[q] = offerOf[q]
    OBVIOUS
  <2> QED BY <2>1, Zenon DEF Nonces, NoncesDiffer
<1> QED
  BY <1>1, <1>2, Zenon DEF Nonces

(* PrepareReceipt issues a nonce above all others of the provider, and     *)
(* leaves no gap below it.                                                 *)
LEMMA NextNonceIsFresh ==
    ASSUME Nonces, NEW r \in Requests, nonce[r] = 0
    PROVE  /\ NextNonce(r) \in 1 .. Cardinality(SameProvider(r)) + 1
           /\ \A q \in SameProvider(r) : nonce[q] < NextNonce(r)
<1> DEFINE S == SameProvider(r)
           k == Cardinality(S)
           f == [q \in S |-> nonce[q]]
           Fits(n) == /\ \A q \in S : nonce[q] < n
                      /\ n = 1 \/ \E q \in S : nonce[q] = n - 1
<1>1. S \subseteq Requests /\ IsFiniteSet(S) /\ k \in Nat /\ r \notin S
  BY IssuedFinite, Zenon DEF SameProvider
<1>2. ASSUME NEW q \in S PROVE nonce[q] \in 1 .. k
  <2>1. nonce[q] # 0 /\ nonce[q] \in Nat /\ SameProvider(q) = S
    BY Zenon DEF SameProvider, Nonces
  <2> QED BY <1>1, <2>1 DEF Nonces
<1>3. k + 1 \in 1 .. Cardinality(Requests)
  <2>1. IsFiniteSet(S \cup {r}) /\ Cardinality(S \cup {r}) = k + 1
    BY <1>1, FS_AddElement, Zenon
  <2>2. S \cup {r} \subseteq Requests
    BY <1>1, Zenon
  <2>3. k + 1 <= Cardinality(Requests) /\ Cardinality(Requests) \in Nat
    BY <2>1, <2>2, InferenceAssumption, FS_Subset, FS_CardinalityType, SMTT(30)
  <2> QED BY <1>1, <2>3
<1>4. f \in Injection(S, 1 .. k)
  <2>1. f \in [S -> 1 .. k]
    BY <1>2, Zenon
  <2>2. ASSUME NEW p \in S, NEW q \in S, f[p] = f[q] PROVE p = q
    BY <2>2, Zenon DEF Nonces, NoncesDiffer, SameProvider
  <2> QED BY <2>1, <2>2, Zenon DEF Injection, IsInjective
<1>5. f \in Surjection(S, 1 .. k)
  <2>1. IsFiniteSet(1 .. k) /\ Cardinality(1 .. k) = k
    BY <1>1, FS_Interval
  <2> HIDE DEF f, S
  <2> QED BY <1>4, <2>1, FS_Injection, Zenon
<1>6. Fits(k + 1)
  <2>1. \A q \in S : nonce[q] < k + 1
    BY <1>1, <1>2
  <2>2. k + 1 = 1 \/ \E q \in S : nonce[q] = k
    <3>1. CASE k = 0
      BY <3>1
    <3>2. CASE k # 0
      <4>1. k \in 1 .. k
        BY <1>1, <3>2
      <4>2. PICK q \in S : f[q] = k
        BY <1>5, <4>1, Zenon DEF Surjection
      <4> QED BY <4>2, Zenon
    <3> QED BY <3>1, <3>2, Zenon
  <2> QED BY <1>1, <2>1, <2>2
<1>7. NextNonce(r) \in 1 .. Cardinality(Requests) /\ Fits(NextNonce(r))
  <2>1. NextNonce(r) = CHOOSE n \in 1 .. Cardinality(Requests) : Fits(n)
    BY Zenon DEF NextNonce
  <2> HIDE DEF Fits, k
  <2> QED BY <1>3, <1>6, <2>1, Zenon
<1>8. Cardinality(Requests) \in Nat
  BY IssuedFinite, Zenon
<1>9. NextNonce(r) <= k + 1
  <2> HIDE DEF k
  <2>1. CASE NextNonce(r) = 1
    BY <1>1, <2>1
  <2>2. CASE NextNonce(r) # 1
    <3>1. PICK q \in S : nonce[q] = NextNonce(r) - 1
      BY <1>7, <2>2, Zenon
    <3> QED BY <1>1, <1>2, <1>7, <1>8, <3>1
  <2> QED BY <2>1, <2>2, Zenon
<1> QED
  BY <1>1, <1>7, <1>8, <1>9, SMTT(30)

(* The nonces stay apart when one is issued.                               *)
LEMMA PrepareKeepsNonces ==
    ASSUME StoreType, Nonces, NEW r \in Requests, NEW charge, PrepareReceipt(r, charge)
    PROVE  Nonces'
<1>1. /\ state[r] = "completed" /\ state' = state /\ offerOf' = offerOf
      /\ nonce' = [nonce EXCEPT ![r] = IF @ = 0 THEN NextNonce(r) ELSE @]
  BY Zenon DEF PrepareReceipt
<1>2. CASE nonce[r] # 0
  <2>1. nonce' = nonce
    BY <1>1, <1>2, Zenon DEF Nonces
  <2> QED BY <1>1, <2>1, NoncesStay, Zenon DEF Nonces
<1>3. CASE nonce[r] = 0
  <2> DEFINE k == Cardinality(SameProvider(r))
  <2>1. /\ NextNonce(r) \in 1 .. k + 1
        /\ \A q \in SameProvider(r) : nonce[q] < NextNonce(r)
        /\ k \in Nat /\ IsFiniteSet(SameProvider(r))
    BY <1>3, NextNonceIsFresh, IssuedFinite, Zenon
  <2>2. /\ nonce' \in [Requests -> Nat]
        /\ nonce'[r] = NextNonce(r) /\ \A q \in Requests \ {r} : nonce'[q] = nonce[q]
    <3> HIDE DEF k
    <3> QED BY <1>1, <1>3, <2>1, SMTT(30) DEF Nonces
  <2>3. ASSUME NEW q \in Requests, providerOf[offerOf[q]] = providerOf[offerOf[r]]
        PROVE  Cardinality(SameProvider(q)') = k + 1
    <3>1. NextNonce(r) # 0 /\ r \notin SameProvider(r) /\ SameProvider(r) \subseteq Requests
      <4>1. \A m \in Nat : \A x \in 1 .. m + 1 : x # 0
        OBVIOUS
      <4> QED BY <1>3, <2>1, <4>1, Zenon DEF SameProvider
    <3>2. ASSUME NEW p \in Requests \ {r} PROVE p \in SameProvider(q)' <=> p \in SameProvider(r)
      BY <1>1, <2>2, <2>3, Zenon DEF SameProvider
    <3>3. r \in SameProvider(q)'
      BY <1>1, <2>2, <2>3, <3>1, Zenon DEF SameProvider
    <3>4. SameProvider(q)' \subseteq Requests
      BY Zenon DEF SameProvider
    <3>5. SameProvider(q)' = SameProvider(r) \cup {r} /\ r \notin SameProvider(r)
      BY <3>1, <3>2, <3>3, <3>4, Zenon
    <3> QED BY <2>1, <3>5, FS_AddElement, Zenon
  <2>4. ASSUME NEW q \in Requests, providerOf[offerOf[q]] # providerOf[offerOf[r]]
        PROVE  SameProvider(q)' = SameProvider(q)
    BY <1>1, <2>2, <2>4, Zenon DEF SameProvider
  <2>5. ASSUME NEW q \in Requests, nonce'[q] # 0
        PROVE  state'[q] # None /\ nonce'[q] <= Cardinality(SameProvider(q)')
    <3>1. CASE q = r
      <4>1. state'[q] # None
        BY <1>1, <3>1, Zenon DEF None
      <4>2. nonce'[q] <= k + 1
        <5> HIDE DEF k
        <5> QED BY <2>1, <2>2, <3>1, SMTT(30)
      <4> QED BY <2>3, <3>1, <4>1, <4>2, Zenon
    <3>2. CASE q # r /\ providerOf[offerOf[q]] = providerOf[offerOf[r]]
      <4>1. nonce'[q] = nonce[q] /\ q \in SameProvider(r)
        BY <2>2, <2>5, <3>2, Zenon DEF SameProvider
      <4>2. state'[q] # None
        BY <1>1, <2>5, <4>1, Zenon DEF Nonces
      <4>3. nonce[q] < NextNonce(r) /\ nonce[q] \in Nat
        BY <2>1, <4>1, Zenon DEF Nonces
      <4>4. nonce'[q] <= k + 1
        <5> HIDE DEF k
        <5> QED BY <2>1, <4>1, <4>3, SMTT(30)
      <4> QED BY <2>3, <3>2, <4>2, <4>4, Zenon
    <3>3. CASE q # r /\ providerOf[offerOf[q]] # providerOf[offerOf[r]]
      BY <1>1, <2>2, <2>4, <2>5, <3>3, Zenon DEF Nonces
    <3> QED BY <3>1, <3>2, <3>3, Zenon
  <2>6. NoncesDiffer'
    <3> SUFFICES ASSUME NEW p \in Requests, NEW q \in Requests, nonce'[p] # 0, nonce'[q] # 0,
                        p # q, providerOf[offerOf[p]] = providerOf[offerOf[q]]
                 PROVE  nonce'[p] # nonce'[q]
      BY <1>1, Zenon DEF NoncesDiffer
    <3>1. CASE p # r /\ q # r
      BY <2>2, <3>1, Zenon DEF Nonces, NoncesDiffer
    <3>2. ASSUME NEW a \in Requests \ {r}, nonce'[a] # 0,
                 providerOf[offerOf[a]] = providerOf[offerOf[r]]
          PROVE  nonce'[a] # nonce'[r]
      <4>1. a \in SameProvider(r) /\ nonce'[a] = nonce[a] /\ nonce[a] \in Nat
        BY <2>2, <3>2, Zenon DEF SameProvider, Nonces
      <4> HIDE DEF k
      <4>2. (\A m \in Nat : 1 .. m + 1 \subseteq Nat) /\ \A x, y \in Nat : x < y => x # y
        OBVIOUS
      <4>3. nonce[a] < NextNonce(r)
        BY <2>1, <4>1, Zenon
      <4> QED BY <2>1, <2>2, <4>1, <4>2, <4>3, Zenon
    <3> QED BY <3>1, <3>2, Zenon
  <2> QED BY <2>2, <2>5, <2>6, Zenon DEF Nonces
<1> QED
  BY <1>2, <1>3, Zenon

(* Every transaction keeps the nonces.                                     *)
LEMMA StoreKeepsNonces ==
    ASSUME Rows, Nonces, StoreStep
    PROVE  Nonces'
<1> USE DEF Rows
<1>1. CASE UNCHANGED storeVars
  BY <1>1, NoncesStay, Zenon DEF storeVars, Nonces
<1>2. ASSUME NEW r \in Requests, NEW s \in Sessions, NEW o \in Offers, NEW cost \in Costs,
             handler[r] = None, ReserveInference(r, s, o, cost)
      PROVE  Nonces'
  <2>1. state[r] = None
    BY <1>2, Zenon DEF RowsAgree, RowAgrees
  <2>2. /\ nonce' = nonce /\ state' = [state EXCEPT ![r] = "offered"]
        /\ offerOf' = [offerOf EXCEPT ![r] = o]
    BY <1>2, Zenon DEF ReserveInference
  <2> QED BY <2>1, <2>2, NoncesStay, Zenon DEF StoreType, Nonces
<1>3. ASSUME NEW r \in Requests, NEW next \in {"accepted", "streaming", "failed", "cancelled", "completed"},
             nonce' = nonce, offerOf' = offerOf, state' = [state EXCEPT ![r] = next]
      PROVE  Nonces'
  BY <1>3, NoncesStay, Zenon DEF StoreType, Nonces, None
<1>4. ASSUME NEW r \in Requests, NEW next \in {"accepted", "streaming"}, TransitionRequest(r, next)
      PROVE  Nonces'
  BY <1>3, <1>4, Zenon DEF TransitionRequest
<1>5. ASSUME NEW r \in Requests, NEW terminal \in {"failed", "cancelled"},
             AbortInference(r, terminal)
      PROVE  Nonces'
  BY <1>1, <1>3, <1>5, Zenon DEF AbortInference
<1>6. ASSUME NEW r \in Requests, CompleteInference(r)
      PROVE  Nonces'
  BY <1>3, <1>6, Zenon DEF CompleteInference
<1>7. ASSUME NEW r \in Requests, Enqueue(r) \/ SettleBatch(r) \/ ReceiptSettled(r)
      PROVE  Nonces'
  <2>1. /\ nonce' = nonce /\ offerOf' = offerOf
        /\ \A q \in Requests : state[q] # None => state'[q] # None
    BY <1>7 DEF Enqueue, SettleBatch, ReceiptSettled, StoreType, None
  <2> QED BY <2>1, NoncesStay, Zenon DEF Nonces
<1>8. ASSUME NEW m \in Machines, NEW offered \in SUBSET Offers,
             ReconcileProviderCapacity(m, offered)
      PROVE  Nonces'
  BY <1>8, NoncesStay, Zenon DEF ReconcileProviderCapacity, Nonces
<1>9. ASSUME NEW r \in Requests, NEW charge, PrepareReceipt(r, charge)
      PROVE  Nonces'
  BY <1>9, PrepareKeepsNonces, Zenon
<1> QED
  BY <1>1, <1>2, <1>4, <1>5, <1>6, <1>7, <1>8, <1>9, Zenon DEF StoreStep

-----------------------------------------------------------------------------
(* The inductive invariant *)

StoreInv == Rows /\ Balances /\ OneJobPerSlot /\ Nonces

(* An empty store has nothing held, settled, executing or issued.          *)
LEMMA InitStore ==
    ASSUME Init
    PROVE  StoreInv
<1>1. Rows
  BY InferenceAssumption, Zenon
     DEF Init, Rows, StoreType, RowsAgree, RowAgrees, Absent, None, States, Waits, Executing
<1>2. ASSUME NEW s \in Sessions
      PROVE  Locked(s) = 0 /\ Sum([r \in Settled(s) |-> hold[r]]) = 0
  <2>1. HeldOf(s) = {} /\ Settled(s) = {}
    BY Zenon DEF Init, HeldOf, Settled, Absent, None
  <2>2. IsFiniteSet({}) /\ [r \in {} |-> hold[r]] \in [{} -> Nat]
    BY FS_EmptySet, Zenon
  <2>3. Sum([r \in {} |-> hold[r]]) = 0
    BY <2>2, SumZero, Zenon
  <2> QED BY <2>1, <2>3, Zenon DEF Locked
<1>3. Balances
  <2>1. ASSUME NEW s \in Sessions
        PROVE  confirmed[s] = Balance[s] /\ confirmed[s] \in Nat
    BY InferenceAssumption, Zenon DEF Init
  <2>2. HoldsWithinBalance
    <3> SUFFICES ASSUME NEW s \in Sessions PROVE Locked(s) <= confirmed[s]
      BY Zenon DEF HoldsWithinBalance
    <3>1. Locked(s) = 0 /\ confirmed[s] \in Nat
      BY <1>2, <2>1, Zenon
    <3> QED BY <3>1
  <2>3. SettlementsDrainTheBalance
    BY <1>2, <2>1 DEF SettlementsDrainTheBalance
  <2> QED BY <2>2, <2>3, Zenon DEF Balances
<1>4. OneJobPerSlot
  <2>1. ASSUME NEW o \in Offers PROVE capacity[o] = 0 /\ Executors(o) = {}
    BY Zenon DEF Init, Executors
  <2> QED BY <2>1, FS_EmptySet DEF OneJobPerSlot, Executors
<1>5. Nonces
  BY Zenon DEF Init, Nonces, NoncesDiffer
<1> QED
  BY <1>1, <1>3, <1>4, <1>5, Zenon DEF StoreInv

(* The balances need the rows to agree: a settlement lowers the balance by *)
(* what its receipt still holds because a queued receipt is never aborted. *)
LEMMA NextKeepsStore ==
    ASSUME StoreInv, [Next]_vars
    PROVE  StoreInv'
<1>1. StoreStep /\ Rows'
  BY NextStores, NextKeepsRows, Zenon DEF StoreInv
<1> QED
  BY <1>1, StoreKeepsBalances, StoreKeepsSlots, StoreKeepsNonces, Zenon DEF StoreInv

(* The invariant of the store holds in every behaviour.                    *)
THEOREM StoreIsSound == Spec => []StoreInv
  BY InitStore, NextKeepsStore, PTL DEF Spec

(* However reservations, receipts and settlements interleave, what the     *)
(* requests of a session hold stays within its confirmed balance           *)
(* (ReserveInference, PrepareReceipt, the indexer's ReceiptSettled).       *)
THEOREM HoldsAreCovered == Spec => []HoldsWithinBalance
<1>1. StoreInv => HoldsWithinBalance
  BY Zenon DEF StoreInv, Balances
<1> QED BY <1>1, StoreIsSound, PTL

(* The indexer's floor at zero never hides a charge: the balance is what   *)
(* the session was opened with less the charges of its settled receipts.   *)
THEOREM NothingIsHidden == Spec => []SettlementsDrainTheBalance
<1>1. StoreInv => SettlementsDrainTheBalance
  BY Zenon DEF StoreInv, Balances
<1> QED BY <1>1, StoreIsSound, PTL

(* A co-signed receipt keeps its hold until it is settled, also when its   *)
(* handler was told that queueing it failed (Enqueue, AbortInference).     *)
THEOREM QueuedReceiptsAreHeld == Spec => []QueuedReceiptsStayHeld
<1>1. StoreInv => QueuedReceiptsStayHeld
  BY Zenon DEF StoreInv, Rows, RowsAgree, RowAgrees, QueuedReceiptsStayHeld
<1> QED BY <1>1, StoreIsSound, PTL

(* No offer executes two requests or has a slot open while it executes one *)
(* (ReserveInference, ReconcileProviderCapacity, AbortInference).          *)
THEOREM SlotsAreExclusive == Spec => []OneJobPerSlot
<1>1. StoreInv => OneJobPerSlot
  BY Zenon DEF StoreInv
<1> QED BY <1>1, StoreIsSound, PTL

(* No nonce of a provider is issued to two requests (PrepareReceipt).      *)
THEOREM NoncesAreUnique == Spec => []NoncesDiffer
<1>1. StoreInv => NoncesDiffer
  BY Zenon DEF StoreInv, Nonces
<1> QED BY <1>1, StoreIsSound, PTL
=============================================================================
