------------------------------ MODULE Inference ------------------------------
(***************************************************************************)
(* The life of an inference request: the API handler that serves it, the   *)
(* rows it leaves in the store, the provider's daemon that executes it,    *)
(* the coordinator that gets its receipt signed, and the settlement that   *)
(* releases its hold.                                                      *)
(*                                                                         *)
(* A transaction of the store is one step.  A handler is a goroutine: it   *)
(* waits between its transactions for messages, its timers and its client, *)
(* while heartbeats, other handlers and the daemon go on.  The wire, the   *)
(* hub and the event broker between the daemon and a handler are the       *)
(* channel the handler reads; a message sent without a connection is lost. *)
(***************************************************************************)
EXTENDS Integers, Sequences, FiniteSets, Sums

CONSTANTS
    Requests, Sessions, Offers, Machines,
    machineOf, providerOf,      \* of an offer
    Balance,                    \* what a session holds when it is opened
    Costs,                      \* worst-case costs a request may have
    QueueSize,                  \* of a machine's outbound channel
    StreamSize,                 \* of a handler's event channel
    MaxChunks,                  \* bound: output chunks before the last one
    MaxCrashes                  \* bound: restarts of the server

ASSUME InferenceAssumption ==
    /\ IsFiniteSet(Requests)
    /\ machineOf \in [Offers -> Machines]
    /\ Balance \in [Sessions -> Nat]
    /\ Costs \subseteq Nat \ {0}
    /\ {QueueSize, StreamSize} \subseteq Nat \ {0}
    /\ {MaxChunks, MaxCrashes} \subseteq Nat

VARIABLES
    (* the store *)
    state,          \* requests.state
    sessionOf, offerOf, maximum,    \* the other columns of a request
    hold,           \* inference_reservations.amount
    held,           \* requests whose reservation has no released_at
    nonce,          \* receipt_nonces, 0 without a row
    capacity,       \* provider_routing_state.capacity
    confirmed,      \* sessions.confirmed_balance_wei
    queue,          \* settlement_queue.state
    (* the server's memory *)
    handler,        \* where the request's handler waits
    clientGone,     \* the client of the request has disconnected
    events,         \* the handler's channel
    overflow,       \* requests for which the broker found it full
    connected,      \* machines the hub has a session for
    down,           \* a machine's outbound messages
    crashes,
    (* the provider's machine *)
    serving,        \* machines whose daemon holds its connection
    job,            \* what the daemon makes of the request
    chunks          \* output chunks it sent

storeVars == <<state, sessionOf, offerOf, maximum, hold, held, nonce, capacity,
               confirmed, queue>>
serverVars == <<handler, clientGone, events, overflow, connected, down, crashes>>
daemonVars == <<serving, job, chunks>>
vars == <<state, sessionOf, offerOf, maximum, hold, held, nonce, capacity,
          confirmed, queue, handler, clientGone, events, overflow, connected,
          down, crashes, serving, job, chunks>>

None == "none"
Absent == [r \in Requests |-> None]

Init ==
    /\ state = Absent /\ sessionOf = Absent /\ offerOf = Absent
    /\ maximum = [r \in Requests |-> 0] /\ hold = [r \in Requests |-> 0]
    /\ held = {}
    /\ nonce = [r \in Requests |-> 0]
    /\ capacity = [o \in Offers |-> 0]
    /\ confirmed = Balance
    /\ queue = Absent
    /\ handler = Absent
    /\ clientGone = {} /\ overflow = {}
    /\ events = [r \in Requests |-> <<>>]
    /\ connected = {} /\ serving = {}
    /\ down = [m \in Machines |-> <<>>]
    /\ job = Absent
    /\ chunks = [r \in Requests |-> 0]
    /\ crashes = 0

MachineFor(r) == machineOf[offerOf[r]]

-----------------------------------------------------------------------------
(* The store's transactions *)

SignedMayFail(from, to) ==
    \/ from = "offered" /\ to \in {"accepted", "rejected", "expired", "cancelled"}
    \/ from = "accepted" /\ to \in {"streaming", "cancelled", "failed"}
    \/ from = "streaming" /\ to \in {"completed", "cancelled", "failed"}
    \/ from = "completed" /\ to \in {"signed", "failed"}
    \/ from = "signed" /\ to \in {"submitted", "failed"}
    \/ from = "submitted" /\ to = "settled"

(* The transitions table, from the states a transaction leaves behind. *)
transitions(from, to) ==
    \/ from = "offered" /\ to \in {"accepted", "rejected", "expired", "cancelled"}
    \/ from = "accepted" /\ to \in {"streaming", "cancelled", "failed"}
    \/ from = "streaming" /\ to \in {"completed", "cancelled", "failed"}
    \/ from = "completed" /\ to \in {"signed", "failed"}
    \/ from = "signed" /\ to = "submitted"
    \/ from = "submitted" /\ to = "settled"

Executing == {"offered", "accepted", "streaming"}

HeldOf(s) == {r \in held : sessionOf[r] = s}
Locked(s) == Sum([r \in HeldOf(s) |-> hold[r]])

HasSlot(o) == capacity[o] > 0

IgnoresHolds(s, cost) == cost <= confirmed[s]

Affordable(s, cost) == Locked(s) <= confirmed[s] /\ cost <= confirmed[s] - Locked(s)

(* ReserveInference: created, reserved and offered in one transaction. *)
ReserveInference(r, s, o, cost) ==
    /\ HasSlot(o)
    /\ Affordable(s, cost)
    /\ capacity' = [capacity EXCEPT ![o] = @ - 1]
    /\ state' = [state EXCEPT ![r] = "offered"]
    /\ sessionOf' = [sessionOf EXCEPT ![r] = s]
    /\ offerOf' = [offerOf EXCEPT ![r] = o]
    /\ maximum' = [maximum EXCEPT ![r] = cost]
    /\ hold' = [hold EXCEPT ![r] = cost]
    /\ held' = held \cup {r}
    /\ UNCHANGED <<nonce, confirmed, queue>>

TransitionRequest(r, next) ==
    /\ transitions(state[r], next)
    /\ state' = [state EXCEPT ![r] = next]
    /\ UNCHANGED <<sessionOf, offerOf, maximum, hold, held, nonce, capacity,
                   confirmed, queue>>

(* Only a request that still occupies the host gives its slot back. *)
SlotReopens(r) == r \in held /\ state[r] \in Executing

(* AbortInference; an invalid transition is an error nobody looks at. *)
AbortInference(r, terminal) ==
    \/ /\ ~transitions(state[r], terminal)
       /\ UNCHANGED storeVars
    \/ /\ transitions(state[r], terminal)
       /\ state' = [state EXCEPT ![r] = terminal]
       /\ held' = held \ {r}
       /\ capacity' = IF SlotReopens(r)
                      THEN [capacity EXCEPT ![offerOf[r]] = @ + 1] ELSE capacity
       /\ UNCHANGED <<sessionOf, offerOf, maximum, hold, nonce, confirmed, queue>>

(* CompleteInference: the host's slot is free again, the hold stays. *)
CompleteInference(r) ==
    /\ state[r] = "streaming"
    /\ state' = [state EXCEPT ![r] = "completed"]
    /\ capacity' = [capacity EXCEPT ![offerOf[r]] = @ + 1]
    /\ UNCHANGED <<sessionOf, offerOf, maximum, hold, held, nonce, confirmed, queue>>

SameProvider(r) ==
    {q \in Requests : nonce[q] # 0 /\ providerOf[offerOf[q]] = providerOf[offerOf[r]]}

CountedNonce(r) ==
    1 + Cardinality({q \in SameProvider(r) : state[q] # "failed"})

(* One more than the provider's largest nonce so far. *)
NextNonce(r) ==
    CHOOSE n \in 1 .. Cardinality(Requests) :
        /\ \A q \in SameProvider(r) : nonce[q] < n
        /\ n = 1 \/ \E q \in SameProvider(r) : nonce[q] = n - 1

(* PrepareReceipt: the hold shrinks to the charge of the metered usage. *)
PrepareReceipt(r, charge) ==
    /\ state[r] = "completed"
    /\ charge <= maximum[r] /\ charge <= hold[r]
    /\ hold' = [hold EXCEPT ![r] = charge]
    /\ held' = IF charge = 0 THEN held \ {r} ELSE held \cup {r}
    /\ nonce' = [nonce EXCEPT ![r] = IF @ = 0 THEN NextNonce(r) ELSE @]
    /\ UNCHANGED <<state, sessionOf, offerOf, maximum, capacity, confirmed, queue>>

(* Enqueue, with the transition of the request to signed. *)
Enqueue(r) ==
    /\ queue' = [queue EXCEPT ![r] = "cosigned"]
    /\ state' = [state EXCEPT ![r] = IF @ = "completed" THEN "signed" ELSE @]
    /\ UNCHANGED <<sessionOf, offerOf, maximum, hold, held, nonce, capacity, confirmed>>

OpensEverySlot(o) == 1

(* An offer that executes something has no slot left. *)
FreeSlot(o) ==
    IF \E r \in held : offerOf[r] = o /\ state[r] \in Executing THEN 0 ELSE 1

(* ReconcileProviderCapacity for the offers of a heartbeat that the chain  *)
(* confirms; the machine's other offers get no requests.                   *)
ReconcileProviderCapacity(m, offered) ==
    /\ capacity' = [o \in Offers |->
                        IF machineOf[o] # m THEN capacity[o]
                        ELSE IF o \in offered THEN FreeSlot(o) ELSE 0]
    /\ UNCHANGED <<state, sessionOf, offerOf, maximum, hold, held, nonce,
                   confirmed, queue>>

-----------------------------------------------------------------------------
(* The API handler *)

Sendable(m) == m \in connected /\ Len(down[m]) < QueueSize

(* Hub.Send: queued, or an error without a connection or room. *)
Sent(m, type, r) == [down EXCEPT ![m] = Append(@, [type |-> type, request |-> r])]

cancel(r) ==
    down' = IF Sendable(MachineFor(r)) THEN Sent(MachineFor(r), "cancel", r) ELSE down

(* The handler returns: its channel is unregistered. *)
Return(r) ==
    /\ handler' = [handler EXCEPT ![r] = "done"]
    /\ events' = [events EXCEPT ![r] = <<>>]
    /\ UNCHANGED <<clientGone, overflow, connected, crashes, daemonVars>>

(* Every failure ends in an abort, with or without a word to the machine. *)
AbortAndCancel(r, terminal) == AbortInference(r, terminal) /\ Return(r) /\ cancel(r)
AbortOnly(r, terminal) == AbortInference(r, terminal) /\ Return(r) /\ UNCHANGED down

Goes(r, where) ==
    /\ handler' = [handler EXCEPT ![r] = where]
    /\ UNCHANGED <<clientGone, overflow, connected, crashes, daemonVars>>

(* A request is authorized, routed to a connected machine and reserved. *)
ServeHTTP(r, s, o, cost) ==
    /\ handler[r] = None
    /\ machineOf[o] \in connected
    /\ ReserveInference(r, s, o, cost)
    /\ Goes(r, "reserved")
    /\ UNCHANGED <<events, down>>

SendOffer(r) ==
    /\ handler[r] = "reserved"
    /\ \/ /\ Sendable(MachineFor(r))
          /\ down' = Sent(MachineFor(r), "offer", r)
          /\ Goes(r, "waitAccepted")
          /\ UNCHANGED <<events, storeVars>>
       \/ /\ ~Sendable(MachineFor(r))
          /\ AbortOnly(r, "failed")

NextEvent(r, type) == events[r] # <<>> /\ Head(events[r]) = type

(* waitAccepted returns with the acceptance, or with an error when its     *)
(* timer fires, the client leaves or the channel overflowed.               *)
waitAccepted(r) ==
    /\ handler[r] = "waitAccepted"
    /\ \/ /\ NextEvent(r, "accept")
          /\ events' = [events EXCEPT ![r] = Tail(@)]
          /\ Goes(r, "accepting")
          /\ UNCHANGED <<down, storeVars>>
       \/ AbortAndCancel(r, "failed")

(* A transaction fails once the context of the client is done. *)
TransitionAccepted(r) ==
    /\ handler[r] = "accepting"
    /\ \/ /\ r \notin clientGone
          /\ TransitionRequest(r, "accepted")
          /\ Goes(r, "streaming")
          /\ UNCHANGED <<events, down>>
       \/ r \in clientGone /\ AbortAndCancel(r, "failed")

(* The first chunk moves the request to streaming. *)
TransitionStreaming(r) ==
    /\ handler[r] = "streaming"
    /\ state[r] = "accepted"
    /\ NextEvent(r, "data") \/ NextEvent(r, "finished") \/ NextEvent(r, "exceeded")
    /\ \/ /\ r \notin clientGone
          /\ TransitionRequest(r, "streaming")
          /\ Goes(r, "chunk")
          /\ UNCHANGED <<events, down>>
       \/ /\ r \in clientGone
          /\ IF NextEvent(r, "data") THEN AbortAndCancel(r, "failed")
                                     ELSE AbortOnly(r, "failed")

(* An output chunk is written to the client; usage above the limits fails. *)
HandleChunk(r) ==
    /\ handler[r] \in {"chunk", "streaming"} /\ state[r] = "streaming"
    /\ \/ /\ NextEvent(r, "data")
          /\ \/ /\ events' = [events EXCEPT ![r] = Tail(@)]
                /\ Goes(r, "streaming")
                /\ UNCHANGED <<down, storeVars>>
             \/ r \in clientGone /\ AbortAndCancel(r, "failed")
       \/ NextEvent(r, "exceeded") /\ AbortAndCancel(r, "failed")
       \/ /\ NextEvent(r, "finished")
          /\ events' = [events EXCEPT ![r] = Tail(@)]
          /\ Goes(r, "completing")
          /\ UNCHANGED <<down, storeVars>>

ErrorIsDone(r) ==
    /\ handler[r] = "streaming"
    /\ NextEvent(r, "error")
    /\ events' = [events EXCEPT ![r] = Tail(@)]
    /\ Goes(r, "completing")
    /\ UNCHANGED <<down, storeVars>>

HandleError(r) ==
    /\ handler[r] = "streaming"
    /\ NextEvent(r, "error")
    /\ AbortOnly(r, "failed")

OnlyTheClientEnds(r) ==
    /\ handler[r] = "streaming"
    /\ r \in clientGone /\ AbortAndCancel(r, "cancelled")

(* The generation timer, the client and the broker end a stream. *)
EndStream(r) ==
    /\ handler[r] = "streaming"
    /\ \/ AbortAndCancel(r, "failed")
       \/ r \in clientGone /\ AbortAndCancel(r, "cancelled")

-----------------------------------------------------------------------------
(* The coordinator, still within the handler *)

Complete(r) ==
    /\ handler[r] = "completing"
    /\ \/ /\ r \notin clientGone
          /\ CompleteInference(r)
          /\ Goes(r, "preparing")
          /\ UNCHANGED <<events, down>>
       \/ r \in clientGone /\ AbortOnly(r, "failed")

(* The chain's terms are read, the receipt is prepared; both may fail. *)
Prepare(r) ==
    /\ handler[r] = "preparing"
    /\ \/ /\ r \notin clientGone
          /\ \E charge \in 0 .. maximum[r] : PrepareReceipt(r, charge)
          /\ Goes(r, "proposing")
          /\ UNCHANGED <<events, down>>
       \/ AbortOnly(r, "failed")

(* The coordinator subscribes to the request and sends the proposal. *)
Propose(r) ==
    /\ handler[r] = "proposing"
    /\ \/ /\ Sendable(MachineFor(r))
          /\ down' = Sent(MachineFor(r), "proposal", r)
          /\ Goes(r, "signing")
          /\ UNCHANGED <<events, storeVars>>
       \/ ~Sendable(MachineFor(r)) /\ AbortOnly(r, "failed")

(* A valid signature is co-signed and queued.  The commit may succeed and  *)
(* still be reported as an error, and then the handler aborts.             *)
Cosign(r) ==
    /\ handler[r] = "signing"
    /\ NextEvent(r, "signature")
    /\ r \notin clientGone
    /\ Enqueue(r)
    /\ \/ Return(r) /\ UNCHANGED down
       \/ Goes(r, "unsure") /\ UNCHANGED <<events, down>>

(* The signature is late or invalid, its signer is not authorized, the     *)
(* client leaves, or the queue reports an error.                           *)
GiveUp(r) ==
    /\ handler[r] \in {"signing", "unsure"}
    /\ AbortOnly(r, "failed")

HandlerStep(r) ==
    \/ SendOffer(r) \/ waitAccepted(r) \/ TransitionAccepted(r)
    \/ TransitionStreaming(r) \/ HandleChunk(r) \/ HandleError(r) \/ EndStream(r)
    \/ Complete(r) \/ Prepare(r) \/ Propose(r) \/ Cosign(r) \/ GiveUp(r)

ClientLeaves(r) ==
    /\ handler[r] \notin {None, "done", "lost"}
    /\ clientGone' = clientGone \cup {r}
    /\ UNCHANGED <<storeVars, handler, events, overflow, connected, down, crashes,
                   daemonVars>>

-----------------------------------------------------------------------------
(* The provider's daemon and its connection *)

(* The broker passes a message on to the handler, if there still is one. *)
Deliver(r, type) ==
    LET listens == MachineFor(r) \in connected /\ handler[r] \notin {None, "done", "lost"}
        full == Len(events[r]) >= StreamSize
    IN  /\ events' = IF listens /\ ~full
                     THEN [events EXCEPT ![r] = Append(@, type)] ELSE events
        /\ overflow' = IF listens /\ full THEN overflow \cup {r} ELSE overflow
        /\ UNCHANGED <<storeVars, handler, clientGone, connected, crashes>>

Arrives(m, type, r) ==
    /\ m \in serving
    /\ down[m] # <<>>
    /\ Head(down[m]) = [type |-> type, request |-> r]
    /\ down' = [down EXCEPT ![m] = Tail(@)]

startJob(m, r) ==
    /\ Arrives(m, "offer", r)
    /\ job' = [job EXCEPT ![r] = "running"]
    /\ Deliver(r, "accept")
    /\ UNCHANGED <<serving, chunks>>

(* A running job is cancelled; its backend's error is sent like any other. *)
CancelJob(m, r) ==
    /\ Arrives(m, "cancel", r)
    /\ job' = [job EXCEPT ![r] = IF @ = "running" THEN "cancelled" ELSE @]
    /\ UNCHANGED <<storeVars, handler, clientGone, events, overflow, connected,
                   crashes, serving, chunks>>

signProposal(m, r) ==
    /\ Arrives(m, "proposal", r)
    /\ IF handler[r] = "signing" THEN Deliver(r, "signature")
       ELSE UNCHANGED <<storeVars, handler, clientGone, events, overflow, connected, crashes>>
    /\ UNCHANGED daemonVars

SendChunk(r) ==
    /\ job[r] = "running" /\ MachineFor(r) \in serving
    /\ chunks[r] < MaxChunks
    /\ chunks' = [chunks EXCEPT ![r] = @ + 1]
    /\ Deliver(r, "data")
    /\ UNCHANGED <<down, serving, job>>

(* The last chunk carries the usage, within the limits or above them. *)
FinishJob(r) ==
    /\ job[r] = "running" /\ MachineFor(r) \in serving
    /\ \E usage \in {"finished", "exceeded"} :
           job' = [job EXCEPT ![r] = usage] /\ Deliver(r, usage)
    /\ UNCHANGED <<down, serving, chunks>>

FailJob(r) ==
    /\ job[r] \in {"running", "cancelled"} /\ MachineFor(r) \in serving
    /\ job' = [job EXCEPT ![r] = "failed"]
    /\ Deliver(r, "error")
    /\ UNCHANGED <<down, serving, chunks>>

(* The connection ends on the daemon's side: every job is cancelled. *)
LoseConnection(m) ==
    /\ m \in serving
    /\ serving' = serving \ {m}
    /\ job' = [r \in Requests |->
                   IF job[r] \in {"running", "cancelled"} /\ MachineFor(r) = m
                   THEN "failed" ELSE job[r]]
    /\ UNCHANGED <<storeVars, serverVars, chunks>>

(* The hub drops a session: read error, missed heartbeats, backpressure. *)
unregister(m) ==
    /\ m \in connected
    /\ connected' = connected \ {m}
    /\ down' = [down EXCEPT ![m] = <<>>]
    /\ UNCHANGED <<storeVars, handler, clientGone, events, overflow, crashes, daemonVars>>

Connect(m) ==
    /\ m \notin serving
    /\ serving' = serving \cup {m}
    /\ connected' = connected \cup {m}
    /\ down' = [down EXCEPT ![m] = <<>>]
    /\ UNCHANGED <<storeVars, handler, clientGone, events, overflow, crashes, job, chunks>>

Heartbeat(m) ==
    /\ m \in serving \cap connected
    /\ \E offered \in SUBSET {o \in Offers : machineOf[o] = m} :
           ReconcileProviderCapacity(m, offered)
    /\ UNCHANGED <<serverVars, daemonVars>>

-----------------------------------------------------------------------------
(* Settlement and restarts *)

(* SettleBatch with a limit of one: while a transaction is out it is only  *)
(* sent again, otherwise a queued receipt is taken.                        *)
SettleBatch(r) ==
    /\ queue[r] = "cosigned"
    /\ \A q \in Requests : queue[q] # "broadcasting"
    /\ queue' = [queue EXCEPT ![r] = "broadcasting"]
    /\ state' = [state EXCEPT ![r] = IF @ = "signed" THEN "submitted" ELSE @]
    /\ UNCHANGED <<sessionOf, offerOf, maximum, hold, held, nonce, capacity, confirmed>>
    /\ UNCHANGED <<serverVars, daemonVars>>

ReservedAmount(r) == maximum[r]

(* The charge of the receipt, which the hold has to equal. *)
SettledCharge(r) == hold[r]

(* The indexer applies the ReceiptSettled event of a broadcast receipt. *)
ReceiptSettled(r) ==
    /\ queue[r] = "broadcasting"
    /\ LET s == sessionOf[r]
           left == confirmed[s] - SettledCharge(r)
       IN  confirmed' = [confirmed EXCEPT ![s] = IF left < 0 THEN 0 ELSE left]
    /\ queue' = [queue EXCEPT ![r] = "settled"]
    /\ held' = held \ {r}
    /\ state' = [state EXCEPT ![r] = IF @ = "submitted" THEN "settled" ELSE @]
    /\ UNCHANGED <<sessionOf, offerOf, maximum, hold, nonce, capacity>>
    /\ UNCHANGED <<serverVars, daemonVars>>

(* The server stops: its handlers and the hub's sessions are gone, and     *)
(* nothing in the store remembers that a handler was at work.              *)
Crash ==
    /\ crashes < MaxCrashes
    /\ crashes' = crashes + 1
    /\ handler' = [r \in Requests |->
                       IF handler[r] \in {None, "done"} THEN handler[r] ELSE "lost"]
    /\ events' = [r \in Requests |-> <<>>]
    /\ connected' = {}
    /\ down' = [m \in Machines |-> <<>>]
    /\ UNCHANGED <<storeVars, clientGone, overflow, daemonVars>>

Next ==
    \/ \E r \in Requests :
        \/ \E s \in Sessions, o \in Offers, cost \in Costs : ServeHTTP(r, s, o, cost)
        \/ HandlerStep(r) \/ ClientLeaves(r)
        \/ SendChunk(r) \/ FinishJob(r) \/ FailJob(r)
        \/ SettleBatch(r) \/ ReceiptSettled(r)
        \/ \E m \in Machines : startJob(m, r) \/ CancelJob(m, r) \/ signProposal(m, r)
    \/ \E m \in Machines : LoseConnection(m) \/ unregister(m) \/ Connect(m) \/ Heartbeat(m)
    \/ Crash

Spec == Init /\ [][Next]_vars

(* A handler always has something to do: a message, or a timer that fires. *)
FairSpec == Spec /\ \A r \in Requests : WF_vars(HandlerStep(r))

-----------------------------------------------------------------------------
(* Correctness *)

States == {None, "offered", "accepted", "streaming", "completed", "signed",
           "submitted", "settled", "cancelled", "failed"}
Waits == {None, "reserved", "waitAccepted", "accepting", "streaming", "chunk",
          "completing", "preparing", "proposing", "signing", "unsure", "done", "lost"}

(* Every table and channel holds values of its kind; capacity, an unsigned *)
(* count, never goes below zero, and no channel exceeds its size.          *)
TypeOK ==
    /\ state \in [Requests -> States]
    /\ sessionOf \in [Requests -> Sessions \cup {None}]
    /\ offerOf \in [Requests -> Offers \cup {None}]
    /\ maximum \in [Requests -> Nat] /\ hold \in [Requests -> Nat]
    /\ held \subseteq Requests
    /\ nonce \in [Requests -> Nat]
    /\ capacity \in [Offers -> Nat] /\ confirmed \in [Sessions -> Nat]
    /\ queue \in [Requests -> {None, "cosigned", "broadcasting", "settled"}]
    /\ handler \in [Requests -> Waits]
    /\ clientGone \subseteq Requests /\ overflow \subseteq Requests
    /\ \A r \in Requests : Len(events[r]) <= StreamSize
    /\ connected \subseteq Machines /\ serving \subseteq Machines
    /\ \A m \in Machines : Len(down[m]) <= QueueSize
    /\ crashes \in 0 .. MaxCrashes
    /\ job \in [Requests -> {None, "running", "cancelled", "finished", "exceeded", "failed"}]
    /\ chunks \in [Requests -> 0 .. MaxChunks]

(* What a session's requests hold is covered by its confirmed balance,     *)
(* whatever reservations, charges and settlements interleave               *)
(* (ReserveInference, PrepareReceipt, the indexer's ReceiptSettled).       *)
HoldsWithinBalance == \A s \in Sessions : Locked(s) <= confirmed[s]

(* An offer's slot is free or executes one request, never both: neither a  *)
(* heartbeat during an execution nor an abort after a completion opens it  *)
(* twice (ReconcileProviderCapacity, CompleteInference, AbortInference).   *)
OneJobPerSlot ==
    \A o \in Offers :
        capacity[o] + Cardinality({r \in held : offerOf[r] = o /\ state[r] \in Executing}) <= 1

(* A co-signed receipt that is not settled keeps its exact hold, even when *)
(* its handler was told that queueing it failed and aborts the request     *)
(* (Enqueue, AbortInference, the transitions table).                       *)
QueuedReceiptsStayHeld ==
    \A r \in Requests :
        queue[r] \in {"cosigned", "broadcasting"} =>
            /\ state[r] = IF queue[r] = "cosigned" THEN "signed" ELSE "submitted"
            /\ r \in held \/ hold[r] = 0

Settled(s) == {r \in Requests : queue[r] = "settled" /\ sessionOf[r] = s}

(* A session's confirmed balance is what it was opened with, less exactly  *)
(* the charges of its settled receipts: the indexer's floor at zero never  *)
(* hides a charge the holds did not cover.                                 *)
SettlementsDrainTheBalance ==
    \A s \in Sessions :
        confirmed[s] + Sum([r \in Settled(s) |-> hold[r]]) = Balance[s]

(* A receipt nonce is issued once per provider, also when the request it   *)
(* was issued to failed after the provider may have signed it              *)
(* (PrepareReceipt).                                                       *)
NoncesDiffer ==
    \A q, r \in {r \in Requests : nonce[r] # 0} :
        q # r /\ providerOf[offerOf[q]] = providerOf[offerOf[r]] => nonce[q] # nonce[r]

(* Only a job that its backend finished within the limits is billed: not   *)
(* one that failed, was cancelled or lost its connection (ServeHTTP).      *)
BilledJobsFinished == \A r \in Requests : queue[r] # None => job[r] = "finished"

(* An accepted request is decided: its receipt is queued, or its hold is   *)
(* released, whatever happens to the client, the daemon and the            *)
(* connection, as long as the server runs (ServeHTTP, Complete).           *)
AcceptedRequestsResolve ==
    \A r \in Requests : state[r] = "accepted" ~> (queue[r] # None \/ r \notin held)

(* A handler that returned without a queued receipt released its hold      *)
(* (every failure path of ServeHTTP calls AbortInference).                 *)
ReturnedHandlersReleased ==
    \A r \in Requests : handler[r] = "done" /\ queue[r] = None => r \notin held

(* No chunk of a billed answer was dropped on the way to the client        *)
(* (eventBroker.run, the select loop of ServeHTTP).                        *)
BilledOutputIsComplete == \A r \in Requests : queue[r] # None => r \notin overflow
=============================================================================
