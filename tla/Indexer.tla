------------------------------- MODULE Indexer -------------------------------
(***************************************************************************)
(* The indexer's Sync loop (chain/indexer.go) on a chain that forks, with  *)
(* RPC calls that fail and a server that restarts.  Each RPC call reads    *)
(* the chain at a moment of its own; each database transaction is one      *)
(* step.  What an event does to the tables is ChainTables.                 *)
(***************************************************************************)
EXTENDS Integers, Sequences, FiniteSets, SequencesExt, Sums, ChainTables

CONSTANTS
    Sessions, Requests,
    sessionOf, charge,      \* of a request
    allowance,              \* of a session
    customer, provider,
    Confirmations,          \* blocks a block waits before it is indexed
    BatchSize,              \* indexBatchSize
    MaxDepth,               \* how many of the newest blocks a fork may replace
    MaxHeight, MaxForks, MaxFaults      \* bounds

VARIABLES
    chain,      \* the canonical blocks: a hash and an event or None
    minted,     \* blocks ever mined; the number is the block's hash
    peak,       \* the greatest height the chain had
    forks, faults,
    db,         \* the tables
    cursor,     \* chain_cursors: next_block, last_block_hash
    sync        \* where Sync is, with its local variables

chainVars == <<chain, minted, peak, forks>>
vars == <<chain, minted, peak, forks, faults, db, cursor, sync>>

None == [kind |-> "None"]
StartBlock == 1
NoCursor == [next |-> StartBlock, last |-> 0, hash |-> 0]
Resting == [at |-> "idle", target |-> 0, next |-> 0, hash |-> 0]

Init ==
    /\ chain = <<>> /\ minted = 0 /\ peak = 0 /\ forks = 0 /\ faults = 0
    /\ db = EmptyTables({customer})
    /\ cursor = NoCursor
    /\ sync = Resting

-----------------------------------------------------------------------------
(* The chain *)

EventsOf(blocks) == [i \in DOMAIN blocks |-> blocks[i].event]
Happened == {chain[i].event : i \in DOMAIN chain}

Opened(s) == [kind |-> "SessionOpened", session |-> s, account |-> customer,
              amount |-> allowance[s], at |-> 9]
CloseRequested(s) == [kind |-> "SessionCloseRequested", session |-> s, at |-> 9]
SpentOn(s) ==
    Sum([r \in {q \in Requests : sessionOf[q] = s
                    /\ \E e \in Happened : e.kind = "ReceiptSettled" /\ e.request = q} |->
            charge[r]])
Closed(s, spent) == [kind |-> "SessionClosed", session |-> s, amount |-> allowance[s] - spent]
Settled(r) == [kind |-> "ReceiptSettled", request |-> r, session |-> sessionOf[r],
               account |-> provider, amount |-> charge[r], fee |-> 0]

IsClosed(s) == \E e \in Happened : e.kind = "SessionClosed" /\ e.session = s

(* The events the contract can emit next, given what happened so far. *)
Possible ==
    {None}
    \cup {Opened(s) : s \in {t \in Sessions : Opened(t) \notin Happened}}
    \cup {CloseRequested(s) : s \in {t \in Sessions : Opened(t) \in Happened
                                                      /\ CloseRequested(t) \notin Happened}}
    \cup {Closed(s, SpentOn(s)) : s \in {t \in Sessions : CloseRequested(t) \in Happened
                                                          /\ ~IsClosed(t)}}
    \cup {Settled(r) : r \in {q \in DOMAIN db.requests :
                                  /\ Settled(q) \notin Happened
                                  /\ Opened(sessionOf[q]) \in Happened
                                  /\ ~IsClosed(sessionOf[q])
                                  /\ SpentOn(sessionOf[q]) + charge[q]
                                        <= allowance[sessionOf[q]]}}

Mine ==
    /\ Len(chain) < MaxHeight
    /\ \E e \in Possible : chain' = Append(chain, [hash |-> minted + 1, event |-> e])
    /\ minted' = minted + 1
    /\ peak' = IF Len(chain') > peak THEN Len(chain') ELSE peak
    /\ UNCHANGED <<forks, faults, db, cursor, sync>>

(* The newest blocks are dropped; other blocks take their place. *)
Fork ==
    /\ forks < MaxForks
    /\ \E kept \in 0 .. Len(chain) - 1 :
           /\ peak - kept <= MaxDepth
           /\ chain' = SubSeq(chain, 1, kept)
    /\ forks' = forks + 1
    /\ UNCHANGED <<minted, peak, faults, db, cursor, sync>>

-----------------------------------------------------------------------------
(* The broker takes a request: ReserveInference and all that follows until *)
(* its settlement transaction is out, when the hold is the exact charge.   *)

Locked(s) == Sum([r \in {q \in db.held : sessionOf[q] = s} |-> db.hold[r]])

Spendable(s) == db.sessions[s].confirmed - Locked(s)

Admit(r) ==
    LET s == sessionOf[r]
    IN  /\ r \notin DOMAIN db.requests
        /\ s \in DOMAIN db.sessions /\ db.sessions[s].state = "open"
        /\ charge[r] <= Spendable(s)
        /\ db' = [db EXCEPT !.requests = Upsert(@, r, "submitted"),
                            !.queue = Upsert(@, r, "broadcasting"),
                            !.hold = Upsert(@, r, charge[r]),
                            !.held = @ \cup {r}]
        /\ UNCHANGED <<chainVars, faults, cursor, sync>>

-----------------------------------------------------------------------------
(* Sync *)

Unconfirmed == Len(chain)

(* head.Number - confirmations *)
Target == Len(chain) - Confirmations

ReadHead ==
    /\ sync.at = "idle"
    /\ Len(chain) >= Confirmations
    /\ sync' = [sync EXCEPT !.at = "check", !.target = Target, !.next = cursor.next]
    /\ UNCHANGED <<chainVars, faults, db, cursor>>

(* The block of the cursor, if it has one, is still there with its hash. *)
Canonical ==
    cursor.last # 0 => /\ cursor.last \in DOMAIN chain
                       /\ chain[cursor.last].hash = cursor.hash

Rewind ==
    /\ db' = rewind(db)
    /\ cursor' = NoCursor
    /\ sync' = [sync EXCEPT !.at = "range", !.next = StartBlock]

CheckCanonical ==
    /\ sync.at = "check"
    /\ \/ /\ Canonical
          /\ sync' = [sync EXCEPT !.at = "range"]
          /\ UNCHANGED <<faults, db, cursor>>
       \/ /\ ~Canonical
          /\ Rewind
          /\ UNCHANGED faults
       \/ (* a call that fails counts as a hash that differs *)
          /\ cursor.last # 0 /\ faults < MaxFaults
          /\ Rewind
          /\ faults' = faults + 1
    /\ UNCHANGED chainVars

batchEnd(next, target) == IF target - next < BatchSize - 1 THEN target ELSE next + BatchSize - 1

RangeEnd == batchEnd(sync.next, sync.target)

StopsBeforeTarget == sync.next >= sync.target

(* The loop's condition, negated. *)
RangesDone == sync.next > sync.target

(* The header of the last block of the range; a chain that has become      *)
(* shorter has no such block, which ends this Sync with an error.          *)
ReadHeader ==
    /\ sync.at = "range"
    /\ IF RangesDone \/ RangeEnd > Len(chain)
       THEN sync' = Resting
       ELSE sync' = [sync EXCEPT !.at = "logs", !.hash = chain[RangeEnd].hash]
    /\ UNCHANGED <<chainVars, faults, db, cursor>>

(* insertLog: an event that is in chain_logs already is not applied again. *)
(* A transaction is the same in every fork, so its event is its key.       *)
Fresh(tables, event) ==
    CASE event.kind = "SessionOpened" -> event.session \notin DOMAIN tables.chainSessions
      [] event.kind = "SessionCloseRequested" ->
            ~(event.session \in DOMAIN tables.chainSessions
              /\ tables.chainSessions[event.session].closeAt # 0)
      [] event.kind = "SessionClosed" ->
            ~(event.session \in DOMAIN tables.chainSessions
              /\ tables.chainSessions[event.session].finalized)
      [] event.kind = "ReceiptSettled" -> event.request \notin DOMAIN tables.settlements
      [] OTHER -> FALSE

Insert(tables, event) == IF Fresh(tables, event) THEN applyLog(tables, event) ELSE tables

Applied(tables, events) == FoldLeft(Insert, tables, events)

(* FilterLogs and the transaction that applies the logs and moves the      *)
(* cursor.  A range the chain no longer reaches, or whose events cannot be *)
(* applied, ends this Sync with an error and is tried again.               *)
indexRange ==
    /\ sync.at = "logs"
    /\ LET end == RangeEnd
           applied == Applied(db, EventsOf(SubSeq(chain, sync.next,
                                      IF end > Len(chain) THEN Len(chain) ELSE end)))
       IN  IF applied.failed THEN sync' = Resting /\ UNCHANGED <<db, cursor>>
           ELSE /\ db' = applied
                /\ cursor' = [next |-> end + 1, last |-> end, hash |-> sync.hash]
                /\ sync' = [sync EXCEPT !.at = "range", !.next = end + 1]
    /\ UNCHANGED <<chainVars, faults>>

(* The server stops, or a call of this Sync fails. *)
Interrupt ==
    /\ sync.at # "idle"
    /\ faults < MaxFaults
    /\ faults' = faults + 1
    /\ sync' = Resting
    /\ UNCHANGED <<chainVars, db, cursor>>

Sync == ReadHead \/ CheckCanonical \/ ReadHeader \/ indexRange

Next ==
    \/ Mine
    \/ Fork
    \/ \E r \in Requests : Admit(r)
    \/ Sync
    \/ Interrupt

Spec == Init /\ [][Next]_vars

(* Sync is called every second for as long as the server runs. *)
FairSpec == Spec /\ WF_vars(Sync)

-----------------------------------------------------------------------------
(* Properties *)

ChainView(tables) == [accounts |-> tables.accounts, sessions |-> tables.chainSessions,
                      settlements |-> tables.settlements]

Replay(events) == ChainView(Applied(EmptyTables({}), events))

FinalEvents ==
    IF peak <= Confirmations THEN <<>>
    ELSE EventsOf(SubSeq(chain, 1, peak - Confirmations))

Feed == INSTANCE FinalityView WITH
            final <- FinalEvents, view <- ChainView(db)

(* While no fork is deeper than the confirmations the indexer waits for,   *)
(* the chain tables are always the replay of a prefix of the final events, *)
(* through failed calls, interrupted Syncs, rewinds and replays.           *)
ImplementsFinalityView == Feed!Spec

(* "Settlement reorgs restore both request state and the financial hold":  *)
(* a request is settled, its queue row is settled and its hold is released *)
(* exactly when the index has its settlement.                              *)
SettledIffIndexed ==
    \A r \in DOMAIN db.requests :
        LET indexed == r \in DOMAIN db.settlements
        IN  /\ db.requests[r] = (IF indexed THEN "settled" ELSE "submitted")
            /\ db.queue[r] = (IF indexed THEN "settled" ELSE "broadcasting")
            /\ (r \in db.held) = ~indexed

(* What the broker lets a session spend is still there on the chain: the   *)
(* allowance, less every settlement mined so far, indexed or not, also     *)
(* while a rewind has put the whole allowance back and the settlements are *)
(* being replayed.                                                         *)
SpendableIsBacked ==
    \A s \in DOMAIN db.sessions :
        ~IsClosed(s) => Spendable(s) <= allowance[s] - SpentOn(s)

(* However it was thrown back, the indexer catches up with the final part  *)
(* of the chain and the cursor's hash is the chain's.                      *)
CaughtUp == Target >= 0 => cursor.next > Target /\ Canonical
CatchesUp == <>[]CaughtUp

(* The hash of the cursor's block vouches for everything indexed before    *)
(* it: Sync compares this hash and nothing else.  (Fails for a fork deeper *)
(* than the confirmations that falls between the check and a range.)       *)
HashVouchesForIndex ==
    Canonical => ChainView(db) = Replay(EventsOf(SubSeq(chain, 1, cursor.last)))

(* "Session close requests stop new admission": a session the broker has   *)
(* seen closing does not become open to requests again while its close     *)
(* request is on the chain.  (Fails during a replay.)                      *)
ClosingStopsAdmission ==
    [][\A s \in DOMAIN db.sessions :
          db.sessions[s].state # "open" /\ CloseRequested(s) \in Happened
              => db'.sessions[s].state # "open"]_vars
=============================================================================
