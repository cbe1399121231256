------------------------------ MODULE Realtime ------------------------------
(***************************************************************************)
(* The account's event stream.  A transaction that moves a request takes   *)
(* the next outbox id when it inserts its event, and both show when it     *)
(* commits.  The stream polls for ids above its cursor, a page at a time.  *)
(* The web client asks for the activity again at every event, and opens a  *)
(* new stream, which starts from the beginning, when the last one fails.   *)
(* The stream ticket is Enrollment's; what the page renders is left out.   *)
(***************************************************************************)
EXTENDS Integers, Sequences, FiniteSets, FiniteSetsExt, SequencesExt

CONSTANTS
    Requests,       \* the requests of one account
    Page,           \* LIMIT of the poll
    MaxSteps,       \* bound: transitions of a request
    MaxFaults       \* bound: rollbacks, lost connections and failed calls

VARIABLES
    nextId,         \* the sequence behind outbox.id
    open,           \* per request: ids its open transaction has taken
    state,          \* committed transitions of a request
    outbox,         \* committed events
    stream,         \* "none", "ticket" while one is asked for, "open"
    cursor,         \* of the stream
    wire,           \* events written and not yet received
    fetch,          \* "idle", "asked" or "answered"
    answer,         \* the activity on its way to the page
    shown,          \* the activity the page shows
    (* history *)
    told,           \* per request: the latest step an event told the client of
    backlog,        \* events committed when the stream opened, not received since
    faults

vars == <<nextId, open, state, outbox, stream, cursor, wire, fetch, answer, shown,
          told, backlog, faults>>
dbVars == <<nextId, open, state, outbox>>

Event(i, r, n) == [id |-> i, request |-> r, step |-> n]

Init ==
    /\ nextId = 1 /\ open = [r \in Requests |-> {}]
    /\ state = [r \in Requests |-> 0] /\ outbox = {}
    /\ stream = "ticket" /\ cursor = 0 /\ wire = <<>>
    /\ fetch = "asked"
    /\ answer = [r \in Requests |-> 0] /\ shown = [r \in Requests |-> 0]
    /\ told = [r \in Requests |-> 0] /\ backlog = {} /\ faults = 0

(* Reserve writes "reserved" and "offered"; every other writer one event.  *)
Rows(r) == IF state[r] = 0 THEN 2 ELSE 1

Insert(r) ==
    /\ state[r] < MaxSteps /\ Cardinality(open[r]) < Rows(r)
    /\ open' = [open EXCEPT ![r] = @ \cup {nextId}]
    /\ nextId' = nextId + 1
    /\ UNCHANGED <<state, outbox, stream, cursor, wire, fetch, answer, shown,
                   told, backlog, faults>>

Commit(r) ==
    /\ Cardinality(open[r]) = Rows(r)
    /\ state' = [state EXCEPT ![r] = @ + 1]
    /\ outbox' = outbox \cup {Event(i, r, state[r] + 1) : i \in open[r]}
    /\ open' = [open EXCEPT ![r] = {}]
    /\ UNCHANGED <<nextId, stream, cursor, wire, fetch, answer, shown, told,
                   backlog, faults>>

Rollback(r) ==
    /\ open[r] # {} /\ faults < MaxFaults
    /\ open' = [open EXCEPT ![r] = {}]
    /\ faults' = faults + 1
    /\ UNCHANGED <<nextId, state, outbox, stream, cursor, wire, fetch,
                   answer, shown, told, backlog>>

(* As if a new stream began with what is committed after it.              *)
FromTheEnd ==
    /\ stream = "ticket"
    /\ stream' = "open" /\ cursor' = nextId - 1 /\ wire' = <<>>
    /\ backlog' = outbox
    /\ UNCHANGED <<dbVars, fetch, answer, shown, told, faults>>

(* ServeHTTP: a new EventSource sends no Last-Event-ID.                    *)
Open ==
    /\ stream = "ticket"
    /\ stream' = "open" /\ cursor' = 0 /\ wire' = <<>>
    /\ backlog' = outbox
    /\ UNCHANGED <<dbVars, fetch, answer, shown, told, faults>>

writeAvailable(c) ==
    LET rows == SetToSortSeq({e \in outbox : e.id > c}, LAMBDA a, b : a.id < b.id)
    IN SubSeq(rows, 1, IF Len(rows) < Page THEN Len(rows) ELSE Page)

Poll ==
    LET page == writeAvailable(cursor)
    IN /\ stream = "open" /\ page # <<>>
       /\ cursor' = Last(page).id
       /\ wire' = wire \o page
       /\ UNCHANGED <<dbVars, stream, fetch, answer, shown, told, backlog, faults>>

(* A call for a ticket fails, or the connection is lost with what was on   *)
(* it: the client refetches and tries again a second later.                *)
Reconnect ==
    /\ faults < MaxFaults
    /\ stream \in {"ticket", "open"} /\ stream' = "none"
    /\ wire' = <<>> /\ cursor' = 0 /\ backlog' = {}
    /\ fetch' = "asked"
    /\ faults' = faults + 1
    /\ UNCHANGED <<dbVars, answer, shown, told>>

Retry ==
    /\ stream = "none" /\ stream' = "ticket"
    /\ UNCHANGED <<dbVars, cursor, wire, fetch, answer, shown, told, backlog, faults>>

(* onEvent: invalidateQueries cancels a fetch that is under way.           *)
Refetch(f) == "asked"

OnEvent ==
    /\ wire # <<>>
    /\ told' = [told EXCEPT ![Head(wire).request] = Max({@, Head(wire).step})]
    /\ backlog' = backlog \ {Head(wire)}
    /\ wire' = Tail(wire)
    /\ fetch' = Refetch(fetch)
    /\ UNCHANGED <<dbVars, stream, cursor, answer, shown, faults>>

AccountActivity ==
    /\ fetch = "asked" /\ fetch' = "answered" /\ answer' = state
    /\ UNCHANGED <<dbVars, stream, cursor, wire, shown, told, backlog, faults>>

Answer ==
    /\ fetch = "answered"
    /\ shown' = answer /\ fetch' = "idle"
    /\ UNCHANGED <<dbVars, stream, cursor, wire, answer, told, backlog, faults>>

Write == \E r \in Requests : Insert(r) \/ Commit(r) \/ Rollback(r)

Next == \/ Write \/ Open \/ Poll \/ Reconnect \/ Retry
        \/ OnEvent \/ AccountActivity \/ Answer

Spec == Init /\ [][Next]_vars

(* A transaction that was begun ends, the server polls every second, the   *)
(* browser delivers what arrives and the client retries.                   *)
FairSpec ==
    /\ Spec
    /\ WF_vars(Open) /\ WF_vars(Poll) /\ WF_vars(Retry)
    /\ WF_vars(OnEvent) /\ WF_vars(AccountActivity) /\ WF_vars(Answer)
    /\ \A r \in Requests : WF_vars(Commit(r))

-----------------------------------------------------------------------------
(* Once the page has no fetch under way it shows at least what every event *)
(* it has received told of: the event and the request's state commit in    *)
(* one transaction, and an event restarts a fetch that read before it.     *)
PageCoversEvents ==
    fetch = "idle" => \A r \in Requests : shown[r] >= told[r]

(* A stream that stays open delivers everything that was committed before  *)
(* it was opened, however many pages that takes: what a client missed      *)
(* while it was disconnected reaches it (ServeHTTP, writeAvailable).       *)
BacklogArrives ==
    []<>(stream # "open" \/ backlog = {})

(* What a request has come to is shown in the end: every committed event   *)
(* reaches the stream, and the page fetches the activity at each.          *)
DashboardFollows ==
    \A r \in Requests : \A n \in 1..MaxSteps :
        (state[r] = n) ~> (shown[r] >= n)
=============================================================================
