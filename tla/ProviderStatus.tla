--------------------------- MODULE ProviderStatus ---------------------------
(***************************************************************************)
(* The status a provider daemon keeps of its requests, and the file it is  *)
(* published in.  A job runs in a goroutine of its own, cancellations and  *)
(* receipt proposals arrive in the read loop, and a watcher writes the     *)
(* snapshot to the file every second until serve ends.  The daemon's lock  *)
(* makes each record function atomic; their order is not fixed.            *)
(***************************************************************************)
EXTENDS Integers, Sequences, FiniteSets, SequencesExt

CONSTANTS
    Requests,
    RecentLimit,    \* terminal requests kept in the list (20 in the code)
    MaxProposals    \* bound: proposals per request

VARIABLES
    job,            \* per request: how far its goroutine is
    proposals,      \* per request: receipt proposals signed
    recent,         \* RecentRequests, newest first
    earnings,       \* RunEarningsWei, each receipt paying 1
    recorded,       \* earningsRecorded
    serve,          \* "on", "stopping" while the deferred calls run, "ended"
    watcher,        \* "waiting", "writing" the temporary file, "done"
    file            \* whether the status file exists

vars == <<job, proposals, recent, earnings, recorded, serve, watcher, file>>
daemonVars == <<job, proposals, recent, earnings, recorded>>
fileVars == <<serve, watcher, file>>

Init ==
    /\ job = [r \in Requests |-> "new"] /\ proposals = [r \in Requests |-> 0]
    /\ recent = <<>> /\ earnings = 0 /\ recorded = {}
    /\ serve = "on" /\ watcher = "waiting" /\ file = TRUE

Entry(r, state) == [id |-> r, state |-> state]
Live(e) == e.state \in {"active", "settling"}

updateRequest(list, r, state) ==
    IF \E i \in DOMAIN list : list[i].id = r
    THEN [i \in DOMAIN list |-> IF list[i].id = r THEN Entry(r, state) ELSE list[i]]
    ELSE <<Entry(r, state)>> \o list

(* Entries that are not live and have RecentLimit such entries before them go. *)
trimRequests(list) ==
    LET ended(i) == Cardinality({k \in 1 .. i : ~Live(list[k])})
        kept == {i \in DOMAIN list : Live(list[i]) \/ ended(i) <= RecentLimit}
    IN [n \in 1 .. Cardinality(kept) |->
           list[CHOOSE i \in kept : Cardinality({k \in kept : k <= i}) = n]]
-----------------------------------------------------------------------------
startJob(r) ==
    /\ serve = "on" /\ job[r] = "new"
    /\ job' = [job EXCEPT ![r] = "running"]
    /\ recent' = trimRequests(<<Entry(r, "active")>> \o recent)
    /\ UNCHANGED <<proposals, earnings, recorded, fileVars>>

recordRequestFailed(r) == recent' = trimRequests(updateRequest(recent, r, "failed"))

(* The backend, a chunk or the workspace fails; a cancelled job ends here. *)
JobFails(r) ==
    /\ job[r] \in {"running", "cancelled"}
    /\ job' = [job EXCEPT ![r] = "failed"] /\ recordRequestFailed(r)
    /\ UNCHANGED <<proposals, earnings, recorded, fileVars>>

(* The last chunk is written; the server may answer it from now on.        *)
LastChunk(r) ==
    /\ job[r] = "running" /\ job' = [job EXCEPT ![r] = "sent"]
    /\ UNCHANGED <<proposals, recent, earnings, recorded, fileVars>>

recordCompletion(r) ==
    /\ job[r] = "sent" /\ job' = [job EXCEPT ![r] = "done"]
    /\ recent' = updateRequest(recent, r, "settling")
    /\ UNCHANGED <<proposals, earnings, recorded, fileVars>>

removeJob(r) ==
    /\ job[r] = "done" /\ job' = [job EXCEPT ![r] = "over"]
    /\ UNCHANGED <<proposals, recent, earnings, recorded, fileVars>>

cancel(r) ==
    /\ serve = "on" /\ job[r] \in {"running", "sent", "done"}
    /\ job' = [job EXCEPT ![r] = IF @ = "running" THEN "cancelled" ELSE @]
    /\ recordRequestFailed(r)
    /\ UNCHANGED <<proposals, earnings, recorded, fileVars>>

Proposed(r) ==
    /\ serve = "on" /\ job[r] \in {"sent", "done", "over"} /\ proposals[r] < MaxProposals
    /\ proposals' = [proposals EXCEPT ![r] = @ + 1]

recordReceipt(r) ==
    /\ Proposed(r)
    /\ recent' = trimRequests(updateRequest(recent, r, "completed"))
    /\ earnings' = IF r \in recorded THEN earnings ELSE earnings + 1
    /\ recorded' = recorded \cup {r}
    /\ UNCHANGED <<job, fileVars>>
-----------------------------------------------------------------------------
(* The watcher's ticker; the file is written aside and renamed.            *)
watchTick ==
    /\ serve = "on" /\ watcher = "waiting" /\ watcher' = "writing"
    /\ UNCHANGED <<daemonVars, serve, file>>

WriteStatusFile ==
    /\ watcher = "writing" /\ watcher' = "waiting" /\ file' = TRUE
    /\ UNCHANGED <<daemonVars, serve>>

(* serve returns once its jobs are drained; its deferred calls stop the    *)
(* watcher, wait for it and remove the file.                               *)
ServeReturns ==
    /\ serve = "on" /\ \A r \in Requests : job[r] \in {"new", "failed", "over"}
    /\ serve' = "stopping"
    /\ UNCHANGED <<daemonVars, watcher, file>>

WatcherStops ==
    /\ serve = "stopping" /\ watcher = "waiting" /\ watcher' = "done"
    /\ UNCHANGED <<daemonVars, serve, file>>

RemovesAtOnce ==
    /\ serve = "stopping" /\ serve' = "ended" /\ file' = FALSE
    /\ UNCHANGED <<daemonVars, watcher>>

RemoveStatusFile ==
    /\ serve = "stopping" /\ watcher = "done"
    /\ serve' = "ended" /\ file' = FALSE
    /\ UNCHANGED <<daemonVars, watcher>>

Next ==
    \/ \E r \in Requests :
          \/ startJob(r) \/ JobFails(r) \/ LastChunk(r) \/ recordCompletion(r)
          \/ removeJob(r) \/ cancel(r) \/ recordReceipt(r)
    \/ watchTick \/ WriteStatusFile \/ ServeReturns \/ WatcherStops \/ RemoveStatusFile

Spec == Init /\ [][Next]_vars
-----------------------------------------------------------------------------
(* A job that runs is shown as active however many others came and went    *)
(* after it (trimRequestsLocked).                                          *)
RunningIsListed ==
    \A r \in Requests : job[r] = "running" =>
        \E i \in DOMAIN recent : recent[i] = Entry(r, "active")

(* The list holds a request once and no more ended ones than its limit,    *)
(* although a request that was dropped may come back with its receipt      *)
(* (updateRequestLocked, recordReceipt).                                   *)
ListIsBounded ==
    /\ \A i, k \in DOMAIN recent : recent[i].id = recent[k].id => i = k
    /\ Cardinality({i \in DOMAIN recent : ~Live(recent[i])}) <= RecentLimit

(* The earnings are those of the requests with a signed receipt, each      *)
(* counted once (recordReceipt).                                           *)
EarningsAreReceipts ==
    earnings = Cardinality({r \in Requests : proposals[r] > 0})

(* No status file is left by a serve that returned (runServe).             *)
NoFileAfterServe == serve = "ended" => ~file

(* A request with a signed receipt does not stay in settlement             *)
(* (recordReceipt, recordCompletion).                                      *)
ReceiptIsShown ==
    \A r \in Requests : job[r] = "over" /\ proposals[r] > 0 =>
        \A i \in DOMAIN recent : recent[i] # Entry(r, "settling")
=============================================================================
