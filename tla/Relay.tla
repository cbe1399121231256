-------------------------------- MODULE Relay --------------------------------
(***************************************************************************)
(* One machine and the hub it is connected to: the daemon that dials,      *)
(* serves, loses its connection, dials again and finally drains; the jobs  *)
(* it runs, one goroutine each; the hub's session for the machine, its     *)
(* tracker of chunk sequences and the event channel its broker empties.    *)
(* Inference abstracts all of this to a channel per request.               *)
(***************************************************************************)
EXTENDS Integers, Sequences, FiniteSets

CONSTANTS
    Requests, Offers,
    offerOf,        \* the offer a request is routed to
    Cancels,        \* requests the server may cancel
    Conns,          \* names of websocket connections, reused once forgotten
    QueueSize,      \* of a session's outbound channel
    EventSize,      \* of the hub's event channel
    MaxChunks,      \* bound: chunks of output before the last one
    MaxUpdates,     \* bound: changes of the configured backends
    MaxFaults,      \* bound: lost or expired connections, server restarts
    MaxStops        \* bound: 1 when the daemon may be stopped

VARIABLES
    (* the server *)
    session,        \* Hub.sessions of the machine
    open,           \* connections whose read loop runs
    down,           \* messages sent to the machine on a connection
    last, ended,    \* ChunkTracker.last and closed
    events,         \* Hub.events
    routed,         \* the offers of the machine's last heartbeat
    handler,        \* what a request's handler has done so far
    stream,         \* the chunks the handler was given
    (* between them *)
    live,           \* connections that carry messages
    up,             \* messages sent to the hub on a connection
    (* the daemon *)
    phase,          \* where Serve and serveWithReconnect are
    conn,           \* its connection
    cancelling,     \* the request of a cancel that is half done
    stopping,       \* the context of Serve is done
    configured,     \* the offers of its configuration
    run,            \* what became of a request's job
    jobs,           \* Daemon.jobs
    cancelled,      \* jobs whose context is done
    sequence,       \* a job's own counter
    recorded,       \* RequestState: sequence
    terminal,       \* RequestState: terminal
    updates, faults

hubVars == <<session, open, last, ended, events, routed, handler, stream>>
jobVars == <<run, jobs, cancelled, sequence, recorded, terminal>>
serveVars == <<phase, conn, cancelling, stopping, configured>>
vars == <<session, open, down, last, ended, events, routed, handler, stream, live, up,
          phase, conn, cancelling, stopping, configured, run, jobs, cancelled, sequence, recorded,
          terminal, updates, faults>>

Nobody == "nobody"
Zero == [r \in Requests |-> 0]

Init ==
    /\ session = Nobody /\ open = {} /\ live = {}
    /\ down = [c \in Conns |-> <<>>] /\ up = [c \in Conns |-> <<>>]
    /\ last = Zero /\ ended = {} /\ events = <<>> /\ routed = {}
    /\ handler = [r \in Requests |-> "none"]
    /\ stream = [r \in Requests |-> <<>>]
    /\ phase = "dialing" /\ conn = Nobody /\ cancelling = Nobody /\ stopping = FALSE
    /\ configured = Offers
    /\ run = [r \in Requests |-> "none"]
    /\ jobs = {} /\ cancelled = {}
    /\ sequence = Zero /\ recorded = Zero /\ terminal = {}
    /\ updates = 0 /\ faults = 0

Plain(type, r) == [type |-> type, request |-> r]
Capacity == [type |-> "capacity", offers |-> configured]
Chunk(r, n, kind) == [type |-> "chunk", request |-> r, sequence |-> n, kind |-> kind]

-----------------------------------------------------------------------------
(* The hub *)

(* A connection that was replaced does not take the new one with it. *)
unregister(c) == session' = IF session = c THEN Nobody ELSE session

(* The machine dials; its session replaces, and closes, the one before.    *)
(* Hello says nothing new, the first heartbeat follows at once.            *)
Connect(c) ==
    /\ session' = c
    /\ open' = open \cup {c}
    /\ live' = (live \ {session}) \cup {c}
    /\ down' = [down EXCEPT ![c] = <<>>]
    /\ up' = [up EXCEPT ![c] = <<Capacity>>]

(* The read loop finds its connection closed. *)
EndLoop(c) ==
    /\ c \in open \ live
    /\ open' = open \ {c}
    /\ unregister(c)
    /\ up' = [up EXCEPT ![c] = <<>>]
    /\ UNCHANGED <<down, last, ended, events, routed, handler, stream, live, serveVars,
                   jobVars, updates, faults>>

(* heartbeatLoop: nothing was heard for too long. *)
Expire(c) ==
    /\ faults < MaxFaults /\ faults' = faults + 1
    /\ c \in open \cap live
    /\ unregister(c)
    /\ live' = live \ {c}
    /\ UNCHANGED <<open, down, last, ended, events, routed, handler, stream, up, serveVars,
                   jobVars, updates>>

(* ChunkTracker.Accept *)
InSequence(m) == m.request \notin ended /\ m.sequence = last[m.request] + 1

Rejects(m) == m.type = "chunk" /\ ~InSequence(m)

DropsWhenFull(m, c) ==
    /\ last' = IF m.type = "chunk" THEN [last EXCEPT ![m.request] = m.sequence] ELSE last
    /\ routed' = IF m.type = "capacity" THEN m.offers ELSE routed
    /\ events' = IF Len(events) >= EventSize THEN events ELSE Append(events, m)
    /\ UNCHANGED <<ended, handler, live, open, session>>

(* AcceptInbound: a message is checked, published and offered to the event *)
(* channel; a bad message, or a full channel, costs the connection.        *)
AcceptInbound(m, c) ==
    /\ IF m.type = "chunk" /\ InSequence(m)
       THEN /\ last' = [last EXCEPT ![m.request] = m.sequence]
            /\ ended' = IF m.kind = "data" THEN ended ELSE ended \cup {m.request}
       ELSE UNCHANGED <<last, ended>>
    /\ routed' = IF m.type = "capacity" THEN m.offers ELSE routed
    /\ handler' = IF m.type = "signature" /\ handler[m.request] = "signing"
                  THEN [handler EXCEPT ![m.request] = "signed"] ELSE handler
    /\ IF Rejects(m) \/ Len(events) >= EventSize
       THEN live' = live \ {c} /\ open' = open \ {c} /\ unregister(c) /\ UNCHANGED events
       ELSE events' = Append(events, m) /\ UNCHANGED <<live, open, session>>

HubRead(c) ==
    /\ c \in open /\ up[c] # <<>>
    /\ AcceptInbound(Head(up[c]), c)
    /\ up' = [up EXCEPT ![c] = IF c \in open' THEN Tail(@) ELSE <<>>]
    /\ UNCHANGED <<down, stream, serveVars, jobVars, updates, faults>>

(* eventBroker.run: chunks go to the stream of the request's handler. *)
Broker ==
    /\ events # <<>>
    /\ events' = Tail(events)
    /\ LET m == Head(events)
       IN  stream' = IF m.type = "chunk" /\ handler[m.request] = "offered"
                     THEN [stream EXCEPT ![m.request] = Append(@, m)] ELSE stream
    /\ UNCHANGED <<session, open, down, last, ended, routed, handler, live, up, serveVars,
                   jobVars, updates, faults>>

(* The server restarts: its memory and its handlers are gone. *)
ServerRestart ==
    /\ faults < MaxFaults /\ faults' = faults + 1
    /\ session' = Nobody /\ open' = {} /\ live' = {}
    /\ last' = Zero /\ ended' = {} /\ events' = <<>>
    /\ up' = [c \in Conns |-> <<>>]
    /\ handler' = [r \in Requests |-> IF handler[r] = "none" THEN "none" ELSE "lost"]
    /\ UNCHANGED <<down, routed, stream, serveVars, jobVars, updates>>

LoseConnection(c) ==
    /\ faults < MaxFaults /\ faults' = faults + 1
    /\ c \in live
    /\ live' = live \ {c}
    /\ UNCHANGED <<hubVars, down, up, serveVars, jobVars, updates>>

-----------------------------------------------------------------------------
(* The handlers of the requests: they send an offer, perhaps a cancel, and *)
(* a proposal for the receipt of finished work.                            *)

(* Hub.Send, which fails without a session or without room. *)
Send(type, r, then) ==
    IF session # Nobody /\ Len(down[session]) < QueueSize
    THEN /\ down' = [down EXCEPT ![session] = Append(@, Plain(type, r))]
         /\ handler' = [handler EXCEPT ![r] = then]
    ELSE /\ handler' = [handler EXCEPT ![r] = "failed"]
         /\ UNCHANGED down

Offer(r) ==
    /\ handler[r] = "none" /\ offerOf[r] \in routed /\ session # Nobody
    /\ Send("offer", r, "offered")
    /\ UNCHANGED <<session, open, last, ended, events, routed, stream, live, up, serveVars,
                   jobVars, updates, faults>>

Cancel(r) ==
    /\ r \in Cancels /\ handler[r] = "offered"
    /\ Send("cancel", r, "cancelled")
    /\ UNCHANGED <<session, open, last, ended, events, routed, stream, live, up, serveVars,
                   jobVars, updates, faults>>

Delivered(r) == stream[r] # <<>> /\ stream[r][Len(stream[r])].kind = "done"

Propose(r) ==
    /\ handler[r] = "offered" /\ Delivered(r)
    /\ Send("proposal", r, "signing")
    /\ UNCHANGED <<session, open, last, ended, events, routed, stream, live, up, serveVars,
                   jobVars, updates, faults>>

-----------------------------------------------------------------------------
(* The daemon's connection *)

Running == {r \in Requests : run[r] \in {"running", "failing"}}

Dial ==
    /\ phase = "dialing" /\ ~stopping
    /\ \E c \in Conns \ open :
           /\ Connect(c)
           /\ conn' = c
    /\ phase' = "serving"
    /\ UNCHANGED <<last, ended, events, routed, handler, stream, cancelling, stopping, configured,
                   jobVars, updates, faults>>

ReadMessage(type, r) ==
    /\ phase = "serving" /\ cancelling = Nobody /\ conn \in live
    /\ down[conn] # <<>> /\ Head(down[conn]) = Plain(type, r)
    /\ down' = [down EXCEPT ![conn] = Tail(@)]

(* Serve returns with an error: its jobs are cancelled, the connection is  *)
(* closed once all of them have ended.                                     *)
cancelAll == cancelled' = cancelled \cup jobs

ReadFails ==
    /\ phase = "serving" /\ cancelling = Nobody /\ conn \notin live
    /\ phase' = "closing"
    /\ cancelAll
    /\ UNCHANGED <<hubVars, down, live, up, conn, cancelling, stopping, configured, run, jobs, sequence,
                   recorded, terminal, updates, faults>>

(* What wg.Wait waits for. *)
Unfinished == Running

Closed ==
    /\ phase = "closing" /\ Unfinished = {}
    /\ phase' = "dialing"
    /\ live' = live \ {conn}
    /\ down' = [c \in Conns |-> IF c = conn THEN <<>> ELSE down[c]]
    /\ conn' = Nobody
    /\ UNCHANGED <<hubVars, up, cancelling, stopping, configured, jobVars, updates, faults>>

(* A capacity message every interval, by which the last one has arrived. *)
heartbeat ==
    /\ phase = "serving" /\ conn \in live
    /\ \A i \in DOMAIN up[conn] : up[conn][i].type # "capacity"
    /\ \A i \in DOMAIN events : events[i].type # "capacity"
    /\ up' = [up EXCEPT ![conn] = Append(@, Capacity)]
    /\ UNCHANGED <<hubVars, down, live, serveVars, jobVars, updates, faults>>

(* An offer is accepted when its backend is still configured; otherwise    *)
(* Serve returns the error.  A lease may have expired on the way.          *)
startJob(r) ==
    /\ ReadMessage("offer", r)
    /\ IF offerOf[r] \in configured
       THEN /\ run' = [run EXCEPT ![r] = "running"]
            /\ jobs' = jobs \cup {r}
            /\ up' = [up EXCEPT ![conn] = Append(@, Plain("accept", r))]
            /\ UNCHANGED <<phase, cancelled>>
       ELSE /\ phase' = "closing"
            /\ cancelAll
            /\ UNCHANGED <<run, jobs, up>>
    /\ UNCHANGED <<hubVars, live, conn, cancelling, stopping, configured, sequence, recorded, terminal,
                   updates, faults>>

(* Daemon.cancel: first the job's context, then its request state. *)
CancelContext(r) ==
    /\ ReadMessage("cancel", r)
    /\ cancelled' = IF r \in jobs THEN cancelled \cup {r} ELSE cancelled
    /\ cancelling' = IF r \in jobs THEN r ELSE Nobody
    /\ UNCHANGED <<hubVars, live, up, phase, conn, stopping, configured, run, jobs, sequence,
                   recorded, terminal, updates, faults>>

CancelState ==
    /\ cancelling # Nobody
    /\ terminal' = terminal \cup {cancelling}
    /\ cancelling' = Nobody
    /\ UNCHANGED <<hubVars, down, live, up, phase, conn, stopping, configured, run, jobs,
                   cancelled, sequence, recorded, updates, faults>>

signProposal(r) ==
    /\ ReadMessage("proposal", r)
    /\ up' = [up EXCEPT ![conn] = Append(@, Plain("signature", r))]
    /\ UNCHANGED <<hubVars, live, serveVars, jobVars, updates, faults>>

(* The configuration changes under the daemon; jobs that run go on. *)
UpdateBackends ==
    /\ updates < MaxUpdates /\ updates' = updates + 1
    /\ \E o \in Offers : configured' = IF o \in configured THEN configured \ {o}
                                       ELSE configured \cup {o}
    /\ UNCHANGED <<hubVars, down, live, up, phase, conn, cancelling, stopping, jobVars, faults>>

(* The stop file is found, or the process is interrupted. *)
Stop ==
    /\ MaxStops > 0 /\ ~stopping
    /\ stopping' = TRUE
    /\ UNCHANGED <<hubVars, down, live, up, phase, conn, cancelling, configured, jobVars, updates, faults>>

(* Read returns with the context's error, and may close the connection;    *)
(* nobody reads any more while the jobs drain.                             *)
Drain ==
    /\ phase = "serving" /\ cancelling = Nobody /\ stopping
    /\ phase' = "draining"
    /\ live' \in {live, live \ {conn}}
    /\ UNCHANGED <<hubVars, down, up, conn, cancelling, stopping, configured, jobVars, updates, faults>>

DrainTimeout ==
    /\ phase = "draining" /\ ~(jobs \subseteq cancelled)
    /\ cancelAll
    /\ UNCHANGED <<hubVars, down, live, up, serveVars, run, jobs, sequence, recorded, terminal,
                   updates, faults>>

KeepsWaitingToDial ==
    /\ stopping
    /\ \/ phase = "dialing" /\ UNCHANGED phase
       \/ phase = "draining" /\ Unfinished = {} /\ phase' = "stopped"
    /\ UNCHANGED <<hubVars, down, live, up, conn, cancelling, stopping, configured, jobVars,
                   updates, faults>>

Stopped ==
    /\ stopping
    /\ phase = "dialing" \/ (phase = "draining" /\ Unfinished = {})
    /\ phase' = "stopped"
    /\ live' = live \ {conn}
    /\ down' = [c \in Conns |-> IF c = conn THEN <<>> ELSE down[c]]
    /\ conn' = Nobody
    /\ UNCHANGED <<hubVars, up, cancelling, stopping, configured, jobVars, updates, faults>>

-----------------------------------------------------------------------------
(* The goroutine of a job *)

(* RequestState.RecordChunk *)
Recordable(r, n) == r \notin terminal /\ n = recorded[r] + 1

(* A write that succeeds, into a connection or into the void. *)
Written(m) ==
    /\ up' = IF conn \in live THEN [up EXCEPT ![conn] = Append(@, m)] ELSE up
    /\ UNCHANGED live

(* A write fails on a connection that is gone, or because the context of   *)
(* the job is done, and then it may close the connection.                  *)
WriteFails(r) ==
    /\ \/ conn \notin live /\ UNCHANGED live
       \/ r \in cancelled /\ live' \in {live, live \ {conn}}
    /\ UNCHANGED up

(* The backend produces a piece of output. *)
Emit(r) ==
    /\ run[r] = "running" /\ sequence[r] < MaxChunks
    /\ sequence' = [sequence EXCEPT ![r] = @ + 1]
    /\ LET n == sequence[r] + 1
       IN  IF Recordable(r, n)
           THEN /\ recorded' = [recorded EXCEPT ![r] = n]
                /\ \/ r \notin cancelled /\ Written(Chunk(r, n, "data")) /\ UNCHANGED run
                   \/ WriteFails(r) /\ run' = [run EXCEPT ![r] = "failing"]
           ELSE /\ run' = [run EXCEPT ![r] = "failing"]
                /\ UNCHANGED <<recorded, live, up>>
    /\ UNCHANGED <<hubVars, down, serveVars, jobs, cancelled, terminal, updates, faults>>

removeJob(r, as) ==
    /\ run' = [run EXCEPT ![r] = as]
    /\ jobs' = jobs \ {r}

(* The last chunk carries the usage. *)
Finish(r) ==
    /\ run[r] = "running"
    /\ sequence' = [sequence EXCEPT ![r] = @ + 1]
    /\ LET n == sequence[r] + 1
       IN  IF Recordable(r, n)
           THEN /\ recorded' = [recorded EXCEPT ![r] = n]
                /\ terminal' = terminal \cup {r}
                /\ \/ /\ r \notin cancelled /\ Written(Chunk(r, n, "done"))
                      /\ removeJob(r, "finished")
                   \/ WriteFails(r) /\ removeJob(r, "failed")
           ELSE /\ removeJob(r, "failed")
                /\ UNCHANGED <<recorded, terminal, live, up>>
    /\ UNCHANGED <<hubVars, down, serveVars, cancelled, updates, faults>>

(* The backend fails, or its context is done; the error has a context of   *)
(* its own.                                                                *)
Fail(r) ==
    /\ run[r] \in {"running", "failing"}
    /\ sequence' = [sequence EXCEPT ![r] = @ + 1]
    /\ LET n == sequence[r] + 1
       IN  IF Recordable(r, n)
           THEN /\ recorded' = [recorded EXCEPT ![r] = n]
                /\ terminal' = terminal \cup {r}
                /\ \/ Written(Chunk(r, n, "error"))
                   \/ conn \notin live /\ UNCHANGED <<up, live>>
           ELSE UNCHANGED <<recorded, terminal, live, up>>
    /\ removeJob(r, "failed")
    /\ UNCHANGED <<hubVars, down, serveVars, cancelled, updates, faults>>

-----------------------------------------------------------------------------
Hub == Broker \/ \E c \in Conns : HubRead(c) \/ EndLoop(c)

Serve ==
    \/ CancelState \/ Dial \/ ReadFails \/ Closed \/ Drain \/ DrainTimeout \/ Stopped
    \/ \E r \in Requests : startJob(r) \/ CancelContext(r) \/ signProposal(r)

Job(r) == Emit(r) \/ Finish(r) \/ Fail(r)

Fault == ServerRestart \/ \E c \in Conns : Expire(c) \/ LoseConnection(c)

Next ==
    \/ Hub \/ Serve \/ heartbeat \/ UpdateBackends \/ Stop \/ Fault
    \/ \E r \in Requests : Offer(r) \/ Cancel(r) \/ Propose(r) \/ Job(r)

Spec == Init /\ [][Next]_vars

(* Goroutines make progress; a backend returns, at the latest when its     *)
(* context is done; a handler that has its last chunk proposes a receipt.  *)
FairSpec ==
    /\ Spec
    /\ WF_vars(Broker)
    /\ \A c \in Conns : WF_vars(HubRead(c)) /\ WF_vars(EndLoop(c))
    /\ WF_vars(Serve) /\ WF_vars(heartbeat)
    /\ \A r \in Requests : WF_vars(Job(r)) /\ WF_vars(Propose(r))

-----------------------------------------------------------------------------
(* Properties *)

(* "Invalid order, duplicate chunks ... fail closed": what a handler is    *)
(* given of a request is its chunks from the first on, in order, without   *)
(* a gap and with nothing behind the last, through any reconnects.         *)
ChunksInOrder ==
    \A r \in Requests : \A i \in DOMAIN stream[r] :
        /\ stream[r][i].sequence = i
        /\ stream[r][i].kind # "data" => i = Len(stream[r])

(* The hub never drops the connection of a machine over a chunk of a job   *)
(* that nobody cancelled: daemon and tracker count alike.                  *)
OwnChunksAreAccepted ==
    \A c \in open : up[c] # <<>> /\ Rejects(Head(up[c])) => Head(up[c]).request \in cancelled

(* A job writes to the connection its offer came on, or to none: whenever  *)
(* the daemon dials again, every job of the lost connection has ended.     *)
JobsDieWithTheConnection ==
    phase \in {"dialing", "stopped"} => Running = {} /\ jobs = {}

(* What a handler is given of a request is its chunks in order, without a  *)
(* gap and with nothing behind the last, through any reconnects; the hub   *)
(* drops no connection over a chunk of a job nobody cancelled; and when    *)
(* the daemon dials again, the jobs of the lost connection have ended      *)
(* (Hub.acceptInbound, ChunkTracker, Daemon.Serve).                        *)
StreamsAreWhole == ChunksInOrder /\ OwnChunksAreAccepted /\ JobsDieWithTheConnection

(* A machine that lost its connection is connected and registered again:   *)
(* the loop of an old connection cannot remove the session of the new one. *)
Back == stopping \/ (phase = "serving" /\ session = conn /\ conn \in live)
MachineComesBack == []<>Back

(* "Backend shutdown drains or explicitly cancels accepted work": a        *)
(* stopped daemon ends, with all of its jobs ended before.                 *)
Completed == stopping => phase = "stopped"
StopCompletes == []<>Completed

(* Work a job has finished gets its receipt signed. *)
Signed == \A r \in Requests : run[r] = "finished" => handler[r] = "signed"
FinishedWorkIsSigned == []<>Signed

(* "Stopping one backend does not stop the daemon or other backends": on a *)
(* good connection, a job is cancelled only for its own request.  (Fails:  *)
(* an offer for the stopped backend ends Serve, and every job with it.)    *)
OtherBackendsGoOn ==
    \A r \in jobs : r \in cancelled => handler[r] = "cancelled"

(* "A graceful stop drains accepted work": work whose last chunk reaches   *)
(* its handler, within the drain too, is signed for.  (Fails: nobody reads *)
(* the proposal.)                                                          *)
DrainedWorkIsSigned ==
    \A r \in Requests : Delivered(r) ~> handler[r] = "signed"
=============================================================================
