---------------------------- MODULE CommandAgent ----------------------------
(***************************************************************************)
(* One generation of an isolated command agent.                            *)
(*   cli/internal/backend/command/command.go                               *)
(*   cli/internal/backend/command/proxy_sidecar.go                         *)
(*                                                                         *)
(* Generate writes a workspace, starts a sidecar that holds the provider's *)
(* key (a directory with its configuration, two networks and a container), *)
(* runs the agent in a second container and streams its lines.  Whatever   *)
(* ends it, the deferred calls take everything down again.  The agent may  *)
(* call the sidecar concurrently; the sidecar meters what it forwards.     *)
(***************************************************************************)
EXTENDS Sequences, Sums

CONSTANTS
  MaxTokens,      \* input.MaximumOutputTokens of the job
  Word,           \* size of a machine word: byte counts are taken modulo it
  DefaultBytes,   \* output cap when the product with four is zero
  LineSizes,      \* sizes of the lines the agent may print
  LongestLine,    \* largest line the scanner's buffer takes
  MaxAttempts,    \* health probes of the sidecar (50 in the code)
  MaxRequests,    \* requests one sidecar serves (64 in the code)
  Calls,          \* requests the agent may have in flight
  LateEffects     \* may Docker finish a creation after its client was killed?

ASSUME AgentAssumption ==
  /\ {MaxTokens, DefaultBytes, MaxRequests} \cup LineSizes \subseteq Nat
  /\ Word \in Nat \ {0} /\ IsFiniteSet(Calls)

VARIABLES
  pc,         \* where Generate is
  ctx,        \* "live", or "done" once it timed out or was cancelled
  res,        \* what exists: directories, networks and containers
  late,       \* creations Docker has accepted and not yet carried out
  attempts,   \* health probes made
  cli,        \* the docker client that runs the agent
  pipe,       \* lines printed and not read yet
  out,        \* bytes passed on to the caller
  todo,       \* cleaning still to do, in order
  result,     \* what Generate returns
  requests, remaining, call   \* the sidecar: counters, and each call of the agent

run == <<pc, ctx, res, late, attempts, cli, pipe, out, todo, result>>
proxyVars == <<requests, remaining, call>>
vars == <<run, proxyVars>>

Kinds == {"models", "unset", "limit", "refusable"}
Idle == [state |-> "idle", kind |-> "models", tokens |-> 0]
Refused == [Idle EXCEPT !.state = "refused"]
Forwarded(n) == [Idle EXCEPT !.state = "forwarded", !.tokens = n]

Init ==
  /\ pc = "start" /\ ctx = "live" /\ res = {} /\ late = {} /\ attempts = 0
  /\ cli = "none" /\ pipe = <<>> /\ out = 0 /\ todo = <<>> /\ result = "none"
  /\ requests = 0 /\ remaining = MaxTokens /\ call = [c \in Calls |-> Idle]

Close == <<"proxy", "internal", "egress", "directory">>

\* Mutant: the calls run in the order in which they were deferred.
InOrder == <<"workspace">> \o Close \o <<"job">>

Deferred == <<"job">> \o Close \o <<"workspace">>

CleanUp(items, value) == pc' = "clean" /\ todo' = items /\ result' = value

\* Docker refuses to remove a network a container is still attached to.
Attached(r) ==
  \/ r = "internal" /\ {"proxy", "job"} \cap res # {}
  \/ r = "egress" /\ "proxy" \in res

CleanNext ==
  /\ pc = "clean" /\ todo # <<>>
  /\ res' = IF Attached(Head(todo)) THEN res ELSE res \ {Head(todo)}
  /\ todo' = Tail(todo)
  /\ pc' = IF Len(todo) = 1 THEN "done" ELSE "clean"
  /\ cli' = IF Head(todo) = "job" /\ cli = "running" THEN "failed" ELSE cli
  /\ UNCHANGED <<ctx, late, attempts, pipe, out, result, proxyVars>>

(***************************************************************************)
(* Setting up.                                                             *)
(***************************************************************************)
\* A request for another model, without a prompt, or with a bad path in its
\* workspace, leaves nothing behind.
Reject ==
  /\ pc = "start" /\ pc' = "done" /\ result' = "error"
  /\ UNCHANGED <<ctx, res, late, attempts, cli, pipe, out, todo, proxyVars>>

materializeWorkspace ==
  /\ pc = "start" /\ pc' = "directory" /\ res' = res \cup {"workspace"}
  /\ UNCHANGED <<ctx, late, attempts, cli, pipe, out, todo, result, proxyVars>>

\* The directory and the configuration file: a failure takes the directory
\* back itself, before the sidecar exists.
ProxyDirectory ==
  /\ pc = "directory"
  /\ \/ pc' = "internal" /\ res' = res \cup {"directory"} /\ UNCHANGED <<todo, result>>
     \/ CleanUp(<<"workspace">>, "error") /\ res' = res
  /\ UNCHANGED <<ctx, late, attempts, cli, pipe, out, proxyVars>>

Following == [internal |-> "egress", egress |-> "proxy", proxy |-> "connect"]

\* A docker command that creates r.  It fails by itself, or because the
\* context ended and its client was killed: then Docker may have created r,
\* or not, or may still do so.
Create(r) ==
  /\ pc = r
  /\ \/ /\ ctx = "live" /\ res' = res \cup {r} /\ pc' = Following[r]
        /\ UNCHANGED <<late, todo, result>>
     \/ /\ CleanUp(Close \o <<"workspace">>, "error")
        /\ \/ res' \in {res, res \cup {r}} /\ late' = late
           \/ LateEffects /\ ctx = "done" /\ late' = late \cup {r} /\ res' = res
  /\ UNCHANGED <<ctx, attempts, cli, pipe, out, proxyVars>>

LateCreation(r) ==
  /\ r \in late /\ late' = late \ {r} /\ res' = res \cup {r}
  /\ UNCHANGED <<pc, ctx, attempts, cli, pipe, out, todo, result, proxyVars>>

ConnectEgress ==
  /\ pc = "connect"
  /\ \/ ctx = "live" /\ pc' = "health" /\ UNCHANGED <<todo, result>>
     \/ CleanUp(Close \o <<"workspace">>, "error")
  /\ UNCHANGED <<ctx, res, late, attempts, cli, pipe, out, proxyVars>>

\* Probes until the sidecar answers; an ended context fails every probe left.
ProxyHealth ==
  /\ pc = "health" /\ attempts' = attempts + 1
  /\ \/ ctx = "live" /\ pc' = "run" /\ UNCHANGED <<todo, result>>
     \/ attempts + 1 < MaxAttempts /\ UNCHANGED <<pc, todo, result>>
     \/ attempts + 1 >= MaxAttempts /\ CleanUp(Close \o <<"workspace">>, "error")
  /\ UNCHANGED <<ctx, res, late, cli, pipe, out, proxyVars>>

\* process.Start: a context that has ended already starts nothing.
StartAgent ==
  /\ pc = "run"
  /\ \/ ctx = "live" /\ pc' = "stream" /\ cli' = "running" /\ UNCHANGED <<todo, result>>
     \/ CleanUp(Close \o <<"workspace">>, "error") /\ cli' = cli
  /\ UNCHANGED <<ctx, res, late, attempts, pipe, out, proxyVars>>

(***************************************************************************)
(* The agent, in its container.                                            *)
(***************************************************************************)
AgentRuns ==
  /\ cli = "running" /\ "job" \notin res /\ pc = "stream" /\ res' = res \cup {"job"}
  /\ UNCHANGED <<pc, ctx, late, attempts, cli, pipe, out, todo, result, proxyVars>>

AgentPrints(size) ==
  /\ cli = "running" /\ "job" \in res /\ pipe = <<>> /\ pipe' = <<size>>
  /\ UNCHANGED <<pc, ctx, res, late, attempts, cli, out, todo, result, proxyVars>>

\* --rm removes the container of an agent that ends by itself.
AgentExits ==
  /\ cli = "running" /\ "job" \in res /\ pc = "stream"
  /\ cli' \in {"exited", "failed"} /\ res' = res \ {"job"}
  /\ UNCHANGED <<pc, ctx, late, attempts, pipe, out, todo, result, proxyVars>>

\* The timeout, or a cancellation: it kills the client, not the container,
\* and a container Docker was asked for may still appear.
ContextEnds ==
  /\ ctx = "live" /\ pc # "done" /\ ctx' = "done"
  /\ cli' = IF cli = "running" THEN "killed" ELSE cli
  /\ \/ late' = late
     \/ LateEffects /\ cli = "running" /\ "job" \notin res /\ late' = late \cup {"job"}
  /\ UNCHANGED <<pc, res, attempts, pipe, out, todo, result, proxyVars>>

(***************************************************************************)
(* Streaming.                                                              *)
(***************************************************************************)
maximumOutputBytes ==
  LET n == (MaxTokens * 4) % Word IN IF n = 0 THEN DefaultBytes ELSE n

\* One line: too long for the scanner, over the limit, refused by the
\* caller, or passed on.  The first three remove the agent at once.
ReadLine ==
  /\ pc = "stream" /\ pipe # <<>> /\ pipe' = <<>>
  /\ \/ /\ Head(pipe) <= LongestLine /\ Head(pipe) <= maximumOutputBytes - out
        /\ out' = out + Head(pipe) /\ UNCHANGED <<pc, todo, result>>
     \/ CleanUp(<<"job">> \o Deferred, "error") /\ out' = out
  /\ UNCHANGED <<ctx, res, late, attempts, cli, proxyVars>>

\* The pipe is closed and read to its end: Wait tells how the client ended.
WaitAgent ==
  /\ pc = "stream" /\ pipe = <<>> /\ cli \in {"exited", "failed", "killed"}
  /\ CleanUp(Deferred, IF cli = "exited" THEN "ok" ELSE "error")
  /\ UNCHANGED <<ctx, res, late, attempts, cli, pipe, out, proxyVars>>

(***************************************************************************)
(* The sidecar.                                                            *)
(***************************************************************************)
Serving == {"proxy", "job"} \subseteq res

\* A call with the job's token.  It is counted before anything else.
Count(c, kind, tokens) ==
  /\ Serving /\ call[c].state = "idle" /\ requests' = requests + 1
  /\ call' = [call EXCEPT ![c] =
       IF requests + 1 > MaxRequests \/ kind = "refusable" THEN Refused
       ELSE IF kind = "models" THEN Forwarded(0)
       ELSE [state |-> "counted", kind |-> kind, tokens |-> tokens]]
  /\ UNCHANGED <<run, remaining>>

\* The tokens a body asks for: all that is left when it does not say.
Asked(c) == IF call[c].kind = "unset" THEN remaining ELSE call[c].tokens

\* Mutant: every call is measured against the whole budget.
AgainstTheWhole(c) ==
  /\ Serving /\ call[c].state = "counted"
  /\ IF Asked(c) \in 1..MaxTokens
     THEN call' = [call EXCEPT ![c] = Forwarded(Asked(c))] /\ remaining' = remaining - Asked(c)
     ELSE call' = [call EXCEPT ![c] = Refused] /\ remaining' = remaining
  /\ UNCHANGED <<run, requests>>

\* authorizeInferenceBody and the subtraction, under one lock.
Authorize(c) ==
  /\ Serving /\ call[c].state = "counted"
  /\ IF Asked(c) \in 1..remaining
     THEN call' = [call EXCEPT ![c] = Forwarded(Asked(c))] /\ remaining' = remaining - Asked(c)
     ELSE call' = [call EXCEPT ![c] = Refused] /\ remaining' = remaining
  /\ UNCHANGED <<run, requests>>

Terminating == pc = "done" /\ late = {} /\ UNCHANGED vars

Agent ==
  \/ AgentRuns \/ AgentExits
  \/ \E size \in LineSizes : AgentPrints(size)
  \/ \E c \in Calls : \E kind \in Kinds :
       \E tokens \in IF kind = "limit" THEN 1..(MaxTokens + 1) ELSE {0} : Count(c, kind, tokens)

Steps ==
  \/ materializeWorkspace \/ ProxyDirectory \/ ConnectEgress \/ ProxyHealth
  \/ \E r \in {"internal", "egress", "proxy"} : Create(r)
  \/ StartAgent \/ ReadLine \/ WaitAgent \/ CleanNext

Next ==
  \/ Reject \/ Steps \/ Agent \/ ContextEnds \/ Terminating
  \/ \E r \in late : LateCreation(r)
  \/ \E c \in Calls : Authorize(c)

Spec == Init /\ [][Next]_vars

\* Generate runs on, its docker commands return, and its timeout fires.
FairSpec == Spec /\ WF_vars(Steps) /\ WF_vars(ContextEnds)

(***************************************************************************)
(* Properties.                                                             *)
(***************************************************************************)

\* However a generation ends, when it has returned nothing it made is left:
\* no workspace, no key on disk, no network and no container, provided Docker
\* drops a creation whose client was killed and carries out the removals.
NothingLeft == pc = "done" => res = {}

\* The workspace and the directory with the key are gone on every exit, also
\* when Docker is late with what a killed client had asked for.
FilesAreRemoved == pc = "done" => {"workspace", "directory"} \cap res = {}

\* Together the calls the sidecar has forwarded may produce no more tokens
\* than the job reserved, whatever the agent has in flight at once, and what
\* is left is what the calls have not taken.
Taken == [c \in DOMAIN call |-> IF call[c].state = "forwarded" THEN call[c].tokens ELSE 0]
BudgetIsKept == remaining >= 0 /\ remaining + Sum(Taken) = MaxTokens

\* The sidecar forwards no more requests than its limit.
RequestsAreBounded == Cardinality({c \in DOMAIN call : call[c].state = "forwarded"}) <= MaxRequests

\* The caller never receives more bytes than four for each reserved token.
OutputIsCapped == out <= maximumOutputBytes

\* The caller receives no more bytes than four for each reserved token, and
\* the calls the sidecar forwards stay within the reserved tokens and its
\* limit of requests, also at once (boundedWriter, ServeHTTP).
AgentStaysWithinLimits == OutputIsCapped /\ BudgetIsKept /\ RequestsAreBounded

\* A running agent always has its sidecar, its only network and its
\* workspace: setting up ends before it starts and it is the first to go.
AgentHasItsHouse == "job" \in res => {"workspace", "internal", "egress", "proxy", "directory"} \subseteq res

\* Every generation returns, even with an agent that never ends.
GenerateReturns == <>(pc = "done")

\* Both containers and both networks are removed when the job is cancelled
\* or times out (and what Docker was still doing is over).
RemovedOnCancel ==
  (pc = "done" /\ ctx = "done" /\ late = {}) => {"internal", "egress", "proxy", "job"} \cap res = {}
=============================================================================
