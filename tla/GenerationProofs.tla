-------------------------- MODULE GenerationProofs --------------------------
(***************************************************************************)
(* What a provider's host does for a job stays within the job's limits,    *)
(* for any limits, lines, calls and upstream answers: the command agent    *)
(* with its sidecar, and the adapters that report token usage.  And what   *)
(* an agent's generation makes is taken down again.                        *)
(***************************************************************************)
EXTENDS CommandAgent, Backends, SumTheorems, SequenceTheorems

(***************************************************************************)
(* The adapters.                                                           *)
(***************************************************************************)

(* What is passed on has been seen, a buffering adapter passes nothing on  *)
(* while it runs, and a result that was accepted is the one reported.      *)
AdapterInv ==
  /\ OutputIsMetered
  /\ usage \in Counts \cup {NoCount}
  /\ kind = "openai" /\ emitted => text

(* OpenAI-compatible: a stream with output ends well only with a usage of  *)
(* at least one token and at most the reservation.                         *)
LEMMA OpenAIMeters ==
    ASSUME AdapterInv, OpenAIText \/ OpenAIDone \/ StreamBreaks \/ \E n \in Counts : OpenAIUsage(n)
    PROVE  AdapterInv'
<1>1. CASE OpenAIText
  BY <1>1 DEF AdapterInv, OutputIsMetered, UsageIsReported, NativeIsAllOrNothing,
              OpenAIText, Event, Emit, Fail
<1>2. CASE OpenAIDone
  BY <1>2, AdapterAssumption DEF AdapterInv, OutputIsMetered, UsageIsReported,
              NativeIsAllOrNothing, OpenAIDone, Fail, Succeed, Counts, NoCount
<1>3. CASE StreamBreaks
  BY <1>3 DEF AdapterInv, OutputIsMetered, UsageIsReported, NativeIsAllOrNothing,
              StreamBreaks, Fail
<1>4. CASE \E n \in Counts : OpenAIUsage(n)
  BY <1>4 DEF AdapterInv, OutputIsMetered, UsageIsReported, NativeIsAllOrNothing,
              OpenAIUsage, Event
<1> QED BY <1>1, <1>2, <1>3, <1>4, Zenon

(* Ollama: the counts are taken as they come; nothing is promised of them. *)
LEMMA OllamaMeters ==
    ASSUME AdapterInv, OllamaText \/ \E n \in Counts \cup {NoCount} : OllamaDone(n)
    PROVE  AdapterInv'
<1>1. CASE OllamaText
  BY <1>1 DEF AdapterInv, OutputIsMetered, UsageIsReported, NativeIsAllOrNothing,
              OllamaText, Event, Emit, Fail
<1>2. CASE \E n \in Counts \cup {NoCount} : OllamaDone(n)
  BY <1>2 DEF AdapterInv, OutputIsMetered, UsageIsReported, NativeIsAllOrNothing,
              OllamaDone, Succeed
<1> QED BY <1>1, <1>2, Zenon

(* Codex and Claude: text is passed on in the step that accepts the usage. *)
LEMMA BufferedMeters ==
    ASSUME AdapterInv,
           \/ CodexMessage \/ CodexBad \/ CodexExits \/ ClaudeExits
           \/ \E n \in Counts \cup {NoCount} : CodexTurn(n)
           \/ \E has \in BOOLEAN, n \in Counts \cup {NoCount}, ended \in {"complete", "bad"} :
                ClaudeWrites(has, n, ended)
    PROVE  AdapterInv'
<1>1. CASE CodexMessage \/ CodexBad
  BY <1>1 DEF AdapterInv, OutputIsMetered, UsageIsReported, NativeIsAllOrNothing,
              CodexMessage, CodexBad, Event
<1>2. CASE CodexExits \/ ClaudeExits
  BY <1>2 DEF AdapterInv, OutputIsMetered, UsageIsReported, NativeIsAllOrNothing,
              CodexExits, ClaudeExits, Acceptable, Fail, Succeed
<1>3. CASE \E n \in Counts \cup {NoCount} : CodexTurn(n)
  BY <1>3 DEF AdapterInv, OutputIsMetered, UsageIsReported, NativeIsAllOrNothing,
              CodexTurn, Event
<1>4. CASE \E has \in BOOLEAN, n \in Counts \cup {NoCount}, ended \in {"complete", "bad"} :
             ClaudeWrites(has, n, ended)
  BY <1>4 DEF AdapterInv, OutputIsMetered, UsageIsReported, NativeIsAllOrNothing,
              ClaudeWrites, Event
<1> QED BY <1>1, <1>2, <1>3, <1>4, Zenon

(* What an adapter passes on it meters within the reservation, whatever    *)
(* the upstream sends and wherever it breaks off, and Codex and Claude     *)
(* pass text on only together with success (Generate of the adapters,      *)
(* parseOutput, parseResult).                                              *)
THEOREM OutputStaysMetered == AdapterSpec => []OutputIsMetered
<1>1. AdapterInit => AdapterInv
  BY DEF AdapterInit, AdapterInv, OutputIsMetered, UsageIsReported, NativeIsAllOrNothing
<1>2. AdapterInv /\ [AdapterNext]_adapterVars => AdapterInv'
  <2> SUFFICES ASSUME AdapterInv, [AdapterNext]_adapterVars PROVE AdapterInv'
    OBVIOUS
  <2>1. CASE UNCHANGED adapterVars
    BY <2>1 DEF adapterVars, AdapterInv, OutputIsMetered, UsageIsReported, NativeIsAllOrNothing
  <2>2. CASE AdapterNext
    BY <2>1, <2>2, OpenAIMeters, OllamaMeters, BufferedMeters, Zenon DEF AdapterNext, Ended
  <2> QED BY <2>1, <2>2, Zenon
<1>3. AdapterInv => OutputIsMetered
  BY Zenon DEF AdapterInv
<1> QED BY <1>1, <1>2, <1>3, PTL DEF AdapterSpec

(***************************************************************************)
(* The agent and its sidecar.                                              *)
(***************************************************************************)

CallStates == {"idle", "refused", "counted", "forwarded"}
CallType == [state : CallStates, kind : Kinds, tokens : Nat]

(* The calls that were counted in time: they may have been forwarded.      *)
Admitted == {c \in Calls : call[c].state \in {"counted", "forwarded"}}

OutputInv ==
  /\ out \in Nat /\ out <= maximumOutputBytes
  /\ pipe = <<>> \/ \E size \in LineSizes : pipe = <<size>>

(* What is left and what was taken make up the budget.  A call is admitted *)
(* as long as the counter, which also counts refused calls, is within the  *)
(* limit, so that there are never more of them than either.                *)
SidecarInv ==
  /\ call \in [Calls -> CallType] /\ remaining \in Nat /\ requests \in Nat
  /\ remaining + Sum(Taken) = MaxTokens
  /\ Cardinality(Admitted) <= requests /\ Cardinality(Admitted) <= MaxRequests

LimitsInv == OutputInv /\ SidecarInv

(* The cap on the output is a number of bytes. *)
LEMMA CapIsNumber == maximumOutputBytes \in Nat
<1>1. MaxTokens * 4 \in Nat /\ Word \in Nat \ {0} /\ DefaultBytes \in Nat
  BY AgentAssumption
<1>2. (MaxTokens * 4) % Word \in Nat
  BY <1>1
<1> QED BY <1>1, <1>2 DEF maximumOutputBytes

(* The calls and their sums are finite. *)
LEMMA TakenIsFunction ==
    ASSUME call \in [Calls -> CallType]
    PROVE  /\ Taken \in [Calls -> Nat] /\ Sum(Taken) \in Nat /\ IsFiniteSet(Calls)
           /\ \A c \in Calls : Taken[c] = IF call[c].state = "forwarded" THEN call[c].tokens ELSE 0
           /\ IsFiniteSet(Admitted) /\ Cardinality(Admitted) \in Nat
<1>1. DOMAIN call = Calls /\ IsFiniteSet(Calls)
  BY AgentAssumption
<1>2. \A c \in Calls : call[c].tokens \in Nat
  BY Zenon DEF CallType
<1>3. Taken \in [Calls -> Nat]
        /\ \A c \in Calls : Taken[c] = IF call[c].state = "forwarded" THEN call[c].tokens ELSE 0
  BY <1>1, <1>2 DEF Taken
<1>4. Sum(Taken) \in Nat
  <2>1. PICK f : f = Taken
    OBVIOUS
  <2>2. f \in [Calls -> Nat]
    BY <1>3, <2>1, Zenon
  <2> QED BY <1>1, <2>1, <2>2, SumType, Zenon
<1>5. Admitted \subseteq Calls
  BY Zenon DEF Admitted
<1> QED BY <1>1, <1>3, <1>4, <1>5, FS_Subset, FS_CardinalityType, Zenon

(* A call that changes its state changes what is taken by what it takes.   *)
LEMMA OneCall ==
    ASSUME call \in [Calls -> CallType], NEW c \in Calls, call[c].state # "forwarded",
           NEW d \in CallType, call' = [call EXCEPT ![c] = d],
           NEW n \in Nat, n = IF d.state = "forwarded" THEN d.tokens ELSE 0
    PROVE  /\ call' \in [Calls -> CallType]
           /\ Sum(Taken)' = Sum(Taken) + n
           /\ call'[c] = d /\ \A b \in Calls \ {c} : call'[b] = call[b]
<1>1. /\ call' \in [Calls -> CallType] /\ DOMAIN call' = Calls /\ DOMAIN call = Calls
      /\ call'[c] = d /\ \A b \in Calls \ {c} : call'[b] = call[b]
  BY Zenon
<1>2. PICK f : f = Taken
  OBVIOUS
<1>3. f \in [Calls -> Nat] /\ f[c] = 0 /\ IsFiniteSet(Calls)
  BY <1>2, TakenIsFunction
<1>4. ASSUME NEW b \in Calls
      PROVE  (IF call'[b].state = "forwarded" THEN call'[b].tokens ELSE 0)
                = [f EXCEPT ![c] = n][b]
  <2>1. CASE b = c
    <3>1. [f EXCEPT ![c] = n][b] = n
      BY <1>3, <2>1
    <3>2. (IF call'[b].state = "forwarded" THEN call'[b].tokens ELSE 0) = n
      BY <1>1, <2>1, Zenon
    <3> QED BY <3>1, <3>2, Zenon
  <2>2. CASE b # c
    <3>1. [f EXCEPT ![c] = n][b] = f[b]
      BY <1>3, <2>2
    <3>2. f[b] = IF call[b].state = "forwarded" THEN call[b].tokens ELSE 0
      BY <1>2, TakenIsFunction, Zenon
    <3>3. call'[b] = call[b]
      BY <1>1, <2>2, Zenon
    <3> QED BY <3>1, <3>2, <3>3, Zenon
  <2> QED BY <2>1, <2>2, Zenon
<1>5. Taken' = [b \in Calls |-> [f EXCEPT ![c] = n][b]]
  BY <1>1, <1>4, Zenon DEF Taken
<1>6. [f EXCEPT ![c] = n] = [b \in Calls |-> [f EXCEPT ![c] = n][b]]
  BY <1>3
<1>7. Sum([f EXCEPT ![c] = n]) = Sum(f) - f[c] + n
  BY <1>3, SumUpdate, Zenon
<1>8. Sum(f) \in Nat
  BY <1>3, SumType, Zenon
<1>9. Sum([f EXCEPT ![c] = n]) = Sum(f) + n
  BY <1>3, <1>7, <1>8
<1>10. Sum(Taken') = Sum([f EXCEPT ![c] = n])
  BY <1>5, <1>6, Zenon
<1>11. Sum(Taken)' = Sum(Taken')
  BY Zenon DEF Sum, Coins
<1> QED BY <1>1, <1>2, <1>9, <1>10, <1>11, Zenon

(* A call is counted: it joins the admitted ones only within the limit. *)
LEMMA CountKeeps ==
    ASSUME SidecarInv, NEW c \in Calls, NEW k \in Kinds, NEW tokens \in Nat, Count(c, k, tokens)
    PROVE  SidecarInv'
<1> DEFINE next == IF requests + 1 > MaxRequests \/ k = "refusable" THEN Refused
                   ELSE IF k = "models" THEN Forwarded(0)
                   ELSE [state |-> "counted", kind |-> k, tokens |-> tokens]
<1>1. /\ call \in [Calls -> CallType] /\ remaining \in Nat /\ requests \in Nat
      /\ remaining + Sum(Taken) = MaxTokens /\ MaxRequests \in Nat
      /\ Cardinality(Admitted) <= requests /\ Cardinality(Admitted) <= MaxRequests
  BY AgentAssumption, Zenon DEF SidecarInv
<1>2. call[c].state = "idle" /\ requests' = requests + 1 /\ remaining' = remaining
  BY DEF Count
<1>3. PICK d : d = next
  OBVIOUS
<1>4. call' = [call EXCEPT ![c] = d]
  BY <1>3, Zenon DEF Count
<1>5. /\ d \in CallType
      /\ d.state = "refused" \/ requests + 1 <= MaxRequests
      /\ d.state = "forwarded" => d.tokens = 0
  <2>1. CASE requests + 1 > MaxRequests \/ k = "refusable"
    <3>1. d = [state |-> "refused", kind |-> "models", tokens |-> 0]
      BY <1>3, <2>1 DEF Refused, Idle
    <3> QED BY <3>1 DEF CallType, CallStates, Kinds
  <2>2. CASE ~(requests + 1 > MaxRequests \/ k = "refusable")
    <3>1. requests + 1 <= MaxRequests
      BY <1>1, <2>2
    <3>2. CASE k = "models"
      <4>1. d = [state |-> "forwarded", kind |-> "models", tokens |-> 0]
        BY <1>3, <2>2, <3>2 DEF Forwarded, Idle
      <4> QED BY <3>1, <4>1 DEF CallType, CallStates, Kinds
    <3>3. CASE k # "models"
      <4>1. d = [state |-> "counted", kind |-> k, tokens |-> tokens]
        BY <1>3, <2>2, <3>3
      <4> QED BY <3>1, <4>1 DEF CallType, CallStates, Kinds
    <3> QED BY <3>2, <3>3, Zenon
  <2> QED BY <2>1, <2>2, Zenon
<1>6. PICK n \in Nat : n = IF d.state = "forwarded" THEN d.tokens ELSE 0
  BY <1>5
<1>7. n = 0
  BY <1>5, <1>6
<1> HIDE DEF next
<1>8. /\ call' \in [Calls -> CallType] /\ Sum(Taken)' = Sum(Taken) + n
      /\ call'[c] = d /\ \A b \in Calls \ {c} : call'[b] = call[b]
  <2>1. call[c].state # "forwarded" /\ call \in [Calls -> CallType] /\ d \in CallType
    BY <1>1, <1>2, <1>5
  <2> QED BY <1>4, <1>6, <2>1, OneCall, Zenon
<1>9. IsFiniteSet(Admitted) /\ Cardinality(Admitted) \in Nat /\ Sum(Taken) \in Nat
  BY <1>1, TakenIsFunction, Zenon
<1>10. c \notin Admitted
  BY <1>2 DEF Admitted
<1>11. remaining' + Sum(Taken)' = MaxTokens
  BY <1>1, <1>2, <1>7, <1>8, <1>9
<1>12. Cardinality(Admitted)' <= requests' /\ Cardinality(Admitted)' <= MaxRequests
  <2>1. \A b \in Calls \ {c} : b \in Admitted' <=> b \in Admitted
    BY <1>8, Zenon DEF Admitted
  <2>2. CASE d.state = "refused"
    <3>1. c \notin Admitted'
      BY <1>8, <2>2 DEF Admitted
    <3>2. Admitted' = Admitted
      BY <1>10, <2>1, <3>1, Zenon DEF Admitted
    <3> QED BY <1>1, <1>2, <1>9, <3>2
  <2>3. CASE requests + 1 <= MaxRequests
    <3>1. Admitted' \subseteq Admitted \cup {c}
      BY <2>1, Zenon DEF Admitted
    <3>2. IsFiniteSet(Admitted \cup {c}) /\ Cardinality(Admitted \cup {c}) = Cardinality(Admitted) + 1
      BY <1>9, <1>10, FS_AddElement, Zenon
    <3>3. Cardinality(Admitted') <= Cardinality(Admitted) + 1 /\ Cardinality(Admitted') \in Nat
      BY <3>1, <3>2, FS_Subset, FS_CardinalityType, Zenon
    <3> QED BY <1>1, <1>2, <1>9, <2>3, <3>3
  <2> QED BY <1>5, <2>2, <2>3, Zenon
<1>13. remaining' \in Nat /\ requests' \in Nat
  BY <1>1, <1>2
<1> QED BY <1>8, <1>11, <1>12, <1>13, Zenon DEF SidecarInv

(* authorizeInferenceBody: a call takes what it asks for from what is left, *)
(* or is refused.                                                           *)
LEMMA AuthorizeKeeps ==
    ASSUME SidecarInv, NEW c \in Calls, Authorize(c)
    PROVE  SidecarInv'
<1>1. /\ call \in [Calls -> CallType] /\ remaining \in Nat /\ requests \in Nat
      /\ remaining + Sum(Taken) = MaxTokens /\ MaxRequests \in Nat
      /\ Cardinality(Admitted) <= requests /\ Cardinality(Admitted) <= MaxRequests
  BY AgentAssumption, Zenon DEF SidecarInv
<1>2. call[c].state = "counted" /\ call[c].state # "forwarded" /\ requests' = requests
  BY DEF Authorize
<1>3. PICK a : a = Asked(c)
  OBVIOUS
<1>4. \E d \in CallType, n \in Nat :
        /\ call' = [call EXCEPT ![c] = d] /\ n <= remaining /\ remaining' = remaining - n
        /\ n = IF d.state = "forwarded" THEN d.tokens ELSE 0
  <2>1. CASE a \in 1..remaining
    <3>1. PICK d : d = [state |-> "forwarded", kind |-> "models", tokens |-> a]
      OBVIOUS
    <3>2. a \in Nat /\ a <= remaining
      BY <1>1, <2>1
    <3>3. d \in CallType /\ a = IF d.state = "forwarded" THEN d.tokens ELSE 0
      BY <3>1, <3>2 DEF CallType, CallStates, Kinds
    <3>4. call' = [call EXCEPT ![c] = d] /\ remaining' = remaining - a
      BY <1>3, <2>1, <3>1 DEF Authorize, Forwarded, Idle
    <3> QED BY <3>2, <3>3, <3>4, Zenon
  <2>2. CASE a \notin 1..remaining
    <3>1. PICK d, n : d = [state |-> "refused", kind |-> "models", tokens |-> 0] /\ n = 0
      OBVIOUS
    <3>2. n \in Nat /\ n <= remaining /\ remaining - n = remaining
      BY <1>1, <3>1
    <3>3. d \in CallType /\ n = IF d.state = "forwarded" THEN d.tokens ELSE 0
      BY <3>1 DEF CallType, CallStates, Kinds
    <3>4. call' = [call EXCEPT ![c] = d] /\ remaining' = remaining
      BY <1>3, <2>2, <3>1 DEF Authorize, Refused, Idle
    <3> QED BY <3>2, <3>3, <3>4, Zenon
  <2> QED BY <2>1, <2>2, Zenon
<1>5. PICK d \in CallType, n \in Nat :
        /\ call' = [call EXCEPT ![c] = d] /\ n <= remaining /\ remaining' = remaining - n
        /\ n = IF d.state = "forwarded" THEN d.tokens ELSE 0
  BY <1>4, Zenon
<1>6. /\ call' \in [Calls -> CallType] /\ Sum(Taken)' = Sum(Taken) + n
      /\ call'[c] = d /\ \A b \in Calls \ {c} : call'[b] = call[b]
  BY <1>1, <1>2, <1>5, OneCall, Zenon
<1>7. IsFiniteSet(Admitted) /\ Cardinality(Admitted) \in Nat /\ Sum(Taken) \in Nat
  BY <1>1, TakenIsFunction, Zenon
<1>8. remaining' \in Nat /\ remaining' + Sum(Taken)' = MaxTokens
  BY <1>1, <1>5, <1>6, <1>7
<1>9. Admitted' \subseteq Admitted
  BY <1>2, <1>6, Zenon DEF Admitted
<1>10. Cardinality(Admitted') <= Cardinality(Admitted) /\ Cardinality(Admitted') \in Nat
  BY <1>7, <1>9, FS_Subset, FS_CardinalityType, Zenon
<1>11. Cardinality(Admitted)' <= requests' /\ Cardinality(Admitted)' <= MaxRequests
  BY <1>1, <1>2, <1>7, <1>10
<1> QED BY <1>1, <1>2, <1>6, <1>8, <1>11, Zenon DEF SidecarInv

(* A line is passed on only within what is left of the cap. *)
LEMMA ReadLineKeeps ==
    ASSUME OutputInv, ReadLine
    PROVE  OutputInv'
<1>1. out \in Nat /\ maximumOutputBytes \in Nat /\ out <= maximumOutputBytes
  BY CapIsNumber, Zenon DEF OutputInv
<1>2. PICK size \in LineSizes : pipe = <<size>>
  BY Zenon DEF OutputInv, ReadLine
<1>3. Head(pipe) = size /\ size \in Nat
  BY <1>2, AgentAssumption
<1>4. pipe' = <<>>
  BY Zenon DEF ReadLine
<1>5. (size <= maximumOutputBytes - out /\ out' = out + size) \/ out' = out
  BY <1>3, Zenon DEF ReadLine
<1>6. maximumOutputBytes' = maximumOutputBytes
  BY Zenon DEF maximumOutputBytes
<1>7. out' \in Nat /\ out' <= maximumOutputBytes
  BY <1>1, <1>3, <1>5
<1> QED BY <1>4, <1>6, <1>7, Zenon DEF OutputInv

(* The steps that neither print, pass on, nor call. *)
LEMMA OthersKeep ==
    ASSUME LimitsInv, UNCHANGED <<out, pipe, requests, remaining, call>>
    PROVE  LimitsInv'
BY DEF LimitsInv, OutputInv, SidecarInv, Admitted, Taken, maximumOutputBytes, Sum, Coins

(* The caller receives no more bytes than four for each reserved token,    *)
(* and the calls the sidecar forwards stay within the reserved tokens and  *)
(* its limit of requests, however many are in flight and in whatever order *)
(* they are counted and authorized (boundedWriter, ServeHTTP,              *)
(* authorizeInferenceBody).                                                *)
THEOREM AgentKeepsWithinLimits == Spec => []AgentStaysWithinLimits
<1>1. Init => LimitsInv
  <2> SUFFICES ASSUME Init PROVE LimitsInv
    OBVIOUS
  <2>1. out = 0 /\ pipe = <<>> /\ requests = 0 /\ remaining = MaxTokens /\ call = [c \in Calls |-> Idle]
    BY Zenon DEF Init
  <2>2. OutputInv
    BY <2>1, CapIsNumber DEF OutputInv
  <2>3. Idle \in CallType /\ Idle.state = "idle"
    BY DEF Idle, CallType, CallStates, Kinds
  <2>4. call \in [Calls -> CallType] /\ \A c \in Calls : call[c].state = "idle"
    BY <2>1, <2>3
  <2>5. Taken = [c \in Calls |-> 0]
    BY <2>4 DEF Taken
  <2>6. Sum(Taken) = 0
    <3>1. PICK f : f = Taken
      OBVIOUS
    <3>2. Sum(f) = 0
      BY <2>5, <3>1, SumZero, Zenon
    <3> QED BY <3>1, <3>2, Zenon
  <2>7. Admitted = {}
    BY <2>4 DEF Admitted
  <2>8. Cardinality(Admitted) = 0
    BY <2>7, FS_EmptySet, Zenon
  <2>9. MaxTokens \in Nat /\ MaxRequests \in Nat
    BY AgentAssumption
  <2>10. /\ remaining \in Nat /\ requests \in Nat /\ remaining + Sum(Taken) = MaxTokens
         /\ Cardinality(Admitted) <= requests /\ Cardinality(Admitted) <= MaxRequests
    BY <2>1, <2>6, <2>8, <2>9
  <2> QED BY <2>2, <2>4, <2>10, Zenon DEF LimitsInv, SidecarInv
<1>2. LimitsInv /\ [Next]_vars => LimitsInv'
  <2> SUFFICES ASSUME LimitsInv, [Next]_vars PROVE LimitsInv'
    OBVIOUS
  <2>1. ASSUME UNCHANGED <<out, pipe>>, SidecarInv' PROVE LimitsInv'
    BY <2>1 DEF LimitsInv, OutputInv, maximumOutputBytes
  <2>2. ASSUME UNCHANGED proxyVars, OutputInv' PROVE LimitsInv'
    BY <2>2 DEF LimitsInv, SidecarInv, proxyVars, Admitted, Taken, Sum, Coins
  <2>3. CASE Reject \/ ContextEnds \/ \E r \in late : LateCreation(r)
    <3>1. UNCHANGED <<out, pipe, requests, remaining, call>>
      BY <2>3 DEF Reject, ContextEnds, LateCreation, proxyVars
    <3> QED BY <3>1, OthersKeep, Zenon
  <2>4. CASE Steps
    <3>1. CASE ReadLine
      <4>1. UNCHANGED proxyVars
        BY <3>1, Zenon DEF ReadLine, proxyVars
      <4> QED BY <2>2, <3>1, <4>1, ReadLineKeeps, Zenon DEF LimitsInv
    <3>2. CASE ~ReadLine
      <4>1. UNCHANGED <<out, pipe, requests, remaining, call>>
        BY <2>4, <3>2 DEF Steps, materializeWorkspace, ProxyDirectory, ConnectEgress,
             ProxyHealth, Create, StartAgent, WaitAgent, CleanNext, proxyVars
      <4> QED BY <4>1, OthersKeep, Zenon
    <3> QED BY <3>1, <3>2, Zenon
  <2>5. CASE AgentRuns \/ AgentExits
    <3>1. UNCHANGED <<out, pipe, requests, remaining, call>>
      BY <2>5 DEF AgentRuns, AgentExits, proxyVars
    <3> QED BY <3>1, OthersKeep, Zenon
  <2>6. ASSUME NEW size \in LineSizes, AgentPrints(size) PROVE LimitsInv'
    <3>1. pipe' = <<size>> /\ out' = out /\ UNCHANGED proxyVars
      BY <2>6 DEF AgentPrints, proxyVars
    <3>2. OutputInv'
      BY <3>1 DEF LimitsInv, OutputInv, maximumOutputBytes
    <3> QED BY <2>2, <3>1, <3>2, Zenon
  <2>7. ASSUME NEW c \in Calls, NEW kd \in Kinds,
               NEW tokens \in IF kd = "limit" THEN 1..(MaxTokens + 1) ELSE {0},
               Count(c, kd, tokens)
        PROVE  LimitsInv'
    <3>1. tokens \in Nat
      BY AgentAssumption
    <3>2. UNCHANGED <<out, pipe>>
      BY <2>7 DEF Count, run
    <3> QED BY <2>1, <2>7, <3>1, <3>2, CountKeeps, Zenon DEF LimitsInv
  <2>8. ASSUME NEW c \in Calls, Authorize(c) PROVE LimitsInv'
    <3>1. UNCHANGED <<out, pipe>>
      BY <2>8 DEF Authorize, run
    <3> QED BY <2>1, <2>8, <3>1, AuthorizeKeeps, Zenon DEF LimitsInv
  <2>9. CASE Terminating \/ UNCHANGED vars
    <3>1. UNCHANGED <<out, pipe, requests, remaining, call>>
      BY <2>9 DEF Terminating, vars, run, proxyVars
    <3> QED BY <3>1, OthersKeep, Zenon
  <2> QED BY <2>3, <2>4, <2>5, <2>6, <2>7, <2>8, <2>9, Zenon DEF Next, Agent
<1>3. LimitsInv => AgentStaysWithinLimits
  <2> SUFFICES ASSUME LimitsInv PROVE AgentStaysWithinLimits
    OBVIOUS
  <2>1. /\ out <= maximumOutputBytes /\ remaining \in Nat /\ remaining + Sum(Taken) = MaxTokens
        /\ call \in [Calls -> CallType] /\ Cardinality(Admitted) <= MaxRequests
    BY Zenon DEF LimitsInv, OutputInv, SidecarInv
  <2>2. remaining >= 0
    BY <2>1
  <2>3. PICK S : S = {c \in DOMAIN call : call[c].state = "forwarded"}
    OBVIOUS
  <2>4. DOMAIN call = Calls
    BY <2>1, Zenon
  <2>5. S \subseteq Admitted
    BY <2>3, <2>4, Zenon DEF Admitted
  <2>6. Cardinality(S) <= Cardinality(Admitted) /\ Cardinality(S) \in Nat /\ Cardinality(Admitted) \in Nat
    BY <2>1, <2>5, TakenIsFunction, FS_Subset, FS_CardinalityType, Zenon
  <2>7. MaxRequests \in Nat
    BY AgentAssumption
  <2>8. Cardinality(S) <= MaxRequests
    BY <2>1, <2>6, <2>7
  <2> QED BY <2>1, <2>2, <2>3, <2>8, Zenon DEF AgentStaysWithinLimits, OutputIsCapped,
             BudgetIsKept, RequestsAreBounded
<1> QED BY <1>1, <1>2, <1>3, PTL DEF Spec

(***************************************************************************)
(* Taking down.                                                            *)
(***************************************************************************)

Files == {"workspace", "directory"}
Resources == {"workspace", "directory", "internal", "egress", "proxy", "job"}

(* The lists of the cleaning: what is deferred last, and longer ones.      *)
T1 == <<"workspace">>
T2 == <<"directory", "workspace">>
T3 == <<"egress", "directory", "workspace">>
T4 == <<"internal", "egress", "directory", "workspace">>
T5 == <<"proxy", "internal", "egress", "directory", "workspace">>
T6 == <<"job", "proxy", "internal", "egress", "directory", "workspace">>
T7 == <<"job", "job", "proxy", "internal", "egress", "directory", "workspace">>

(* One element before a list. *)
LEMMA InFront ==
    ASSUME NEW S, NEW s \in Seq(S), NEW a \in S, NEW t \in Seq(S), Len(t) = Len(s) + 1,
           t[1] = a, \A i \in 1..Len(s) : t[i + 1] = s[i]
    PROVE  <<a>> \o s = t
<1>1. <<a>> \in Seq(S) /\ Len(<<a>>) = 1 /\ <<a>>[1] = a
  OBVIOUS
<1>2. <<a>> \o s \in Seq(S) /\ Len(<<a>> \o s) = Len(t)
  BY <1>1
<1>3. ASSUME NEW i \in 1..Len(t) PROVE (<<a>> \o s)[i] = t[i]
  <2>1. CASE i = 1
    BY <1>1, <2>1
  <2>2. CASE i # 1
    <3>1. i - 1 \in 1..Len(s) /\ (i - 1) + 1 = i /\ ~(i <= 1)
      BY <2>2
    <3>2. (<<a>> \o s)[i] = s[i - 1]
      BY <1>1, <3>1
    <3> QED BY <3>1, <3>2
  <2> QED BY <2>1, <2>2
<1> QED BY <1>2, <1>3, SeqEqual

(* One element behind a list. *)
LEMMA Behind ==
    ASSUME NEW S, NEW s \in Seq(S), NEW a \in S, NEW t \in Seq(S), Len(t) = Len(s) + 1,
           t[Len(t)] = a, \A i \in 1..Len(s) : t[i] = s[i]
    PROVE  s \o <<a>> = t
<1>1. <<a>> \in Seq(S) /\ Len(<<a>>) = 1 /\ <<a>>[1] = a
  OBVIOUS
<1>2. s \o <<a>> \in Seq(S) /\ Len(s \o <<a>>) = Len(t)
  BY <1>1
<1>3. ASSUME NEW i \in 1..Len(t) PROVE (s \o <<a>>)[i] = t[i]
  <2>1. CASE i = Len(t)
    BY <1>1, <2>1
  <2>2. CASE i # Len(t)
    <3>1. i \in 1..Len(s)
      BY <2>2
    <3> QED BY <1>1, <3>1
  <2> QED BY <2>1, <2>2
<1> QED BY <1>2, <1>3, SeqEqual

(* The lists the code runs. *)
LEMMA Lists ==
    /\ Close \o <<"workspace">> = T5 /\ Deferred = T6 /\ <<"job">> \o Deferred = T7
<1> DEFINE J == <<"job", "proxy", "internal", "egress", "directory">>
<1>1. /\ Close \in Seq(Resources) /\ T5 \in Seq(Resources) /\ J \in Seq(Resources)
      /\ T6 \in Seq(Resources) /\ T7 \in Seq(Resources)
  BY DEF Close, T5, T6, T7, Resources
<1>2. Len(Close) = 4 /\ Len(T5) = 5 /\ Len(J) = 5 /\ Len(T6) = 6 /\ Len(T7) = 7
  BY DEF Close, T5, T6, T7
<1>3. /\ 1..Len(Close) = {1, 2, 3, 4} /\ 1..Len(J) = {1, 2, 3, 4, 5}
      /\ 1..Len(T6) = {1, 2, 3, 4, 5, 6}
  <2> HIDE DEF J
  <2> QED BY <1>2
<1>4. T5[Len(T5)] = "workspace" /\ \A i \in {1, 2, 3, 4} : T5[i] = Close[i]
  BY DEF Close, T5
<1>5. J[1] = "job" /\ \A i \in {1, 2, 3, 4} : J[i + 1] = Close[i]
  BY DEF Close
<1>6. T6[Len(T6)] = "workspace" /\ \A i \in {1, 2, 3, 4, 5} : T6[i] = J[i]
  BY DEF T6
<1>7. T7[1] = "job" /\ \A i \in {1, 2, 3, 4, 5, 6} : T7[i + 1] = T6[i]
  BY DEF T6, T7
<1> HIDE DEF J
<1>8. /\ Len(T5) = Len(Close) + 1 /\ Len(J) = Len(Close) + 1
      /\ Len(T6) = Len(J) + 1 /\ Len(T7) = Len(T6) + 1
  BY <1>2
<1>9. "job" \in Resources /\ "workspace" \in Resources
  BY DEF Resources
<1>10. /\ \A i \in 1..Len(Close) : T5[i] = Close[i] /\ J[i + 1] = Close[i]
       /\ \A i \in 1..Len(J) : T6[i] = J[i]
       /\ \A i \in 1..Len(T6) : T7[i + 1] = T6[i]
  BY <1>3, <1>4, <1>5, <1>6, <1>7, Zenon
<1>11. Close \o <<"workspace">> = T5
  BY <1>1, <1>4, <1>8, <1>9, <1>10, Behind, Zenon
<1>12. <<"job">> \o Close = J
  BY <1>1, <1>5, <1>8, <1>9, <1>10, InFront, Zenon
<1>13. J \o <<"workspace">> = T6
  BY <1>1, <1>6, <1>8, <1>9, <1>10, Behind, Zenon
<1>14. Deferred = T6
  BY <1>12, <1>13, Zenon DEF Deferred
<1>15. <<"job">> \o T6 = T7
  BY <1>1, <1>7, <1>8, <1>9, <1>10, InFront, Zenon
<1> QED BY <1>11, <1>14, <1>15, Zenon

(* Their heads and tails. *)
LEMMA Tails ==
    /\ Head(T1) = "workspace" /\ Len(T1) = 1
    /\ Head(T2) = "directory" /\ Tail(T2) = T1 /\ Len(T2) = 2
    /\ Head(T3) = "egress" /\ Tail(T3) = T2 /\ Len(T3) = 3
    /\ Head(T4) = "internal" /\ Tail(T4) = T3 /\ Len(T4) = 4
    /\ Head(T5) = "proxy" /\ Tail(T5) = T4 /\ Len(T5) = 5
    /\ Head(T6) = "job" /\ Tail(T6) = T5 /\ Len(T6) = 6
    /\ Head(T7) = "job" /\ Tail(T7) = T6 /\ Len(T7) = 7
BY DEF T1, T2, T3, T4, T5, T6, T7

House == {"workspace", "directory", "internal", "egress", "proxy"}

(* What Docker is late with is beyond the cleaning: if it can be late, the *)
(* invariant is about the files only.                                      *)
Sure == IF LateEffects THEN Files ELSE Resources

(* While it cleans, Generate has only left what is still on its list.      *)
OnTheList ==
  \/ todo \in {T6, T7}
  \/ todo = T5 /\ res \cap Sure \subseteq House
  \/ todo = T4 /\ res \cap Sure \subseteq {"internal", "egress", "directory", "workspace"}
  \/ todo = T3 /\ res \cap Sure \subseteq {"egress", "directory", "workspace"}
  \/ todo = T2 /\ res \cap Sure \subseteq {"directory", "workspace"}
  \/ todo = T1 /\ res \cap Sure \subseteq {"workspace"}

(* Setting up makes one thing after the other, the agent's container last. *)
SetUp ==
  /\ pc = "start" => res \cap Sure = {}
  /\ pc = "directory" => res \cap Sure \subseteq {"workspace"}
  /\ pc \in {"internal", "egress", "proxy", "connect", "health", "run"} => res \cap Sure \subseteq House
  /\ pc \in {"directory", "internal", "egress", "proxy", "connect", "health", "run", "stream"}
       => "workspace" \in res
  /\ pc \in {"internal", "egress", "proxy", "connect", "health", "run", "stream"}
       => "directory" \in res
  /\ pc \in {"egress", "proxy", "connect", "health", "run", "stream"} => "internal" \in res
  /\ pc \in {"proxy", "connect", "health", "run", "stream"} => "egress" \in res
  /\ pc \in {"connect", "health", "run", "stream"} => "proxy" \in res

Places == {"start", "directory", "internal", "egress", "proxy", "connect", "health", "run",
           "stream", "clean", "done"}

CleanInv ==
  /\ pc \in Places
  /\ res \subseteq Resources /\ late \subseteq Resources \ Files /\ (~LateEffects => late = {})
  /\ SetUp
  /\ pc = "clean" => OnTheList
  /\ pc = "done" => res \cap Sure = {}
  /\ ~LateEffects => AgentHasItsHouse

(* One removal: nothing that is on the list is still in use when its turn  *)
(* comes, because what uses it was before it on the list.                  *)
LEMMA CleanNextKeeps ==
    ASSUME CleanInv, CleanNext
    PROVE  CleanInv'
<1> USE DEF Files, Resources, House
<1>1. /\ pc = "clean" /\ OnTheList /\ res \subseteq Resources /\ late' = late
      /\ late \subseteq Resources \ Files /\ (~LateEffects => late = {} /\ AgentHasItsHouse)
      /\ todo' = Tail(todo) /\ pc' = IF Len(todo) = 1 THEN "done" ELSE "clean"
      /\ res' = IF Attached(Head(todo)) THEN res ELSE res \ {Head(todo)}
  BY Zenon DEF CleanInv, CleanNext
<1>2. res' \subseteq res
  BY <1>1
<1>3. ASSUME pc' = "clean", OnTheList', ~LateEffects => AgentHasItsHouse'
      PROVE  CleanInv'
  BY <1>1, <1>2, <1>3 DEF CleanInv, SetUp, Places
<1>4. CASE todo \in {T6, T7}
  <2>1. Head(todo) = "job" /\ ~Attached(Head(todo)) /\ res' = res \ {"job"} /\ pc' = "clean"
    BY <1>1, <1>4, Tails DEF Attached
  <2>2. todo' \in {T6} \/ todo' = T5
    BY <1>1, <1>4, Tails
  <2>3. res' \cap Sure \subseteq House
    BY <1>1, <2>1
  <2>4. OnTheList' /\ AgentHasItsHouse'
    BY <2>1, <2>2, <2>3 DEF OnTheList, AgentHasItsHouse, Sure
  <2> QED BY <1>3, <2>1, <2>4, Zenon
<1>5. CASE todo = T5 /\ res \cap Sure \subseteq House
  <2>1. Head(todo) = "proxy" /\ todo' = T4 /\ pc' = "clean"
    BY <1>1, <1>5, Tails
  <2>2. res' = res \ {"proxy"}
    BY <1>1, <2>1 DEF Attached
  <2>3. OnTheList' /\ (~LateEffects => AgentHasItsHouse')
    BY <1>1, <1>5, <2>1, <2>2 DEF OnTheList, AgentHasItsHouse, Sure
  <2> QED BY <1>3, <2>1, <2>3, Zenon
<1>6. CASE todo = T4 /\ res \cap Sure \subseteq {"internal", "egress", "directory", "workspace"}
  <2>1. Head(todo) = "internal" /\ todo' = T3 /\ pc' = "clean"
    BY <1>1, <1>6, Tails
  <2>2. LateEffects \/ res' = res \ {"internal"}
    BY <1>1, <1>6, <2>1 DEF Attached, Sure
  <2>3. OnTheList' /\ (~LateEffects => AgentHasItsHouse')
    BY <1>1, <1>2, <1>6, <2>1, <2>2 DEF OnTheList, AgentHasItsHouse, Sure
  <2> QED BY <1>3, <2>1, <2>3, Zenon
<1>7. CASE todo = T3 /\ res \cap Sure \subseteq {"egress", "directory", "workspace"}
  <2>1. Head(todo) = "egress" /\ todo' = T2 /\ pc' = "clean"
    BY <1>1, <1>7, Tails
  <2>2. LateEffects \/ res' = res \ {"egress"}
    BY <1>1, <1>7, <2>1 DEF Attached, Sure
  <2>3. OnTheList' /\ (~LateEffects => AgentHasItsHouse')
    BY <1>1, <1>2, <1>7, <2>1, <2>2 DEF OnTheList, AgentHasItsHouse, Sure
  <2> QED BY <1>3, <2>1, <2>3, Zenon
<1>8. CASE todo = T2 /\ res \cap Sure \subseteq {"directory", "workspace"}
  <2>1. Head(todo) = "directory" /\ todo' = T1 /\ pc' = "clean"
    BY <1>1, <1>8, Tails
  <2>2. res' = res \ {"directory"}
    BY <1>1, <2>1 DEF Attached
  <2>3. OnTheList' /\ (~LateEffects => AgentHasItsHouse')
    BY <1>1, <1>8, <2>1, <2>2 DEF OnTheList, AgentHasItsHouse, Sure
  <2> QED BY <1>3, <2>1, <2>3, Zenon
<1>9. CASE todo = T1 /\ res \cap Sure \subseteq {"workspace"}
  <2>1. Head(todo) = "workspace" /\ pc' = "done"
    BY <1>1, <1>9, Tails
  <2>2. res' = res \ {"workspace"}
    BY <1>1, <2>1 DEF Attached
  <2>3. res' \cap Sure = {} /\ (~LateEffects => AgentHasItsHouse')
    BY <1>1, <1>9, <2>2 DEF AgentHasItsHouse, Sure
  <2> QED BY <1>1, <1>2, <2>1, <2>3 DEF CleanInv, SetUp, Places, Sure
<1> QED BY <1>1, <1>4, <1>5, <1>6, <1>7, <1>8, <1>9, Zenon DEF OnTheList

(* Setting up: every failure leaves with the list of what may exist.       *)
LEMMA SetUpKeeps ==
    ASSUME CleanInv,
           \/ Reject \/ materializeWorkspace \/ ProxyDirectory \/ ConnectEgress \/ ProxyHealth
           \/ \E r \in {"internal", "egress", "proxy"} : Create(r)
           \/ StartAgent
    PROVE  CleanInv'
<1> USE DEF Files, Resources, House
<1>1. /\ res \subseteq Resources /\ SetUp
      /\ late \subseteq Resources \ Files /\ (~LateEffects => late = {} /\ AgentHasItsHouse)
  BY Zenon DEF CleanInv
<1>2. Close \o <<"workspace">> = T5 /\ <<"workspace">> = T1
  BY Lists, Zenon DEF T1
<1>3. CASE Reject
  BY <1>1, <1>3 DEF Reject, CleanInv, SetUp, Places, AgentHasItsHouse, Sure
<1>4. CASE materializeWorkspace
  BY <1>1, <1>4 DEF materializeWorkspace, CleanInv, SetUp, Places, AgentHasItsHouse, Sure
<1>5. CASE ProxyDirectory
  <2>1. CASE pc' = "internal" /\ res' = res \cup {"directory"}
    BY <1>1, <1>5, <2>1 DEF ProxyDirectory, CleanInv, SetUp, Places, AgentHasItsHouse, Sure
  <2>2. CASE pc' = "clean" /\ todo' = <<"workspace">> /\ res' = res
    <3>1. OnTheList'
      BY <1>1, <1>2, <1>5, <2>2 DEF ProxyDirectory, OnTheList, SetUp, Sure
    <3> QED BY <1>1, <1>5, <2>2, <3>1 DEF ProxyDirectory, CleanInv, SetUp, Places,
                                          AgentHasItsHouse, Sure
  <2> QED BY <1>5, <2>1, <2>2, Zenon DEF ProxyDirectory, CleanUp
<1>6. CASE ConnectEgress \/ ProxyHealth \/ StartAgent
  <2>1. pc \in {"connect", "health", "run"} /\ UNCHANGED <<res, late>>
    BY <1>6 DEF ConnectEgress, ProxyHealth, StartAgent
  <2>2. \/ pc' \in {"health", "run", "stream"}
        \/ pc' = "clean" /\ todo' = Close \o <<"workspace">>
    BY <1>6 DEF ConnectEgress, ProxyHealth, StartAgent, CleanUp
  <2>3. CASE pc' \in {"health", "run", "stream"}
    BY <1>1, <2>1, <2>3 DEF CleanInv, SetUp, Places, AgentHasItsHouse, Sure
  <2>4. CASE pc' = "clean" /\ todo' = Close \o <<"workspace">>
    <3>1. OnTheList'
      BY <1>1, <1>2, <2>1, <2>4 DEF OnTheList, SetUp, Sure
    <3> QED BY <1>1, <2>1, <2>4, <3>1 DEF CleanInv, SetUp, Places, AgentHasItsHouse, Sure
  <2> QED BY <2>2, <2>3, <2>4, Zenon
<1>7. ASSUME NEW r \in {"internal", "egress", "proxy"}, Create(r) PROVE CleanInv'
  <2>1. pc = r /\ r \in Resources \ Files
    BY <1>7 DEF Create
  <2>2. \/ res' = res \cup {r} /\ pc' = Following[r] /\ late' = late
        \/ pc' = "clean" /\ todo' = Close \o <<"workspace">>
           /\ res' \in {res, res \cup {r}} /\ (late' = late \/ (LateEffects /\ late' = late \cup {r}))
    BY <1>7 DEF Create, CleanUp
  <2>3. /\ Following["internal"] = "egress" /\ Following["egress"] = "proxy"
        /\ Following["proxy"] = "connect"
    BY DEF Following
  <2>4. CASE res' = res \cup {r} /\ pc' = Following[r] /\ late' = late
    <3>1. CASE r = "internal"
      BY <1>1, <2>1, <2>3, <2>4, <3>1 DEF CleanInv, SetUp, Places, AgentHasItsHouse, Sure
    <3>2. CASE r = "egress"
      BY <1>1, <2>1, <2>3, <2>4, <3>2 DEF CleanInv, SetUp, Places, AgentHasItsHouse, Sure
    <3>3. CASE r = "proxy"
      BY <1>1, <2>1, <2>3, <2>4, <3>3 DEF CleanInv, SetUp, Places, AgentHasItsHouse, Sure
    <3> QED BY <3>1, <3>2, <3>3
  <2>5. CASE /\ pc' = "clean" /\ todo' = Close \o <<"workspace">>
             /\ res' \in {res, res \cup {r}} /\ (late' = late \/ (LateEffects /\ late' = late \cup {r}))
    <3>1. res \cap Sure \subseteq House
      BY <1>1, <2>1 DEF SetUp, Sure
    <3>2. res' \cap Sure \subseteq House /\ OnTheList'
      BY <1>2, <2>1, <2>5, <3>1 DEF OnTheList, Sure
    <3>3. ~LateEffects => AgentHasItsHouse'
      BY <3>2, <1>1, <2>5 DEF AgentHasItsHouse, Sure
    <3> QED BY <1>1, <2>1, <2>5, <3>2, <3>3 DEF CleanInv, SetUp, Places, Sure
  <2> QED BY <2>2, <2>4, <2>5, Zenon
<1> QED BY <1>3, <1>4, <1>5, <1>6, <1>7, Zenon

(* The agent's container, and what Docker is late with. *)
LEMMA AgentKeeps ==
    ASSUME CleanInv,
           \/ AgentRuns \/ AgentExits \/ ReadLine \/ WaitAgent \/ ContextEnds
           \/ \E r \in late : LateCreation(r)
    PROVE  CleanInv'
<1> USE DEF Files, Resources, House
<1>1. /\ res \subseteq Resources /\ SetUp /\ pc \in Places
      /\ late \subseteq Resources \ Files /\ (~LateEffects => late = {} /\ AgentHasItsHouse)
  BY Zenon DEF CleanInv
<1>2. CASE AgentRuns \/ AgentExits
  <2>1. pc = "stream" /\ pc' = pc /\ late' = late /\ res' \in {res \cup {"job"}, res \ {"job"}}
    BY <1>2 DEF AgentRuns, AgentExits
  <2>2. House \subseteq res
    BY <1>1, <2>1 DEF SetUp
  <2> QED BY <1>1, <2>1, <2>2 DEF CleanInv, SetUp, AgentHasItsHouse, Sure
<1>3. CASE ReadLine \/ WaitAgent
  <2>1. /\ pc = "stream" /\ UNCHANGED <<res, late>>
        /\ (pc' = pc \/ (pc' = "clean" /\ todo' \in {Deferred, <<"job">> \o Deferred}))
    BY <1>3 DEF ReadLine, WaitAgent, CleanUp
  <2>2. CASE pc' = pc
    BY <1>1, <2>1, <2>2 DEF CleanInv, SetUp, AgentHasItsHouse, Sure
  <2>3. CASE pc' = "clean" /\ todo' \in {Deferred, <<"job">> \o Deferred}
    <3>1. todo' \in {T6, T7}
      BY <2>3, Lists, Zenon
    <3>2. OnTheList'
      BY <3>1, Zenon DEF OnTheList
    <3> QED BY <1>1, <2>1, <2>3, <3>2 DEF CleanInv, SetUp, Places, AgentHasItsHouse, Sure
  <2> QED BY <2>1, <2>2, <2>3, Zenon
<1>4. CASE ContextEnds
  <2>1. UNCHANGED <<pc, res, todo>> /\ (late' = late \/ (LateEffects /\ late' = late \cup {"job"}))
    BY <1>4 DEF ContextEnds
  <2>2. late' \subseteq Resources \ Files /\ (~LateEffects => late' = {})
    BY <1>1, <2>1
  <2>3. pc' = pc /\ res' = res /\ todo' = todo
    BY <2>1
  <2> QED BY <2>2, <2>3, Zenon DEF CleanInv, SetUp, OnTheList, AgentHasItsHouse, Sure
<1>5. ASSUME NEW r \in late, LateCreation(r) PROVE CleanInv'
  <2>1. UNCHANGED <<pc, todo>> /\ late' = late \ {r} /\ res' = res \cup {r}
    BY <1>5 DEF LateCreation
  <2>2. LateEffects /\ Sure = Files /\ Sure' = Files /\ r \in Resources \ Files
    BY <1>1, <1>5 DEF Sure
  <2>3. res' \cap Sure' = res \cap Sure
    BY <2>1, <2>2
  <2>4. (pc = "clean" => OnTheList') /\ SetUp'
    BY <1>1, <2>1, <2>2, <2>3 DEF CleanInv, OnTheList, SetUp
  <2>5. res' \subseteq Resources /\ late' \subseteq Resources \ Files
    BY <1>1, <1>5, <2>1, <2>2
  <2>6. pc' = pc /\ (pc = "done" => res' \cap Sure' = {})
    BY <2>1, <2>3, Zenon DEF CleanInv
  <2> QED BY <1>1, <2>2, <2>4, <2>5, <2>6, Zenon DEF CleanInv
<1> QED BY <1>2, <1>3, <1>4, <1>5, Zenon

(* However a generation ends, when Generate has returned its workspace and *)
(* the directory with the key are gone.  If Docker drops the creations of  *)
(* a client that was killed, nothing at all is left, and a running agent   *)
(* always has its sidecar, its networks and its workspace (Generate,       *)
(* startProxySidecar, Close).                                              *)
THEOREM NothingIsLeftBehind ==
    Spec => [](FilesAreRemoved /\ (LateEffects \/ (NothingLeft /\ AgentHasItsHouse)))
<1>1. Init => CleanInv
  BY DEF Init, CleanInv, SetUp, Places, AgentHasItsHouse, Sure, Resources, Files
<1>2. CleanInv /\ [Next]_vars => CleanInv'
  <2> SUFFICES ASSUME CleanInv, [Next]_vars PROVE CleanInv'
    OBVIOUS
  <2>1. ASSUME UNCHANGED <<pc, res, late, todo>> PROVE CleanInv'
    BY <2>1 DEF CleanInv, SetUp, OnTheList, AgentHasItsHouse, Sure
  <2>2. CASE Terminating \/ UNCHANGED vars
    <3>1. UNCHANGED <<pc, res, late, todo>>
      BY <2>2 DEF Terminating, vars, run
    <3> QED BY <2>1, <3>1, Zenon
  <2>3. ASSUME NEW size \in LineSizes, AgentPrints(size) PROVE CleanInv'
    <3>1. UNCHANGED <<pc, res, late, todo>>
      BY <2>3 DEF AgentPrints
    <3> QED BY <2>1, <3>1, Zenon
  <2>4. ASSUME NEW c \in Calls, NEW kd, NEW tokens, Count(c, kd, tokens) \/ Authorize(c)
        PROVE  CleanInv'
    <3>1. UNCHANGED <<pc, res, late, todo>>
      BY <2>4 DEF Count, Authorize, run
    <3> QED BY <2>1, <3>1, Zenon
  <2> QED BY <2>2, <2>3, <2>4, SetUpKeeps, AgentKeeps, CleanNextKeeps, Zenon DEF Next, Steps, Agent
<1>3. CleanInv => FilesAreRemoved /\ (LateEffects \/ (NothingLeft /\ AgentHasItsHouse))
  BY DEF CleanInv, FilesAreRemoved, NothingLeft, Sure, Files, Resources
<1> QED BY <1>1, <1>2, <1>3, PTL DEF Spec
=============================================================================
