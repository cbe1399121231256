------------------------------ MODULE Backends ------------------------------
(***************************************************************************)
(* One generation of each adapter that reports token usage.                *)
(*   cli/internal/backend/openai/openai.go     (streams)                   *)
(*   cli/internal/backend/ollama/ollama.go     (streams)                   *)
(*   cli/internal/backend/codex/codex.go       (buffers, parseOutput)      *)
(*   cli/internal/backend/claude/claude.go     (buffers, parseResult)      *)
(*                                                                         *)
(* The upstream service or process sends events in any order and may break *)
(* off anywhere.  An adapter passes text to the caller through emit, which *)
(* may fail, and ends with usage or with an error.                         *)
(***************************************************************************)
EXTENDS Integers

CONSTANTS
  Adapters,               \* adapters of the run
  MaximumOutputTokens,    \* of the request
  MaxEvents               \* bound on what the upstream sends

ASSUME AdapterAssumption == MaximumOutputTokens \in Nat

\* Token counts the upstream may report; NoCount when it reports none.
NoCount == -1
Counts == 0..(MaximumOutputTokens + 1)

VARIABLES
  kind,      \* which adapter
  events,    \* events the upstream has sent
  text,      \* has the upstream sent text? (outputSeen, or the buffer is not empty)
  usage,     \* output tokens reported last, or NoCount
  turn,      \* of a buffered output: "open", "complete" or "bad"
  emitted,   \* has emit taken text?
  outcome,   \* "running", "ok" or "error"
  billed     \* the output tokens of an outcome "ok"

adapterVars == <<kind, events, text, usage, turn, emitted, outcome, billed>>

AdapterInit ==
  /\ kind \in Adapters /\ events = 0 /\ text = FALSE /\ usage = NoCount /\ turn = "open"
  /\ emitted = FALSE /\ outcome = "running" /\ billed = NoCount

\* The upstream sends one more thing.
Event == outcome = "running" /\ events < MaxEvents /\ events' = events + 1
Fail == outcome' = "error" /\ UNCHANGED billed
Succeed(tokens) == outcome' = "ok" /\ billed' = tokens

\* Text is passed on, or emit fails and the generation with it.
Emit == \/ emitted' = TRUE /\ UNCHANGED <<outcome, billed>>
        \/ emitted' = emitted /\ Fail

(***************************************************************************)
(* OpenAI-compatible: a stream of chunks that ends with [DONE].            *)
(***************************************************************************)
OpenAIText ==
  /\ kind = "openai" /\ Event /\ text' = TRUE /\ Emit
  /\ UNCHANGED <<kind, usage, turn>>

OpenAIUsage(n) ==
  /\ kind = "openai" /\ Event /\ usage' = n
  /\ UNCHANGED <<kind, text, turn, emitted, outcome, billed>>

\* Mutant: usage is required of a stream with output, whatever it says.
OpenAITakesZero ==
  /\ kind = "openai" /\ outcome = "running"
  /\ LET tokens == IF usage = NoCount THEN 0 ELSE usage
     IN  IF (text /\ usage = NoCount) \/ tokens > MaximumOutputTokens
         THEN Fail ELSE Succeed(tokens)
  /\ UNCHANGED <<kind, events, text, usage, turn, emitted>>

OpenAIDone ==
  /\ kind = "openai" /\ outcome = "running"
  /\ LET tokens == IF usage = NoCount THEN 0 ELSE usage
     IN  IF (text /\ (usage = NoCount \/ tokens = 0)) \/ tokens > MaximumOutputTokens
         THEN Fail ELSE Succeed(tokens)
  /\ UNCHANGED <<kind, events, text, usage, turn, emitted>>

(***************************************************************************)
(* Ollama: a stream of objects; the one with done set carries the counts.  *)
(***************************************************************************)
OllamaText ==
  /\ kind = "ollama" /\ Event /\ text' = TRUE /\ Emit
  /\ UNCHANGED <<kind, usage, turn>>

\* A count that is left out decodes as zero; the adapter takes any count.
OllamaDone(n) ==
  /\ kind = "ollama" /\ outcome = "running" /\ usage' = n
  /\ Succeed(IF n = NoCount THEN 0 ELSE n)
  /\ UNCHANGED <<kind, events, text, turn, emitted>>

\* A broken line, an error object, a bad status or an early end of a stream.
StreamBreaks ==
  /\ kind \in {"openai", "ollama"} /\ outcome = "running" /\ Fail
  /\ UNCHANGED <<kind, events, text, usage, turn, emitted>>

(***************************************************************************)
(* Codex: events are collected until the process ends and then parsed.     *)
(***************************************************************************)
CodexMessage ==
  /\ kind = "codex" /\ Event /\ text' = TRUE
  /\ UNCHANGED <<kind, usage, turn, emitted, outcome, billed>>

CodexTurn(n) ==
  /\ kind = "codex" /\ Event
  /\ turn' = IF turn = "bad" THEN "bad" ELSE "complete"
  /\ usage' = IF n = NoCount THEN usage ELSE n
  /\ UNCHANGED <<kind, text, emitted, outcome, billed>>

\* A failed turn, an unreadable event or an item that stands for a tool.
CodexBad ==
  /\ kind = "codex" /\ Event /\ turn' = "bad"
  /\ UNCHANGED <<kind, text, usage, emitted, outcome, billed>>

Acceptable == text /\ usage \in 1..MaximumOutputTokens

CodexExits ==
  /\ kind = "codex" /\ outcome = "running"
  /\ \/ turn = "complete" /\ Acceptable /\ emitted' = TRUE /\ Succeed(usage)
     \/ emitted' = emitted /\ Fail
  /\ UNCHANGED <<kind, events, text, usage, turn>>

(***************************************************************************)
(* Claude: one object, in a buffer of bounded size.                        *)
(***************************************************************************)
\* The process writes its result, an error object, or more than the buffer.
ClaudeWrites(has, n, ended) ==
  /\ kind = "claude" /\ Event /\ turn = "open"
  /\ text' = has /\ usage' = n /\ turn' = ended
  /\ UNCHANGED <<kind, emitted, outcome, billed>>

ClaudeExits ==
  /\ kind = "claude" /\ outcome = "running"
  /\ \/ turn = "complete" /\ Acceptable /\ emitted' = TRUE /\ Succeed(usage)
     \/ emitted' = emitted /\ Fail
  /\ UNCHANGED <<kind, events, text, usage, turn>>

Ended == outcome # "running" /\ UNCHANGED adapterVars

AdapterNext ==
  \/ OpenAIText \/ OpenAIDone \/ OllamaText \/ StreamBreaks
  \/ CodexMessage \/ CodexBad \/ CodexExits \/ ClaudeExits
  \/ \E n \in Counts : OpenAIUsage(n)
  \/ \E n \in Counts \cup {NoCount} : OllamaDone(n) \/ CodexTurn(n)
  \/ \E has \in BOOLEAN, n \in Counts \cup {NoCount}, ended \in {"complete", "bad"} :
       ClaudeWrites(has, n, ended)
  \/ Ended

AdapterSpec == AdapterInit /\ [][AdapterNext]_adapterVars

(***************************************************************************)
(* Properties.                                                             *)
(***************************************************************************)

\* An adapter other than Ollama's that passed text on and succeeded reports
\* what the upstream reported, and that is at least one token and at most
\* the reservation.
UsageIsReported ==
  (outcome = "ok" /\ emitted /\ kind # "ollama")
    => billed = usage /\ billed \in 1..MaximumOutputTokens

\* The buffering adapters pass text on only together with success: of a
\* turn with a tool, an error, or usage out of bounds the client sees nothing.
NativeIsAllOrNothing ==
  (kind \in {"codex", "claude"} /\ emitted)
    => outcome = "ok" /\ turn = "complete" /\ usage \in 1..MaximumOutputTokens

\* What an adapter passes on it meters within the reservation, and the
\* buffering adapters pass text on only together with success.
OutputIsMetered == UsageIsReported /\ NativeIsAllOrNothing

\* A backend that leaves its usage out fails the request.
OmittedUsageFails == (outcome = "ok" /\ emitted) => usage # NoCount
=============================================================================
