---------------------------- MODULE MCGeneration ----------------------------
(***************************************************************************)
(* What a provider's host does for one job, checked side by side: a        *)
(* behaviour is one of a single part, chosen at the start, and the other   *)
(* parts stay where they begin.  The agent in its containers is taken      *)
(* three times, the home of Codex twice.                                   *)
(***************************************************************************)
EXTENDS CommandAgent, Backends

CONSTANTS c1, c2, c3, j1, j2, j3, r1, r2, r3        \* calls, jobs, requests

VARIABLES
    part,
    auth, config, jobPc, read, tool, sent, crashes,
    job, proposals, recent, earnings, recorded, serve, watcher, file

(* Lines of every relevant size; Docker may be late with a killed request, *)
(* or drops the request of a client that was killed.                       *)
Late == INSTANCE CommandAgent WITH LateEffects <- TRUE
Prompt == INSTANCE CommandAgent WITH LateEffects <- FALSE

(* Three calls at once.                                                    *)
Busy == INSTANCE CommandAgent WITH
    LineSizes <- {9}, MaxAttempts <- 1, Calls <- {c1, c2, c3}, LateEffects <- FALSE

(* Three jobs of one Codex offer one after the other, and two at once      *)
(* beside an end of the provider process.                                  *)
InTurn == INSTANCE CodexHome WITH
    Jobs <- {j1, j2, j3}, Serial <- TRUE, MaxRefresh <- 4, MaxCrashes <- 0, pc <- jobPc
AtOnce == INSTANCE CodexHome WITH
    Jobs <- {j1, j2}, Serial <- FALSE, MaxRefresh <- 4, MaxCrashes <- 1, pc <- jobPc

Status == INSTANCE ProviderStatus WITH
    Requests <- {r1, r2, r3}, RecentLimit <- 1, MaxProposals <- 2

Parts == {"late", "prompt", "busy", "inTurn", "atOnce", "adapter", "status"}
codexVars == <<auth, config, jobPc, read, tool, sent, crashes>>
statusVars == <<job, proposals, recent, earnings, recorded, serve, watcher, file>>
allVars == <<part, vars, codexVars, adapterVars, statusVars>>

MCInit ==
    /\ part \in Parts
    /\ IF part = "busy" THEN Busy!Init ELSE Late!Init
    /\ IF part = "inTurn" THEN InTurn!Init ELSE AtOnce!Init
    /\ AdapterInit /\ (part # "adapter" => kind = "openai")
    /\ Status!Init

MCNext ==
    \/ part = "late" /\ Late!Next /\ UNCHANGED <<part, codexVars, adapterVars, statusVars>>
    \/ part = "prompt" /\ Prompt!Next /\ UNCHANGED <<part, codexVars, adapterVars, statusVars>>
    \/ part = "busy" /\ Busy!Next /\ UNCHANGED <<part, codexVars, adapterVars, statusVars>>
    \/ part = "inTurn" /\ InTurn!Next /\ UNCHANGED <<part, vars, adapterVars, statusVars>>
    \/ part = "atOnce" /\ AtOnce!Next /\ UNCHANGED <<part, vars, adapterVars, statusVars>>
    \/ part = "adapter" /\ AdapterNext /\ UNCHANGED <<part, vars, codexVars, statusVars>>
    \/ part = "status" /\ Status!Next /\ UNCHANGED <<part, vars, codexVars, adapterVars>>
    \/ part = "status" /\ serve = "ended" /\ UNCHANGED allVars

MCFairSpec ==
    /\ MCInit /\ [][MCNext]_allVars
    /\ WF_vars(part = "prompt" /\ Prompt!Steps)
    /\ WF_vars(part = "prompt" /\ Prompt!ContextEnds)

-----------------------------------------------------------------------------
(* Every generation returns, even with an agent that never ends; it leaves *)
(* no file behind and, if Docker drops the request of a client that was    *)
(* killed, no container or network; and while the agent runs it has its    *)
(* sidecar, its networks and its workspace (Generate, startProxySidecar).  *)
GenerationEndsClean ==
    /\ <>(part = "prompt" => pc = "done")
    /\ []Late!FilesAreRemoved
    /\ [](part \in {"prompt", "busy"} => Prompt!NothingLeft)
    /\ [](part # "late" => Prompt!AgentHasItsHouse)

(* One after the other, jobs never put back a login Codex has refreshed,   *)
(* and start Codex with a login and the whole configuration; at once, a    *)
(* login nobody is copying any more stays and only moves forward, and      *)
(* nothing of a generation in which a tool was tried reaches the client    *)
(* (seedAuthentication, writeConfiguration, Generate).                     *)
CodexHomeIsKept ==
    /\ [][part = "inTurn" => InTurn!RotationKept /\ InTurn!ConfigWhole /\ InTurn!LoginThere]_codexVars
    /\ AtOnce!SettledForGood
    /\ AtOnce!ToolsAnswerNothing

(* A job that runs is shown as active, the list holds a request once and   *)
(* is bounded, the earnings are those of the signed receipts, each counted *)
(* once, and a serve that returned leaves no status file.                  *)
StatusIsTrue ==
    /\ Status!RunningIsListed /\ Status!ListIsBounded
    /\ Status!EarningsAreReceipts /\ Status!NoFileAfterServe
=============================================================================
