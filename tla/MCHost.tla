------------------------------- MODULE MCHost -------------------------------
(***************************************************************************)
(* The provider's host around its jobs, checked side by side: a behaviour  *)
(* is one of a single part, chosen at the start, and the other parts stay  *)
(* where they begin.  The configuration, the terminal interface and the    *)
(* tuning are each taken twice.                                            *)
(***************************************************************************)
EXTENDS HostConfig, Bags

CONSTANTS b1, b2, p1, p2, l1, a1, o1, n1

VARIABLES
    part,
    model, flight, tuiFile, serve, quit,
    enabled, seen, using, pc, todo, ready, engine, host, offers, serving, failure, edits,
    prepareFaults,
    power, awake, ollama, journal, tuner, sessions, tuneFaults

(* Every command on two backends, failing or killed anywhere.              *)
Failing == INSTANCE HostConfig WITH Procs <- {p1}

(* Commands that do not fail, and the watcher of the file.                 *)
Watcher == INSTANCE HostConfig WITH Ops <- {"add", "start", "stop", "publish"}, MaxFaults <- 0

(* A key entered for an API-backed candidate; forms about a local one and  *)
(* an offer that fits it.                                                  *)
Keys == INSTANCE HostTui WITH
    Locals <- {}, Apis <- {a1}, Offers <- {}, Compatibles <- {}, MaxFlight <- 1, file <- tuiFile
Forms == INSTANCE HostTui WITH
    Locals <- {l1}, Apis <- {}, Offers <- {o1}, Compatibles <- {<<l1, o1>>}, MaxFlight <- 2,
    file <- tuiFile

(* A backend of each kind.                                                 *)
Prepare == INSTANCE HostPreparation WITH
    Agents <- {a1}, Natives <- {n1}, Ollamas <- {o1}, HasDocker <- TRUE, HasDesktop <- TRUE,
    MaxEdits <- 2, MaxFaults <- 1, faults <- prepareFaults

(* Two serve processes with two faults, and one with any single fault.     *)
Race == INSTANCE HostTuning WITH
    Procs <- {p1, p2}, MaxSessions <- 3, MaxFaults <- 2, proc <- tuner, faults <- tuneFaults
Single == INSTANCE HostTuning WITH
    Procs <- {p1}, MaxSessions <- 3, MaxFaults <- 1, proc <- tuner, faults <- tuneFaults

Parts == {"commands", "watcher", "keys", "forms", "prepare", "race", "single"}
tuiVars == <<model, flight, tuiFile, serve, quit>>
prepareVars == <<enabled, seen, using, pc, todo, ready, engine, host, offers, serving,
                 failure, edits, prepareFaults>>
tuneVars == <<power, awake, ollama, journal, tuner, sessions, tuneFaults>>
allVars == <<part, vars, tuiVars, prepareVars, tuneVars>>

(* The parts that may begin in several states begin in one of them when    *)
(* they are not the one that moves.                                        *)
MCInit ==
    /\ part \in Parts
    /\ IF part = "commands" THEN Failing!Init ELSE Watcher!Init
    /\ part \notin {"commands", "watcher"} => file[b1].enabled
    /\ IF part = "keys" THEN Keys!Init ELSE Forms!Init
    /\ Prepare!Init /\ (part # "prepare" => enabled = {} /\ host = {} /\ engine = "off")
    /\ IF part = "single" THEN Single!Init ELSE Race!Init
    /\ part \notin {"race", "single"} => ollama = Race!Absent

MCNext ==
    \/ part = "commands" /\ Failing!Next /\ UNCHANGED <<part, tuiVars, prepareVars, tuneVars>>
    \/ part = "watcher" /\ Watcher!Next /\ UNCHANGED <<part, tuiVars, prepareVars, tuneVars>>
    \/ part = "keys" /\ Keys!Next /\ UNCHANGED <<part, vars, prepareVars, tuneVars>>
    \/ part = "forms" /\ Forms!Next /\ UNCHANGED <<part, vars, prepareVars, tuneVars>>
    \/ part = "prepare" /\ Prepare!Next /\ UNCHANGED <<part, vars, tuiVars, tuneVars>>
    \/ part = "race" /\ Race!Next /\ UNCHANGED <<part, vars, tuiVars, prepareVars>>
    \/ part = "single" /\ Single!Next /\ UNCHANGED <<part, vars, tuiVars, prepareVars>>

(* Each part has the fairness of its own specification.                    *)
MCFairSpec ==
    /\ MCInit /\ [][MCNext]_allVars
    /\ WF_vars(part = "watcher" /\ Watcher!Watch)
    /\ \A p \in {p1, p2, Sync} : WF_vars(part = "watcher" /\ Watcher!Work(p))
    /\ \A k \in Forms!Kinds : WF_tuiVars(part = "forms" /\ Forms!Answered(k))
    /\ WF_prepareVars(part = "prepare" /\ Prepare!Preparing)

-----------------------------------------------------------------------------
(* The daemon ends up serving the enabled backends of the file.            *)
CapacityFollows == <>[](part = "watcher" /\ Watcher!Discovered(file)
                            => served = Watcher!Wanted(file))

(* The polling of a running session never breaks off, and a form that      *)
(* waits for a wallet operation is released (Update).                      *)
TerminalFollows ==
    /\ [](part = "forms" => Forms!LiveStatusIsLive)
    /\ []<>(part = "forms" => Forms!Released)

(* Every preparation ends, and only what it prepared is offered            *)
(* (prepareHost, the reload of serve).                                     *)
OfferedIsPrepared ==
    /\ Prepare!OfferedIsPrepared
    /\ []<>(part = "prepare" => pc \in {"idle", "stopped"})

(* A saved journal is only ever extended or removed, and after any one     *)
(* fault a stopped host is as its owner left it (Optimize, Restore).       *)
HostComesBack ==
    /\ Race!JournalIsKept
    /\ [](part = "single" => Single!HostComesBack)
=============================================================================
