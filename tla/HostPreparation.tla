-------------------------- MODULE HostPreparation --------------------------
(***************************************************************************)
(* Preparing a Windows host before its backends are offered.               *)
(*   cli/cmd/myference/main.go                   (runServe, reloadBackends, *)
(*                                                discoverBackends)         *)
(*   cli/cmd/myference/platform_windows.go                                 *)
(*   cli/internal/platform/windows/docker.go, ollama.go                    *)
(*                                                                         *)
(* serve prepares and discovers every enabled backend and starts a daemon; *)
(* a change of the configuration prepares and discovers all of them again. *)
(* Docker, the images, Ollama and the configuration change meanwhile.      *)
(***************************************************************************)
EXTENDS Integers, FiniteSets

CONSTANTS
  Agents,       \* backends that run a Docker image of their own
  Natives,      \* native Codex and Claude backends: kind codex or claude, no image
  Ollamas,      \* Ollama backends
  HasDocker,    \* is the docker client installed?
  HasDesktop,   \* is Docker Desktop installed?
  MaxEdits,     \* bound on the changes of the configuration
  MaxFaults     \* bound on what disappears from the host

Backends == Agents \cup Natives \cup Ollamas

VARIABLES
  enabled,    \* backends enabled in the configuration file
  seen,       \* ... when the watcher last looked
  using,      \* ... in the copy that is being prepared
  pc,         \* where the preparation is
  todo,       \* images or Ollama backends still to prepare
  ready,      \* backends this preparation has prepared
  engine,     \* Docker: "off", "starting", "linux" or "windows" containers
  host,       \* backends whose image or model is on the host
  offers,     \* what the daemon offers
  serving,    \* has the daemon been started?
  failure,    \* why the last preparation failed
  edits, faults

vars == <<enabled, seen, using, pc, todo, ready, engine, host, offers, serving, failure, edits, faults>>
world == <<enabled, engine, host, edits, faults>>

Init ==
  /\ enabled \in SUBSET Backends /\ seen = enabled /\ using = enabled
  /\ pc = "begin" /\ todo = {} /\ ready = {} /\ offers = {} /\ serving = FALSE /\ failure = "none"
  /\ engine \in {"off", "linux", "windows"} /\ host \in {{}, Backends} /\ edits = 0 /\ faults = 0

\* A failed start ends serve; a failed reload leaves the daemon as it is.
Fail(why) ==
  /\ pc' = (IF serving THEN "idle" ELSE "stopped") /\ failure' = why
  /\ todo' = {} /\ UNCHANGED <<seen, using, ready, offers, serving>>

(***************************************************************************)
(* prepareWindowsBackends                                                  *)
(***************************************************************************)
\* The kinds codex, claude and kimi count, with or without an image.
commandAgentImages(b) == b \in Agents \cup Natives

Begin ==
  /\ pc = "begin" /\ ready' = {} /\ failure' = "none"
  /\ IF \E b \in using : commandAgentImages(b)
     THEN pc' = "docker" /\ todo' = using \cap Agents
     ELSE pc' = "ollama" /\ todo' = using \cap Ollamas
  /\ UNCHANGED <<seen, using, offers, serving, world>>

\* The engine answered: only Linux containers will do.
EngineAnswers ==
  \/ engine = "linux" /\ pc' = "images" /\ UNCHANGED <<todo, failure, seen, using, ready, offers, serving>>
  \/ engine = "windows" /\ Fail("docker")

\* The first look: a stopped engine is started, once.
CheckEngine ==
  /\ pc = "docker"
  /\ \/ ~HasDocker /\ Fail("docker") /\ engine' = engine
     \/ HasDocker /\ EngineAnswers /\ engine' = engine
     \/ /\ HasDocker /\ engine \in {"off", "starting"}
        /\ \/ Fail("docker") /\ engine' = engine
           \/ /\ HasDesktop /\ pc' = "poll" /\ engine' = "starting"
              /\ UNCHANGED <<todo, failure, seen, using, ready, offers, serving>>
  /\ UNCHANGED <<enabled, host, edits, faults>>

PollEngine == pc = "poll" /\ EngineAnswers /\ UNCHANGED world

\* Two minutes have passed and the engine has not answered.
PollTimeout == pc = "poll" /\ engine \in {"off", "starting"} /\ Fail("docker") /\ UNCHANGED world

\* One image: it is there, or it is pulled and looked for again.
PrepareImage(b) ==
  /\ pc = "images" /\ b \in todo
  /\ \/ /\ engine = "linux"
        /\ host' = host \cup {b} /\ todo' = todo \ {b} /\ ready' = ready \cup {b}
        /\ UNCHANGED <<seen, using, pc, offers, serving, failure>>
     \/ (b \notin host \/ engine # "linux") /\ Fail("image") /\ host' = host
  /\ UNCHANGED <<enabled, engine, edits, faults>>

ImagesDone ==
  /\ pc = "images" /\ todo = {} /\ pc' = "ollama" /\ todo' = using \cap Ollamas
  /\ UNCHANGED <<seen, using, ready, offers, serving, failure, world>>

\* One Ollama backend: its model is installed and loads, or the whole
\* preparation fails.
Preload(b) ==
  /\ pc = "ollama" /\ b \in todo
  /\ \/ /\ b \in host /\ todo' = todo \ {b} /\ ready' = ready \cup {b}
        /\ UNCHANGED <<seen, using, pc, offers, serving, failure>>
     \/ Fail("ollama")
  /\ UNCHANGED world

OllamaDone ==
  /\ pc = "ollama" /\ todo = {} /\ pc' = "discover" /\ todo' = using
  /\ UNCHANGED <<seen, using, ready, offers, serving, failure, world>>

(***************************************************************************)
(* discoverBackends, the daemon, and the watcher                           *)
(***************************************************************************)
\* One backend lists its models: the image or the model must still be there.
Discover(b) ==
  /\ pc = "discover" /\ b \in todo
  /\ \/ /\ b \in host \cup Natives /\ (b \in Agents => engine = "linux") /\ todo' = todo \ {b}
        /\ UNCHANGED <<seen, using, pc, ready, offers, serving, failure>>
     \/ Fail("discovery")
  /\ UNCHANGED world

\* Everything answered: it is offered.  A start without backends ends.
Offer ==
  /\ pc = "discover" /\ todo = {}
  /\ \/ /\ serving \/ using # {}
        /\ offers' = using /\ serving' = TRUE /\ pc' = "idle" /\ UNCHANGED failure
     \/ ~serving /\ using = {} /\ pc' = "stopped" /\ failure' = "empty" /\ UNCHANGED <<offers, serving>>
  /\ UNCHANGED <<seen, using, todo, ready, world>>

\* Mutant: a reload takes the configuration to be prepared already.
ReloadsUnprepared ==
  /\ pc = "idle" /\ enabled # seen /\ seen' = enabled /\ using' = enabled
  /\ pc' = "discover" /\ todo' = enabled
  /\ UNCHANGED <<ready, offers, serving, failure, world>>

\* The watcher sees a new configuration and reloads all of it.
Reload ==
  /\ pc = "idle" /\ enabled # seen /\ seen' = enabled /\ using' = enabled /\ pc' = "begin"
  /\ UNCHANGED <<todo, ready, offers, serving, failure, world>>

(***************************************************************************)
(* The host.                                                               *)
(***************************************************************************)
Edit(b) ==
  /\ edits < MaxEdits /\ edits' = edits + 1
  /\ enabled' = IF b \in enabled THEN enabled \ {b} ELSE enabled \cup {b}
  /\ UNCHANGED <<seen, using, pc, todo, ready, engine, host, offers, serving, failure, faults>>

EngineStarts(os) ==
  /\ engine = "starting" /\ engine' = os
  /\ UNCHANGED <<enabled, seen, using, pc, todo, ready, host, offers, serving, failure, edits, faults>>

Fault ==
  /\ faults < MaxFaults /\ faults' = faults + 1
  /\ \/ engine' = "off" /\ host' = host
     \/ engine' = engine /\ \E b \in host : host' = host \ {b}
  /\ UNCHANGED <<enabled, seen, using, pc, todo, ready, offers, serving, failure, edits>>

Idle == pc \in {"idle", "stopped"} /\ UNCHANGED vars

Preparing ==
  \/ Begin \/ CheckEngine \/ PollEngine \/ PollTimeout \/ ImagesDone \/ OllamaDone \/ Offer
  \/ \E b \in Backends : PrepareImage(b) \/ Preload(b) \/ Discover(b)

Next ==
  \/ Preparing \/ Reload \/ Fault \/ Idle
  \/ \E b \in Backends : Edit(b)
  \/ \E os \in {"linux", "windows"} : EngineStarts(os)

Spec == Init /\ [][Next]_vars

\* The commands serve runs return; Docker need never become ready.
FairSpec == Spec /\ WF_vars(Preparing)

(***************************************************************************)
(* Properties.                                                             *)
(***************************************************************************)

\* A backend is offered only when the preparation that offers it has
\* prepared it: its image looked for or pulled, its model loaded.  Whatever
\* is edited or disappears meanwhile, a failure changes no offer.
OfferedIsPrepared ==
  [][offers' # offers => offers' \subseteq ready \cup Natives /\ failure' = "none"]_vars

\* Every preparation ends, also when Docker never becomes ready.
PreparationEnds == []<>(pc \in {"idle", "stopped"})

\* A host is turned away for want of Docker only when an enabled backend
\* runs an image.
NativeNeedsNoDocker == failure = "docker" => using \cap Agents # {}

\* A start fails only when none of the enabled backends was prepared.
HealthyOnesStart == (pc = "stopped" /\ failure # "none") => using \cap ready = {}
=============================================================================
