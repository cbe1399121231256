------------------------------ MODULE CodexHome ------------------------------
(***************************************************************************)
(* Jobs of the native Codex backend and the private home they share.       *)
(*   cli/internal/backend/codex/codex.go                                   *)
(*                                                                         *)
(* Every call of Generate or Models first prepares the home: it copies the *)
(* user's login when the home has none and rewrites the configuration.     *)
(* Files are written by truncating them and filling them, and the runner   *)
(* of every offer uses the same home.  The Codex process replaces the      *)
(* login in the home whenever it refreshes it; a login that has been       *)
(* refreshed is of no use any more.                                        *)
(***************************************************************************)
EXTENDS Integers, FiniteSets

CONSTANTS
  Jobs,         \* goroutines that may be inside Generate or Models
  Serial,       \* TRUE: they enter one after the other
  MaxRefresh,   \* bound on the refreshes of the login
  MaxCrashes    \* bound on the ends of the provider process

\* Contents of the login: missing, truncated, or the login of generation n >= 0.
Absent == -2
Empty == -1

VARIABLES
  auth,      \* auth.json of the home
  config,    \* config.toml of the home: "absent", "empty" or "full"
  pc,        \* where each job is
  read,      \* the login a job is copying
  tool,      \* jobs whose process has tried a tool, and whose marker exists
  sent,      \* jobs whose text has been passed on
  crashes

vars == <<auth, config, pc, read, tool, sent, crashes>>

Init ==
  /\ auth = Absent /\ config = "absent" /\ pc = [j \in Jobs |-> "out"]
  /\ read = [j \in Jobs |-> Absent] /\ tool = {} /\ sent = {} /\ crashes = 0

Goto(j, label) == pc' = [pc EXCEPT ![j] = label]

(***************************************************************************)
(* prepareProviderHome                                                     *)
(***************************************************************************)
\* Mutant: every call copies the user's login.
AlwaysSeeds(j) ==
  /\ pc[j] = "out" /\ (Serial => \A k \in Jobs : pc[k] = "out")
  /\ Goto(j, "copy") /\ sent' = sent \ {j}
  /\ UNCHANGED <<auth, config, read, tool, crashes>>

\* The login is looked for; a home without one gets the user's.
StatLogin(j) ==
  /\ pc[j] = "out" /\ (Serial => \A k \in Jobs : pc[k] = "out")
  /\ Goto(j, IF auth = Absent THEN "copy" ELSE "config")
  /\ sent' = sent \ {j}
  /\ UNCHANGED <<auth, config, read, tool, crashes>>

\* The user's login is generation 0; without one the call fails.
ReadLogin(j) ==
  /\ pc[j] = "copy"
  /\ \/ read' = [read EXCEPT ![j] = 0] /\ Goto(j, "truncateLogin")
     \/ read' = read /\ Goto(j, "out")
  /\ UNCHANGED <<auth, config, tool, sent, crashes>>

TruncateLogin(j) ==
  /\ pc[j] = "truncateLogin" /\ auth' = Empty /\ Goto(j, "writeLogin")
  /\ UNCHANGED <<config, read, tool, sent, crashes>>

WriteLogin(j) ==
  /\ pc[j] = "writeLogin" /\ auth' = read[j] /\ read' = [read EXCEPT ![j] = Absent]
  /\ Goto(j, "config")
  /\ UNCHANGED <<config, tool, sent, crashes>>

\* The personal skills are listed, and the file is truncated.
TruncateConfig(j) ==
  /\ pc[j] = "config"
  /\ \/ config' = "empty" /\ Goto(j, "writeConfig")
     \/ config' = config /\ Goto(j, "out")
  /\ UNCHANGED <<auth, read, tool, sent, crashes>>

WriteConfig(j) ==
  /\ pc[j] = "writeConfig" /\ config' = "full" /\ Goto(j, "prepared")
  /\ UNCHANGED <<auth, read, tool, sent, crashes>>

(***************************************************************************)
(* Models and Generate                                                     *)
(***************************************************************************)
\* Models needs nothing but the prepared home.
Models(j) ==
  /\ pc[j] = "prepared" /\ Goto(j, "out")
  /\ UNCHANGED <<auth, config, read, tool, sent, crashes>>

\* The process, in a directory of its own that FinishCodex removes.
StartCodex(j) ==
  /\ pc[j] = "prepared" /\ Goto(j, "running")
  /\ UNCHANGED <<auth, config, read, tool, sent, crashes>>

\* The process refreshes the login it finds in the home.
Refresh(j) ==
  /\ pc[j] = "running" /\ auth >= 0 /\ auth < MaxRefresh /\ auth' = auth + 1
  /\ UNCHANGED <<config, pc, read, tool, sent, crashes>>

\* The hook of the configuration refuses a tool and leaves its marker.
ToolRefused(j) ==
  /\ pc[j] = "running" /\ tool' = tool \cup {j}
  /\ UNCHANGED <<auth, config, pc, read, sent, crashes>>

\* The process ends: text is passed on only when no marker was left, the
\* process succeeded and its output is a complete turn.
FinishCodex(j) ==
  /\ pc[j] = "running" /\ Goto(j, "out") /\ tool' = tool \ {j}
  /\ sent' \in IF j \in tool THEN {sent} ELSE {sent, sent \cup {j}}
  /\ UNCHANGED <<auth, config, read, crashes>>

\* The provider process ends anywhere.  The home stays as it is.
Crash ==
  /\ crashes < MaxCrashes /\ crashes' = crashes + 1
  /\ pc' = [j \in Jobs |-> "out"] /\ read' = [j \in Jobs |-> Absent]
  /\ tool' = {} /\ sent' = {}
  /\ UNCHANGED <<auth, config>>

Next ==
  \/ \E j \in Jobs :
       \/ StatLogin(j) \/ ReadLogin(j) \/ TruncateLogin(j) \/ WriteLogin(j)
       \/ TruncateConfig(j) \/ WriteConfig(j) \/ Models(j)
       \/ StartCodex(j) \/ Refresh(j) \/ ToolRefused(j) \/ FinishCodex(j)
  \/ Crash

Spec == Init /\ [][Next]_vars

(***************************************************************************)
(* Properties.                                                             *)
(***************************************************************************)

\* No preparation puts back a login that a Codex process has refreshed: the
\* home is seeded once and then only Codex changes it.
RotationKept == auth > 0 => auth' >= auth
RotationIsKept == [][RotationKept]_vars

\* Once a login is in the home and nobody is copying one, that stays so
\* through every later job and every end of the provider process, and the
\* login only moves forward: two first jobs can disturb it, later ones never.
Settled == auth >= 0 /\ \A j \in Jobs : pc[j] \notin {"copy", "truncateLogin", "writeLogin"}
SettledForGood == [][Settled => Settled' /\ auth' >= auth]_vars

\* A Codex process starts with the whole configuration in its home.
Starts(j) == pc[j] = "prepared" /\ pc'[j] = "running"
ConfigWhole == \A j \in Jobs : Starts(j) => config = "full"
ConfigIsWhole == [][ConfigWhole]_vars

\* A Codex process starts with a login in its home.
LoginThere == \A j \in Jobs : Starts(j) => auth >= 0
LoginIsThere == [][LoginThere]_vars

\* Nothing of a generation in which a tool was tried reaches the client.
ToolsAnswerNothing == [][\A j \in Jobs : (j \in tool /\ j \notin sent) => j \notin sent']_vars
==============================================================================
