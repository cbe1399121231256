----------------------------- MODULE HostTuning -----------------------------
(***************************************************************************)
(* Tuning of a Windows host around a provider session, and the journal     *)
(* file that is meant to undo it.  serve takes a snapshot of the host,     *)
(* saves it as the journal, applies its operations one by one and records  *)
(* each in the journal after it succeeded; the end of the session, or a    *)
(* failed start, restores the recorded stages newest first and removes the *)
(* journal.  The host is its power scheme, its Ollama process and the      *)
(* keep-awake requests, which die with the process that made them.         *)
(***************************************************************************)
EXTENDS Integers, Sequences, FiniteSets, SequencesExt

CONSTANTS
    Procs,        \* serve processes
    None,
    MaxSessions,  \* bound: sessions that saved a journal
    MaxFaults     \* bound: failures and crashes

VARIABLES
    power,        \* the active power scheme
    awake,        \* processes that keep the host awake
    ollama,       \* Ollama's process: whether it runs, its environment and priority
    journal,      \* recovery.json: a snapshot with its applied stages, or None
    proc,         \* per process: where it is, and the snapshot it took
    sessions, faults

vars == <<power, awake, ollama, journal, proc, sessions, faults>>
hostVars == <<power, awake, ollama>>

(* PlanProviderTuning with the default configuration.                      *)
Plan == <<"power-plan", "keep-awake", "ollama-environment", "process-priority">>

Original == [up |-> TRUE, env |-> "own", priority |-> "Normal"]
Absent == [Original EXCEPT !.up = FALSE]
Stopped == [at |-> "stopped", snap |-> None, step |-> 0]

Init ==
    /\ power = "own" /\ awake = {} /\ ollama \in {Original, Absent}
    /\ journal = None /\ proc = [p \in Procs |-> Stopped]
    /\ sessions = 0 /\ faults = 0

Goto(p, at) == proc' = [proc EXCEPT ![p].at = at]
Leave(p) == proc' = [proc EXCEPT ![p] = Stopped]
Fault == faults < MaxFaults /\ faults' = faults + 1
-----------------------------------------------------------------------------
Snapshot(p) ==
    /\ proc[p].at = "stopped" /\ sessions < MaxSessions
    /\ proc' = [proc EXCEPT ![p] =
           [at |-> "save", step |-> 1,
            snap |-> [power |-> power, ollama |-> ollama, stages |-> <<>>]]]
    /\ UNCHANGED <<hostVars, journal, sessions, faults>>

(* Save: the journal is looked for first, and linked, not renamed, into    *)
(* its place, so that the second of two writers fails.                     *)
SaveSeen(p) ==
    /\ proc[p].at = "save"
    /\ IF journal = None THEN Goto(p, "link") ELSE Leave(p)
    /\ UNCHANGED <<hostVars, journal, sessions, faults>>

RenamesOver(p) ==
    /\ proc[p].at = "link"
    /\ journal' = proc[p].snap /\ sessions' = sessions + 1 /\ Goto(p, "apply")
    /\ UNCHANGED <<hostVars, faults>>

SaveLink(p) ==
    /\ proc[p].at = "link"
    /\ IF journal = None
       THEN journal' = proc[p].snap /\ sessions' = sessions + 1 /\ Goto(p, "apply")
       ELSE UNCHANGED <<journal, sessions>> /\ Leave(p)
    /\ UNCHANGED <<hostVars, faults>>

startKeepAwake(p) == awake \cup {p}
stopKeepAwake(p) == awake \ {p}

(* What one operation does.  Ollama is only restarted when it was running  *)
(* at the snapshot; the priority is set on whatever Ollama runs now.       *)
Applied(stage, p) ==
    /\ power' = IF stage = "power-plan" THEN "high" ELSE power
    /\ awake' = IF stage = "keep-awake" THEN startKeepAwake(p) ELSE awake
    /\ ollama' = CASE stage = "ollama-environment" /\ proc[p].snap.ollama.up ->
                        [up |-> TRUE, env |-> "tuned", priority |-> "Normal"]
                   [] stage = "process-priority" /\ ollama.up ->
                        [ollama EXCEPT !.priority = "High"]
                   [] OTHER -> ollama

Apply(p) ==
    /\ proc[p].at = "apply"
    /\ Applied(Plan[proc[p].step], p)
    /\ Goto(p, "record")
    /\ UNCHANGED <<journal, sessions, faults>>

(* An operation fails; restartOllama may have stopped the old process.     *)
ApplyFails(p) ==
    /\ proc[p].at = "apply" /\ Fault
    /\ ollama' \in {ollama} \cup
           (IF Plan[proc[p].step] = "ollama-environment" /\ proc[p].snap.ollama.up
            THEN {Absent} ELSE {})
    /\ Goto(p, "recover")
    /\ UNCHANGED <<power, awake, journal, sessions>>

(* CompleteStage, then the next operation or the session.                  *)
Record(p) ==
    /\ proc[p].at = "record" /\ journal # None
    /\ journal' = [journal EXCEPT !.stages =
           IF Contains(@, Plan[proc[p].step]) THEN @ ELSE Append(@, Plan[proc[p].step])]
    /\ proc' = [proc EXCEPT ![p].step = @ + 1,
                            ![p].at = IF proc[p].step = Len(Plan) THEN "serve" ELSE "apply"]
    /\ UNCHANGED <<hostVars, sessions, faults>>
-----------------------------------------------------------------------------
(* Restore of the first n of the stages, newest first.                     *)
Undone(j, n) == Range(SubSeq(Reverse(j.stages), 1, n))

OllamaStages == {"ollama-environment", "process-priority"}

Restored(j, n, p) ==
    /\ power' = IF "power-plan" \in Undone(j, n) THEN j.power ELSE power
    /\ awake' = IF "keep-awake" \in Undone(j, n) THEN stopKeepAwake(p) ELSE awake
    /\ ollama' = IF Undone(j, n) \cap OllamaStages # {} /\ j.ollama.up
                 THEN [j.ollama EXCEPT !.env = "own"] ELSE ollama

(* One step of the restoration fails, the earlier ones are done; a failed  *)
(* restart of Ollama leaves it stopped.                                    *)
RestoreStops(j, p) ==
    \E n \in 0 .. Len(j.stages) - 1 :
        IF Reverse(j.stages)[n + 1] \in OllamaStages
        THEN j.ollama.up /\ ollama' \in {ollama, Absent} /\ UNCHANGED <<power, awake>>
        ELSE Reverse(j.stages)[n + 1] = "power-plan" /\ Restored(j, n, p)

(* The stage could not be recorded: applyJournaledOperation restores with  *)
(* the stage added to its copy of the journal, and reports the failure     *)
(* whether or not this worked.                                             *)
RecordFails(p) ==
    LET j == [journal EXCEPT !.stages = Append(@, Plan[proc[p].step])] IN
    /\ proc[p].at = "record" /\ journal # None /\ faults < MaxFaults
    /\ \/ Restored(j, Len(j.stages), p) /\ faults' = faults + 1
       \/ RestoreStops(j, p) /\ faults + 1 < MaxFaults /\ faults' = faults + 2
    /\ Goto(p, "recover")
    /\ UNCHANGED <<journal, sessions>>

(* CompleteRecovery.                                                       *)
Recover(p) ==
    /\ proc[p].at = "recover"
    /\ \/ /\ journal # None /\ Restored(journal, Len(journal.stages), p)
          /\ journal' = None /\ UNCHANGED faults
       \/ /\ journal # None /\ RestoreStops(journal, p)
          /\ Fault /\ UNCHANGED journal
       \/ journal = None /\ UNCHANGED <<hostVars, journal, faults>>
    /\ Leave(p)
    /\ UNCHANGED sessions

(* The session ends, or the backends cannot be prepared: the cleanup runs. *)
Stop(p) ==
    /\ proc[p].at = "serve" /\ Goto(p, "recover")
    /\ UNCHANGED <<hostVars, journal, sessions, faults>>

Crash(p) ==
    /\ proc[p].at # "stopped" /\ Fault /\ Leave(p)
    /\ awake' = awake \ {p}
    /\ UNCHANGED <<power, ollama, journal, sessions>>

Step(p) == SaveSeen(p) \/ SaveLink(p) \/ Apply(p) \/ Record(p) \/ Stop(p) \/ Recover(p)

Next == \E p \in Procs :
    Snapshot(p) \/ Step(p) \/ ApplyFails(p) \/ RecordFails(p) \/ Crash(p)

Spec == Init /\ [][Next]_vars

(* A process that runs takes its next step, and serve is started again.    *)
FairSpec == Spec /\ \A p \in Procs : WF_vars(Step(p)) /\ WF_vars(Snapshot(p))
-----------------------------------------------------------------------------
(* A saved journal is only ever extended or removed, also when two         *)
(* processes looked for it before either wrote it (Save).                  *)
JournalIsKept ==
    [][journal # None =>
          journal' = None \/ /\ journal'.power = journal.power
                             /\ journal'.ollama = journal.ollama
                             /\ IsPrefix(journal.stages, journal'.stages)]_vars

Idle == \A p \in Procs : proc[p].at = "stopped"

(* Once no session runs and no journal is left, the power scheme is the    *)
(* owner's again and nothing keeps the host awake (StartProviderTuning,    *)
(* RestoreProviderTuning).                                                 *)
HostComesBack == Idle /\ journal = None => power = "own" /\ awake = {}

(* A start or a session that cleans up after itself leaves Ollama running  *)
(* if it found it running (restartOllama).                                 *)
OllamaComesBack ==
    [][\A p \in Procs :
          proc[p].at = "recover" /\ proc'[p] = Stopped /\ journal' = None =>
              ollama'.up = proc[p].snap.ollama.up]_vars

(* What a stopped process has changed, the journal on disk undoes          *)
(* (applyJournaledOperation).                                              *)
JournalUndoes ==
    Idle /\ power # "own" => journal # None /\ "power-plan" \in Range(journal.stages)

(* The journal holds the state before any tuning (StartProviderTuning).    *)
JournalIsPreMutation == journal # None => journal.power = "own"

(* A journal left by a crashed session is used to restore the host         *)
(* (CompleteRecovery).                                                     *)
CrashIsRecovered == (Idle /\ journal # None) ~> journal = None
=============================================================================
