----------------------------- MODULE HostConfig -----------------------------
(***************************************************************************)
(* The configuration of a provider's host and those who write it: the      *)
(* `backend`, `offer` and `host` commands and the daemon's version sync,   *)
(* each of which loads the file, edits its copy and renames a new file     *)
(* into place, with the backend credentials in a vault beside it.  The     *)
(* daemon watches the modification time of the file and reloads.           *)
(* A backend is known by its name; its kind stands for the shape of its    *)
(* offer: kind, model, capabilities and metering.  The wallet's offers     *)
(* have the names of backends as their ids.                                *)
(***************************************************************************)
EXTENDS Integers, Sequences, FiniteSets, SequencesExt, FiniteSetsExt

CONSTANTS
    Names, None,
    Procs,          \* command processes
    Sync,           \* the daemon's version sync
    Ops,            \* the commands given
    Overlap,        \* whether a command may start before another is done
    MaxCommands, MaxFaults, MaxVersion      \* bounds

Kinds == {"native", "vault"}    \* without a credential; an agent in an image, with one
Commands == {"add", "start", "stop", "remove", "version", "attach", "publish", "local", "host"}

ASSUME HostAssumption == None \notin Kinds /\ Ops \subseteq Commands

VARIABLES
    file, mtime,    \* the configured backends; the time the file was written
    vault,          \* names with a backend credential
    wallet,         \* per offer: the shapes of its published versions
    served,         \* what the daemon advertises
    watch,          \* watchBackendConfig: pc, last and the loaded copy
    proc,           \* per process: pc, command and the copy it edits
    clock, commands, faults

vars == <<file, mtime, vault, wallet, served, watch, proc, clock, commands, faults>>

Absent == [kind |-> None, enabled |-> FALSE, offer |-> None, version |-> 0]
Configured(cfg) == {n \in Names : cfg[n].kind # None}
Idle == [pc |-> "idle", op |-> None, name |-> None, arg |-> None, versions |-> None,
         copy |-> None, secrets |-> {}, fresh |-> {}, obsolete |-> {}, stamp |-> 0]

EffectiveOfferID(cfg, n) == IF cfg[n].offer = None THEN n ELSE cfg[n].offer

OfferCapacity(cfg, n) ==
    [offer |-> EffectiveOfferID(cfg, n), name |-> n,
     kind |-> cfg[n].kind, version |-> cfg[n].version]

Enabled(cfg) == {n \in Configured(cfg) : cfg[n].enabled}
Wanted(cfg) == {OfferCapacity(cfg, n) : n \in Enabled(cfg)}

(* One published and enabled native backend, and the daemon serving it.    *)
Init ==
    /\ \E b \in Names :
        /\ file = [n \in Names |-> IF n = b THEN [Absent EXCEPT !.kind = "native",
                                        !.enabled = TRUE, !.version = 1] ELSE Absent]
        /\ wallet = [n \in Names |-> IF n = b THEN <<"native">> ELSE <<>>]
    /\ mtime = 0 /\ clock = 0 /\ vault = {} /\ served = Wanted(file)
    /\ watch = [pc |-> "idle", last |-> 0, copy |-> None]
    /\ proc = [p \in Procs \cup {Sync} |-> Idle]
    /\ commands = 0 /\ faults = 0

-----------------------------------------------------------------------------
(* What a command makes of its copy: the set is empty when it refuses.     *)

Add(cfg, n, kind, version) ==
    LET same == cfg[n].kind = kind
        item == [kind |-> kind, enabled |-> TRUE,
                 offer |-> IF same THEN cfg[n].offer ELSE None,
                 version |-> IF same /\ (cfg[n].offer # None \/ version = 0)
                               THEN cfg[n].version ELSE version]
    IN {[cfg EXCEPT ![n] = item]}

Switch(cfg, n, on) == {[cfg EXCEPT ![m].enabled = on] : m \in {n} \cap Configured(cfg)}
RemoveBackend(cfg, n) == {[cfg EXCEPT ![m] = Absent] : m \in {n} \cap Configured(cfg)}
SetVersion(cfg, n, v) == {[cfg EXCEPT ![m].version = v] : m \in {n} \cap Configured(cfg)}

Compatible(cfg, n, o) == wallet[o] # <<>> /\ Last(wallet[o]) = cfg[n].kind

Attach(cfg, n, o) ==
    {[cfg EXCEPT ![m].offer = o, ![m].version = Len(wallet[o])] :
        m \in {b \in {n} \cap Configured(cfg) :
                /\ \A c \in Configured(cfg) \ {b} : EffectiveOfferID(cfg, c) # o
                /\ Compatible(cfg, b, o)}}

(* `host` with one model: configureLocalHost.                              *)
Local(cfg, n) ==
    {[cfg EXCEPT ![n].kind = "native", ![n].enabled = TRUE] :
        k \in {cfg[n].kind} \cap {None, "native"}}

(* `host` with a selection: every other backend is disabled; a selected    *)
(* one keeps its name, offer and version if it was configured, and takes a *)
(* free name otherwise.  Bound: one or two are selected.                   *)
Place(cfg, n, kind) ==
    LET free == Names \ Configured(cfg)
        name == CHOOSE m \in (IF cfg[n].kind = kind \/ n \in free THEN {n} ELSE free) : TRUE
    IN IF cfg[n].kind # kind /\ free = {} THEN cfg
       ELSE [cfg EXCEPT ![name].kind = kind, ![name].enabled = TRUE]

Apply(cfg, selection, kind) ==
    LET off == [n \in Names |-> [cfg[n] EXCEPT !.enabled = FALSE]]
        first == Place(off, selection[1], kind)
    IN {IF Len(selection) = 1 THEN first ELSE Place(first, selection[2], kind)}

SyncVersions(cfg, versions) ==
    LET synced == [n \in Names |->
            LET v == IF n \in Configured(cfg) THEN versions[EffectiveOfferID(cfg, n)] ELSE 0
            IN IF v > 0 THEN [cfg[n] EXCEPT !.version = v] ELSE cfg[n]]
    IN {synced} \ {cfg}

Edits(p, cfg) ==
    LET c == proc[p] IN
    CASE c.op = "add"     -> Add(cfg, c.name, c.arg, 0)
      [] c.op = "start"   -> Switch(cfg, c.name, TRUE)
      [] c.op = "stop"    -> Switch(cfg, c.name, FALSE)
      [] c.op = "remove"  -> RemoveBackend(cfg, c.name)
      [] c.op = "version" -> SetVersion(cfg, c.name, 1)
      [] c.op = "attach"  -> Attach(cfg, c.name, c.arg)
      [] c.op = "publish" -> SetVersion(cfg, c.name, c.versions[c.arg])
      [] c.op = "local"   -> Local(cfg, c.name)
      [] c.op = "host"    -> Apply(cfg, c.name, c.arg)
      [] c.op = "sync"    -> SyncVersions(cfg, c.versions)

-----------------------------------------------------------------------------
(* A command: load, credentials, temporary file, rename, credentials.      *)

Arguments(op) ==
    CASE op = "add"    -> Names \X Kinds
      [] op = "attach" -> Names \X Names
      [] op = "host"   -> {<<b>> : b \in Names} \X Kinds
                            \cup {s \in Names \X Names : s[1] # s[2]} \X {"vault"}
      [] OTHER         -> Names \X {None}

Run(p, op) ==
    /\ proc[p].pc = "idle" /\ commands < MaxCommands
    /\ \E a \in Arguments(op) :
        /\ op = "publish" => a[1] \in Configured(file)
        /\ proc' = [proc EXCEPT ![p] = [Idle EXCEPT !.op = op, !.name = a[1],
              !.arg = IF op = "publish" THEN EffectiveOfferID(file, a[1]) ELSE a[2],
              !.versions = IF op = "publish" THEN file[a[1]].kind ELSE None,
              !.pc = IF op = "publish" THEN "remote" ELSE "load"]]
    /\ commands' = commands + 1
    /\ UNCHANGED <<file, mtime, vault, wallet, served, watch, clock, faults>>

(* The wallet publishes the offer as it was when the command began.        *)
Publish(p) ==
    /\ proc[p].pc = "remote" /\ Len(wallet[proc[p].arg]) < MaxVersion
    /\ wallet' = [wallet EXCEPT ![proc[p].arg] = Append(@, proc[p].versions)]
    /\ proc' = [proc EXCEPT ![p].pc = "load",
                    ![p].versions = [o \in Names |-> Len(wallet'[o])]]
    /\ UNCHANGED <<file, mtime, vault, served, watch, clock, commands, faults>>

(* The versions the server has for the offers the machine advertises: the  *)
(* newest with the advertised shape.                                       *)
MachineOfferVersions ==
    [o \in Names |-> Max({0} \cup {v \in 1..Len(wallet[o]) :
        \E s \in served : s.offer = o /\ s.kind = wallet[o][v]})]

watchOfferVersions ==
    /\ proc[Sync].pc = "idle"
    /\ proc' = [proc EXCEPT ![Sync] = [Idle EXCEPT !.op = "sync", !.pc = "load",
                                            !.versions = MachineOfferVersions]]
    /\ UNCHANGED <<file, mtime, vault, wallet, served, watch, clock, commands, faults>>

Writing(p) == proc[p].pc \in {"secret", "write", "rename", "delete"}

(* config.Load and the edit.  `host` stores a secret for what it selects,  *)
(* `add` for its backend; a credential no longer used goes last.           *)
Load(p) ==
    /\ proc[p].pc = "load"
    /\ Overlap \/ ~ \E q \in DOMAIN proc \ {p} : Writing(q)
    /\ LET c == proc[p] IN
        IF Edits(p, file) = {} THEN proc' = [proc EXCEPT ![p] = Idle]
        ELSE \E new \in Edits(p, file) :
             LET target == IF c.op = "host" THEN Enabled(new)
                           ELSE IF c.op = "add" THEN {c.name} ELSE {}
                 secrets == {n \in target : new[n].kind = "vault"}
             IN proc' = [proc EXCEPT ![p] = [c EXCEPT
                    !.copy = new, !.secrets = secrets,
                    !.pc = IF secrets = {} THEN "write" ELSE "secret",
                    !.obsolete = IF c.op \notin {"add", "remove"} THEN {}
                        ELSE {n \in {c.name} : file[n].kind = "vault" /\ new[n].kind # "vault"}]]
    /\ UNCHANGED <<file, mtime, vault, wallet, served, watch, clock, commands, faults>>

SaveCredential(p) ==
    /\ proc[p].pc = "secret"
    /\ \E n \in proc[p].secrets :
        /\ vault' = vault \cup {n}
        /\ proc' = [proc EXCEPT ![p].secrets = @ \ {n}, ![p].fresh = @ \cup ({n} \ vault),
                        ![p].pc = IF proc[p].secrets = {n} THEN "write" ELSE "secret"]
    /\ UNCHANGED <<file, mtime, wallet, served, watch, clock, commands, faults>>

(* config.Save: the file keeps the time the temporary one was written.     *)
WriteTemp(p) ==
    /\ proc[p].pc = "write" /\ clock' = clock + 1
    /\ proc' = [proc EXCEPT ![p].pc = "rename", ![p].stamp = clock']
    /\ UNCHANGED <<file, mtime, vault, wallet, served, watch, commands, faults>>

(* As if an obsolete credential were deleted before the file is saved.     *)
DeletedFirst(p) ==
    /\ proc[p].pc = "rename"
    /\ \/ /\ proc[p].obsolete \cap vault # {} /\ vault' = vault \ proc[p].obsolete
          /\ UNCHANGED <<file, mtime, proc>>
       \/ /\ proc[p].obsolete \cap vault = {} /\ file' = proc[p].copy /\ mtime' = proc[p].stamp
          /\ proc' = [proc EXCEPT ![p] = Idle] /\ vault' = vault
    /\ UNCHANGED <<wallet, served, watch, clock, commands, faults>>

Rename(p) ==
    /\ proc[p].pc = "rename" /\ file' = proc[p].copy /\ mtime' = proc[p].stamp
    /\ proc' = [proc EXCEPT ![p] = IF @.obsolete = {} THEN Idle ELSE [@ EXCEPT !.pc = "delete"]]
    /\ UNCHANGED <<vault, wallet, served, watch, clock, commands, faults>>

DeleteCredential(p) ==
    /\ proc[p].pc = "delete" /\ vault' = vault \ proc[p].obsolete
    /\ proc' = [proc EXCEPT ![p] = Idle]
    /\ UNCHANGED <<file, mtime, wallet, served, watch, clock, commands, faults>>

(* `host` takes back the credentials that were not there before.           *)
Rollback(p) == vault' = vault \ proc[p].fresh

(* A command is killed, or one of its writes fails.                        *)
Fails(p) ==
    /\ Writing(p) /\ faults < MaxFaults /\ faults' = faults + 1
    /\ \/ vault' = vault
       \/ proc[p].op = "host" /\ Rollback(p)
    /\ proc' = [proc EXCEPT ![p] = Idle]
    /\ UNCHANGED <<file, mtime, wallet, served, watch, clock, commands>>

-----------------------------------------------------------------------------
(* As if the watcher remembered a time from after its load.                *)
StatAfterLoad ==
    /\ watch.pc = "load"
    /\ \/ watch.copy = None /\ watch' = [watch EXCEPT !.copy = file]
       \/ watch.copy # None /\ watch' = [watch EXCEPT !.pc = "discover", !.last = mtime]
    /\ UNCHANGED <<file, mtime, vault, wallet, served, proc, clock, commands, faults>>

Stat ==
    /\ watch.pc = "idle" /\ mtime > watch.last
    /\ watch' = [watch EXCEPT !.pc = "load", !.last = mtime]
    /\ UNCHANGED <<file, mtime, vault, wallet, served, proc, clock, commands, faults>>

Reload ==
    /\ watch.pc = "load"
    /\ watch' = [watch EXCEPT !.pc = "discover", !.copy = file]
    /\ UNCHANGED <<file, mtime, vault, wallet, served, proc, clock, commands, faults>>

configuredBackend(cfg, n) == cfg[n].kind = "vault" => n \in vault

(* discoverBackends can make a backend of every enabled one.               *)
Discovered(cfg) ==
    \A n \in Enabled(cfg) : cfg[n].version > 0 /\ configuredBackend(cfg, n)

UpdateBackends(offers) == served' = offers

(* One backend that cannot be discovered, or that does not answer in time, *)
(* leaves the daemon with what it serves.                                  *)
reloadBackends ==
    /\ watch.pc = "discover"
    /\ watch' = [watch EXCEPT !.pc = "idle", !.copy = None]
    /\ \/ /\ UpdateBackends(IF Discovered(watch.copy) THEN Wanted(watch.copy) ELSE served)
          /\ faults' = faults
       \/ faults < MaxFaults /\ faults' = faults + 1 /\ served' = served
    /\ UNCHANGED <<file, mtime, vault, wallet, proc, clock, commands>>

Watch == Stat \/ Reload \/ reloadBackends

Work(p) ==
    Publish(p) \/ Load(p) \/ SaveCredential(p) \/ WriteTemp(p) \/ Rename(p) \/ DeleteCredential(p)

Next ==
    \/ \E p \in Procs, op \in Ops : Run(p, op)
    \/ \E p \in Procs \cup {Sync} : Work(p) \/ Fails(p)
    \/ watchOfferVersions \/ Watch

Spec == Init /\ [][Next]_vars

(* The daemon's watcher ticks every second, and a command goes on.         *)
FairSpec == Spec /\ WF_vars(Watch) /\ \A p \in Procs \cup {Sync} : WF_vars(Work(p))

-----------------------------------------------------------------------------
(* A configured backend that needs a credential has one, whatever command  *)
(* is killed or fails where: a credential is stored before the file that   *)
(* needs it and deleted after the file that no longer does.                *)
CredentialsCover ==
    \A n \in Configured(file) : file[n].kind = "vault" => n \in vault

(* The daemon ends up with the configuration: it serves exactly the        *)
(* enabled backends of the last file it could serve.                       *)
ServedIsTheFile == <>[](Discovered(file) => served = Wanted(file))

(* A backend that was stopped is no longer served.                         *)
StopTakesEffect ==
    \A n \in Names :
        (n \in Configured(file) \ Enabled(file))
            ~> (n \in Enabled(file) \/ \A s \in served : s.name # n)

(* A sync changes versions and nothing else of the file it replaces.       *)
SyncPreserves ==
    [][(proc[Sync].pc = "rename" /\ Rename(Sync))
        => \A n \in Names : [file'[n] EXCEPT !.version = file[n].version] = file[n]]_vars

(* A version that a sync gives a backend was published for its shape.      *)
SyncCompatible ==
    [][(proc[Sync].pc = "rename" /\ Rename(Sync))
        => \A n \in Configured(file') :
            file'[n].version # file[n].version
                => wallet[EffectiveOfferID(file', n)][file'[n].version] = file'[n].kind]_vars
=============================================================================
