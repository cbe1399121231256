-------------------------- MODULE HostConfigProofs --------------------------
(***************************************************************************)
(* A configured backend that needs a credential has one, for any backends, *)
(* processes, commands and faults, as long as no command starts to write   *)
(* before another is done.                                                 *)
(*                                                                         *)
(* The file and the vault are written in separate steps, so that what      *)
(* makes the property inductive is what a process that writes has promised *)
(* already: its copy needs nothing the vault will not have, a rollback     *)
(* takes nothing back that the file needs, and the credentials it deletes  *)
(* in the end are needed by nobody.                                        *)
(***************************************************************************)
EXTENDS HostConfig, TLAPS

(* A backend, and what a process knows of its command, by their fields.    *)
IsBackend(b) ==
    b = [kind |-> b.kind, enabled |-> b.enabled, offer |-> b.offer, version |-> b.version]
IsCommand(c) ==
    c = [pc |-> c.pc, op |-> c.op, name |-> c.name, arg |-> c.arg, versions |-> c.versions,
         copy |-> c.copy, secrets |-> c.secrets, fresh |-> c.fresh, obsolete |-> c.obsolete,
         stamp |-> c.stamp]

IsConfig(cfg) == cfg = [n \in Names |-> cfg[n]] /\ \A n \in Names : IsBackend(cfg[n])

Phases == {"idle", "remote", "load", "secret", "write", "rename", "delete"}

(* A process that writes has stored the credentials its copy needs, or is  *)
(* about to; the ones it would take back are not needed by the file, and   *)
(* the ones it will delete are not needed by its copy, or by the file once *)
(* the copy has replaced it.                                               *)
Prepared(c) ==
    /\ c.pc \in {"secret", "write", "rename"} =>
        /\ IsConfig(c.copy)
        /\ \A n \in Names : c.copy[n].kind = "vault" => n \in vault \cup c.secrets
        /\ c.pc # "secret" => c.secrets = {}
        /\ \A n \in Names \cap c.fresh : file[n].kind # "vault"
        /\ \A n \in Names \cap c.obsolete : c.copy[n].kind # "vault"
        /\ c.op = "host" => c.obsolete = {}
    /\ c.pc = "delete" =>
        /\ c.op # "host"
        /\ \A n \in Names \cap c.obsolete : file[n].kind # "vault"

Writers == Procs \cup {Sync}

CredentialInv ==
    /\ CredentialsCover
    /\ IsConfig(file)
    /\ proc = [p \in Writers |-> proc[p]]
    /\ \A p \in Writers :
        /\ IsCommand(proc[p]) /\ proc[p].pc \in Phases
        /\ proc[p].pc \in {"remote", "load"} => proc[p].op \in Commands \cup {"sync"}
        /\ proc[p].pc \in {"remote", "load"} => proc[p].fresh = {}
        /\ Prepared(proc[p])
    /\ \A p, q \in Writers : Writing(p) /\ Writing(q) => p = q

-----------------------------------------------------------------------------
(* What a command makes of its copy *)

(* A backend of the copy needs a credential only if it did in the file, if *)
(* it is the one an `add` names, or if it is one a `host` has enabled.     *)
Asks(cfg, new, c) ==
    /\ IsConfig(new)
    /\ \A n \in Names : new[n].kind = "vault" =>
          \/ cfg[n].kind = "vault"
          \/ c.op = "add" /\ n = c.name
          \/ c.op = "host" /\ new[n].enabled

(* The fields of a backend with one of them replaced. *)
LEMMA OneField ==
    ASSUME NEW b, IsBackend(b), NEW x
    PROVE  /\ IsBackend([b EXCEPT !.enabled = x]) /\ [b EXCEPT !.enabled = x].kind = b.kind
           /\ IsBackend([b EXCEPT !.version = x]) /\ [b EXCEPT !.version = x].kind = b.kind
           /\ IsBackend([b EXCEPT !.offer = x]) /\ [b EXCEPT !.offer = x].kind = b.kind
           /\ IsBackend([b EXCEPT !.kind = x]) /\ [b EXCEPT !.kind = x].kind = x
           /\ [b EXCEPT !.enabled = x].enabled = x
BY DEF IsBackend

(* A configuration in which one backend has become b asks for what it did  *)
(* before, unless b needs a credential.                                    *)
LEMMA OneAsks ==
    ASSUME NEW cfg, IsConfig(cfg), NEW c, NEW m, NEW b, IsBackend(b), NEW new,
           new = [cfg EXCEPT ![m] = b],
           b.kind = "vault" => (m \in Names => cfg[m].kind = "vault")
                               \/ (c.op = "add" /\ m = c.name)
    PROVE  Asks(cfg, new, c)
<1>1. IsConfig(new) /\ \A n \in Names : (n = m => new[n] = b) /\ (n # m => new[n] = cfg[n])
  <2>1. cfg = [n \in Names |-> cfg[n]] /\ \A n \in Names : IsBackend(cfg[n])
    BY Zenon DEF IsConfig
  <2>2. new = [n \in Names |-> IF n = m THEN b ELSE cfg[n]]
    BY <2>1
  <2>3. \A n \in Names : (n = m => new[n] = b) /\ (n # m => new[n] = cfg[n])
    BY <2>2
  <2>4. new = [n \in Names |-> new[n]]
    BY <2>2
  <2>5. \A n \in Names : IsBackend(new[n])
    BY <2>1, <2>3
  <2>6. IsConfig(new)
    BY <2>4, <2>5, Zenon DEF IsConfig
  <2> QED BY <2>3, <2>6, Zenon
<1>2. ASSUME NEW n \in Names, new[n].kind = "vault"
      PROVE  cfg[n].kind = "vault" \/ (c.op = "add" /\ n = c.name)
  <2>1. CASE n = m
    <3>1. b.kind = "vault"
      BY <1>1, <1>2, <2>1, Zenon
    <3> QED BY <1>2, <2>1, <3>1, Zenon
  <2>2. CASE n # m
    BY <1>1, <1>2, <2>2, Zenon
  <2> QED BY <2>1, <2>2, Zenon
<1> QED BY <1>1, <1>2, Zenon DEF Asks

(* `start` and `stop`, and the versions of `version` and `publish`. *)
LEMMA SwitchAsks ==
    ASSUME NEW cfg, IsConfig(cfg), NEW c, NEW n, NEW x, NEW new,
           new \in Switch(cfg, n, x) \/ new \in SetVersion(cfg, n, x)
    PROVE  Asks(cfg, new, c)
<1>1. CASE new \in Switch(cfg, n, x)
  <2>1. PICK m \in {n} \cap Configured(cfg) : new = [cfg EXCEPT ![m].enabled = x]
    BY <1>1, Zenon DEF Switch
  <2>2. m \in Names /\ IsBackend(cfg[m])
    BY <2>1, Zenon DEF Configured, IsConfig
  <2>3. new = [cfg EXCEPT ![m] = [cfg[m] EXCEPT !.enabled = x]]
    BY <2>1
  <2>4. /\ IsBackend([cfg[m] EXCEPT !.enabled = x])
        /\ [cfg[m] EXCEPT !.enabled = x].kind = cfg[m].kind
    BY <2>2, OneField, Zenon
  <2> QED BY <2>2, <2>3, <2>4, OneAsks, Zenon
<1>2. CASE new \in SetVersion(cfg, n, x)
  <2>1. PICK m \in {n} \cap Configured(cfg) : new = [cfg EXCEPT ![m].version = x]
    BY <1>2, Zenon DEF SetVersion
  <2>2. m \in Names /\ IsBackend(cfg[m])
    BY <2>1, Zenon DEF Configured, IsConfig
  <2>3. new = [cfg EXCEPT ![m] = [cfg[m] EXCEPT !.version = x]]
    BY <2>1
  <2>4. /\ IsBackend([cfg[m] EXCEPT !.version = x])
        /\ [cfg[m] EXCEPT !.version = x].kind = cfg[m].kind
    BY <2>2, OneField, Zenon
  <2> QED BY <2>2, <2>3, <2>4, OneAsks, Zenon
<1> QED BY <1>1, <1>2, Zenon

(* `add`, `remove` and `host` with one model. *)
LEMMA AddAsks ==
    ASSUME NEW cfg, IsConfig(cfg), NEW c, NEW kind, NEW v, NEW new,
           (c.op = "add" /\ new \in Add(cfg, c.name, kind, v))
             \/ new \in RemoveBackend(cfg, c.name)
             \/ new \in Local(cfg, c.name)
    PROVE  Asks(cfg, new, c)
<1>1. CASE c.op = "add" /\ new \in Add(cfg, c.name, kind, v)
  <2> DEFINE same == cfg[c.name].kind = kind
             item == [kind |-> kind, enabled |-> TRUE,
                      offer |-> IF same THEN cfg[c.name].offer ELSE None,
                      version |-> IF same /\ (cfg[c.name].offer # None \/ v = 0)
                                    THEN cfg[c.name].version ELSE v]
  <2>1. new = [cfg EXCEPT ![c.name] = item]
    BY <1>1 DEF Add
  <2>2. IsBackend(item)
    BY DEF IsBackend
  <2> HIDE DEF item
  <2> QED BY <1>1, <2>1, <2>2, OneAsks, Zenon
<1>2. CASE new \in RemoveBackend(cfg, c.name)
  <2>1. PICK m \in {c.name} \cap Configured(cfg) : new = [cfg EXCEPT ![m] = Absent]
    BY <1>2, Zenon DEF RemoveBackend
  <2>2. IsBackend(Absent) /\ Absent.kind # "vault"
    BY HostAssumption DEF IsBackend, Absent, Kinds
  <2> QED BY <2>1, <2>2, OneAsks, Zenon
<1>3. CASE new \in Local(cfg, c.name)
  <2>1. new = [cfg EXCEPT ![c.name].kind = "native", ![c.name].enabled = TRUE]
    BY <1>3, Zenon DEF Local
  <2>2. CASE c.name \in Names
    <3> DEFINE b == [[cfg[c.name] EXCEPT !.kind = "native"] EXCEPT !.enabled = TRUE]
    <3>1. IsBackend(cfg[c.name])
      BY <2>2, Zenon DEF IsConfig
    <3>2. IsBackend(b) /\ b.kind = "native"
      <4>1. IsBackend([cfg[c.name] EXCEPT !.kind = "native"])
            /\ [cfg[c.name] EXCEPT !.kind = "native"].kind = "native"
        BY <3>1, OneField, Zenon
      <4> QED BY <4>1, OneField, Zenon
    <3>3. cfg = [n \in Names |-> cfg[n]]
      BY Zenon DEF IsConfig
    <3>4. new = [cfg EXCEPT ![c.name] = b]
      BY <2>1, <2>2, <3>3
    <3>5. b.kind # "vault"
      BY <3>2
    <3> HIDE DEF b
    <3> QED BY <3>2, <3>4, <3>5, OneAsks, Zenon
  <2>3. CASE c.name \notin Names
    <3>1. cfg = [n \in Names |-> cfg[n]]
      BY Zenon DEF IsConfig
    <3>2. new = cfg
      BY <2>1, <2>3, <3>1
    <3> QED BY <3>2, Zenon DEF Asks
  <2> QED BY <2>2, <2>3, Zenon
<1> QED BY <1>1, <1>2, <1>3, Zenon

(* `offer attach`. *)
LEMMA AttachAsks ==
    ASSUME NEW cfg, IsConfig(cfg), NEW c, NEW n, NEW o, NEW new, new \in Attach(cfg, n, o)
    PROVE  Asks(cfg, new, c)
<1>1. PICK m \in {n} \cap Configured(cfg) :
        new = [cfg EXCEPT ![m].offer = o, ![m].version = Len(wallet[o])]
  BY Zenon DEF Attach
<1>2. m \in Names /\ IsBackend(cfg[m]) /\ cfg = [k \in Names |-> cfg[k]]
  BY <1>1, Zenon DEF Configured, IsConfig
<1> DEFINE b == [[cfg[m] EXCEPT !.offer = o] EXCEPT !.version = Len(wallet[o])]
<1>3. IsBackend(b) /\ b.kind = cfg[m].kind
  <2>1. IsBackend([cfg[m] EXCEPT !.offer = o]) /\ [cfg[m] EXCEPT !.offer = o].kind = cfg[m].kind
    BY <1>2, OneField, Zenon
  <2> QED BY <2>1, OneField, Zenon
<1>4. new = [cfg EXCEPT ![m] = b]
  BY <1>1, <1>2
<1> HIDE DEF b
<1> QED BY <1>2, <1>3, <1>4, OneAsks, Zenon

(* A `host` that places one more model: what now needs a credential is     *)
(* enabled.                                                                *)
LEMMA PlaceAsks ==
    ASSUME NEW cfg, NEW d, NEW c, c.op = "host", Asks(cfg, d, c), NEW n, NEW kind
    PROVE  Asks(cfg, Place(d, n, kind), c)
<1> DEFINE free == Names \ Configured(d)
           name == CHOOSE m \in (IF d[n].kind = kind \/ n \in free THEN {n} ELSE free) : TRUE
           new == [d EXCEPT ![name].kind = kind, ![name].enabled = TRUE]
<1>1. Place(d, n, kind) = d \/ Place(d, n, kind) = new
  BY Zenon DEF Place
<1> HIDE DEF name
<1>2. d = [k \in Names |-> d[k]] /\ \A k \in Names : IsBackend(d[k])
  BY Zenon DEF Asks, IsConfig
<1>3. CASE name \in Names
  <2> DEFINE b == [[d[name] EXCEPT !.kind = kind] EXCEPT !.enabled = TRUE]
  <2>1. IsBackend([d[name] EXCEPT !.kind = kind])
    BY <1>2, <1>3, OneField, Zenon
  <2>2. IsBackend(b) /\ b.enabled = TRUE
    BY <2>1, OneField, Zenon
  <2>3. new = [k \in Names |-> IF k = name THEN b ELSE d[k]]
    BY <1>2, <1>3
  <2> HIDE DEF b, new
  <2>4. \A k \in Names : (k = name => new[k] = b) /\ (k # name => new[k] = d[k])
    BY <2>3
  <2>5. new = [k \in Names |-> new[k]]
    BY <2>3
  <2>6. \A k \in Names : IsBackend(new[k])
    BY <1>2, <2>2, <2>4, Zenon
  <2>7. ASSUME NEW k \in Names, new[k].kind = "vault"
        PROVE  cfg[k].kind = "vault" \/ new[k].enabled
    <3>1. CASE k = name
      BY <2>2, <2>4, <3>1, Zenon
    <3>2. CASE k # name
      BY <2>4, <2>7, <3>2 DEF Asks
    <3> QED BY <3>1, <3>2, Zenon
  <2>8. Asks(cfg, new, c)
    BY <2>5, <2>6, <2>7, Zenon DEF Asks, IsConfig
  <2> QED BY <1>1, <2>8, Zenon
<1>4. CASE name \notin Names
  <2>1. new = d
    BY <1>2, <1>4
  <2> QED BY <1>1, <2>1, Zenon
<1> QED BY <1>3, <1>4, Zenon

(* `host` with a selection. *)
LEMMA ApplyAsks ==
    ASSUME NEW cfg, IsConfig(cfg), NEW c, c.op = "host", NEW selection, NEW kind, NEW new,
           new \in Apply(cfg, selection, kind)
    PROVE  Asks(cfg, new, c)
<1> DEFINE off == [n \in Names |-> [cfg[n] EXCEPT !.enabled = FALSE]]
           first == Place(off, selection[1], kind)
<1>1. \A n \in Names : IsBackend(off[n]) /\ off[n].kind = cfg[n].kind
  <2> TAKE n \in Names
  <2>1. IsBackend(cfg[n])
    BY Zenon DEF IsConfig
  <2>2. off[n] = [cfg[n] EXCEPT !.enabled = FALSE]
    OBVIOUS
  <2> QED BY <2>1, <2>2, OneField, Zenon
<1>2. new = first \/ new = Place(first, selection[2], kind)
  BY Zenon DEF Apply
<1>3. off = [n \in Names |-> off[n]]
  OBVIOUS
<1> HIDE DEF off
<1>4. Asks(cfg, off, c)
  BY <1>1, <1>3, Zenon DEF Asks, IsConfig
<1>5. Asks(cfg, first, c)
  BY <1>4, PlaceAsks, Zenon
<1> HIDE DEF first
<1>6. Asks(cfg, Place(first, selection[2], kind), c)
  BY <1>5, PlaceAsks, Zenon
<1> QED BY <1>2, <1>5, <1>6, Zenon

(* The daemon's version sync. *)
LEMMA SyncAsks ==
    ASSUME NEW cfg, IsConfig(cfg), NEW c, NEW versions, NEW new,
           new \in SyncVersions(cfg, versions)
    PROVE  Asks(cfg, new, c)
<1> DEFINE v(n) == IF n \in Configured(cfg) THEN versions[EffectiveOfferID(cfg, n)] ELSE 0
<1>1. new = [n \in Names |-> IF v(n) > 0 THEN [cfg[n] EXCEPT !.version = v(n)] ELSE cfg[n]]
  BY Zenon DEF SyncVersions
<1> HIDE DEF v
<1>2. new = [n \in Names |-> new[n]]
  BY <1>1
<1>3. \A n \in Names : new[n] = cfg[n] \/ new[n] = [cfg[n] EXCEPT !.version = v(n)]
  BY <1>1
<1>4. \A n \in Names : IsBackend(new[n]) /\ new[n].kind = cfg[n].kind
  <2> TAKE n \in Names
  <2>1. IsBackend(cfg[n])
    BY Zenon DEF IsConfig
  <2>2. /\ IsBackend([cfg[n] EXCEPT !.version = v(n)])
        /\ [cfg[n] EXCEPT !.version = v(n)].kind = cfg[n].kind
    BY <2>1, OneField, Zenon
  <2>3. CASE new[n] = cfg[n]
    BY <2>1, <2>3, Zenon
  <2>4. CASE new[n] = [cfg[n] EXCEPT !.version = v(n)]
    BY <2>2, <2>4
  <2> QED BY <1>3, <2>3, <2>4, Zenon
<1> QED BY <1>2, <1>4, Zenon DEF Asks, IsConfig

(* Whatever a command or the sync makes of the file it loaded.             *)
LEMMA EditsAsk ==
    ASSUME NEW c, NEW p, c = proc[p], c.op \in Commands \cup {"sync"}, IsConfig(file),
           NEW new, new \in Edits(p, file)
    PROVE  Asks(file, new, c)
<1>1. CASE c.op = "add"
  <2>1. new \in Add(file, c.name, c.arg, 0)
    BY <1>1 DEF Edits
  <2> QED BY <1>1, <2>1, AddAsks, Zenon
<1>2. CASE c.op = "start"
  <2>1. new \in Switch(file, c.name, TRUE)
    BY <1>2 DEF Edits
  <2> QED BY <2>1, SwitchAsks, Zenon
<1>3. CASE c.op = "stop"
  <2>1. new \in Switch(file, c.name, FALSE)
    BY <1>3 DEF Edits
  <2> QED BY <2>1, SwitchAsks, Zenon
<1>4. CASE c.op = "remove"
  <2>1. new \in RemoveBackend(file, c.name)
    BY <1>4 DEF Edits
  <2> QED BY <2>1, AddAsks, Zenon
<1>5. CASE c.op = "version"
  <2>1. new \in SetVersion(file, c.name, 1)
    BY <1>5 DEF Edits
  <2> QED BY <2>1, SwitchAsks, Zenon
<1>6. CASE c.op = "attach"
  <2>1. new \in Attach(file, c.name, c.arg)
    BY <1>6 DEF Edits
  <2> QED BY <2>1, AttachAsks, Zenon
<1>7. CASE c.op = "publish"
  <2>1. new \in SetVersion(file, c.name, c.versions[c.arg])
    BY <1>7 DEF Edits
  <2> QED BY <2>1, SwitchAsks, Zenon
<1>8. CASE c.op = "local"
  <2>1. new \in Local(file, c.name)
    BY <1>8 DEF Edits
  <2> QED BY <2>1, AddAsks, Zenon
<1>9. CASE c.op = "host"
  <2>1. new \in Apply(file, c.name, c.arg)
    BY <1>9 DEF Edits
  <2> QED BY <1>9, <2>1, ApplyAsks, Zenon
<1>10. CASE c.op = "sync"
  <2>1. new \in SyncVersions(file, c.versions)
    BY <1>10 DEF Edits
  <2> QED BY <2>1, SyncAsks, Zenon
<1> QED BY <1>1, <1>2, <1>3, <1>4, <1>5, <1>6, <1>7, <1>8, <1>9, <1>10, Zenon DEF Commands

-----------------------------------------------------------------------------
(* The steps of a process *)

(* A backend of the file that needs a credential has one. *)
LEMMA Covered ==
    CredentialsCover <=> \A n \in Names : file[n].kind = "vault" => n \in vault
BY HostAssumption DEF CredentialsCover, Configured, Kinds

(* A step of one process: the others keep what they promised, because the  *)
(* file and the vault are as they were or none of the others is writing.   *)
LEMMA OneCommand ==
    ASSUME CredentialInv, NEW p \in Writers, NEW c, IsCommand(c), c.pc \in Phases,
           c.pc \in {"remote", "load"} => c.op \in Commands \cup {"sync"} /\ c.fresh = {},
           proc' = [proc EXCEPT ![p] = c],
           Prepared(c)', CredentialsCover', IsConfig(file'),
           Writing(p) \/ (file' = file /\ vault' = vault),
           c.pc \in {"secret", "write", "rename", "delete"}
             => \A q \in Writers : Writing(q) => q = p
    PROVE  CredentialInv'
<1>1. /\ proc = [q \in Writers |-> proc[q]]
      /\ \A q \in Writers :
          /\ IsCommand(proc[q]) /\ proc[q].pc \in Phases
          /\ proc[q].pc \in {"remote", "load"} => proc[q].op \in Commands \cup {"sync"}
          /\ proc[q].pc \in {"remote", "load"} => proc[q].fresh = {}
          /\ Prepared(proc[q])
      /\ \A q, r \in Writers : Writing(q) /\ Writing(r) => q = r
  BY Zenon DEF CredentialInv
<1>2. proc' = [q \in Writers |-> IF q = p THEN c ELSE proc[q]]
  BY <1>1
<1>3. proc' = [q \in Writers |-> proc'[q]]
  BY <1>2
<1>4. proc'[p] = c /\ \A q \in Writers \ {p} : proc'[q] = proc[q]
  BY <1>2
<1>5. ASSUME NEW q \in Writers
      PROVE  /\ IsCommand(proc'[q]) /\ proc'[q].pc \in Phases
             /\ proc'[q].pc \in {"remote", "load"} => proc'[q].op \in Commands \cup {"sync"}
             /\ proc'[q].pc \in {"remote", "load"} => proc'[q].fresh = {}
             /\ Prepared(proc[q])'
  <2>1. CASE q = p
    <3>1. Prepared(proc[p])'
      BY <1>4 DEF Prepared
    <3> QED BY <1>4, <2>1, <3>1, Zenon
  <2>2. CASE q # p
    <3>1. proc'[q] = proc[q]
      BY <1>4, <2>2, Zenon
    <3>2. Prepared(proc[q])'
      <4>1. CASE Writing(p)
        <5>1. proc[q].pc \notin {"secret", "write", "rename", "delete"}
          BY <1>1, <2>2, <4>1, Zenon DEF Writing
        <5> QED BY <3>1, <5>1 DEF Prepared
      <4>2. CASE file' = file /\ vault' = vault
        <5>1. Prepared(proc[q])
          BY <1>1, Zenon
        <5> QED BY <3>1, <4>2, <5>1, Zenon DEF Prepared
      <4> QED BY <4>1, <4>2, Zenon
    <3> QED BY <1>1, <3>1, <3>2, Zenon
  <2> QED BY <2>1, <2>2, Zenon
<1>6. ASSUME NEW q \in Writers, NEW r \in Writers, Writing(q)', Writing(r)'
      PROVE  q = r
  <2>1. \A s \in Writers : Writing(s)' => s = p \/ Writing(s)
    BY <1>4, Zenon DEF Writing
  <2>2. c.pc \in {"secret", "write", "rename", "delete"} => \A s \in Writers : Writing(s)' => s = p
    BY <2>1, Zenon
  <2>3. c.pc \notin {"secret", "write", "rename", "delete"} => ~ Writing(p)'
    BY <1>4, Zenon DEF Writing
  <2> QED BY <1>1, <1>6, <2>1, <2>2, <2>3, Zenon
<1> QED BY <1>3, <1>5, <1>6, Zenon DEF CredentialInv

(* A process that is done promises nothing. *)
LEMMA IdleIsReady ==
    IsCommand(Idle) /\ Idle.pc \in Phases /\ Prepared(Idle)' /\ Idle.pc = "idle"
BY DEF IsCommand, Idle, Phases, Prepared

(* A process that stops, with the file and the vault covering each other.  *)
LEMMA Stops ==
    ASSUME CredentialInv, NEW p \in Writers, proc' = [proc EXCEPT ![p] = Idle],
           CredentialsCover', IsConfig(file'),
           Writing(p) \/ (file' = file /\ vault' = vault)
    PROVE  CredentialInv'
<1>1. PICK c : c = Idle
  OBVIOUS
<1>2. IsCommand(c) /\ c.pc = "idle" /\ c.pc \in Phases
  BY <1>1, IdleIsReady, Zenon
<1>3. Prepared(c)'
  BY <1>2 DEF Prepared
<1>4. proc' = [proc EXCEPT ![p] = c]
  BY <1>1
<1>5. c.pc \notin {"remote", "load", "secret", "write", "rename", "delete"}
  BY <1>2
<1> QED BY <1>2, <1>3, <1>4, <1>5, OneCommand, Zenon

(* The parts of the invariant that one process and the file are about. *)
LEMMA OfOne ==
    ASSUME CredentialInv, NEW p \in Writers
    PROVE  /\ proc = [q \in Writers |-> proc[q]]
           /\ IsCommand(proc[p]) /\ Prepared(proc[p])
           /\ proc[p].pc \in {"remote", "load"} => proc[p].op \in Commands \cup {"sync"}
           /\ proc[p].pc \in {"remote", "load"} => proc[p].fresh = {}
           /\ \A q \in Writers : Writing(p) /\ Writing(q) => q = p
           /\ CredentialsCover /\ IsConfig(file)
           /\ \A n \in Names : file[n].kind = "vault" => n \in vault
BY Covered, Zenon DEF CredentialInv

(* A process begins, with a command or with a sync. *)
LEMMA Begins ==
    ASSUME CredentialInv, NEW p \in Writers, NEW c, proc' = [proc EXCEPT ![p] = c],
           UNCHANGED <<file, vault>>, IsCommand(c), c.pc \in {"remote", "load"},
           c.op \in Commands \cup {"sync"}, c.fresh = {}
    PROVE  CredentialInv'
<1>1. c.pc \in Phases /\ c.pc \notin {"secret", "write", "rename", "delete"}
  BY DEF Phases
<1>2. Prepared(c)'
  BY <1>1 DEF Prepared
<1>3. CredentialsCover' /\ IsConfig(file') /\ file' = file /\ vault' = vault
  BY OfOne DEF CredentialsCover, IsConfig, Configured
<1> QED BY <1>1, <1>2, <1>3, OneCommand, Zenon

(* A command is given. *)
LEMMA RunKeeps ==
    ASSUME CredentialInv, NEW p \in Procs, NEW op \in Ops, Run(p, op)
    PROVE  CredentialInv'
<1>1. p \in Writers /\ op \in Commands
  BY HostAssumption, Zenon DEF Writers
<1>2. PICK a \in Arguments(op) :
        proc' = [proc EXCEPT ![p] = [Idle EXCEPT !.op = op, !.name = a[1],
              !.arg = IF op = "publish" THEN EffectiveOfferID(file, a[1]) ELSE a[2],
              !.versions = IF op = "publish" THEN file[a[1]].kind ELSE None,
              !.pc = IF op = "publish" THEN "remote" ELSE "load"]]
  BY Zenon DEF Run
<1>3. PICK x, y, z : /\ x = IF op = "publish" THEN EffectiveOfferID(file, a[1]) ELSE a[2]
                     /\ y = IF op = "publish" THEN file[a[1]].kind ELSE None
                     /\ z = IF op = "publish" THEN "remote" ELSE "load"
  OBVIOUS
<1>4. PICK c : c = [Idle EXCEPT !.op = op, !.name = a[1], !.arg = x, !.versions = y, !.pc = z]
  OBVIOUS
<1>5. IsCommand(c) /\ c.op = op /\ c.pc = z /\ c.fresh = {}
  BY <1>4 DEF IsCommand, Idle
<1>6. z \in {"remote", "load"}
  BY <1>3
<1>7. proc' = [proc EXCEPT ![p] = c]
  BY <1>2, <1>3, <1>4, Zenon
<1>8. UNCHANGED <<file, vault>>
  BY DEF Run
<1> QED BY <1>1, <1>5, <1>6, <1>7, <1>8, Begins, Zenon

(* The daemon asks the server for the versions of its offers. *)
LEMMA SyncBegins ==
    ASSUME CredentialInv, watchOfferVersions
    PROVE  CredentialInv'
<1>1. PICK v : v = MachineOfferVersions
  OBVIOUS
<1>2. PICK c : c = [Idle EXCEPT !.op = "sync", !.pc = "load", !.versions = v]
  OBVIOUS
<1>3. proc' = [proc EXCEPT ![Sync] = c]
  BY <1>1, <1>2, Zenon DEF watchOfferVersions
<1>4. IsCommand(c) /\ c.op = "sync" /\ c.pc = "load" /\ c.fresh = {}
  BY <1>2 DEF IsCommand, Idle
<1>5. Sync \in Writers
  BY DEF Writers
<1>6. UNCHANGED <<file, vault>>
  BY DEF watchOfferVersions
<1> QED BY <1>3, <1>4, <1>5, <1>6, Begins, Zenon

(* The wallet publishes, and the command goes on to load the file. *)
LEMMA PublishKeeps ==
    ASSUME CredentialInv, NEW p \in Writers, Publish(p)
    PROVE  CredentialInv'
<1>1. PICK v : v = [o \in Names |-> Len(wallet'[o])]
  OBVIOUS
<1>2. PICK c : c = proc[p]
  OBVIOUS
<1>3. PICK d : d = [[c EXCEPT !.pc = "load"] EXCEPT !.versions = v]
  OBVIOUS
<1>4. IsCommand(c) /\ c.op \in Commands \cup {"sync"} /\ c.fresh = {}
  BY <1>2, OfOne DEF Publish
<1>5. IsCommand(d) /\ d.op = c.op /\ d.pc = "load" /\ d.fresh = {}
  BY <1>3, <1>4 DEF IsCommand
<1>6. proc = [q \in Writers |-> proc[q]]
  BY OfOne, Zenon
<1>7. proc' = [proc EXCEPT ![p].pc = "load", ![p].versions = v]
  BY <1>1, Zenon DEF Publish
<1>8. proc' = [proc EXCEPT ![p] = d]
  BY <1>2, <1>3, <1>6, <1>7
<1>9. UNCHANGED <<file, vault>>
  BY DEF Publish
<1> QED BY <1>4, <1>5, <1>8, <1>9, Begins, Zenon

(* The copy of a command that is about to write needs the credentials the  *)
(* file needed and the ones it will store itself.                          *)
LEMMA LoadKeeps ==
    ASSUME CredentialInv, ~Overlap, NEW p \in Writers, Load(p)
    PROVE  CredentialInv'
<1>1. PICK c : c = proc[p]
  OBVIOUS
<1>2. /\ IsCommand(c) /\ c.op \in Commands \cup {"sync"} /\ c.fresh = {}
      /\ proc = [q \in Writers |-> proc[q]] /\ IsConfig(file)
      /\ \A n \in Names : file[n].kind = "vault" => n \in vault
  BY <1>1, OfOne DEF Load
<1>3. file' = file /\ vault' = vault
  BY DEF Load
<1>4. CredentialsCover' /\ IsConfig(file')
  BY <1>3, OfOne DEF CredentialsCover, IsConfig, Configured
<1>5. CASE Edits(p, file) = {}
  <2>1. proc' = [proc EXCEPT ![p] = Idle]
    BY <1>5, Zenon DEF Load
  <2> QED BY <1>3, <1>4, <2>1, Stops, Zenon
<1>6. CASE Edits(p, file) # {}
  <2> DEFINE target(new) == IF c.op = "host" THEN Enabled(new)
                            ELSE IF c.op = "add" THEN {c.name} ELSE {}
             secret(new) == {n \in target(new) : new[n].kind = "vault"}
             left(new) == IF c.op \notin {"add", "remove"} THEN {}
                          ELSE {n \in {c.name} : file[n].kind = "vault" /\ new[n].kind # "vault"}
             pc(new) == IF secret(new) = {} THEN "write" ELSE "secret"
  <2>1. PICK new \in Edits(p, file) :
          proc' = [proc EXCEPT ![p] = [c EXCEPT !.copy = new, !.secrets = secret(new),
                        !.pc = pc(new), !.obsolete = left(new)]]
    BY <1>1, <1>6, Zenon DEF Load
  <2>2. Asks(file, new, c)
    BY <1>1, <1>2, <2>1, EditsAsk, Zenon
  <2>3. \A n \in Names : new[n].kind = "vault" => n \in vault \cup secret(new)
    <3>1. SUFFICES ASSUME NEW n \in Names, new[n].kind = "vault", n \notin vault
                   PROVE  n \in target(new)
      BY <3>1, Zenon
    <3>2. CASE c.op = "add" /\ n = c.name
      BY <3>2
    <3>3. CASE c.op = "host" /\ new[n].enabled
      <4>1. n \in Enabled(new)
        BY <3>1, <3>3, HostAssumption, Zenon DEF Enabled, Configured, Kinds
      <4> QED BY <3>3, <4>1, Zenon
    <3> QED BY <1>2, <2>2, <3>1, <3>2, <3>3, Zenon DEF Asks
  <2>4. \A n \in left(new) : new[n].kind # "vault"
    BY Zenon
  <2>5. c.op = "host" => left(new) = {}
    OBVIOUS
  <2>6. (pc(new) = "write" /\ secret(new) = {}) \/ pc(new) = "secret"
    BY Zenon
  <2>7. PICK s, o, w : s = secret(new) /\ o = left(new) /\ w = pc(new)
    BY Zenon
  <2> HIDE DEF target, secret, left, pc
  <2>8. PICK d : d = [c EXCEPT !.copy = new, !.secrets = s, !.pc = w, !.obsolete = o]
    OBVIOUS
  <2>9. proc' = [proc EXCEPT ![p] = d]
    BY <2>1, <2>7, <2>8, Zenon
  <2>10. /\ IsCommand(d) /\ d.op = c.op /\ d.fresh = {}
         /\ d.copy = new /\ d.secrets = s /\ d.pc = w /\ d.obsolete = o
    BY <1>2, <2>8 DEF IsCommand
  <2>11. (w = "write" /\ s = {}) \/ w = "secret"
    BY <2>6, <2>7, Zenon
  <2>12. d.pc \in Phases /\ d.pc \notin {"remote", "load"} /\ d.pc # "delete"
    BY <2>10, <2>11 DEF Phases
  <2>13. Prepared(d)'
    <3>1. IsConfig(d.copy) /\ \A n \in Names : d.copy[n].kind = "vault" => n \in vault' \cup d.secrets
      BY <1>3, <2>2, <2>3, <2>7, <2>10, Zenon DEF Asks
    <3>2. (d.pc # "secret" => d.secrets = {}) /\ \A n \in Names \cap d.fresh : file'[n].kind # "vault"
      BY <2>10, <2>11, Zenon
    <3>3. (\A n \in Names \cap d.obsolete : d.copy[n].kind # "vault") /\ (d.op = "host" => d.obsolete = {})
      BY <2>4, <2>5, <2>7, <2>10, Zenon
    <3> QED BY <2>12, <3>1, <3>2, <3>3, Zenon DEF Prepared
  <2>14. DOMAIN proc = Writers
    BY <1>2
  <2>15. \A q \in Writers : Writing(q) => q = p
    BY <2>14, Zenon DEF Load
  <2> QED BY <1>3, <1>4, <2>9, <2>10, <2>12, <2>13, <2>15, OneCommand, Zenon
<1> QED BY <1>5, <1>6, Zenon

(* Storing a credential: one that was not there is not needed by the file. *)
LEMMA SaveKeeps ==
    ASSUME CredentialInv, NEW p \in Writers, SaveCredential(p)
    PROVE  CredentialInv'
<1>1. PICK c : c = proc[p]
  OBVIOUS
<1>2. /\ IsCommand(c) /\ c.pc = "secret" /\ Prepared(c) /\ Writing(p)
      /\ proc = [q \in Writers |-> proc[q]] /\ IsConfig(file)
      /\ \A q \in Writers : Writing(q) => q = p
      /\ \A n \in Names : file[n].kind = "vault" => n \in vault
  BY <1>1, OfOne DEF SaveCredential, Writing
<1>3. PICK n \in c.secrets :
        /\ vault' = vault \cup {n}
        /\ proc' = [proc EXCEPT ![p].secrets = @ \ {n}, ![p].fresh = @ \cup ({n} \ vault),
                        ![p].pc = IF proc[p].secrets = {n} THEN "write" ELSE "secret"]
  BY <1>1, Zenon DEF SaveCredential
<1>4. file' = file
  BY DEF SaveCredential
<1>5. PICK s, f, w : s = c.secrets \ {n} /\ f = c.fresh \cup ({n} \ vault)
                     /\ w = IF c.secrets = {n} THEN "write" ELSE "secret"
  OBVIOUS
<1>6. PICK d : d = [[[c EXCEPT !.secrets = s] EXCEPT !.fresh = f] EXCEPT !.pc = w]
  OBVIOUS
<1>7. proc' = [proc EXCEPT ![p] = d]
  BY <1>1, <1>2, <1>3, <1>5, <1>6
<1>8. /\ IsCommand(d) /\ d.op = c.op /\ d.copy = c.copy /\ d.obsolete = c.obsolete
      /\ d.secrets = s /\ d.fresh = f /\ d.pc = w
  BY <1>2, <1>6 DEF IsCommand
<1>9. (w = "write" /\ s = {}) \/ w = "secret"
  BY <1>5
<1>10. d.pc \in Phases /\ d.pc \notin {"remote", "load"} /\ d.pc # "delete"
  BY <1>8, <1>9 DEF Phases
<1>11. Prepared(d)'
  <2>1. /\ IsConfig(c.copy)
        /\ \A m \in Names : c.copy[m].kind = "vault" => m \in vault \cup c.secrets
        /\ \A m \in Names \cap c.fresh : file[m].kind # "vault"
        /\ \A m \in Names \cap c.obsolete : c.copy[m].kind # "vault"
        /\ c.op = "host" => c.obsolete = {}
    BY <1>2, Zenon DEF Prepared
  <2>2. \A m \in Names : d.copy[m].kind = "vault" => m \in vault' \cup d.secrets
    BY <1>3, <1>5, <1>8, <2>1
  <2>3. \A m \in Names \cap d.fresh : file'[m].kind # "vault"
    BY <1>2, <1>4, <1>5, <1>8, <2>1
  <2>4. d.pc # "secret" => d.secrets = {}
    BY <1>8, <1>9, Zenon
  <2> QED BY <1>8, <1>10, <2>1, <2>2, <2>3, <2>4, Zenon DEF Prepared
<1>12. CredentialsCover' /\ IsConfig(file')
  BY <1>2, <1>3, <1>4 DEF CredentialsCover, Configured
<1> QED BY <1>2, <1>7, <1>8, <1>10, <1>11, <1>12, OneCommand, Zenon

(* The temporary file of config.Save changes neither file nor vault. *)
LEMMA WriteTempKeeps ==
    ASSUME CredentialInv, NEW p \in Writers, WriteTemp(p)
    PROVE  CredentialInv'
<1>1. PICK c, t : c = proc[p] /\ t = clock'
  OBVIOUS
<1>2. /\ IsCommand(c) /\ c.pc = "write" /\ Prepared(c) /\ Writing(p)
      /\ proc = [q \in Writers |-> proc[q]]
      /\ \A q \in Writers : Writing(q) => q = p
  BY <1>1, OfOne DEF WriteTemp, Writing
<1>3. file' = file /\ vault' = vault
  BY DEF WriteTemp
<1>4. CredentialsCover' /\ IsConfig(file')
  BY <1>3, OfOne DEF CredentialsCover, IsConfig, Configured
<1>5. PICK d : d = [[c EXCEPT !.pc = "rename"] EXCEPT !.stamp = t]
  OBVIOUS
<1>6. proc' = [proc EXCEPT ![p].pc = "rename", ![p].stamp = t]
  BY <1>1, Zenon DEF WriteTemp
<1>7. proc' = [proc EXCEPT ![p] = d]
  BY <1>1, <1>2, <1>5, <1>6
<1>8. /\ IsCommand(d) /\ d.op = c.op /\ d.copy = c.copy /\ d.obsolete = c.obsolete
      /\ d.secrets = c.secrets /\ d.fresh = c.fresh /\ d.pc = "rename"
  BY <1>2, <1>5 DEF IsCommand
<1>9. d.pc \in Phases /\ d.pc \notin {"remote", "load"}
  BY <1>8 DEF Phases
<1>10. Prepared(d)'
  <2>1. /\ IsConfig(c.copy) /\ c.secrets = {}
        /\ \A n \in Names : c.copy[n].kind = "vault" => n \in vault \cup c.secrets
        /\ \A n \in Names \cap c.fresh : file[n].kind # "vault"
        /\ \A n \in Names \cap c.obsolete : c.copy[n].kind # "vault"
        /\ c.op = "host" => c.obsolete = {}
    BY <1>2 DEF Prepared
  <2>2. d.pc # "delete"
    BY <1>8
  <2> QED BY <1>3, <1>8, <2>1, <2>2, Zenon DEF Prepared
<1> QED BY <1>2, <1>3, <1>4, <1>7, <1>8, <1>9, <1>10, OneCommand, Zenon

(* The copy replaces the file: the vault has what it needs, and what will  *)
(* be deleted is not needed by it.                                         *)
LEMMA RenameKeeps ==
    ASSUME CredentialInv, NEW p \in Writers, Rename(p)
    PROVE  CredentialInv'
<1>1. PICK c : c = proc[p]
  OBVIOUS
<1>2. /\ IsCommand(c) /\ c.pc = "rename" /\ Prepared(c) /\ Writing(p)
      /\ proc = [q \in Writers |-> proc[q]]
      /\ \A q \in Writers : Writing(q) => q = p
  BY <1>1, OfOne DEF Rename, Writing
<1>3. file' = c.copy /\ vault' = vault
  BY <1>1 DEF Rename
<1>4. /\ IsConfig(c.copy)
      /\ \A n \in Names : c.copy[n].kind = "vault" => n \in vault
      /\ \A n \in Names \cap c.obsolete : c.copy[n].kind # "vault"
      /\ c.op = "host" => c.obsolete = {}
  BY <1>2 DEF Prepared
<1>5. CredentialsCover' /\ IsConfig(file')
  BY <1>3, <1>4, Zenon DEF CredentialsCover, Configured
<1>6. CASE c.obsolete = {}
  <2>1. proc' = [proc EXCEPT ![p] = Idle]
    BY <1>1, <1>2, <1>6 DEF Rename
  <2> QED BY <1>2, <1>5, <2>1, Stops, Zenon
<1>7. CASE c.obsolete # {}
  <2>1. PICK d : d = [c EXCEPT !.pc = "delete"]
    OBVIOUS
  <2>2. proc' = [proc EXCEPT ![p] = d]
    BY <1>1, <1>2, <1>7, <2>1 DEF Rename
  <2>3. IsCommand(d) /\ d.op = c.op /\ d.obsolete = c.obsolete /\ d.pc = "delete"
    BY <1>2, <2>1 DEF IsCommand
  <2>4. d.pc \in Phases /\ d.pc \notin {"remote", "load", "secret", "write", "rename"}
    BY <2>3 DEF Phases
  <2>5. Prepared(d)'
    BY <1>3, <1>4, <1>7, <2>3, <2>4, Zenon DEF Prepared
  <2> QED BY <1>2, <1>5, <2>2, <2>3, <2>4, <2>5, OneCommand, Zenon
<1> QED BY <1>6, <1>7, Zenon

(* A credential that is deleted last is not needed by the file. *)
LEMMA DeleteKeeps ==
    ASSUME CredentialInv, NEW p \in Writers, DeleteCredential(p)
    PROVE  CredentialInv'
<1>1. /\ proc[p].pc = "delete" /\ Prepared(proc[p]) /\ Writing(p) /\ IsConfig(file)
      /\ \A n \in Names : file[n].kind = "vault" => n \in vault
  BY OfOne DEF DeleteCredential, Writing
<1>2. file' = file /\ vault' = vault \ proc[p].obsolete /\ proc' = [proc EXCEPT ![p] = Idle]
  BY DEF DeleteCredential
<1>3. \A n \in Names \cap proc[p].obsolete : file[n].kind # "vault"
  BY <1>1, Zenon DEF Prepared
<1>4. CredentialsCover' /\ IsConfig(file')
  BY <1>1, <1>2, <1>3, Zenon DEF CredentialsCover, Configured
<1> QED BY <1>1, <1>2, <1>4, Stops, Zenon

(* A command that is killed leaves the file and the vault as they are, and *)
(* one that rolls back takes nothing from the vault that the file needs.   *)
LEMMA FailsKeeps ==
    ASSUME CredentialInv, NEW p \in Writers, Fails(p)
    PROVE  CredentialInv'
<1>1. /\ Writing(p) /\ Prepared(proc[p]) /\ IsConfig(file)
      /\ \A n \in Names : file[n].kind = "vault" => n \in vault
  BY OfOne, Zenon DEF Fails
<1>2. file' = file /\ proc' = [proc EXCEPT ![p] = Idle]
  BY DEF Fails
<1>3. CASE vault' = vault
  <2>1. CredentialsCover' /\ IsConfig(file')
    BY <1>1, <1>2, <1>3, Zenon DEF CredentialsCover, Configured
  <2> QED BY <1>1, <1>2, <2>1, Stops, Zenon
<1>4. CASE proc[p].op = "host" /\ vault' = vault \ proc[p].fresh
  <2>1. proc[p].pc # "delete"
    BY <1>1, <1>4, Zenon DEF Prepared
  <2>2. \A n \in Names \cap proc[p].fresh : file[n].kind # "vault"
    BY <1>1, <2>1, Zenon DEF Prepared, Writing
  <2>3. CredentialsCover' /\ IsConfig(file')
    BY <1>1, <1>2, <1>4, <2>2, Zenon DEF CredentialsCover, Configured
  <2> QED BY <1>1, <1>2, <2>3, Stops, Zenon
<1> QED BY <1>3, <1>4, Zenon DEF Fails, Rollback

-----------------------------------------------------------------------------
(* The watcher writes nothing. *)
LEMMA WatchKeeps ==
    ASSUME CredentialInv, UNCHANGED <<file, vault, proc>>
    PROVE  CredentialInv'
BY DEF CredentialInv, CredentialsCover, Configured, IsConfig, IsCommand, Prepared, Writing

(* A configured backend that needs a credential has one: SaveCredential    *)
(* before the rename of config.Save, DeleteCredential after it, and the    *)
(* rollback of a failed `host` between them.  The commands must not        *)
(* overlap: two that write at once can undo each other's credentials.      *)
THEOREM CredentialsStayCovered ==
    ASSUME ~Overlap
    PROVE  Spec => []CredentialsCover
<1>1. Init => CredentialInv
  <2> SUFFICES ASSUME Init PROVE CredentialInv
    OBVIOUS
  <2>1. PICK b \in Names :
          file = [n \in Names |-> IF n = b THEN [Absent EXCEPT !.kind = "native",
                                    !.enabled = TRUE, !.version = 1] ELSE Absent]
    BY Zenon DEF Init
  <2>2. PICK x : x = [Absent EXCEPT !.kind = "native", !.enabled = TRUE, !.version = 1]
    OBVIOUS
  <2>3. file = [n \in Names |-> IF n = b THEN x ELSE Absent]
    BY <2>1, <2>2, Zenon
  <2>4. IsBackend(x) /\ x.kind = "native" /\ IsBackend(Absent) /\ Absent.kind = None
    BY <2>2 DEF IsBackend, Absent
  <2>5. x.kind # "vault" /\ Absent.kind # "vault"
    BY <2>4, HostAssumption DEF Kinds
  <2> HIDE DEF Absent
  <2>6. \A n \in Names : file[n] = x \/ file[n] = Absent
    BY <2>3
  <2>7. file = [n \in Names |-> file[n]]
    BY <2>3
  <2>8. IsConfig(file) /\ \A n \in Names : file[n].kind # "vault"
    <3>1. ASSUME NEW n \in Names PROVE IsBackend(file[n]) /\ file[n].kind # "vault"
      <4>1. CASE file[n] = x
        BY <2>4, <2>5, <4>1
      <4>2. CASE file[n] = Absent
        BY <2>4, <2>5, <4>2
      <4> QED BY <2>6, <4>1, <4>2, Zenon
    <3> QED BY <2>7, <3>1, Zenon DEF IsConfig
  <2>9. proc = [p \in Writers |-> Idle]
    BY Zenon DEF Init, Writers
  <2>10. proc = [p \in Writers |-> proc[p]] /\ \A p \in Writers : proc[p] = Idle
    BY <2>9
  <2>11. IsCommand(Idle) /\ Idle.pc \in Phases /\ Idle.pc = "idle"
    BY IdleIsReady, Zenon
  <2>12. ASSUME NEW p \in Writers
         PROVE  /\ IsCommand(proc[p]) /\ proc[p].pc \in Phases
                /\ proc[p].pc \notin {"remote", "load", "secret", "write", "rename", "delete"}
    <3>1. proc[p] = Idle
      BY <2>10, Zenon
    <3>2. proc[p].pc = "idle"
      BY <2>11, <3>1
    <3> QED BY <2>11, <3>1, <3>2
  <2>13. \A p \in Writers : Prepared(proc[p]) /\ ~ Writing(p)
    BY <2>12, Zenon DEF Prepared, Writing
  <2> QED BY <2>8, <2>10, <2>12, <2>13, Covered, Zenon DEF CredentialInv
<1>2. CredentialInv /\ [Next]_vars => CredentialInv'
  <2> SUFFICES ASSUME CredentialInv, [Next]_vars PROVE CredentialInv'
    OBVIOUS
  <2>1. ASSUME NEW p \in Procs, NEW op \in Ops, Run(p, op) PROVE CredentialInv'
    BY <2>1, RunKeeps, Zenon
  <2>2. ASSUME NEW p \in Writers, Work(p) \/ Fails(p) PROVE CredentialInv'
    BY <2>2, PublishKeeps, LoadKeeps, SaveKeeps, WriteTempKeeps, RenameKeeps, DeleteKeeps,
       FailsKeeps, Zenon DEF Work
  <2>3. CASE watchOfferVersions
    BY <2>3, SyncBegins, Zenon
  <2>4. CASE Watch
    <3>1. UNCHANGED <<file, vault, proc>>
      BY <2>4 DEF Watch, Stat, Reload, reloadBackends
    <3> QED BY <3>1, WatchKeeps, Zenon
  <2>5. CASE UNCHANGED vars
    <3>1. UNCHANGED <<file, vault, proc>>
      BY <2>5 DEF vars
    <3> QED BY <3>1, WatchKeeps, Zenon
  <2> QED BY <2>1, <2>2, <2>3, <2>4, <2>5, Zenon DEF Next, Writers
<1>3. CredentialInv => CredentialsCover
  BY Zenon DEF CredentialInv
<1> QED BY <1>1, <1>2, <1>3, PTL DEF Spec
=============================================================================
