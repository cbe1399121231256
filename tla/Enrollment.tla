----------------------------- MODULE Enrollment -----------------------------
(***************************************************************************)
(* Connecting a machine to an account: `login` generates a signer, asks    *)
(* for a device authorization, polls it while the browser approves it,     *)
(* and keeps the signer, the token and the configuration of the machine it *)
(* gets.  A second login with the same name reclaims the machine.  `serve` *)
(* reads the configuration, the token and the signer back, one by one.     *)
(* A login stands for the signer and the token it brought; the machine of  *)
(* an account for its id, since every login here uses the same name.       *)
(***************************************************************************)
EXTENDS Integers, FiniteSets

CONSTANTS
    Logins, Hosts, hostOf, Accounts,
    MaxFaults       \* bound: answers and writes that fail, processes killed

None == "none"

VARIABLES
    (* the server *)
    authz,          \* device_authorizations: stage, account, expired
    signerOf,       \* machines.signer_address, by account
    tokenOf,        \* machine_tokens.token_hash, by account
    (* a host *)
    login,          \* per login: where runLogin is
    signers, tokens,\* the credential vault: per host and machine
    config,         \* config.MachineID of the host
    serve,          \* per host: pc, machine, token and signer of runServe
    faults

serverVars == <<authz, signerOf, tokenOf>>
vars == <<authz, signerOf, tokenOf, login, signers, tokens, config, serve, faults>>

Idle == [pc |-> "off", machine |-> None, token |-> None, signer |-> None]

Init ==
    /\ authz = [l \in Logins |-> [stage |-> "none", account |-> None, expired |-> FALSE]]
    /\ signerOf = [a \in Accounts |-> None] /\ tokenOf = [a \in Accounts |-> None]
    /\ login = [l \in Logins |-> "start"]
    /\ signers = [h \in Hosts |-> [a \in Accounts |-> None]]
    /\ tokens = [h \in Hosts |-> [a \in Accounts |-> None]]
    /\ config = [h \in Hosts |-> None]
    /\ serve = [h \in Hosts |-> Idle]
    /\ faults = 0

Machine(l) == authz[l].account
Ended == {"start", "done", "failed"}

(* A host runs one login at a time.                                        *)
CreateDeviceAuthorization(l) ==
    /\ login[l] = "start"
    /\ \A m \in Logins \ {l} : hostOf[m] = hostOf[l] => login[m] \in Ended
    /\ authz' = [authz EXCEPT ![l].stage = "pending"]
    /\ login' = [login EXCEPT ![l] = "polling"]
    /\ UNCHANGED <<signerOf, tokenOf, signers, tokens, config, serve, faults>>

ApproveDeviceAuthorization(l, a) ==
    /\ authz[l].stage = "pending" /\ ~authz[l].expired
    /\ authz' = [authz EXCEPT ![l].stage = "approved", ![l].account = a]
    /\ UNCHANGED <<signerOf, tokenOf, login, signers, tokens, config, serve, faults>>

Expire(l) ==
    /\ authz[l].stage # "none" /\ ~authz[l].expired
    /\ authz' = [authz EXCEPT ![l].expired = TRUE]
    /\ UNCHANGED <<signerOf, tokenOf, login, signers, tokens, config, serve, faults>>

(* As if a pending authorization were told apart before an expired one.    *)
PendingFirst(l) ==
    IF authz[l].stage = "exchanged" THEN "consumed"
    ELSE IF authz[l].stage = "pending" THEN "pending"
    ELSE IF authz[l].expired THEN "expired"
    ELSE "machine"

(* What ExchangeDeviceAuthorization answers.                               *)
Exchanged(l) ==
    IF authz[l].stage = "exchanged" THEN "consumed"
    ELSE IF authz[l].expired THEN "expired"
    ELSE IF authz[l].stage = "pending" THEN "pending"
    ELSE "machine"

(* The status of an answer, and what the client makes of it: every other   *)
(* status is an error.                                                     *)
write == [machine |-> 200, pending |-> 425, expired |-> 410, consumed |-> 409]

request(status) ==
    CASE status = 200 -> "ok"
      [] status = 425 -> "wait"
      [] OTHER        -> "error"

(* The machine and its token are written together, whether or not the      *)
(* answer arrives.                                                         *)
ExchangeDeviceAuthorization(l) ==
    /\ login[l] = "polling" /\ request(write[Exchanged(l)]) = "ok"
    /\ authz' = [authz EXCEPT ![l].stage = "exchanged"]
    /\ signerOf' = [signerOf EXCEPT ![Machine(l)] = l]
    /\ tokenOf' = [tokenOf EXCEPT ![Machine(l)] = l]
    /\ \/ login' = [login EXCEPT ![l] = "signer"] /\ faults' = faults
       \/ /\ faults < MaxFaults /\ faults' = faults + 1
          /\ login' = [login EXCEPT ![l] = "failed"]
    /\ UNCHANGED <<signers, tokens, config, serve>>

(* Only a pending authorization is polled again.                           *)
PollEnds(l) ==
    /\ login[l] = "polling" /\ request(write[Exchanged(l)]) = "error"
    /\ login' = [login EXCEPT ![l] = "failed"]
    /\ UNCHANGED <<serverVars, signers, tokens, config, serve, faults>>

SaveCredential(l) ==
    /\ \/ /\ login[l] = "signer" /\ login' = [login EXCEPT ![l] = "token"]
          /\ signers' = [signers EXCEPT ![hostOf[l]][Machine(l)] = l] /\ tokens' = tokens
       \/ /\ login[l] = "token" /\ login' = [login EXCEPT ![l] = "config"]
          /\ tokens' = [tokens EXCEPT ![hostOf[l]][Machine(l)] = l] /\ signers' = signers
    /\ UNCHANGED <<serverVars, config, serve, faults>>

(* A token that cannot be saved takes the signer with it.                  *)
SaveFails(l) ==
    /\ login[l] \in {"signer", "token", "config"} /\ faults < MaxFaults
    /\ login' = [login EXCEPT ![l] = "failed"]
    /\ signers' = IF login[l] = "token"
                    THEN [signers EXCEPT ![hostOf[l]][Machine(l)] = None] ELSE signers
    /\ faults' = faults + 1
    /\ UNCHANGED <<serverVars, tokens, config, serve>>

SaveConfig(l) ==
    /\ login[l] = "config" /\ login' = [login EXCEPT ![l] = "done"]
    /\ config' = [config EXCEPT ![hostOf[l]] = Machine(l)]
    /\ UNCHANGED <<serverVars, signers, tokens, serve, faults>>

(* Any other error of a request ends the login like a kill.                *)
Killed(l) ==
    /\ login[l] \notin Ended /\ faults < MaxFaults
    /\ login' = [login EXCEPT ![l] = "failed"] /\ faults' = faults + 1
    /\ UNCHANGED <<serverVars, signers, tokens, config, serve>>

Login(l) ==
    \/ CreateDeviceAuthorization(l) \/ \E a \in Accounts : ApproveDeviceAuthorization(l, a)
    \/ Expire(l) \/ ExchangeDeviceAuthorization(l) \/ PollEnds(l)
    \/ SaveCredential(l) \/ SaveFails(l) \/ SaveConfig(l) \/ Killed(l)

(* runServe: config.Load, then the token, then the signer; a missing one   *)
(* ends it.                                                                *)
Load(h, field, value, pc) ==
    serve' = [serve EXCEPT ![h] = IF value = None THEN Idle
                                  ELSE [@ EXCEPT ![field] = value, !.pc = pc]]

runServe(h) ==
    /\ CASE serve[h].pc = "off"    -> config[h] # None /\ Load(h, "machine", config[h], "token")
         [] serve[h].pc = "token"  -> Load(h, "token", tokens[h][serve[h].machine], "signer")
         [] serve[h].pc = "signer" -> Load(h, "signer", signers[h][serve[h].machine], "serving")
         [] OTHER                  -> serve' = [serve EXCEPT ![h] = Idle]
    /\ UNCHANGED <<serverVars, login, signers, tokens, config, faults>>

Next == (\E l \in Logins : Login(l)) \/ (\E h \in Hosts : runServe(h))

Spec == Init /\ [][Next]_vars

(* runLogin polls every two seconds and goes on with the answer; time      *)
(* passes for an authorization.  Nobody has to approve it.                 *)
FairSpec ==
    /\ Spec
    /\ \A l \in Logins :
        /\ WF_vars(Expire(l)) /\ WF_vars(ExchangeDeviceAuthorization(l))
        /\ WF_vars(PollEnds(l)) /\ WF_vars(SaveCredential(l)) /\ WF_vars(SaveConfig(l))

-----------------------------------------------------------------------------
AuthenticateMachine(m, t) == t # None /\ tokenOf[m] = t

(* A daemon the server lets in signs with the signer the server has for    *)
(* the machine, however logins, failures and the reads of runServe         *)
(* interleave: an old token never comes with a new signer that works, nor  *)
(* a new token with an old signer.                                         *)
SignsAsRegistered ==
    \A h \in Hosts :
        LET s == serve[h] IN
        (s.pc = "serving" /\ AuthenticateMachine(s.machine, s.token))
            => s.signer = signerOf[s.machine]

(* Logins end: an authorization is approved and exchanged, or expires and  *)
(* the poll says so.  There are finitely many, so at some time, and again  *)
(* whenever more are begun, none is under way.                             *)
LoginEnds ==
    []<>(\A l \in Logins : login[l] \in Ended)

(* A login that ended well leaves the host able to serve: as long as no    *)
(* other login has reclaimed the machine since, the vault of the host      *)
(* holds the token and the signer this login registered, whatever other    *)
(* logins failed half way.                                                 *)
DoneServes ==
    \A l \in Logins, m \in Accounts :
        (login[l] = "done" /\ tokenOf[m] = l)
            => tokens[hostOf[l]][m] = l /\ signers[hostOf[l]][m] = l
=============================================================================
