--------------------------- MODULE ProviderActions ---------------------------
(***************************************************************************)
(* Wallet actions of one provider account.  The CLI asks the server for a  *)
(* draft and polls it; the browser page shows the draft, sends its         *)
(* transaction and posts the hash; the server compares the indexed state   *)
(* with the state it noted in the draft.  Drafts live in the server's      *)
(* memory.  The index follows the chain one event at a time.  One offer is *)
(* enough: a CLI draft never holds more.                                   *)
(***************************************************************************)
EXTENDS Integers, Sequences, FiniteSets, SequencesExt

CONSTANTS
    Clients,        \* commands or terminals of the account's machine
    Tabs,           \* browser tabs an approval page is open in
    Wanted,         \* per client: the operation it performs
    MinimumBond,
    None,
    MaxDrafts,      \* bound: drafts ever created
    MaxFaults       \* bound: server restarts, failed posts and polls

Kinds == {"deposit", "exit", "finalize", "publish"}

VARIABLES
    drafts,         \* items of the store: function from draft ids
    created,        \* drafts ever created
    verified,       \* answers of Verify on their way to Confirm
    page,           \* per draft and tab: "idle", "wallet", or "mined" and to be posted
    chain,          \* the contract's state for this provider
    behind,         \* events the index has not read
    index,          \* the indexed state
    cli,            \* per client: the draft it polls, and its outcome
    saved,          \* per client: the price version Publish stored
    faults

vars == <<drafts, created, verified, page, chain, behind, index, cli, saved, faults>>
serverVars == <<drafts, created, verified>>
chainVars == <<page, chain, behind, index>>

Empty == [bond |-> 0, exit |-> FALSE, offers |-> <<>>]

Closed == [at |-> "idle", op |-> None]

Init ==
    /\ drafts = [d \in {} |-> None] /\ created = 0 /\ verified = {}
    /\ page = [a \in (1 .. MaxDrafts) \X Tabs |-> Closed]
    /\ chain \in {Empty, [Empty EXCEPT !.bond = MinimumBond]}
    /\ index = chain /\ behind = <<>>
    /\ cli = [c \in Clients |-> [draft |-> 0, state |-> "idle"]]
    /\ saved = [c \in Clients |-> 0] /\ faults = 0

(* An event as the index applies it; the contract changes the same state.  *)
Applied(s, e) ==
    CASE e.kind = "deposit"  -> [s EXCEPT !.bond = @ + e.amount]
      [] e.kind = "exit"     -> [s EXCEPT !.exit = TRUE]
      [] e.kind = "finalize" -> [s EXCEPT !.exit = FALSE, !.bond = 0]
      [] e.kind = "publish"  -> [s EXCEPT !.offers = Append(@, e.rates)]
-----------------------------------------------------------------------------
(* As if the rates were not compared.                                      *)
NewestVersion(s, rates) == Len(s.offers)

(* ProviderActionState: the newest version, and the newest with the rates. *)
LatestVersion(s) == Len(s.offers)
MatchingVersion(s, rates) ==
    LET with == {v \in DOMAIN s.offers : s.offers[v] = rates}
    IN IF with = {} THEN 0 ELSE Max(with)

validateProviderActionState(op, s) ==
    CASE op.kind = "publish"  -> s.bond >= MinimumBond /\ ~s.exit
      [] op.kind = "deposit"  -> ~s.exit
      [] op.kind = "exit"     -> s.bond # 0 /\ ~s.exit
      [] op.kind = "finalize" -> s.exit

validateProviderActionInput(op) ==
    /\ op.kind \in Kinds
    /\ (op.kind = "deposit") = (op.amount > 0)
    /\ (op.kind = "publish") = (op.rates # None)

(* prepareProviderAction: the operation is possible, and what it starts from. *)
Prepared(op) == validateProviderActionState(op, index)
Baseline == [bond |-> index.bond, exit |-> index.exit, version |-> LatestVersion(index)]

purge(ds) == [d \in {x \in DOMAIN ds : ~ds[x].expired} |-> ds[d]]

(* Create of the store: expired drafts go, the new one is waiting for a wallet. *)
WithDraft(d, op) ==
    (d :> [op |-> op, status |-> "pending_wallet", expired |-> FALSE,
           base |-> Baseline, version |-> 0]) @@ purge(drafts)

(* execute and the create handler.  A failed operation may be repeated.    *)
Create(c) ==
    /\ cli[c].state \in {"idle", "failed"} /\ created < MaxDrafts
    /\ Prepared(Wanted[c]) /\ validateProviderActionInput(Wanted[c])
    /\ created' = created + 1
    /\ drafts' = WithDraft(created', Wanted[c])
    /\ cli' = [cli EXCEPT ![c] = [draft |-> created', state |-> "polling"]]
    /\ UNCHANGED <<verified, chainVars, saved, faults>>

Expire(d) ==
    /\ d \in DOMAIN drafts /\ ~drafts[d].expired
    /\ drafts' = [drafts EXCEPT ![d].expired = TRUE]
    /\ UNCHANGED <<created, verified, chainVars, cli, saved, faults>>

Found(d) == d \in DOMAIN drafts /\ ~drafts[d].expired

Without(d) == [x \in DOMAIN drafts \ {d} |-> drafts[x]]

providerActionConfirmed(d) ==
    LET op == drafts[d].op
        base == drafts[d].base
    IN CASE op.kind = "publish"  -> MatchingVersion(index, op.rates) > base.version
         [] op.kind = "deposit"  -> index.bond >= base.bond + op.amount
         [] op.kind = "exit"     -> ~base.exit /\ index.exit
         [] op.kind = "finalize" -> base.exit /\ ~index.exit /\ index.bond = 0

(* The get handler reads the draft, asks the index without the store's     *)
(* lock, and then confirms whatever the store holds under the identifier.  *)
Verify(d) ==
    /\ Found(d) /\ drafts[d].status = "pending_chain"
    /\ providerActionConfirmed(d)
    /\ verified' = verified \cup
           {[draft |-> d, version |-> IF drafts[d].op.kind = "publish"
                                      THEN MatchingVersion(index, drafts[d].op.rates) ELSE 0]}
    /\ UNCHANGED <<drafts, created, chainVars, cli, saved, faults>>

Confirm(v) ==
    /\ verified' = verified \ {v}
    /\ drafts' = IF v.draft \notin DOMAIN drafts THEN drafts
                 ELSE [drafts EXCEPT ![v.draft].status = "confirmed",
                                     ![v.draft].version = v.version]
    /\ UNCHANGED <<created, chainVars, cli, saved, faults>>

Restart ==
    /\ faults < MaxFaults /\ faults' = faults + 1
    /\ drafts' = [d \in {} |-> None] /\ verified' = {}
    /\ UNCHANGED <<created, chainVars, cli, saved>>

(* One answer of the CLI's poll that ends its wait: confirmed, or an error *)
(* because the draft is gone or expired.  Publish then stores the version. *)
Poll(c) ==
    LET d == cli[c].draft IN
    /\ cli[c].state = "polling"
    /\ \/ /\ Found(d) /\ drafts[d].status = "confirmed"
          /\ cli' = [cli EXCEPT ![c].state = "done"]
          /\ saved' = [saved EXCEPT ![c] = drafts[d].version]
          /\ UNCHANGED drafts
       \/ /\ ~Found(d)
          /\ cli' = [cli EXCEPT ![c].state = "failed"]
          /\ drafts' = Without(d)
          /\ UNCHANGED saved
    /\ UNCHANGED <<created, verified, chainVars, faults>>

(* A poll with no answer, or a browser that does not open, ends the wait;  *)
(* the draft stays.                                                        *)
PollFails(c) ==
    /\ cli[c].state = "polling" /\ faults < MaxFaults /\ faults' = faults + 1
    /\ cli' = [cli EXCEPT ![c].state = "failed"]
    /\ UNCHANGED <<serverVars, chainVars, saved>>
-----------------------------------------------------------------------------
(* The approval page.                                                      *)
Approve(d, t) ==
    /\ Found(d) /\ drafts[d].status = "pending_wallet" /\ page[d, t] = Closed
    /\ page' = [page EXCEPT ![d, t] = [at |-> "wallet", op |-> drafts[d].op]]
    /\ UNCHANGED <<serverVars, chain, behind, index, cli, saved, faults>>

Rejected(d, t) ==
    /\ page[d, t].at = "wallet"
    /\ page' = [page EXCEPT ![d, t] = Closed]
    /\ UNCHANGED <<serverVars, chain, behind, index, cli, saved, faults>>

(* The contract's own conditions for the four operations.                  *)
Accepts(op) ==
    CASE op.kind = "publish"  -> chain.bond >= MinimumBond /\ ~chain.exit
      [] op.kind = "deposit"  -> ~chain.exit
      [] op.kind = "exit"     -> chain.bond # 0 /\ ~chain.exit
      [] op.kind = "finalize" -> chain.exit

Mined(d, t) ==
    LET e == page[d, t].op IN
    /\ page[d, t].at = "wallet" /\ Accepts(e)
    /\ chain' = Applied(chain, e)
    /\ behind' = Append(behind, e @@ [draft |-> d])
    /\ page' = [page EXCEPT ![d, t].at = "mined"]
    /\ UNCHANGED <<serverVars, index, cli, saved, faults>>

Submitted(d, t) ==
    /\ page[d, t].at = "mined"
    /\ drafts' = IF ~Found(d) THEN Without(d)
                 ELSE IF drafts[d].status = "confirmed" THEN drafts
                 ELSE [drafts EXCEPT ![d].status = "pending_chain"]
    /\ page' = [page EXCEPT ![d, t] = Closed]
    /\ UNCHANGED <<created, verified, chain, behind, index, cli, saved, faults>>

SubmitFails(d, t) ==
    /\ page[d, t].at = "mined" /\ faults < MaxFaults /\ faults' = faults + 1
    /\ page' = [page EXCEPT ![d, t] = Closed]
    /\ UNCHANGED <<serverVars, chain, behind, index, cli, saved>>

Indexed ==
    /\ behind # <<>>
    /\ index' = Applied(index, Head(behind)) /\ behind' = Tail(behind)
    /\ UNCHANGED <<serverVars, page, chain, cli, saved, faults>>
-----------------------------------------------------------------------------
Next ==
    \/ \E c \in Clients : Create(c) \/ Poll(c) \/ PollFails(c)
    \/ \E d \in 1 .. MaxDrafts : Expire(d) \/ Verify(d)
    \/ \E v \in verified : Confirm(v)
    \/ \E d \in 1 .. MaxDrafts, t \in Tabs :
          Approve(d, t) \/ Rejected(d, t) \/ Mined(d, t)
          \/ Submitted(d, t) \/ SubmitFails(d, t)
    \/ Indexed \/ Restart

Spec == Init /\ [][Next]_vars

(* The clock runs to every draft's expiry and the CLI polls on a timer.    *)
FairSpec ==
    /\ Spec
    /\ \A d \in 1 .. MaxDrafts : WF_vars(Expire(d))
    /\ \A c \in Clients : WF_vars(Poll(c))
-----------------------------------------------------------------------------
(* The price version Publish stores is one that was published after its    *)
(* draft was made, and has the rates of the draft, whatever else the       *)
(* wallet published in between (providerActionConfirmed).                  *)
OwnRatesStored ==
    \A c \in Clients : saved'[c] # saved[c] =>
        /\ saved'[c] > drafts[cli[c].draft].base.version
        /\ index.offers[saved'[c]] = Wanted[c].rates
StoresItsOwnRates == [][OwnRatesStored]_vars

(* A confirmed action does not become pending again, although a second tab *)
(* may post its hash after the confirmation (Submitted).                   *)
ConfirmedStays ==
    [][\A d \in DOMAIN drafts \cap DOMAIN drafts' :
          drafts[d].status = "confirmed" => drafts'[d].status = "confirmed"]_vars

(* A command that waits for an approval comes back, whatever becomes of    *)
(* the approval and of the draft (execute).                                *)
CommandReturns ==
    []<>(\A c \in Clients : cli[c].state # "polling")

(* No action is confirmed while its own transaction waits to be indexed.   *)
NeverConfirmedEarly ==
    \A d \in DOMAIN drafts : drafts[d].status = "confirmed" =>
        \A i \in DOMAIN behind : behind[i].draft # d

(* A provider who repeats the operations the CLI reports as failed deposits *)
(* no more than each of them asked for.                                    *)
ReplacementsAreSafe ==
    LET amount(c, n) == n + Wanted[c].amount
    IN chain.bond <= FoldSet(amount, MinimumBond, Clients)
=============================================================================
