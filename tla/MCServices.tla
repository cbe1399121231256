----------------------------- MODULE MCServices -----------------------------
(***************************************************************************)
(* The endpoints of the broker that share no state, checked side by side:  *)
(* a behaviour is one of a single part, chosen at the start, and the other *)
(* parts stay where they begin.  The wallet actions are taken three times, *)
(* for three things their clients may want.                                *)
(***************************************************************************)
EXTENDS Integers, Sequences, TLC

CONSTANTS l1, l2, l3, h1, h2, a1, a2,       \* logins, hosts, accounts
          x1, x2, w1, t1, t2, k1,           \* challenges, a wallet, tickets or tabs, a key
          c1, c2, c3, r1, r2, noRates        \* calls or clients, requests or rates

VARIABLES
    part,
    authz, signerOf, tokenOf, login, signers, tokens, config, serve, loginFaults,
    spent, expired, lock, accounts, claim, session, issued, keys, pc, on, acting, account,
    drafts, created, verified, page, chain, behind, index, cli, saved, actionFaults,
    nextId, open, state, outbox, stream, cursor, wire, fetch, answer, shown, told,
    backlog, streamFaults,
    clock, cached, fetchedAt, refreshing, at, now, quote, found

(* Three logins: two on one host, one on another.                          *)
Login == INSTANCE Enrollment WITH
    Logins <- {l1, l2, l3}, Hosts <- {h1, h2}, Accounts <- {a1, a2}, MaxFaults <- 1,
    hostOf <- (l1 :> h1 @@ l2 :> h1 @@ l3 :> h2), faults <- loginFaults

(* Two challenges of one new wallet: its logins race to insert the account. *)
Auth == INSTANCE BrowserAuth WITH
    Calls <- {c1, c2, c3}, Challenges <- {x1, x2}, Tickets <- {t1}, Keys <- {k1},
    Wallets <- {w1}, walletOf <- (x1 :> w1 @@ x2 :> w1)

Publish(rates) == [kind |-> "publish", amount |-> 0, rates |-> rates]
Collateral(kind, amount) == [kind |-> kind, amount |-> amount, rates |-> noRates]

(* Two terminals publish one offer at different rates.                     *)
Rates == INSTANCE ProviderActions WITH None <- noRates,
    Clients <- {c1, c2}, Tabs <- {t1}, Wanted <- (c1 :> Publish(r1) @@ c2 :> Publish(r2)),
    MinimumBond <- 1, MaxDrafts <- 2, MaxFaults <- 1, faults <- actionFaults

(* A deposit, approved in two tabs.                                        *)
Deposit == INSTANCE ProviderActions WITH None <- noRates,
    Clients <- {c1}, Tabs <- {t1, t2}, Wanted <- (c1 :> Collateral("deposit", 1)),
    MinimumBond <- 1, MaxDrafts <- 1, MaxFaults <- 1, faults <- actionFaults

(* An exit and its finalisation.                                           *)
Exit == INSTANCE ProviderActions WITH None <- noRates,
    Clients <- {c1, c2}, Tabs <- {t1}, MinimumBond <- 1, MaxDrafts <- 3, MaxFaults <- 1,
    Wanted <- (c1 :> Collateral("exit", 0) @@ c2 :> Collateral("finalize", 0)),
    faults <- actionFaults

Events == INSTANCE Realtime WITH
    Requests <- {r1, r2}, Page <- 2, MaxSteps <- 1, MaxFaults <- 1, faults <- streamFaults

Price == INSTANCE ReferencePrice WITH
    Requests <- {r1, r2}, CacheTTL <- 1, MaxAge <- 2, Skew <- 1, MaxTime <- 4, pc <- at

Parts == {"login", "auth", "rates", "deposit", "exit", "events", "price"}
loginVars == <<authz, signerOf, tokenOf, login, signers, tokens, config, serve, loginFaults>>
authVars == <<spent, expired, lock, accounts, claim, session, issued, keys,
              pc, on, acting, account>>
eventVars == <<nextId, open, state, outbox, stream, cursor, wire, fetch, answer,
               shown, told, backlog, streamFaults>>
priceVars == <<clock, cached, fetchedAt, refreshing, at, now, quote, found>>
actionVars == <<drafts, created, verified, page, chain, behind, index, cli, saved, actionFaults>>
allVars == <<part, loginVars, authVars, actionVars, eventVars, priceVars>>

Init ==
    /\ part \in Parts
    /\ Login!Init /\ Auth!Init /\ Events!Init /\ Price!Init
    /\ \/ part = "rates" /\ Rates!Init
       \/ part = "exit" /\ Exit!Init
       \/ part \notin {"rates", "exit"} /\ Deposit!Init
    /\ part \notin {"rates", "deposit", "exit"} => chain.bond = 0

Next ==
    \/ part = "login" /\ Login!Next /\ UNCHANGED <<part, authVars, actionVars, eventVars, priceVars>>
    \/ part = "auth" /\ Auth!Next /\ UNCHANGED <<part, loginVars, actionVars, eventVars, priceVars>>
    \/ part = "rates" /\ Rates!Next /\ UNCHANGED <<part, loginVars, authVars, eventVars, priceVars>>
    \/ part = "deposit" /\ Deposit!Next /\ UNCHANGED <<part, loginVars, authVars, eventVars, priceVars>>
    \/ part = "exit" /\ Exit!Next /\ UNCHANGED <<part, loginVars, authVars, eventVars, priceVars>>
    \/ part = "events" /\ Events!Next /\ UNCHANGED <<part, loginVars, authVars, actionVars, priceVars>>
    \/ part = "price" /\ Price!Next /\ UNCHANGED <<part, loginVars, authVars, actionVars, eventVars>>

(* Each part has the fairness of its own specification.                    *)
Fairness ==
    /\ \A l \in {l1, l2, l3} :
        /\ WF_loginVars(part = "login" /\ Login!Expire(l))
        /\ WF_loginVars(part = "login" /\ Login!ExchangeDeviceAuthorization(l))
        /\ WF_loginVars(part = "login" /\ Login!PollEnds(l))
        /\ WF_loginVars(part = "login" /\ Login!SaveCredential(l))
        /\ WF_loginVars(part = "login" /\ Login!SaveConfig(l))
    /\ \A c \in {c1, c2, c3} : WF_authVars(part = "auth" /\ Auth!Step(c))
    /\ \A d \in 1 .. 3 : WF_actionVars(part = "exit" /\ Exit!Expire(d))
    /\ \A c \in {c1, c2} : WF_actionVars(part = "exit" /\ Exit!Poll(c))
    /\ WF_eventVars(part = "events" /\ Events!Open)
    /\ WF_eventVars(part = "events" /\ Events!Poll)
    /\ WF_eventVars(part = "events" /\ Events!Retry)
    /\ WF_eventVars(part = "events" /\ Events!OnEvent)
    /\ WF_eventVars(part = "events" /\ Events!AccountActivity)
    /\ WF_eventVars(part = "events" /\ Events!Answer)
    /\ \A r \in {r1, r2} : WF_eventVars(part = "events" /\ Events!Commit(r))
    /\ \A r \in {r1, r2} : WF_priceVars(part = "price" /\ Price!Step(r))

FairSpec == Init /\ [][Next]_allVars /\ Fairness

-----------------------------------------------------------------------------
(* A daemon the server lets in signs with the signer it registered, a      *)
(* login that ended well leaves its host able to serve, and every login    *)
(* ends (connectDevice, ExchangeDeviceAuthorization).                      *)
SignsAsRegistered ==
    /\ [](part = "login" => Login!SignsAsRegistered /\ Login!DoneServes)
    /\ Login!LoginEnds

(* A challenge makes one session and a ticket opens one stream, racing     *)
(* first logins leave a wallet one account, and no call waits for ever for *)
(* a row or for the index on wallets (VerifyWallet, ConsumeStreamTicket).  *)
SpentOnce ==
    /\ [](part = "auth" => Auth!SpentOnce /\ Auth!OneAccountPerWallet)
    /\ Auth!CallsReturn

(* Publish stores a version that has the rates it asked for, a confirmed   *)
(* action stays confirmed whatever a second tab posts, and a command that  *)
(* waits for an approval comes back (Service.Publish, verify, waitAction). *)
ActionsAreSettled ==
    /\ [][part = "rates" => Rates!OwnRatesStored]_actionVars
    /\ Deposit!ConfirmedStays
    /\ []<>(part = "exit" => \A c \in {c1, c2} : cli[c].state # "polling")

(* An idle page shows at least what its events told of, and a stream that  *)
(* stays open delivers what was committed before it opened (Stream).       *)
EventsArrive == []Events!PageCoversEvents /\ Events!BacklogArrives

(* One request at a time refreshes the quote, a refresh ends, and a        *)
(* request gets a quote that is fresh and is refused only without one.     *)
FreshIsGiven ==
    /\ []Price!OneRefresh
    /\ []Price!FreshIsGiven
    /\ Price!RefreshEnds
=============================================================================
