------------------------------- MODULE HostTui -------------------------------
(***************************************************************************)
(* The terminal interface of the host.  Update handles one key or message  *)
(* at a time; a command runs beside it and its message arrives in any      *)
(* order with the keys and the other messages.  The session it starts is   *)
(* runServe, reached through Start and Stop of runInteractive.  Rendering, *)
(* cursor movement and error texts are left out: a key acts on any row.    *)
(***************************************************************************)
EXTENDS Naturals, FiniteSets, Bags

CONSTANTS
    Locals,         \* discovered candidates, configured and enabled at first
    Apis,           \* API-backed candidates, each entered with its own key
    Offers,         \* offers of the account's wallet
    Compatibles,     \* the pairs of candidate and offer that fit each other
    None,           \* nothing typed, no offer; the candidate without a URL
    MaxFlight       \* bound: commands under way when a key starts another

Candidates == Locals \cup Apis

VARIABLES
    model,          \* the Bubble Tea model
    flight,         \* bag of commands and ticks under way
    file,           \* the configuration: backends, enabled ones, their offers
    serve,          \* runServe: "none" (serveCancel = nil), "live", or "ended"
                    \* by itself
    quit

vars == <<model, flight, file, serve, quit>>

Cmd(kind) == [k |-> kind, payload |-> None]
CmdOf(kind, a) == [k |-> kind, payload |-> a]
With(c) == flight (+) SetToBag({c})
Without(c) == flight (-) SetToBag({c})
InFlight(kinds) == \E c \in BagToSet(flight) : c.k \in kinds

(* With the configured backends selected.                                  *)
NewModel ==
    [screen |-> "home", running |-> FALSE, confirmQuit |-> FALSE, busy |-> FALSE,
     apiStep |-> "url", apiURL |-> None, apiKey |-> None,
     candidates |-> Locals, selected |-> Locals,
     backend |-> None, attach |-> {},
     offers |-> {}]

Init ==
    /\ model = NewModel
    /\ flight = EmptyBag
    /\ file = [backends |-> Locals, enabled |-> Locals,
               offer |-> [b \in Candidates |-> None]]
    /\ serve = "none" /\ quit = FALSE

Forms == {"api", "pricing", "deposit"}
Pressed(s) == ~quit /\ ~model.confirmQuit /\ model.screen = s
Room == BagCardinality(flight) < MaxFlight

(* A key that changes the model only; one that starts a command as well.   *)
Become(m) ==
    /\ model' = m
    /\ UNCHANGED <<flight, file, serve, quit>>
Begin(m, c) ==
    /\ Room /\ model' = m /\ flight' = With(c)
    /\ UNCHANGED <<file, serve, quit>>

At(s) == [model EXCEPT !.screen = s]
Busy(m) == [m EXCEPT !.busy = TRUE]
Idle(m) == [m EXCEPT !.busy = FALSE]
-----------------------------------------------------------------------------
(* Quitting.  The deferred stop ends the session, and nothing of the model *)
(* outlives the program.                                                   *)
Exit ==
    /\ quit' = TRUE /\ serve' = "none"
    /\ model' = NewModel /\ flight' = EmptyBag
    /\ UNCHANGED <<file>>

CtrlC ==
    /\ ~quit
    /\ IF model.running THEN Become([model EXCEPT !.confirmQuit = TRUE]) ELSE Exit

(* On a form every other key is typed into it, "y" and "n" too.            *)
Confirm ==
    /\ ~quit /\ model.confirmQuit
    /\ \/ model.screen \notin Forms /\ Exit
       \/ Become([model EXCEPT !.confirmQuit = FALSE])

(* ------------------------------- screens ------------------------------- *)
Home ==
    /\ Pressed("home")
    /\ \/ Become(At("providers"))
       \/ \E s \in {"offers", "collateral"} : Begin(Busy(At(s)), Cmd("account"))
       \/ Begin(At("status"), Cmd("account"))
       \/ Exit

(* OpenAI's form knows its URL and begins with the key.                    *)
openAPIForm(a) ==
    Idle(IF a = None THEN [At("api") EXCEPT !.apiStep = "url"]
                     ELSE [At("api") EXCEPT !.apiStep = "key", !.apiURL = a])

(* space toggles a candidate, enter opens a form, r reviews.  The user     *)
(* does not choose a candidate that has no URL.                            *)
Providers ==
    /\ Pressed("providers")
    /\ \/ \E s \in {"home", "review"} : Become(At(s))
       \/ \E c \in model.candidates \ {None} : Become([model EXCEPT !.selected =
              IF c \in @ THEN @ \ {c} ELSE @ \cup {c}])
       \/ \E form \in {None} \cup Apis : Become(openAPIForm(form))

clearAPIForm(m) ==
    Idle([m EXCEPT !.apiURL = None, !.apiKey = None, !.apiStep = "url"])

addAPICandidates(m, a) == [m EXCEPT !.candidates = @ \cup {a}]

TypeAPI ==
    /\ ~quit /\ model.screen = "api"
    /\ \E a \in Apis :
          \/ model.apiStep = "url" /\ Become([model EXCEPT !.apiURL = a])
          \/ model.apiStep = "key" /\ Become([model EXCEPT !.apiKey = a])

(* The key step asks the provider for its models; a name may be typed when *)
(* it has no catalog.                                                      *)
advanceAPI ==
    /\ Pressed("api")
    /\ \/ /\ model.apiStep = "url" /\ model.apiURL # None
          /\ Become([model EXCEPT !.apiStep = "key"])
       \/ /\ model.apiStep = "model"
          /\ Become(clearAPIForm(addAPICandidates(At("providers"), model.apiURL)))
       \/ /\ model.apiStep = "key" /\ model.apiKey # None
          /\ Begin(Busy(model), CmdOf("catalog", model.apiURL))

EscapeAPI == Pressed("api") /\ Become(clearAPIForm(At("providers")))

selections == model.candidates \cap model.selected

Review ==
    /\ Pressed("review")
    /\ \/ Become(At("providers"))
       \/ /\ selections # {} /\ ~model.busy
          /\ Begin(Busy(model), CmdOf("configure", selections))

(* r: startCommand configures the selection of the moment, then starts.    *)
Status ==
    /\ Pressed("status")
    /\ \/ Become(At("home"))
       \/ /\ ~model.busy
          /\ Begin(Busy(model), CmdOf("reconfigure", selections))
       \/ IF model.running THEN Become([model EXCEPT !.confirmQuit = TRUE])
                           ELSE Exit

(* What the form leaves behind is overwritten when it opens again.         *)
closeForm(m) == [m EXCEPT !.attach = {}, !.backend = None]

openPricing(b) == Idle([At("pricing") EXCEPT !.backend = b])

attachedBackend(o) == {b \in file.backends : file.offer[b] = o}
attachableBackends(o) ==
    {b \in file.backends : file.offer[b] = None /\ <<b, o>> \in Compatibles}
compatibleOffers(b) ==
    {o \in model.offers : attachedBackend(o) = {} /\ <<b, o>> \in Compatibles}

runOperation(b, o) == Begin(Busy(model), CmdOf("operation", [backend |-> b, offer |-> o]))

(* enter on a wallet offer, enter on a backend, e, and s.                  *)
OffersScreen ==
    /\ Pressed("offers")
    /\ \/ Become(At("home"))
       \/ /\ ~model.busy
          /\ \/ \E o \in model.offers, b \in file.backends :
                   /\ attachedBackend(o) = {} /\ attachableBackends(o) = {b}
                   /\ runOperation(b, o)
             \/ \E b \in file.backends :
                   LET fits == compatibleOffers(b)
                   IN /\ file.offer[b] = None
                      /\ \/ fits = {} /\ Become(openPricing(b))
                         \/ \E o \in fits : fits = {o} /\ runOperation(b, o)
                         \/ /\ Cardinality(fits) > 1
                            /\ Become([At("attach") EXCEPT !.backend = b,
                                                            !.attach = fits])
             \/ \E b \in file.backends : Become(openPricing(b))
             \/ /\ \A b \in file.enabled : file.offer[b] # None
                /\ Begin(Busy(model), Cmd("start"))

Attach ==
    /\ Pressed("attach") /\ ~model.busy
    /\ \/ Become(closeForm(At("offers")))
       \/ \E o \in model.attach : runOperation(model.backend, o)

(* The fields are filled one after the other; the review publishes.        *)
Pricing ==
    /\ Pressed("pricing") /\ ~model.busy
    /\ \/ Become(closeForm(At("offers")))
       \/ runOperation(model.backend, "own")

(* d and x when the account last read shows no exit, f when it shows one;  *)
(* which it is does not matter here.  x and f do not look at busy.         *)
Collateral ==
    /\ Pressed("collateral")
    /\ \/ \E s \in {"home", "deposit"} : Become(At(s))
       \/ runOperation("wallet", None)

Deposit ==
    /\ Pressed("deposit") /\ ~model.busy
    /\ Become(At("collateral")) \/ runOperation("wallet", None)
-----------------------------------------------------------------------------
(* Messages.  A command's work and the arrival of its message are one step *)
(* except for the start of a session.                                      *)
Deliver(c, m, next) ==
    /\ ~quit /\ BagIn(c, flight)
    /\ model' = m
    /\ flight' = Without(c) (+) SetToBag(next)

applyCatalog(c) ==
    /\ c.k = "catalog"
    /\ \/ Deliver(c, closeForm(clearAPIForm(addAPICandidates(At("providers"), c.payload))), {})
       \/ Deliver(c, Idle([model EXCEPT !.apiStep = "model"]), {})
    /\ UNCHANGED <<file, serve, quit>>

Apply(sel) == [file EXCEPT !.backends = @ \cup sel, !.enabled = sel]

configuredMsg(c) ==
    /\ c.k = "configure"
    /\ \/ /\ Deliver(c, Busy(closeForm(At("offers"))), {Cmd("account")})
          /\ file' = Apply(c.payload)
       \/ Deliver(c, Idle(model), {}) /\ UNCHANGED file
    /\ UNCHANGED <<serve, quit>>

(* startCommand: Configure, and Start when it succeeds.                    *)
startCommand(c) ==
    /\ c.k = "reconfigure"
    /\ \/ Deliver(c, model, {Cmd("start")}) /\ file' = Apply(c.payload)
       \/ Deliver(c, model, {CmdOf("started", FALSE)}) /\ UNCHANGED file
    /\ UNCHANGED <<serve, quit>>

(* Start: nothing to do while serveCancel is set; else runServe runs until its status *)
(* file shows, returns an error, or returns because it was told to stop,   *)
(* which counts as started.  A start that times out is stopped.            *)
Start(c) ==
    /\ c.k = "start"
    /\ \/ /\ serve # "none" /\ UNCHANGED serve
          /\ Deliver(c, model, {CmdOf("started", TRUE)})
       \/ /\ serve = "none" /\ serve' = "live"
          /\ Deliver(c, model, {CmdOf("started", TRUE)})
       \/ /\ serve = "none" /\ UNCHANGED serve
          /\ \E ok \in BOOLEAN : Deliver(c, model, {CmdOf("started", ok)})
    /\ UNCHANGED <<file, quit>>

applyStarted(c) ==
    /\ c.k = "started"
    /\ LET m == Idle([closeForm(At("status")) EXCEPT !.confirmQuit = FALSE, !.running = c.payload])
       IN IF c.payload
          THEN Deliver(c, m, {Cmd("snapshot"), Cmd("account")})
          ELSE Deliver(c, m, {})
    /\ UNCHANGED <<file, serve, quit>>

(* snapshotMsg and its tick: polled as long as the session runs.           *)
PollSnapshot(c) ==
    /\ \/ c.k = "snapshot"
          /\ Deliver(c, model, IF model.running THEN {Cmd("pollStatus")} ELSE {})
       \/ /\ c.k = "pollStatus"
          /\ Deliver(c, model, IF model.running THEN {Cmd("snapshot")} ELSE {})
    /\ UNCHANGED <<file, serve, quit>>

(* On the status screen an answer leaves busy alone and is asked for again. *)
applyAccount(c) ==
    /\ c.k = "account"
    /\ \E offers \in SUBSET Offers :
          LET new == [model EXCEPT !.offers = offers]
          IN IF model.screen = "status"
             THEN Deliver(c, new, {Cmd("pollAccount")})
             ELSE Deliver(c, Idle(new), {})
    /\ UNCHANGED <<file, serve, quit>>

pollAccount(c) ==
    /\ c.k = "pollAccount"
    /\ Deliver(c, model, IF model.screen = "status" THEN {Cmd("account")} ELSE {})
    /\ UNCHANGED <<file, serve, quit>>

(* As if a failed operation left the screen waiting.                       *)
FailureWaits(c) ==
    /\ c.k = "operation"
    /\ Deliver(c, model, {})
    /\ UNCHANGED <<file, serve, quit>>

Landing == [attach |-> "offers", pricing |-> "offers", deposit |-> "collateral"]

providerOperationMsg(c) ==
    /\ c.k = "operation"
    /\ \/ /\ Deliver(c, Idle(IF model.screen \in DOMAIN Landing
                              THEN closeForm(At(Landing[model.screen])) ELSE model),
                     {Cmd("account")})
          /\ file' = IF c.payload.backend \in file.backends
                     THEN [file EXCEPT !.offer[c.payload.backend] = c.payload.offer] ELSE file
       \/ Deliver(c, Idle(model), {}) /\ UNCHANGED file
    /\ UNCHANGED <<serve, quit>>
-----------------------------------------------------------------------------
(* runServe returns by itself: a stop was requested through the stop file, *)
(* or it failed.  Its result waits in serveDone.                           *)
ServeEnds ==
    /\ ~quit /\ serve = "live" /\ serve' = "ended"
    /\ UNCHANGED <<model, flight, file, quit>>

Message(c) ==
    \/ applyCatalog(c) \/ configuredMsg(c) \/ startCommand(c) \/ Start(c)
    \/ applyStarted(c) \/ PollSnapshot(c) \/ applyAccount(c) \/ pollAccount(c)
    \/ providerOperationMsg(c)

Key ==
    \/ CtrlC \/ Confirm \/ Home \/ Providers \/ TypeAPI \/ advanceAPI \/ EscapeAPI
    \/ Review \/ Status \/ OffersScreen \/ Attach \/ Pricing \/ Collateral \/ Deposit

Exited == quit /\ UNCHANGED vars

Next == Key \/ (\E c \in BagToSet(flight) : Message(c)) \/ ServeEnds \/ Exited

Spec == Init /\ [][Next]_vars

Kinds == {"catalog", "configure", "reconfigure", "start", "started", "snapshot",
          "pollStatus", "account", "pollAccount", "operation"}

(* Every command returns: the calls behind it have deadlines, and a wallet *)
(* action expires.                                                         *)
Answered(k) == \E c \in BagToSet(flight) : c.k = k /\ Message(c)
FairSpec == Spec /\ \A k \in Kinds : WF_vars(Answered(k))
-----------------------------------------------------------------------------
(* While a session runs its status is asked for again and again, and on    *)
(* the status screen the account as well: no order of messages, failed     *)
(* reads, retries and screens left and entered breaks either loop          *)
(* (snapshotMsg, accountMsg and their ticks in Update).                    *)
LiveStatusIsLive ==
    model.running /\ ~quit =>
        /\ InFlight({"snapshot", "pollStatus"})
        /\ model.screen = "status" => InFlight({"account", "pollAccount"})

(* A form that ignores escape while it is busy does not stay busy: the     *)
(* attach, pricing and deposit screens release the user whatever happens   *)
(* to the operation they wait for.                                         *)
Released == model.screen \in DOMAIN Landing => ~model.busy \/ quit
FormsRelease == []<>Released

(* "Quitting while a session is active asks whether to stop it."           *)
QuitAsks ==
    [][quit' /\ ~quit /\ model.running /\ serve = "live" => model.confirmQuit]_vars

(* "Back and cancel operations never commit partial form state": a         *)
(* candidate is added only while its form is open.                         *)
CancelCommitsNothing ==
    [][model'.candidates # model.candidates /\ ~quit' => model.screen = "api"]_vars

(* "The user confirms the final set before configuration is committed":    *)
(* the enabled backends become what the review screen was asked to save.   *)
CommitsAreReviewed ==
    [][file'.enabled # file.enabled =>
          CmdOf("configure", file'.enabled) \in BagToSet(flight)]_vars

(* "Secret fields ... are cleared when their form is submitted or          *)
(* abandoned": outside the form no key is left in its field.               *)
KeyStaysInForm == model.screen # "api" => model.apiKey = None

(* "Convert ... runtime termination into typed Bubble Tea messages": a     *)
(* session that has ended is not shown as running for ever.                *)
EndIsShown == serve = "ended" ~> ~model.running \/ serve # "ended"
=============================================================================
