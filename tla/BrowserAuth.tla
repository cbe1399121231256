---------------------------- MODULE BrowserAuth ----------------------------
(***************************************************************************)
(* Signing in with a wallet, and what a session can do.  A challenge and a *)
(* stream ticket are rows that are spent once, in a transaction that       *)
(* locks the row; the first login of a wallet also inserts its account,    *)
(* guarded by the unique index on the wallet.  A handler behind a session  *)
(* authenticates first and acts afterwards, in statements of their own.    *)
(* A call stands for the session or the account it creates.                *)
(***************************************************************************)
EXTENDS Integers, FiniteSets

CONSTANTS Calls, Challenges, Tickets, Keys, Wallets, walletOf

None == "none"
Rows == Challenges \cup Tickets

VARIABLES
    (* the database *)
    spent, expired, \* consumed_at and expires_at of a row
    lock,           \* the transaction that holds a row
    accounts,       \* committed accounts of a wallet
    claim,          \* an uncommitted insert in the index on wallet_address
    session,        \* browser_sessions: per call that verified a challenge
    issued,         \* the account a ticket was issued to
    keys,           \* api_keys: [account, revoked]
    (* a call *)
    pc, on, acting, \* where it is, its row, the session it runs under
    account         \* the account it found or inserted

rowVars == <<spent, expired, lock>>
tableVars == <<accounts, claim, session, issued, keys>>
vars == <<rowVars, tableVars, pc, on, acting, account>>

Init ==
    /\ spent = [r \in Rows |-> FALSE] /\ expired = [r \in Rows |-> FALSE]
    /\ lock = [r \in Rows |-> None]
    /\ accounts = [w \in Wallets |-> {}] /\ claim = [w \in Wallets |-> None]
    /\ session = [c \in Calls |-> "none"]
    /\ issued = [t \in Tickets |-> None]
    /\ keys = [k \in Keys |-> [account |-> None, revoked |-> FALSE]]
    /\ pc = [c \in Calls |-> "new"] /\ on = [c \in Calls |-> None]
    /\ acting = [c \in Calls |-> None] /\ account = [c \in Calls |-> None]

Returned == {"new", "ok", "failed"}
Goto(c, label) == pc' = [pc EXCEPT ![c] = label]

(* tx.Rollback, deferred by every transaction.                             *)
Rollback(c) ==
    /\ Goto(c, "failed")
    /\ lock' = [r \in Rows |-> IF lock[r] = c THEN None ELSE lock[r]]
    /\ claim' = [w \in Wallets |-> IF claim[w] = c THEN None ELSE claim[w]]

(* SELECT ... FOR UPDATE waits for the transaction that holds the row and  *)
(* sees what it left; a spent or an expired row ends the call.             *)
SelectForUpdate(c, r, label) ==
    /\ pc[c] = "new" /\ lock[r] = None
    /\ on' = [on EXCEPT ![c] = r]
    /\ IF spent[r] \/ expired[r]
         THEN Goto(c, "failed") /\ lock' = lock
         ELSE Goto(c, label) /\ lock' = [lock EXCEPT ![r] = c]
    /\ UNCHANGED <<spent, expired, tableVars, acting, account>>

VerifyWalletChallenge(c) == \E x \in Challenges : SelectForUpdate(c, x, "select")

ConsumeStreamTicket(c) ==
    \E t \in Tickets : issued[t] # None /\ SelectForUpdate(c, t, "spend")

SelectAccount(c) ==
    /\ pc[c] = "select"
    /\ LET found == accounts[walletOf[on[c]]] IN
        IF found = {} THEN Goto(c, "insert") /\ account' = [account EXCEPT ![c] = c]
        ELSE \E a \in found : Goto(c, "spend") /\ account' = [account EXCEPT ![c] = a]
    /\ UNCHANGED <<rowVars, tableVars, on, acting>>

(* An insert waits for another one of the same wallet, and fails if that   *)
(* one committed.                                                          *)
InsertAccount(c) ==
    /\ pc[c] = "insert"
    /\ LET w == walletOf[on[c]] IN
        /\ claim[w] = None
        /\ IF accounts[w] = {}
             THEN Goto(c, "spend") /\ claim' = [claim EXCEPT ![w] = c] /\ lock' = lock
             ELSE Rollback(c)
    /\ UNCHANGED <<spent, expired, accounts, session, issued, keys, on, acting, account>>

(* As if an error left the transaction open.                               *)
LeftOpen(c) ==
    /\ pc[c] = "spend" /\ Goto(c, "failed")
    /\ UNCHANGED <<rowVars, tableVars, on, acting, account>>

(* A statement or the commit fails.                                        *)
TransactionFails(c) ==
    /\ pc[c] = "spend" /\ Rollback(c)
    /\ UNCHANGED <<spent, expired, accounts, session, issued, keys, on, acting, account>>

(* The session is inserted, the row spent, and both commit.                *)
Commit(c) ==
    /\ pc[c] = "spend" /\ Goto(c, "ok")
    /\ LET r == on[c] IN
        /\ spent' = [spent EXCEPT ![r] = TRUE]
        /\ lock' = [lock EXCEPT ![r] = IF @ = c THEN None ELSE @]
        /\ session' = IF r \in Challenges THEN [session EXCEPT ![c] = "live"] ELSE session
        /\ account' = IF r \in Tickets THEN [account EXCEPT ![c] = issued[r]] ELSE account
    /\ accounts' = [w \in Wallets |-> accounts[w] \cup ({c} \cap {claim[w]})]
    /\ claim' = [w \in Wallets |-> IF claim[w] = c THEN None ELSE claim[w]]
    /\ UNCHANGED <<expired, issued, keys, on, acting>>

Expire(r) ==
    /\ ~expired[r] /\ expired' = [expired EXCEPT ![r] = TRUE]
    /\ UNCHANGED <<spent, lock, tableVars, pc, on, acting, account>>

AuthenticateBrowserSession(c, s) ==
    /\ pc[c] = "new" /\ session[s] = "live"
    /\ Goto(c, "act") /\ acting' = [acting EXCEPT ![c] = s]
    /\ UNCHANGED <<rowVars, tableVars, on, account>>

SessionExpires(s) ==
    /\ session[s] = "live" /\ session' = [session EXCEPT ![s] = "ended"]
    /\ UNCHANGED <<rowVars, accounts, claim, issued, keys, pc, on, acting, account>>

(* RevokeBrowserSession reports a session that ended before.               *)
sessionDelete(c) ==
    /\ Goto(c, IF session[acting[c]] = "live" THEN "ok" ELSE "failed")
    /\ session' = [session EXCEPT ![acting[c]] = "ended"]
    /\ UNCHANGED <<rowVars, accounts, claim, issued, keys, on, acting, account>>

CreateStreamTicket(c, t) ==
    /\ issued[t] = None /\ issued' = [issued EXCEPT ![t] = account[acting[c]]]
    /\ Goto(c, "ok")
    /\ UNCHANGED <<rowVars, accounts, claim, session, keys, on, acting, account>>

CreateAPIKey(c, k) ==
    /\ keys[k].account = None
    /\ keys' = [keys EXCEPT ![k].account = account[acting[c]]]
    /\ Goto(c, "ok")
    /\ UNCHANGED <<rowVars, accounts, claim, session, issued, on, acting, account>>

(* apiKeysDelete lists the live keys of the account, then revokes the one  *)
(* it was asked for.                                                       *)
ListAPIKeys(a) == {k \in Keys : keys[k].account = a /\ ~keys[k].revoked}

FindKey(c, k) ==
    /\ on' = [on EXCEPT ![c] = k]
    /\ Goto(c, IF k \in ListAPIKeys(account[acting[c]]) THEN "revoke" ELSE "failed")
    /\ UNCHANGED <<rowVars, tableVars, acting, account>>

RevokeAPIKey(c) ==
    /\ pc[c] = "revoke" /\ keys' = [keys EXCEPT ![on[c]].revoked = TRUE]
    /\ Goto(c, "ok")
    /\ UNCHANGED <<rowVars, accounts, claim, session, issued, on, acting, account>>

Act(c) ==
    /\ pc[c] = "act"
    /\ \/ sessionDelete(c) \/ \E t \in Tickets : CreateStreamTicket(c, t)
       \/ \E k \in Keys : CreateAPIKey(c, k) \/ FindKey(c, k)

(* A call that has begun goes on.                                          *)
Step(c) ==
    \/ SelectAccount(c) \/ InsertAccount(c) \/ TransactionFails(c) \/ Commit(c)
    \/ Act(c) \/ RevokeAPIKey(c)

Next ==
    \/ \E c \in Calls : VerifyWalletChallenge(c) \/ ConsumeStreamTicket(c) \/ Step(c)
                          \/ SessionExpires(c) \/ \E s \in Calls : AuthenticateBrowserSession(c, s)
    \/ \E r \in Rows : Expire(r)

Spec == Init /\ [][Next]_vars

(* The server goes on with every call it has begun.                        *)
FairSpec == Spec /\ \A c \in Calls : WF_vars(Step(c))

-----------------------------------------------------------------------------
(* A challenge makes one session and a ticket opens one stream, whatever   *)
(* calls race for it and however they fail.                                *)
SpentOnce ==
    \A r \in Rows : Cardinality({c \in Calls : pc[c] = "ok" /\ on[c] = r}) <= 1

(* Two first logins of a wallet leave it one account, and every session is *)
(* one of the account of the wallet that signed.                           *)
OneAccountPerWallet ==
    /\ \A w \in Wallets : Cardinality(accounts[w]) <= 1
    /\ \A c \in Calls : session[c] # "none" => account[c] \in accounts[walletOf[on[c]]]

(* No call waits for ever for a row or for the index: what it waits for is *)
(* released by the call that holds it.  There are finitely many calls, so  *)
(* at some time, and again whenever more come, all have returned.          *)
CallsReturn ==
    []<>(/\ \A c \in Calls : pc[c] \in Returned
         /\ \A r \in Rows : lock[r] = None)
=============================================================================
