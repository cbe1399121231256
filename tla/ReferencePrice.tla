--------------------------- MODULE ReferencePrice ---------------------------
(***************************************************************************)
(* The cached MON/USD quote.                                               *)
(*   server/internal/api/price.go                                          *)
(*                                                                         *)
(* Requests share a cache.  One whose cache has expired refreshes it from  *)
(* two sources, outside the lock; the others are answered from the cache.  *)
(* A quote is the time its source gives it, and NoQuote is no quote.          *)
(***************************************************************************)
EXTENDS Integers, FiniteSets

CONSTANTS
  Requests,   \* requests in flight at once
  CacheTTL,   \* age at which the cache is refreshed
  MaxAge,     \* age beyond which a quote is not given
  Skew,       \* how far in the future a quote may lie (a minute in the code)
  MaxTime     \* bound on the clock

NoQuote == -1
Times == 1..MaxTime

VARIABLES
  clock, cached, fetchedAt, refreshing,
  pc,       \* where each request is
  now,      \* the time each request read when it came
  quote,    \* the quote each request holds
  found     \* the quote each request found in the cache

vars == <<clock, cached, fetchedAt, refreshing, pc, now, quote, found>>

Init ==
  /\ clock = 1 /\ cached = NoQuote /\ fetchedAt = NoQuote /\ refreshing = FALSE
  /\ pc = [r \in Requests |-> "out"] /\ now = [r \in Requests |-> 1]
  /\ quote = [r \in Requests |-> NoQuote] /\ found = quote

Expired == fetchedAt = NoQuote \/ clock - fetchedAt >= CacheTTL

\* A request comes: it takes the cached quote and decides who refreshes.
Arrive(r) ==
  /\ pc[r] = "out" /\ now' = [now EXCEPT ![r] = clock] /\ quote' = [quote EXCEPT ![r] = cached]
  /\ found' = [found EXCEPT ![r] = cached]
  /\ refreshing' = (refreshing \/ Expired)
  /\ pc' = [pc EXCEPT ![r] = IF Expired /\ ~refreshing THEN "primary" ELSE "answer"]
  /\ UNCHANGED <<clock, cached, fetchedAt>>

\* validateReferencePrice, with the time the request came.
Valid(r, q) == q <= now[r] + Skew /\ now[r] - q <= MaxAge

\* Either source gives a valid quote, or the next one is tried.
Fetch(r, q) ==
  /\ pc[r] \in {"primary", "fallback"} /\ Valid(r, q)
  /\ pc' = [pc EXCEPT ![r] = "store"] /\ quote' = [quote EXCEPT ![r] = q]
  /\ UNCHANGED <<clock, cached, fetchedAt, refreshing, now, found>>

\* Mutant: a failed refresh returns before it lets the next one in.
ReturnsEarly(r) ==
  /\ pc[r] \in {"primary", "fallback"}
  /\ pc' = [pc EXCEPT ![r] = IF pc[r] = "primary" THEN "fallback" ELSE "answer"]
  /\ UNCHANGED <<clock, cached, fetchedAt, refreshing, now, quote, found>>

FetchFails(r) ==
  /\ pc[r] \in {"primary", "fallback"}
  /\ pc' = [pc EXCEPT ![r] = IF pc[r] = "primary" THEN "fallback" ELSE "finish"]
  /\ UNCHANGED <<clock, cached, fetchedAt, refreshing, now, quote, found>>

Store(r) ==
  /\ pc[r] = "store" /\ cached' = quote[r] /\ pc' = [pc EXCEPT ![r] = "finish"]
  /\ UNCHANGED <<clock, fetchedAt, refreshing, now, quote, found>>

\* A refresh counts from the time its request came, whether it failed or not.
Finish(r) ==
  /\ pc[r] = "finish" /\ fetchedAt' = now[r] /\ refreshing' = FALSE
  /\ pc' = [pc EXCEPT ![r] = "answer"]
  /\ UNCHANGED <<clock, cached, now, quote, found>>

Answer(r) ==
  /\ pc[r] = "answer"
  /\ pc' = [pc EXCEPT ![r] =
       IF quote[r] # NoQuote /\ now[r] - quote[r] <= MaxAge THEN "given" ELSE "refused"]
  /\ UNCHANGED <<clock, cached, fetchedAt, refreshing, now, quote, found>>

Leave(r) ==
  /\ pc[r] \in {"given", "refused"} /\ pc' = [pc EXCEPT ![r] = "out"]
  /\ quote' = [quote EXCEPT ![r] = NoQuote] /\ now' = [now EXCEPT ![r] = 1]
  /\ found' = [found EXCEPT ![r] = NoQuote]
  /\ UNCHANGED <<clock, cached, fetchedAt, refreshing>>

Tick ==
  /\ clock < MaxTime /\ clock' = clock + 1
  /\ UNCHANGED <<cached, fetchedAt, refreshing, pc, now, quote, found>>

Step(r) ==
  \/ FetchFails(r) \/ Store(r) \/ Finish(r) \/ Answer(r) \/ Leave(r)
  \/ \E q \in Times : Fetch(r, q)

Next == Tick \/ \E r \in Requests : Arrive(r) \/ Step(r)

Spec == Init /\ [][Next]_vars

\* A request goes on: its two calls have a timeout.
FairSpec == Spec /\ \A r \in Requests : WF_vars(Step(r))

(***************************************************************************)
(* Properties.                                                             *)
(***************************************************************************)

Fetching == {r \in Requests : pc[r] \in {"primary", "fallback", "store", "finish"}}

\* At most one request at a time is refreshing the quote, and only while the
\* flag keeps the others out.
OneRefresh == Cardinality(Fetching) <= 1 /\ (Fetching # {} => refreshing)

\* Every request is answered rightly: what it is given was not too old when
\* it came, and it is refused only when the cache it found held nothing fresh,
\* whatever has failed or been replaced in the meantime.
FreshIsGiven == \A r \in Requests :
  /\ pc[r] = "given" => quote[r] # NoQuote /\ now[r] - quote[r] <= MaxAge
  /\ pc[r] = "refused" => found[r] = NoQuote \/ now[r] - found[r] > MaxAge

\* A refresh, successful or not, comes to its end and lets the next one in.
RefreshEnds == []<>~refreshing
=============================================================================
