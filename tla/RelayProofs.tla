---------------------------- MODULE RelayProofs -----------------------------
(***************************************************************************)
(* The stream a handler is given is whole, the hub accepts every chunk of  *)
(* a job nobody cancelled, and jobs end with their connection: for any     *)
(* requests, connections, channel sizes and number of faults.              *)
(*                                                                         *)
(* The chunks of a request that wait in the hub's event channel continue   *)
(* the handler's stream, and those on a connection continue what the       *)
(* tracker has counted.  A full event channel breaks the first of the two: *)
(* the tracker counts a chunk that is dropped.  What makes up for it is    *)
(* that the connection is dropped with it, that no other connection        *)
(* carries a chunk of the request, and that the daemon dials again only    *)
(* after the job has ended, so that nothing of it arrives any more.        *)
(***************************************************************************)
EXTENDS Relay, TLAPS

Runs == {"none", "running", "failing", "finished", "failed"}
Handlers == {"none", "offered", "cancelled", "signing", "signed", "failed", "lost"}
Orders == [type : {"offer", "cancel", "proposal"}, request : Requests]
Chunks == [type : {"chunk"}, request : Requests, sequence : Nat,
           kind : {"data", "done", "error"}]
Answers == [type : {"accept", "signature"}, request : Requests]
Capacities == [type : {"capacity"}, offers : SUBSET Offers]
Messages == Chunks \cup Answers \cup Capacities

RelayType ==
    /\ open \subseteq Conns /\ live \subseteq open /\ live \subseteq {conn}
    /\ session \in Conns \cup {Nobody}
    /\ down \in [Conns -> Seq(Orders)]
    /\ up \in [Conns -> Seq(Messages)]
    /\ events \in Seq(Messages)
    /\ stream \in [Requests -> Seq(Chunks)]
    /\ last \in [Requests -> Nat] /\ recorded \in [Requests -> Nat]
    /\ sequence \in [Requests -> Nat]
    /\ ended \subseteq Requests /\ terminal \subseteq Requests
    /\ jobs \subseteq Requests /\ cancelled \subseteq Requests
    /\ run \in [Requests -> Runs] /\ handler \in [Requests -> Handlers]
    /\ configured \subseteq Offers
    /\ cancelling = Nobody \/ cancelling \in cancelled

Offline == phase \in {"dialing", "stopped"} => live = {}

(* A connection nobody reads holds nothing; jobs end before a new dial. *)
ServeAgrees ==
    /\ \A c \in Conns \ open : up[c] = <<>>
    /\ jobs = Running
    /\ phase \in {"dialing", "stopped"} => jobs = {}
    /\ Offline

(* A request is offered once. *)
OfferAt(r, c, i) == down[c][i] = [type |-> "offer", request |-> r]
InFlight(r) == \E c \in Conns : \E i \in DOMAIN down[c] : OfferAt(r, c, i)
Sole(r) ==
    \A c, d \in Conns : \A i \in DOMAIN down[c], j \in DOMAIN down[d] :
        OfferAt(r, c, i) /\ OfferAt(r, d, j) => c = d /\ i = j

OfferAgrees(r) ==
    /\ Sole(r)
    /\ InFlight(r) => run[r] = "none" /\ handler[r] # "none"
    /\ handler[r] = "none" => run[r] = "none"

(* The chunks of a request among messages. *)
Of(m, r) == m.type = "chunk" /\ m.request = r
Has(q, r) == \E i \in DOMAIN q : Of(q[i], r)

(* They are the ones after a up to b, in order. *)
Consecutive(q, r, a, b) ==
    /\ \A i \in DOMAIN q : Of(q[i], r) => q[i].sequence \in a + 1 .. b
    /\ \A n \in a + 1 .. b : \E i \in DOMAIN q : Of(q[i], r) /\ q[i].sequence = n
    /\ \A i, j \in DOMAIN q :
           Of(q[i], r) /\ Of(q[j], r) /\ i < j => q[i].sequence < q[j].sequence

(* Only the last one may end the stream. *)
EndsAt(q, r, b) ==
    \A i \in DOMAIN q : Of(q[i], r) /\ q[i].kind # "data" => q[i].sequence = b

Unstarted(r) ==
    /\ last[r] = 0 /\ recorded[r] = 0
    /\ r \notin ended \cup terminal \cup cancelled
    /\ stream[r] = <<>> /\ ~Has(events, r) /\ \A c \in Conns : ~Has(up[c], r)

(* One connection has all the chunks of a request: that of its job. *)
Place(r) ==
    /\ \A c, d \in Conns : Has(up[c], r) /\ Has(up[d], r) => c = d
    /\ r \in jobs => \A c \in Conns : Has(up[c], r) => c = conn

(* The tracker and the daemon count alike. *)
Counted(r, c, b) ==
    /\ Consecutive(up[c], r, last[r], b) /\ EndsAt(up[c], r, b) /\ last[r] <= b
    /\ Has(up[c], r) => r \notin ended
    /\ r \in jobs /\ c \in live =>
           /\ b = recorded[r] /\ r \notin ended \cup terminal
           /\ \A i \in DOMAIN up[c] : Of(up[c][i], r) => up[c][i].kind = "data"

Tracked(r) == r \notin cancelled => \A c \in open : \E b \in Nat : Counted(r, c, b)

(* The stream and the tracker count alike as long as chunks can arrive. *)
Reach(r) ==
    \/ \E c \in open : Has(up[c], r)
    \/ conn \in live /\ r \in jobs
    \/ run[r] = "none"

Awaited(r, b) ==
    /\ Consecutive(events, r, Len(stream[r]), b) /\ EndsAt(events, r, b)
    /\ Len(stream[r]) <= b
    /\ Reach(r) => b = last[r]
    /\ \A i \in DOMAIN events : Of(events[i], r) /\ events[i].kind # "data" => r \in ended
    /\ \A i \in DOMAIN stream[r] :
           stream[r][i].kind # "data" => r \in ended /\ b = Len(stream[r])

Gapless(r) == handler[r] = "offered" => \E b \in Nat : Awaited(r, b)

Whole(r) ==
    \A i \in DOMAIN stream[r] :
        /\ stream[r][i].sequence = i
        /\ stream[r][i].kind # "data" => i = Len(stream[r])

ChunksAgree(r) ==
    /\ run[r] = "none" => Unstarted(r)
    /\ Place(r) /\ Tracked(r) /\ Gapless(r) /\ Whole(r)

RequestAgrees(r) == OfferAgrees(r) /\ ChunksAgree(r)

RelayInv == RelayType /\ ServeAgrees /\ \A r \in Requests : RequestAgrees(r)

-----------------------------------------------------------------------------
(* Chunks in a channel *)

(* What is appended to a channel comes after what it holds.                *)
LEMMA Appended ==
    ASSUME NEW S, NEW q \in Seq(S), NEW m \in S
    PROVE  /\ Append(q, m) \in Seq(S) /\ Len(q) \in Nat /\ DOMAIN q = 1 .. Len(q)
           /\ Len(Append(q, m)) = Len(q) + 1
           /\ DOMAIN Append(q, m) = 1 .. Len(q) + 1
           /\ \A i \in 1 .. Len(q) : Append(q, m)[i] = q[i]
           /\ Append(q, m)[Len(q) + 1] = m
  OBVIOUS

(* What is read from a channel moves the rest up.                          *)
LEMMA Taken ==
    ASSUME NEW S, NEW q \in Seq(S), q # <<>>
    PROVE  /\ Tail(q) \in Seq(S) /\ Head(q) \in S /\ Head(q) = q[1]
           /\ Len(q) \in Nat \ {0} /\ DOMAIN q = 1 .. Len(q) /\ 1 \in DOMAIN q
           /\ DOMAIN Tail(q) = 1 .. Len(q) - 1
           /\ \A i \in 1 .. Len(q) - 1 : Tail(q)[i] = q[i + 1]
  OBVIOUS

(* The next chunk of a request, published by the hub or written by its job.*)
LEMMA AppendChunk ==
    ASSUME NEW q \in Seq(Messages), NEW m \in Messages, NEW r, NEW a \in Nat, NEW b \in Nat,
           a <= b, Consecutive(q, r, a, b), Of(m, r), m.sequence = b + 1
    PROVE  Consecutive(Append(q, m), r, a, b + 1)
<1> DEFINE p == Append(q, m)
           k == Len(q)
<1>1. /\ k \in Nat /\ DOMAIN q = 1 .. k /\ DOMAIN p = 1 .. k + 1
      /\ \A i \in 1 .. k : p[i] = q[i]
      /\ p[k + 1] = m
  BY Appended
<1> HIDE DEF p, k
<1>2. /\ \A i \in 1 .. k : Of(q[i], r) => q[i].sequence \in a + 1 .. b
      /\ \A n \in a + 1 .. b : \E i \in 1 .. k : Of(q[i], r) /\ q[i].sequence = n
      /\ \A i, j \in 1 .. k :
             Of(q[i], r) /\ Of(q[j], r) /\ i < j => q[i].sequence < q[j].sequence
  BY <1>1, Zenon DEF Consecutive
<1>3. \A i \in DOMAIN p : Of(p[i], r) => p[i].sequence \in a + 1 .. b + 1
  <2> TAKE i \in DOMAIN p
  <2>1. i \in 1 .. k \/ i = k + 1
    BY <1>1
  <2> QED BY <1>1, <1>2, <2>1
<1>4. \A n \in a + 1 .. b + 1 : \E i \in DOMAIN p : Of(p[i], r) /\ p[i].sequence = n
  <2> TAKE n \in a + 1 .. b + 1
  <2>1. CASE n = b + 1
    BY <1>1, <2>1
  <2>2. CASE n # b + 1
    <3>1. n \in a + 1 .. b
      BY <2>2
    <3>2. PICK i \in 1 .. k : Of(q[i], r) /\ q[i].sequence = n
      BY <1>2, <3>1, Zenon
    <3> QED BY <1>1, <3>2
  <2> QED BY <2>1, <2>2, Zenon
<1>5. ASSUME NEW i \in DOMAIN p, NEW j \in DOMAIN p, Of(p[i], r), Of(p[j], r), i < j
      PROVE  p[i].sequence < p[j].sequence
  <2>1. i \in 1 .. k /\ p[i] = q[i]
    BY <1>1, <1>5
  <2>2. CASE j = k + 1
    BY <1>1, <1>2, <1>5, <2>1, <2>2
  <2>3. CASE j \in 1 .. k
    BY <1>1, <1>2, <1>5, <2>1, <2>3, Zenon
  <2> QED BY <1>1, <2>2, <2>3
<1>6. Consecutive(p, r, a, b + 1)
  BY <1>3, <1>4, <1>5, Zenon DEF Consecutive
<1> QED BY <1>6, Zenon DEF p

(* A message that is no chunk of the request says nothing about it.        *)
LEMMA AppendOther ==
    ASSUME NEW q \in Seq(Messages), NEW m \in Messages, NEW r, ~Of(m, r)
    PROVE  /\ Has(Append(q, m), r) <=> Has(q, r)
           /\ \A a, b \in Nat : Consecutive(q, r, a, b) => Consecutive(Append(q, m), r, a, b)
           /\ \A b \in Nat : EndsAt(q, r, b) => EndsAt(Append(q, m), r, b)
<1> DEFINE p == Append(q, m)
           k == Len(q)
<1>1. /\ k \in Nat /\ DOMAIN q = 1 .. k /\ DOMAIN p = 1 .. k + 1
      /\ \A i \in 1 .. k : p[i] = q[i]
      /\ p[k + 1] = m
  BY Appended
<1> HIDE DEF p, k
<1>2. \A i \in DOMAIN p : Of(p[i], r) => i \in DOMAIN q /\ p[i] = q[i]
  BY <1>1
<1>3. \A i \in DOMAIN q : i \in DOMAIN p /\ p[i] = q[i]
  BY <1>1
<1>4. Has(p, r) <=> Has(q, r)
  BY <1>2, <1>3, Zenon DEF Has
<1>5. ASSUME NEW a \in Nat, NEW b \in Nat, Consecutive(q, r, a, b)
      PROVE  Consecutive(p, r, a, b)
  <2>1. \A i \in DOMAIN p : Of(p[i], r) => p[i].sequence \in a + 1 .. b
    BY <1>2, <1>5, Zenon DEF Consecutive
  <2>2. \A n \in a + 1 .. b : \E i \in DOMAIN p : Of(p[i], r) /\ p[i].sequence = n
    BY <1>3, <1>5, Zenon DEF Consecutive
  <2>3. \A i, j \in DOMAIN p :
            Of(p[i], r) /\ Of(p[j], r) /\ i < j => p[i].sequence < p[j].sequence
    BY <1>2, <1>5, Zenon DEF Consecutive
  <2> QED BY <2>1, <2>2, <2>3, Zenon DEF Consecutive
<1>6. ASSUME NEW b \in Nat, EndsAt(q, r, b) PROVE EndsAt(p, r, b)
  BY <1>2, <1>6, Zenon DEF EndsAt
<1> QED BY <1>4, <1>5, <1>6, Zenon DEF p

(* The chunk at the head of a channel is the next one.                     *)
LEMMA TakeChunk ==
    ASSUME NEW q \in Seq(Messages), q # <<>>, NEW r, NEW a \in Nat, NEW b \in Nat,
           Consecutive(q, r, a, b), Of(Head(q), r)
    PROVE  /\ Head(q).sequence = a + 1 /\ a + 1 <= b
           /\ Consecutive(Tail(q), r, a + 1, b)
<1> DEFINE p == Tail(q)
           k == Len(q)
<1>1. /\ k \in Nat \ {0} /\ DOMAIN q = 1 .. k /\ DOMAIN p = 1 .. k - 1
      /\ \A i \in 1 .. k - 1 : p[i] = q[i + 1]
      /\ Head(q) = q[1] /\ 1 \in DOMAIN q
  BY Taken, Zenon
<1> HIDE DEF p, k
<1>2. /\ \A i \in DOMAIN q : Of(q[i], r) => q[i].sequence \in a + 1 .. b
      /\ \A n \in a + 1 .. b : \E i \in DOMAIN q : Of(q[i], r) /\ q[i].sequence = n
      /\ \A i, j \in DOMAIN q :
             Of(q[i], r) /\ Of(q[j], r) /\ i < j => q[i].sequence < q[j].sequence
  BY Zenon DEF Consecutive
<1>3. q[1].sequence \in a + 1 .. b
  BY <1>1, <1>2, Zenon
<1>4. PICK first \in DOMAIN q : Of(q[first], r) /\ q[first].sequence = a + 1
  BY <1>2, <1>3
<1>5. q[1].sequence = a + 1
  <2>1. first = 1 \/ 1 < first
    BY <1>1
  <2>2. 1 < first => q[1].sequence < q[first].sequence
    BY <1>1, <1>2, <1>4, Zenon
  <2> QED BY <1>3, <1>4, <2>1, <2>2
<1>6. \A i \in DOMAIN p : i + 1 \in DOMAIN q /\ 1 < i + 1 /\ p[i] = q[i + 1]
  BY <1>1
<1>7. ASSUME NEW i \in DOMAIN p, Of(p[i], r) PROVE p[i].sequence \in a + 2 .. b
  <2>1. i + 1 \in DOMAIN q /\ 1 < i + 1 /\ p[i] = q[i + 1]
    BY <1>6, Zenon
  <2>2. q[i + 1].sequence \in a + 1 .. b
    BY <1>2, <1>7, <2>1, Zenon
  <2>3. q[1].sequence < q[i + 1].sequence
    BY <1>1, <1>2, <1>7, <2>1, Zenon
  <2> QED BY <1>5, <2>1, <2>2, <2>3
<1>8. ASSUME NEW n \in a + 2 .. b
      PROVE  \E i \in DOMAIN p : Of(p[i], r) /\ p[i].sequence = n
  <2>1. PICK i \in DOMAIN q : Of(q[i], r) /\ q[i].sequence = n
    BY <1>2
  <2>2. i # 1
    BY <1>5, <2>1
  <2>3. i - 1 \in DOMAIN p /\ p[i - 1] = q[i]
    BY <1>1, <2>2
  <2> QED BY <2>1, <2>3, Zenon
<1>9. ASSUME NEW i \in DOMAIN p, NEW j \in DOMAIN p, Of(p[i], r), Of(p[j], r), i < j
      PROVE  p[i].sequence < p[j].sequence
  <2>1. i + 1 < j + 1
    BY <1>1, <1>9
  <2> QED BY <1>2, <1>6, <1>9, <2>1, Zenon
<1>10. (a + 1) + 1 = a + 2
  OBVIOUS
<1>11. Consecutive(p, r, a + 1, b)
  BY <1>7, <1>8, <1>9, <1>10, Zenon DEF Consecutive
<1> QED BY <1>1, <1>3, <1>5, <1>11 DEF p

(* Another message at the head of a channel leaves the chunks as they are. *)
LEMMA TakeOther ==
    ASSUME NEW q \in Seq(Messages), q # <<>>, NEW r, NEW a \in Nat, NEW b \in Nat,
           Consecutive(q, r, a, b), ~Of(Head(q), r)
    PROVE  Consecutive(Tail(q), r, a, b)
<1> DEFINE p == Tail(q)
           k == Len(q)
<1>1. /\ k \in Nat \ {0} /\ DOMAIN q = 1 .. k /\ DOMAIN p = 1 .. k - 1
      /\ \A i \in 1 .. k - 1 : p[i] = q[i + 1]
      /\ Head(q) = q[1] /\ 1 \in DOMAIN q
  BY Taken, Zenon
<1> HIDE DEF p, k
<1>2. /\ \A i \in DOMAIN q : Of(q[i], r) => q[i].sequence \in a + 1 .. b
      /\ \A n \in a + 1 .. b : \E i \in DOMAIN q : Of(q[i], r) /\ q[i].sequence = n
      /\ \A i, j \in DOMAIN q :
             Of(q[i], r) /\ Of(q[j], r) /\ i < j => q[i].sequence < q[j].sequence
  BY Zenon DEF Consecutive
<1>3. \A i \in DOMAIN p : i + 1 \in DOMAIN q /\ p[i] = q[i + 1]
  BY <1>1
<1>4. ASSUME NEW i \in DOMAIN p, Of(p[i], r) PROVE p[i].sequence \in a + 1 .. b
  BY <1>2, <1>3, <1>4, Zenon
<1>5. ASSUME NEW n \in a + 1 .. b
      PROVE  \E i \in DOMAIN p : Of(p[i], r) /\ p[i].sequence = n
  <2>1. PICK i \in DOMAIN q : Of(q[i], r) /\ q[i].sequence = n
    BY <1>2, Zenon
  <2>2. i # 1
    BY <1>1, <2>1, Zenon
  <2>3. i - 1 \in DOMAIN p /\ p[i - 1] = q[i]
    BY <1>1, <2>2
  <2> QED BY <2>1, <2>3, Zenon
<1>6. ASSUME NEW i \in DOMAIN p, NEW j \in DOMAIN p, Of(p[i], r), Of(p[j], r), i < j
      PROVE  p[i].sequence < p[j].sequence
  <2>1. i + 1 < j + 1
    BY <1>1, <1>6
  <2> QED BY <1>2, <1>3, <1>6, <2>1, Zenon
<1>7. Consecutive(p, r, a, b)
  BY <1>4, <1>5, <1>6, Zenon DEF Consecutive
<1> QED BY <1>7, Zenon DEF p

(* What is left in a channel was in it.                                    *)
LEMMA TakeKeeps ==
    ASSUME NEW q \in Seq(Messages), q # <<>>, NEW r
    PROVE  /\ Has(Tail(q), r) => Has(q, r)
           /\ \A b \in Nat : EndsAt(q, r, b) => EndsAt(Tail(q), r, b)
           /\ \A i \in DOMAIN Tail(q) : \E j \in DOMAIN q : Tail(q)[i] = q[j]
<1>1. ASSUME NEW i \in DOMAIN Tail(q) PROVE i + 1 \in DOMAIN q /\ Tail(q)[i] = q[i + 1]
  BY Taken
<1>2. \A i \in DOMAIN Tail(q) : \E j \in DOMAIN q : Tail(q)[i] = q[j]
  BY <1>1, Zenon
<1>3. Has(Tail(q), r) => Has(q, r)
  BY <1>2, Zenon DEF Has
<1>4. ASSUME NEW b \in Nat, EndsAt(q, r, b) PROVE EndsAt(Tail(q), r, b)
  BY <1>2, <1>4, Zenon DEF EndsAt
<1> QED BY <1>2, <1>3, <1>4, Zenon

(* No chunks are the chunks after a up to a, and none of them is the last. *)
LEMMA NoChunks ==
    ASSUME NEW q, NEW r, ~Has(q, r), NEW a \in Nat
    PROVE  Consecutive(q, r, a, a) /\ \A b \in Nat : EndsAt(q, r, b)
<1>1. \A i \in DOMAIN q : ~Of(q[i], r)
  BY Zenon DEF Has
<1>2. \A n \in a + 1 .. a : FALSE
  OBVIOUS
<1> QED BY <1>1, <1>2, Zenon DEF Consecutive, EndsAt

(* Chunks after a up to a are none.                                        *)
LEMMA NoneLeft ==
    ASSUME NEW q, NEW r, NEW a \in Nat, Consecutive(q, r, a, a)
    PROVE  ~Has(q, r)
<1>1. \A i \in DOMAIN q : Of(q[i], r) => q[i].sequence \in a + 1 .. a
  BY Zenon DEF Consecutive
<1> QED BY <1>1 DEF Has

-----------------------------------------------------------------------------
(* Steps that are not about a chunk of the request *)

Keeps(q, p, r) ==
    \/ p = q
    \/ \E m \in Messages : ~Of(m, r) /\ p = Append(q, m)
    \/ q # <<>> /\ ~Of(Head(q), r) /\ p = Tail(q)

(* Such a channel has the chunks it had.                                   *)
LEMMA KeepsChunks ==
    ASSUME NEW q \in Seq(Messages), NEW p, NEW r, Keeps(q, p, r)
    PROVE  /\ Has(p, r) => Has(q, r)
           /\ \A a, b \in Nat : Consecutive(q, r, a, b) => Consecutive(p, r, a, b)
           /\ \A b \in Nat : EndsAt(q, r, b) => EndsAt(p, r, b)
           /\ \A i \in DOMAIN p : Of(p[i], r) => \E j \in DOMAIN q : p[i] = q[j]
<1>1. CASE p = q
  BY <1>1, Zenon
<1>2. ASSUME NEW m \in Messages, ~Of(m, r), p = Append(q, m)
      PROVE  \A i \in DOMAIN p : Of(p[i], r) => \E j \in DOMAIN q : p[i] = q[j]
  <2> TAKE i \in DOMAIN p
  <2>1. i \in DOMAIN q \/ i = Len(q) + 1
    BY <1>2, Appended
  <2> QED BY <1>2, <2>1, Appended
<1>3. CASE \E m \in Messages : ~Of(m, r) /\ p = Append(q, m)
  BY <1>2, <1>3, AppendOther, Zenon
<1>4. CASE q # <<>> /\ ~Of(Head(q), r) /\ p = Tail(q)
  BY <1>4, TakeOther, TakeKeeps, Zenon
<1> QED BY <1>1, <1>3, <1>4, Zenon DEF Keeps

StillFor(r) ==
    /\ last'[r] = last[r] /\ stream'[r] = stream[r] /\ (r \in ended' <=> r \in ended)
    /\ Keeps(events, events', r)
    /\ \A c \in Conns : \/ Keeps(up[c], up'[c], r)
                        \/ ~Has(up'[c], r) /\ (c \notin live' \/ r \notin jobs')
    /\ r \in cancelled => r \in cancelled'
    /\ r \in jobs' => live' \subseteq live /\ conn' = conn /\ (r \in jobs \/ run[r] = "none")
    /\ r \in jobs' /\ conn \in live' /\ r \notin cancelled' =>
           recorded'[r] = recorded[r] /\ (r \in terminal' => r \in terminal)
    /\ run'[r] = "none" =>
           /\ run[r] = "none" /\ recorded'[r] = recorded[r]
           /\ (r \in terminal' => r \in terminal) /\ (r \in cancelled' => r \in cancelled)
    /\ handler'[r] = "offered" => handler[r] \in {"offered", "none"}

(* A request that waits for its job, whose chunks stay where they are.     *)
LEMMA StillKeeps ==
    ASSUME RelayType, ServeAgrees, RelayType', NEW r \in Requests,
           OfferAgrees(r), ChunksAgree(r), StillFor(r)
    PROVE  ChunksAgree(r)'
<1>1. /\ \A c \in Conns : up[c] \in Seq(Messages)
      /\ events \in Seq(Messages) /\ last[r] \in Nat /\ recorded[r] \in Nat
      /\ open \subseteq Conns /\ open' \subseteq Conns
      /\ live \subseteq open /\ live' \subseteq {conn'}
  BY Zenon DEF RelayType
<1>2. \A c \in Conns : Has(up'[c], r) => Has(up[c], r) /\ Keeps(up[c], up'[c], r)
  BY <1>1, KeepsChunks, Zenon DEF StillFor
<1>3. \A c \in Conns : Has(up[c], r) => c \in open
  <2>1. \A c \in Conns \ open : up[c] = <<>>
    BY Zenon DEF ServeAgrees
  <2>2. ~Has(<<>>, r)
    BY DEF Has
  <2> QED BY <2>1, <2>2, Zenon
<1>4. ASSUME run'[r] = "none" PROVE Unstarted(r)'
  <2>1. /\ Unstarted(r) /\ recorded'[r] = recorded[r]
        /\ (r \in terminal' => r \in terminal) /\ (r \in cancelled' => r \in cancelled)
    BY <1>4, Zenon DEF StillFor, ChunksAgree
  <2>2. ~Has(events', r)
    BY <1>1, <2>1, KeepsChunks, Zenon DEF StillFor, Unstarted
  <2>3. \A c \in Conns : ~Has(up'[c], r)
    BY <1>2, <2>1, Zenon DEF Unstarted
  <2> QED BY <2>1, <2>2, <2>3, Zenon DEF StillFor, Unstarted
<1>5. Place(r)'
  <2>1. /\ \A c, d \in Conns : Has(up[c], r) /\ Has(up[d], r) => c = d
        /\ r \in jobs => \A c \in Conns : Has(up[c], r) => c = conn
    BY Zenon DEF ChunksAgree, Place
  <2>2. ASSUME r \in jobs', NEW c \in Conns, Has(up'[c], r) PROVE c = conn'
    <3>1. Has(up[c], r) /\ conn' = conn /\ (r \in jobs \/ run[r] = "none")
      BY <1>2, <2>2, Zenon DEF StillFor
    <3>2. run[r] # "none"
      BY <3>1, Zenon DEF ChunksAgree, Unstarted
    <3> QED BY <2>1, <3>1, <3>2, Zenon
  <2> QED BY <1>2, <2>1, <2>2, Zenon DEF Place
<1>6. Tracked(r)'
  <2> SUFFICES ASSUME r \notin cancelled', NEW c \in open'
               PROVE  \E b \in Nat : Counted(r, c, b)'
    BY Zenon DEF Tracked
  <2>1. c \in Conns /\ r \notin cancelled
    BY <1>1, Zenon DEF StillFor
  <2>2. CASE r \in jobs' /\ c \in live'
    <3>1. /\ c \in live /\ conn' = conn /\ c = conn /\ c \in open
          /\ r \in jobs \/ run[r] = "none"
          /\ Keeps(up[c], up'[c], r)
          /\ recorded'[r] = recorded[r] /\ (r \in terminal' => r \in terminal)
          /\ last'[r] = last[r] /\ (r \in ended' <=> r \in ended)
      BY <1>1, <2>1, <2>2, Zenon DEF StillFor
    <3>2. CASE r \in jobs
      <4>1. PICK b \in Nat : Counted(r, c, b)
        BY <2>1, <3>1, Zenon DEF ChunksAgree, Tracked
      <4>2. /\ Consecutive(up'[c], r, last[r], b) /\ EndsAt(up'[c], r, b)
            /\ Has(up'[c], r) => Has(up[c], r)
            /\ \A i \in DOMAIN up'[c] :
                   Of(up'[c][i], r) => \E j \in DOMAIN up[c] : up'[c][i] = up[c][j]
        <5>1. Consecutive(up[c], r, last[r], b) /\ EndsAt(up[c], r, b)
          BY <4>1, Zenon DEF Counted
        <5>2. /\ \A a, n \in Nat :
                     Consecutive(up[c], r, a, n) => Consecutive(up'[c], r, a, n)
              /\ \A n \in Nat : EndsAt(up[c], r, n) => EndsAt(up'[c], r, n)
              /\ \A i \in DOMAIN up'[c] :
                     Of(up'[c][i], r) => \E j \in DOMAIN up[c] : up'[c][i] = up[c][j]
          BY <1>1, <2>1, <3>1, KeepsChunks
        <5> QED BY <1>1, <1>2, <2>1, <5>1, <5>2, Zenon
      <4>3. /\ last[r] <= b /\ b = recorded[r] /\ r \notin ended \cup terminal
            /\ \A i \in DOMAIN up[c] : Of(up[c][i], r) => up[c][i].kind = "data"
        BY <3>1, <3>2, <4>1, Zenon DEF Counted
      <4>4. \A i \in DOMAIN up'[c] : Of(up'[c][i], r) => up'[c][i].kind = "data"
        BY <4>2, <4>3, Zenon
      <4>5. Counted(r, c, b)'
        BY <3>1, <4>2, <4>3, <4>4, Zenon DEF Counted
      <4> QED BY <4>5, Zenon
    <3>3. CASE run[r] = "none"
      <4>1. Unstarted(r)
        BY <3>3, Zenon DEF ChunksAgree
      <4>2. ~Has(up'[c], r)
        BY <1>2, <2>1, <4>1, Zenon DEF Unstarted
      <4>3. Consecutive(up'[c], r, 0, 0) /\ EndsAt(up'[c], r, 0)
        BY <4>2, NoChunks, Zenon
      <4>4. \A i \in DOMAIN up'[c] : ~Of(up'[c][i], r)
        BY <4>2, Zenon DEF Has
      <4>5. Counted(r, c, 0)'
        BY <3>1, <4>1, <4>2, <4>3, <4>4 DEF Counted, Unstarted
      <4> QED BY <4>5, Zenon
    <3> QED BY <3>1, <3>2, <3>3, Zenon
  <2>3. CASE ~(r \in jobs' /\ c \in live') /\ Has(up'[c], r)
    <3>1. Has(up[c], r) /\ Keeps(up[c], up'[c], r) /\ c \in open
      BY <1>2, <1>3, <2>1, <2>3, Zenon
    <3>2. PICK b \in Nat : Counted(r, c, b)
      BY <2>1, <3>1, Zenon DEF ChunksAgree, Tracked
    <3>3. Consecutive(up'[c], r, last[r], b) /\ EndsAt(up'[c], r, b)
      BY <1>1, <2>1, <3>1, <3>2, KeepsChunks, Zenon DEF Counted
    <3>4. last[r] <= b /\ r \notin ended
      BY <3>1, <3>2, Zenon DEF Counted
    <3>5. last'[r] = last[r] /\ (r \in ended' <=> r \in ended)
      BY Zenon DEF StillFor
    <3>6. Counted(r, c, b)'
      BY <2>3, <3>3, <3>4, <3>5, Zenon DEF Counted
    <3> QED BY <3>6, Zenon
  <2>4. CASE ~(r \in jobs' /\ c \in live') /\ ~Has(up'[c], r)
    <3>1. Consecutive(up'[c], r, last[r], last[r]) /\ EndsAt(up'[c], r, last[r])
      BY <1>1, <2>4, NoChunks, Zenon
    <3>2. last'[r] = last[r]
      BY Zenon DEF StillFor
    <3>3. PICK b \in Nat : b = last[r]
      BY <1>1, Zenon
    <3>4. Counted(r, c, b)'
      BY <1>1, <2>4, <3>1, <3>2, <3>3 DEF Counted
    <3> QED BY <3>4, Zenon
  <2> QED BY <2>2, <2>3, <2>4, Zenon
<1>7. Gapless(r)'
  <2> SUFFICES ASSUME handler'[r] = "offered" PROVE \E b \in Nat : Awaited(r, b)'
    BY Zenon DEF Gapless
  <2>1. Reach(r)' => Reach(r)
    <3>1. ASSUME NEW c \in open', Has(up'[c], r) PROVE Reach(r)
      BY <1>1, <1>2, <1>3, <3>1, Zenon DEF Reach
    <3>2. ASSUME conn' \in live', r \in jobs' PROVE Reach(r)
      BY <3>2, Zenon DEF Reach, StillFor
    <3>3. ASSUME run'[r] = "none" PROVE Reach(r)
      BY <3>3, Zenon DEF Reach, StillFor
    <3> QED BY <3>1, <3>2, <3>3, Zenon DEF Reach
  <2>2. \E b \in Nat : Awaited(r, b)
    <3>1. CASE handler[r] = "offered"
      BY <3>1, Zenon DEF ChunksAgree, Gapless
    <3>2. CASE handler[r] = "none"
      <4>1. Unstarted(r)
        BY <3>2, Zenon DEF ChunksAgree, OfferAgrees
      <4>2. /\ stream[r] = <<>> /\ ~Has(events, r) /\ last[r] = 0
            /\ \A i \in DOMAIN events : ~Of(events[i], r)
        BY <4>1, Zenon DEF Unstarted, Has
      <4>3. Consecutive(events, r, 0, 0) /\ EndsAt(events, r, 0)
        BY <4>2, NoChunks
      <4>4. Len(stream[r]) = 0 /\ DOMAIN stream[r] = {}
        BY <4>2
      <4>5. Awaited(r, 0)
        BY <4>2, <4>3, <4>4 DEF Awaited
      <4> QED BY <4>5, Zenon
    <3> QED BY <3>1, <3>2, Zenon DEF StillFor
  <2>3. PICK b \in Nat : Awaited(r, b)
    BY <2>2, Zenon
  <2>4. /\ last'[r] = last[r] /\ stream'[r] = stream[r] /\ (r \in ended' <=> r \in ended)
        /\ Keeps(events, events', r)
    BY Zenon DEF StillFor
  <2>5. stream[r] \in Seq(Chunks) /\ Len(stream[r]) \in Nat
    BY DEF RelayType
  <2>6. /\ Consecutive(events', r, Len(stream[r]), b) /\ EndsAt(events', r, b)
        /\ \A i \in DOMAIN events' :
               Of(events'[i], r) => \E j \in DOMAIN events : events'[i] = events[j]
    <3>1. Consecutive(events, r, Len(stream[r]), b) /\ EndsAt(events, r, b)
      BY <2>3, Zenon DEF Awaited
    <3>2. /\ \A a, n \in Nat :
                 Consecutive(events, r, a, n) => Consecutive(events', r, a, n)
          /\ \A n \in Nat : EndsAt(events, r, n) => EndsAt(events', r, n)
          /\ \A i \in DOMAIN events' :
                 Of(events'[i], r) => \E j \in DOMAIN events : events'[i] = events[j]
      BY <1>1, <2>4, KeepsChunks
    <3> QED BY <2>5, <3>1, <3>2, Zenon
  <2>7. \A i \in DOMAIN events' : Of(events'[i], r) /\ events'[i].kind # "data" => r \in ended'
    BY <2>3, <2>4, <2>6, Zenon DEF Awaited
  <2>8. Awaited(r, b)'
    BY <2>1, <2>3, <2>4, <2>6, <2>7, Zenon DEF Awaited
  <2> QED BY <2>8, Zenon
<1>8. Whole(r)'
  BY Zenon DEF ChunksAgree, Whole, StillFor
<1> QED BY <1>4, <1>5, <1>6, <1>7, <1>8, Zenon DEF ChunksAgree

-----------------------------------------------------------------------------
(* Steps about a chunk of the request *)

(* The job writes its next chunk; with the last one it has ended.          *)
Writes(r, m) ==
    /\ m \in Chunks /\ m.request = r /\ m.sequence = recorded[r] + 1
    /\ r \in jobs /\ conn \in live /\ r \notin terminal
    /\ up' = [up EXCEPT ![conn] = Append(@, m)]
    /\ recorded' = [recorded EXCEPT ![r] = m.sequence]
    /\ UNCHANGED <<last, ended, events, stream, handler, open, live, conn, cancelled>>
    /\ \/ m.kind = "data" /\ UNCHANGED <<jobs, terminal, run>>
       \/ r \notin jobs' /\ run'[r] # "none"

(* Emit, Finish and Fail continue what the tracker has counted.            *)
LEMMA WriteKeeps ==
    ASSUME RelayType, ServeAgrees, RelayType', NEW r \in Requests, NEW m,
           ChunksAgree(r), Writes(r, m)
    PROVE  ChunksAgree(r)'
<1>1. /\ \A c \in Conns : up[c] \in Seq(Messages)
      /\ last[r] \in Nat /\ recorded[r] \in Nat
      /\ open \subseteq Conns /\ live \subseteq open /\ live \subseteq {conn}
      /\ up \in [Conns -> Seq(Messages)]
  BY Zenon DEF RelayType
<1>2. conn \in Conns /\ conn \in open /\ m \in Messages
  BY <1>1, Zenon DEF Writes, Messages
<1>3. up'[conn] = Append(up[conn], m) /\ \A c \in Conns : c # conn => up'[c] = up[c]
  BY <1>1, <1>2, Zenon DEF Writes
<1>4. r \in jobs /\ run[r] # "none" /\ run'[r] # "none"
  <2>1. jobs = Running
    BY Zenon DEF ServeAgrees
  <2> QED BY <2>1, Zenon DEF Running, Writes
<1>5. Of(m, r)
  BY Zenon DEF Writes, Chunks, Of
<1>6. \A c \in Conns : Has(up[c], r) => c = conn
  BY <1>4, Zenon DEF ChunksAgree, Place
<1>7. \A c \in Conns : Has(up'[c], r) => c = conn
  BY <1>3, <1>6, Zenon
<1>8. Place(r)'
  <2>1. conn' = conn
    BY Zenon DEF Writes
  <2> QED BY <1>7, <2>1, Zenon DEF Place
<1>9. Tracked(r)'
  <2> SUFFICES ASSUME r \notin cancelled', NEW c \in open'
               PROVE  \E b \in Nat : Counted(r, c, b)'
    BY Zenon DEF Tracked
  <2>1. c \in Conns /\ c \in open /\ r \notin cancelled
    BY <1>1, Zenon DEF Writes
  <2>2. PICK b \in Nat : Counted(r, c, b)
    BY <2>1, Zenon DEF ChunksAgree, Tracked
  <2>3. CASE c = conn
    <3>1. /\ Consecutive(up[c], r, last[r], b) /\ EndsAt(up[c], r, b) /\ last[r] <= b
          /\ b = recorded[r] /\ r \notin ended \cup terminal
          /\ \A i \in DOMAIN up[c] : Of(up[c][i], r) => up[c][i].kind = "data"
      BY <1>4, <2>2, <2>3, Zenon DEF Counted, Writes
    <3>2. m.sequence = b + 1
      BY <3>1, Zenon DEF Writes
    <3>3. Consecutive(up'[c], r, last[r], b + 1)
      <4>1. up[c] \in Seq(Messages) /\ up'[c] = Append(up[c], m)
        BY <1>1, <1>3, <2>1, <2>3, Zenon
      <4>2. Consecutive(Append(up[c], m), r, last[r], b + 1)
        BY <1>1, <1>2, <1>5, <3>1, <3>2, <4>1, AppendChunk, Zenon
      <4> QED BY <4>1, <4>2, Zenon
    <3>4. \A i \in DOMAIN up'[c] : \/ i \in DOMAIN up[c] /\ up'[c][i] = up[c][i]
                                 \/ up'[c][i] = m
      <4>1. up[c] \in Seq(Messages) /\ up'[c] = Append(up[c], m)
        BY <1>1, <1>3, <2>1, <2>3, Zenon
      <4> QED BY <1>2, <4>1, Appended
    <3>5. EndsAt(up'[c], r, b + 1)
      BY <3>1, <3>2, <3>4, Zenon DEF EndsAt
    <3>6. /\ last'[r] = last[r] /\ recorded'[r] = b + 1
          /\ last[r] <= b + 1 /\ b + 1 \in Nat /\ r \notin ended'
      BY <1>1, <3>1, <3>2 DEF Writes, RelayType
    <3>7. r \in jobs' => m.kind = "data" /\ r \notin terminal'
      BY Zenon DEF Writes
    <3>8. r \in jobs' => \A i \in DOMAIN up'[c] : Of(up'[c][i], r) => up'[c][i].kind = "data"
      BY <3>1, <3>4, <3>7, Zenon
    <3>9. PICK n \in Nat : n = b + 1
      BY <3>6, Zenon
    <3>10. Counted(r, c, n)'
      BY <3>3, <3>5, <3>6, <3>7, <3>8, <3>9, Zenon DEF Counted
    <3> QED BY <3>10, Zenon
  <2>4. CASE c # conn
    <3>1. up'[c] = up[c] /\ c \notin live' /\ ~Has(up[c], r)
      BY <1>1, <1>3, <1>6, <2>1, <2>4, Zenon DEF Writes
    <3>2. last'[r] = last[r]
      BY Zenon DEF Writes
    <3>3. Counted(r, c, b)'
      BY <2>2, <3>1, <3>2, Zenon DEF Counted
    <3> QED BY <3>3, Zenon
  <2> QED BY <2>3, <2>4, Zenon
<1>10. Gapless(r)'
  <2>1. /\ events' = events /\ stream'[r] = stream[r] /\ last'[r] = last[r] /\ ended' = ended
        /\ handler'[r] = handler[r]
    BY Zenon DEF Writes
  <2>2. Reach(r)
    BY <1>4, Zenon DEF Reach, Writes
  <2>3. ASSUME NEW b \in Nat, Awaited(r, b) PROVE Awaited(r, b)'
    BY <2>1, <2>2, <2>3, Zenon DEF Awaited
  <2> QED BY <2>1, <2>3, Zenon DEF ChunksAgree, Gapless
<1>11. Whole(r)'
  BY Zenon DEF ChunksAgree, Whole, Writes
<1> QED BY <1>4, <1>8, <1>9, <1>10, <1>11, Zenon DEF ChunksAgree

(* The broker hands the handler the next chunk of its request.             *)
LEMMA BrokerKeeps ==
    ASSUME RelayType, ServeAgrees, RelayType', NEW r \in Requests,
           ChunksAgree(r), Broker, Of(Head(events), r)
    PROVE  ChunksAgree(r)'
<1>1. /\ events \in Seq(Messages) /\ events # <<>> /\ events' = Tail(events)
      /\ stream \in [Requests -> Seq(Chunks)] /\ last[r] \in Nat
  BY Zenon DEF RelayType, Broker
<1>2. /\ UNCHANGED <<open, last, ended, handler, live, up, conn>>
      /\ UNCHANGED <<run, jobs, cancelled, recorded, terminal>>
  BY Zenon DEF Broker, serveVars, jobVars
<1>3. Head(events) = events[1] /\ 1 \in DOMAIN events /\ Head(events) \in Messages
  BY <1>1, Taken, Zenon
<1>4. Has(events, r) /\ run[r] # "none"
  BY <1>3, Zenon DEF Has, ChunksAgree, Unstarted
<1>5. Place(r)' /\ Tracked(r)'
  <2>1. Place(r)'
    BY <1>2, Zenon DEF ChunksAgree, Place
  <2>2. ASSUME NEW c \in open, NEW b \in Nat, Counted(r, c, b) PROVE Counted(r, c, b)'
    BY <1>2, <2>2, Zenon DEF Counted
  <2>3. Tracked(r)'
    BY <1>2, <2>2, Zenon DEF ChunksAgree, Tracked
  <2> QED BY <2>1, <2>3, Zenon
<1>6. CASE handler[r] # "offered"
  <2>1. stream' = stream
    BY <1>3, <1>6, Zenon DEF Broker, Of
  <2>2. Gapless(r)' /\ Whole(r)'
    BY <1>2, <1>6, <2>1, Zenon DEF Gapless, ChunksAgree, Whole
  <2> QED BY <1>2, <1>4, <1>5, <2>2, Zenon DEF ChunksAgree
<1>7. CASE handler[r] = "offered"
  <2> DEFINE m == Head(events)
             k == Len(stream[r])
  <2>1. PICK b \in Nat : Awaited(r, b)
    BY <1>7, Zenon DEF ChunksAgree, Gapless
  <2>2. /\ Consecutive(events, r, k, b) /\ EndsAt(events, r, b) /\ k <= b
        /\ Reach(r) => b = last[r]
        /\ \A i \in DOMAIN events : Of(events[i], r) /\ events[i].kind # "data" => r \in ended
        /\ \A i \in DOMAIN stream[r] : stream[r][i].kind # "data" => r \in ended /\ b = k
    BY <2>1, Zenon DEF Awaited
  <2>3. k \in Nat /\ stream[r] \in Seq(Chunks) /\ m \in Chunks
    BY <1>1, <1>3 DEF Of, Messages, Answers, Capacities
  <2>4. m.sequence = k + 1 /\ k + 1 <= b /\ Consecutive(events', r, k + 1, b)
    BY <1>1, <2>2, <2>3, TakeChunk, Zenon
  <2>5. stream'[r] = Append(stream[r], m)
    BY <1>1, <1>7, Zenon DEF Broker, Of
  <2>6. /\ Len(stream'[r]) = k + 1 /\ DOMAIN stream'[r] = 1 .. k + 1
        /\ DOMAIN stream[r] = 1 .. k
        /\ \A i \in 1 .. k : stream'[r][i] = stream[r][i]
        /\ stream'[r][k + 1] = m
    BY <2>3, <2>5, Appended
  <2> HIDE DEF k
  <2>7. \A i \in DOMAIN stream[r] : stream[r][i].kind = "data"
    BY <2>2, <2>3, <2>4
  <2>8. m.kind # "data" => r \in ended /\ m.sequence = b
    BY <1>3, <2>2, Zenon DEF EndsAt
  <2>9. \A i \in DOMAIN stream'[r] :
            stream'[r][i].kind # "data" => i = k + 1 /\ r \in ended /\ b = k + 1
    BY <2>3, <2>4, <2>6, <2>7, <2>8
  <2>10. Whole(r)'
    <3>1. \A i \in DOMAIN stream[r] : stream[r][i].sequence = i
      BY Zenon DEF ChunksAgree, Whole
    <3>2. \A i \in DOMAIN stream'[r] : stream'[r][i].sequence = i
      BY <2>3, <2>4, <2>6, <3>1
    <3> QED BY <2>6, <2>9, <3>2, Zenon DEF Whole
  <2>11. /\ EndsAt(events', r, b)
         /\ \A i \in DOMAIN events' :
                Of(events'[i], r) /\ events'[i].kind # "data" => r \in ended
    BY <1>1, <2>2, TakeKeeps, Zenon
  <2>12. Reach(r)' => b = last'[r]
    BY <1>2, <2>2, Zenon DEF Reach
  <2>13. Awaited(r, b)'
    BY <1>2, <2>4, <2>6, <2>9, <2>11, <2>12, Zenon DEF Awaited
  <2>14. Gapless(r)'
    BY <2>13, Zenon DEF Gapless
  <2> QED BY <1>2, <1>4, <1>5, <2>10, <2>14, Zenon DEF ChunksAgree
<1> QED BY <1>6, <1>7, Zenon

(* The hub accepts the next chunk: tracker and event channel move on.      *)
LEMMA AcceptKeeps ==
    ASSUME RelayType, ServeAgrees, RelayType', NEW r \in Requests, ChunksAgree(r),
           NEW c \in open, up[c] # <<>>, Of(Head(up[c]), r), InSequence(Head(up[c])),
           up' = [up EXCEPT ![c] = Tail(@)],
           events' = Append(events, Head(up[c])),
           last'[r] = Head(up[c]).sequence,
           ended' = IF Head(up[c]).kind = "data" THEN ended ELSE ended \cup {r},
           handler'[r] = "offered" => handler[r] = "offered",
           UNCHANGED <<stream, open, live, conn, cancelled, jobs, run, recorded, terminal>>
    PROVE  ChunksAgree(r)'
<1>1. /\ \A d \in Conns : up[d] \in Seq(Messages)
      /\ last[r] \in Nat /\ open \subseteq Conns /\ live \subseteq {conn}
      /\ up \in [Conns -> Seq(Messages)] /\ events \in Seq(Messages)
      /\ stream[r] \in Seq(Chunks) /\ Len(stream[r]) \in Nat
  BY DEF RelayType
<1>2. PICK m \in Messages : m = Head(up[c])
  BY <1>1, Taken, Zenon
<1>3. /\ Of(m, r) /\ m.sequence = last[r] + 1 /\ r \notin ended
      /\ m.kind = "data" => ended' = ended
  BY <1>2, Zenon DEF Of, InSequence
<1>4. /\ c \in Conns /\ up[c] \in Seq(Messages) /\ up'[c] = Tail(up[c])
      /\ \A d \in Conns : d # c => up'[d] = up[d]
  BY <1>1, Zenon
<1>5. Has(up[c], r)
  <2>1. Head(up[c]) = up[c][1] /\ 1 \in DOMAIN up[c]
    BY <1>4, Taken, Zenon
  <2> QED BY <2>1, Zenon DEF Has
<1>6. run[r] # "none"
  BY <1>4, <1>5, Zenon DEF ChunksAgree, Unstarted
<1>7. \A d \in Conns : Has(up[d], r) => d = c
  BY <1>4, <1>5, Zenon DEF ChunksAgree, Place
<1>8. r \in jobs => c = conn
  BY <1>4, <1>5, Zenon DEF ChunksAgree, Place
<1>9. Has(up'[c], r) => Has(up[c], r)
  BY <1>4, TakeKeeps
<1>10. \A d \in Conns : Has(up'[d], r) => d = c
  BY <1>4, <1>7, Zenon
<1>11. Place(r)'
  BY <1>8, <1>10, Zenon DEF Place
<1>12. Tracked(r)'
  <2> SUFFICES ASSUME r \notin cancelled', NEW d \in open'
               PROVE  \E b \in Nat : Counted(r, d, b)'
    BY Zenon DEF Tracked
  <2>1. CASE d = c
    <3>1. PICK b \in Nat : Counted(r, c, b)
      BY Zenon DEF ChunksAgree, Tracked
    <3>2. Consecutive(up[c], r, last[r], b) /\ EndsAt(up[c], r, b)
      BY <3>1, Zenon DEF Counted
    <3>3. last[r] + 1 <= b /\ Consecutive(Tail(up[c]), r, last[r] + 1, b)
      BY <1>1, <1>4, <3>2, TakeChunk, Zenon
    <3>4. EndsAt(up'[c], r, b)
      <4>1. \A n \in Nat : EndsAt(up[c], r, n) => EndsAt(Tail(up[c]), r, n)
        BY <1>4, TakeKeeps, Zenon
      <4> QED BY <1>4, <3>2, <4>1, Zenon
    <3>5. last'[r] = last[r] + 1
      BY <1>2, <1>3, Zenon
    <3>6. m.kind # "data" => ~Has(up'[c], r)
      <4>1. SUFFICES ASSUME m.kind # "data" PROVE ~Has(up'[c], r)
        OBVIOUS
      <4>2. m.sequence = b
        <5>1. m = up[c][1] /\ 1 \in DOMAIN up[c]
          BY <1>2, <1>4, Taken, Zenon
        <5> QED BY <1>3, <3>2, <4>1, <5>1, Zenon DEF EndsAt
      <4>3. Consecutive(Tail(up[c]), r, b, b)
        BY <1>3, <3>3, <4>2, Zenon
      <4> QED BY <1>4, <4>3, NoneLeft, Zenon
    <3>7. r \in jobs /\ c \in live =>
              /\ b = recorded[r] /\ r \notin ended \cup terminal /\ m.kind = "data"
              /\ \A i \in DOMAIN up[c] : Of(up[c][i], r) => up[c][i].kind = "data"
      <4>1. m = up[c][1] /\ 1 \in DOMAIN up[c]
        BY <1>2, <1>4, Taken, Zenon
      <4> QED BY <1>3, <3>1, <4>1, Zenon DEF Counted
    <3>8. \A i \in DOMAIN up'[c] : \E j \in DOMAIN up[c] : up'[c][i] = up[c][j]
      BY <1>4, TakeKeeps
    <3>9. r \in jobs /\ c \in live =>
              \A i \in DOMAIN up'[c] : Of(up'[c][i], r) => up'[c][i].kind = "data"
      BY <3>7, <3>8, Zenon
    <3>10. Consecutive(up'[c], r, last'[r], b) /\ last'[r] <= b
      BY <1>4, <3>3, <3>5, Zenon
    <3>11. Has(up'[c], r) => r \notin ended'
      BY <1>3, <3>6, Zenon
    <3>12. r \in jobs /\ c \in live => r \notin ended' \cup terminal'
      BY <1>3, <3>7, Zenon
    <3>13. Counted(r, c, b)'
      BY <3>4, <3>7, <3>9, <3>10, <3>11, <3>12, Zenon DEF Counted
    <3> QED BY <2>1, <3>13, Zenon
  <2>2. CASE d # c
    <3>1. ~Has(up'[d], r) /\ last'[r] \in Nat
      BY <1>1, <1>2, <1>3, <1>10, <2>2
    <3>2. PICK b \in Nat : b = last'[r]
      BY <3>1, Zenon
    <3>3. Consecutive(up'[d], r, b, b) /\ EndsAt(up'[d], r, b)
      BY <3>1, NoChunks, Zenon
    <3>4. ~(r \in jobs' /\ d \in live')
      BY <1>1, <1>8, <2>2, Zenon
    <3>5. Counted(r, d, b)'
      BY <3>1, <3>2, <3>3, <3>4 DEF Counted
    <3> QED BY <3>5, Zenon
  <2> QED BY <2>1, <2>2, Zenon
<1>13. Gapless(r)'
  <2> SUFFICES ASSUME handler'[r] = "offered" PROVE \E b \in Nat : Awaited(r, b)'
    BY Zenon DEF Gapless
  <2>1. PICK b \in Nat : Awaited(r, b)
    BY Zenon DEF ChunksAgree, Gapless
  <2>2. Reach(r)
    BY <1>5, Zenon DEF Reach
  <2>3. /\ Consecutive(events, r, Len(stream[r]), b) /\ Len(stream[r]) <= b /\ b = last[r]
        /\ \A i \in DOMAIN events : Of(events[i], r) => events[i].kind = "data"
        /\ \A i \in DOMAIN stream[r] : stream[r][i].kind = "data"
    BY <1>3, <2>1, <2>2, Zenon DEF Awaited
  <2>4. Consecutive(events', r, Len(stream[r]), b + 1)
    <3>1. Consecutive(Append(events, m), r, Len(stream[r]), b + 1)
      BY <1>1, <1>3, <2>3, AppendChunk, Zenon
    <3> QED BY <1>2, <3>1, Zenon
  <2>5. \A i \in DOMAIN events' : \/ i \in DOMAIN events /\ events'[i] = events[i]
                                  \/ events'[i] = m
    BY <1>1, <1>2, Appended
  <2>6. /\ EndsAt(events', r, b + 1)
        /\ \A i \in DOMAIN events' :
               Of(events'[i], r) /\ events'[i].kind # "data" => r \in ended'
    BY <1>2, <1>3, <2>3, <2>5, Zenon DEF EndsAt
  <2>7. PICK n \in Nat : n = b + 1
    OBVIOUS
  <2>8. last'[r] = n /\ Len(stream[r]) <= n
    BY <1>1, <1>2, <1>3, <2>3, <2>7
  <2>9. Awaited(r, n)'
    BY <2>3, <2>4, <2>6, <2>7, <2>8, Zenon DEF Awaited
  <2> QED BY <2>9, Zenon
<1>14. Whole(r)'
  BY Zenon DEF ChunksAgree, Whole
<1> QED BY <1>6, <1>11, <1>12, <1>13, <1>14, Zenon DEF ChunksAgree

(* The hub drops the connection over a chunk, which it may have counted:   *)
(* nothing of the request arrives after that.                              *)
LEMMA DropKeeps ==
    ASSUME RelayType, ServeAgrees, RelayType', NEW r \in Requests, ChunksAgree(r),
           NEW c \in open, up[c] # <<>>, Of(Head(up[c]), r),
           up' = [up EXCEPT ![c] = <<>>],
           open' = open \ {c}, live' = live \ {c}, r \in ended => r \in ended',
           handler'[r] = "offered" => handler[r] = "offered",
           UNCHANGED <<events, stream, conn, cancelled, jobs, run, recorded, terminal>>
    PROVE  ChunksAgree(r)'
<1>1. /\ open \subseteq Conns /\ live \subseteq {conn} /\ last'[r] \in Nat
      /\ up \in [Conns -> Seq(Messages)] /\ c \in Conns /\ up[c] \in Seq(Messages)
  BY Zenon DEF RelayType
<1>2. Has(up[c], r)
  <2>1. Head(up[c]) = up[c][1] /\ 1 \in DOMAIN up[c]
    BY <1>1, Taken, Zenon
  <2> QED BY <2>1, Zenon DEF Has
<1>3. run[r] # "none"
  BY <1>1, <1>2, Zenon DEF ChunksAgree, Unstarted
<1>4. \A d \in Conns : Has(up[d], r) => d = c
  BY <1>1, <1>2, Zenon DEF ChunksAgree, Place
<1>5. r \in jobs => c = conn
  BY <1>1, <1>2, Zenon DEF ChunksAgree, Place
<1>6. \A d \in Conns : ~Has(up'[d], r)
  <2>1. up'[c] = <<>> /\ \A d \in Conns : d # c => up'[d] = up[d]
    BY <1>1, Zenon
  <2>2. ~Has(<<>>, r)
    BY DEF Has
  <2> QED BY <1>4, <2>1, <2>2, Zenon
<1>7. ~(r \in jobs' /\ conn' \in live') /\ \A d \in live' : d = conn'
  BY <1>1, <1>5, Zenon
<1>8. Place(r)'
  BY <1>6, Zenon DEF Place
<1>9. Tracked(r)'
  <2> SUFFICES ASSUME NEW d \in open' PROVE \E b \in Nat : Counted(r, d, b)'
    BY Zenon DEF Tracked
  <2>1. PICK b \in Nat : b = last'[r]
    BY <1>1, Zenon
  <2>2. ~Has(up'[d], r)
    BY <1>1, <1>6, Zenon
  <2>3. Consecutive(up'[d], r, b, b) /\ EndsAt(up'[d], r, b)
    BY <2>2, NoChunks, Zenon
  <2>4. Counted(r, d, b)'
    BY <1>7, <2>1, <2>2, <2>3 DEF Counted
  <2> QED BY <2>4, Zenon
<1>10. Gapless(r)'
  <2>1. ~Reach(r)'
    BY <1>1, <1>3, <1>6, <1>7, Zenon DEF Reach
  <2>2. ASSUME NEW b \in Nat, Awaited(r, b) PROVE Awaited(r, b)'
    BY <2>1, <2>2, Zenon DEF Awaited
  <2> QED BY <2>2, Zenon DEF ChunksAgree, Gapless
<1>11. Whole(r)'
  BY Zenon DEF ChunksAgree, Whole
<1> QED BY <1>3, <1>8, <1>9, <1>10, <1>11, Zenon DEF ChunksAgree

(* After a restart of the server the handlers are lost, and no connection  *)
(* is left.                                                                *)
LEMMA RestartKeeps ==
    ASSUME RelayType, ServeAgrees, NEW r \in Requests, ChunksAgree(r), ServerRestart
    PROVE  ChunksAgree(r)'
<1>1. /\ open' = {} /\ last'[r] = 0 /\ ended' = {} /\ events' = <<>>
      /\ \A c \in Conns : up'[c] = <<>>
      /\ handler'[r] # "offered"
      /\ UNCHANGED <<stream, run, jobs, cancelled, recorded, terminal>>
  BY Zenon DEF ServerRestart, Zero, jobVars
<1>2. ~Has(<<>>, r)
  BY DEF Has
<1>3. run'[r] = "none" => Unstarted(r)'
  BY <1>1, <1>2, Zenon DEF ChunksAgree, Unstarted
<1>4. Place(r)' /\ Tracked(r)' /\ Gapless(r)'
  BY <1>1, <1>2, Zenon DEF Place, Tracked, Gapless
<1>5. Whole(r)'
  BY <1>1, Zenon DEF ChunksAgree, Whole
<1> QED BY <1>3, <1>4, <1>5, Zenon DEF ChunksAgree

-----------------------------------------------------------------------------
(* The types and the daemon's jobs *)

(* Messages to the machine, and messages from it.                          *)
LEMMA PlainTyped ==
    ASSUME NEW r \in Requests
    PROVE  /\ \A type \in {"offer", "cancel", "proposal"} : Plain(type, r) \in Orders
           /\ \A type \in {"accept", "signature"} : Plain(type, r) \in Messages
           /\ \A n \in Nat : \A kind \in {"data", "done", "error"} :
                  Chunk(r, n, kind) \in Chunks /\ Chunk(r, n, kind) \in Messages
  BY Zenon DEF Plain, Orders, Messages, Answers, Chunk, Chunks

(* A capacity message is no chunk.                                         *)
LEMMA CapacityTyped ==
    ASSUME RelayType
    PROVE  Capacity \in Messages /\ \A r : ~Of(Capacity, r)
<1>1. configured \subseteq Offers
  BY Zenon DEF RelayType
<1> QED BY <1>1, Zenon DEF Capacity, Messages, Capacities, Of

(* What has a channel after one more message.                              *)
LEMMA Extended ==
    ASSUME NEW S, NEW f \in [Conns -> Seq(S)], NEW c \in Conns, NEW m \in S
    PROVE  [f EXCEPT ![c] = Append(@, m)] \in [Conns -> Seq(S)]
<1>1. Append(f[c], m) \in Seq(S)
  BY Appended, Zenon
<1> QED BY <1>1, Zenon

(* What has a channel after one message less.                              *)
LEMMA Shortened ==
    ASSUME NEW S, NEW f \in [Conns -> Seq(S)], NEW c \in Conns, f[c] # <<>>
    PROVE  [f EXCEPT ![c] = Tail(@)] \in [Conns -> Seq(S)]
<1>1. Tail(f[c]) \in Seq(S)
  BY Taken, Zenon
<1> QED BY <1>1, Zenon

(* The variables of a step of the daemon that starts, writes and ends no   *)
(* job, apart from its connection.                                         *)
ServeType ==
    /\ open \subseteq Conns /\ live \subseteq open /\ live \subseteq {conn}
    /\ session \in Conns \cup {Nobody}
    /\ down \in [Conns -> Seq(Orders)] /\ up \in [Conns -> Seq(Messages)]
    /\ \A c \in Conns \ open : up[c] = <<>>

HubType ==
    /\ events \in Seq(Messages) /\ stream \in [Requests -> Seq(Chunks)]
    /\ last \in [Requests -> Nat] /\ ended \subseteq Requests
    /\ handler \in [Requests -> Handlers]

WorkType ==
    /\ recorded \in [Requests -> Nat] /\ sequence \in [Requests -> Nat]
    /\ terminal \subseteq Requests /\ jobs \subseteq Requests /\ cancelled \subseteq Requests
    /\ run \in [Requests -> Runs] /\ configured \subseteq Offers
    /\ cancelling = Nobody \/ cancelling \in cancelled
    /\ jobs = Running
    /\ phase \in {"dialing", "stopped"} => jobs = {}

(* The four together are  the type and the daemon's jobs.                  *)
LEMMA TypeParts == (RelayType /\ ServeAgrees) <=> (ServeType /\ HubType /\ WorkType /\ Offline)
  BY Zenon DEF RelayType, ServeAgrees, ServeType, HubType, WorkType

(* What the hub knows has its type after every step.                       *)
LEMMA HubTyped ==
    ASSUME ServeType, HubType, WorkType, [Next]_vars
    PROVE  HubType'
<1> USE DEF HubType
<1>1. CASE UNCHANGED <<events, stream, last, ended, handler>>
  BY <1>1, Zenon
<1>2. ASSUME NEW c \in Conns, HubRead(c) PROVE HubType'
  <2>1. up[c] \in Seq(Messages) /\ up[c] # <<>> /\ AcceptInbound(Head(up[c]), c)
        /\ UNCHANGED stream
    BY <1>2, Zenon DEF HubRead, ServeType
  <2>2. PICK m \in Messages : m = Head(up[c])
    BY <2>1, Taken, Zenon
  <2>3. m.type = "chunk" => m \in Chunks /\ m.request \in Requests /\ m.sequence \in Nat
    BY <2>2, Zenon DEF Messages, Chunks, Answers, Capacities
  <2>4. m.type = "signature" => m.request \in Requests
    BY <2>2, Zenon DEF Messages, Chunks, Answers, Capacities
  <2>5. events' = events \/ events' = Append(events, m)
    BY <2>1, <2>2, Zenon DEF AcceptInbound
  <2>6. events' \in Seq(Messages)
    BY <2>2, <2>5, Appended
  <2>7. last' \in [Requests -> Nat] /\ ended' \subseteq Requests
    BY <2>1, <2>2, <2>3, Zenon DEF AcceptInbound
  <2>8. handler' \in [Requests -> Handlers]
    BY <2>1, <2>2, <2>4, Zenon DEF AcceptInbound, Handlers
  <2> QED BY <2>1, <2>6, <2>7, <2>8, Zenon
<1>3. CASE Broker
  <2>1. events # <<>> /\ events' = Tail(events) /\ UNCHANGED <<last, ended, handler>>
    BY <1>3, Zenon DEF Broker
  <2>2. events' \in Seq(Messages) /\ Head(events) \in Messages
    BY <2>1, Taken, Zenon
  <2>3. PICK m \in Messages : m = Head(events)
    BY <2>2, Zenon
  <2>4. m.type = "chunk" => m \in Chunks /\ m.request \in Requests
    BY <2>3, Zenon DEF Messages, Chunks, Answers, Capacities
  <2>5. \/ stream' = stream
        \/ m.type = "chunk" /\ stream' = [stream EXCEPT ![m.request] = Append(@, m)]
    BY <1>3, <2>3, Zenon DEF Broker
  <2>6. stream' \in [Requests -> Seq(Chunks)]
    <3>1. ASSUME NEW r \in Requests, m \in Chunks
          PROVE  [stream EXCEPT ![r] = Append(@, m)] \in [Requests -> Seq(Chunks)]
      <4>1. Append(stream[r], m) \in Seq(Chunks)
        BY <3>1, Appended, Zenon
      <4> QED BY <4>1, Zenon
    <3> QED BY <2>4, <2>5, <3>1, Zenon
  <2> QED BY <2>1, <2>2, <2>6, Zenon
<1>4. CASE ServerRestart
  <2>1. /\ last' = Zero /\ ended' = {} /\ events' = <<>> /\ UNCHANGED stream
        /\ handler' = [r \in Requests |-> IF handler[r] = "none" THEN "none" ELSE "lost"]
    BY <1>4, Zenon DEF ServerRestart
  <2> QED BY <2>1 DEF Zero, Handlers
<1>5. ASSUME NEW r \in Requests, Offer(r) \/ Cancel(r) \/ Propose(r) PROVE HubType'
  <2>1. /\ UNCHANGED <<events, stream, last, ended>>
        /\ \E to \in Handlers : handler' = [handler EXCEPT ![r] = to]
    BY <1>5, Zenon DEF Offer, Cancel, Propose, Send, Handlers
  <2> QED BY <2>1, Zenon
<1>6. ASSUME NEW c \in Conns, EndLoop(c) \/ Expire(c) \/ LoseConnection(c) PROVE HubType'
  BY <1>1, <1>6, Zenon DEF EndLoop, Expire, LoseConnection, hubVars
<1>7. ASSUME CancelState \/ Dial \/ ReadFails \/ Closed \/ Drain \/ DrainTimeout \/ Stopped
      PROVE  HubType'
  BY <1>1, <1>7, Zenon
     DEF CancelState, Dial, ReadFails, Closed, Drain, DrainTimeout, Stopped, hubVars
<1>8. ASSUME NEW r \in Requests, startJob(r) \/ CancelContext(r) \/ signProposal(r)
      PROVE  HubType'
  BY <1>1, <1>8, Zenon DEF startJob, CancelContext, signProposal, hubVars
<1>9. ASSUME NEW r \in Requests, Emit(r) \/ Finish(r) \/ Fail(r) PROVE HubType'
  BY <1>1, <1>9, Zenon DEF Emit, Finish, Fail, hubVars
<1>10. ASSUME heartbeat \/ UpdateBackends \/ Stop PROVE HubType'
  BY <1>1, <1>10, Zenon DEF heartbeat, UpdateBackends, Stop, hubVars
<1>11. CASE UNCHANGED vars
  BY <1>1, <1>11, Zenon DEF vars
<1> QED
  BY <1>2, <1>3, <1>4, <1>5, <1>6, <1>7, <1>8, <1>9, <1>10, <1>11, Zenon
     DEF Next, Hub, Serve, Fault, Job

(* The daemon's jobs are the ones that run, and none runs without a        *)
(* connection or one to be closed.                                         *)
LEMMA WorkTyped ==
    ASSUME ServeType, HubType, WorkType, [Next]_vars
    PROVE  WorkType'
<1>1. /\ recorded \in [Requests -> Nat] /\ sequence \in [Requests -> Nat]
      /\ terminal \subseteq Requests /\ jobs \subseteq Requests /\ cancelled \subseteq Requests
      /\ run \in [Requests -> Runs] /\ configured \subseteq Offers
      /\ cancelling = Nobody \/ cancelling \in cancelled
      /\ jobs = Running
      /\ phase \in {"dialing", "stopped"} => jobs = {}
  BY Zenon DEF WorkType
<1>2. ASSUME UNCHANGED jobVars, UNCHANGED <<cancelling, configured>>,
             phase' \in {"dialing", "stopped"} =>
                 phase \in {"dialing", "stopped"} \/ Unfinished = {}
      PROVE  WorkType'
  <2>1. Running' = Running /\ Unfinished = jobs
    BY <1>1, <1>2, Zenon DEF jobVars, Running, Unfinished
  <2> QED BY <1>1, <1>2, <2>1, Zenon DEF WorkType, jobVars
<1>3. ASSUME UNCHANGED serveVars, UNCHANGED jobVars PROVE WorkType'
  BY <1>2, <1>3, Zenon DEF serveVars
<1>4. ASSUME NEW c \in Conns, HubRead(c) \/ EndLoop(c) \/ Expire(c) \/ LoseConnection(c)
      PROVE  WorkType'
  BY <1>3, <1>4, Zenon DEF HubRead, EndLoop, Expire, LoseConnection
<1>5. ASSUME Broker \/ ServerRestart \/ heartbeat PROVE WorkType'
  BY <1>3, <1>5, Zenon DEF Broker, ServerRestart, heartbeat
<1>6. ASSUME NEW r \in Requests, Offer(r) \/ Cancel(r) \/ Propose(r) \/ signProposal(r)
      PROVE  WorkType'
  BY <1>3, <1>6, Zenon DEF Offer, Cancel, Propose, signProposal
<1>7. CASE UNCHANGED vars
  BY <1>3, <1>7, Zenon DEF vars, serveVars, jobVars
<1>8. CASE Stop \/ Dial \/ Drain \/ Closed \/ Stopped
  <2>1. UNCHANGED jobVars /\ UNCHANGED <<cancelling, configured>>
    BY <1>8, Zenon DEF Stop, Dial, Drain, Closed, Stopped
  <2>2. phase' \in {"dialing", "stopped"} =>
            phase \in {"dialing", "stopped"} \/ Unfinished = {}
    BY <1>8, Zenon DEF Stop, Dial, Drain, Closed, Stopped
  <2> QED BY <1>2, <2>1, <2>2, Zenon
<1>9. CASE UpdateBackends
  <2>1. UNCHANGED jobVars /\ UNCHANGED <<cancelling, phase>> /\ configured' \subseteq Offers
    BY <1>1, <1>9, Zenon DEF UpdateBackends
  <2>2. Running' = Running
    BY <2>1, Zenon DEF jobVars, Running
  <2> QED BY <1>1, <2>1, <2>2, Zenon DEF WorkType, jobVars
<1>10. CASE ReadFails \/ DrainTimeout
  <2>1. /\ UNCHANGED <<cancelling, configured, run, jobs, sequence, recorded, terminal>>
        /\ cancelled' = cancelled \cup jobs
        /\ phase' \notin {"dialing", "stopped"}
    BY <1>10, Zenon DEF ReadFails, DrainTimeout, cancelAll, serveVars
  <2>2. Running' = Running
    BY <2>1, Zenon DEF Running
  <2>3. cancelled' \subseteq Requests /\ (cancelling' = Nobody \/ cancelling' \in cancelled')
    BY <1>1, <2>1, Zenon
  <2> QED BY <1>1, <2>1, <2>2, <2>3, Zenon DEF WorkType
<1>11. CASE CancelState
  <2>1. /\ UNCHANGED <<configured, phase, run, jobs, cancelled, sequence, recorded>>
        /\ terminal' = terminal \cup {cancelling} /\ cancelling' = Nobody
        /\ cancelling # Nobody
    BY <1>11, Zenon DEF CancelState
  <2>2. Running' = Running
    BY <2>1, Zenon DEF Running
  <2>3. terminal' \subseteq Requests
    BY <1>1, <2>1, Zenon
  <2> QED BY <1>1, <2>1, <2>2, <2>3, Zenon DEF WorkType
<1>12. ASSUME NEW r \in Requests, CancelContext(r) PROVE WorkType'
  <2>1. /\ UNCHANGED <<configured, phase, run, jobs, sequence, recorded, terminal>>
        /\ cancelled' = IF r \in jobs THEN cancelled \cup {r} ELSE cancelled
        /\ cancelling' = IF r \in jobs THEN r ELSE Nobody
    BY <1>12, Zenon DEF CancelContext
  <2>2. Running' = Running
    BY <2>1, Zenon DEF Running
  <2>3. cancelled' \subseteq Requests /\ (cancelling' = Nobody \/ cancelling' \in cancelled')
    BY <1>1, <2>1, Zenon
  <2> QED BY <1>1, <2>1, <2>2, <2>3, Zenon DEF WorkType
<1>13. ASSUME NEW r \in Requests, startJob(r) PROVE WorkType'
  <2>1. /\ UNCHANGED <<configured, cancelling, sequence, recorded, terminal>>
        /\ phase = "serving"
        /\ \/ /\ run' = [run EXCEPT ![r] = "running"] /\ jobs' = jobs \cup {r}
              /\ UNCHANGED <<phase, cancelled>>
           \/ /\ phase' = "closing" /\ cancelled' = cancelled \cup jobs
              /\ UNCHANGED <<run, jobs>>
    BY <1>13, Zenon DEF startJob, cancelAll, ReadMessage
  <2>2. run' \in [Requests -> Runs] /\ jobs' \subseteq Requests /\ cancelled' \subseteq Requests
    BY <1>1, <2>1, Zenon DEF Runs
  <2>3. jobs' = Running'
    BY <1>1, <2>1, Zenon DEF Running
  <2>4. phase' \notin {"dialing", "stopped"} /\ (cancelling' = Nobody \/ cancelling' \in cancelled')
    BY <1>1, <2>1, Zenon
  <2> QED BY <1>1, <2>1, <2>2, <2>3, <2>4, Zenon DEF WorkType
<1>14. ASSUME NEW r \in Requests, Emit(r) PROVE WorkType'
  <2>1. /\ UNCHANGED <<configured, cancelling, phase, jobs, cancelled, terminal>>
        /\ run[r] = "running"
        /\ sequence' = [sequence EXCEPT ![r] = @ + 1]
        /\ recorded' = recorded \/ recorded' = [recorded EXCEPT ![r] = sequence[r] + 1]
        /\ run' = run \/ run' = [run EXCEPT ![r] = "failing"]
    BY <1>14, Zenon DEF Emit, serveVars
  <2>2. /\ sequence' \in [Requests -> Nat] /\ recorded' \in [Requests -> Nat]
        /\ run' \in [Requests -> Runs]
    BY <1>1, <2>1 DEF Runs
  <2>3. jobs' = Running'
    BY <1>1, <2>1, Zenon DEF Running
  <2> QED BY <1>1, <2>1, <2>2, <2>3, Zenon DEF WorkType
<1>15. ASSUME NEW r \in Requests, Finish(r) \/ Fail(r) PROVE WorkType'
  <2>1. /\ UNCHANGED <<configured, cancelling, phase, cancelled>>
        /\ sequence' = [sequence EXCEPT ![r] = @ + 1]
        /\ recorded' = recorded \/ recorded' = [recorded EXCEPT ![r] = sequence[r] + 1]
        /\ terminal' = terminal \/ terminal' = terminal \cup {r}
        /\ jobs' = jobs \ {r}
        /\ \E as \in {"finished", "failed"} : run' = [run EXCEPT ![r] = as]
    BY <1>15, Zenon DEF Finish, Fail, removeJob, serveVars
  <2>2. sequence' \in [Requests -> Nat] /\ recorded' \in [Requests -> Nat]
    BY <1>1, <2>1
  <2>3. terminal' \subseteq Requests /\ jobs' \subseteq Requests
    BY <1>1, <2>1, Zenon
  <2>4. PICK as \in {"finished", "failed"} : run' = [run EXCEPT ![r] = as]
    BY <2>1, Zenon
  <2>5. run' \in [Requests -> Runs]
    BY <1>1, <2>4, Zenon DEF Runs
  <2>6. jobs' = Running'
    BY <1>1, <2>1, <2>4, Zenon DEF Running
  <2>7. phase' \in {"dialing", "stopped"} => jobs' = {}
    BY <1>1, <2>1, Zenon
  <2> QED BY <1>1, <2>1, <2>2, <2>3, <2>5, <2>6, <2>7, Zenon DEF WorkType
<1> QED
  BY <1>4, <1>5, <1>6, <1>7, <1>8, <1>9, <1>10, <1>11, <1>12, <1>13, <1>14, <1>15, Zenon
     DEF Next, Hub, Serve, Fault, Job

(* A job writes to its connection or to none.                              *)
LEMMA JobWrites ==
    ASSUME ServeType, WorkType, NEW r \in Requests, Job(r)
    PROVE  /\ UNCHANGED <<open, session, down, conn>>
           /\ live' = live \/ live' = live \ {conn}
           /\ \/ up' = up
              \/ /\ conn \in live /\ live' = live
                 /\ \E kind \in {"data", "done", "error"} :
                        up' = [up EXCEPT ![conn] = Append(@, Chunk(r, sequence[r] + 1, kind))]
<1>1. UNCHANGED <<open, session, down, conn>>
  BY Zenon DEF Job, Emit, Finish, Fail, hubVars, serveVars
<1>2. ASSUME WriteFails(r)
      PROVE  up' = up /\ (live' = live \/ live' = live \ {conn})
  BY <1>2, Zenon DEF WriteFails
<1>3. ASSUME NEW m, Written(m)
      PROVE  /\ live' = live
             /\ \/ up' = up
                \/ conn \in live /\ up' = [up EXCEPT ![conn] = Append(@, m)]
  BY <1>3, Zenon DEF Written
<1>4. \/ up' = up /\ live' = live
      \/ WriteFails(r)
      \/ \E kind \in {"data", "done", "error"} : Written(Chunk(r, sequence[r] + 1, kind))
  BY Zenon DEF Job, Emit, Finish, Fail
<1> QED BY <1>1, <1>2, <1>3, <1>4, Zenon

(* Only the daemon's connection carries messages, and only while the hub   *)
(* reads it.                                                               *)
LEMMA ServeTyped ==
    ASSUME ServeType, HubType, WorkType, Offline, [Next]_vars
    PROVE  ServeType'
<1>1. /\ open \subseteq Conns /\ live \subseteq open /\ live \subseteq {conn}
      /\ session \in Conns \cup {Nobody}
      /\ down \in [Conns -> Seq(Orders)] /\ up \in [Conns -> Seq(Messages)]
      /\ \A c \in Conns \ open : up[c] = <<>>
      /\ RelayType
  BY TypeParts, Zenon DEF ServeType, WorkType, HubType, RelayType
<1>2. ASSUME UNCHANGED <<open, session, up>>, live' \subseteq live, live' \subseteq {conn'},
             down' \in [Conns -> Seq(Orders)]
      PROVE  ServeType'
  BY <1>1, <1>2, Zenon DEF ServeType
<1>3. ASSUME NEW c \in Conns, HubRead(c) PROVE ServeType'
  <2>1. /\ c \in open /\ up[c] # <<>> /\ UNCHANGED <<down, conn>>
        /\ \/ /\ UNCHANGED <<live, open, session>>
              /\ up' = [up EXCEPT ![c] = Tail(@)]
           \/ /\ live' = live \ {c} /\ open' = open \ {c} /\ unregister(c)
              /\ up' = [up EXCEPT ![c] = <<>>]
    BY <1>3, Zenon DEF HubRead, AcceptInbound, serveVars
  <2>2. up' \in [Conns -> Seq(Messages)]
    <3>1. [up EXCEPT ![c] = Tail(@)] \in [Conns -> Seq(Messages)]
      BY <1>1, <2>1, Shortened, Zenon
    <3>2. [up EXCEPT ![c] = <<>>] \in [Conns -> Seq(Messages)]
      BY <1>1
    <3> QED BY <2>1, <3>1, <3>2, Zenon
  <2>3. session' \in Conns \cup {Nobody}
    BY <1>1, <2>1, Zenon DEF unregister
  <2>4. /\ open' \subseteq Conns /\ live' \subseteq open' /\ live' \subseteq {conn'}
        /\ \A d \in Conns \ open' : up'[d] = <<>>
    BY <1>1, <2>1, Zenon
  <2> QED BY <1>1, <2>1, <2>2, <2>3, <2>4, Zenon DEF ServeType
<1>4. ASSUME NEW c \in Conns, EndLoop(c) PROVE ServeType'
  <2>1. /\ c \in open \ live /\ open' = open \ {c} /\ unregister(c)
        /\ up' = [up EXCEPT ![c] = <<>>] /\ UNCHANGED <<down, live, conn>>
    BY <1>4, Zenon DEF EndLoop, serveVars
  <2>2. session' \in Conns \cup {Nobody}
    BY <1>1, <2>1, Zenon DEF unregister
  <2>3. up' \in [Conns -> Seq(Messages)] /\ \A d \in Conns \ open' : up'[d] = <<>>
    BY <1>1, <2>1
  <2> QED BY <1>1, <2>1, <2>2, <2>3, Zenon DEF ServeType
<1>5. ASSUME NEW c \in Conns, Expire(c) PROVE ServeType'
  <2>1. unregister(c) /\ live' = live \ {c} /\ UNCHANGED <<open, down, up, conn>>
    BY <1>5, Zenon DEF Expire, serveVars
  <2>2. session' \in Conns \cup {Nobody}
    BY <1>1, <2>1, Zenon DEF unregister
  <2> QED BY <1>1, <2>1, <2>2, Zenon DEF ServeType
<1>6. ASSUME NEW c \in Conns, LoseConnection(c) PROVE ServeType'
  <2>1. live' = live \ {c} /\ UNCHANGED <<open, session, up, down, conn>>
    BY <1>6, Zenon DEF LoseConnection, hubVars, serveVars
  <2> QED BY <1>1, <1>2, <2>1, Zenon
<1>7. CASE ServerRestart
  <2>1. /\ session' = Nobody /\ open' = {} /\ live' = {} /\ up' = [c \in Conns |-> <<>>]
        /\ UNCHANGED down
    BY <1>7, Zenon DEF ServerRestart
  <2> QED BY <1>1, <2>1 DEF ServeType
<1>8. CASE Broker \/ UpdateBackends \/ Stop \/ CancelState \/ ReadFails \/ DrainTimeout
           \/ UNCHANGED vars
  <2>1. UNCHANGED <<open, session, up, down, live, conn>>
    BY <1>8, Zenon DEF Broker, UpdateBackends, Stop, CancelState, ReadFails, DrainTimeout, vars,
                       hubVars, serveVars
  <2> QED BY <1>1, <1>2, <2>1, Zenon
<1>9. CASE Drain
  <2>1. live' \in {live, live \ {conn}} /\ UNCHANGED <<open, session, up, down, conn>>
    BY <1>9, Zenon DEF Drain, hubVars
  <2> QED BY <1>1, <1>2, <2>1, Zenon
<1>10. CASE Closed \/ Stopped
  <2>1. /\ live' = live \ {conn} /\ UNCHANGED <<open, session, up>>
        /\ down' = [c \in Conns |-> IF c = conn THEN <<>> ELSE down[c]]
    BY <1>10, Zenon DEF Closed, Stopped, hubVars
  <2>2. live' = {} /\ down' \in [Conns -> Seq(Orders)]
    BY <1>1, <2>1
  <2> QED BY <1>2, <2>1, <2>2, Zenon
<1>11. CASE Dial
  <2>1. PICK c \in Conns \ open : Connect(c) /\ conn' = c
    BY <1>11, Zenon DEF Dial
  <2>2. /\ session' = c /\ open' = open \cup {c} /\ live' = (live \ {session}) \cup {c}
        /\ down' = [down EXCEPT ![c] = <<>>] /\ up' = [up EXCEPT ![c] = <<Capacity>>]
    BY <2>1, Zenon DEF Connect
  <2>3. <<Capacity>> \in Seq(Messages)
    BY <1>1, CapacityTyped
  <2>4. /\ up' \in [Conns -> Seq(Messages)] /\ down' \in [Conns -> Seq(Orders)]
        /\ \A d \in Conns \ open' : up'[d] = <<>>
    BY <1>1, <2>1, <2>2, <2>3
  <2>5. live' = {c}
    BY <1>11, <2>2, Zenon DEF Dial, Offline
  <2> QED BY <1>1, <2>1, <2>2, <2>4, <2>5, Zenon DEF ServeType
<1>12. ASSUME NEW r \in Requests, Offer(r) \/ Cancel(r) \/ Propose(r) PROVE ServeType'
  <2>1. UNCHANGED <<open, session, up, live, conn>>
    BY <1>12, Zenon DEF Offer, Cancel, Propose, serveVars
  <2>2. \/ down' = down
        \/ \E type \in {"offer", "cancel", "proposal"} :
               session # Nobody /\ down' = [down EXCEPT ![session] = Append(@, Plain(type, r))]
    BY <1>12, Zenon DEF Offer, Cancel, Propose, Send
  <2>3. down' \in [Conns -> Seq(Orders)]
    <3>1. ASSUME NEW type \in {"offer", "cancel", "proposal"}, session # Nobody
          PROVE  [down EXCEPT ![session] = Append(@, Plain(type, r))] \in [Conns -> Seq(Orders)]
      <4>1. Plain(type, r) \in Orders /\ session \in Conns
        BY <1>1, <3>1, PlainTyped, Zenon
      <4> QED BY <1>1, <4>1, Extended, Zenon
    <3> QED BY <1>1, <2>2, <3>1, Zenon
  <2> QED BY <1>1, <1>2, <2>1, <2>3, Zenon
<1>13. ASSUME NEW r \in Requests, startJob(r) \/ CancelContext(r) \/ signProposal(r)
       PROVE  ServeType'
  <2>1. /\ UNCHANGED <<open, session, live, conn>> /\ conn \in live /\ down[conn] # <<>>
        /\ down' = [down EXCEPT ![conn] = Tail(@)]
    BY <1>13, Zenon DEF startJob, CancelContext, signProposal, ReadMessage, hubVars, serveVars
  <2>2. \/ up' = up
        \/ \E type \in {"accept", "signature"} :
               up' = [up EXCEPT ![conn] = Append(@, Plain(type, r))]
    BY <1>13, Zenon DEF startJob, CancelContext, signProposal
  <2>3. conn \in Conns /\ conn \in open
    BY <1>1, <2>1, Zenon
  <2>4. down' \in [Conns -> Seq(Orders)]
    BY <1>1, <2>1, <2>3, Shortened, Zenon
  <2>5. up' \in [Conns -> Seq(Messages)]
    <3>1. ASSUME NEW type \in {"accept", "signature"}
          PROVE  [up EXCEPT ![conn] = Append(@, Plain(type, r))] \in [Conns -> Seq(Messages)]
      <4>1. Plain(type, r) \in Messages
        BY PlainTyped, Zenon
      <4> QED BY <1>1, <2>3, <4>1, Extended, Zenon
    <3> QED BY <1>1, <2>2, <3>1, Zenon
  <2>6. \A d \in Conns \ open' : up'[d] = <<>>
    BY <1>1, <2>1, <2>2, <2>3, Zenon
  <2> QED BY <1>1, <2>1, <2>4, <2>5, <2>6, Zenon DEF ServeType
<1>14. CASE heartbeat
  <2>1. /\ conn \in live /\ up' = [up EXCEPT ![conn] = Append(@, Capacity)]
        /\ UNCHANGED <<open, session, down, live, conn>>
    BY <1>14, Zenon DEF heartbeat, hubVars, serveVars
  <2>2. conn \in Conns /\ conn \in open /\ Capacity \in Messages
    BY <1>1, <2>1, CapacityTyped, Zenon
  <2>3. up' \in [Conns -> Seq(Messages)]
    BY <1>1, <2>1, <2>2, Extended, Zenon
  <2>4. \A d \in Conns \ open' : up'[d] = <<>>
    BY <1>1, <2>1, <2>2, Zenon
  <2> QED BY <1>1, <2>1, <2>3, <2>4, Zenon DEF ServeType
<1>15. ASSUME NEW r \in Requests, Job(r) PROVE ServeType'
  <2>1. /\ UNCHANGED <<open, session, down, conn>>
        /\ live' = live \/ live' = live \ {conn}
        /\ \/ up' = up
           \/ /\ conn \in live /\ live' = live
              /\ \E kind \in {"data", "done", "error"} :
                     up' = [up EXCEPT ![conn] = Append(@, Chunk(r, sequence[r] + 1, kind))]
    BY <1>15, JobWrites, Zenon
  <2>2. sequence[r] + 1 \in Nat
    BY DEF WorkType
  <2>3. up' \in [Conns -> Seq(Messages)]
    <3>1. ASSUME NEW kind \in {"data", "done", "error"}, conn \in live
          PROVE  [up EXCEPT ![conn] = Append(@, Chunk(r, sequence[r] + 1, kind))]
                     \in [Conns -> Seq(Messages)]
      <4>1. Chunk(r, sequence[r] + 1, kind) \in Messages /\ conn \in Conns
        BY <1>1, <2>2, <3>1, PlainTyped, Zenon
      <4> QED BY <1>1, <4>1, Extended, Zenon
    <3> QED BY <1>1, <2>1, <3>1, Zenon
  <2>4. \A d \in Conns \ open' : up'[d] = <<>>
    BY <1>1, <2>1, Zenon
  <2> QED BY <1>1, <2>1, <2>3, <2>4, Zenon DEF ServeType
<1> QED
  BY <1>3, <1>4, <1>5, <1>6, <1>7, <1>8, <1>9, <1>10, <1>11, <1>12, <1>13, <1>14, <1>15, Zenon
     DEF Next, Hub, Serve, Fault

(* The daemon dials without a connection.                                  *)
LEMMA OfflineKept ==
    ASSUME ServeType, WorkType, Offline, [Next]_vars
    PROVE  Offline'
<1>1. live \subseteq {conn}
  BY Zenon DEF ServeType
<1>2. ASSUME live' \subseteq live, phase' = phase \/ phase' \notin {"dialing", "stopped"}
      PROVE  Offline'
  BY <1>2, Zenon DEF Offline
<1>3. ASSUME NEW c \in Conns, HubRead(c) \/ EndLoop(c) \/ Expire(c) \/ LoseConnection(c)
      PROVE  Offline'
  <2>1. phase' = phase /\ live' \subseteq live
    BY <1>3, Zenon DEF HubRead, AcceptInbound, EndLoop, Expire, LoseConnection, serveVars
  <2> QED BY <1>2, <2>1, Zenon
<1>4. CASE ServerRestart \/ Broker \/ heartbeat \/ UpdateBackends \/ Stop \/ CancelState
           \/ ReadFails \/ DrainTimeout \/ UNCHANGED vars
  <2>1. live' = live \/ live' = {}
    BY <1>4, Zenon DEF ServerRestart, Broker, heartbeat, UpdateBackends, Stop, CancelState,
                       ReadFails, DrainTimeout, vars, serveVars, hubVars
  <2>2. phase' = phase \/ phase' = "closing"
    BY <1>4, Zenon DEF ServerRestart, Broker, heartbeat, UpdateBackends, Stop, CancelState,
                       ReadFails, DrainTimeout, vars, serveVars, hubVars
  <2> QED BY <1>2, <2>1, <2>2, Zenon
<1>5. CASE Drain \/ Dial
  <2>1. phase' \in {"draining", "serving"}
    BY <1>5, Zenon DEF Drain, Dial
  <2> QED BY <2>1, Zenon DEF Offline
<1>6. CASE Closed \/ Stopped
  <2>1. live' = live \ {conn}
    BY <1>6, Zenon DEF Closed, Stopped
  <2> QED BY <1>1, <2>1, Zenon DEF Offline
<1>7. ASSUME NEW r \in Requests, Offer(r) \/ Cancel(r) \/ Propose(r) PROVE Offline'
  <2>1. UNCHANGED <<live, phase>>
    BY <1>7, Zenon DEF Offer, Cancel, Propose, serveVars
  <2> QED BY <1>2, <2>1, Zenon
<1>8. ASSUME NEW r \in Requests, startJob(r) \/ CancelContext(r) \/ signProposal(r)
      PROVE  Offline'
  <2>1. UNCHANGED live /\ (phase' = phase \/ phase' = "closing")
    BY <1>8, Zenon DEF startJob, CancelContext, signProposal, serveVars
  <2> QED BY <1>2, <2>1, Zenon
<1>9. ASSUME NEW r \in Requests, Job(r) PROVE Offline'
  <2>1. live' \subseteq live
    BY <1>9, JobWrites, Zenon
  <2>2. phase' = phase
    BY <1>9, Zenon DEF Job, Emit, Finish, Fail, serveVars
  <2> QED BY <1>2, <2>1, <2>2, Zenon
<1> QED
  BY <1>3, <1>4, <1>5, <1>6, <1>7, <1>8, <1>9, Zenon DEF Next, Hub, Serve, Fault

-----------------------------------------------------------------------------
(* One offer for each request *)

TheOffer(r) == [type |-> "offer", request |-> r]

OrdersMove(r) ==
    \A c \in Conns :
        \/ down'[c] = down[c] \/ down'[c] = <<>>
        \/ down[c] # <<>> /\ down'[c] = Tail(down[c])
        \/ \E m \in Orders : m # TheOffer(r) /\ down'[c] = Append(down[c], m)

(* An offer under way was under way, at its place or the one behind it.    *)
LEMMA OfferMoves ==
    ASSUME RelayType, NEW r \in Requests, OrdersMove(r), NEW c \in Conns
    PROVE  \E s \in {0, 1} : \A i \in DOMAIN down'[c] :
               OfferAt(r, c, i)' => i + s \in DOMAIN down[c] /\ OfferAt(r, c, i + s)
<1>1. down[c] \in Seq(Orders)
  BY Zenon DEF RelayType
<1>2. CASE down'[c] = down[c]
  <2>1. \A i \in DOMAIN down[c] : i + 0 = i
    BY <1>1
  <2> QED BY <1>2, <2>1, Zenon DEF OfferAt
<1>3. CASE down'[c] = <<>>
  BY <1>3
<1>4. CASE down[c] # <<>> /\ down'[c] = Tail(down[c])
  <2>1. \A i \in DOMAIN down'[c] : i + 1 \in DOMAIN down[c] /\ down'[c][i] = down[c][i + 1]
    BY <1>1, <1>4, Taken
  <2> QED BY <2>1, Zenon DEF OfferAt
<1>5. ASSUME NEW m \in Orders, m # TheOffer(r), down'[c] = Append(down[c], m)
      PROVE  \A i \in DOMAIN down'[c] :
                 OfferAt(r, c, i)' => i + 0 \in DOMAIN down[c] /\ OfferAt(r, c, i + 0)
  <2>1. /\ Len(down[c]) \in Nat /\ DOMAIN down[c] = 1 .. Len(down[c])
        /\ DOMAIN down'[c] = 1 .. Len(down[c]) + 1
        /\ \A i \in 1 .. Len(down[c]) : down'[c][i] = down[c][i]
        /\ down'[c][Len(down[c]) + 1] = m
    BY <1>1, <1>5, Appended
  <2> SUFFICES ASSUME NEW i \in DOMAIN down'[c], OfferAt(r, c, i)'
               PROVE  i + 0 \in DOMAIN down[c] /\ OfferAt(r, c, i + 0)
    OBVIOUS
  <2>2. i # Len(down[c]) + 1
    BY <1>5, <2>1, Zenon DEF OfferAt, TheOffer
  <2>3. i \in 1 .. Len(down[c]) /\ i + 0 = i
    BY <2>1, <2>2
  <2> QED BY <2>1, <2>3, Zenon DEF OfferAt
<1> QED BY <1>2, <1>3, <1>4, <1>5, Zenon DEF OrdersMove

(* No step but Offer brings an offer under way.                            *)
LEMMA OrdersKeep ==
    ASSUME RelayType, RelayType', NEW r \in Requests, OrdersMove(r), Sole(r)
    PROVE  Sole(r)' /\ (InFlight(r)' => InFlight(r))
<1>1. InFlight(r)' => InFlight(r)
  <2> SUFFICES ASSUME NEW c \in Conns, NEW i \in DOMAIN down'[c], OfferAt(r, c, i)'
               PROVE  InFlight(r)
    BY Zenon DEF InFlight
  <2> QED BY OfferMoves, Zenon DEF InFlight
<1>2. ASSUME NEW c \in Conns, NEW d \in Conns, NEW i \in DOMAIN down'[c],
             NEW j \in DOMAIN down'[d], OfferAt(r, c, i)', OfferAt(r, d, j)'
      PROVE  c = d /\ i = j
  <2>1. PICK s \in {0, 1} : \A n \in DOMAIN down'[c] :
            OfferAt(r, c, n)' => n + s \in DOMAIN down[c] /\ OfferAt(r, c, n + s)
    BY OfferMoves, Zenon
  <2>2. PICK t \in {0, 1} : \A n \in DOMAIN down'[d] :
            OfferAt(r, d, n)' => n + t \in DOMAIN down[d] /\ OfferAt(r, d, n + t)
    BY OfferMoves, Zenon
  <2>3. c = d
    BY <1>2, <2>1, <2>2, Zenon DEF Sole
  <2>4. i + s = j + s
    BY <1>2, <2>1, <2>3, Zenon DEF Sole
  <2>5. i \in Int /\ j \in Int
    <3>1. down'[c] \in Seq(Orders)
      BY Zenon DEF RelayType
    <3>2. DOMAIN down'[c] = 1 .. Len(down'[c]) /\ Len(down'[c]) \in Nat
      BY <3>1
    <3>3. \A n \in DOMAIN down'[c] : n \in Int
      BY <3>2
    <3> QED BY <2>3, <3>3, Zenon
  <2>6. \A x, y \in Int : \A z \in {0, 1} : x + z = y + z => x = y
    OBVIOUS
  <2> QED BY <2>3, <2>4, <2>5, <2>6, Zenon
<1> QED BY <1>1, <1>2, Zenon DEF Sole

(* A request goes on as before, with or without its offer.                 *)
LEMMA OfferStays ==
    ASSUME RelayType, RelayType', NEW r \in Requests, OfferAgrees(r), OrdersMove(r),
           run'[r] = run[r] \/ (run[r] # "none" /\ run'[r] # "none"),
           handler'[r] = "none" => handler[r] = "none"
    PROVE  OfferAgrees(r)'
<1>1. Sole(r)' /\ (InFlight(r)' => InFlight(r))
  BY OrdersKeep, Zenon DEF OfferAgrees
<1> QED BY <1>1, Zenon DEF OfferAgrees

(* Offer sends the only offer of its request.                              *)
LEMMA OfferSent ==
    ASSUME RelayType, NEW r \in Requests, OfferAgrees(r), Offer(r)
    PROVE  OfferAgrees(r)'
<1>1. /\ handler[r] = "none" /\ run[r] = "none" /\ ~InFlight(r) /\ run'[r] = run[r]
  BY Zenon DEF Offer, OfferAgrees, jobVars
<1>2. \A c \in Conns : \A i \in DOMAIN down[c] : ~OfferAt(r, c, i)
  BY <1>1, Zenon DEF InFlight
<1>3. handler'[r] # "none"
  <2>1. handler \in [Requests -> Handlers]
    BY Zenon DEF RelayType
  <2> QED BY <2>1, Zenon DEF Offer, Send
<1>4. CASE down' = down
  BY <1>1, <1>3, <1>4, Zenon DEF OfferAgrees, Sole, InFlight, OfferAt
<1>5. CASE session # Nobody /\ down' = [down EXCEPT ![session] = Append(@, Plain("offer", r))]
  <2>1. session \in Conns /\ down \in [Conns -> Seq(Orders)] /\ down[session] \in Seq(Orders)
    BY <1>5, Zenon DEF RelayType
  <2>2. Plain("offer", r) \in Orders
    BY PlainTyped, Zenon
  <2>3. /\ Len(down[session]) \in Nat /\ DOMAIN down[session] = 1 .. Len(down[session])
        /\ DOMAIN down'[session] = 1 .. Len(down[session]) + 1
        /\ \A i \in 1 .. Len(down[session]) : down'[session][i] = down[session][i]
        /\ \A c \in Conns : c # session => down'[c] = down[c]
    BY <1>5, <2>1, <2>2, Appended
  <2>4. ASSUME NEW c \in Conns, NEW i \in DOMAIN down'[c], OfferAt(r, c, i)'
        PROVE  c = session /\ i = Len(down[session]) + 1
    <3>1. CASE c # session
      BY <1>2, <2>3, <2>4, <3>1, Zenon DEF OfferAt
    <3>2. CASE c = session /\ i # Len(down[session]) + 1
      <4>1. i \in 1 .. Len(down[session])
        BY <2>3, <3>2
      <4> QED BY <1>2, <2>1, <2>3, <2>4, <3>2, <4>1, Zenon DEF OfferAt
    <3> QED BY <3>1, <3>2, Zenon
  <2>5. Sole(r)'
    BY <2>4, Zenon DEF Sole
  <2> QED BY <1>1, <1>3, <2>5, Zenon DEF OfferAgrees
<1> QED BY <1>4, <1>5, Zenon DEF Offer, Send

(* A job starts when the only offer of its request is read.                *)
LEMMA OfferRead ==
    ASSUME RelayType, NEW r \in Requests, OfferAgrees(r), startJob(r)
    PROVE  OfferAgrees(r)' /\ run[r] = "none"
<1>1. /\ conn \in live /\ down[conn] # <<>> /\ Head(down[conn]) = Plain("offer", r)
      /\ down' = [down EXCEPT ![conn] = Tail(@)] /\ UNCHANGED handler
  BY Zenon DEF startJob, ReadMessage, hubVars
<1>2. conn \in Conns /\ down \in [Conns -> Seq(Orders)] /\ down[conn] \in Seq(Orders)
  BY <1>1, Zenon DEF RelayType
<1>3. /\ 1 \in DOMAIN down[conn] /\ OfferAt(r, conn, 1)
      /\ \A i \in DOMAIN down'[conn] :
             i \in Nat \ {0} /\ i + 1 \in DOMAIN down[conn] /\ down'[conn][i] = down[conn][i + 1]
      /\ \A c \in Conns : c # conn => down'[c] = down[c]
  BY <1>1, <1>2, Taken DEF OfferAt, Plain
<1>4. InFlight(r) /\ Sole(r)
  BY <1>2, <1>3, Zenon DEF InFlight, OfferAgrees
<1>5. run[r] = "none" /\ handler[r] # "none"
  BY <1>4, Zenon DEF OfferAgrees
<1>6. ASSUME NEW c \in Conns, NEW i \in DOMAIN down'[c], OfferAt(r, c, i)' PROVE FALSE
  <2>1. CASE c # conn
    BY <1>2, <1>3, <1>4, <1>6, <2>1 DEF Sole, OfferAt
  <2>2. CASE c = conn
    <3>1. i + 1 \in DOMAIN down[conn] /\ OfferAt(r, conn, i + 1) /\ i + 1 # 1
      BY <1>3, <1>6, <2>2 DEF OfferAt
    <3> QED BY <1>2, <1>3, <1>4, <3>1, Zenon DEF Sole
  <2> QED BY <2>1, <2>2, Zenon
<1>7. Sole(r)' /\ ~InFlight(r)'
  BY <1>6, Zenon DEF Sole, InFlight
<1> QED BY <1>1, <1>5, <1>7, Zenon DEF OfferAgrees

-----------------------------------------------------------------------------
(* Every step *)

(* What the invariant says of one request.                                 *)
LEMMA Parts ==
    ASSUME RelayInv, NEW r \in Requests
    PROVE  /\ RelayType /\ ServeAgrees /\ OfferAgrees(r) /\ ChunksAgree(r)
           /\ jobs = Running
           /\ run[r] = "none" => Unstarted(r)
           /\ run[r] = "none" => r \notin jobs /\ r \notin cancelled
           /\ up \in [Conns -> Seq(Messages)] /\ down \in [Conns -> Seq(Orders)]
<1>1. RelayType /\ ServeAgrees /\ OfferAgrees(r) /\ ChunksAgree(r)
  BY Zenon DEF RelayInv, RequestAgrees
<1>2. jobs = Running /\ up \in [Conns -> Seq(Messages)] /\ down \in [Conns -> Seq(Orders)]
  BY <1>1, Zenon DEF ServeAgrees, RelayType
<1>3. run[r] = "none" => Unstarted(r)
  BY <1>1, Zenon DEF ChunksAgree
<1>4. run[r] = "none" => r \notin jobs
  BY <1>2, Zenon DEF Running
<1>5. run[r] = "none" => r \notin cancelled
  BY <1>3, Zenon DEF Unstarted
<1> QED BY <1>1, <1>2, <1>3, <1>4, <1>5, Zenon

(* Connections that fail, end or are dialled, and changes of what is       *)
(* configured: no chunk moves, and no job goes over to a new connection.   *)
LEMMA ConnectionSteps ==
    ASSUME RelayInv, RelayType', NEW r \in Requests,
           \/ \E c \in Conns : EndLoop(c) \/ Expire(c) \/ LoseConnection(c)
           \/ Dial \/ Closed \/ Stopped \/ ReadFails \/ Drain \/ DrainTimeout
           \/ UpdateBackends \/ Stop \/ CancelState \/ heartbeat \/ UNCHANGED vars
    PROVE  RequestAgrees(r)'
<1>1. /\ RelayType /\ ServeAgrees /\ OfferAgrees(r) /\ ChunksAgree(r)
      /\ jobs = Running
      /\ run[r] = "none" => r \notin jobs /\ r \notin cancelled
      /\ up \in [Conns -> Seq(Messages)] /\ down \in [Conns -> Seq(Orders)]
  BY Parts, Zenon
<1>2. UNCHANGED <<last, ended, events, stream, handler, recorded, run, jobs>>
  <2>1. ASSUME NEW c \in Conns, EndLoop(c) \/ Expire(c) \/ LoseConnection(c)
        PROVE  UNCHANGED <<last, ended, events, stream, handler, recorded, run, jobs>>
    BY <2>1, Zenon DEF EndLoop, Expire, LoseConnection, hubVars, jobVars
  <2>2. ASSUME \/ Dial \/ Closed \/ Stopped \/ ReadFails \/ Drain \/ DrainTimeout
        PROVE  UNCHANGED <<last, ended, events, stream, handler, recorded, run, jobs>>
    BY <2>2, Zenon DEF Dial, Closed, Stopped, ReadFails, Drain, DrainTimeout, hubVars, jobVars
  <2>3. ASSUME \/ UpdateBackends \/ Stop \/ CancelState \/ heartbeat \/ UNCHANGED vars
        PROVE  UNCHANGED <<last, ended, events, stream, handler, recorded, run, jobs>>
    BY <2>3, Zenon DEF UpdateBackends, Stop, CancelState, heartbeat, vars, hubVars, jobVars
  <2> QED BY <2>1, <2>2, <2>3, Zenon
<1>3. ASSUME OrdersMove(r),
             \A c \in Conns : \/ Keeps(up[c], up'[c], r)
                              \/ ~Has(up'[c], r) /\ (c \notin live' \/ r \notin jobs'),
             cancelled' = cancelled \/ cancelled' = cancelled \cup jobs,
             r \in terminal' => r \in terminal \/ r \in cancelled,
             r \in jobs' => live' \subseteq live /\ conn' = conn
      PROVE  RequestAgrees(r)'
  <2>1. OfferAgrees(r)'
    BY <1>1, <1>2, <1>3, OfferStays, Zenon
  <2>2. r \in cancelled => r \in cancelled'
    BY <1>3, Zenon
  <2>3. run[r] = "none" => /\ (r \in terminal' => r \in terminal)
                           /\ (r \in cancelled' => r \in cancelled)
    BY <1>1, <1>3, Zenon
  <2>4. Keeps(events, events', r)
    BY <1>2, Zenon DEF Keeps
  <2>5. StillFor(r)
    BY <1>2, <1>3, <2>2, <2>3, <2>4, Zenon DEF StillFor
  <2>6. ChunksAgree(r)'
    BY <1>1, <2>5, StillKeeps, Zenon
  <2> QED BY <2>1, <2>6, Zenon DEF RequestAgrees
<1>4. UNCHANGED down => OrdersMove(r)
  BY Zenon DEF OrdersMove
<1>5. \A c \in Conns : up'[c] = up[c] => Keeps(up[c], up'[c], r)
  BY Zenon DEF Keeps
<1>6. ASSUME NEW c \in Conns, EndLoop(c) PROVE RequestAgrees(r)'
  <2>1. /\ c \in open \ live /\ up' = [up EXCEPT ![c] = <<>>]
        /\ UNCHANGED <<down, live, conn, cancelled, terminal>>
    BY <1>6, Zenon DEF EndLoop, serveVars, jobVars
  <2>2. \A d \in Conns : IF d = c THEN up'[d] = <<>> /\ d \notin live' ELSE up'[d] = up[d]
    BY <1>1, <2>1, Zenon
  <2>3. ~Has(<<>>, r)
    BY DEF Has
  <2> QED BY <1>3, <1>4, <1>5, <2>1, <2>2, <2>3, Zenon
<1>7. ASSUME NEW c \in Conns, Expire(c) \/ LoseConnection(c) PROVE RequestAgrees(r)'
  <2>1. UNCHANGED <<down, up, conn, cancelled, terminal>> /\ live' = live \ {c}
    BY <1>7, Zenon DEF Expire, LoseConnection, serveVars, jobVars
  <2> QED BY <1>3, <1>4, <1>5, <2>1, Zenon
<1>8. CASE Dial
  <2>1. jobs = {}
    BY <1>1, <1>8, Zenon DEF Dial, ServeAgrees
  <2>2. PICK c \in Conns : Connect(c)
    BY <1>8, Zenon DEF Dial
  <2>3. /\ down' = [down EXCEPT ![c] = <<>>] /\ up' = [up EXCEPT ![c] = <<Capacity>>]
        /\ UNCHANGED <<cancelled, terminal>>
    BY <1>8, <2>2, Zenon DEF Connect, Dial, jobVars
  <2>4. ~Has(<<Capacity>>, r)
    BY <1>1, CapacityTyped DEF Has
  <2>5. \A d \in Conns : IF d = c THEN up'[d] = <<Capacity>> ELSE up'[d] = up[d]
    BY <1>1, <2>3, Zenon
  <2>6. OrdersMove(r)
    BY <1>1, <2>3, Zenon DEF OrdersMove
  <2> QED BY <1>2, <1>3, <1>5, <2>1, <2>3, <2>4, <2>5, <2>6, Zenon
<1>9. CASE Closed \/ Stopped
  <2>1. jobs = {}
    BY <1>1, <1>9, Zenon DEF Closed, Stopped, Unfinished, ServeAgrees
  <2>2. /\ UNCHANGED <<up, cancelled, terminal>>
        /\ down' = [c \in Conns |-> IF c = conn THEN <<>> ELSE down[c]]
    BY <1>9, Zenon DEF Closed, Stopped, jobVars
  <2>3. OrdersMove(r)
    BY <2>2, Zenon DEF OrdersMove
  <2> QED BY <1>2, <1>3, <1>5, <2>1, <2>2, <2>3, Zenon
<1>10. CASE ReadFails \/ DrainTimeout
  <2>1. /\ UNCHANGED <<up, down, live, conn, terminal>>
        /\ cancelled' = cancelled \cup jobs
    BY <1>10, Zenon DEF ReadFails, DrainTimeout, cancelAll, serveVars
  <2> QED BY <1>3, <1>4, <1>5, <2>1, Zenon
<1>11. CASE Drain \/ UpdateBackends \/ Stop \/ UNCHANGED vars
  <2>1. UNCHANGED <<up, down, conn, cancelled, terminal>>
    BY <1>11, Zenon DEF Drain, UpdateBackends, Stop, vars, jobVars
  <2>2. live' = live \/ live' = live \ {conn}
    BY <1>11, Zenon DEF Drain, UpdateBackends, Stop, vars
  <2> QED BY <1>3, <1>4, <1>5, <2>1, <2>2, Zenon
<1>12. CASE CancelState
  <2>1. /\ UNCHANGED <<up, down, live, conn, cancelled>> /\ cancelling # Nobody
        /\ terminal' = terminal \cup {cancelling}
    BY <1>12, Zenon DEF CancelState
  <2>2. cancelling \in cancelled
    BY <1>1, <2>1, Zenon DEF RelayType
  <2> QED BY <1>3, <1>4, <1>5, <2>1, <2>2, Zenon
<1>13. CASE heartbeat
  <2>1. /\ conn \in live /\ up' = [up EXCEPT ![conn] = Append(@, Capacity)]
        /\ UNCHANGED <<down, live, conn, cancelled, terminal>>
    BY <1>13, Zenon DEF heartbeat, serveVars, jobVars
  <2>2. Capacity \in Messages /\ ~Of(Capacity, r)
    BY <1>1, CapacityTyped, Zenon
  <2>3. \A d \in Conns : IF d = conn THEN up'[d] = Append(up[d], Capacity) ELSE up'[d] = up[d]
    BY <1>1, <2>1, Zenon
  <2>4. \A d \in Conns : Keeps(up[d], up'[d], r)
    BY <2>2, <2>3, Zenon DEF Keeps
  <2> QED BY <1>3, <1>4, <2>1, <2>4, Zenon
<1> QED BY <1>6, <1>7, <1>8, <1>9, <1>10, <1>11, <1>12, <1>13, Zenon

(* A handler sends an offer, a cancel or a proposal.                       *)
LEMMA HandlerSteps ==
    ASSUME RelayInv, RelayType', NEW r \in Requests, NEW q \in Requests,
           Offer(q) \/ Cancel(q) \/ Propose(q)
    PROVE  RequestAgrees(r)'
<1>1. /\ RelayType /\ ServeAgrees /\ OfferAgrees(r) /\ ChunksAgree(r)
      /\ up \in [Conns -> Seq(Messages)] /\ down \in [Conns -> Seq(Orders)]
  BY Parts, Zenon
<1>2. UNCHANGED <<up, last, ended, events, stream, live, conn, recorded, run, jobs, cancelled,
                  terminal>>
  BY Zenon DEF Offer, Cancel, Propose, serveVars, jobVars
<1>3. PICK type \in {"offer", "cancel", "proposal"}, then \in {"offered", "cancelled", "signing"} :
          /\ Send(type, q, then)
          /\ then = "offered" <=> type = "offer"
          /\ handler[q] = IF type = "offer" THEN "none" ELSE "offered"
          /\ type = "offer" => Offer(q)
  BY Zenon DEF Offer, Cancel, Propose
<1>4. handler' = [handler EXCEPT ![q] = then] \/ handler' = [handler EXCEPT ![q] = "failed"]
  BY <1>3, Zenon DEF Send
<1>5. handler \in [Requests -> Handlers]
  BY <1>1, Zenon DEF RelayType
<1>6. /\ handler'[r] = "offered" => handler[r] \in {"offered", "none"}
      /\ handler'[r] = "none" => handler[r] = "none"
  BY <1>3, <1>4, <1>5, Zenon
<1>7. StillFor(r)
  BY <1>2, <1>6, Zenon DEF StillFor, Keeps
<1>8. ChunksAgree(r)'
  BY <1>1, <1>7, StillKeeps, Zenon
<1>9. OfferAgrees(r)'
  <2>1. CASE type = "offer" /\ q = r
    BY <1>1, <1>3, <2>1, OfferSent, Zenon
  <2>2. CASE type # "offer" \/ q # r
    <3>1. Plain(type, q) \in Orders /\ Plain(type, q) # TheOffer(r)
      BY <2>2, Zenon DEF Plain, Orders, TheOffer
    <3>2. \/ down' = down
          \/ down' = [down EXCEPT ![session] = Append(@, Plain(type, q))]
      BY <1>3, Zenon DEF Send
    <3>3. \A c \in Conns : down'[c] = down[c] \/ down'[c] = Append(down[c], Plain(type, q))
      BY <1>1, <3>2, Zenon
    <3>4. OrdersMove(r)
      BY <3>1, <3>3, Zenon DEF OrdersMove
    <3> QED BY <1>1, <1>2, <1>6, <3>4, OfferStays, Zenon
  <2> QED BY <2>1, <2>2, Zenon
<1> QED BY <1>8, <1>9, Zenon DEF RequestAgrees

(* The daemon reads an offer, a cancel or a proposal.                      *)
LEMMA MessageSteps ==
    ASSUME RelayInv, RelayType', NEW r \in Requests, NEW q \in Requests,
           startJob(q) \/ CancelContext(q) \/ signProposal(q)
    PROVE  RequestAgrees(r)'
<1>1. /\ RelayType /\ ServeAgrees /\ OfferAgrees(r) /\ ChunksAgree(r)
      /\ run[r] = "none" => r \notin jobs /\ r \notin cancelled
      /\ up \in [Conns -> Seq(Messages)] /\ down \in [Conns -> Seq(Orders)]
      /\ run \in [Requests -> Runs]
  BY Parts, Zenon DEF RelayType
<1>2. UNCHANGED <<last, ended, events, stream, handler, live, conn, recorded, terminal>>
  BY Zenon DEF startJob, CancelContext, signProposal, hubVars, serveVars, jobVars
<1>3. /\ down[conn] # <<>> /\ down' = [down EXCEPT ![conn] = Tail(@)]
      /\ conn \in live /\ conn \in Conns
  <2>1. conn \in live /\ down[conn] # <<>> /\ down' = [down EXCEPT ![conn] = Tail(@)]
    BY Zenon DEF startJob, CancelContext, signProposal, ReadMessage
  <2> QED BY <1>1, <2>1, Zenon DEF RelayType
<1>4. OrdersMove(r)
  <2>1. \A c \in Conns : down'[c] = down[c] \/ (down[c] # <<>> /\ down'[c] = Tail(down[c]))
    BY <1>1, <1>3, Zenon
  <2> QED BY <2>1, Zenon DEF OrdersMove
<1>5. \A c \in Conns : Keeps(up[c], up'[c], r)
  <2>1. PICK type \in {"accept", "signature"} :
            up' = up \/ up' = [up EXCEPT ![conn] = Append(@, Plain(type, q))]
    BY Zenon DEF startJob, CancelContext, signProposal
  <2>2. Plain(type, q) \in Messages /\ ~Of(Plain(type, q), r)
    BY Zenon DEF Plain, Messages, Answers, Of
  <2>3. \A c \in Conns : up'[c] = up[c] \/ up'[c] = Append(up[c], Plain(type, q))
    BY <1>1, <2>1, Zenon
  <2> QED BY <2>2, <2>3, Zenon DEF Keeps
<1>6. Keeps(events, events', r)
  BY <1>2, Zenon DEF Keeps
<1>7. CASE startJob(q) /\ q = r
  <2>1. OfferAgrees(r)' /\ run[r] = "none"
    BY <1>1, <1>7, OfferRead, Zenon
  <2>2. /\ cancelled' = cancelled \/ cancelled' = cancelled \cup jobs
        /\ run' = run \/ run' = [run EXCEPT ![r] = "running"]
    BY <1>7, Zenon DEF startJob, cancelAll
  <2>3. /\ r \in cancelled' => r \in cancelled
        /\ r \in cancelled => r \in cancelled'
    BY <1>1, <2>1, <2>2, Zenon
  <2>4. StillFor(r)
    BY <1>2, <1>5, <1>6, <2>1, <2>3, Zenon DEF StillFor
  <2> QED BY <1>1, <2>1, <2>4, StillKeeps, Zenon DEF RequestAgrees
<1>8. CASE ~(startJob(q) /\ q = r)
  <2>1. /\ run'[r] = run[r] /\ (r \in jobs' <=> r \in jobs)
        /\ r \in cancelled => r \in cancelled'
        /\ r \in cancelled' => r \in cancelled \/ r \in jobs
    <3>1. CASE startJob(q)
      <4>1. q # r
        BY <1>8, <3>1, Zenon
      <4>2. \/ /\ run' = [run EXCEPT ![q] = "running"] /\ jobs' = jobs \cup {q}
               /\ cancelled' = cancelled
            \/ run' = run /\ jobs' = jobs /\ cancelled' = cancelled \cup jobs
        BY <3>1, Zenon DEF startJob, cancelAll
      <4> QED BY <1>1, <4>1, <4>2, Zenon
    <3>2. CASE CancelContext(q)
      BY <3>2, Zenon DEF CancelContext
    <3>3. CASE signProposal(q)
      BY <3>3, Zenon DEF signProposal, jobVars
    <3> QED BY <3>1, <3>2, <3>3, Zenon
  <2>2. run[r] = "none" => (r \in cancelled' => r \in cancelled)
    BY <1>1, <2>1, Zenon
  <2>3. StillFor(r)
    BY <1>2, <1>5, <1>6, <2>1, <2>2, Zenon DEF StillFor
  <2>4. ChunksAgree(r)'
    BY <1>1, <2>3, StillKeeps, Zenon
  <2>5. OfferAgrees(r)'
    BY <1>1, <1>2, <1>4, <2>1, OfferStays, Zenon
  <2> QED BY <2>4, <2>5, Zenon DEF RequestAgrees
<1> QED BY <1>7, <1>8, Zenon

(* A job writes its next chunk, fails to, or ends.                         *)
LEMMA JobSteps ==
    ASSUME RelayInv, RelayType', NEW r \in Requests, NEW q \in Requests, Job(q)
    PROVE  RequestAgrees(r)'
<1>1. /\ RelayType /\ ServeAgrees /\ OfferAgrees(r) /\ ChunksAgree(r) /\ jobs = Running
      /\ up \in [Conns -> Seq(Messages)] /\ down \in [Conns -> Seq(Orders)]
      /\ run \in [Requests -> Runs] /\ recorded \in [Requests -> Nat]
      /\ sequence \in [Requests -> Nat]
  BY Parts, Zenon DEF RelayType
<1>2. UNCHANGED <<last, ended, events, stream, handler, open, conn, down, cancelled>>
  BY Zenon DEF Job, Emit, Finish, Fail, hubVars, serveVars
<1>3. run[q] # "none" /\ q \in jobs
  BY <1>1, Zenon DEF Job, Emit, Finish, Fail, Running
<1>4. PICK n \in Nat : n = sequence[q] + 1
  BY <1>1
<1>5. PICK as \in Runs \ {"none"}, kind \in {"data", "done", "error"} :
        /\ run' = run \/ run' = [run EXCEPT ![q] = as]
        /\ \/ /\ kind = "data" /\ UNCHANGED <<jobs, terminal>>
           \/ /\ kind # "data" /\ jobs' = jobs \ {q} /\ run' = [run EXCEPT ![q] = as]
              /\ terminal' = terminal \/ terminal' = terminal \cup {q}
        /\ \/ up' = up /\ live' = live /\ recorded' = recorded
           \/ /\ up' = up /\ recorded' = [recorded EXCEPT ![q] = n]
              /\ \/ conn \notin live /\ live' = live
                 \/ q \in cancelled /\ (live' = live \/ live' = live \ {conn})
           \/ /\ up' = [up EXCEPT ![conn] = Append(@, Chunk(q, n, kind))]
              /\ recorded' = [recorded EXCEPT ![q] = n]
              /\ conn \in live /\ live' = live /\ q \notin terminal /\ n = recorded[q] + 1
              /\ kind = "data" => run' = run
  <2>1. CASE Emit(q)
    BY <1>4, <2>1, Zenon DEF Emit, Recordable, Written, WriteFails, Runs
  <2>2. CASE Finish(q)
    BY <1>4, <2>2, Zenon DEF Finish, Recordable, Written, WriteFails, removeJob, Runs
  <2>3. CASE Fail(q)
    BY <1>4, <2>3, Zenon DEF Fail, Recordable, Written, removeJob, Runs
  <2> QED BY <2>1, <2>2, <2>3, Zenon DEF Job
<1>6. run'[r] = run[r] \/ (run[r] # "none" /\ run'[r] # "none")
  BY <1>1, <1>3, <1>5, Zenon
<1>7. OfferAgrees(r)'
  <2>1. OrdersMove(r)
    BY <1>2, Zenon DEF OrdersMove
  <2> QED BY <1>1, <1>2, <1>6, <2>1, OfferStays, Zenon
<1>8. Keeps(events, events', r)
  BY <1>2, Zenon DEF Keeps
<1>9. live' \subseteq live
  BY <1>5, Zenon
<1>10. ChunksAgree(r)'
  <2>1. CASE q # r
    <3>1. /\ run'[r] = run[r] /\ recorded'[r] = recorded[r]
          /\ (r \in jobs' <=> r \in jobs) /\ (r \in terminal' <=> r \in terminal)
      BY <1>1, <1>5, <2>1, Zenon
    <3>2. Chunk(q, n, kind) \in Messages /\ ~Of(Chunk(q, n, kind), r)
      BY <2>1, PlainTyped, Zenon DEF Of, Chunk
    <3>3. \A c \in Conns : up'[c] = up[c] \/ up'[c] = Append(up[c], Chunk(q, n, kind))
      BY <1>1, <1>5, Zenon
    <3>4. \A c \in Conns : Keeps(up[c], up'[c], r)
      BY <3>2, <3>3, Zenon DEF Keeps
    <3>5. StillFor(r)
      BY <1>2, <1>8, <1>9, <3>1, <3>4, Zenon DEF StillFor
    <3> QED BY <1>1, <3>5, StillKeeps, Zenon
  <2>2. CASE q = r /\ up' = up
    <3>1. \A c \in Conns : Keeps(up[c], up'[c], r)
      BY <2>2, Zenon DEF Keeps
    <3>2. run'[r] # "none"
      BY <1>1, <1>3, <1>5, <2>2, Zenon
    <3>3. r \in jobs' => r \in jobs /\ (r \in terminal' => r \in terminal)
      BY <1>5, <2>2, Zenon
    <3>4. \/ recorded' = recorded
          \/ conn \notin live /\ live' = live
          \/ r \in cancelled
          \/ r \in jobs' /\ up' # up
      <4>1. CASE up' = [up EXCEPT ![conn] = Append(@, Chunk(q, n, kind))] /\ conn \in live
        <5>1. conn \in Conns
          BY <1>1, <4>1, Zenon DEF RelayType
        <5>2. up[conn] \in Seq(Messages) /\ Chunk(q, n, kind) \in Messages
          BY <1>1, <5>1, PlainTyped, Zenon
        <5>3. up'[conn] # up[conn]
          BY <1>1, <4>1, <5>1, <5>2, Appended
        <5> QED BY <2>2, <5>3, Zenon
      <4> QED BY <1>5, <2>2, <4>1, Zenon
    <3>5. r \in jobs' /\ conn \in live' /\ r \notin cancelled' => recorded'[r] = recorded[r]
      BY <1>2, <2>2, <3>4, Zenon
    <3>6. StillFor(r)
      BY <1>2, <1>8, <1>9, <3>1, <3>2, <3>3, <3>5, Zenon DEF StillFor
    <3> QED BY <1>1, <3>6, StillKeeps, Zenon
  <2>3. CASE q = r /\ up' # up
    <3>1. /\ up' = [up EXCEPT ![conn] = Append(@, Chunk(r, n, kind))]
          /\ recorded' = [recorded EXCEPT ![r] = n]
          /\ conn \in live /\ live' = live /\ r \notin terminal /\ n = recorded[r] + 1
          /\ kind = "data" => run' = run
      BY <1>5, <2>3, Zenon
    <3> DEFINE m == Chunk(r, n, kind)
    <3>3. m \in Chunks /\ m.request = r /\ m.sequence = n /\ m.kind = kind
      BY PlainTyped, Zenon DEF Chunk
    <3>4. \/ m.kind = "data" /\ UNCHANGED <<jobs, terminal, run>>
          \/ r \notin jobs' /\ run'[r] # "none"
      <4>1. CASE kind = "data"
        BY <1>5, <3>1, <3>3, <4>1, Zenon
      <4>2. CASE kind # "data"
        BY <1>1, <1>5, <2>3, <4>2, Zenon
      <4> QED BY <4>1, <4>2, Zenon
    <3>5. Writes(r, m)
      <4> HIDE DEF m
      <4> QED BY <1>2, <1>3, <2>3, <3>1, <3>3, <3>4, Zenon DEF Writes, m
    <3> QED BY <1>1, <3>5, WriteKeeps, Zenon
  <2> QED BY <2>1, <2>2, <2>3, Zenon
<1> QED BY <1>7, <1>10, Zenon DEF RequestAgrees

(* The hub reads a message, or passes one on.                              *)
LEMMA HubSteps ==
    ASSUME RelayInv, RelayType', NEW r \in Requests,
           Broker \/ \E c \in Conns : HubRead(c)
    PROVE  RequestAgrees(r)'
<1>1. /\ RelayType /\ ServeAgrees /\ OfferAgrees(r) /\ ChunksAgree(r)
      /\ up \in [Conns -> Seq(Messages)] /\ events \in Seq(Messages)
      /\ stream \in [Requests -> Seq(Chunks)] /\ handler \in [Requests -> Handlers]
      /\ last \in [Requests -> Nat]
  BY Parts, Zenon DEF RelayType
<1>2. UNCHANGED <<down, conn, recorded, run, jobs, cancelled, terminal>>
  BY Zenon DEF Broker, HubRead, serveVars, jobVars
<1>3. ASSUME handler'[r] = "none" => handler[r] = "none" PROVE OfferAgrees(r)'
  <2>1. OrdersMove(r)
    BY <1>2, Zenon DEF OrdersMove
  <2> QED BY <1>1, <1>2, <1>3, <2>1, OfferStays, Zenon
<1>4. CASE Broker
  <2>1. /\ events # <<>> /\ events' = Tail(events)
        /\ UNCHANGED <<last, ended, handler, live, up>>
    BY <1>4, Zenon DEF Broker
  <2>2. CASE Of(Head(events), r)
    <3>1. ChunksAgree(r)'
      BY <1>1, <1>4, <2>2, BrokerKeeps, Zenon
    <3> QED BY <1>3, <2>1, <3>1, Zenon DEF RequestAgrees
  <2>3. CASE ~Of(Head(events), r)
    <3>1. stream'[r] = stream[r]
      <4>1. stream' = stream \/ (/\ Head(events).type = "chunk"
                                 /\ stream' = [stream EXCEPT ![Head(events).request] =
                                                   Append(@, Head(events))])
        BY <1>4, Zenon DEF Broker
      <4>2. Head(events).type = "chunk" => Head(events).request # r
        BY <2>3, Zenon DEF Of
      <4> QED BY <1>1, <4>1, <4>2, Zenon
    <3>2. Keeps(events, events', r)
      BY <2>1, <2>3, Zenon DEF Keeps
    <3>3. StillFor(r)
      BY <1>2, <2>1, <3>1, <3>2, Zenon DEF StillFor, Keeps
    <3>4. ChunksAgree(r)'
      BY <1>1, <3>3, StillKeeps, Zenon
    <3> QED BY <1>3, <2>1, <3>4, Zenon DEF RequestAgrees
  <2> QED BY <2>2, <2>3, Zenon
<1>5. ASSUME NEW c \in Conns, HubRead(c) PROVE RequestAgrees(r)'
  <2>1. PICK m \in Messages : m = Head(up[c])
    <3>1. up[c] # <<>> /\ up[c] \in Seq(Messages)
      BY <1>1, <1>5, Zenon DEF HubRead
    <3> QED BY <3>1
  <2>2. /\ c \in open /\ up[c] # <<>> /\ AcceptInbound(m, c) /\ UNCHANGED stream
        /\ up' = [up EXCEPT ![c] = IF c \in open' THEN Tail(@) ELSE <<>>]
    BY <1>5, <2>1, Zenon DEF HubRead
  <2>3. /\ handler'[r] = "offered" => handler[r] = "offered"
        /\ handler'[r] = "none" => handler[r] = "none"
    <3>1. handler' = handler \/ handler' = [handler EXCEPT ![m.request] = "signed"]
      BY <2>2, Zenon DEF AcceptInbound
    <3> QED BY <1>1, <3>1, Zenon
  <2>4. ChunksAgree(r)'
    <3>1. CASE Of(m, r) /\ ~(Rejects(m) \/ Len(events) >= EventSize)
      <4>1. /\ m.type = "chunk" /\ m.request = r /\ InSequence(m)
            /\ events' = Append(events, m) /\ UNCHANGED <<live, open>>
        BY <2>2, <3>1, Zenon DEF AcceptInbound, Rejects, Of
      <4>2. /\ last' = [last EXCEPT ![m.request] = m.sequence]
            /\ ended' = IF m.kind = "data" THEN ended ELSE ended \cup {m.request}
        BY <2>2, <4>1, Zenon DEF AcceptInbound
      <4>3. last'[r] = m.sequence /\ up' = [up EXCEPT ![c] = Tail(@)]
        BY <1>1, <2>2, <4>1, <4>2, Zenon
      <4> QED BY <1>1, <1>2, <2>1, <2>2, <2>3, <3>1, <4>1, <4>2, <4>3, AcceptKeeps, Zenon
    <3>2. CASE Of(m, r) /\ (Rejects(m) \/ Len(events) >= EventSize)
      <4>1. live' = live \ {c} /\ open' = open \ {c} /\ UNCHANGED events
        BY <2>2, <3>2, Zenon DEF AcceptInbound
      <4>2. c \notin open'
        BY <4>1, Zenon
      <4>3. up' = [up EXCEPT ![c] = <<>>]
        BY <2>2, <4>2, Zenon
      <4>4. ended' = ended \/ ended' = ended \cup {m.request}
        BY <2>2, Zenon DEF AcceptInbound
      <4>5. r \in ended => r \in ended'
        BY <4>4, Zenon
      <4> QED BY <1>1, <1>2, <2>1, <2>2, <2>3, <3>2, <4>1, <4>3, <4>5, DropKeeps, Zenon
    <3>3. CASE ~Of(m, r)
      <4>1. last'[r] = last[r] /\ (r \in ended' <=> r \in ended)
        <5>1. \/ UNCHANGED <<last, ended>>
              \/ /\ m.type = "chunk" /\ last' = [last EXCEPT ![m.request] = m.sequence]
                 /\ ended' = ended \/ ended' = ended \cup {m.request}
          BY <2>2, Zenon DEF AcceptInbound
        <5>2. m.type = "chunk" => m.request # r
          BY <3>3, Zenon DEF Of
        <5> QED BY <1>1, <5>1, <5>2, Zenon
      <4>2. CASE Rejects(m) \/ Len(events) >= EventSize
        <5>1. live' = live \ {c} /\ open' = open \ {c} /\ UNCHANGED events
          BY <2>2, <4>2, Zenon DEF AcceptInbound
        <5>2. c \notin open' /\ c \notin live' /\ live' \subseteq live
          BY <5>1, Zenon
        <5>3. \A d \in Conns : IF d = c THEN up'[d] = <<>> ELSE up'[d] = up[d]
          BY <1>1, <2>2, <5>2, Zenon
        <5>4. ~Has(<<>>, r)
          BY DEF Has
        <5>5. \A d \in Conns : Keeps(up[d], up'[d], r) \/ (~Has(up'[d], r) /\ d \notin live')
          BY <5>2, <5>3, <5>4, Zenon DEF Keeps
        <5>6. StillFor(r)
          BY <1>2, <2>2, <2>3, <4>1, <5>1, <5>2, <5>5, Zenon DEF StillFor, Keeps
        <5> QED BY <1>1, <5>6, StillKeeps, Zenon
      <4>3. CASE ~(Rejects(m) \/ Len(events) >= EventSize)
        <5>1. events' = Append(events, m) /\ UNCHANGED <<live, open>>
          BY <2>2, <4>3, Zenon DEF AcceptInbound
        <5>2. \A d \in Conns : IF d = c THEN up'[d] = Tail(up[d]) ELSE up'[d] = up[d]
          BY <1>1, <2>2, <5>1, Zenon
        <5>3. \A d \in Conns : Keeps(up[d], up'[d], r)
          BY <2>1, <2>2, <3>3, <5>2, Zenon DEF Keeps
        <5>4. Keeps(events, events', r)
          BY <3>3, <5>1, Zenon DEF Keeps
        <5>5. StillFor(r)
          BY <1>2, <2>2, <2>3, <4>1, <5>1, <5>3, <5>4, Zenon DEF StillFor
        <5> QED BY <1>1, <5>5, StillKeeps, Zenon
      <4> QED BY <4>2, <4>3, Zenon
    <3> QED BY <3>1, <3>2, <3>3, Zenon
  <2> QED BY <1>3, <2>3, <2>4, Zenon DEF RequestAgrees
<1> QED BY <1>4, <1>5, Zenon

(* Hub and daemon begin with no connection and no request.                 *)
LEMMA RelayStarts == Init => RelayInv
<1> SUFFICES ASSUME Init PROVE RelayInv
  OBVIOUS
<1>1. RelayType
  <2>1. /\ open \subseteq Conns /\ live \subseteq open /\ live \subseteq {conn}
        /\ session \in Conns \cup {Nobody} /\ cancelling = Nobody
        /\ ended \subseteq Requests /\ terminal \subseteq Requests
        /\ jobs \subseteq Requests /\ cancelled \subseteq Requests /\ configured \subseteq Offers
    BY Zenon DEF Init
  <2>2. /\ down \in [Conns -> Seq(Orders)] /\ up \in [Conns -> Seq(Messages)]
        /\ events \in Seq(Messages) /\ stream \in [Requests -> Seq(Chunks)]
    BY DEF Init
  <2>3. /\ last \in [Requests -> Nat] /\ recorded \in [Requests -> Nat]
        /\ sequence \in [Requests -> Nat]
    BY Zenon DEF Init, Zero
  <2>4. run \in [Requests -> Runs] /\ handler \in [Requests -> Handlers]
    BY Zenon DEF Init, Runs, Handlers
  <2> QED BY <2>1, <2>2, <2>3, <2>4, Zenon DEF RelayType
<1>2. ServeAgrees
  BY Zenon DEF Init, ServeAgrees, Offline, Running
<1>3. ASSUME NEW r \in Requests PROVE RequestAgrees(r)
  <2>1. /\ \A c \in Conns : down[c] = <<>> /\ up[c] = <<>>
        /\ events = <<>> /\ stream[r] = <<>> /\ run[r] = "none" /\ handler[r] = "none"
        /\ last[r] = 0 /\ recorded[r] = 0 /\ open = {} /\ jobs = {}
        /\ r \notin ended \cup terminal \cup cancelled
    BY Zenon DEF Init, Zero
  <2>2. \A q : q = <<>> => ~Has(q, r)
    BY DEF Has
  <2>3. OfferAgrees(r)
    BY <2>1 DEF OfferAgrees, Sole, InFlight
  <2>4. Unstarted(r)
    BY <2>1, <2>2, Zenon DEF Unstarted
  <2>5. Place(r) /\ Tracked(r) /\ Gapless(r) /\ Whole(r)
    BY <2>1, <2>2 DEF Place, Tracked, Gapless, Whole
  <2> QED BY <2>3, <2>4, <2>5, Zenon DEF RequestAgrees, ChunksAgree
<1> QED BY <1>1, <1>2, <1>3, Zenon DEF RelayInv

(* Every step of hub, handlers and daemon keeps the invariant.             *)
LEMMA RelayKept == RelayInv /\ [Next]_vars => RelayInv'
<1> SUFFICES ASSUME RelayInv, [Next]_vars PROVE RelayInv'
  OBVIOUS
<1>1. RelayType /\ ServeAgrees
  BY Zenon DEF RelayInv
<1>2. ServeType /\ HubType /\ WorkType /\ Offline
  BY <1>1, TypeParts, Zenon
<1>3. ServeType' /\ HubType' /\ WorkType' /\ Offline'
  BY <1>2, HubTyped, WorkTyped, ServeTyped, OfflineKept, Zenon
<1>4. RelayType' /\ ServeAgrees'
  <2>1. (RelayType /\ ServeAgrees)' <=> (ServeType /\ HubType /\ WorkType /\ Offline)'
    BY TypeParts, PTL
  <2> QED BY <1>3, <2>1, Zenon
<1>5. ASSUME NEW r \in Requests PROVE RequestAgrees(r)'
  <2>1. CASE ServerRestart
    <3>1. ChunksAgree(r)'
      BY <1>1, <2>1, RestartKeeps, Zenon DEF RelayInv, RequestAgrees
    <3>2. UNCHANGED <<down, run>>
      BY <2>1, Zenon DEF ServerRestart, jobVars
    <3>3. handler'[r] = "none" => handler[r] = "none"
      BY <2>1, Zenon DEF ServerRestart
    <3>4. OrdersMove(r)
      BY <3>2, Zenon DEF OrdersMove
    <3>5. OfferAgrees(r)'
      BY <1>1, <1>4, <3>2, <3>3, <3>4, OfferStays, Zenon DEF RelayInv, RequestAgrees
    <3> QED BY <3>1, <3>5, Zenon DEF RequestAgrees
  <2>2. CASE Broker \/ \E c \in Conns : HubRead(c)
    BY <1>4, <2>2, HubSteps, Zenon
  <2>3. CASE \/ \E c \in Conns : EndLoop(c) \/ Expire(c) \/ LoseConnection(c)
             \/ Dial \/ Closed \/ Stopped \/ ReadFails \/ Drain \/ DrainTimeout
             \/ UpdateBackends \/ Stop \/ CancelState \/ heartbeat \/ UNCHANGED vars
    BY <1>4, <2>3, ConnectionSteps, Zenon
  <2>4. ASSUME NEW q \in Requests, Offer(q) \/ Cancel(q) \/ Propose(q) PROVE RequestAgrees(r)'
    BY <1>4, <2>4, HandlerSteps, Zenon
  <2>5. ASSUME NEW q \in Requests, startJob(q) \/ CancelContext(q) \/ signProposal(q)
        PROVE  RequestAgrees(r)'
    BY <1>4, <2>5, MessageSteps, Zenon
  <2>6. ASSUME NEW q \in Requests, Job(q) PROVE RequestAgrees(r)'
    BY <1>4, <2>6, JobSteps, Zenon
  <2> QED BY <2>1, <2>2, <2>3, <2>4, <2>5, <2>6, Zenon DEF Next, Hub, Serve, Fault
<1> QED BY <1>4, <1>5, Zenon DEF RelayInv

(* The first chunk of an accepted job on its connection is the one the     *)
(* tracker waits for.                                                      *)
LEMMA InvAccepts == RelayInv => OwnChunksAreAccepted
<1> SUFFICES ASSUME RelayInv, NEW c \in open, up[c] # <<>>, Rejects(Head(up[c])),
                    Head(up[c]).request \notin cancelled
             PROVE  FALSE
  BY Zenon DEF OwnChunksAreAccepted
<1>1. up[c] \in Seq(Messages)
  BY Zenon DEF RelayInv, RelayType
<1>2. PICK m \in Messages : m = Head(up[c])
  BY <1>1
<1>3. m \in Chunks /\ m.type = "chunk"
  BY <1>2, Zenon DEF Rejects, Messages, Answers, Capacities
<1>4. PICK r \in Requests : r = m.request
  BY <1>3, Zenon DEF Chunks
<1>5. Of(m, r) /\ r \notin cancelled /\ ~InSequence(m)
  BY <1>2, <1>3, <1>4, Zenon DEF Of, Rejects
<1>6. PICK b \in Nat : Counted(r, c, b)
  BY <1>5, Zenon DEF RelayInv, RequestAgrees, ChunksAgree, Tracked
<1>7. last[r] \in Nat /\ Consecutive(up[c], r, last[r], b) /\ (Has(up[c], r) => r \notin ended)
  BY <1>6, Zenon DEF Counted, RelayInv, RelayType
<1>8. m.sequence = last[r] + 1
  BY <1>1, <1>2, <1>5, <1>7, TakeChunk, Zenon
<1>9. Has(up[c], r)
  <2>1. 1 \in DOMAIN up[c] /\ up[c][1] = m
    BY <1>1, <1>2
  <2> QED BY <1>5, <2>1, Zenon DEF Has
<1> QED BY <1>4, <1>5, <1>7, <1>8, <1>9, Zenon DEF InSequence

(* Whatever connections are lost, expire or are replaced and whenever the  *)
(* server restarts or the daemon stops, a handler's stream is its chunks   *)
(* from the first on, in order and without a gap, with nothing behind the  *)
(* last; the hub drops no connection over a chunk of a job nobody          *)
(* cancelled; and the daemon dials again with all of its jobs ended.       *)
THEOREM StreamsStayWhole == Spec => []StreamsAreWhole
<1>1. RelayInv => ChunksInOrder
  BY Zenon DEF RelayInv, RequestAgrees, ChunksAgree, Whole, ChunksInOrder
<1>2. RelayInv => JobsDieWithTheConnection
  BY Zenon DEF RelayInv, ServeAgrees, JobsDieWithTheConnection
<1>3. RelayInv => StreamsAreWhole
  BY <1>1, <1>2, InvAccepts, Zenon DEF StreamsAreWhole
<1> QED BY <1>3, RelayStarts, RelayKept, PTL DEF Spec
=============================================================================
