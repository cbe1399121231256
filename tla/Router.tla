------------------------------- MODULE Router -------------------------------
(***************************************************************************)
(* The choice of an offer for a request.                                   *)
(*   server/internal/router/router.go       Select                         *)
(*   server/internal/api/openai.go          the candidates' capacity, cost *)
(*   server/internal/store/inference.go     RoutingCandidates              *)
(*                                                                         *)
(* Select sorts with sort.Slice, which leaves the order of equals open: it *)
(* is modelled by the set of the offers that may come first.  The marks    *)
(* (latency, success, reputation) are small numbers, and a worst-case cost *)
(* of 0 is one that could not be computed.                                 *)
(***************************************************************************)
EXTENDS Integers

CONSTANTS
  Offers,      \* offers of the requested model
  Machines,    \* the machines, numbered in the order of their identifiers
  MachineOf,   \* the machine of each offer
  MaxCost,     \* bound on costs, spends and balances
  MaxMark      \* bound on latency, success and reputation

NoPin == 0
Refusals == {"budget", "none"}

ASSUME RouterAssumption ==
  /\ Machines \subseteq Nat \ {NoPin} /\ MachineOf \in [Offers -> Machines]
  /\ MaxCost \in Nat \ {0} /\ MaxMark \in Nat
  /\ (Refusals \cup {"new"}) \cap Offers = {}

Marks == 0..MaxMark

\* eligible: bonded, healthy, with a free slot, connected, and with the
\* capabilities that the request requires.
Candidate == [eligible : BOOLEAN, cost : 0..MaxCost, latency : Marks, success : Marks, reputation : Marks]

Request == [spend : 1..MaxCost, balance : 0..MaxCost, pin : Machines \cup {NoPin}]

VARIABLES
  candidates,   \* what is known of each offer
  request,      \* the request that is routed
  outcome       \* the offer selected, or the error

routeVars == <<candidates, request, outcome>>

\* The offers a request may use, whatever they cost.
Suitable(r) ==
  {o \in Offers : /\ r.pin = NoPin \/ MachineOf[o] = r.pin
                  /\ candidates[o].eligible /\ candidates[o].cost # 0}

Affordable(r) == {o \in Suitable(r) : candidates[o].cost <= r.spend /\ candidates[o].cost <= r.balance}

\* Mutant: the keys are compared one after the other, equal or not.
NotLexicographic(o, p) ==
  LET a == candidates[o]  b == candidates[p]
  IN a.cost < b.cost \/ a.latency < b.latency \/ a.success > b.success \/ MachineOf[o] < MachineOf[p]

\* The comparison of Select.
Better(o, p) ==
  LET a == candidates[o]  b == candidates[p]
  IN \/ a.cost < b.cost
     \/ /\ a.cost = b.cost
        /\ \/ a.latency < b.latency
           \/ /\ a.latency = b.latency
              /\ \/ a.success > b.success
                 \/ /\ a.success = b.success
                    /\ \/ a.reputation > b.reputation
                       \/ a.reputation = b.reputation /\ MachineOf[o] < MachineOf[p]

\* Every result Select may give.
Select(r) ==
  IF Affordable(r) = {} THEN {IF Suitable(r) # {} THEN "budget" ELSE "none"}
  ELSE {o \in Affordable(r) : ~\E p \in Affordable(r) : Better(p, o)}

RouteInit ==
  /\ candidates \in [Offers -> {c \in Candidate : c.eligible \/ (c.cost = 1 /\ c.latency + c.success + c.reputation = 0)}]
  /\ request = [spend |-> 1, balance |-> 0, pin |-> NoPin] /\ outcome = "new"

Route(r) ==
  /\ outcome = "new" /\ request' = r /\ outcome' \in Select(r) /\ UNCHANGED candidates

Done == outcome # "new" /\ UNCHANGED routeVars

RouteNext == Done \/ \E r \in Request : Route(r)

RouteSpec == RouteInit /\ [][RouteNext]_routeVars

(***************************************************************************)
(* Properties.                                                             *)
(***************************************************************************)

\* A larger budget never costs the customer a route: an offer chosen with
\* some spend and balance is chosen with more of them, and a request refused
\* for want of a provider is not one that a budget would have let through.
BudgetOnlyBlocks ==
  outcome # "new" =>
    \A r \in Request :
      (r.pin = request.pin /\ r.spend >= request.spend /\ r.balance >= request.balance) =>
        CASE outcome \in Offers -> outcome \in Select(r)
          [] outcome = "none"   -> Select(r) = {"none"}
          [] OTHER              -> "none" \notin Select(r)

\* The choice is settled up to the offers of one machine, whatever order the
\* candidates come in: there is always a result, and all results run on the
\* same machine at the same cost.
RoutingIsSettled ==
  outcome = "new" => \A r \in Request :
    /\ Select(r) # {}
    /\ \A o, p \in Select(r) \cap Offers :
         MachineOf[o] = MachineOf[p] /\ candidates[o].cost = candidates[p].cost

\* A larger budget never costs the customer a route, and the choice is settled
\* up to the offers of one machine (Select).
RoutingIsSound == BudgetOnlyBlocks /\ RoutingIsSettled
=============================================================================
