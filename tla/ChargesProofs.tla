---------------------------- MODULE ChargesProofs ----------------------------
(***************************************************************************)
(* The broker's reservation, its receipt, the protocol library and the     *)
(* contract agree on every price and every usage, whatever the word size;  *)
(* and the router's choice of the offer that is charged is settled, for    *)
(* every pool of candidates.                                               *)
(***************************************************************************)
EXTENDS Charges, Router, TLAPS, WellFoundedInduction

Divisors == {1000, 1000000}

(* Products grow with their factors. *)
LEMMA ProductGrows ==
    ASSUME NEW a \in Nat, NEW b \in Nat, NEW r \in Nat, a <= b
    PROVE  a * r \in Nat /\ a * r <= b * r
<1>1. PICK k \in Nat : b = a + k
  BY b - a \in Nat, b = a + (b - a)
<1>2. b * r = a * r + k * r
  BY <1>1
<1>3. k * r \in Nat /\ a * r \in Nat
  OBVIOUS
<1> QED
  BY <1>2, <1>3

(* The divisor of every meter is one of the two. *)
LEMMA DivisorOfMeter ==
    ASSUME NEW m \in Meters
    PROVE  Divisor(m) \in Divisors
BY DEF Divisor, Divisors

(* Adding divisor - 1 to a positive product and dividing, as exactCharge   *)
(* does, is the contract's rounded-up quotient.                            *)
LEMMA RoundingsAgree ==
    ASSUME NEW p \in Nat, NEW d \in Divisors
    PROVE  /\ RoundedUp(p, d) \in Nat
           /\ RoundedUp(p, d) = p \div d + (IF p % d = 0 THEN 0 ELSE 1)
           /\ p <= d * RoundedUp(p, d)
<1>1. CASE d = 1000
  BY <1>1 DEF RoundedUp
<1>2. CASE d = 1000000
  BY <1>2 DEF RoundedUp
<1> QED
  BY <1>1, <1>2 DEF Divisors

(* The router's formula on a larger product rounds to no less. *)
LEMMA RoundedUpGrows ==
    ASSUME NEW p \in Nat, NEW q \in Nat, p <= q, NEW d \in Divisors
    PROVE  /\ (q + d - 1) \div d \in Nat
           /\ RoundedUp(p, d) <= (q + d - 1) \div d
<1>1. CASE d = 1000
  BY <1>1 DEF RoundedUp
<1>2. CASE d = 1000000
  BY <1>2 DEF RoundedUp
<1> QED
  BY <1>1, <1>2 DEF Divisors

(* Within the limits, each component of the receipt is covered by the same *)
(* component of the reservation and equals the contract's.                 *)
LEMMA PartsAgree ==
    ASSUME NEW u \in UsageType, NEW l \in UsageType, NEW p \in PriceType,
           NEW m \in Meters, u[m] <= l[m]
    PROVE  /\ RoundedUp(u[m] * p[m], Divisor(m)) \in Nat
           /\ RoundedUp(u[m] * p[m], Divisor(m)) = MulDivCeil(u[m], p[m], Divisor(m))
           /\ (l[m] * p[m] + Divisor(m) - 1) \div Divisor(m) \in Nat
           /\ RoundedUp(u[m] * p[m], Divisor(m))
                <= (l[m] * p[m] + Divisor(m) - 1) \div Divisor(m)
<1>1. u[m] \in Nat /\ l[m] \in Nat /\ p[m] \in Nat
  BY DEF UsageType, PriceType
<1>2. u[m] * p[m] \in Nat /\ u[m] * p[m] <= l[m] * p[m]
  BY <1>1, ProductGrows
<1>3. l[m] * p[m] \in Nat
  BY <1>1
<1>4. Divisor(m) \in Divisors
  BY DivisorOfMeter
<1>5. /\ RoundedUp(u[m] * p[m], Divisor(m)) \in Nat
      /\ RoundedUp(u[m] * p[m], Divisor(m))
           = (u[m] * p[m]) \div Divisor(m)
               + (IF (u[m] * p[m]) % Divisor(m) = 0 THEN 0 ELSE 1)
  BY <1>2, <1>4, RoundingsAgree
<1>6. /\ (l[m] * p[m] + Divisor(m) - 1) \div Divisor(m) \in Nat
      /\ RoundedUp(u[m] * p[m], Divisor(m))
           <= (l[m] * p[m] + Divisor(m) - 1) \div Divisor(m)
  BY <1>2, <1>3, <1>4, RoundedUpGrows
<1> QED
  BY <1>5, <1>6 DEF MulDivCeil

(* A usage within the limits of a reservation that fits the word is        *)
(* charged at most the reservation, and exactly what the contract charges. *)
LEMMA ChargeCovered ==
    ASSUME NEW u \in UsageType, NEW l \in UsageType, NEW p \in PriceType,
           \A m \in Meters : u[m] <= l[m],
           WorstCaseCost(p, l) # Overflow
    PROVE  /\ ExactCharge(u, p) \in 0 .. WorstCaseCost(p, l)
           /\ ExactCharge(u, p) = ContractCharge(u, p)
           /\ ExactCharge(u, p) < Word
           /\ WorstCaseCost(p, l) \in Nat
<1> DEFINE exact == [m \in Meters |-> RoundedUp(u[m] * p[m], Divisor(m))]
           contract == [m \in Meters |-> MulDivCeil(u[m], p[m], Divisor(m))]
           worst == [m \in Meters |-> (l[m] * p[m] + Divisor(m) - 1) \div Divisor(m)]
<1>1. \A m \in Meters : /\ exact[m] \in Nat /\ exact[m] = contract[m]
                        /\ worst[m] \in Nat /\ exact[m] <= worst[m]
  BY PartsAgree
<1>2. /\ ExactCharge(u, p) = Checked(Total(exact))
      /\ ContractCharge(u, p) = Total(contract)
      /\ WorstCaseCost(p, l) = Checked(Total(worst))
  BY DEF ExactCharge, ContractCharge, WorstCaseCost
<1> HIDE DEF exact, contract, worst
<1>3. {"input", "output", "compute"} \subseteq Meters
  BY DEF Meters
<1>4. /\ Total(exact) \in Nat /\ Total(worst) \in Nat
      /\ Total(exact) <= Total(worst)
      /\ Total(exact) = Total(contract)
  BY <1>1, <1>3 DEF Total
<1>5. Total(worst) < Word /\ Word \in Nat
  BY <1>2, WordAssumption DEF Checked, FitsWord
<1> QED
  BY <1>2, <1>4, <1>5 DEF Checked, FitsWord

(* The library's component is the rounded-up quotient as long as that fits *)
(* the word: the test on the product's high half rejects nothing else.     *)
LEMMA LibraryPart ==
    ASSUME NEW u \in Nat, NEW r \in Nat, NEW d \in Divisors,
           RoundedUp(u * r, d) < Word
    PROVE  MultiplyDivideCeil(u, r, d) = RoundedUp(u * r, d)
<1> DEFINE product == u * r
<1>1. product \in Nat /\ Word \in Nat \ {0} /\ d \in Nat
  BY WordAssumption DEF Divisors
<1>2. /\ RoundedUp(product, d) \in Nat
      /\ RoundedUp(product, d) = product \div d + (IF product % d = 0 THEN 0 ELSE 1)
      /\ product <= d * RoundedUp(product, d)
  BY <1>1, RoundingsAgree
<1>3. CASE u = 0 \/ r = 0
  <2>1. product = 0
    BY <1>3
  <2>2. RoundedUp(product, d) = 0
    BY <2>1 DEF RoundedUp, Divisors
  <2> QED
    BY <1>3, <2>2 DEF MultiplyDivideCeil
<1>4. CASE ~(u = 0 \/ r = 0)
  <2> DEFINE hi == product \div Word
  <2>1. hi \in Nat /\ hi * Word <= product
    <3> HIDE DEF product
    <3> QED  BY <1>1
  <2>2. product < d * Word
    <3>1. RoundedUp(product, d) + 1 <= Word
      BY <1>1, <1>2
    <3> HIDE DEF product
    <3>2. (RoundedUp(product, d) + 1) * d <= Word * d
      <4>1. RoundedUp(product, d) + 1 \in Nat
        BY <1>2
      <4> QED  BY <3>1, <4>1, <1>1, ProductGrows
    <3>3. CASE d = 1000
      BY <1>1, <1>2, <3>2, <3>3
    <3>4. CASE d = 1000000
      BY <1>1, <1>2, <3>2, <3>4
    <3> QED  BY <3>3, <3>4 DEF Divisors
  <2>3. hi < d
    <3>1. SUFFICES ASSUME d <= hi PROVE FALSE
      BY <1>1, <2>1
    <3>2. d * Word <= hi * Word
      BY <3>1, <2>1, <1>1, ProductGrows
    <3>3. hi * Word \in Nat /\ d * Word \in Nat
      BY <2>1, <1>1, ProductGrows
    <3> HIDE DEF hi, product
    <3> QED  BY <3>2, <3>3, <2>1, <2>2, <1>1
  <2>4. MultiplyDivideCeil(u, r, d)
          = IF product % d = 0 THEN product \div d ELSE Checked(product \div d + 1)
    BY <1>1, <1>4, <2>1, <2>3 DEF MultiplyDivideCeil
  <2>5. RoundedUp(product, d) < Word
    OBVIOUS
  <2>6. MultiplyDivideCeil(u, r, d) = RoundedUp(product, d)
    <3> HIDE DEF product
    <3>1. CASE product % d = 0
      BY <3>1, <2>4, <1>2, <1>1, product \div d \in Nat DEF Divisors
    <3>2. CASE product % d # 0
      BY <3>2, <2>4, <2>5, <1>2 DEF Checked, FitsWord
    <3> QED  BY <3>1, <3>2
  <2> QED  BY <2>6
<1> QED
  BY <1>3, <1>4

(* Price.Charge, capped by the reservation, is the receipt's charge. *)
LEMMA LibraryCharge ==
    ASSUME NEW u \in UsageType, NEW p \in PriceType, NEW cap \in Nat,
           ExactCharge(u, p) \in 0 .. cap, ExactCharge(u, p) < Word
    PROVE  PriceCharge(p, u, cap) = ExactCharge(u, p)
<1> DEFINE exact == [m \in Meters |-> RoundedUp(u[m] * p[m], Divisor(m))]
           library == [m \in Meters |-> MultiplyDivideCeil(u[m], p[m], Divisor(m))]
<1>1. \A m \in Meters : /\ u[m] \in Nat /\ p[m] \in Nat /\ u[m] * p[m] \in Nat
                        /\ Divisor(m) \in Divisors
  BY DivisorOfMeter DEF UsageType, PriceType
<1>2. \A m \in Meters : exact[m] \in Nat
  BY <1>1, RoundingsAgree
<1>3. ExactCharge(u, p) = Checked(Total(exact))
  BY DEF ExactCharge
<1>4. {"input", "output", "compute"} = Meters
  BY DEF Meters
<1>5. Total(exact) = ExactCharge(u, p) /\ Total(exact) < Word /\ Total(exact) \in Nat
  <2> HIDE DEF exact
  <2> QED  BY <1>2, <1>3, <1>4 DEF Checked, FitsWord, Total, Overflow
<1>6. Word \in Nat
  BY WordAssumption
<1>7. \A m \in Meters : exact[m] < Word
  <2> HIDE DEF exact
  <2> QED  BY <1>2, <1>4, <1>5, <1>6 DEF Total
<1>8. \A m \in Meters : library[m] = exact[m]
  BY <1>1, <1>7, LibraryPart
<1>9. PriceCharge(p, u, cap)
        = IF \/ \E m \in Meters : library[m] = Overflow
             \/ ~FitsWord(library["input"] + library["output"])
             \/ ~FitsWord(library["input"] + library["output"] + library["compute"])
          THEN Overflow
          ELSE IF library["input"] + library["output"] + library["compute"] > cap
               THEN ErrMaximumExceeded
               ELSE library["input"] + library["output"] + library["compute"]
  BY DEF PriceCharge
<1> HIDE DEF exact, library
<1>10. \A m \in Meters : library[m] # Overflow
  BY <1>2, <1>8 DEF Overflow
<1>11. /\ library["input"] + library["output"] + library["compute"] = Total(exact)
       /\ library["input"] + library["output"] <= Total(exact)
       /\ library["input"] + library["output"] \in Nat
  BY <1>2, <1>4, <1>8 DEF Total
<1> QED
  BY <1>5, <1>6, <1>9, <1>10, <1>11 DEF FitsWord

-----------------------------------------------------------------------------
(* What every step keeps: the reservation is the worst case of its price   *)
(* and limits and fits the word, and the charge is that of a usage within  *)
(* the limits.  The three properties follow from it without induction.     *)
Priced ==
    /\ phase \in {"new", "reserved", "charged"}
    /\ price \in PriceType /\ limits \in UsageType /\ usage \in UsageType
    /\ phase # "new" => /\ reserved = WorstCaseCost(price, limits)
                        /\ reserved # Overflow
    /\ phase = "charged" => /\ \A m \in Meters : usage[m] <= limits[m]
                            /\ charged = ExactCharge(usage, price)

(* Priced is an invariant of every reservation and charge (Reserve,        *)
(* Charge).                                                                *)
THEOREM PricedHolds == Spec => []Priced
<1>1. Init => Priced
  BY DEF Init, Priced, NoUsage, PriceType, UsageType
<1>2. Priced /\ [Next]_vars => Priced'
  <2> SUFFICES ASSUME Priced, [Next]_vars PROVE Priced'
    OBVIOUS
  <2>1. ASSUME NEW p \in Prices, NEW l \in Usages, Reserve(p, l) PROVE Priced'
    BY <2>1, InputsAssumption DEF Priced, Reserve
  <2>2. ASSUME NEW u \in Usages, Charge(u) PROVE Priced'
    BY <2>2, InputsAssumption DEF Priced, Charge, WithinLimits
  <2>3. CASE UNCHANGED vars
    BY <2>3 DEF Priced, vars
  <2> QED
    BY <2>1, <2>2, <2>3 DEF Next
<1> QED
  BY <1>1, <1>2, PTL DEF Spec

(* No usage within the limits is charged more than its reservation         *)
(* (ReserveInference, CompleteInference, PrepareReceipt).                  *)
THEOREM ReservationSuffices == Spec => []ReservationCovers
<1>1. Priced => ReservationCovers
  BY ChargeCovered DEF Priced, ReservationCovers
<1> QED
  BY <1>1, PricedHolds, PTL

(* The contract recomputes the signed charge to the wei (_settleReceipt).  *)
THEOREM ContractRecomputes == Spec => []ContractAgrees
<1>1. Priced => ContractAgrees
  BY ChargeCovered DEF Priced, ContractAgrees
<1> QED
  BY <1>1, PricedHolds, PTL

(* The library's checked 64-bit arithmetic gives the same charge           *)
(* (Price.Charge, multiplyDivideCeil).                                     *)
THEOREM LibraryRecomputes == Spec => []LibraryAgrees
<1>1. Priced => LibraryAgrees
  <2> SUFFICES ASSUME Priced, phase = "charged" PROVE PriceCharge(price, usage, reserved) = charged
    BY DEF LibraryAgrees
  <2>1. /\ price \in PriceType /\ limits \in UsageType /\ usage \in UsageType
        /\ reserved = WorstCaseCost(price, limits) /\ reserved # Overflow
        /\ \A m \in Meters : usage[m] <= limits[m]
        /\ charged = ExactCharge(usage, price)
    BY DEF Priced
  <2>2. ExactCharge(usage, price) \in 0 .. reserved /\ ExactCharge(usage, price) < Word
    BY <2>1, ChargeCovered
  <2>3. reserved \in Nat
    BY <2>1, ChargeCovered
  <2> QED
    BY <2>1, <2>2, <2>3, LibraryCharge
<1> QED
  BY <1>1, PricedHolds, PTL

(* The reservation covers the charge and the broker, the contract and the  *)
(* library compute the same one, for every word size, price and usage      *)
(* (WorstCaseCost, exactCharge, _settleReceipt, Price.Charge).             *)
THEOREM ChargesAreRight == Spec => []ChargesAgree
<1>1. ReservationCovers /\ ContractAgrees /\ LibraryAgrees => ChargesAgree
  BY DEF ChargesAgree
<1> QED
  BY <1>1, ReservationSuffices, ContractRecomputes, LibraryRecomputes, PTL

-----------------------------------------------------------------------------
(* The choice of the offer *)

(* A nonempty set has an element at which a natural function is least. *)
LEMMA LeastValue ==
    ASSUME NEW S, S # {}, NEW f \in [S -> Nat]
    PROVE  \E a \in S : \A b \in S : f[a] <= f[b]
<1> DEFINE T == {f[a] : a \in S}
           L == {ss \in Nat \X Nat : ss[1] < ss[2]}
<1>1. L = OpToRel(<, Nat)
  BY DEF OpToRel
<1>2. IsWellFoundedOn(L, Nat)
  <2>1. IsWellFoundedOn(OpToRel(<, Nat), Nat)
    BY NatLessThanWellFounded, Zenon
  <2> HIDE DEF L
  <2> QED BY <1>1, <2>1, Zenon
<1>3. T \subseteq Nat /\ T # {}
  OBVIOUS
<1>4. PICK x \in T : \A y \in T : ~(<<y, x>> \in L)
  <2> HIDE DEF T, L
  <2> QED BY <1>2, <1>3, WFMin
<1>5. PICK a \in S : x = f[a]
  OBVIOUS
<1>6. \A b \in S : f[a] <= f[b]
  <2> TAKE b \in S
  <2>1. f[b] \in T /\ f[b] \in Nat /\ f[a] \in Nat
    OBVIOUS
  <2>2. <<f[b], f[a]>> \notin L
    BY <1>4, <1>5, <2>1
  <2> QED BY <2>1, <2>2
<1> QED BY <1>6

(* What is selected is a result of Select for the request and the          *)
(* candidates as they are: the inductive invariant.                        *)
RouteType ==
    /\ candidates \in [Offers -> Candidate]
    /\ outcome = "new" \/ (request \in Request /\ outcome \in Select(request))

(* The keys Select compares are natural numbers. *)
LEMMA KeysAreNumbers ==
    ASSUME RouteType, NEW o \in Offers
    PROVE  /\ candidates[o].cost \in Nat /\ candidates[o].latency \in Nat
           /\ candidates[o].success \in 0 .. MaxMark /\ candidates[o].reputation \in 0 .. MaxMark
           /\ MachineOf[o] \in Nat /\ MaxMark \in Nat
<1>1. candidates[o] \in Candidate
  BY Zenon DEF RouteType
<1>2. /\ candidates[o].cost \in 0 .. MaxCost /\ candidates[o].latency \in 0 .. MaxMark
      /\ candidates[o].success \in 0 .. MaxMark /\ candidates[o].reputation \in 0 .. MaxMark
  BY <1>1, Zenon DEF Candidate, Marks
<1>3. MaxCost \in Nat /\ MaxMark \in Nat /\ MachineOf[o] \in Machines /\ Machines \subseteq Nat
  BY RouterAssumption, Zenon
<1>4. \A n \in Nat : 0 .. n \subseteq Nat
  OBVIOUS
<1> QED BY <1>2, <1>3, <1>4, Zenon

(* Offers of which neither is better run on one machine at one cost. *)
LEMMA EqualsAreAlike ==
    ASSUME RouteType, NEW o \in Offers, NEW p \in Offers, ~Better(o, p), ~Better(p, o)
    PROVE  MachineOf[o] = MachineOf[p] /\ candidates[o].cost = candidates[p].cost
<1>1. /\ candidates[o].cost \in Nat /\ candidates[p].cost \in Nat
      /\ candidates[o].latency \in Nat /\ candidates[p].latency \in Nat
      /\ candidates[o].success \in Nat /\ candidates[p].success \in Nat
      /\ candidates[o].reputation \in Nat /\ candidates[p].reputation \in Nat
      /\ MachineOf[o] \in Nat /\ MachineOf[p] \in Nat
  BY KeysAreNumbers
<1> QED BY <1>1 DEF Better

(* The comparison of Select has a first offer in every nonempty set: the   *)
(* keys are compared one after the other, and each takes a least value.    *)
LEMMA FirstExists ==
    ASSUME RouteType, NEW S \in SUBSET Offers, S # {}
    PROVE  \E o \in S : \A p \in S : ~Better(p, o)
<1> DEFINE Least(T, f) == {a \in T : \A b \in T : f[a] <= f[b]}
           cost == [o \in Offers |-> candidates[o].cost]
           latency == [o \in Offers |-> candidates[o].latency]
           failure == [o \in Offers |-> MaxMark - candidates[o].success]
           disrepute == [o \in Offers |-> MaxMark - candidates[o].reputation]
           machine == [o \in Offers |-> MachineOf[o]]
           S1 == Least(S, cost)
           S2 == Least(S1, latency)
           S3 == Least(S2, failure)
           S4 == Least(S3, disrepute)
           S5 == Least(S4, machine)
<1>1. \A o \in Offers : /\ candidates[o].cost \in Nat /\ candidates[o].latency \in Nat
                        /\ candidates[o].success \in 0 .. MaxMark
                        /\ candidates[o].reputation \in 0 .. MaxMark /\ MachineOf[o] \in Nat
  BY KeysAreNumbers, Zenon
<1>2. /\ cost \in [Offers -> Nat] /\ latency \in [Offers -> Nat] /\ failure \in [Offers -> Nat]
      /\ disrepute \in [Offers -> Nat] /\ machine \in [Offers -> Nat]
  BY <1>1, RouterAssumption
<1>3. ASSUME NEW T \in SUBSET Offers, T # {}, NEW f \in [Offers -> Nat]
      PROVE  Least(T, f) # {} /\ Least(T, f) \in SUBSET Offers
  <2>1. [a \in T |-> f[a]] \in [T -> Nat]
    BY <1>3
  <2>2. \E a \in T : \A b \in T : [c \in T |-> f[c]][a] <= [c \in T |-> f[c]][b]
    BY <1>3, <2>1, LeastValue
  <2> QED BY <2>2
<1>4. S1 # {} /\ S1 \in SUBSET Offers
  <2> HIDE DEF Least, cost
  <2> QED BY <1>2, <1>3
<1>5. S2 # {} /\ S2 \in SUBSET Offers
  <2> HIDE DEF Least, S1, latency
  <2> QED BY <1>2, <1>3, <1>4
<1>6. S3 # {} /\ S3 \in SUBSET Offers
  <2> HIDE DEF Least, S2, failure
  <2> QED BY <1>2, <1>3, <1>5
<1>7. S4 # {} /\ S4 \in SUBSET Offers
  <2> HIDE DEF Least, S3, disrepute
  <2> QED BY <1>2, <1>3, <1>6
<1>8. S5 # {} /\ S5 \in SUBSET Offers
  <2> HIDE DEF Least, S4, machine
  <2> QED BY <1>2, <1>3, <1>7
<1>9. PICK o \in S5 : TRUE
  BY <1>8
<1>10. o \in S /\ o \in S1 /\ o \in S2 /\ o \in S3 /\ o \in S4 /\ o \in Offers
  BY <1>9
<1>11. ASSUME NEW p \in S, Better(p, o) PROVE FALSE
  <2>1. cost[o] <= cost[p] /\ (cost[p] = cost[o] => p \in S1)
    BY <1>10, <1>11, <1>2
  <2>2. p \in S1 => latency[o] <= latency[p] /\ (latency[p] = latency[o] => p \in S2)
    <3> HIDE DEF S1
    <3> QED BY <1>10, <1>11, <1>2
  <2>3. p \in S2 => failure[o] <= failure[p] /\ (failure[p] = failure[o] => p \in S3)
    <3> HIDE DEF S2
    <3> QED BY <1>10, <1>11, <1>2
  <2>4. p \in S3 => disrepute[o] <= disrepute[p] /\ (disrepute[p] = disrepute[o] => p \in S4)
    <3> HIDE DEF S3
    <3> QED BY <1>10, <1>11, <1>2
  <2>5. p \in S4 => machine[o] <= machine[p]
    <3> HIDE DEF S4
    <3> QED BY <1>9
  <2>6. p \in Offers
    OBVIOUS
  <2> HIDE DEF S1, S2, S3, S4, S5
  <2> QED BY <1>1, <1>10, <1>11, <2>1, <2>2, <2>3, <2>4, <2>5, <2>6, RouterAssumption DEF Better
<1> QED BY <1>10, <1>11

(* Select gives offers it may use, or one refusal. *)
LEMMA SelectGives ==
    ASSUME RouteType, NEW r
    PROVE  /\ Select(r) # {}
           /\ Affordable(r) # {} =>
                 Select(r) = {o \in Affordable(r) : ~\E p \in Affordable(r) : Better(p, o)}
           /\ Affordable(r) = {} /\ Suitable(r) # {} => Select(r) = {"budget"}
           /\ Affordable(r) = {} /\ Suitable(r) = {} => Select(r) = {"none"}
           /\ Affordable(r) \subseteq Suitable(r) /\ Suitable(r) \subseteq Offers
<1>1. Affordable(r) \subseteq Suitable(r) /\ Suitable(r) \subseteq Offers
  BY DEF Affordable, Suitable
<1>2. CASE Affordable(r) = {}
  BY <1>1, <1>2, Zenon DEF Select
<1>3. CASE Affordable(r) # {}
  <2>1. \E o \in Affordable(r) : \A p \in Affordable(r) : ~Better(p, o)
    BY <1>1, <1>3, FirstExists
  <2> QED BY <1>1, <1>3, <2>1, Zenon DEF Select
<1> QED BY <1>2, <1>3

(* More money only adds offers that cost more than the cheapest. *)
LEMMA MoreBudget ==
    ASSUME RouteType, NEW q \in Request, NEW r \in Request, r.pin = q.pin,
           r.spend >= q.spend, r.balance >= q.balance
    PROVE  /\ Suitable(r) = Suitable(q) /\ Affordable(q) \subseteq Affordable(r)
           /\ \A o \in Affordable(q), p \in Affordable(r) : Better(p, o) => p \in Affordable(q)
<1>1. Suitable(r) = Suitable(q)
  BY Zenon DEF Suitable
<1>2. /\ q.spend \in 1 .. MaxCost /\ q.balance \in 0 .. MaxCost
      /\ r.spend \in 1 .. MaxCost /\ r.balance \in 0 .. MaxCost
  BY Zenon DEF Request
<1>3. MaxCost \in Nat
  BY RouterAssumption, Zenon
<1>4. /\ q.spend \in Int /\ q.balance \in Int /\ r.spend \in Int /\ r.balance \in Int
  <2>1. 1 .. MaxCost \subseteq Int /\ 0 .. MaxCost \subseteq Int
    BY <1>3
  <2> QED BY <1>2, <2>1, Zenon
<1>5. ASSUME NEW o \in Affordable(q) PROVE o \in Affordable(r)
  <2>1. o \in Suitable(q) /\ o \in Offers /\ candidates[o].cost <= q.spend
        /\ candidates[o].cost <= q.balance
    BY <1>5, Zenon DEF Affordable, Suitable
  <2>2. candidates[o].cost \in Nat
    BY <2>1, KeysAreNumbers, Zenon
  <2>3. candidates[o].cost <= r.spend /\ candidates[o].cost <= r.balance
    BY <1>4, <2>1, <2>2
  <2> QED BY <1>1, <2>1, <2>3, Zenon DEF Affordable
<1>6. ASSUME NEW o \in Affordable(q), NEW p \in Affordable(r), Better(p, o)
      PROVE  p \in Affordable(q)
  <2>1. /\ o \in Offers /\ candidates[o].cost <= q.spend /\ candidates[o].cost <= q.balance
        /\ p \in Suitable(q) /\ p \in Offers
    BY <1>1, <1>6, Zenon DEF Affordable, Suitable
  <2>2. candidates[o].cost \in Nat /\ candidates[p].cost \in Nat
    BY <2>1, KeysAreNumbers, Zenon
  <2>3. candidates[p].cost < candidates[o].cost \/ candidates[p].cost = candidates[o].cost
    BY <1>6, Zenon DEF Better
  <2>4. candidates[p].cost <= q.spend /\ candidates[p].cost <= q.balance
    BY <1>4, <2>1, <2>2, <2>3
  <2> QED BY <2>1, <2>4, Zenon DEF Affordable
<1> QED BY <1>1, <1>5, <1>6, Zenon

(* What is selected with less is selected with more, and a refusal for     *)
(* want of a provider is one for any budget (BudgetOnlyBlocks).            *)
LEMMA BudgetBlocks == RouteType => BudgetOnlyBlocks
<1> SUFFICES ASSUME RouteType, outcome # "new", NEW r \in Request, r.pin = request.pin,
                    r.spend >= request.spend, r.balance >= request.balance
             PROVE  CASE outcome \in Offers -> outcome \in Select(r)
                      [] outcome = "none"   -> Select(r) = {"none"}
                      [] OTHER              -> "none" \notin Select(r)
  BY Zenon DEF BudgetOnlyBlocks
<1>1. request \in Request /\ outcome \in Select(request)
  BY Zenon DEF RouteType
<1>2. /\ Suitable(r) = Suitable(request) /\ Affordable(request) \subseteq Affordable(r)
      /\ \A o \in Affordable(request), p \in Affordable(r) :
            Better(p, o) => p \in Affordable(request)
  BY <1>1, MoreBudget
<1>3. "none" \notin Offers /\ "budget" \notin Offers
  BY RouterAssumption, Zenon DEF Refusals
<1>4. "none" # "budget"
  OBVIOUS
<1>5. CASE Affordable(request) # {}
  <2>1. /\ outcome \in Affordable(request) /\ outcome \in Offers
        /\ \A p \in Affordable(request) : ~Better(p, outcome)
    BY <1>1, <1>5, SelectGives, Zenon
  <2>2. outcome \in Affordable(r) /\ \A p \in Affordable(r) : ~Better(p, outcome)
    BY <1>2, <2>1, Zenon
  <2>3. outcome \in Select(r)
    BY <2>2, SelectGives, Zenon
  <2> QED BY <1>3, <2>1, <2>3
<1>6. CASE Affordable(request) = {} /\ Suitable(request) = {}
  <2>1. outcome = "none"
    BY <1>1, <1>6, SelectGives, Zenon
  <2>2. Suitable(r) = {} /\ Affordable(r) = {}
    BY <1>2, <1>6, SelectGives, Zenon
  <2>3. Select(r) = {"none"}
    BY <2>2, SelectGives, Zenon
  <2> QED BY <1>3, <2>1, <2>3
<1>7. CASE Affordable(request) = {} /\ Suitable(request) # {}
  <2>1. outcome = "budget"
    BY <1>1, <1>7, SelectGives, Zenon
  <2>2. "none" \notin Select(r)
    <3>1. CASE Affordable(r) = {}
      BY <1>2, <1>4, <1>7, <3>1, SelectGives, Zenon
    <3>2. CASE Affordable(r) # {}
      BY <1>3, <3>2, SelectGives, Zenon
    <3> QED BY <3>1, <3>2, Zenon
  <2> QED BY <1>3, <1>4, <2>1, <2>2
<1> QED BY <1>5, <1>6, <1>7, Zenon

(* A result there is, and all results are alike (RoutingIsSettled).        *)
LEMMA ChoiceIsSettled == RouteType => RoutingIsSettled
<1> SUFFICES ASSUME RouteType, NEW r \in Request
             PROVE  /\ Select(r) # {}
                    /\ \A o, p \in Select(r) \cap Offers :
                         MachineOf[o] = MachineOf[p] /\ candidates[o].cost = candidates[p].cost
  BY Zenon DEF RoutingIsSettled
<1>1. Select(r) # {}
  BY SelectGives, Zenon
<1>2. ASSUME NEW o \in Select(r) \cap Offers, NEW p \in Select(r) \cap Offers
      PROVE  MachineOf[o] = MachineOf[p] /\ candidates[o].cost = candidates[p].cost
  <2>1. o \in Offers /\ p \in Offers /\ o \in Select(r) /\ p \in Select(r)
    BY <1>2
  <2>2. CASE Affordable(r) # {}
    <3>1. ~Better(o, p) /\ ~Better(p, o)
      BY <2>1, <2>2, SelectGives, Zenon
    <3> QED BY <2>1, <3>1, EqualsAreAlike, Zenon
  <2>3. CASE Affordable(r) = {}
    <3>1. o = "none" \/ o = "budget"
      BY <2>1, <2>3, SelectGives, Zenon
    <3> QED BY <2>1, <3>1, RouterAssumption, Zenon DEF Refusals
  <2> QED BY <2>2, <2>3, Zenon
<1> QED BY <1>1, <1>2, Zenon

(* For any pool of offers, machines, costs and marks, a larger budget      *)
(* never costs the customer a route, every request has an answer, and the  *)
(* offers Select may put first are of one machine and cost the same,       *)
(* whatever order sort.Slice leaves equals in.                             *)
THEOREM RoutesAreSound == RouteSpec => []RoutingIsSound
<1>1. RouteInit => RouteType
  BY DEF RouteInit, RouteType
<1>2. RouteType /\ [RouteNext]_routeVars => RouteType'
  <2> SUFFICES ASSUME RouteType, [RouteNext]_routeVars PROVE RouteType'
    OBVIOUS
  <2>1. ASSUME NEW r \in Request, Route(r) PROVE RouteType'
    <3>1. candidates' = candidates /\ request' = r /\ outcome' \in Select(r)
      BY <2>1, Zenon DEF Route
    <3>2. (Select(request))' = Select(r)
      BY <3>1 DEF Select, Affordable, Suitable, Better
    <3> QED BY <3>1, <3>2, Zenon DEF RouteType
  <2>2. CASE UNCHANGED routeVars
    BY <2>2 DEF RouteType, routeVars, Select, Affordable, Suitable, Better
  <2> QED BY <2>1, <2>2, Zenon DEF RouteNext, Done
<1>3. RouteType => RoutingIsSound
  BY BudgetBlocks, ChoiceIsSettled, Zenon DEF RoutingIsSound
<1> QED BY <1>1, <1>2, <1>3, PTL DEF RouteSpec
=============================================================================
