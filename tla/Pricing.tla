------------------------------- MODULE Pricing -------------------------------
(***************************************************************************)
(* The four places that turn metered usage into wei: the escrow contract,  *)
(* the broker's receipt (exactCharge), the broker's reservation            *)
(* (WorstCaseCost) and the protocol library (Price.Charge).  All of them   *)
(* round every component up on its own; they differ in how they get there  *)
(* and in what they do when the result does not fit 64 bits.               *)
(*                                                                         *)
(* A price is a record of the three rates, a usage a record of the three   *)
(* meters.  Word stands for 2^64, so that the overflow cases are within    *)
(* reach of small instances; Overflow is the error result.                 *)
(***************************************************************************)
EXTENDS Integers

CONSTANT Word

ASSUME WordAssumption == Word \in Nat \ {0}

Overflow == -1

Meters == {"input", "output", "compute"}
PriceType == [Meters -> Nat]
UsageType == [Meters -> Nat]

Divisor(meter) == IF meter = "compute" THEN 1000 ELSE 1000000

FitsWord(n) == n < Word

(* Sum of the three components, as uint64 or as an error. *)
Total(part) == part["input"] + part["output"] + part["compute"]
Checked(n) == IF FitsWord(n) THEN n ELSE Overflow

(* Math.mulDiv(x, y, denominator, Rounding.Ceil) of the contract. *)
MulDivCeil(x, y, denominator) ==
    (x * y) \div denominator
        + IF (x * y) % denominator = 0 THEN 0 ELSE 1

ContractCharge(usage, price) ==
    Total([m \in Meters |-> MulDivCeil(usage[m], price[m], Divisor(m))])

RoundedUp(product, divisor) ==
    (IF product > 0 THEN product + divisor - 1 ELSE product) \div divisor

(* exactCharge of the receipt store: adds divisor-1 only to a positive     *)
(* product.                                                                *)
ExactCharge(usage, price) ==
    Checked(Total([m \in Meters |-> RoundedUp(usage[m] * price[m], Divisor(m))]))

(* WorstCaseCost of the router: adds divisor-1 always. *)
WorstCaseCost(price, limits) ==
    Checked(Total([m \in Meters |->
        (limits[m] * price[m] + Divisor(m) - 1) \div Divisor(m)]))

FloorQuotient(units, rate, denominator) ==
    (units * rate) \div denominator

(* multiplyDivideCeil of the protocol library.  The 128-bit product is the *)
(* pair hi, lo; bits.Div64 needs hi < denominator.                         *)
MultiplyDivideCeil(units, rate, denominator) ==
    LET product == units * rate
        hi == product \div Word
        quotient == product \div denominator
    IN  IF units = 0 \/ rate = 0 THEN 0
        ELSE IF hi >= denominator THEN Overflow
        ELSE IF product % denominator = 0 THEN quotient
        ELSE Checked(quotient + 1)

ErrMaximumExceeded == -2

(* Price.Charge: every partial sum is checked, then the customer's cap. *)
PriceCharge(price, usage, maxWei) ==
    LET part == [m \in Meters |->
                    MultiplyDivideCeil(usage[m], price[m], Divisor(m))]
        subtotal == part["input"] + part["output"]
        total == subtotal + part["compute"]
        failed == \E m \in Meters : part[m] = Overflow
    IN  IF failed \/ ~FitsWord(subtotal) \/ ~FitsWord(total) THEN Overflow
        ELSE IF total > maxWei THEN ErrMaximumExceeded
        ELSE total
=============================================================================
