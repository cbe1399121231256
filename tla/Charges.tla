------------------------------- MODULE Charges -------------------------------
(***************************************************************************)
(* What a request may cost and what it is charged: the broker reserves the *)
(* worst case of the limits, the provider reports a usage, the receipt is  *)
(* priced, and the contract prices it again.  A receipt the reservation    *)
(* does not cover, or on which the two prices differ by a wei, could never *)
(* be settled although the work is done.                                   *)
(***************************************************************************)
EXTENDS Pricing

CONSTANTS Prices, Usages      \* inputs: the prices and usages considered

ASSUME InputsAssumption == Prices \subseteq PriceType /\ Usages \subseteq UsageType

VARIABLES
    phase,          \* "new", "reserved" or "charged"
    price,          \* the rates of the routed offer version
    limits,         \* the maximum_* columns of the request
    reserved,       \* the reservation's amount
    usage,          \* the usage of the receipt proposal
    charged         \* what exactCharge makes of it

vars == <<phase, price, limits, reserved, usage, charged>>

NoUsage == [m \in Meters |-> 0]

Init ==
    /\ phase = "new"
    /\ price = NoUsage /\ limits = NoUsage /\ usage = NoUsage
    /\ reserved = 0 /\ charged = 0

(* A route that costs nothing or does not fit is ineligible. *)
Reserve(p, l) ==
    /\ phase = "new"
    /\ WorstCaseCost(p, l) \notin {Overflow, 0}
    /\ phase' = "reserved"
    /\ price' = p /\ limits' = l
    /\ reserved' = WorstCaseCost(p, l)
    /\ UNCHANGED <<usage, charged>>

WithinLimits(u) == \A m \in Meters : u[m] <= limits[m]

(* The reported usage is accepted within the limits, then priced. *)
Charge(u) ==
    /\ phase = "reserved"
    /\ WithinLimits(u)
    /\ phase' = "charged"
    /\ usage' = u
    /\ charged' = ExactCharge(u, price)
    /\ UNCHANGED <<price, limits, reserved>>

Next ==
    \/ \E p \in Prices, l \in Usages : Reserve(p, l)
    \/ \E u \in Usages : Charge(u)

Spec == Init /\ [][Next]_vars

-----------------------------------------------------------------------------
(* A usage within the limits is never charged more than was reserved for   *)
(* it, and never overflows: PrepareReceipt cannot refuse it with           *)
(* ErrMaximumExceeded (WorstCaseCost, CompleteInference, exactCharge).     *)
ReservationCovers == phase = "charged" => charged \in 0 .. reserved

(* The contract computes the very charge the broker signed, although the   *)
(* two round by different formulas: _settleReceipt cannot revert with      *)
(* InvalidReceipt or MaximumChargeExceeded over the price.                 *)
ContractAgrees == phase = "charged" => charged = ContractCharge(usage, price)

(* The protocol library's 128-bit arithmetic gives the same charge under   *)
(* the reservation as its cap (Price.Charge).                              *)
LibraryAgrees == phase = "charged" => PriceCharge(price, usage, reserved) = charged

(* The reservation covers the charge and all parties compute the same one  *)
(* (WorstCaseCost, exactCharge, Price.Charge, _settleReceipt).             *)
ChargesAgree == ReservationCovers /\ ContractAgrees /\ LibraryAgrees
=============================================================================
