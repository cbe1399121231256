-------------------------------- MODULE Sums --------------------------------
(***************************************************************************)
(* The sum of a function with natural values and a finite domain: the      *)
(* number of its unit coins <<a, 1>>, ..., <<a, f[a]>>.  Stated as a       *)
(* cardinality, and not by recursion, so that the facts SumTheorems needs  *)
(* follow from the library's theorems on finite sets.                      *)
(***************************************************************************)
EXTENDS Integers, FiniteSets

Coins(f) == UNION {{a} \X (1 .. f[a]) : a \in DOMAIN f}

Sum(f) == Cardinality(Coins(f))
=============================================================================
