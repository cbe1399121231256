---------------------------- MODULE SumTheorems ----------------------------
(* Facts about Sum that the contract's proofs rest on. *)
EXTENDS Sums, FiniteSetTheorems, FunctionTheorems, TLAPS

(* The coins of one element are as many as its value. *)
LEMMA CoinsOfOne ==
    ASSUME NEW a, NEW n \in Nat
    PROVE  /\ IsFiniteSet({a} \X (1 .. n))
           /\ Cardinality({a} \X (1 .. n)) = n
<1>1. IsFiniteSet({a}) /\ Cardinality({a}) = 1
  BY FS_Singleton
<1>2. IsFiniteSet(1 .. n) /\ Cardinality(1 .. n) = n
  BY FS_Interval
<1>3. /\ IsFiniteSet({a} \X (1 .. n))
      /\ Cardinality({a} \X (1 .. n)) = Cardinality({a}) * Cardinality(1 .. n)
  BY <1>1, <1>2, FS_Product
<1> QED
  BY <1>1, <1>2, <1>3

(* A sum over a finite domain counts finitely many coins. *)
LEMMA CoinsFinite ==
    ASSUME NEW S, IsFiniteSet(S), NEW f \in [S -> Nat]
    PROVE  IsFiniteSet(Coins(f))
<1> DEFINE g == [a \in S |-> {a} \X (1 .. f[a])]
           T == {{a} \X (1 .. f[a]) : a \in S}
<1>1. g \in Surjection(S, T)
  BY DEF Surjection
<1>2. IsFiniteSet(T)
  <2> HIDE DEF g, T
  <2> QED BY <1>1, FS_Surjection
<1>3. \A U \in T : IsFiniteSet(U)
  <2>1. \A a \in S : IsFiniteSet({a} \X (1 .. f[a]))
    <3> TAKE a \in S
    <3>1. f[a] \in Nat
      OBVIOUS
    <3> QED BY <3>1, CoinsOfOne
  <2> QED BY <2>1
<1>4. IsFiniteSet(UNION T)
  BY <1>2, <1>3, FS_UNION
<1> QED
  BY <1>4 DEF Coins

(* A sum is a natural number. *)
LEMMA SumType ==
    ASSUME NEW S, IsFiniteSet(S), NEW f \in [S -> Nat]
    PROVE  Sum(f) \in Nat
  BY CoinsFinite, FS_CardinalityType DEF Sum

(* A sum is the value at one element plus the sum over the others. *)
LEMMA SumSplit ==
    ASSUME NEW S, IsFiniteSet(S), NEW f \in [S -> Nat], NEW a \in S
    PROVE  Sum(f) = Sum([b \in S \ {a} |-> f[b]]) + f[a]
<1> DEFINE rest == [b \in S \ {a} |-> f[b]]
           one == {a} \X (1 .. f[a])
<1>1. IsFiniteSet(S \ {a}) /\ rest \in [S \ {a} -> Nat]
  BY FS_RemoveElement
<1>2. IsFiniteSet(Coins(rest))
  BY <1>1, CoinsFinite
<1>3. IsFiniteSet(one) /\ Cardinality(one) = f[a]
  BY CoinsOfOne
<1>4. Coins(f) = Coins(rest) \cup one
  <2>1. DOMAIN f = S /\ DOMAIN rest = S \ {a}
    OBVIOUS
  <2>2. \A b \in S \ {a} : rest[b] = f[b]
    OBVIOUS
  <2>3. Coins(rest) = UNION {{b} \X (1 .. f[b]) : b \in S \ {a}}
    BY <2>1, <2>2 DEF Coins
  <2>4. Coins(f) = UNION {{b} \X (1 .. f[b]) : b \in S}
    BY <2>1 DEF Coins
  <2> QED
    BY <2>3, <2>4
<1>5. Coins(rest) \cap one = {}
  <2>1. \A x \in Coins(rest) : \E b \in S \ {a} : x \in {b} \X (1 .. f[b])
    BY DEF Coins
  <2> QED
    BY <2>1
<1>6. Cardinality(Coins(rest) \cap one) = 0
  BY <1>5, FS_EmptySet
<1>7. Cardinality(Coins(rest) \cup one)
        = Cardinality(Coins(rest)) + Cardinality(one) - Cardinality(Coins(rest) \cap one)
  BY <1>2, <1>3, FS_Union
<1>8. Cardinality(Coins(rest)) \in Nat
  BY <1>2, FS_CardinalityType
<1> HIDE DEF rest, one
<1>9. Cardinality(Coins(f)) = Cardinality(Coins(rest)) + f[a]
  BY <1>3, <1>4, <1>6, <1>7, <1>8
<1> QED
  BY <1>9 DEF Sum, rest

(* No value exceeds the sum. *)
LEMMA SumBoundsValue ==
    ASSUME NEW S, IsFiniteSet(S), NEW f \in [S -> Nat], NEW a \in S
    PROVE  f[a] <= Sum(f)
<1>1. IsFiniteSet(S \ {a}) /\ [b \in S \ {a} |-> f[b]] \in [S \ {a} -> Nat]
  BY FS_RemoveElement
<1>2. Sum([b \in S \ {a} |-> f[b]]) \in Nat
  BY <1>1, SumType
<1> QED
  BY <1>2, SumSplit

(* Changing one value changes the sum by as much. *)
LEMMA SumUpdate ==
    ASSUME NEW S, IsFiniteSet(S), NEW f \in [S -> Nat], NEW a \in S, NEW n \in Nat
    PROVE  Sum([f EXCEPT ![a] = n]) = Sum(f) - f[a] + n
<1> DEFINE g == [f EXCEPT ![a] = n]
<1>1. g \in [S -> Nat] /\ g[a] = n
  OBVIOUS
<1>2. [b \in S \ {a} |-> g[b]] = [b \in S \ {a} |-> f[b]]
  OBVIOUS
<1>3. Sum(g) = Sum([b \in S \ {a} |-> g[b]]) + g[a]
  <2> HIDE DEF g
  <2> QED BY <1>1, SumSplit
<1>4. Sum(f) = Sum([b \in S \ {a} |-> f[b]]) + f[a]
  BY SumSplit
<1>5. Sum([b \in S \ {a} |-> f[b]]) \in Nat
  <2>1. IsFiniteSet(S \ {a}) /\ [b \in S \ {a} |-> f[b]] \in [S \ {a} -> Nat]
    BY FS_RemoveElement
  <2> QED BY <2>1, SumType
<1>6. Sum(g) = Sum([b \in S \ {a} |-> f[b]]) + n
  <2> HIDE DEF g
  <2> QED BY <1>1, <1>2, <1>3
<1> QED
  BY <1>4, <1>5, <1>6

(* A function that is zero everywhere sums to zero. *)
LEMMA SumZero ==
    ASSUME NEW S, NEW f, f = [a \in S |-> 0]
    PROVE  Sum(f) = 0
<1>1. Coins(f) = {}
  BY DEF Coins
<1> QED
  BY <1>1, FS_EmptySet DEF Sum

(* A sum over fewer elements with smaller values is no larger. *)
LEMMA SumMonotone ==
    ASSUME NEW T, IsFiniteSet(T), NEW S \in SUBSET T,
           NEW f \in [S -> Nat], NEW g \in [T -> Nat],
           \A a \in S : f[a] <= g[a]
    PROVE  Sum(f) <= Sum(g)
<1>1. IsFiniteSet(Coins(g))
  BY CoinsFinite
<1>2. Coins(f) \subseteq Coins(g)
  <2> SUFFICES ASSUME NEW a \in S, NEW c \in {a} \X (1 .. f[a])
               PROVE  c \in {a} \X (1 .. g[a])
    BY DEF Coins
  <2>1. f[a] \in Nat /\ g[a] \in Nat /\ f[a] <= g[a]
    OBVIOUS
  <2> QED
    BY <2>1
<1>3. Cardinality(Coins(f)) <= Cardinality(Coins(g))
  BY <1>1, <1>2, FS_Subset
<1> QED
  BY <1>3 DEF Sum

(* A sum over one more element is larger by its value. *)
LEMMA SumOneMore ==
    ASSUME NEW S, IsFiniteSet(S), NEW a, a \notin S, NEW f \in [S \cup {a} -> Nat]
    PROVE  Sum(f) = Sum([b \in S |-> f[b]]) + f[a]
<1>1. IsFiniteSet(S \cup {a})
  BY FS_AddElement
<1>2. (S \cup {a}) \ {a} = S
  OBVIOUS
<1>3. Sum(f) = Sum([b \in (S \cup {a}) \ {a} |-> f[b]]) + f[a]
  BY <1>1, SumSplit
<1> QED
  BY <1>2, <1>3

(* Renaming the elements of the domain leaves the sum as it is. *)
LEMMA SumRenamed ==
    ASSUME NEW S, IsFiniteSet(S), NEW f \in [S -> Nat], NEW T, NEW g \in [T -> Nat],
           NEW h \in Bijection(S, T), \A a \in S : g[h[a]] = f[a]
    PROVE  Sum(g) = Sum(f)
<1> DEFINE moved == [c \in Coins(f) |-> <<h[c[1]], c[2]>>]
<1>1. /\ h \in [S -> T] /\ \A a, b \in S : h[a] = h[b] => a = b
      /\ \A t \in T : \E a \in S : h[a] = t
  BY Fun_BijectionProperties
<1>2. \A c : c \in Coins(f) <=> \E a \in S : \E n \in 1 .. f[a] : c = <<a, n>>
  BY DEF Coins
<1>3. \A c : c \in Coins(g) <=> \E t \in T : \E n \in 1 .. g[t] : c = <<t, n>>
  BY DEF Coins
<1>4. moved \in [Coins(f) -> Coins(g)]
  <2> SUFFICES ASSUME NEW c \in Coins(f) PROVE <<h[c[1]], c[2]>> \in Coins(g)
    OBVIOUS
  <2>1. PICK a \in S : \E n \in 1 .. f[a] : c = <<a, n>>
    BY <1>2
  <2>2. PICK n \in 1 .. f[a] : c = <<a, n>>
    BY <2>1
  <2>3. h[a] \in T /\ n \in 1 .. g[h[a]] /\ c[1] = a /\ c[2] = n
    BY <1>1, <2>2
  <2> QED BY <1>3, <2>3
<1>5. \A c, d \in Coins(f) : moved[c] = moved[d] => c = d
  <2> SUFFICES ASSUME NEW c \in Coins(f), NEW d \in Coins(f), moved[c] = moved[d]
               PROVE  c = d
    OBVIOUS
  <2>1. PICK a \in S : \E n \in 1 .. f[a] : c = <<a, n>>
    BY <1>2
  <2>2. PICK b \in S : \E n \in 1 .. f[b] : d = <<b, n>>
    BY <1>2
  <2>3. moved[c] = <<h[a], c[2]>> /\ moved[d] = <<h[b], d[2]>>
    BY <2>1, <2>2
  <2> QED BY <1>1, <2>1, <2>2, <2>3
<1>6. \A e \in Coins(g) : \E c \in Coins(f) : moved[c] = e
  <2> SUFFICES ASSUME NEW e \in Coins(g) PROVE \E c \in Coins(f) : moved[c] = e
    OBVIOUS
  <2>1. PICK t \in T : \E n \in 1 .. g[t] : e = <<t, n>>
    BY <1>3
  <2>2. PICK n \in 1 .. g[t] : e = <<t, n>>
    BY <2>1
  <2>3. PICK a \in S : h[a] = t
    BY <1>1
  <2>4. <<a, n>> \in Coins(f)
    BY <1>2, <2>2, <2>3
  <2>5. moved[<<a, n>>] = e
    BY <2>2, <2>3, <2>4
  <2> QED BY <2>4, <2>5
<1>7. ExistsBijection(Coins(f), Coins(g))
  <2> HIDE DEF moved
  <2>1. moved \in Bijection(Coins(f), Coins(g))
    BY <1>4, <1>5, <1>6, Fun_IsBij
  <2> QED BY <2>1 DEF ExistsBijection
<1>8. IsFiniteSet(Coins(f))
  BY CoinsFinite
<1> QED
  BY <1>7, <1>8, FS_Bijection DEF Sum
=============================================================================
