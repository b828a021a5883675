--------------------------- MODULE CountingLemmas ---------------------------
(***************************************************************************)
(* Facts about the number of elements of finite sets, for the proof modules *)
(* whose models count threads, tasks or checks.                             *)
(***************************************************************************)
EXTENDS Integers, FiniteSetTheorems, TLAPS

-----------------------------------------------------------------------------
(* Few and many.                                                            *)

\* A set whose elements are all equal has one element or none.
LEMMA OneOrNone ==
  ASSUME NEW S, \A x, y \in S : x = y
  PROVE  Cardinality(S) = IF S = {} THEN 0 ELSE 1
<1>1. CASE S = {}
  BY <1>1, FS_EmptySet
<1>2. ASSUME NEW x \in S PROVE S = {x} /\ Cardinality({x}) = 1
  BY FS_Singleton, Zenon
<1> QED BY <1>1, <1>2

\* Two finite sets together are finite.
LEMMA UnionFinite == ASSUME NEW S, NEW T, IsFiniteSet(S), IsFiniteSet(T) PROVE IsFiniteSet(S \cup T)
BY FS_Union, Zenon

\* The size of a subset, and what one element changes.
LEMMA SubsetSize ==
  ASSUME NEW T, IsFiniteSet(T), NEW S \in SUBSET T
  PROVE  /\ Cardinality(T) \in Nat /\ Cardinality(S) \in 0..Cardinality(T)
         /\ \A t \in T :
              /\ Cardinality(S \cup {t}) = IF t \in S THEN Cardinality(S) ELSE Cardinality(S) + 1
              /\ Cardinality(S \ {t}) = IF t \in S THEN Cardinality(S) - 1 ELSE Cardinality(S)
<1>1. /\ Cardinality(T) \in Nat /\ IsFiniteSet(S) /\ Cardinality(S) \in Nat
      /\ Cardinality(S) <= Cardinality(T)
  BY FS_Subset, FS_CardinalityType
<1>2. ASSUME NEW t \in T
      PROVE  /\ Cardinality(S \cup {t}) = IF t \in S THEN Cardinality(S) ELSE Cardinality(S) + 1
             /\ Cardinality(S \ {t}) = IF t \in S THEN Cardinality(S) - 1 ELSE Cardinality(S)
  BY <1>1, FS_AddElement, FS_RemoveElement, Zenon
<1>3. Cardinality(S) \in 0..Cardinality(T)
  BY <1>1
<1> QED BY <1>1, <1>2, <1>3, Zenon

-----------------------------------------------------------------------------
(* Sums, as the number of elements of a set of pairs.                       *)

\* h[t] pairs for every t.
Pairs(T, N, h) == {x \in T \X (1..N) : x[2] <= h[x[1]]}

\* From f to g the sum changes by the difference at t.
SumChanges(T, N, f, g, t) ==
  Cardinality(Pairs(T, N, g)) = Cardinality(Pairs(T, N, f)) - f[t] + g[t]

\* When the number of one t changes, the sum changes by the difference.
LEMMA PairsChange ==
  ASSUME NEW T, IsFiniteSet(T), NEW N \in Nat, NEW f \in [T -> 0..N], NEW g \in [T -> 0..N],
         NEW t \in T, \A u \in T \ {t} : g[u] = f[u]
  PROVE  /\ IsFiniteSet(Pairs(T, N, f)) /\ Cardinality(Pairs(T, N, f)) \in Nat
         /\ SumChanges(T, N, f, g, t)
         /\ f[t] <= Cardinality(Pairs(T, N, f))
<1> DEFINE R == {x \in (T \ {t}) \X (1..N) : x[2] <= f[x[1]]}
           C(k) == {t} \X (1..k)
<1>1. IsFiniteSet(T \X (1..N))
  <2>1. IsFiniteSet(1..N)
    BY FS_Interval
  <2> QED BY <2>1, FS_Product, Zenon
<1>2. R \subseteq T \X (1..N) /\ IsFiniteSet(R) /\ Cardinality(R) \in Nat
  <2>1. R \subseteq T \X (1..N)
    OBVIOUS
  <2> QED BY <2>1, <1>1, FS_Subset, FS_CardinalityType, ZenonT(20)
<1>3. ASSUME NEW h \in [T -> 0..N], \A u \in T \ {t} : h[u] = f[u]
      PROVE  IsFiniteSet(Pairs(T, N, h)) /\ Cardinality(Pairs(T, N, h)) = Cardinality(R) + h[t]
  <2>1. h[t] \in 0..N
    OBVIOUS
  <2>2. IsFiniteSet({t}) /\ Cardinality({t}) = 1
    BY FS_Singleton, Zenon
  <2>3. IsFiniteSet(1..h[t]) /\ Cardinality(1..h[t]) = h[t]
    <3>1. 1 \in Int /\ h[t] \in Int
      BY <2>1
    <3>2. IsFiniteSet(1..h[t]) /\ Cardinality(1..h[t]) = IF 1 > h[t] THEN 0 ELSE h[t]-1+1
      BY <3>1, FS_Interval, Zenon
    <3> QED BY <2>1, <3>2
  <2>4. IsFiniteSet(C(h[t])) /\ Cardinality(C(h[t])) = h[t]
    <3>1. IsFiniteSet(C(h[t])) /\ Cardinality(C(h[t])) = Cardinality({t}) * Cardinality(1..h[t])
      BY <2>2, <2>3, FS_Product, Zenon
    <3> HIDE DEF C
    <3> QED BY <3>1, <2>1, <2>2, <2>3
  <2>5. Pairs(T, N, h) = R \cup C(h[t])
    <3>1. ASSUME NEW x \in Pairs(T, N, h) PROVE x \in R \cup C(h[t])
      BY <1>3, <2>1 DEF Pairs
    <3>2. ASSUME NEW x \in R PROVE x \in Pairs(T, N, h)
      BY <1>3 DEF Pairs
    <3>3. ASSUME NEW x \in C(h[t]) PROVE x \in Pairs(T, N, h)
      BY <2>1 DEF Pairs
    <3> QED BY <3>1, <3>2, <3>3
  <2>6. R \cap C(h[t]) = {}
    BY Zenon
  <2>7. Cardinality(R \cap C(h[t])) = 0
    BY <2>6, FS_EmptySet, Zenon
  <2> HIDE DEF R, C
  <2>8. IsFiniteSet(R \cup C(h[t]))
        /\ Cardinality(R \cup C(h[t])) = Cardinality(R) + Cardinality(C(h[t])) - Cardinality(R \cap C(h[t]))
    BY <1>2, <2>4, FS_Union
  <2>9. /\ Cardinality(R) \in Nat /\ h[t] \in 0..N /\ Cardinality(C(h[t])) = h[t]
        /\ Cardinality(R \cup C(h[t])) = Cardinality(R) + Cardinality(C(h[t])) - 0
    BY <1>2, <2>1, <2>4, <2>7, <2>8, Zenon
  <2>10. Cardinality(R \cup C(h[t])) = Cardinality(R) + h[t]
    BY <2>9
  <2> QED BY <2>5, <2>8, <2>10, Zenon
<1> HIDE DEF R, C
<1>4. f[t] \in 0..N /\ g[t] \in 0..N
  OBVIOUS
<1>5. IsFiniteSet(Pairs(T, N, f)) /\ Cardinality(Pairs(T, N, f)) = Cardinality(R) + f[t]
  BY <1>3
<1>6. IsFiniteSet(Pairs(T, N, g)) /\ Cardinality(Pairs(T, N, g)) = Cardinality(R) + g[t]
  BY <1>3
<1> QED BY <1>2, <1>4, <1>5, <1>6 DEF SumChanges
=============================================================================
