----------------------------- MODULE MstarProofs ----------------------------
(***************************************************************************)
(* The safety of m*, for every cache size, set of blocks and internal      *)
(* policy that keeps to CachePolicy: of its ghosts, for every logic that   *)
(* keeps to MstarPhases, and of its logic, which does.                     *)
(***************************************************************************)
EXTENDS Mstar, MstarLogic, TLAPS, SequenceTheorems, FiniteSetTheorems

-----------------------------------------------------------------------------
(***************************************************************************)
(* Numbers and lists.                                                      *)
(***************************************************************************)

\* The larger of two numbers.
LEMMA MaxOfTwo ==
  ASSUME NEW a \in Int, NEW b \in Int
  PROVE  Max({a, b}) = IF a >= b THEN a ELSE b
<1>1. \E x \in {a, b} : \A y \in {a, b} : x >= y
  OBVIOUS
<1>2. Max({a, b}) \in {a, b} /\ \A y \in {a, b} : Max({a, b}) >= y
  BY <1>1 DEF Max
<1> QED
  BY <1>2

\* The smaller of two numbers.
LEMMA MinOfTwo ==
  ASSUME NEW a \in Int, NEW b \in Int
  PROVE  Min({a, b}) = IF a <= b THEN a ELSE b
<1>1. \E x \in {a, b} : \A y \in {a, b} : x <= y
  OBVIOUS
<1>2. Min({a, b}) \in {a, b} /\ \A y \in {a, b} : Min({a, b}) <= y
  BY <1>1 DEF Min
<1> QED
  BY <1>2

\* What is left over by an integer division is less than the divisor.
LEMMA DivFacts ==
  ASSUME NEW a \in Nat, NEW b \in Nat, b > 0
  PROVE  /\ a \div b \in Nat
         /\ b * (a \div b) <= a
         /\ a < b * (a \div b) + b
  OBVIOUS

\* What RemoveAt leaves of a sequence, position by position.
LEMMA RemoveAtFacts ==
  ASSUME NEW S, NEW q \in Seq(S), NEW i \in 1 .. Len(q)
  PROVE  /\ RemoveAt(q, i) \in Seq(S)
         /\ Len(RemoveAt(q, i)) = Len(q) - 1
         /\ \A j \in 1 .. Len(q) - 1 :
              RemoveAt(q, i)[j] = IF j < i THEN q[j] ELSE q[j + 1]
<1> DEFINE a == SubSeq(q, 1, i - 1)
           b == SubSeq(q, i + 1, Len(q))
<1>1. a \in Seq(S) /\ Len(a) = i - 1 /\ \A j \in 1 .. i - 1 : a[j] = q[j]
  BY SubSeqProperties, SMT
<1>2. b \in Seq(S) /\ Len(b) = Len(q) - i /\ \A j \in 1 .. Len(q) - i : b[j] = q[i + j]
  BY SubSeqProperties, SMT
<1>3. RemoveAt(q, i) = a \o b
  BY DEF RemoveAt
<1>4. /\ a \o b \in Seq(S)
      /\ Len(a \o b) = Len(a) + Len(b)
      /\ \A j \in 1 .. Len(a) + Len(b) :
            (a \o b)[j] = IF j <= Len(a) THEN a[j] ELSE b[j - Len(a)]
  BY <1>1, <1>2, ConcatProperties
<1> HIDE DEF a, b
<1> QED
  BY <1>1, <1>2, <1>3, <1>4, LenProperties

\* What Tail leaves keeps its order.
LEMMA TailFacts ==
  ASSUME NEW S, NEW q \in Seq(S), q # <<>>
  PROVE  /\ Tail(q) \in Seq(S)
         /\ Len(q) \in Nat \ {0} /\ Len(Tail(q)) = Len(q) - 1
         /\ DOMAIN q = 1 .. Len(q) /\ DOMAIN Tail(q) = 1 .. Len(q) - 1
         /\ \A j \in 1 .. Len(q) - 1 : Tail(q)[j] = q[j + 1]
  BY LenProperties, EmptySeq, HeadTailProperties

\* The places of an item in a queue.
PlacesIn(q, x) == {k \in DOMAIN q : q[k] = x}

LEMMA PlacesFinite ==
  ASSUME NEW S, NEW q \in Seq(S), NEW x
  PROVE  IsFiniteSet(PlacesIn(q, x)) /\ Cardinality(PlacesIn(q, x)) \in Nat
<1>1. DOMAIN q = 1 .. Len(q) /\ Len(q) \in Nat
  BY LenProperties
<1>2. IsFiniteSet(1 .. Len(q)) /\ PlacesIn(q, x) \in SUBSET (1 .. Len(q))
  BY <1>1, FS_Interval DEF PlacesIn
<1> QED
  BY <1>2, FS_Subset, FS_CardinalityType

\* Taking an item out of a queue leaves it there less often.
LEMMA PlacesRemove ==
  ASSUME NEW S, NEW q \in Seq(S), NEW x, NEW i \in PlacesIn(q, x)
  PROVE  Cardinality(PlacesIn(RemoveAt(q, i), x)) < Cardinality(PlacesIn(q, x))
<1> DEFINE r == RemoveAt(q, i)
           f == [k \in PlacesIn(r, x) |-> IF k < i THEN k ELSE k + 1]
<1>1. DOMAIN q = 1 .. Len(q) /\ Len(q) \in Nat /\ i \in 1 .. Len(q)
  BY LenProperties DEF PlacesIn
<1>2. /\ r \in Seq(S) /\ Len(r) = Len(q) - 1
      /\ \A j \in 1 .. Len(q) - 1 : r[j] = IF j < i THEN q[j] ELSE q[j + 1]
  BY <1>1, RemoveAtFacts
<1>3. DOMAIN r = 1 .. Len(q) - 1
  BY <1>2, LenProperties
<1> HIDE DEF r
<1>4. ASSUME NEW k \in PlacesIn(r, x)
      PROVE  k \in Int /\ (IF k < i THEN k ELSE k + 1) \in PlacesIn(q, x) \ {i}
  <2>1. k \in 1 .. Len(q) - 1 /\ r[k] = x
    BY <1>3 DEF PlacesIn
  <2> QED
    BY <1>1, <1>2, <2>1 DEF PlacesIn
<1>5. f \in Injection(PlacesIn(r, x), PlacesIn(q, x) \ {i})
  <2>1. f \in [PlacesIn(r, x) -> PlacesIn(q, x) \ {i}]
    BY <1>4
  <2>2. \A j, k \in PlacesIn(r, x) : f[j] = f[k] => j = k
    BY <1>1, <1>4
  <2> QED
    BY <2>1, <2>2 DEF Injection, IsInjective
<1> HIDE DEF f
<1>6. /\ IsFiniteSet(PlacesIn(q, x) \ {i})
      /\ Cardinality(PlacesIn(q, x) \ {i}) = Cardinality(PlacesIn(q, x)) - 1
      /\ Cardinality(PlacesIn(q, x)) \in Nat
  BY PlacesFinite, FS_RemoveElement
<1>7. Cardinality(PlacesIn(r, x)) <= Cardinality(PlacesIn(q, x) \ {i})
  BY <1>5, <1>6, FS_Injection
<1>8. Cardinality(PlacesIn(r, x)) \in Nat
  BY <1>2, PlacesFinite
<1> QED
  BY <1>6, <1>7, <1>8 DEF r

\* Nor does it stand there more often after the head is gone.
LEMMA PlacesTail ==
  ASSUME NEW S, NEW q \in Seq(S), q # <<>>, NEW x
  PROVE  Cardinality(PlacesIn(Tail(q), x)) <= Cardinality(PlacesIn(q, x))
<1> DEFINE t == Tail(q)
           f == [k \in PlacesIn(t, x) |-> k + 1]
<1>1. /\ t \in Seq(S)
      /\ Len(q) \in Nat
      /\ DOMAIN q = 1 .. Len(q) /\ DOMAIN t = 1 .. Len(q) - 1
      /\ \A j \in 1 .. Len(q) - 1 : t[j] = q[j + 1]
  BY TailFacts
<1> HIDE DEF t
<1>2. \A k \in PlacesIn(t, x) : k \in Nat /\ k + 1 \in PlacesIn(q, x)
  BY <1>1 DEF PlacesIn
<1>3. f \in Injection(PlacesIn(t, x), PlacesIn(q, x))
  <2>1. f \in [PlacesIn(t, x) -> PlacesIn(q, x)]
    BY <1>2
  <2>2. \A j, k \in PlacesIn(t, x) : f[j] = f[k] => j = k
    BY <1>2
  <2> QED
    BY <2>1, <2>2 DEF Injection, IsInjective
<1> HIDE DEF f
<1>4. IsFiniteSet(PlacesIn(q, x))
  BY PlacesFinite
<1>5. Cardinality(PlacesIn(t, x)) <= Cardinality(PlacesIn(q, x))
  BY <1>3, <1>4, FS_Injection
<1> QED
  BY <1>5 DEF t

-----------------------------------------------------------------------------
(***************************************************************************)
(* The number of ghosts.                                                   *)
(***************************************************************************)

\* The bounds of ghost_size leave an entry of the pool of ghosts unused, and the
\* lower one is 0 only if the cache has fewer than GhostDivisor blocks.
LEMMA GhostBounds ==
  /\ min_ghost_size \in Nat /\ max_ghost_size \in Nat
  /\ min_ghost_size <= max_ghost_size
  /\ max_ghost_size < CacheSize
  /\ min_ghost_size = 0 => CacheSize < GhostDivisor
<1> DEFINE D == GhostDivisor
           M == CacheSize
           q == min_ghost_size
           r == max_ghost_size
<1>1. D \in Nat /\ D >= 2 /\ M \in Nat /\ M > 0
  BY MstarAssumption, TabuAssumption
<1>2. q \in Nat /\ D * q <= M /\ M < D * q + D
  BY <1>1, DivFacts DEF min_ghost_size
<1>3. (D - 1) * M \in Nat /\ (D - 1) * M = D * M - M /\ (D - 1) * M >= M
  BY <1>1
<1>4. r \in Nat /\ D * r <= (D - 1) * M /\ (D - 1) * M < D * r + D
  BY <1>1, <1>3, DivFacts DEF max_ghost_size
<1> HIDE DEF D, M, q, r
<1>5. q <= r
  <2>1. ASSUME q >= r + 1 PROVE FALSE
    <3>1. D * q >= D * (r + 1) /\ D * (r + 1) = D * r + D
      BY <1>1, <1>2, <1>4, <2>1
    <3> QED
      BY <1>1, <1>2, <1>3, <1>4, <3>1
  <2> QED
    BY <1>2, <1>4, <2>1
<1>6. r < M
  <2>1. ASSUME r >= M PROVE FALSE
    <3>1. D * r >= D * M
      BY <1>1, <1>4, <2>1
    <3> QED
      BY <1>1, <1>3, <1>4, <3>1
  <2> QED
    BY <1>1, <1>4, <2>1
<1>7. q = 0 => M < D
  BY <1>1, <1>2
<1> QED
  BY <1>2, <1>4, <1>5, <1>6, <1>7 DEF D, M, q, r

\* The adaptation stays within the bounds, and a miss makes the size no smaller.
LEMMA GhostAdapts ==
  ASSUME NEW size \in min_ghost_size .. max_ghost_size
  PROVE  /\ mstar_decrease_ghost_size(size) \in min_ghost_size .. max_ghost_size
         /\ size # 0 =>
              /\ mstar_increase_ghost_size(size) \in min_ghost_size .. max_ghost_size
              /\ mstar_increase_ghost_size(size) >= size
<1>1. /\ min_ghost_size \in Nat /\ max_ghost_size \in Nat
      /\ min_ghost_size <= max_ghost_size /\ max_ghost_size < CacheSize
      /\ CacheSize \in Nat /\ size \in Nat
      /\ min_ghost_size <= size /\ size <= max_ghost_size
  BY GhostBounds, MstarAssumption, TabuAssumption
<1>2. mstar_decrease_ghost_size(size) \in min_ghost_size .. max_ghost_size
  <2> DEFINE tmp == CacheSize \div (CacheSize - size)
  <2>1. tmp \in Nat
    BY <1>1, DivFacts
  <2>2. mstar_decrease_ghost_size(size) =
          IF size >= tmp THEN Max({min_ghost_size, size - tmp}) ELSE min_ghost_size
    BY DEF mstar_decrease_ghost_size
  <2> HIDE DEF tmp
  <2>3. Max({min_ghost_size, size - tmp}) =
          IF min_ghost_size >= size - tmp THEN min_ghost_size ELSE size - tmp
    BY <1>1, <2>1, MaxOfTwo
  <2> QED
    BY <1>1, <2>1, <2>2, <2>3
<1>3. ASSUME size # 0
      PROVE  /\ mstar_increase_ghost_size(size) \in min_ghost_size .. max_ghost_size
             /\ mstar_increase_ghost_size(size) >= size
  <2> DEFINE tmp == size + (CacheSize \div size)
  <2>1. tmp \in Nat /\ tmp >= size
    BY <1>1, <1>3, DivFacts
  <2>2. mstar_increase_ghost_size(size) = Min({max_ghost_size, tmp})
    BY DEF mstar_increase_ghost_size
  <2> HIDE DEF tmp
  <2>3. Min({max_ghost_size, tmp}) = IF max_ghost_size <= tmp THEN max_ghost_size ELSE tmp
    BY <1>1, <2>1, MinOfTwo
  <2> QED
    BY <1>1, <2>1, <2>2, <2>3
<1> QED
  BY <1>2, <1>3

\* The bounds are constants.
LEMMA BoundsFixed ==
  min_ghost_size' = min_ghost_size /\ max_ghost_size' = max_ghost_size
  BY DEF min_ghost_size, max_ghost_size

\* At most one ghost is evicted, the oldest.
LEMMA LengthControl ==
  ASSUME NEW q \in Seq(Oblocks), NEW size \in min_ghost_size .. max_ghost_size,
         Len(q) <= max_ghost_size + 1,
         NEW r, r = mstar_ghost_length_control(q, size)
  PROVE  /\ r \in Seq(Oblocks)
         /\ Len(r) <= Len(q) /\ Len(r) <= max_ghost_size
         /\ \A x : Cardinality(PlacesIn(r, x)) <= Cardinality(PlacesIn(q, x))
         /\ size > 0 /\ q # <<>> => r # <<>> /\ Last(r) = Last(q)
<1>1. r = IF Len(q) > size THEN Tail(q) ELSE q
  BY DEF mstar_ghost_length_control
<1>2. /\ Len(q) \in Nat /\ size \in Nat /\ size <= max_ghost_size
      /\ max_ghost_size \in Nat
  BY LenProperties, GhostBounds
<1>3. CASE Len(q) > size
  <2>1. q # <<>>
    BY <1>2, <1>3
  <2>2. /\ r = Tail(q)
        /\ r \in Seq(Oblocks)
        /\ Len(r) = Len(q) - 1
        /\ DOMAIN r = 1 .. Len(q) - 1
        /\ \A j \in 1 .. Len(q) - 1 : r[j] = q[j + 1]
    BY <1>1, <1>3, <2>1, TailFacts
  <2>3. \A x : Cardinality(PlacesIn(r, x)) <= Cardinality(PlacesIn(q, x))
    BY <2>1, <2>2, PlacesTail
  <2>4. ASSUME size > 0
        PROVE  r # <<>> /\ Last(r) = Last(q)
    <3>1. Len(q) - 1 \in 1 .. Len(q) - 1 /\ (Len(q) - 1) + 1 = Len(q)
      BY <1>2, <1>3, <2>4
    <3>2. r[Len(r)] = q[Len(q)]
      BY <2>2, <3>1
    <3>3. 1 \in DOMAIN r
      BY <1>2, <2>2, <3>1
    <3>4. r # <<>>
      BY <3>3
    <3> QED
      BY <3>2, <3>4 DEF Last
  <2> QED
    BY <1>2, <2>2, <2>3, <2>4
<1>4. CASE ~(Len(q) > size)
  <2>1. r = q
    BY <1>1, <1>4
  <2>2. \A x : Cardinality(PlacesIn(q, x)) \in Nat
    BY PlacesFinite
  <2>3. \A x : Cardinality(PlacesIn(q, x)) <= Cardinality(PlacesIn(q, x))
    BY <2>2
  <2> QED
    BY <1>2, <1>4, <2>1, <2>3
<1> QED
  BY <1>3, <1>4

-----------------------------------------------------------------------------
(***************************************************************************)
(* The requests.                                                           *)
(***************************************************************************)

\* The ghosts and how many there may be.
GhostsInv ==
  /\ mstar_g \in Seq(Oblocks)
  /\ ghost_size \in min_ghost_size .. max_ghost_size
  /\ Len(mstar_g) <= max_ghost_size

\* Nothing is asserted in vain if the cache is not too small for its ghosts.
MstarInv ==
  /\ GhostsInv
  /\ crashed \in {Null, "assert", "null"}
  /\ crashed = "assert" => CacheSize < GhostDivisor

\* What the internal policy answers, and when.
LEMMA PolicyMap ==
  ASSUME NEW o, policy_map(o)
  PROVE  \/ answer'[1] = "HIT" /\ o \in cached
         \/ answer'[1] = "NEW" /\ o \notin cached /\ Cardinality(cached) < CacheSize
         \/ answer'[1] = "FAIL" /\ o \notin cached /\ Full
         \/ answer'[1] = "REPLACE" /\ o \notin cached /\ Full /\ o \in cached' \ cached
  BY DEF policy_map, Hit, New, Fail, Replace, Full, mstar_cache_is_full

\* The size's new value after a miss.
LEMMA MissSize ==
  ASSUME GhostsInv, Full => ghost_size > 0,
         ghost_size' = IF Full THEN mstar_increase_ghost_size(ghost_size) ELSE ghost_size
  PROVE  /\ ghost_size' \in min_ghost_size .. max_ghost_size
         /\ Full => ghost_size' > 0
<1>1. ghost_size \in Nat
  BY GhostBounds DEF GhostsInv
<1>2. CASE Full
  <2>1. ghost_size # 0
    BY <1>1, <1>2
  <2>2. /\ ghost_size' \in min_ghost_size .. max_ghost_size
        /\ ghost_size' >= ghost_size
    BY <1>2, <2>1, GhostAdapts DEF GhostsInv
  <2> QED
    BY <1>1, <2>1, <2>2
<1>3. CASE ~Full
  BY <1>3 DEF GhostsInv
<1> QED
  BY <1>2, <1>3

\* A hit shrinks the ghosts.
LEMMA HitStep ==
  ASSUME GhostsInv, NEW o \in Oblocks, mstar_hit(o)
  PROVE  GhostsInv'
<1>1. ghost_size' \in min_ghost_size .. max_ghost_size
  BY GhostAdapts DEF mstar_hit, GhostsInv
<1>2. mstar_g \in Seq(Oblocks) /\ Len(mstar_g) <= max_ghost_size + 1
  BY LenProperties, GhostBounds DEF GhostsInv
<1>3. mstar_g' = mstar_ghost_length_control(mstar_g, ghost_size')
  BY DEF mstar_hit
<1>4. mstar_g' \in Seq(Oblocks) /\ Len(mstar_g') <= max_ghost_size
  BY <1>1, <1>2, <1>3, LengthControl
<1> QED
  BY <1>1, <1>4, BoundsFixed DEF GhostsInv

\* A ghost hit in a full cache: the ghost is the newest, or one fewer.
LEMMA GhostHitStep ==
  ASSUME GhostsInv, NEW o \in Oblocks, mstar_asserts(o), mstar_ghost_hit(o)
  PROVE  /\ GhostsInv'
         /\ Full /\ state # "UNSTABLE" =>
              /\ Len(mstar_g') < Len(mstar_g)
              /\ Cardinality(Places(o)') < Cardinality(Places(o))
         /\ Full /\ state = "UNSTABLE" => mstar_g' # <<>> /\ Last(mstar_g') = o
<1> PICK i \in Places(o) :
      /\ ghost_size' = IF Full THEN mstar_increase_ghost_size(ghost_size) ELSE ghost_size
      /\ mstar_g' = mstar_ghost_length_control(
                      CASE ~Full -> mstar_g
                        [] Full /\ state = "UNSTABLE" ->
                             Append(mstar_only_remove(mstar_g, i), o)
                        [] Full /\ state # "UNSTABLE" -> mstar_only_remove(mstar_g, i),
                      ghost_size')
  BY DEF mstar_ghost_hit
<1> DEFINE left == RemoveAt(mstar_g, i)
<1>1. ghost_size' \in min_ghost_size .. max_ghost_size /\ (Full => ghost_size' > 0)
  BY MissSize DEF mstar_asserts, mstar_ghost_hit
<1>2. /\ mstar_g \in Seq(Oblocks) /\ Len(mstar_g) \in Nat
      /\ max_ghost_size \in Nat /\ Len(mstar_g) <= max_ghost_size
      /\ DOMAIN mstar_g = 1 .. Len(mstar_g)
  BY LenProperties, GhostBounds DEF GhostsInv
<1>3. i \in 1 .. Len(mstar_g) /\ i \in PlacesIn(mstar_g, o)
  BY <1>2 DEF Places, PlacesIn
<1>4. left \in Seq(Oblocks) /\ Len(left) = Len(mstar_g) - 1
  BY <1>2, <1>3, RemoveAtFacts
<1>5. Cardinality(PlacesIn(left, o)) < Cardinality(PlacesIn(mstar_g, o))
  BY <1>2, <1>3, PlacesRemove
<1>6. /\ Cardinality(PlacesIn(mstar_g, o)) \in Nat
      /\ Cardinality(PlacesIn(left, o)) \in Nat
  BY <1>2, <1>4, PlacesFinite
<1>7. mstar_only_remove(mstar_g, i) = left
  BY DEF mstar_only_remove
<1> HIDE DEF left
<1>8. CASE ~Full
  <2>1. mstar_g' = mstar_ghost_length_control(mstar_g, ghost_size')
    BY <1>8
  <2>2. mstar_g' \in Seq(Oblocks) /\ Len(mstar_g') <= max_ghost_size
    BY <1>1, <1>2, <2>1, LengthControl
  <2> QED
    BY <1>1, <1>8, <2>2, BoundsFixed DEF GhostsInv
<1>9. CASE Full /\ state = "UNSTABLE"
  <2>1. mstar_g' = mstar_ghost_length_control(Append(left, o), ghost_size')
    BY <1>7, <1>9
  <2>2. /\ Append(left, o) \in Seq(Oblocks)
        /\ Len(Append(left, o)) = Len(left) + 1
        /\ Append(left, o)[Len(left) + 1] = o
        /\ Append(left, o) # <<>>
    BY <1>4, AppendProperties
  <2>3. Last(Append(left, o)) = o
    BY <2>2 DEF Last
  <2>4. Len(Append(left, o)) <= max_ghost_size + 1
    BY <1>2, <1>4, <2>2
  <2>5. /\ mstar_g' \in Seq(Oblocks) /\ Len(mstar_g') <= max_ghost_size
        /\ mstar_g' # <<>> /\ Last(mstar_g') = Last(Append(left, o))
    BY <1>1, <1>9, <2>1, <2>2, <2>4, LengthControl
  <2> QED
    BY <1>1, <1>9, <2>3, <2>5, BoundsFixed DEF GhostsInv
<1>10. CASE Full /\ state # "UNSTABLE"
  <2>1. mstar_g' = mstar_ghost_length_control(left, ghost_size')
    BY <1>7, <1>10
  <2>2. Len(left) <= max_ghost_size + 1
    BY <1>2, <1>4
  <2>3. /\ mstar_g' \in Seq(Oblocks) /\ Len(mstar_g') <= max_ghost_size
        /\ Len(mstar_g') <= Len(left)
        /\ Cardinality(PlacesIn(mstar_g', o)) <= Cardinality(PlacesIn(left, o))
    BY <1>1, <1>4, <2>1, <2>2, LengthControl
  <2>4. Len(mstar_g') \in Nat /\ Cardinality(PlacesIn(mstar_g', o)) \in Nat
    BY <2>3, LenProperties, PlacesFinite
  <2>5. Len(mstar_g') < Len(mstar_g)
    BY <1>2, <1>4, <2>3, <2>4
  <2>6. Cardinality(PlacesIn(mstar_g', o)) < Cardinality(PlacesIn(mstar_g, o))
    BY <1>5, <1>6, <2>3, <2>4
  <2>7. Places(o) = PlacesIn(mstar_g, o) /\ Places(o)' = PlacesIn(mstar_g', o)
    BY DEF Places, PlacesIn
  <2> QED
    BY <1>1, <1>10, <2>3, <2>5, <2>6, <2>7, BoundsFixed DEF GhostsInv
<1> QED
  BY <1>8, <1>9, <1>10

\* A block that is not a ghost, and misses a full cache, is the newest one then.
LEMMA GhostMissStep ==
  ASSUME GhostsInv, NEW o \in Oblocks, mstar_asserts(o), mstar_ghost_miss(o)
  PROVE  /\ GhostsInv'
         /\ Full => mstar_g' # <<>> /\ Last(mstar_g') = o
<1>1. ghost_size' \in min_ghost_size .. max_ghost_size /\ (Full => ghost_size' > 0)
  BY MissSize DEF mstar_asserts, mstar_ghost_miss
<1>2. /\ mstar_g \in Seq(Oblocks) /\ Len(mstar_g) \in Nat
      /\ max_ghost_size \in Nat /\ Len(mstar_g) <= max_ghost_size
  BY LenProperties, GhostBounds DEF GhostsInv
<1>3. mstar_g' = mstar_ghost_length_control(IF Full THEN Append(mstar_g, o) ELSE mstar_g,
                                            ghost_size')
  BY DEF mstar_ghost_miss
<1>4. CASE ~Full
  <2>1. mstar_g' = mstar_ghost_length_control(mstar_g, ghost_size')
    BY <1>3, <1>4
  <2>2. mstar_g' \in Seq(Oblocks) /\ Len(mstar_g') <= max_ghost_size
    BY <1>1, <1>2, <2>1, LengthControl
  <2> QED
    BY <1>1, <1>4, <2>2, BoundsFixed DEF GhostsInv
<1>5. CASE Full
  <2>1. mstar_g' = mstar_ghost_length_control(Append(mstar_g, o), ghost_size')
    BY <1>3, <1>5
  <2>2. /\ Append(mstar_g, o) \in Seq(Oblocks)
        /\ Len(Append(mstar_g, o)) = Len(mstar_g) + 1
        /\ Append(mstar_g, o)[Len(mstar_g) + 1] = o
        /\ Append(mstar_g, o) # <<>>
    BY <1>2, AppendProperties
  <2>3. Last(Append(mstar_g, o)) = o
    BY <2>2 DEF Last
  <2>4. Len(Append(mstar_g, o)) <= max_ghost_size + 1
    BY <1>2, <2>2
  <2>5. /\ mstar_g' \in Seq(Oblocks) /\ Len(mstar_g') <= max_ghost_size
        /\ mstar_g' # <<>> /\ Last(mstar_g') = Last(Append(mstar_g, o))
    BY <1>1, <1>5, <2>1, <2>2, <2>4, LengthControl
  <2> QED
    BY <1>1, <2>3, <2>5, BoundsFixed DEF GhostsInv
<1> QED
  BY <1>4, <1>5

\* The assertions hold, unless the cache is too small.
LEMMA AssertsHold ==
  ASSUME GhostsInv, NEW o, ~mstar_asserts(o)
  PROVE  CacheSize < GhostDivisor
<1>1. /\ min_ghost_size \in Nat /\ max_ghost_size \in Nat /\ max_ghost_size < CacheSize
      /\ min_ghost_size = 0 => CacheSize < GhostDivisor
      /\ ghost_size \in min_ghost_size .. max_ghost_size
      /\ Len(mstar_g) \in Nat /\ Len(mstar_g) <= max_ghost_size
      /\ CacheSize \in Nat
  BY GhostBounds, LenProperties, MstarAssumption, TabuAssumption DEF GhostsInv
<1>2. ghost_size < CacheSize /\ Len(mstar_g) < CacheSize
  BY <1>1
<1>3. ~(ghost_size > 0)
  BY <1>2 DEF mstar_asserts, meta_pool_size
<1> QED
  BY <1>1, <1>3

-----------------------------------------------------------------------------
(***************************************************************************)
(* The invariant of the ghosts.                                            *)
(***************************************************************************)

LEMMA MstarInitInv == MstarInit => MstarInv
<1> SUFFICES ASSUME MstarInit PROVE MstarInv
  OBVIOUS
<1>1. mstar_g \in Seq(Oblocks) /\ Len(mstar_g) = 0
  BY EmptySeq DEF MstarInit
<1>2. ghost_size \in min_ghost_size .. max_ghost_size /\ Len(mstar_g) <= max_ghost_size
  BY <1>1, GhostBounds DEF MstarInit
<1>3. crashed = Null /\ crashed # "assert"
  BY MstarAssumption DEF MstarInit
<1> QED
  BY <1>1, <1>2, <1>3 DEF MstarInv, GhostsInv

LEMMA MstarNextInv == MstarInv /\ [MstarNext]_mstarVars => MstarInv'
<1> SUFFICES ASSUME MstarInv, [MstarNext]_mstarVars PROVE MstarInv'
  OBVIOUS
<1> USE DEF MstarInv
<1>1. ASSUME NEW o \in Oblocks, MstarMap(o) PROVE MstarInv'
  <2>1. CASE mstar_asserts(o) /\ UNCHANGED crashed /\ mstar_hit(o)
    BY <2>1, HitStep
  <2>2. CASE mstar_asserts(o) /\ UNCHANGED crashed /\ mstar_ghost_hit(o)
    BY <2>2, GhostHitStep
  <2>3. CASE mstar_asserts(o) /\ UNCHANGED crashed /\ mstar_ghost_miss(o)
    BY <2>3, GhostMissStep
  <2>4. CASE /\ ~mstar_asserts(o) /\ crashed' = "assert"
             /\ UNCHANGED <<mstar_g, ghost_size>>
    <3>1. CacheSize < GhostDivisor
      BY <2>4, AssertsHold
    <3> QED
      BY <2>4, <3>1, BoundsFixed DEF GhostsInv
  <2> QED
    BY <1>1, <2>1, <2>2, <2>3, <2>4 DEF MstarMap, Called, mstar_map
<1>2. ASSUME NEW o \in Oblocks, MstarInsert(o) \/ MstarMigrated(o) PROVE MstarInv'
  BY <1>2, BoundsFixed
     DEF MstarInsert, MstarMigrated, Called, logicAndGhosts, GhostsInv
<1>3. ASSUME NEW o \in Oblocks, NEW h \in BOOLEAN, MstarRemove(o, h) PROVE MstarInv'
  <2>1. UNCHANGED <<ghost_size, crashed>>
    BY <1>3 DEF MstarRemove, Called, mstar_remove
  <2>2. ASSUME NEW i \in Places(o), mstar_g' = mstar_only_remove(mstar_g, i)
        PROVE  mstar_g' \in Seq(Oblocks) /\ Len(mstar_g') <= max_ghost_size
    <3>1. i \in 1 .. Len(mstar_g) /\ Len(mstar_g) \in Nat
      BY LenProperties DEF GhostsInv, Places
    <3>2. mstar_g' \in Seq(Oblocks) /\ Len(mstar_g') = Len(mstar_g) - 1
      BY <2>2, <3>1, RemoveAtFacts DEF GhostsInv, mstar_only_remove
    <3> QED
      BY <3>1, <3>2, GhostBounds DEF GhostsInv
  <2>3. mstar_g' \in Seq(Oblocks) /\ Len(mstar_g') <= max_ghost_size
    BY <1>3, <2>2 DEF MstarRemove, Called, mstar_remove, GhostsInv
  <2> QED
    BY <2>1, <2>3, BoundsFixed DEF GhostsInv
<1>4. ASSUME NEW o \in Oblocks, NEW n \in Oblocks, MstarRemap(o, n) PROVE MstarInv'
  <2>1. CASE \E i \in Places(o) : /\ mstar_g' = [mstar_g EXCEPT ![i] = n]
                                  /\ UNCHANGED <<ghost_size, crashed>>
    <3> PICK i \in Places(o) : mstar_g' = [mstar_g EXCEPT ![i] = n]
      BY <2>1
    <3>1. i \in 1 .. Len(mstar_g) /\ mstar_g \in Seq(Oblocks)
      BY LenProperties DEF GhostsInv, Places
    <3>2. mstar_g' \in Seq(Oblocks) /\ Len(mstar_g') = Len(mstar_g)
      BY <3>1, ExceptSeq
    <3> QED
      BY <2>1, <3>2, BoundsFixed DEF GhostsInv
  <2>2. CASE crashed' = "null" /\ UNCHANGED <<mstar_g, ghost_size>>
    BY <2>2, BoundsFixed DEF GhostsInv
  <2> QED
    BY <1>4, <2>1, <2>2 DEF MstarRemap, Called, mstar_remap, logicAndGhosts
<1>5. CASE UNCHANGED mstarVars
  BY <1>5, BoundsFixed DEF mstarVars, GhostsInv
<1> QED
  BY <1>1, <1>2, <1>3, <1>4, <1>5 DEF MstarNext

LEMMA MstarInvariant == MstarSpec => []MstarInv
<1> QED
  BY MstarInitInv, MstarNextInv, PTL DEF MstarSpec

\* A cache of at least GhostDivisor blocks never fails an assertion of m*, and keeps
\* the number of its ghosts, and the size they adapt to, within their bounds
\* (mstar_policy.c: mstar_map).
THEOREM MstarGhostsAlwaysFit == MstarSpec => []MstarGhostsFit
<1>1. MstarInv => MstarGhostsFit
  <2> SUFFICES ASSUME MstarInv, CacheSize >= GhostDivisor PROVE crashed # "assert"
    BY DEF MstarGhostsFit, MstarInv, GhostsInv
  <2> QED
    BY MstarAssumption, TabuAssumption DEF MstarInv
<1> QED
  BY <1>1, MstarInvariant, PTL

-----------------------------------------------------------------------------
(***************************************************************************)
(* What a ghost is worth.                                                  *)
(***************************************************************************)

\* A request that does not crash.
LEMMA MapAdmission ==
  ASSUME MstarInv, NEW o \in Oblocks, MstarMap(o), crashed' = Null
  PROVE  /\ answer'[1] = "REPLACE" /\ state # "UNSTABLE" =>
              /\ o \in cached' \ cached
              /\ Places(o) # {}
              /\ Cardinality(Places(o)') < Cardinality(Places(o))
         /\ answer'[1] = "FILTER" => state # "UNSTABLE" /\ Full
         /\ answer'[1] = "FAIL" =>
              /\ o \notin cached /\ Full
              /\ state = "UNSTABLE" => mstar_g' # <<>> /\ Last(mstar_g') = o
              /\ state # "UNSTABLE" => Len(mstar_g') < Len(mstar_g)
         /\ answer'[1] = "FILTER" <=> mstar_next_victim_filters(o) /\ Full
<1>1. GhostsInv /\ mstar_asserts(o)
      /\ (mstar_hit(o) \/ mstar_ghost_hit(o) \/ mstar_ghost_miss(o))
  BY MstarAssumption DEF MstarInv, MstarMap, Called, mstar_map
<1>2. CASE mstar_hit(o)
  <2>1. o \in cached /\ answer'[1] = "HIT"
    BY <1>2, PolicyMap DEF mstar_hit
  <2> QED
    BY <2>1 DEF mstar_next_victim_filters
<1>3. CASE mstar_ghost_hit(o)
  <2>1. /\ o \notin cached /\ Places(o) # {}
        /\ \/ answer'[1] = "NEW"
           \/ answer'[1] = "FAIL" /\ Full
           \/ answer'[1] = "REPLACE" /\ Full /\ o \in cached' \ cached
    BY <1>3, PolicyMap DEF mstar_ghost_hit
  <2> QED
    BY <1>1, <1>3, <2>1, GhostHitStep DEF mstar_next_victim_filters
<1>4. CASE mstar_ghost_miss(o)
  <2>1. o \notin cached /\ Places(o) = {}
    BY <1>4 DEF mstar_ghost_miss
  <2>2. CASE Full /\ state # "UNSTABLE" /\ answer' = <<"FILTER", Null>>
    BY <2>1, <2>2 DEF mstar_next_victim_filters
  <2>3. CASE ~(Full /\ state # "UNSTABLE") /\ policy_map(o)
    <3>1. \/ answer'[1] = "NEW"
          \/ answer'[1] = "FAIL" /\ Full
          \/ answer'[1] = "REPLACE" /\ Full
      BY <2>1, <2>3, PolicyMap
    <3> QED
      BY <1>1, <1>4, <2>1, <2>3, <3>1, GhostMissStep DEF mstar_next_victim_filters
  <2> QED
    BY <1>4, <2>2, <2>3 DEF mstar_ghost_miss
<1> QED
  BY <1>1, <1>2, <1>3, <1>4

\* Every other call.
LEMMA OtherAnswers ==
  ASSUME NEW o \in Oblocks, crashed' = Null,
         \/ MstarInsert(o) \/ MstarMigrated(o)
         \/ \E h \in BOOLEAN : MstarRemove(o, h)
         \/ \E n \in Oblocks : MstarRemap(o, n)
  PROVE  answer'[1] = "NONE"
<1>1. answer' = Void
  BY MstarAssumption
     DEF MstarInsert, MstarMigrated, MstarRemove, MstarRemap, Called, mstar_remove,
         mstar_remap, Preload, Migrated, Drop, Forget, Rename
<1> QED
  BY <1>1 DEF Void

\* Out of UNSTABLE only a ghost gets a block of a full cache, and is used up; a failed
\* request has moved or spent the ghost; mstar_next_victim foretells what a full
\* cache filters (mstar_policy.c: mstar_ghost_hit, mstar_ghost_miss, mstar_next_victim).
THEOREM MstarAdmits == MstarSpec => MstarAdmission
<1>1. ASSUME MstarInv, MstarNext, crashed' = Null
      PROVE  /\ answer'[1] = "REPLACE" /\ state # "UNSTABLE" =>
                  \E o \in cached' \ cached :
                    /\ Places(o) # {}
                    /\ Cardinality(Places(o)') < Cardinality(Places(o))
             /\ answer'[1] = "FILTER" => state # "UNSTABLE" /\ Full
             /\ answer'[1] = "FAIL" /\ mstar_g' # mstar_g =>
                  \/ /\ state = "UNSTABLE" /\ Len(mstar_g') > 0
                     /\ Last(mstar_g') \notin cached
                  \/ state # "UNSTABLE" /\ Len(mstar_g') < Len(mstar_g)
             /\ \A o \in Oblocks :
                  MstarMap(o) =>
                    (answer'[1] = "FILTER" <=> mstar_next_victim_filters(o) /\ Full)
  <2>1. \A o \in Oblocks :
          MstarMap(o) => (answer'[1] = "FILTER" <=> mstar_next_victim_filters(o) /\ Full)
    BY <1>1, MapAdmission
  <2>2. mstar_g' \in Seq(Oblocks)
    BY <1>1, MstarNextInv DEF MstarInv, GhostsInv
  <2>3. mstar_g' # <<>> => Len(mstar_g') > 0
    BY <2>2, LenProperties, EmptySeq
  <2> PICK o \in Oblocks :
        \/ MstarMap(o) \/ MstarInsert(o) \/ MstarMigrated(o)
        \/ \E h \in BOOLEAN : MstarRemove(o, h)
        \/ \E n \in Oblocks : MstarRemap(o, n)
    BY <1>1 DEF MstarNext
  <2>4. CASE MstarMap(o)
    <3>1. /\ answer'[1] = "REPLACE" /\ state # "UNSTABLE" =>
               /\ o \in cached' \ cached
               /\ Places(o) # {}
               /\ Cardinality(Places(o)') < Cardinality(Places(o))
          /\ answer'[1] = "FILTER" => state # "UNSTABLE" /\ Full
          /\ answer'[1] = "FAIL" =>
               /\ o \notin cached
               /\ state = "UNSTABLE" => mstar_g' # <<>> /\ Last(mstar_g') = o
               /\ state # "UNSTABLE" => Len(mstar_g') < Len(mstar_g)
      BY <1>1, <2>4, MapAdmission
    <3> QED
      BY <2>1, <2>3, <3>1
  <2>5. CASE ~MstarMap(o)
    <3>1. answer'[1] = "NONE"
      BY <1>1, <2>5, OtherAnswers
    <3> QED
      BY <2>1, <3>1
  <2> QED
    BY <2>4, <2>5
<1>2. MstarInv /\ [MstarNext]_mstarVars =>
        [crashed' = Null =>
           /\ answer'[1] = "REPLACE" /\ state # "UNSTABLE" =>
                \E o \in cached' \ cached :
                  /\ Places(o) # {}
                  /\ Cardinality(Places(o)') < Cardinality(Places(o))
           /\ answer'[1] = "FILTER" => state # "UNSTABLE" /\ Full
           /\ answer'[1] = "FAIL" /\ mstar_g' # mstar_g =>
                \/ state = "UNSTABLE" /\ Len(mstar_g') > 0 /\ Last(mstar_g') \notin cached
                \/ state # "UNSTABLE" /\ Len(mstar_g') < Len(mstar_g)
           /\ \A o \in Oblocks :
                MstarMap(o) =>
                  (answer'[1] = "FILTER" <=> mstar_next_victim_filters(o) /\ Full)]_mstarVars
  BY <1>1
<1> QED
  BY <1>2, MstarInvariant, PTL DEF MstarSpec, MstarAdmission

-----------------------------------------------------------------------------
(***************************************************************************)
(* The logic's windows and hit rates.                                      *)
(***************************************************************************)

\* The sum of a window is a number, no larger than its length.
LEMMA WindowSum ==
  ASSUME NEW w \in Seq({0, 1})
  PROVE  window_sum(w) \in Nat /\ Len(w) \in Nat /\ window_sum(w) <= Len(w)
<1>1. DOMAIN w = 1 .. Len(w) /\ Len(w) \in Nat
  BY LenProperties
<1>2. IsFiniteSet(1 .. Len(w)) /\ Cardinality(1 .. Len(w)) = Len(w)
  BY <1>1, FS_Interval
<1>3. {i \in DOMAIN w : w[i] = 1} \in SUBSET (1 .. Len(w))
  BY <1>1
<1> QED
  BY <1>1, <1>2, <1>3, FS_Subset, FS_CardinalityType DEF window_sum

\* A window never holds more than TABU requests, and ends with the newest.
LEMMA WindowPush ==
  ASSUME NEW w \in Seq({0, 1}), Len(w) <= TABU, NEW x \in {0, 1}
  PROVE  /\ window_stats_push(w, x) \in Seq({0, 1})
         /\ Len(window_stats_push(w, x)) \in 1 .. TABU
         /\ Last(window_stats_push(w, x)) = x
<1> DEFINE v == IF Len(w) = TABU THEN Tail(w) ELSE w
<1>1. TABU \in Nat \ {0} /\ Len(w) \in Nat
  BY TabuAssumption, LenProperties
<1>2. v \in Seq({0, 1}) /\ Len(v) \in Nat /\ Len(v) < TABU
  <2>1. CASE Len(w) = TABU
    <3>1. w # <<>>
      BY <1>1, <2>1
    <3> QED
      BY <1>1, <2>1, <3>1, TailFacts
  <2>2. CASE Len(w) # TABU
    BY <1>1, <2>2
  <2> QED
    BY <2>1, <2>2
<1>3. window_stats_push(w, x) = Append(v, x)
  BY DEF window_stats_push
<1> HIDE DEF v
<1>4. /\ Append(v, x) \in Seq({0, 1})
      /\ Len(Append(v, x)) = Len(v) + 1
      /\ Append(v, x)[Len(v) + 1] = x
  BY <1>2, AppendProperties
<1> QED
  BY <1>1, <1>2, <1>3, <1>4 DEF Last

\* A hit rate lies between 0 and 100, and is 0 only for few hits.
LEMMA Average ==
  ASSUME NEW sum \in Nat, NEW len \in Nat
  PROVE  /\ average_hundredths(sum, len) \in Nat
         /\ sum <= len => average_hundredths(sum, len) <= 100
         /\ average_hundredths(sum, len) = 0 /\ len > 0 => 100 * sum < len
<1>1. CASE len = 0
  BY <1>1 DEF average_hundredths
<1>2. CASE len > 0
  <2> DEFINE a == (100 * sum) \div len
  <2>1. average_hundredths(sum, len) = a
    BY <1>2 DEF average_hundredths
  <2>2. a \in Nat /\ len * a <= 100 * sum /\ 100 * sum < len * a + len
    BY <1>2, DivFacts
  <2> HIDE DEF a
  <2>3. ASSUME sum <= len PROVE a <= 100
    <3>1. ASSUME a >= 101 PROVE FALSE
      <4>1. len * a >= len * 101
        BY <1>2, <2>2, <3>1
      <4> QED
        BY <1>2, <2>2, <2>3, <4>1
    <3> QED
      BY <2>2, <3>1
  <2>4. a = 0 => 100 * sum < len
    BY <2>2
  <2> QED
    BY <2>1, <2>2, <2>3, <2>4
<1> QED
  BY <1>1, <1>2

Window == {w \in Seq({0, 1}) : Len(w) <= TABU}
Phases == [cache : Window, ghost : Window]
Rates  == 0 .. 100

\* A phase's sums and hit rates.
LEMMA PhaseFacts ==
  ASSUME NEW phase \in Phases
  PROVE  /\ phase_cache_hitrate(phase) \in Rates
         /\ phase_ghost_hitrate(phase) \in Rates
         /\ window_sum(phase.ghost) \in 0 .. TABU
<1>1. /\ window_sum(phase.cache) \in Nat /\ Len(phase.cache) \in Nat
      /\ window_sum(phase.cache) <= Len(phase.cache)
      /\ window_sum(phase.ghost) \in Nat /\ Len(phase.ghost) \in Nat
      /\ window_sum(phase.ghost) <= Len(phase.ghost) /\ Len(phase.ghost) <= TABU
  BY WindowSum DEF Phases, Window
<1> DEFINE s == window_sum(phase.cache)
           n == Len(phase.cache)
           g == window_sum(phase.ghost)
           m == Len(phase.ghost)
<1>2. s \in Nat /\ n \in Nat /\ s <= n /\ g \in Nat /\ m \in Nat /\ g <= m
  BY <1>1
<1> HIDE DEF s, n, g, m
<1>3. /\ average_hundredths(s, n) \in Nat
      /\ s <= n => average_hundredths(s, n) <= 100
  BY <1>2, Average, Zenon
<1>4. /\ average_hundredths(g, m) \in Nat
      /\ g <= m => average_hundredths(g, m) <= 100
  BY <1>2, Average, Zenon
<1>5. average_hundredths(s, n) \in 0 .. 100 /\ average_hundredths(g, m) \in 0 .. 100
  BY <1>2, <1>3, <1>4
<1> QED
  BY <1>1, <1>5, TabuAssumption DEF phase_cache_hitrate, phase_ghost_hitrate, Rates,
     s, n, g, m

-----------------------------------------------------------------------------
(***************************************************************************)
(* The transitions and their parameters.                                   *)
(***************************************************************************)

\* The seven transitions.
LEMMA TransitionNames ==
  Transitions = { "unstable_stable_threshold", "unstable_stable_percent",
                  "unstable_unique_threshold", "unstable_unique_percent",
                  "stable_unstable_percent", "unique_unstable_threshold",
                  "unique_unstable_percent" }
  BY DEF Transitions, transition_set

\* The range of the parameters, and what makes one easier.
Params == 0 .. 1000
Easier(new, cur) == new > cur \/ new = 1000

\* Their bounds, and the parameters they start with.
LEMMA TransitionFacts ==
  ASSUME NEW t \in Transitions
  PROVE  /\ transition_set[t].min \in Nat /\ transition_set[t].max \in Nat
         /\ transition_set[t].stat \in Params /\ static_stat(t) \in Params
         /\ transition_set[t].judge = "unique" => transition_set[t].harder = "smaller"
<1>1. /\ transition_set[t].min \in Nat /\ transition_set[t].max \in Nat
      /\ transition_set[t].stat \in Params
  BY TransitionNames DEF transition_set, Params
<1>2. static_stat(t) \in Params
  <2> DEFINE a == 260
             b == 310
             c == 473
             d == transition_set[t].stat
  <2>1. a \in Params /\ b \in Params /\ c \in Params /\ d \in Params
    BY <1>1 DEF Params
  <2>2. static_stat(t) = CASE t = "unstable_unique_percent"   -> a
                           [] t = "unique_unstable_threshold" -> b
                           [] t = "unique_unstable_percent"   -> c
                           [] OTHER -> d
    BY DEF static_stat
  <2> HIDE DEF a, b, c, d
  <2> QED
    BY <2>1, <2>2, Zenon
<1>3. transition_set[t].judge = "unique" => transition_set[t].harder = "smaller"
  BY TransitionNames DEF transition_set
<1> QED
  BY <1>1, <1>2, <1>3

\* A value lies between the bounds of its transition.
LEMMA ValueBounds ==
  ASSUME NEW st \in [Transitions -> Params], NEW t \in Transitions
  PROVE  /\ transition_value(st, t) \in Nat
         /\ transition_value(st, t) >= transition_set[t].min
         /\ transition_value(st, t) <= transition_set[t].min + transition_set[t].max
<1> DEFINE hi == transition_set[t].max
           lo == transition_set[t].min
           q  == (hi * st[t]) \div 1000
<1>1. hi \in Nat /\ lo \in Nat /\ st[t] \in Params
  BY TransitionFacts
<1>2. transition_value(st, t) = q + lo
  BY DEF transition_value
<1> HIDE DEF hi, lo
<1>3. hi * st[t] \in Nat /\ hi * st[t] <= 1000 * hi
  <2> DEFINE s == st[t]
  <2>1. s \in 0 .. 1000
    BY <1>1 DEF Params
  <2> HIDE DEF s
  <2>2. hi * s \in Nat /\ hi * s <= 1000 * hi
    BY <1>1, <2>1
  <2> QED
    BY <2>2 DEF s
<1>4. q \in Nat /\ 1000 * q <= hi * st[t]
  BY <1>3, DivFacts
<1> HIDE DEF q
<1> QED
  BY <1>1, <1>2, <1>3, <1>4 DEF hi, lo

\* An easier parameter is larger, or the largest, and stays one.
LEMMA IncreaseParam ==
  ASSUME NEW cur \in Params
  PROVE  /\ transition_increase_param(cur) \in Params
         /\ Easier(transition_increase_param(cur), cur)
<1> USE DEF Params, Easier
<1>1. CASE cur = 0
  BY <1>1 DEF transition_increase_param
<1>2. CASE cur # 0
  <2> DEFINE d == 1000 \div cur
  <2>1. d \in Nat /\ 1000 < cur * d + cur
    BY <1>2, DivFacts
  <2>2. transition_increase_param(cur) = Min({1000, cur + d})
    BY <1>2 DEF transition_increase_param
  <2> HIDE DEF d
  <2>3. d >= 1
    <3>1. d = 0 => cur * d = 0
      BY <1>2
    <3> QED
      BY <2>1, <3>1
  <2>4. Min({1000, cur + d}) = IF 1000 <= cur + d THEN 1000 ELSE cur + d
    BY <2>1, MinOfTwo
  <2> QED
    BY <1>2, <2>1, <2>2, <2>3, <2>4
<1> QED
  BY <1>1, <1>2

LEMMA DecreaseParam ==
  ASSUME NEW cur \in Params
  PROVE  transition_decrease_param(cur) \in Params
<1> USE DEF Params
<1> DEFINE low == IF cur = 1000 THEN 0 ELSE cur
           tmp == 1000 \div (1000 - low)
<1>1. low \in 0 .. 999
  OBVIOUS
<1>2. tmp \in Nat
  BY <1>1, DivFacts
<1>3. transition_decrease_param(cur) = IF low > tmp THEN low - tmp ELSE 0
  BY DEF transition_decrease_param
<1> HIDE DEF low, tmp
<1> QED
  BY <1>1, <1>2, <1>3

-----------------------------------------------------------------------------
(***************************************************************************)
(* The changes of state.                                                   *)
(***************************************************************************)

\* The change out of UNSTABLE.  Only the rise of the hit rate ever leads to STABLE: of
\* what passes the first test nothing is near the state's hit rate.
LEMMA ChangeFromUnstable ==
  ASSUME NEW st \in [Transitions -> Params],
         NEW hr_sample \in Rates, NEW hr_state \in Nat,
         NEW c, c = change_from_unstable_if_able(st, hr_sample, hr_state)
  PROVE  \/ c = NoChange
         \/ c[1] \in Transitions /\ c[2] = "UNIQUE" /\ c # NoChange
         \/ /\ c[1] \in Transitions /\ c[2] = "STABLE" /\ c # NoChange
            /\ hr_sample > 0 /\ hr_state = 0
<1> DEFINE v1 == transition_value(st, "unstable_unique_threshold")
           v2 == transition_value(st, "unstable_unique_percent")
           v3 == transition_value(st, "unstable_stable_threshold")
           v4 == transition_value(st, "unstable_stable_percent")
           to_unique == v1 * hr_state > hr_sample
           few       == hr_sample < v2
           near      == /\ 100 * hr_sample < (100 + v3) * hr_state
                        /\ 100 * hr_sample > (100 - v3) * hr_state
           better    == hr_sample >= v4 * hr_state /\ hr_sample >= 20
<1>1. /\ v1 \in Nat /\ v1 >= 20
      /\ v2 \in Nat
      /\ v3 \in Nat /\ v3 <= 22
      /\ v4 \in Nat /\ v4 >= 105
  <2>1. /\ "unstable_unique_threshold" \in Transitions
        /\ "unstable_unique_percent" \in Transitions
        /\ "unstable_stable_threshold" \in Transitions
        /\ "unstable_stable_percent" \in Transitions
    BY TransitionNames
  <2>2. /\ transition_set["unstable_unique_threshold"].min = 20
        /\ transition_set["unstable_stable_threshold"].min = 2
        /\ transition_set["unstable_stable_threshold"].max = 20
        /\ transition_set["unstable_stable_percent"].min = 105
    BY DEF transition_set
  <2> QED
    BY <2>1, <2>2, ValueBounds
<1>2. c = CASE to_unique -> <<"unstable_unique_threshold", "UNIQUE">>
            [] ~to_unique /\ few -> <<"unstable_unique_percent", "UNIQUE">>
            [] ~to_unique /\ ~few /\ near -> <<"unstable_stable_threshold", "STABLE">>
            [] ~to_unique /\ ~few /\ ~near /\ better ->
                 <<"unstable_stable_percent", "STABLE">>
            [] OTHER -> NoChange
  BY DEF change_from_unstable_if_able
<1> HIDE DEF v1, v2, v3, v4
<1>3. hr_sample \in 0 .. 100
  BY DEF Rates
<1>4. ASSUME ~to_unique PROVE 20 * hr_state <= hr_sample
  <2>1. v1 * hr_state >= 20 * hr_state
    BY <1>1
  <2> QED
    BY <1>1, <1>4, <1>3, <2>1
<1>5. ~(~to_unique /\ near)
  <2> SUFFICES ASSUME ~to_unique, near PROVE FALSE
    OBVIOUS
  <2>1. (100 + v3) * hr_state <= 122 * hr_state
    BY <1>1
  <2> QED
    BY <1>1, <1>4, <1>3, <2>1
<1>6. better => hr_sample > 0 /\ hr_state = 0
  <2> SUFFICES ASSUME better PROVE hr_sample > 0 /\ hr_state = 0
    OBVIOUS
  <2>1. v4 * hr_state >= 105 * hr_state
    BY <1>1
  <2> QED
    BY <1>1, <1>3, <2>1
<1> HIDE DEF to_unique, few, near, better
<1>7. \/ c = <<"unstable_unique_threshold", "UNIQUE">>
      \/ c = <<"unstable_unique_percent", "UNIQUE">>
      \/ c = <<"unstable_stable_percent", "STABLE">> /\ better
      \/ c = NoChange
  BY <1>2, <1>5, Zenon
<1> QED
  BY <1>6, <1>7, TransitionNames DEF NoChange

\* The change out of STABLE.
LEMMA ChangeFromStable ==
  ASSUME NEW st, NEW hr_sample, NEW hr_state,
         NEW c, c = change_from_stable_if_able(st, hr_sample, hr_state)
  PROVE  \/ c = NoChange
         \/ /\ c[1] \in Transitions /\ c[2] = "UNSTABLE" /\ c # NoChange
            /\ 100 * hr_sample <= transition_value(st, "stable_unstable_percent") * hr_state
  BY TransitionNames DEF change_from_stable_if_able, NoChange

\* The change out of UNIQUE.
LEMMA ChangeFromUnique ==
  ASSUME NEW st, NEW hr_sample, NEW filter_hr_sample,
         NEW c, c = change_from_unique_if_able(st, hr_sample, filter_hr_sample)
  PROVE  \/ c = NoChange
         \/ c[1] \in Transitions /\ c[2] = "UNSTABLE" /\ c # NoChange
<1> DEFINE v     == transition_value(st, "unique_unstable_threshold")
           few   == v * hr_sample > 100 * filter_hr_sample
           often == /\ v * hr_sample <= 100 * filter_hr_sample
                    /\ hr_sample > transition_value(st, "unique_unstable_percent")
<1>1. c = CASE few -> <<"unique_unstable_threshold", "UNSTABLE">>
            [] often -> <<"unique_unstable_percent", "UNSTABLE">>
            [] OTHER -> NoChange
  BY DEF change_from_unique_if_able
<1> HIDE DEF few, often
<1>2. \/ c = NoChange
      \/ c = <<"unique_unstable_threshold", "UNSTABLE">>
      \/ c = <<"unique_unstable_percent", "UNSTABLE">>
  BY <1>1, Zenon
<1> QED
  BY <1>2, TransitionNames DEF NoChange

-----------------------------------------------------------------------------
(***************************************************************************)
(* The invariant of the logic.                                             *)
(***************************************************************************)

\* STABLE is not entered from a sample without a hit, and keeps the sample it was
\* entered from.
LogicInv ==
  /\ state \in {"UNSTABLE", "STABLE", "UNIQUE"}
  /\ tabu_counter \in Nat \ {0}
  /\ this_phase \in Phases
  /\ prev_phase \in Phases
  /\ state_stats \in [sum : Nat, len : Nat]
  /\ stat \in [Transitions -> Params]
  /\ ~adaptive => stat["stable_unstable_percent"] = 500
  /\ recent_transition => last_transition \in Transitions
  /\ state = "STABLE" => phase_cache_hitrate(prev_phase) > 0

LEMMA LogicInitInv == MstarLogicInit => LogicInv
<1> SUFFICES ASSUME MstarLogicInit PROVE LogicInv
  OBVIOUS
<1>1. state = "UNSTABLE" /\ tabu_counter \in Nat \ {0}
  BY TabuAssumption DEF MstarLogicInit, PhasesInit
<1>2. Cleared \in Phases
  BY EmptySeq, TabuAssumption DEF Cleared, Phases, Window
<1>3. stat \in [Transitions -> Params]
  BY TransitionFacts DEF MstarLogicInit
<1>4. ~adaptive => stat["stable_unstable_percent"] = 500
  <2>1. "stable_unstable_percent" \in Transitions
    BY TransitionNames
  <2>2. static_stat("stable_unstable_percent") = 500
    BY DEF static_stat, transition_set
  <2> QED
    BY <2>1, <2>2 DEF MstarLogicInit
<1> QED
  BY <1>1, <1>2, <1>3, <1>4 DEF LogicInv, MstarLogicInit

\* The phase and the totals that a request ends.
NewPhase(hit, ghost) ==
  [ cache |-> window_stats_push(this_phase.cache, hit),
    ghost |-> window_stats_push(this_phase.ghost, ghost) ]
NewTotal(hit) == [sum |-> state_stats.sum + hit, len |-> state_stats.len + 1]
StateHitrate(hit) == average_hundredths(NewTotal(hit).sum, NewTotal(hit).len)

LEMMA NewPhaseFacts ==
  ASSUME LogicInv, NEW hit \in 0 .. 1, NEW ghost \in 0 .. 1
  PROVE  /\ NewPhase(hit, ghost) \in Phases
         /\ Last(NewPhase(hit, ghost).cache) = hit
         /\ NewTotal(hit) \in [sum : Nat, len : Nat]
         /\ StateHitrate(hit) \in Nat
         /\ StateHitrate(hit) = 0 =>
              100 * (state_stats.sum + hit) < state_stats.len + 1
<1>1. hit \in {0, 1} /\ ghost \in {0, 1} /\ TABU \in Nat
  BY TabuAssumption
<1>2. this_phase.cache \in Window /\ this_phase.ghost \in Window
  BY DEF LogicInv, Phases
<1>3. /\ window_stats_push(this_phase.cache, hit) \in Window
      /\ window_stats_push(this_phase.ghost, ghost) \in Window
      /\ Last(window_stats_push(this_phase.cache, hit)) = hit
  BY <1>1, <1>2, WindowPush DEF Window
<1>4. /\ NewPhase(hit, ghost) \in Phases
      /\ Last(NewPhase(hit, ghost).cache) = hit
  BY <1>3 DEF NewPhase, Phases
<1>5. /\ state_stats.sum \in Nat /\ state_stats.len \in Nat
      /\ NewTotal(hit) \in [sum : Nat, len : Nat]
      /\ NewTotal(hit).sum = state_stats.sum + hit
      /\ NewTotal(hit).len = state_stats.len + 1
  BY DEF LogicInv, NewTotal
<1> DEFINE sum == state_stats.sum + hit
           len == state_stats.len + 1
<1>6. sum \in Nat /\ len \in Nat /\ len > 0
  BY <1>5
<1>7. StateHitrate(hit) = average_hundredths(sum, len)
  BY <1>5 DEF StateHitrate
<1> HIDE DEF sum, len
<1>8. /\ StateHitrate(hit) \in Nat
      /\ StateHitrate(hit) = 0 => 100 * sum < len
  <2>1. /\ average_hundredths(sum, len) \in Nat
        /\ average_hundredths(sum, len) = 0 /\ len > 0 => 100 * sum < len
    BY <1>6, Average, Zenon
  <2> QED
    BY <1>6, <1>7, <2>1
<1> QED
  BY <1>4, <1>5, <1>8 DEF sum, len

\* The judgement of a transition keeps every parameter in its range.
LEMMA AdaptFacts ==
  ASSUME LogicInv, NEW phase
  PROVE  /\ adapt(phase) \in [Transitions -> Params]
         /\ ~adaptive => adapt(phase) = stat
<1>1. \A t \in Transitions :
        /\ decrease_difficulty(t, stat[t]) \in Params
        /\ increase_difficulty(t, stat[t]) \in Params
  <2> TAKE t \in Transitions
  <2> DEFINE cur == stat[t]
  <2>1. cur \in Params
    BY DEF LogicInv
  <2> HIDE DEF cur
  <2>2. transition_increase_param(cur) \in Params
    BY <2>1, IncreaseParam
  <2>3. transition_decrease_param(cur) \in Params
    BY <2>1, DecreaseParam
  <2> QED
    BY <2>2, <2>3, Zenon DEF decrease_difficulty, increase_difficulty, cur
<1> QED
  BY <1>1 DEF adapt, Judged, LogicInv

\* The end of a phase: the state stays, or the change is one of these.
LEMMA ChangeFacts ==
  ASSUME LogicInv, NEW hit \in 0 .. 1, NEW ghost \in 0 .. 1,
         NEW phase, phase = NewPhase(hit, ghost),
         NEW c, c = change_if_able(adapt(phase), phase, NewTotal(hit))
  PROVE  \/ c = NoChange
         \/ /\ c # NoChange /\ c[1] \in Transitions
            /\ \/ state = "UNSTABLE" /\ c[2] = "UNIQUE"
               \/ /\ state = "UNSTABLE" /\ c[2] = "STABLE"
                  /\ phase_cache_hitrate(phase) > 0
                  /\ StateHitrate(hit) = 0
               \/ /\ state = "STABLE" /\ c[2] = "UNSTABLE"
                  /\ 100 * phase_cache_hitrate(prev_phase)
                       <= transition_value(adapt(phase), "stable_unstable_percent")
                            * StateHitrate(hit)
               \/ state = "UNIQUE" /\ c[2] = "UNSTABLE"
<1>1. /\ phase_cache_hitrate(phase) \in Rates
      /\ StateHitrate(hit) \in Nat
      /\ adapt(phase) \in [Transitions -> Params]
  BY NewPhaseFacts, PhaseFacts, AdaptFacts
<1>2. CASE state = "UNSTABLE"
  <2>1. c = change_from_unstable_if_able(adapt(phase), phase_cache_hitrate(phase),
                                         StateHitrate(hit))
    BY <1>2, Zenon DEF change_if_able, StateHitrate
  <2>2. \/ c = NoChange
        \/ c[1] \in Transitions /\ c[2] = "UNIQUE" /\ c # NoChange
        \/ /\ c[1] \in Transitions /\ c[2] = "STABLE" /\ c # NoChange
           /\ phase_cache_hitrate(phase) > 0 /\ StateHitrate(hit) = 0
    BY <1>1, <2>1, ChangeFromUnstable
  <2> QED
    BY <1>2, <2>2
<1>3. CASE state = "STABLE"
  <2>1. c = change_from_stable_if_able(adapt(phase), phase_cache_hitrate(prev_phase),
                                       StateHitrate(hit))
    <3>1. state # "UNSTABLE" /\ state # "UNIQUE"
      BY <1>3
    <3> QED
      BY <1>3, <3>1, Zenon DEF change_if_able, StateHitrate
  <2> QED
    BY <1>3, <2>1, ChangeFromStable
<1>4. CASE state = "UNIQUE"
  <2>1. c = change_from_unique_if_able(adapt(phase), phase_cache_hitrate(phase),
                                       phase_ghost_hitrate(phase))
    <3>1. state # "UNSTABLE" /\ state # "STABLE"
      BY <1>4
    <3> QED
      BY <1>4, <3>1, Zenon DEF change_if_able
  <2> QED
    BY <1>4, <2>1, ChangeFromUnique
<1> QED
  BY <1>2, <1>3, <1>4 DEF LogicInv

\* What a request does, as MstarLogicNext has it.
Request(hit, ghost) ==
  /\ hit \in 0 .. 1 /\ ghost \in 0 .. 1
  /\ update_mstar(hit, ghost)
  /\ UNCHANGED adaptive

LEMMA RequestOf ==
  ASSUME MstarLogicNext
  PROVE  \E hit, ghost \in 0 .. 1 : Request(hit, ghost)
  BY DEF MstarLogicNext, Request

\* A request within a phase.
GoesOn(hit, ghost) ==
  /\ tabu_counter > 1
  /\ tabu_counter' = tabu_counter - 1
  /\ this_phase' = NewPhase(hit, ghost)
  /\ state_stats' = NewTotal(hit)
  /\ UNCHANGED <<adaptive, state, prev_phase, stat, last_transition, recent_transition>>

\* The last request of a phase, with or without a change of state.
Stays(hit, ghost) ==
  /\ tabu_counter = 1
  /\ tabu_counter' = TABU
  /\ stat' = adapt(NewPhase(hit, ghost))
  /\ recent_transition' = (recent_transition /\ ~adaptive)
  /\ this_phase' = NewPhase(hit, ghost)
  /\ prev_phase' = [prev_phase EXCEPT !.ghost = NewPhase(hit, ghost).ghost]
  /\ state_stats' = NewTotal(hit)
  /\ UNCHANGED <<adaptive, state, last_transition>>

Changes(hit, ghost) ==
  /\ tabu_counter = 1
  /\ stat' = adapt(NewPhase(hit, ghost))
  /\ recent_transition' = TRUE
  /\ last_transition' \in Transitions
  /\ this_phase' = Cleared
  /\ prev_phase' = NewPhase(hit, ghost)
  /\ \/ /\ state = "UNSTABLE" /\ state' = "UNIQUE" /\ tabu_counter' = TABU
        /\ state_stats' = NewTotal(hit)
     \/ /\ state = "UNSTABLE" /\ state' = "STABLE" /\ tabu_counter' = TABU
        /\ state_stats' = [sum |-> 0, len |-> 0]
        /\ phase_cache_hitrate(NewPhase(hit, ghost)) > 0
        /\ StateHitrate(hit) = 0
     \/ /\ state = "STABLE" /\ state' = "UNSTABLE" /\ tabu_counter' = 2 * TABU
        /\ state_stats' = NewTotal(hit)
        /\ 100 * phase_cache_hitrate(prev_phase)
             <= transition_value(stat', "stable_unstable_percent") * StateHitrate(hit)
     \/ /\ state = "UNIQUE" /\ state' = "UNSTABLE" /\ tabu_counter' = 2 * TABU
        /\ state_stats' = NewTotal(hit)
  /\ UNCHANGED adaptive

\* Every request is one of the three.
LEMMA RequestCases ==
  ASSUME LogicInv, NEW hit, NEW ghost, Request(hit, ghost)
  PROVE  GoesOn(hit, ghost) \/ Stays(hit, ghost) \/ Changes(hit, ghost)
<1> DEFINE phase  == NewPhase(hit, ghost)
           total  == NewTotal(hit)
           change == change_if_able(adapt(phase), phase, total)
<1>1. /\ hit \in 0 .. 1 /\ ghost \in 0 .. 1
      /\ UNCHANGED adaptive
      /\ \/ tabu_counter = 1 /\ enter_new_phase(phase, total)
         \/ /\ tabu_counter > 1
            /\ tabu_counter' = tabu_counter - 1
            /\ this_phase' = phase
            /\ state_stats' = total
            /\ UNCHANGED <<state, prev_phase, stat, last_transition, recent_transition,
                           adaptations>>
  BY DEF Request, update_mstar, NewPhase, NewTotal
<1>2. CASE tabu_counter > 1 /\ ~(tabu_counter = 1)
  BY <1>1, <1>2 DEF GoesOn
<1>3. CASE tabu_counter = 1
  <2>1. enter_new_phase(phase, total)
    BY <1>1, <1>3
  <2>2. /\ stat' = adapt(phase)
        /\ \/ change # NoChange /\ state_transition_to(change, phase, total)
           \/ /\ change = NoChange
              /\ tabu_counter' = TABU
              /\ recent_transition' = (recent_transition /\ ~adaptive)
              /\ this_phase' = phase
              /\ prev_phase' = [prev_phase EXCEPT !.ghost = phase.ghost]
              /\ state_stats' = total
              /\ UNCHANGED <<state, last_transition>>
    BY <2>1 DEF enter_new_phase
  <2>3. CASE change = NoChange
    BY <1>1, <1>3, <2>2, <2>3 DEF Stays
  <2>4. CASE change # NoChange
    <3>1. /\ change[1] \in Transitions
          /\ \/ state = "UNSTABLE" /\ change[2] = "UNIQUE"
             \/ /\ state = "UNSTABLE" /\ change[2] = "STABLE"
                /\ phase_cache_hitrate(phase) > 0
                /\ StateHitrate(hit) = 0
             \/ /\ state = "STABLE" /\ change[2] = "UNSTABLE"
                /\ 100 * phase_cache_hitrate(prev_phase)
                     <= transition_value(adapt(phase), "stable_unstable_percent")
                          * StateHitrate(hit)
             \/ state = "UNIQUE" /\ change[2] = "UNSTABLE"
      BY <1>1, <2>4, ChangeFacts
    <3>2. /\ last_transition' = change[1]
          /\ state' = change[2]
          /\ recent_transition' = TRUE
          /\ tabu_counter' = tabu_after(change[2])
          /\ state_stats' = IF change[2] = "STABLE" THEN [sum |-> 0, len |-> 0] ELSE total
          /\ prev_phase' = phase
          /\ this_phase' = Cleared
      BY <2>2, <2>4 DEF state_transition_to
    <3> HIDE DEF phase, total, change
    <3> QED
      BY <1>1, <1>3, <2>2, <3>1, <3>2 DEF Changes, phase, total, tabu_after
  <2> QED
    BY <2>3, <2>4
<1> QED
  BY <1>1, <1>2, <1>3 DEF LogicInv

LEMMA LogicNextInv == LogicInv /\ [MstarLogicNext]_logicVars => LogicInv'
<1> SUFFICES ASSUME LogicInv, [MstarLogicNext]_logicVars PROVE LogicInv'
  OBVIOUS
<1>1. ASSUME NEW hit \in 0 .. 1, NEW ghost \in 0 .. 1, Request(hit, ghost)
      PROVE  LogicInv'
  <2>1. /\ NewPhase(hit, ghost) \in Phases
        /\ NewTotal(hit) \in [sum : Nat, len : Nat]
        /\ adapt(NewPhase(hit, ghost)) \in [Transitions -> Params]
        /\ ~adaptive => adapt(NewPhase(hit, ghost)) = stat
    BY NewPhaseFacts, AdaptFacts
  <2>2. Cleared \in Phases
    BY EmptySeq, TabuAssumption DEF Cleared, Phases, Window
  <2>3. TABU \in Nat \ {0} /\ 2 * TABU \in Nat \ {0}
    BY TabuAssumption
  <2>4. CASE GoesOn(hit, ghost)
    <3>1. phase_cache_hitrate(prev_phase)' = phase_cache_hitrate(prev_phase)
      BY <2>4 DEF GoesOn, phase_cache_hitrate
    <3>2. tabu_counter' \in Nat \ {0}
      BY <2>4 DEF GoesOn, LogicInv
    <3> QED
      BY <2>1, <2>4, <3>1, <3>2 DEF GoesOn, LogicInv
  <2>5. CASE Stays(hit, ghost)
    <3>1. prev_phase' \in Phases /\ prev_phase'.cache = prev_phase.cache
      BY <2>1, <2>5 DEF Stays, LogicInv, Phases
    <3>2. state' = "STABLE" => phase_cache_hitrate(prev_phase)' > 0
      BY <2>5, <3>1 DEF Stays, LogicInv, phase_cache_hitrate
    <3> QED
      BY <2>1, <2>3, <2>5, <3>1, <3>2 DEF Stays, LogicInv
  <2>6. CASE Changes(hit, ghost)
    <3>1. phase_cache_hitrate(prev_phase)' = phase_cache_hitrate(NewPhase(hit, ghost))
      BY <2>6 DEF Changes, phase_cache_hitrate
    <3>2. state' = "STABLE" => phase_cache_hitrate(prev_phase)' > 0
      BY <2>6, <3>1 DEF Changes
    <3> QED
      BY <2>1, <2>2, <2>3, <2>6, <3>2 DEF Changes, LogicInv
  <2> QED
    BY <1>1, <2>4, <2>5, <2>6, RequestCases
<1>2. CASE UNCHANGED logicVars
  BY <1>2 DEF logicVars, LogicInv, phase_cache_hitrate
<1> QED
  BY <1>1, <1>2, RequestOf

LEMMA LogicInvariant == MstarLogicSpec => []LogicInv
<1> QED
  BY LogicInitInv, LogicNextInv, PTL DEF MstarLogicSpec

-----------------------------------------------------------------------------
(***************************************************************************)
(* What the logic promises.                                                *)
(***************************************************************************)

\* update_mstar keeps to MstarPhases for every length of a phase: the initial states
\* agree, and every request is a step of MstarPhases (mstar_logic.c: update_mstar,
\* state_transition_to).
THEOREM LogicImplementsPhases == MstarLogicSpec => MstarLogicImplementsPhases
<1>1. MstarLogicInit => PhasesInit
  BY DEF MstarLogicInit
<1>2. LogicInv /\ [MstarLogicNext]_logicVars => [PhasesNext]_<<state, tabu_counter>>
  <2> SUFFICES ASSUME LogicInv, [MstarLogicNext]_logicVars
               PROVE  [PhasesNext]_<<state, tabu_counter>>
    OBVIOUS
  <2>1. ASSUME NEW hit, NEW ghost, Request(hit, ghost) PROVE PhasesNext
    <3>1. GoesOn(hit, ghost) => PhaseGoesOn
      BY DEF GoesOn, PhaseGoesOn
    <3>2. Stays(hit, ghost) \/ Changes(hit, ghost) => PhaseEnds
      BY DEF Stays, Changes, PhaseEnds
    <3> QED
      BY <2>1, <3>1, <3>2, RequestCases DEF PhasesNext
  <2>2. CASE UNCHANGED logicVars
    BY <2>2 DEF logicVars
  <2> QED
    BY <2>1, <2>2, RequestOf
<1> QED
  BY <1>1, <1>2, LogicInvariant, PTL
     DEF MstarLogicSpec, MstarLogicImplementsPhases, PhasesSpec

\* STABLE is entered only after a state in which fewer than 1% of the requests hit.
LEMMA StableOnlyAfterCold ==
  ASSUME LogicInv, NEW hit, NEW ghost, Request(hit, ghost),
         state' = "STABLE", state # "STABLE"
  PROVE  100 * (state_stats.sum + Last(prev_phase'.cache)) < state_stats.len + 1
<1>1. Changes(hit, ghost) /\ state = "UNSTABLE" /\ StateHitrate(hit) = 0
  BY RequestCases DEF GoesOn, Stays, Changes
<1>2. hit \in 0 .. 1 /\ ghost \in 0 .. 1
  BY DEF Request
<1>3. prev_phase' = NewPhase(hit, ghost)
  BY <1>1 DEF Changes
<1> QED
  BY <1>1, <1>2, <1>3, NewPhaseFacts

\* With the static parameters, STABLE is left only for a hit rate above its sample's.
LEMMA StableEndsOnlyOnRise ==
  ASSUME LogicInv, NEW hit, NEW ghost, Request(hit, ghost),
         ~adaptive, state = "STABLE", state' # "STABLE"
  PROVE  average_hundredths(state_stats'.sum, state_stats'.len)
           > phase_cache_hitrate(prev_phase)
<1> DEFINE h == phase_cache_hitrate(prev_phase)
           r == StateHitrate(hit)
<1>1. hit \in 0 .. 1 /\ ghost \in 0 .. 1
  BY DEF Request
<1>2. /\ Changes(hit, ghost)
      /\ state_stats' = NewTotal(hit)
      /\ 100 * h <= transition_value(stat', "stable_unstable_percent") * r
      /\ stat' = adapt(NewPhase(hit, ghost))
  BY RequestCases DEF GoesOn, Stays, Changes
<1>3. stat' = stat /\ stat["stable_unstable_percent"] = 500
  BY <1>2, AdaptFacts DEF LogicInv
<1>4. transition_value(stat', "stable_unstable_percent") = 95
  <2>1. transition_set["stable_unstable_percent"].max = 90
        /\ transition_set["stable_unstable_percent"].min = 50
    BY DEF transition_set
  <2> QED
    BY <1>3, <2>1 DEF transition_value
<1>5. h \in Nat /\ h > 0 /\ r \in Nat
  BY <1>1, PhaseFacts, NewPhaseFacts DEF LogicInv, Rates
<1>6. average_hundredths(state_stats'.sum, state_stats'.len) = r
  BY <1>2 DEF StateHitrate
<1> HIDE DEF h, r
<1>7. 100 * h <= 95 * r
  BY <1>2, <1>4
<1>8. r > h
  BY <1>5, <1>7
<1> QED
  BY <1>6, <1>8 DEF h

\* A difference that wraps is large, whatever the word holds.
LEMMA WrappedDifference ==
  ASSUME NEW a \in 0 .. TABU, NEW b \in 0 .. TABU, a < b, NEW m \in 0 .. 31
  PROVE  ((((a - b) % WordModulus) * 100) % WordModulus) \div TABU > m
<1> DEFINE W == WordModulus
           T == TABU
           d == b - a
           x == W - 100 * d
           q == x \div T
<1>1. /\ W \in Nat /\ T \in Nat /\ T > 0 /\ W > 3000 * T
      /\ d \in 1 .. T
  BY MstarLogicAssumption, TabuAssumption
<1>2. (a - b) % W = W - d
  <2>1. a - b = (W - d) + W * (-1) /\ W - d \in 0 .. W - 1
    BY <1>1
  <2> QED
    BY <1>1, <2>1
<1>3. ((W - d) * 100) % W = x
  <2>1. (W - d) * 100 = W * 99 + x /\ x \in 0 .. W - 1
    BY <1>1
  <2> QED
    BY <1>1, <2>1
<1>4. x \in Nat /\ x > 2900 * T
  BY <1>1
<1> HIDE DEF x, d, W, T
<1>5. q \in Nat /\ x < T * q + T
  BY <1>1, <1>4, DivFacts
<1> HIDE DEF q
<1>6. q > 31
  <2>1. ASSUME q <= 31 PROVE FALSE
    <3>1. T * q <= T * 31
      BY <1>1, <1>5, <2>1
    <3> QED
      BY <1>1, <1>4, <1>5, <2>1, <3>1
  <2> QED
    BY <1>5, <2>1
<1>7. ((((a - b) % W) * 100) % W) \div T = q
  BY <1>2, <1>3 DEF q
<1>8. q > m
  BY <1>5, <1>6
<1> QED
  BY <1>7, <1>8 DEF W, T

\* Fewer ghost hits than before make a transition to UNIQUE easier.
LEMMA FewerGhostHitsImprove ==
  ASSUME LogicInv, NEW hit, NEW ghost, Request(hit, ghost),
         Judged, tabu_counter = 1,
         transition_set[last_transition].judge = "unique",
         window_sum(prev_phase'.ghost) < window_sum(prev_phase.ghost)
  PROVE  \/ stat'[last_transition] > stat[last_transition]
         \/ stat'[last_transition] = 1000
<1> DEFINE phase == NewPhase(hit, ghost)
           t     == last_transition
<1>1. hit \in 0 .. 1 /\ ghost \in 0 .. 1
  BY DEF Request
<1>2. phase \in Phases /\ prev_phase \in Phases
  BY <1>1, NewPhaseFacts DEF LogicInv
<1>3. stat' = adapt(phase) /\ prev_phase'.ghost = phase.ghost
  <2>1. CASE Stays(hit, ghost)
    BY <1>2, <2>1 DEF Stays, Phases
  <2>2. CASE Changes(hit, ghost)
    BY <2>2 DEF Changes
  <2>3. ~GoesOn(hit, ghost)
    BY DEF GoesOn
  <2> QED
    BY <2>1, <2>2, <2>3, RequestCases
<1>4. /\ t \in Transitions /\ stat[t] \in Params /\ stat \in [Transitions -> Params]
      /\ transition_set[t].harder = "smaller"
  BY TransitionFacts DEF LogicInv, Judged
<1>5. transition_improved_unique(phase)
  <2> DEFINE a == window_sum(phase.ghost)
             b == window_sum(prev_phase.ghost)
             m == transition_value(stat, "unique_unstable_threshold")
  <2>1. a \in 0 .. TABU /\ b \in 0 .. TABU /\ a < b
    BY <1>2, <1>3, PhaseFacts
  <2>2. m \in 0 .. 31
    <3>1. /\ "unique_unstable_threshold" \in Transitions
          /\ transition_set["unique_unstable_threshold"].min = 1
          /\ transition_set["unique_unstable_threshold"].max = 30
      BY TransitionNames DEF transition_set
    <3> QED
      BY <1>4, <3>1, ValueBounds
  <2> HIDE DEF a, b, m
  <2>3. ((((a - b) % WordModulus) * 100) % WordModulus) \div TABU > m
    BY <2>1, <2>2, WrappedDifference
  <2> QED
    BY <2>3 DEF transition_improved_unique, a, b, m
<1>6. stat'[t] = transition_increase_param(stat[t])
  <2>1. was_improvement(t, phase)
    BY <1>5 DEF was_improvement
  <2>2. stat' = [stat EXCEPT ![t] = decrease_difficulty(t, stat[t])]
    BY <1>3, <2>1 DEF adapt
  <2>3. decrease_difficulty(t, stat[t]) = transition_increase_param(stat[t])
    BY <1>4 DEF decrease_difficulty
  <2> HIDE DEF t
  <2> QED
    BY <1>4, <2>2, <2>3
<1> HIDE DEF t
<1>7. stat'[t] > stat[t] \/ stat'[t] = 1000
  <2> DEFINE cur == stat[t]
  <2>1. cur \in Params
    BY <1>4
  <2> HIDE DEF cur
  <2>2. Easier(transition_increase_param(cur), cur)
    BY <2>1, IncreaseParam
  <2> QED
    BY <1>6, <2>2 DEF cur, Easier
<1> QED
  BY <1>7 DEF t

\* STABLE is entered only from a cold state; with the static parameters it is left only
\* when hits have become more frequent; fewer ghost hits make a transition to UNIQUE
\* easier (mstar_transitions.c:34,209,225).
THEOREM LogicTransitionEffects == MstarLogicSpec => MstarTransitionEffects
<1> DEFINE Cold  == state' = "STABLE" /\ state # "STABLE" =>
                      100 * (state_stats.sum + Last(prev_phase'.cache))
                        < state_stats.len + 1
           Rise  == ~adaptive /\ state = "STABLE" /\ state' # "STABLE" =>
                      average_hundredths(state_stats'.sum, state_stats'.len)
                        > phase_cache_hitrate(prev_phase)
           Fewer == ( /\ Judged /\ tabu_counter = 1
                      /\ transition_set[last_transition].judge = "unique"
                      /\ window_sum(prev_phase'.ghost) < window_sum(prev_phase.ghost) )
                    => \/ stat'[last_transition] > stat[last_transition]
                       \/ stat'[last_transition] = 1000
<1>1. LogicInv /\ MstarLogicNext => Cold /\ Rise /\ Fewer
  BY RequestOf, StableOnlyAfterCold, StableEndsOnlyOnRise, FewerGhostHitsImprove
<1>2. MstarLogicSpec => [][Cold]_logicVars /\ [][Rise]_logicVars /\ [][Fewer]_logicVars
  <2> HIDE DEF Cold, Rise, Fewer
  <2> QED
    BY <1>1, LogicInvariant, PTL DEF MstarLogicSpec
<1> QED
  BY <1>2 DEF MstarTransitionEffects, MstarStableOnlyAfterCold, MstarStableEndsOnlyOnRise,
              MstarFewerGhostHitsImprove
============================================================================
