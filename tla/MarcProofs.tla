----------------------------- MODULE MarcProofs -----------------------------
(***************************************************************************)
(* The safety of mARC, for every cache size, set of blocks and internal    *)
(* policy that keeps to CachePolicy: its pool of ghosts is large enough,   *)
(* its counters are compared over the same requests, and it admits and     *)
(* filters what its states are for.                                        *)
(***************************************************************************)
EXTENDS Marc, TLAPS, SequenceTheorems, FiniteSetTheorems

States == {"UNSTABLE", "STABLE", "UNIQUE"}

Sizes == (min_ghost_size .. max_ghost_size) \cup {CacheSize}

MarcTypes ==
  /\ state \in States
  /\ tabu_counter \in Nat
  /\ ghost_q \in Seq(Oblocks)
  /\ ghost_size \in Sizes
  /\ ghost_hits \in Nat
  /\ sample \in Seq({0, 1})
  /\ phase_hits \in Nat
  /\ phase_ios \in Nat
  /\ loading \in BOOLEAN
  /\ crashed \in BOOLEAN

\* The counters are sound by themselves; that the pool of ghosts is large enough
\* needs their number, and what a crashed program has answered last its state.
MarcInv ==
  /\ MarcTypes
  /\ IsInjective(ghost_q)
  /\ Len(ghost_q) <= max_ghost_size
  /\ MarcCountersSound
  /\ crashed => CacheSize < GhostDivisor
  /\ answer[1] = "FILTER" => state # "UNSTABLE" /\ Full

-----------------------------------------------------------------------------
(***************************************************************************)
(* Numbers and lists.                                                      *)
(***************************************************************************)

\* The larger of two numbers.
LEMMA MaxOfTwo ==
  ASSUME NEW a \in Int, NEW b \in Int
  PROVE  Max({a, b}) = IF a >= b THEN a ELSE b
<1>1. \E x \in {a, b} : \A y \in {a, b} : x >= y
  OBVIOUS
<1>2. Max({a, b}) \in {a, b} /\ \A y \in {a, b} : Max({a, b}) >= y
  BY <1>1 DEF Max
<1> QED
  BY <1>2

\* The smaller of two numbers.
LEMMA MinOfTwo ==
  ASSUME NEW a \in Int, NEW b \in Int
  PROVE  Min({a, b}) = IF a <= b THEN a ELSE b
<1>1. \E x \in {a, b} : \A y \in {a, b} : x <= y
  OBVIOUS
<1>2. Min({a, b}) \in {a, b} /\ \A y \in {a, b} : Min({a, b}) <= y
  BY <1>1 DEF Min
<1> QED
  BY <1>2

\* What is left over by an integer division is less than the divisor.
LEMMA DivFacts ==
  ASSUME NEW a \in Nat, NEW b \in Nat, b > 0
  PROVE  /\ a \div b \in Nat
         /\ b * (a \div b) <= a
         /\ a < b * (a \div b) + b
  OBVIOUS

\* queue_remove takes one item out of a queue without repetitions.
LEMMA QueueRemove ==
  ASSUME NEW S, NEW q \in Seq(S), IsInjective(q), NEW e \in ToSet(q)
  PROVE  /\ queue_remove(q, e) \in Seq(S)
         /\ IsInjective(queue_remove(q, e))
         /\ ToSet(queue_remove(q, e)) = ToSet(q) \ {e}
         /\ Len(queue_remove(q, e)) = Len(q) - 1
<1> DEFINE i == CHOOSE k \in DOMAIN q : q[k] = e
           a == SubSeq(q, 1, i - 1)
           b == SubSeq(q, i + 1, Len(q))
           r == queue_remove(q, e)
<1>1. i \in 1 .. Len(q) /\ q[i] = e
  BY LenProperties DEF ToSet
<1>2. r = a \o b
  BY DEF queue_remove, RemoveAt
<1> HIDE DEF i, r
<1>3. a \in Seq(S) /\ Len(a) = i - 1 /\ \A j \in 1 .. i - 1 : a[j] = q[j]
  BY <1>1, SubSeqProperties, SMT
<1>4. b \in Seq(S) /\ Len(b) = Len(q) - i /\ \A j \in 1 .. Len(q) - i : b[j] = q[i + j]
  BY <1>1, SubSeqProperties, SMT
<1>5. /\ r \in Seq(S)
      /\ Len(q) \in Nat
      /\ Len(r) = Len(q) - 1
      /\ DOMAIN q = 1 .. Len(q)
      /\ DOMAIN r = 1 .. Len(q) - 1
      /\ \A j \in 1 .. Len(q) - 1 : r[j] = IF j < i THEN q[j] ELSE q[j + 1]
  <2>1. /\ a \o b \in Seq(S)
        /\ Len(a \o b) = Len(a) + Len(b)
        /\ \A j \in 1 .. Len(a) + Len(b) :
              (a \o b)[j] = IF j <= Len(a) THEN a[j] ELSE b[j - Len(a)]
    BY <1>3, <1>4, ConcatProperties
  <2> HIDE DEF a, b
  <2>2. /\ r \in Seq(S) /\ Len(q) \in Nat /\ Len(r) = Len(q) - 1
    BY <1>1, <1>2, <1>3, <1>4, <2>1, LenProperties
  <2>3. DOMAIN q = 1 .. Len(q) /\ DOMAIN r = 1 .. Len(q) - 1
    BY <2>2, LenProperties
  <2>4. ASSUME NEW j \in 1 .. Len(q) - 1
        PROVE  r[j] = IF j < i THEN q[j] ELSE q[j + 1]
    <3>1. r[j] = IF j <= i - 1 THEN a[j] ELSE b[j - (i - 1)]
      BY <1>1, <1>2, <1>3, <1>4, <2>1, <2>2
    <3>2. j < i => a[j] = q[j]
      BY <1>1, <1>3, <2>2
    <3>3. ~(j < i) => j - (i - 1) \in 1 .. Len(q) - i /\ i + (j - (i - 1)) = j + 1
      BY <1>1, <2>2
    <3> QED
      BY <1>1, <1>4, <2>2, <3>1, <3>2, <3>3
  <2> QED
    BY <2>2, <2>3, <2>4
<1>6. \A j, k \in DOMAIN q : q[j] = q[k] => j = k
  BY DEF IsInjective
<1>7. IsInjective(r)
  <2> SUFFICES ASSUME NEW j \in DOMAIN r, NEW k \in DOMAIN r, r[j] = r[k]
               PROVE  j = k
    BY DEF IsInjective
  <2>1. /\ r[j] = q[IF j < i THEN j ELSE j + 1]
        /\ r[k] = q[IF k < i THEN k ELSE k + 1]
        /\ (IF j < i THEN j ELSE j + 1) \in DOMAIN q
        /\ (IF k < i THEN k ELSE k + 1) \in DOMAIN q
    BY <1>1, <1>5
  <2>2. (IF j < i THEN j ELSE j + 1) = (IF k < i THEN k ELSE k + 1)
    BY <2>1, <1>6
  <2> QED
    BY <2>2, <1>1, <1>5
<1>8. ToSet(r) = ToSet(q) \ {e}
  <2>1. ASSUME NEW x \in ToSet(r)
        PROVE  x \in ToSet(q) \ {e}
    <3>1. PICK j \in 1 .. Len(q) - 1 : x = r[j]
      BY <1>5 DEF ToSet
    <3>2. /\ x = q[IF j < i THEN j ELSE j + 1]
          /\ (IF j < i THEN j ELSE j + 1) \in DOMAIN q
          /\ (IF j < i THEN j ELSE j + 1) # i
      BY <3>1, <1>1, <1>5
    <3> QED
      BY <3>2, <1>1, <1>5, <1>6 DEF ToSet
  <2>2. ASSUME NEW x \in ToSet(q), x # e
        PROVE  x \in ToSet(r)
    <3>1. PICK k \in 1 .. Len(q) : x = q[k] /\ k # i
      BY <2>2, <1>1, <1>5 DEF ToSet
    <3>2. CASE k < i
      BY <3>1, <3>2, <1>1, <1>5 DEF ToSet
    <3>3. CASE k > i
      <4>1. k - 1 \in 1 .. Len(q) - 1 /\ ~(k - 1 < i) /\ (k - 1) + 1 = k
        BY <3>3, <1>1, <1>5
      <4>2. r[k - 1] = q[k]
        BY <4>1, <1>5
      <4> QED
        BY <4>1, <4>2, <3>1, <1>5 DEF ToSet
    <3> QED
      BY <3>1, <3>2, <3>3, <1>1, <1>5
  <2> QED
    BY <2>1, <2>2
<1> QED
  BY <1>5, <1>7, <1>8 DEF r

\* Append adds an item that is not in the queue yet.
LEMMA QueuePush ==
  ASSUME NEW S, NEW q \in Seq(S), IsInjective(q), NEW e \in S, e \notin ToSet(q)
  PROVE  /\ Append(q, e) \in Seq(S)
         /\ IsInjective(Append(q, e))
         /\ ToSet(Append(q, e)) = ToSet(q) \cup {e}
         /\ Len(Append(q, e)) = Len(q) + 1
<1> DEFINE r == Append(q, e)
<1>1. /\ r \in Seq(S)
      /\ Len(q) \in Nat
      /\ Len(r) = Len(q) + 1
      /\ DOMAIN q = 1 .. Len(q)
      /\ DOMAIN r = 1 .. Len(q) + 1
      /\ r[Len(q) + 1] = e
      /\ \A j \in 1 .. Len(q) : r[j] = q[j]
  BY LenProperties, AppendProperties
<1> HIDE DEF r
<1>2. \A j \in 1 .. Len(q) : q[j] # e
  BY <1>1 DEF ToSet
<1>3. IsInjective(r)
  BY <1>1, <1>2 DEF IsInjective
<1>4. ToSet(r) = ToSet(q) \cup {e}
  BY <1>1 DEF ToSet
<1> QED
  BY <1>1, <1>3, <1>4 DEF r

\* What Tail leaves keeps its order.
LEMMA TailFacts ==
  ASSUME NEW S, NEW q \in Seq(S), q # <<>>
  PROVE  /\ Tail(q) \in Seq(S)
         /\ Len(q) \in Nat \ {0} /\ Len(Tail(q)) = Len(q) - 1
         /\ DOMAIN q = 1 .. Len(q) /\ DOMAIN Tail(q) = 1 .. Len(q) - 1
         /\ \A j \in 1 .. Len(q) - 1 : Tail(q)[j] = q[j + 1]
  BY LenProperties, EmptySeq, HeadTailProperties

\* The ghosts that are left after an eviction.
LEMMA QueueTail ==
  ASSUME NEW S, NEW q \in Seq(S), IsInjective(q), q # <<>>
  PROVE  /\ Tail(q) \in Seq(S)
         /\ IsInjective(Tail(q))
         /\ ToSet(Tail(q)) \subseteq ToSet(q)
         /\ Len(Tail(q)) = Len(q) - 1
<1> DEFINE t == Tail(q)
<1>1. /\ t \in Seq(S)
      /\ Len(q) \in Nat /\ Len(t) = Len(q) - 1
      /\ DOMAIN q = 1 .. Len(q) /\ DOMAIN t = 1 .. Len(q) - 1
      /\ \A j \in 1 .. Len(q) - 1 : t[j] = q[j + 1]
  BY TailFacts
<1> HIDE DEF t
<1>2. \A j \in DOMAIN t : j + 1 \in DOMAIN q /\ t[j] = q[j + 1]
  BY <1>1
<1>3. IsInjective(t)
  <2> SUFFICES ASSUME NEW j \in DOMAIN t, NEW k \in DOMAIN t, t[j] = t[k]
               PROVE  j = k
    BY DEF IsInjective
  <2>1. j + 1 = k + 1
    BY <1>2 DEF IsInjective
  <2> QED
    BY <2>1, <1>1
<1>4. ToSet(t) \subseteq ToSet(q)
  BY <1>2 DEF ToSet
<1> QED
  BY <1>1, <1>3, <1>4 DEF t

-----------------------------------------------------------------------------
(***************************************************************************)
(* The window of samples.                                                  *)
(***************************************************************************)

Ones(w) == {i \in DOMAIN w : w[i] = 1}

\* The sum of a window is a number, no larger than its length.
LEMMA WindowSum ==
  ASSUME NEW w \in Seq({0, 1})
  PROVE  /\ IsFiniteSet(Ones(w))
         /\ window_sum(w) = Cardinality(Ones(w))
         /\ window_sum(w) \in Nat
         /\ window_sum(<<>>) = 0
<1>1. DOMAIN w = 1 .. Len(w) /\ Len(w) \in Nat
  BY LenProperties
<1>2. IsFiniteSet(1 .. Len(w))
  BY <1>1, FS_Interval
<1>3. IsFiniteSet(Ones(w)) /\ Cardinality(Ones(w)) \in Nat
  BY <1>1, <1>2, FS_Subset, FS_CardinalityType DEF Ones
<1>4. window_sum(<<>>) = 0
  <2>1. {i \in DOMAIN << >> : << >>[i] = 1} = {}
    OBVIOUS
  <2> QED
    BY <2>1, FS_EmptySet DEF window_sum
<1> QED
  BY <1>3, <1>4 DEF window_sum, Ones

\* What falls out of a window makes its sum no larger.
LEMMA WindowPop ==
  ASSUME NEW w \in Seq({0, 1}), w # <<>>
  PROVE  window_sum(Tail(w)) <= window_sum(w)
<1> DEFINE t == Tail(w)
           f == [i \in Ones(t) |-> i + 1]
<1>1. /\ t \in Seq({0, 1})
      /\ Len(w) \in Nat
      /\ DOMAIN w = 1 .. Len(w) /\ DOMAIN t = 1 .. Len(w) - 1
      /\ \A j \in 1 .. Len(w) - 1 : t[j] = w[j + 1]
  BY TailFacts
<1> HIDE DEF t
<1>2. \A i \in Ones(t) : i \in Nat /\ i + 1 \in Ones(w)
  BY <1>1 DEF Ones
<1>3. f \in Injection(Ones(t), Ones(w))
  <2>1. f \in [Ones(t) -> Ones(w)]
    BY <1>2
  <2>2. \A i, j \in Ones(t) : f[i] = f[j] => i = j
    BY <1>2
  <2> QED
    BY <2>1, <2>2 DEF Injection, IsInjective
<1> HIDE DEF f
<1>4. /\ IsFiniteSet(Ones(w)) /\ window_sum(w) = Cardinality(Ones(w))
      /\ window_sum(t) = Cardinality(Ones(t))
  BY <1>1, WindowSum
<1>5. Cardinality(Ones(t)) <= Cardinality(Ones(w))
  BY <1>3, <1>4, FS_Injection
<1> QED
  BY <1>4, <1>5 DEF t

\* Pushing a value on a window adds it to the sum, or replaces the oldest one.
LEMMA WindowPush ==
  ASSUME NEW w \in Seq({0, 1}), Len(w) <= sample_size, NEW x \in {0, 1}
  PROVE  /\ window_stats_push(w, x) \in Seq({0, 1})
         /\ Len(window_stats_push(w, x)) =
              IF Len(w) = sample_size THEN Len(w) ELSE Len(w) + 1
         /\ window_sum(window_stats_push(w, x)) <= window_sum(w) + x
<1> DEFINE v == IF Len(w) = sample_size THEN Tail(w) ELSE w
           r == window_stats_push(w, x)
<1>1. sample_size \in Nat \ {0} /\ Len(w) \in Nat
  BY MarcAssumption, LenProperties DEF sample_size
<1>2. /\ v \in Seq({0, 1})
      /\ Len(v) = IF Len(w) = sample_size THEN Len(w) - 1 ELSE Len(w)
      /\ window_sum(v) <= window_sum(w)
  <2>1. CASE Len(w) = sample_size
    <3>1. w # <<>>
      BY <2>1, <1>1
    <3> QED
      BY <2>1, <3>1, TailFacts, WindowPop
  <2>2. CASE Len(w) # sample_size
    BY <2>2, WindowSum
  <2> QED
    BY <2>1, <2>2
<1>3. r = Append(v, x)
  BY DEF window_stats_push
<1> HIDE DEF r, v
<1>4. /\ r \in Seq({0, 1})
      /\ Len(v) \in Nat /\ Len(r) = Len(v) + 1
      /\ DOMAIN v = 1 .. Len(v) /\ DOMAIN r = 1 .. Len(v) + 1
      /\ r[Len(v) + 1] = x
      /\ \A j \in 1 .. Len(v) : r[j] = v[j]
  BY <1>2, <1>3, LenProperties, AppendProperties
<1>5. window_sum(r) <= window_sum(v) + x
  <2>1. IsFiniteSet(Ones(v)) /\ window_sum(v) = Cardinality(Ones(v)) /\ window_sum(v) \in Nat
    BY <1>2, WindowSum
  <2>2. window_sum(r) = Cardinality(Ones(r))
    BY <1>4, WindowSum
  <2>3. CASE x = 1
    <3>1. Ones(r) = Ones(v) \cup {Len(v) + 1}
      BY <1>4, <2>3 DEF Ones
    <3>2. Len(v) + 1 \notin Ones(v)
      BY <1>4 DEF Ones
    <3>3. Cardinality(Ones(v) \cup {Len(v) + 1}) = Cardinality(Ones(v)) + 1
      BY <2>1, <3>2, FS_AddElement, Zenon
    <3> QED
      BY <2>1, <2>2, <2>3, <3>1, <3>3
  <2>4. CASE x = 0
    <3>1. Ones(r) = Ones(v)
      BY <1>4, <2>4 DEF Ones
    <3> QED
      BY <2>1, <2>2, <2>4, <3>1
  <2>5. x = 0 \/ x = 1
    OBVIOUS
  <2> QED
    BY <2>3, <2>4, <2>5
<1> QED
  BY <1>1, <1>2, <1>4, <1>5, WindowSum DEF r

-----------------------------------------------------------------------------
(***************************************************************************)
(* The number of ghosts.                                                   *)
(***************************************************************************)

\* The bounds of ghost_size leave an entry of the pool of ghosts unused, and the
\* lower one is 0 only if the cache has fewer than GhostDivisor blocks.
LEMMA GhostBounds ==
  /\ min_ghost_size \in Nat /\ max_ghost_size \in Nat
  /\ min_ghost_size <= max_ghost_size
  /\ max_ghost_size < CacheSize
  /\ min_ghost_size = 0 => CacheSize < GhostDivisor
<1> DEFINE D == GhostDivisor
           M == CacheSize
           q == min_ghost_size
           r == max_ghost_size
<1>1. D \in Nat /\ D >= 2 /\ M \in Nat /\ M > 0
  BY MarcAssumption
<1>2. q \in Nat /\ D * q <= M /\ M < D * q + D
  BY <1>1, DivFacts DEF min_ghost_size
<1>3. (D - 1) * M \in Nat /\ (D - 1) * M = D * M - M /\ (D - 1) * M >= M
  BY <1>1
<1>4. r \in Nat /\ D * r <= (D - 1) * M /\ (D - 1) * M < D * r + D
  BY <1>1, <1>3, DivFacts DEF max_ghost_size
<1> HIDE DEF D, M, q, r
<1>5. q <= r
  <2>1. ASSUME q >= r + 1 PROVE FALSE
    <3>1. D * q >= D * (r + 1) /\ D * (r + 1) = D * r + D
      BY <1>1, <1>2, <1>4, <2>1
    <3> QED
      BY <1>1, <1>2, <1>3, <1>4, <3>1
  <2> QED
    BY <1>2, <1>4, <2>1
<1>6. r < M
  <2>1. ASSUME r >= M PROVE FALSE
    <3>1. D * r >= D * M
      BY <1>1, <1>4, <2>1
    <3> QED
      BY <1>1, <1>3, <1>4, <3>1
  <2> QED
    BY <1>1, <1>4, <2>1
<1>7. q = 0 => M < D
  BY <1>1, <1>2
<1> QED
  BY <1>2, <1>4, <1>5, <1>6, <1>7 DEF D, M, q, r

\* A size is a number, and 0 only in a cache that is too small.
LEMMA SizesFacts ==
  ASSUME NEW size \in Sizes
  PROVE  /\ size \in Nat
         /\ size = 0 => CacheSize < GhostDivisor
         /\ size # CacheSize => size \in min_ghost_size .. max_ghost_size
  BY GhostBounds, MarcAssumption DEF Sizes

\* The adaptation stays within the bounds.
LEMMA GhostAdapts ==
  ASSUME NEW size \in Sizes
  PROVE  /\ marc_ghost_decrease_size(size) \in min_ghost_size .. max_ghost_size
         /\ size # 0 => marc_ghost_increase_size(size) \in min_ghost_size .. max_ghost_size
<1>1. /\ min_ghost_size \in Nat /\ max_ghost_size \in Nat
      /\ min_ghost_size <= max_ghost_size /\ max_ghost_size < CacheSize
      /\ CacheSize \in Nat /\ size \in Nat
      /\ size # CacheSize => min_ghost_size <= size /\ size <= max_ghost_size
      /\ min_ghost_size <= size
  BY GhostBounds, SizesFacts, MarcAssumption
<1>2. marc_ghost_decrease_size(size) \in min_ghost_size .. max_ghost_size
  <2>1. CASE size = CacheSize
    BY <1>1, <2>1 DEF marc_ghost_decrease_size
  <2>2. CASE size # CacheSize
    <3> DEFINE tmp == CacheSize \div (CacheSize - size)
    <3>1. tmp \in Nat
      BY <1>1, <2>2, DivFacts
    <3>2. marc_ghost_decrease_size(size) =
            IF size >= tmp THEN Max({min_ghost_size, size - tmp}) ELSE min_ghost_size
      BY <2>2 DEF marc_ghost_decrease_size
    <3> HIDE DEF tmp
    <3>3. Max({min_ghost_size, size - tmp}) =
            IF min_ghost_size >= size - tmp THEN min_ghost_size ELSE size - tmp
      BY <1>1, <3>1, MaxOfTwo
    <3> QED
      BY <1>1, <2>2, <3>1, <3>2, <3>3
  <2> QED
    BY <2>1, <2>2
<1>3. ASSUME size # 0
      PROVE  marc_ghost_increase_size(size) \in min_ghost_size .. max_ghost_size
  <2> DEFINE tmp == size + (CacheSize \div size)
  <2>1. tmp \in Nat /\ tmp >= size
    BY <1>1, <1>3, DivFacts
  <2>2. marc_ghost_increase_size(size) = Min({max_ghost_size, tmp})
    BY DEF marc_ghost_increase_size
  <2> HIDE DEF tmp
  <2>3. Min({max_ghost_size, tmp}) = IF max_ghost_size <= tmp THEN max_ghost_size ELSE tmp
    BY <1>1, <2>1, MinOfTwo
  <2> QED
    BY <1>1, <2>1, <2>2, <2>3
<1> QED
  BY <1>2, <1>3

\* The bounds are constants.
LEMMA BoundsFixed ==
  /\ min_ghost_size' = min_ghost_size
  /\ max_ghost_size' = max_ghost_size
  /\ Sizes' = Sizes
  BY DEF min_ghost_size, max_ghost_size, Sizes

-----------------------------------------------------------------------------
(***************************************************************************)
(* What a request is about to do.                                          *)
(***************************************************************************)

\* What it does to the sample and the state.
LEMMA SampledFacts ==
  ASSUME MarcInv, NEW o \in Oblocks, NEW s, s = marc_sampled(o)
  PROVE  /\ s.state \in States
         /\ s.tabu \in Nat
         /\ s.size \in Sizes
         /\ s.clear \in BOOLEAN /\ s.phase_clear \in BOOLEAN /\ s.due \in BOOLEAN
         /\ s.clear <=> s.state # state
         /\ s.phase_clear <=> s.state # state /\ s.state # "STABLE"
         /\ s.state # state => s.due
<1> DEFINE hit  == IF o \in cached THEN 1 ELSE 0
           tabu == Max({tabu_counter - 1, 0})
           due  == tabu = 0 /\ Len(sample) + 1 >= sample_size
           hr_sample == (100 * (window_sum(sample) - window_stats_peek(sample) + hit))
                          \div sample_size
           hr_state  == (100 * (phase_hits + hit)) \div (phase_ios + 1)
           next == IF due THEN marc_try_transition(hr_sample, hr_state) ELSE state
           moved == next # state
<1>1. /\ s.state = next
      /\ s.tabu = CASE ~due -> tabu
                    [] moved /\ next = "UNSTABLE" -> 2 * TABU
                    [] OTHER -> TABU
      /\ s.size = IF moved /\ next # "UNSTABLE" THEN min_ghost_size ELSE ghost_size
      /\ s.clear = moved
      /\ s.phase_clear = (moved /\ next # "STABLE")
      /\ s.due = due
  BY DEF marc_sampled
<1>2. tabu \in Nat
  <2>1. tabu_counter \in Nat
    BY DEF MarcInv, MarcTypes
  <2>2. Max({tabu_counter - 1, 0}) = IF tabu_counter - 1 >= 0 THEN tabu_counter - 1 ELSE 0
    BY <2>1, MaxOfTwo
  <2> QED
    BY <2>1, <2>2
<1>3. due \in BOOLEAN
  OBVIOUS
<1>4. ASSUME NEW x, NEW y
      PROVE  marc_try_transition(x, y) \in States
  <2>1. state \in States
    BY DEF MarcInv, MarcTypes
  <2> DEFINE a == state = "UNSTABLE" /\ marc_unst_uniq_check(x, y)
             b == /\ state = "UNSTABLE"
                  /\ ~marc_unst_uniq_check(x, y)
                  /\ marc_unst_stab_check(x, y)
             c == state = "STABLE" /\ marc_stab_unst_check(x, y)
             d == state = "UNIQUE" /\ marc_uniq_unst_check(x)
  <2>2. marc_try_transition(x, y) =
          CASE a -> "UNIQUE" [] b -> "STABLE" [] c -> "UNSTABLE" [] d -> "UNSTABLE"
            [] OTHER -> state
    BY DEF marc_try_transition
  <2>3. ~(a /\ b) /\ ~(a /\ c) /\ ~(a /\ d) /\ ~(b /\ c) /\ ~(b /\ d) /\ ~(c /\ d)
    BY <2>1 DEF States
  <2> HIDE DEF a, b, c, d
  <2> QED
    BY <2>1, <2>2, <2>3 DEF States
<1>5. next \in States
  <2>1. state \in States
    BY DEF MarcInv, MarcTypes
  <2> QED
    BY <1>4, <2>1
<1>6. ghost_size \in Sizes /\ min_ghost_size \in Sizes
  BY GhostBounds DEF MarcInv, MarcTypes, Sizes
<1>7. TABU \in Nat
  BY MarcAssumption DEF TABU
<1>8. moved => due
  BY Zenon
<1> HIDE DEF tabu, due, next
<1>9. s.tabu \in Nat
  <2>1. ~due \/ (due /\ moved /\ next = "UNSTABLE") \/ (due /\ ~(moved /\ next = "UNSTABLE"))
    OBVIOUS
  <2>2. 2 * TABU \in Nat
    BY <1>7
  <2>3. CASE ~due
    <3>1. ~(moved /\ next = "UNSTABLE")
      BY <1>8, <2>3
    <3>2. s.tabu = tabu
      BY <1>1, <2>3, <3>1
    <3> QED
      BY <1>2, <3>2
  <2>4. CASE due /\ moved /\ next = "UNSTABLE"
    BY <1>1, <2>2, <2>4
  <2>5. CASE due /\ ~(moved /\ next = "UNSTABLE")
    BY <1>1, <1>7, <2>5
  <2> QED
    BY <2>1, <2>3, <2>4, <2>5
<1>10. s.size \in Sizes
  BY <1>1, <1>6
<1> QED
  BY <1>1, <1>3, <1>5, <1>8, <1>9, <1>10, Zenon

\* What it does to the ghosts, and whether it is filtered.
LEMMA AdmissionFacts ==
  ASSUME NEW s, NEW o \in Oblocks, NEW a, a = marc_admission(s, o)
  PROVE  LET miss == o \notin cached /\ Full
             g_hit == o \in ToSet(ghost_q)
         IN  /\ a.remove \in BOOLEAN /\ a.add \in BOOLEAN /\ a.filter \in BOOLEAN
             /\ a.remove <=> miss /\ g_hit
             /\ a.add <=> miss /\ (s.state = "UNSTABLE" \/ ~g_hit)
             /\ a.filter <=> miss /\ s.state # "UNSTABLE" /\ ~g_hit
<1> DEFINE g_hit == o \in ToSet(ghost_q)
           miss == ~(o \in cached) /\ Full
<1>1. /\ a.remove = (miss /\ g_hit)
      /\ a.add = (miss /\ (s.state = "UNSTABLE" \/ ~g_hit))
      /\ a.filter = (miss /\ s.state # "UNSTABLE" /\ ~g_hit)
  BY DEF marc_admission
<1>2. miss <=> o \notin cached /\ Full
  OBVIOUS
<1> HIDE DEF miss, g_hit
<1>3. /\ (miss /\ g_hit) \in BOOLEAN
      /\ (miss /\ (s.state = "UNSTABLE" \/ ~g_hit)) \in BOOLEAN
      /\ (miss /\ s.state # "UNSTABLE" /\ ~g_hit) \in BOOLEAN
  OBVIOUS
<1>4. a.remove \in BOOLEAN /\ a.add \in BOOLEAN /\ a.filter \in BOOLEAN
  BY <1>1, <1>3, Zenon
<1> QED
  BY <1>1, <1>2, <1>4, Zenon DEF g_hit

\* The number of ghosts to keep after it; a miss that adds a ghost leaves the size
\* that the cache begins with.
LEMMA ResizeFacts ==
  ASSUME NEW s, s.size \in Sizes, NEW o \in Oblocks, ~marc_divides_by_zero(s, o)
  PROVE  /\ marc_resize(s, o) \in Sizes
         /\ o \notin cached /\ Full => marc_resize(s, o) <= max_ghost_size
<1> DEFINE A == o \in cached /\ (s.state # "UNSTABLE" \/ Full)
           B == o \notin cached /\ Full
<1>1. marc_resize(s, o) =
        CASE A -> marc_ghost_decrease_size(s.size)
          [] B -> marc_ghost_increase_size(s.size)
          [] OTHER -> s.size
  BY DEF marc_resize
<1>2. ~(A /\ B) /\ (B => s.size # 0)
  BY DEF marc_divides_by_zero
<1>3. /\ marc_ghost_decrease_size(s.size) \in min_ghost_size .. max_ghost_size
      /\ B => marc_ghost_increase_size(s.size) \in min_ghost_size .. max_ghost_size
  BY <1>2, GhostAdapts
<1> HIDE DEF A, B
<1>4. /\ marc_resize(s, o) \in Sizes
      /\ B => marc_resize(s, o) \in min_ghost_size .. max_ghost_size
  BY <1>1, <1>2, <1>3 DEF Sizes
<1> QED
  BY <1>4, GhostBounds DEF B

\* The ghosts after it, before one is evicted and after that.
LEMMA GhostsFacts ==
  ASSUME MarcInv, NEW s, NEW o \in Oblocks, NEW a, a = marc_admission(s, o),
         NEW size \in Sizes, a.add => size <= max_ghost_size,
         NEW q, q = marc_ghost_evict(marc_ghosts(a, o), size)
  PROVE  /\ q \in Seq(Oblocks)
         /\ IsInjective(q)
         /\ Len(q) <= max_ghost_size
         /\ a.remove /\ ~a.add => o \notin ToSet(q)
<1> DEFINE left == IF a.remove THEN queue_remove(ghost_q, o) ELSE ghost_q
           g == marc_ghosts(a, o)
<1>1. /\ ghost_q \in Seq(Oblocks) /\ IsInjective(ghost_q)
      /\ Len(ghost_q) \in Nat /\ Len(ghost_q) <= max_ghost_size
      /\ max_ghost_size \in Nat /\ size \in Nat
  BY LenProperties, GhostBounds, SizesFacts DEF MarcInv, MarcTypes
<1>2. /\ a.remove \in BOOLEAN /\ a.add \in BOOLEAN
      /\ a.remove => o \in ToSet(ghost_q)
      /\ a.add /\ ~a.remove => o \notin ToSet(ghost_q)
  BY AdmissionFacts
<1>3. /\ left \in Seq(Oblocks) /\ IsInjective(left)
      /\ a.remove \/ a.add => o \notin ToSet(left)
      /\ Len(left) = IF a.remove THEN Len(ghost_q) - 1 ELSE Len(ghost_q)
  <2>1. CASE a.remove
    <3>1. left = queue_remove(ghost_q, o)
      BY <2>1
    <3> QED
      BY <1>1, <1>2, <2>1, <3>1, QueueRemove
  <2>2. CASE ~a.remove
    BY <1>1, <1>2, <2>2
  <2> QED
    BY <2>1, <2>2
<1>4. g = IF a.add THEN Append(left, o) ELSE left
  BY DEF marc_ghosts
<1> HIDE DEF left, g
<1>5. /\ g \in Seq(Oblocks) /\ IsInjective(g) /\ Len(g) \in Nat
      /\ a.remove /\ ~a.add => o \notin ToSet(g)
      /\ a.add => Len(g) <= max_ghost_size + 1
      /\ ~a.add => Len(g) <= max_ghost_size
  <2>1. CASE a.add
    BY <1>1, <1>2, <1>3, <1>4, <2>1, QueuePush, LenProperties
  <2>2. CASE ~a.add
    BY <1>1, <1>2, <1>3, <1>4, <2>2, LenProperties
  <2> QED
    BY <2>1, <2>2
<1>6. q = IF Len(g) > size THEN Tail(g) ELSE g
  BY DEF marc_ghost_evict, g
<1>7. CASE Len(g) > size
  <2>1. g # <<>>
    BY <1>1, <1>5, <1>7
  <2>2. /\ q \in Seq(Oblocks) /\ IsInjective(q) /\ ToSet(q) \subseteq ToSet(g)
        /\ Len(q) = Len(g) - 1
    BY <1>5, <1>6, <1>7, <2>1, QueueTail
  <2> QED
    BY <1>1, <1>2, <1>5, <2>2
<1>8. CASE ~(Len(g) > size)
  BY <1>1, <1>2, <1>5, <1>6, <1>8
<1> QED
  BY <1>7, <1>8

-----------------------------------------------------------------------------
(***************************************************************************)
(* The steps.                                                              *)
(***************************************************************************)

\* UNSTABLE with nothing counted.
LEMMA MarcInitInv == MarcInit => MarcInv
<1> SUFFICES ASSUME MarcInit PROVE MarcInv
  OBVIOUS
<1>1. <<>> \in Seq(Oblocks) /\ <<>> \in Seq({0, 1}) /\ IsInjective(<<>>) /\ Len(<<>>) = 0
  BY DEF IsInjective
<1>2. 2 * TABU \in Nat
  BY MarcAssumption DEF TABU
<1>3. MarcTypes
  BY <1>1, <1>2 DEF MarcInit, MarcTypes, States, Sizes
<1>4. MarcCountersSound
  <2>1. Min({sample_size, 0}) = 0 /\ sample_size \in Nat
    BY MarcAssumption, MinOfTwo DEF sample_size
  <2>2. window_sum(<<>>) = 0
    BY <1>1, WindowSum
  <2>3. sample = <<>> /\ phase_hits = 0 /\ phase_ios = 0 /\ state # "UNIQUE"
    BY DEF MarcInit
  <2>4. MarcRatesComparable
    BY <1>1, <2>1, <2>2, <2>3 DEF MarcRatesComparable
  <2> QED
    BY <2>3, <2>4 DEF MarcCountersSound, MarcUniqueCountsNoGhostHits
<1>5. answer[1] = "NONE"
  BY DEF MarcInit, PolicyInit, Void
<1> QED
  BY <1>1, <1>3, <1>4, <1>5, GhostBounds DEF MarcInit, MarcInv

\* What a request that is not failed does to the counters.
LEMMA CommitCounters ==
  ASSUME MarcInv, NEW o \in Oblocks, NEW s, s = marc_sampled(o),
         NEW a, a = marc_admission(s, o), marc_transaction_commit(s, a, o)
  PROVE  /\ sample' \in Seq({0, 1})
         /\ phase_hits' \in Nat /\ phase_ios' \in Nat /\ ghost_hits' \in Nat
         /\ MarcCountersSound'
<1> DEFINE hit == IF o \in cached THEN 1 ELSE 0
           pushed == window_stats_push(sample, hit)
           counted == marc_ghost_hit(a)
<1>1. /\ state' = s.state
      /\ sample' = IF s.clear THEN <<>> ELSE pushed
      /\ phase_hits' = IF s.phase_clear THEN 0 ELSE phase_hits + hit
      /\ phase_ios' = IF s.phase_clear THEN 0 ELSE phase_ios + 1
      /\ ghost_hits' = (IF s.due THEN 0 ELSE ghost_hits) + (IF counted THEN 1 ELSE 0)
  BY DEF marc_transaction_commit
<1>2. /\ s.clear \in BOOLEAN /\ s.phase_clear \in BOOLEAN /\ s.due \in BOOLEAN
      /\ s.clear <=> s.state # state
      /\ s.phase_clear => s.clear
      /\ s.state # state => s.due
  BY SampledFacts
<1>3. /\ sample \in Seq({0, 1}) /\ Len(sample) \in Nat
      /\ phase_hits \in Nat /\ phase_ios \in Nat /\ ghost_hits \in Nat
      /\ sample_size \in Nat \ {0}
  BY LenProperties, MarcAssumption DEF MarcInv, MarcTypes, sample_size
<1>4. \A n \in Nat : Min({sample_size, n}) = IF sample_size <= n THEN sample_size ELSE n
  BY <1>3, MinOfTwo
<1>5. /\ phase_hits <= phase_ios
      /\ Len(sample) <= sample_size /\ Len(sample) <= phase_ios
      /\ window_sum(sample) <= phase_hits /\ window_sum(sample) \in Nat
      /\ state = "UNIQUE" => ghost_hits = 0
  BY <1>3, <1>4, WindowSum
  DEF MarcInv, MarcCountersSound, MarcRatesComparable, MarcUniqueCountsNoGhostHits
<1>6. hit \in {0, 1}
  OBVIOUS
<1>7. /\ pushed \in Seq({0, 1})
      /\ Len(pushed) = IF Len(sample) = sample_size THEN Len(sample) ELSE Len(sample) + 1
      /\ window_sum(pushed) <= window_sum(sample) + hit
      /\ window_sum(pushed) \in Nat
  BY <1>3, <1>5, <1>6, WindowPush, WindowSum
<1>8. counted => s.state = "UNSTABLE"
  BY AdmissionFacts DEF marc_ghost_hit
<1>9. <<>> \in Seq({0, 1}) /\ Len(<<>>) = 0 /\ window_sum(<<>>) = 0
  BY <1>3, WindowSum
<1> HIDE DEF hit, pushed, counted
<1>10. sample' \in Seq({0, 1})
  BY <1>1, <1>7, <1>9
<1>11. phase_hits' \in Nat /\ phase_ios' \in Nat /\ ghost_hits' \in Nat
  BY <1>1, <1>3, <1>6
<1>12. phase_hits' <= phase_ios'
  BY <1>1, <1>3, <1>5, <1>6
<1>13. Len(sample') <= sample_size /\ Len(sample') <= phase_ios'
  <2>1. CASE s.clear
    BY <1>1, <1>9, <1>3, <1>11, <2>1
  <2>2. CASE ~s.clear
    <3>1. sample' = pushed /\ phase_ios' = phase_ios + 1
      BY <1>1, <1>2, <2>2
    <3> QED
      BY <1>3, <1>5, <1>7, <3>1
  <2> QED
    BY <2>1, <2>2
<1>14. window_sum(sample') <= phase_hits'
  <2>1. CASE s.clear
    BY <1>1, <1>9, <1>11, <2>1
  <2>2. CASE ~s.clear
    <3>1. sample' = pushed /\ phase_hits' = phase_hits + hit
      BY <1>1, <1>2, <2>2
    <3> QED
      BY <1>3, <1>5, <1>6, <1>7, <3>1
  <2> QED
    BY <2>1, <2>2
<1>15. state' = "UNIQUE" => ghost_hits' = 0
  BY <1>1, <1>2, <1>3, <1>5, <1>8
<1>16. Len(sample') <= Min({sample_size, phase_ios'})
  BY <1>4, <1>11, <1>13
<1>17. sample_size' = sample_size /\ window_sum(sample)' = window_sum(sample')
  BY DEF sample_size, window_sum
<1> QED
  BY <1>10, <1>11, <1>12, <1>14, <1>15, <1>16, <1>17
  DEF MarcCountersSound, MarcRatesComparable, MarcUniqueCountsNoGhostHits

\* A request that is not failed.  The filtered ones keep the cache as it is.
LEMMA CommitStep ==
  ASSUME MarcInv, NEW o \in Oblocks, NEW s, s = marc_sampled(o),
         NEW a, a = marc_admission(s, o), ~marc_divides_by_zero(s, o),
         marc_transaction_commit(s, a, o), loading' \in BOOLEAN
  PROVE  /\ MarcInv'
         /\ state' = s.state
         /\ answer'[1] # "FAIL"
         /\ answer'[1] = "FILTER" <=> a.filter
         /\ answer'[1] = "REPLACE" =>
              /\ o \notin cached /\ Full /\ ~a.filter
              /\ cached' \subseteq cached \cup {o}
         /\ a.remove /\ ~a.add => o \notin ToSet(ghost_q')
<1>1. /\ tabu_counter' = s.tabu
      /\ ghost_size' = marc_resize(s, o)
      /\ state' = s.state
      /\ ghost_q' = marc_ghost_evict(marc_ghosts(a, o), ghost_size')
      /\ crashed' = crashed
  BY DEF marc_transaction_commit
<1>2. \/ /\ ~a.filter
         /\ Hit(o) \/ New(o) \/ \E v \in cached : Replace(o, v)
      \/ /\ a.filter
         /\ answer' = <<"FILTER", Null>>
         /\ UNCHANGED <<cached, inflight>>
  BY DEF marc_transaction_commit
<1>3. s.state \in States /\ s.tabu \in Nat /\ s.size \in Sizes
  BY SampledFacts
<1>4. /\ ghost_size' \in Sizes
      /\ o \notin cached /\ Full => ghost_size' <= max_ghost_size
  BY <1>1, <1>3, ResizeFacts
<1>5. /\ a.add \in BOOLEAN /\ a.filter \in BOOLEAN
      /\ a.add => o \notin cached /\ Full
      /\ a.filter => Full /\ s.state # "UNSTABLE"
  BY AdmissionFacts
<1>6. /\ ghost_q' \in Seq(Oblocks) /\ IsInjective(ghost_q')
      /\ Len(ghost_q') <= max_ghost_size
      /\ a.remove /\ ~a.add => o \notin ToSet(ghost_q')
  BY <1>1, <1>4, <1>5, GhostsFacts
<1>7. /\ sample' \in Seq({0, 1})
      /\ phase_hits' \in Nat /\ phase_ios' \in Nat /\ ghost_hits' \in Nat
      /\ MarcCountersSound'
  BY CommitCounters
<1>8. /\ answer'[1] # "FAIL"
      /\ answer'[1] = "FILTER" <=> a.filter
      /\ answer'[1] = "REPLACE" =>
           /\ o \notin cached /\ Full /\ ~a.filter
           /\ cached' \subseteq cached \cup {o}
  BY <1>2, <1>5 DEF Hit, New, Replace, Full
<1>9. answer'[1] = "FILTER" => state' # "UNSTABLE" /\ Full'
  BY <1>1, <1>2, <1>5, <1>8 DEF Full
<1>10. MarcTypes'
  BY <1>1, <1>3, <1>4, <1>6, <1>7, BoundsFixed DEF MarcInv, MarcTypes
<1>11. MarcInv'
  BY <1>1, <1>6, <1>7, <1>9, <1>10, BoundsFixed DEF MarcInv
<1> QED
  BY <1>1, <1>6, <1>8, <1>11

\* The other steps leave ghosts and counters alone.
LEMMA QuietStep ==
  ASSUME MarcInv, UNCHANGED <<phaseVars, ghost_q>>,
         loading' \in BOOLEAN, crashed' \in BOOLEAN,
         crashed' => CacheSize < GhostDivisor,
         answer'[1] = "FILTER" => UNCHANGED <<cached, answer>>
  PROVE  MarcInv'
<1>1. /\ state' = state /\ tabu_counter' = tabu_counter
      /\ ghost_q' = ghost_q /\ ghost_size' = ghost_size /\ ghost_hits' = ghost_hits
      /\ sample' = sample /\ phase_hits' = phase_hits /\ phase_ios' = phase_ios
  BY DEF phaseVars
<1>2. MarcTypes'
  BY <1>1, BoundsFixed DEF MarcInv, MarcTypes
<1>3. MarcCountersSound'
  BY <1>1 DEF MarcInv, MarcCountersSound, MarcRatesComparable,
              MarcUniqueCountsNoGhostHits, sample_size, window_sum
<1>4. answer'[1] = "FILTER" => state' # "UNSTABLE" /\ Full'
  BY <1>1 DEF MarcInv, Full
<1> QED
  BY <1>1, <1>2, <1>3, <1>4, BoundsFixed DEF MarcInv

\* A request: the program stops, the internal policy would fail, or it is done.
LEMMA MapStep ==
  ASSUME MarcInv, NEW o \in Oblocks, MarcMap(o)
  PROVE  /\ MarcInv'
         /\ answer'[1] = "FAIL" => UNCHANGED <<phaseVars, ghost_q>>
         /\ ~crashed' => (answer'[1] = "FILTER" <=> marc_next_victim_filters(o))
         /\ answer'[1] = "REPLACE" /\ state' # "UNSTABLE" =>
              cached' \ cached \subseteq ToSet(ghost_q) \ ToSet(ghost_q')
<1> DEFINE s == marc_sampled(o)
           a == marc_admission(s, o)
<1>1. s.state \in States /\ s.size \in Sizes
  BY SampledFacts
<1>2. /\ a.remove \in BOOLEAN /\ a.add \in BOOLEAN /\ a.filter \in BOOLEAN
      /\ a.remove <=> (o \notin cached /\ Full) /\ o \in ToSet(ghost_q)
      /\ a.add <=> (o \notin cached /\ Full)
                   /\ (s.state = "UNSTABLE" \/ o \notin ToSet(ghost_q))
      /\ a.filter <=> (o \notin cached /\ Full) /\ s.state # "UNSTABLE"
                      /\ o \notin ToSet(ghost_q)
  BY AdmissionFacts
<1>3. marc_next_victim_filters(o) = a.filter
  BY DEF marc_next_victim_filters
<1>4. loading' \in BOOLEAN
  BY DEF MarcMap
<1>5. \/ /\ marc_divides_by_zero(s, o) \/ ~marc_commit_asserts(a)
         /\ crashed' = TRUE /\ UNCHANGED <<policyVars, phaseVars, ghost_q>>
      \/ /\ ~marc_divides_by_zero(s, o)
         /\ ~a.filter /\ marc_fail(o)
      \/ /\ ~marc_divides_by_zero(s, o)
         /\ marc_transaction_commit(s, a, o)
  BY DEF MarcMap, marc_map_api
<1>6. CASE /\ marc_divides_by_zero(s, o) \/ ~marc_commit_asserts(a)
           /\ crashed' = TRUE /\ UNCHANGED <<policyVars, phaseVars, ghost_q>>
  <2>1. marc_commit_asserts(a)
    <3>1. Len(ghost_q) \in Nat /\ Len(ghost_q) <= max_ghost_size /\ CacheSize \in Nat
      BY LenProperties, MarcAssumption DEF MarcInv, MarcTypes
    <3>2. Len(ghost_q) < CacheSize
      BY <3>1, GhostBounds
    <3> QED
      BY <3>2 DEF marc_commit_asserts, meta_pool_size
  <2>2. CacheSize < GhostDivisor
    BY <1>1, <1>6, <2>1, SizesFacts DEF marc_divides_by_zero
  <2>3. UNCHANGED <<cached, answer>>
    BY <1>6 DEF policyVars
  <2>4. MarcInv'
    BY <1>4, <1>6, <2>2, <2>3, QuietStep
  <2> QED
    BY <1>6, <2>3, <2>4
<1>7. CASE ~a.filter /\ marc_fail(o)
  <2>1. /\ answer'[1] = "FAIL"
        /\ UNCHANGED <<phaseVars, ghost_q>> /\ crashed' = crashed
    BY <1>7 DEF marc_fail, Fail
  <2>2. MarcInv'
    BY <1>4, <2>1, QuietStep DEF MarcInv, MarcTypes
  <2> QED
    BY <1>3, <1>7, <2>1, <2>2
<1>8. CASE ~marc_divides_by_zero(s, o) /\ marc_transaction_commit(s, a, o)
  <2> HIDE DEF s, a
  <2>1. /\ MarcInv'
        /\ state' = s.state
        /\ answer'[1] # "FAIL"
        /\ answer'[1] = "FILTER" <=> a.filter
        /\ answer'[1] = "REPLACE" =>
              /\ o \notin cached /\ Full /\ ~a.filter
              /\ cached' \subseteq cached \cup {o}
        /\ a.remove /\ ~a.add => o \notin ToSet(ghost_q')
    BY <1>4, <1>8, CommitStep DEF s, a
  <2>2. ASSUME answer'[1] = "REPLACE", state' # "UNSTABLE"
        PROVE  cached' \ cached \subseteq ToSet(ghost_q) \ ToSet(ghost_q')
    <3>1. o \in ToSet(ghost_q) /\ a.remove /\ ~a.add
      BY <1>2, <2>1, <2>2
    <3> QED
      BY <2>1, <2>2, <3>1
  <2> QED
    BY <1>3, <2>1, <2>2
<1> QED
  BY <1>5, <1>6, <1>7, <1>8

\* The calls that go to the internal policy alone; none of them answers a request.
LEMMA OtherSteps ==
  ASSUME MarcInv, NEW o \in Oblocks, NEW n \in Oblocks,
         MarcRemove(o) \/ MarcInsert(o) \/ MarcMigrated(o) \/ MarcRemap(o, n)
  PROVE  MarcInv' /\ answer'[1] = "NONE"
<1>1. /\ UNCHANGED <<phaseVars, ghost_q>> /\ crashed' = crashed
      /\ loading' \in BOOLEAN
  BY DEF MarcRemove, MarcInsert, MarcMigrated, MarcRemap, Delegated, MarcInv, MarcTypes
<1>2. answer'[1] = "NONE"
  BY DEF MarcRemove, MarcInsert, MarcMigrated, MarcRemap, Delegated, Drop, Forget,
         Migrated, Rename, Preload, Void
<1> QED
  BY <1>1, <1>2, QuietStep DEF MarcInv, MarcTypes

\* A filtered request leaves the cache as it is.
LEMMA FilterKeepsCache ==
  ASSUME NEW o \in Oblocks, MarcMap(o), answer'[1] = "FILTER"
  PROVE  cached' = cached
<1>1. \/ UNCHANGED policyVars
      \/ marc_fail(o)
      \/ marc_transaction_commit(marc_sampled(o), marc_admission(marc_sampled(o), o), o)
  BY DEF MarcMap, marc_map_api
<1> QED
  BY <1>1 DEF marc_fail, Fail, marc_transaction_commit, policyVars, Hit, New, Replace

\* MarcInv is inductive.
LEMMA MarcNextInv == MarcInv /\ [MarcNext]_marcVars => MarcInv'
<1> SUFFICES ASSUME MarcInv, [MarcNext]_marcVars PROVE MarcInv'
  OBVIOUS
<1>1. CASE MarcNext
  BY <1>1, MapStep, OtherSteps DEF MarcNext
<1>2. CASE UNCHANGED marcVars
  BY <1>2, QuietStep DEF marcVars, policyVars, phaseVars, MarcInv, MarcTypes
<1> QED
  BY <1>1, <1>2

-----------------------------------------------------------------------------
(***************************************************************************)
(* The theorems.                                                           *)
(***************************************************************************)

\* MarcInv holds in every reachable state.
THEOREM MarcSafety == MarcSpec => []MarcInv
<1> QED
  BY MarcInitInv, MarcNextInv, PTL DEF MarcSpec

\* The pool of ghosts never runs out and, with at least GhostDivisor cache blocks,
\* mARC never divides by 0.
THEOREM MarcGhostsAlwaysFit == MarcSpec => []MarcGhostsFit
<1>1. MarcInv => MarcGhostsFit
  BY MarcAssumption DEF MarcInv, MarcTypes, MarcGhostsFit, Sizes
<1> QED
  BY <1>1, MarcSafety, PTL

\* Hit rates are compared over the requests of one phase, and UNIQUE counts no
\* ghost hit.
THEOREM MarcCountersAlwaysSound == MarcSpec => []MarcCountersSound
<1>1. MarcInv => MarcCountersSound
  BY DEF MarcInv
<1> QED
  BY <1>1, MarcSafety, PTL

\* Out of UNSTABLE a full cache admits ghosts only, and uses them up; a filter is
\* announced exactly; a failed request leaves no trace.
THEOREM MarcAdmits == MarcSpec => MarcAdmission
<1>1. ASSUME MarcInv, MarcInv', [MarcNext]_marcVars
      PROVE  [/\ answer'[1] = "REPLACE" /\ state' # "UNSTABLE" =>
                   cached' \ cached \subseteq ToSet(ghost_q) \ ToSet(ghost_q')
              /\ answer'[1] = "FILTER" => state' # "UNSTABLE" /\ Full
              /\ answer'[1] = "FAIL" => UNCHANGED <<phaseVars, ghost_q>>
              /\ \A o \in Oblocks :
                   MarcMap(o) /\ ~crashed' =>
                     (answer'[1] = "FILTER" <=> marc_next_victim_filters(o))]_marcVars
  <2> SUFFICES ASSUME MarcNext
               PROVE  /\ answer'[1] = "REPLACE" /\ state' # "UNSTABLE" =>
                           cached' \ cached \subseteq ToSet(ghost_q) \ ToSet(ghost_q')
                      /\ answer'[1] = "FILTER" => state' # "UNSTABLE" /\ Full
                      /\ answer'[1] = "FAIL" => UNCHANGED <<phaseVars, ghost_q>>
                      /\ \A o \in Oblocks :
                           MarcMap(o) /\ ~crashed' =>
                             (answer'[1] = "FILTER" <=> marc_next_victim_filters(o))
    BY <1>1
  <2>1. /\ answer'[1] = "REPLACE" /\ state' # "UNSTABLE" =>
             cached' \ cached \subseteq ToSet(ghost_q) \ ToSet(ghost_q')
        /\ answer'[1] = "FAIL" => UNCHANGED <<phaseVars, ghost_q>>
    BY <1>1, MapStep, OtherSteps DEF MarcNext
  <2>2. answer'[1] = "FILTER" => state' # "UNSTABLE" /\ Full'
    BY <1>1 DEF MarcInv
  <2>3. answer'[1] = "FILTER" => cached' = cached
    BY <1>1, FilterKeepsCache, OtherSteps DEF MarcNext
  <2> QED
    BY <1>1, <2>1, <2>2, <2>3, MapStep DEF Full
<1> QED
  BY <1>1, MarcSafety, PTL DEF MarcSpec, MarcAdmission
============================================================================
