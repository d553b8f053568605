--------------------------- MODULE LarcLirsProofs --------------------------
(***************************************************************************)
(* The safety of LARC and of LIRS, the two policies that keep ghosts in a  *)
(* meta pool of any size (Meta), for every size of the two pools and every *)
(* set of blocks, and that their steps are steps of CachePolicy.  First    *)
(* LARC: what it shares with LRU, a queue of the resident entries, is      *)
(* proved in NucleusProofs.  Then LIRS, from the induction over its loop   *)
(* and the order of its queues up to its requests and the theorems.        *)
(***************************************************************************)
EXTENDS Larc, Lirs, NucleusProofs

-----------------------------------------------------------------------------
(***************************************************************************)
(* LARC: the inductive invariant.                                          *)
(***************************************************************************)

\* The ghosts: blocks that are not cached, each once, and none before the first
\* request.
GhostsSound ==
  /\ larc_g \in Seq(Oblocks)
  /\ IsInjective(larc_g)
  /\ Ghosts \cap Blocks(pool) = {}
  /\ loading => larc_g = <<>>
  /\ Len(larc_g) <= max_g_size
  /\ g_size \in min_g_size .. max_g_size

\* The program stops only if the meta pool is too small to adapt to a miss.
LarcInv ==
  /\ PoolSound(pool)
  /\ QueueSound(larc_q, pool)
  /\ GhostsSound
  /\ stats \in Stats
  /\ result \in Results \cup {NoResult}
  /\ crashed \in BOOLEAN
  /\ crashed => MetaSize < GhostDivisor
  /\ loading \in BOOLEAN

-----------------------------------------------------------------------------
(***************************************************************************)
(* The number of ghosts.                                                   *)
(***************************************************************************)

\* The bounds of g_size leave a ghost of the meta pool unused, and the lower one
\* is 0 only if the pool is smaller than GhostDivisor.
LEMMA GhostBounds ==
  /\ min_g_size \in Nat /\ max_g_size \in Nat
  /\ min_g_size <= max_g_size
  /\ max_g_size < MetaSize
  /\ min_g_size = 0 => MetaSize < GhostDivisor
<1> DEFINE D == GhostDivisor
           M == MetaSize
           q == min_g_size
           r == max_g_size
<1>1. D \in Nat /\ D >= 2 /\ M \in Nat /\ M > 0
  BY LarcAssumption
<1>2. q \in Nat /\ D * q <= M /\ M < D * q + D
  BY <1>1, DivFacts DEF min_g_size
<1>3. (D - 1) * M \in Nat /\ (D - 1) * M = D * M - M /\ (D - 1) * M >= M
  BY <1>1
<1>4. r \in Nat /\ D * r <= (D - 1) * M /\ (D - 1) * M < D * r + D
  BY <1>1, <1>3, DivFacts DEF max_g_size
<1> HIDE DEF D, M, q, r
<1>5. q <= r
  <2>1. ASSUME q >= r + 1 PROVE FALSE
    <3>1. D * q >= D * (r + 1) /\ D * (r + 1) = D * r + D
      BY <1>1, <1>2, <1>4, <2>1
    <3> QED
      BY <1>1, <1>2, <1>3, <1>4, <3>1
  <2> QED
    BY <1>2, <1>4, <2>1
<1>6. r < M
  <2>1. ASSUME r >= M PROVE FALSE
    <3>1. D * r >= D * M
      BY <1>1, <1>4, <2>1
    <3> QED
      BY <1>1, <1>3, <1>4, <3>1
  <2> QED
    BY <1>1, <1>4, <2>1
<1>7. q = 0 => M < D
  BY <1>1, <1>2
<1> QED
  BY <1>2, <1>4, <1>5, <1>6, <1>7 DEF D, M, q, r

\* The adaptation stays within the bounds.
LEMMA GhostAdapts ==
  ASSUME g_size \in min_g_size .. max_g_size
  PROVE  /\ larc_decrease_g_size \in min_g_size .. max_g_size
         /\ g_size # 0 => larc_increase_g_size \in min_g_size .. max_g_size
<1>1. /\ min_g_size \in Nat /\ max_g_size \in Nat /\ min_g_size <= max_g_size
      /\ max_g_size < MetaSize /\ MetaSize \in Nat
      /\ g_size \in Nat /\ min_g_size <= g_size /\ g_size <= max_g_size
  BY GhostBounds, LarcAssumption
<1>2. larc_decrease_g_size \in min_g_size .. max_g_size
  <2> DEFINE tmp == MetaSize \div (MetaSize - g_size)
  <2>1. tmp \in Nat
    BY <1>1, DivFacts
  <2>2. larc_decrease_g_size =
          IF tmp < g_size THEN Max({min_g_size, g_size - tmp}) ELSE min_g_size
    BY DEF larc_decrease_g_size
  <2> HIDE DEF tmp
  <2>3. Max({min_g_size, g_size - tmp}) =
          IF min_g_size >= g_size - tmp THEN min_g_size ELSE g_size - tmp
    BY <1>1, <2>1, MaxOfTwo
  <2> QED
    BY <1>1, <2>1, <2>2, <2>3
<1>3. ASSUME g_size # 0
      PROVE  larc_increase_g_size \in min_g_size .. max_g_size
  <2> DEFINE tmp == g_size + (MetaSize \div g_size)
  <2>1. tmp \in Nat /\ tmp >= g_size
    BY <1>1, <1>3, DivFacts
  <2>2. larc_increase_g_size = Min({max_g_size, tmp})
    BY DEF larc_increase_g_size
  <2> HIDE DEF tmp
  <2>3. Min({max_g_size, tmp}) = IF max_g_size <= tmp THEN max_g_size ELSE tmp
    BY <1>1, <2>1, MinOfTwo
  <2> QED
    BY <1>1, <2>1, <2>2, <2>3
<1> QED
  BY <1>2, <1>3

-----------------------------------------------------------------------------
(***************************************************************************)
(* The steps, each with its effect on what a caller sees.                  *)
(***************************************************************************)

\* Both pools start empty.
LEMMA LarcInitInv == LarcInit => LarcInv
<1> SUFFICES ASSUME LarcInit PROVE LarcInv
  OBVIOUS
<1>1. PoolSound(pool) /\ pool.allocated = {} /\ pool.migrating = {} /\ Blocks(pool) = {}
  BY PoolInitSound DEF LarcInit, epool_init, Blocks
<1>2. \A S : <<>> \in Seq(S) /\ ToSet(<<>>) = {} /\ IsInjective(<<>>) /\ Len(<<>>) = 0
  BY DEF ToSet, IsInjective
<1>3. QueueSound(larc_q, pool)
  BY <1>1, <1>2 DEF LarcInit, QueueSound
<1>4. GhostsSound
  BY <1>1, <1>2, GhostBounds DEF LarcInit, GhostsSound, Ghosts
<1>5. stats \in Stats
  BY NucleusAssumption DEF LarcInit, stats_init, Stats
<1> QED
  BY <1>1, <1>3, <1>4, <1>5 DEF LarcInit, LarcInv

\* The blocks that the policy shows are those of its pool.
LEMMA LarcBlocks ==
  /\ Cached = Blocks(pool) /\ Inflight = MovingBlocks(pool)
  /\ Cached' = Blocks(pool') /\ Inflight' = MovingBlocks(pool')
  BY DEF Cached, Inflight, Blocks, MovingBlocks

\* What a transaction is.
LEMMA LarcTransactionFacts ==
  ASSUME LarcInv, NEW o \in Oblocks
  PROVE  LET lt == larc_transaction_set(o)
         IN  /\ lt.c_hit \in BOOLEAN /\ (lt.c_hit <=> o \in Blocks(pool))
             /\ lt.g_hit \in BOOLEAN
             /\ lt.g_hit <=> o \in ToSet(larc_g)
             /\ lt.dest \in {"Q", "G"}
             /\ lt.dest = "G" <=>
                  /\ o \notin Blocks(pool) \cup ToSet(larc_g)
                  /\ cache_is_full(pool)
             /\ lt.c_evict \in BOOLEAN
             /\ lt.c_evict <=> o \in ToSet(larc_g) /\ cache_is_full(pool)
             /\ lt.g_evict \in BOOLEAN
             /\ lt.g_evict <=> lt.dest = "G" /\ Len(larc_g) + 1 > lt.g_size
             /\ o \in Blocks(pool) \/ g_size # 0 =>
                  lt.g_size \in min_g_size .. max_g_size
<1> DEFINE lt == larc_transaction_set(o)
           c_hit == o \in Blocks(pool)
           g_hit == o \in ToSet(larc_g)
<1>1. g_hit => ~c_hit
  BY DEF LarcInv, GhostsSound, Ghosts
<1>2. /\ lt.c_hit = (o \in Cached)
      /\ lt.g_hit = (~(o \in Cached) /\ o \in Ghosts)
      /\ lt.dest = IF \/ o \in Cached
                      \/ ~(o \in Cached) /\ o \in Ghosts
                      \/ ~cache_is_full(pool) THEN "Q" ELSE "G"
      /\ lt.c_evict = ((~(o \in Cached) /\ o \in Ghosts) /\ cache_is_full(pool))
      /\ lt.g_size = IF o \in Cached THEN larc_decrease_g_size ELSE larc_increase_g_size
  BY DEF larc_transaction_set
<1>3. lt.g_evict = (lt.dest = "G" /\ Len(larc_g) + 1 > lt.g_size)
  BY DEF larc_transaction_set
<1> HIDE DEF lt
<1>4. /\ (o \in Cached) \in BOOLEAN
      /\ (~(o \in Cached) /\ o \in Ghosts) \in BOOLEAN
      /\ ((~(o \in Cached) /\ o \in Ghosts) /\ cache_is_full(pool)) \in BOOLEAN
      /\ (lt.dest = "G" /\ Len(larc_g) + 1 > lt.g_size) \in BOOLEAN
  OBVIOUS
<1>5. /\ lt.c_hit \in BOOLEAN /\ lt.g_hit \in BOOLEAN
      /\ lt.c_evict \in BOOLEAN /\ lt.g_evict \in BOOLEAN
  BY <1>2, <1>3, <1>4, Zenon
<1>6. /\ (o \in Cached <=> c_hit)
      /\ (~(o \in Cached) /\ o \in Ghosts <=> g_hit)
  BY <1>1, LarcBlocks DEF Ghosts
<1>7. (lt.c_hit <=> c_hit) /\ (lt.g_hit <=> g_hit)
  BY <1>2, <1>6, Zenon
<1>8. lt.c_evict <=> g_hit /\ cache_is_full(pool)
  BY <1>2, <1>6, Zenon
<1>9. lt.g_evict <=> lt.dest = "G" /\ Len(larc_g) + 1 > lt.g_size
  BY <1>3, Zenon
<1>10. /\ lt.dest \in {"Q", "G"}
       /\ lt.dest = "G" <=> ~c_hit /\ ~g_hit /\ cache_is_full(pool)
  BY <1>2, <1>6
<1>11. c_hit \/ g_size # 0 => lt.g_size \in min_g_size .. max_g_size
  BY <1>2, <1>6, GhostAdapts DEF LarcInv, GhostsSound
<1> QED
  BY <1>5, <1>7, <1>8, <1>9, <1>10, <1>11 DEF lt

\* The bounds are constants.
LEMMA BoundsFixed == min_g_size' = min_g_size /\ max_g_size' = max_g_size
  BY DEF min_g_size, max_g_size

\* Preloading a block, before there are ghosts.
LEMMA LarcLoadStep ==
  ASSUME LarcInv, NEW o \in Oblocks, NEW c \in Cblocks, LarcLoad(o, c)
  PROVE  /\ LarcInv'
         /\ ~cache_is_full(pool)
         /\ Blocks(pool') = Blocks(pool) \cup {o}
         /\ MovingBlocks(pool') = MovingBlocks(pool)
         /\ result' = NoResult
<1>1. /\ pool' = alloc_pool_entry(pool, c, o)
      /\ larc_q' = queue_push(larc_q, c)
      /\ result' = NoResult
      /\ UNCHANGED <<larc_g, g_size, stats, crashed, loading>>
      /\ c \notin pool.allocated
      /\ loading
  BY DEF LarcLoad, larc_insert_api
<1>2. PoolSound(pool) /\ QueueSound(larc_q, pool) /\ GhostsSound
  BY DEF LarcInv
<1>3. NotHashed(pool, o)
  BY LarcBlocks, NotInBlocks DEF LarcLoad
<1>4. /\ PoolSound(pool')
      /\ pool'.allocated = pool.allocated \cup {c}
      /\ pool'.migrating = pool.migrating
  BY <1>1, <1>2, <1>3, AllocSound
<1>5. /\ Blocks(pool') = Blocks(pool) \cup {o}
      /\ MovingBlocks(pool') = MovingBlocks(pool)
  BY <1>1, <1>2, <1>3, AllocBlocks
<1>6. ~cache_is_full(pool)
  BY <1>1, <1>2, AllocEntryFacts
<1>7. QueueSound(larc_q', pool')
  <2>1. pool.migrating \subseteq pool.allocated /\ c \notin ToSet(larc_q)
    BY <1>1, <1>2 DEF PoolSound, QueueSound
  <2> QED
    BY <1>1, <1>2, <1>4, <2>1, QueuePush DEF QueueSound
<1>8. GhostsSound'
  <2>1. ToSet(larc_g) = {}
    BY <1>1, <1>2 DEF GhostsSound, ToSet
  <2> QED
    BY <1>1, <1>2, <2>1, BoundsFixed DEF GhostsSound, Ghosts
<1> QED
  BY <1>1, <1>4, <1>5, <1>6, <1>7, <1>8 DEF LarcInv

\* A hit moves the entry in the queue, and takes from the ghosts' share.
LEMMA LarcHitStep ==
  ASSUME LarcInv, NEW o \in Oblocks, NEW write \in BOOLEAN, o \in Blocks(pool),
         larc_commit_hit(larc_transaction_set(o), o, write), loading' = FALSE
  PROVE  /\ LarcInv'
         /\ Blocks(pool') = Blocks(pool)
         /\ MovingBlocks(pool') = MovingBlocks(pool)
         /\ result'.op = "HIT" /\ result'.oblock = o /\ result'.old_oblock = Null
<1> DEFINE lt == larc_transaction_set(o)
           e == Lookup(o)
<1>1. PoolSound(pool) /\ QueueSound(larc_q, pool) /\ GhostsSound
  BY DEF LarcInv
<1>2. e \in Cblocks /\ e \in pool.allocated
  BY <1>1, CachedEntry DEF Lookup
<1>3. lt.g_size \in min_g_size .. max_g_size
  BY LarcTransactionFacts
<1>4. /\ g_size' = lt.g_size
      /\ pool' = mark_dirty(pool, e, write)
      /\ larc_q' = IF e \in pool.migrating THEN larc_q
                   ELSE queue_push(queue_remove(larc_q, e), e)
      /\ stats' = inc(stats, {"hits", "ios"})
      /\ result' = [OpOnly("HIT", o) EXCEPT !.cblock = e]
      /\ larc_g' = larc_g
      /\ crashed' = crashed
  BY DEF larc_commit_hit
<1> HIDE DEF e, lt
<1>5. PoolSound(pool')
  BY <1>1, <1>2, <1>4, DirtySound
<1>6. Blocks(pool') = Blocks(pool) /\ MovingBlocks(pool') = MovingBlocks(pool)
  BY <1>1, <1>2, <1>4, DirtyBlocks
<1>7. QueueSound(larc_q', pool')
  BY <1>1, <1>2, <1>4, HitQueueSound
<1>8. stats' \in Stats
  BY <1>4, IncType DEF LarcInv
<1>9. /\ result' \in Results
      /\ result'.op = "HIT" /\ result'.oblock = o /\ result'.old_oblock = Null
  BY <1>2, <1>4 DEF OpOnly, Results, Operations
<1>10. GhostsSound'
  BY <1>1, <1>3, <1>4, <1>6, BoundsFixed DEF GhostsSound, Ghosts
<1> QED
  BY <1>4, <1>5, <1>6, <1>7, <1>8, <1>9, <1>10 DEF LarcInv

\* A miss that is admitted: a ghost, or any block while there is room.  It always
\* gets an entry, and is no longer a ghost.
LEMMA LarcAdmitStep ==
  ASSUME LarcInv, NEW o \in Oblocks, NEW write \in BOOLEAN, NEW lt,
         lt = larc_transaction_set(o),
         o \notin Blocks(pool), g_size # 0, lt.dest = "Q",
         larc_transaction_is_legal(lt),
         larc_commit_admit(lt, o, write), loading' = FALSE
  PROVE  /\ LarcInv'
         /\ crashed' = crashed
         /\ MovingBlocks(pool') = MovingBlocks(pool) \cup {o}
         /\ result'.oblock = o
         /\ ToSet(larc_g') = ToSet(larc_g) \ {o}
         /\ lt.c_evict =>
              /\ cache_is_full(pool) /\ o \in ToSet(larc_g)
              /\ larc_q # <<>>
              /\ Blocks(pool') = (Blocks(pool) \ {pool.oblock[Head(larc_q)]}) \cup {o}
              /\ result'.op = "REPLACE"
              /\ result'.old_oblock = pool.oblock[Head(larc_q)]
         /\ ~lt.c_evict =>
              /\ ~cache_is_full(pool)
              /\ Blocks(pool') = Blocks(pool) \cup {o}
              /\ result'.op = "NEW" /\ result'.old_oblock = Null
<1> DEFINE v == Head(larc_q)
           evicted == IF lt.c_evict THEN cache_nucleus_remove(pool, v) ELSE pool
           e == alloc_entry(evicted)
<1>1. PoolSound(pool) /\ QueueSound(larc_q, pool) /\ GhostsSound
  BY DEF LarcInv
<1>2. /\ lt.c_evict \in BOOLEAN /\ lt.g_hit \in BOOLEAN
      /\ lt.c_evict <=> o \in ToSet(larc_g) /\ cache_is_full(pool)
      /\ lt.g_hit <=> o \in ToSet(larc_g)
      /\ lt.dest = "Q" => o \in ToSet(larc_g) \/ ~cache_is_full(pool)
      /\ lt.g_size \in min_g_size .. max_g_size
  BY LarcTransactionFacts
<1>3. /\ lt.c_evict => larc_q # <<>> /\ evicted = cache_nucleus_remove(pool, v)
      /\ ~lt.c_evict => ~cache_is_full(pool) /\ evicted = pool
  <2>1. lt.c_evict => Len(larc_q) > 0
    BY DEF larc_transaction_is_legal
  <2>2. Len(<<>>) = 0
    OBVIOUS
  <2> QED
    BY <1>2, <2>1, <2>2
<1>4. /\ e \in Cblocks /\ e # Null
      /\ PoolSound(AdmitEntry(evicted, e, o, write))
      /\ MovingBlocks(AdmitEntry(evicted, e, o, write)) = MovingBlocks(pool) \cup {o}
      /\ lt.c_evict =>
           /\ QueueSound(Tail(larc_q), AdmitEntry(evicted, e, o, write))
           /\ Blocks(AdmitEntry(evicted, e, o, write)) =
                (Blocks(pool) \ {pool.oblock[v]}) \cup {o}
      /\ ~lt.c_evict =>
           /\ QueueSound(larc_q, AdmitEntry(evicted, e, o, write))
           /\ Blocks(AdmitEntry(evicted, e, o, write)) = Blocks(pool) \cup {o}
  <2> DEFINE after == AdmitEntry(evicted, e, o, write)
  <2> HIDE DEF evicted
  <2>1. \/ larc_q # <<>> /\ evicted = cache_nucleus_remove(pool, Head(larc_q))
        \/ ~cache_is_full(pool) /\ evicted = pool
    BY <1>2, <1>3
  <2>2. /\ e \in Cblocks /\ e # Null
        /\ PoolSound(after)
        /\ MovingBlocks(after) = MovingBlocks(pool) \cup {o}
        /\ larc_q # <<>> /\ evicted = cache_nucleus_remove(pool, Head(larc_q)) =>
             /\ QueueSound(Tail(larc_q), after)
             /\ Blocks(after) = (Blocks(pool) \ {pool.oblock[Head(larc_q)]}) \cup {o}
        /\ evicted = pool =>
             /\ QueueSound(larc_q, after)
             /\ Blocks(after) = Blocks(pool) \cup {o}
    BY <1>1, <2>1, AdmitQueueSound
  <2> HIDE DEF e, after
  <2> QED
    BY <1>3, <2>2, Zenon DEF v, after
<1>5. /\ g_size' = lt.g_size
      /\ pool' = AdmitEntry(evicted, e, o, write)
      /\ larc_q' = IF lt.c_evict THEN Tail(larc_q) ELSE larc_q
      /\ larc_g' = larc_leave_ghosts(lt, o)
      /\ stats' = inc(stats, {"misses", "ios"}
                               \cup IF lt.c_evict THEN {"demotions"} ELSE {})
      /\ result' =
           [ op             |-> IF lt.c_evict THEN "REPLACE" ELSE "NEW",
             oblock         |-> o,
             cblock         |-> e,
             old_oblock     |-> IF lt.c_evict THEN pool.oblock[v] ELSE Null,
             dirty_eviction |-> lt.c_evict /\ v \in pool.dirty ]
      /\ crashed' = crashed
  BY <1>4 DEF larc_commit_admit, AdmitEntry
<1> HIDE DEF v, evicted, e
<1>6. stats' \in Stats
  BY <1>5, IncType DEF LarcInv
<1>7. result' \in Results
  <2>1. (IF lt.c_evict THEN pool.oblock[v] ELSE Null) \in Oblocks \cup {Null}
    <3>1. lt.c_evict => pool.oblock[v] \in Blocks(pool)
      BY <1>1, <1>3, VictimSound DEF v
    <3> QED
      BY <1>1, <3>1, BlocksType
  <2>2. (lt.c_evict /\ v \in pool.dirty) \in BOOLEAN
    OBVIOUS
  <2> QED
    BY <1>4, <1>5, <2>1, <2>2 DEF Results, Operations
<1>8. PoolSound(pool') /\ QueueSound(larc_q', pool')
  BY <1>2, <1>4, <1>5
<1>9. /\ larc_g' \in Seq(Oblocks) /\ IsInjective(larc_g')
      /\ ToSet(larc_g') = ToSet(larc_g) \ {o}
      /\ Len(larc_g') <= max_g_size
  <2>1. /\ larc_g \in Seq(Oblocks) /\ IsInjective(larc_g)
        /\ Len(larc_g) \in Nat /\ Len(larc_g) <= max_g_size /\ max_g_size \in Nat
    BY <1>1, GhostBounds, LenProperties DEF GhostsSound
  <2> DEFINE r == queue_remove(larc_g, o)
  <2>2. /\ r \in Seq(Oblocks) /\ IsInjective(r) /\ ToSet(r) = ToSet(larc_g) \ {o}
        /\ Len(r) = IF o \in ToSet(larc_g) THEN Len(larc_g) - 1 ELSE Len(larc_g)
    BY <2>1, QueueRemove
  <2>3. larc_g' = IF lt.g_hit THEN r ELSE larc_g
    BY <1>5 DEF larc_leave_ghosts
  <2> HIDE DEF r
  <2> QED
    BY <1>2, <2>1, <2>2, <2>3
<1>10. GhostsSound'
  <2>1. Blocks(pool') \subseteq Blocks(pool) \cup {o}
    BY <1>2, <1>4, <1>5
  <2> QED
    BY <1>1, <1>2, <1>5, <1>9, <2>1, BoundsFixed DEF GhostsSound, Ghosts
<1>11. LarcInv'
  BY <1>5, <1>6, <1>7, <1>8, <1>10 DEF LarcInv
<1>12. CASE lt.c_evict
  <2>1. result'.op = "REPLACE" /\ result'.oblock = o /\ result'.old_oblock = pool.oblock[v]
    BY <1>5, <1>12
  <2> QED
    BY <1>2, <1>3, <1>4, <1>5, <1>9, <1>11, <1>12, <2>1 DEF v
<1>13. CASE ~lt.c_evict
  <2>1. result'.op = "NEW" /\ result'.oblock = o /\ result'.old_oblock = Null
    BY <1>5, <1>13
  <2> QED
    BY <1>2, <1>3, <1>4, <1>5, <1>9, <1>11, <1>13, <2>1
<1> QED
  BY <1>2, <1>12, <1>13

\* A miss that is filtered: the block becomes a ghost, which the meta pool always
\* has room for.
LEMMA LarcFilterStep ==
  ASSUME LarcInv, NEW o \in Oblocks, NEW lt, lt = larc_transaction_set(o),
         g_size # 0, lt.dest = "G",
         larc_commit_filter(lt, o), loading' = FALSE
  PROVE  /\ LarcInv'
         /\ crashed' = crashed
         /\ pool' = pool
         /\ result'.op = "FILTER" /\ result'.oblock = o /\ result'.old_oblock = Null
<1>1. PoolSound(pool) /\ QueueSound(larc_q, pool) /\ GhostsSound
  BY DEF LarcInv
<1>2. /\ o \notin Blocks(pool) /\ o \notin ToSet(larc_g)
      /\ lt.g_size \in min_g_size .. max_g_size
      /\ lt.g_evict \in BOOLEAN
      /\ lt.g_evict <=> Len(larc_g) + 1 > lt.g_size
  BY LarcTransactionFacts
<1>3. /\ larc_g \in Seq(Oblocks) /\ IsInjective(larc_g)
      /\ Len(larc_g) \in Nat /\ Len(larc_g) <= max_g_size
      /\ max_g_size \in Nat /\ min_g_size \in Nat /\ max_g_size < MetaSize
      /\ MetaSize \in Nat
  BY <1>1, GhostBounds, LenProperties, LarcAssumption DEF GhostsSound
<1>4. /\ g_size' = lt.g_size
      /\ larc_g' = IF lt.g_evict THEN Tail(queue_push(larc_g, o))
                   ELSE queue_push(larc_g, o)
      /\ stats' = inc(stats, {"filters", "ios"})
      /\ result' = OpOnly("FILTER", o)
      /\ UNCHANGED <<pool, larc_q, crashed>>
  <2>1. ~(Len(larc_g) >= MetaSize)
    BY <1>3
  <2> QED
    BY <2>1 DEF larc_commit_filter
<1> DEFINE r == queue_push(larc_g, o)
<1>5. /\ r \in Seq(Oblocks) /\ IsInjective(r)
      /\ ToSet(r) = ToSet(larc_g) \cup {o}
      /\ Len(r) = Len(larc_g) + 1
  BY <1>2, <1>3, QueuePush
<1> HIDE DEF r
<1>6. r # <<>>
  BY <1>3, <1>5
<1>7. /\ Tail(r) \in Seq(Oblocks) /\ IsInjective(Tail(r)) /\ ToSet(Tail(r)) \subseteq ToSet(r)
      /\ Len(Tail(r)) = Len(larc_g)
  BY <1>3, <1>5, <1>6, QueuePop, HeadTailProperties
<1>8. larc_g' = IF lt.g_evict THEN Tail(r) ELSE r
  BY <1>4 DEF r
<1>9. /\ larc_g' \in Seq(Oblocks) /\ IsInjective(larc_g')
      /\ ToSet(larc_g') \subseteq ToSet(larc_g) \cup {o}
      /\ Len(larc_g') <= max_g_size
  <2>1. CASE lt.g_evict
    BY <1>3, <1>5, <1>7, <1>8, <2>1
  <2>2. CASE ~lt.g_evict
    <3>1. Len(r) <= max_g_size
      BY <1>2, <1>3, <1>5, <2>2
    <3> QED
      BY <1>5, <1>8, <2>2, <3>1
  <2> QED
    BY <1>2, <2>1, <2>2
<1>10. GhostsSound'
  BY <1>1, <1>2, <1>4, <1>9, BoundsFixed DEF GhostsSound, Ghosts
<1>11. stats' \in Stats
  BY <1>4, IncType DEF LarcInv
<1>12. /\ result' \in Results
       /\ result'.op = "FILTER" /\ result'.oblock = o /\ result'.old_oblock = Null
  BY <1>4, OpOnlyType DEF Operations
<1> QED
  BY <1>1, <1>4, <1>10, <1>11, <1>12 DEF LarcInv

\* A request that fails is for a ghost, and every cache block is in flight.
LEMMA LarcFailStep ==
  ASSUME LarcInv, NEW o \in Oblocks, ~larc_transaction_is_legal(larc_transaction_set(o))
  PROVE  /\ o \notin Blocks(pool)
         /\ cache_is_full(pool)
         /\ Blocks(pool) = MovingBlocks(pool)
<1>1. PoolSound(pool) /\ QueueSound(larc_q, pool) /\ GhostsSound
  BY DEF LarcInv
<1>2. /\ o \in ToSet(larc_g) /\ cache_is_full(pool)
      /\ ~(Len(larc_q) > 0)
  BY LarcTransactionFacts DEF larc_transaction_is_legal
<1>3. larc_q = <<>>
  BY <1>1, <1>2, EmptySeq, LenProperties DEF QueueSound
<1>4. ToSet(larc_q) = {}
  BY <1>3 DEF ToSet
<1>5. Blocks(pool) = MovingBlocks(pool)
  BY <1>1, <1>4 DEF QueueSound, PoolSound, Blocks, MovingBlocks
<1> QED
  BY <1>1, <1>2, <1>5 DEF GhostsSound, Ghosts

\* A request stops the program, is a hit, is admitted, is filtered, or fails.
LEMMA LarcMapCases ==
  ASSUME LarcInv, NEW o \in Oblocks, NEW write \in BOOLEAN, larc_map_api(o, write),
         NEW lt, lt = larc_transaction_set(o)
  PROVE  \/ o \notin Blocks(pool) /\ g_size = 0 /\ LogFatal
         \/ /\ o \in Blocks(pool)
            /\ larc_commit_hit(lt, o, write)
         \/ /\ o \notin Blocks(pool) /\ g_size # 0 /\ lt.dest = "Q"
            /\ larc_transaction_is_legal(lt)
            /\ larc_commit_admit(lt, o, write)
         \/ /\ o \notin Blocks(pool) /\ g_size # 0 /\ lt.dest = "G"
            /\ larc_commit_filter(lt, o)
         \/ /\ ~larc_transaction_is_legal(lt)
            /\ result' = OpOnly("FAIL", o)
            /\ UNCHANGED <<pool, larc_q, larc_g, g_size, stats, crashed>>
<1>1. /\ lt.c_hit <=> o \in Blocks(pool)
      /\ lt.dest = "G" => o \notin Blocks(pool)
  BY LarcTransactionFacts
<1> QED
  BY <1>1, LarcBlocks DEF larc_map_api

\* A request preserves the invariant; it stops the program only if the meta pool
\* is too small.
LEMMA LarcMapInv ==
  ASSUME LarcInv, NEW o \in Oblocks, NEW write \in BOOLEAN, larc_map_api(o, write),
         loading' = FALSE
  PROVE  LarcInv'
<1> DEFINE lt == larc_transaction_set(o)
<1>1. CASE o \notin Blocks(pool) /\ g_size = 0 /\ LogFatal
  <2>1. MetaSize < GhostDivisor
    <3>1. min_g_size \in Nat /\ max_g_size \in Nat /\ g_size \in min_g_size .. max_g_size
      BY GhostBounds DEF LarcInv, GhostsSound
    <3>2. min_g_size = 0
      BY <1>1, <3>1
    <3> QED
      BY <3>2, GhostBounds
  <2>2. crashed' = TRUE /\ UNCHANGED <<pool, larc_q, larc_g, g_size, stats, result>>
    BY <1>1 DEF LogFatal
  <2> QED
    BY <2>1, <2>2, BoundsFixed DEF LarcInv, GhostsSound, Ghosts
<1>2. CASE o \in Blocks(pool) /\ larc_commit_hit(lt, o, write)
  BY <1>2, LarcHitStep
<1>3. CASE /\ o \notin Blocks(pool) /\ g_size # 0 /\ lt.dest = "Q"
           /\ larc_transaction_is_legal(lt)
           /\ larc_commit_admit(lt, o, write)
  BY <1>3, LarcAdmitStep
<1>4. CASE /\ o \notin Blocks(pool) /\ g_size # 0 /\ lt.dest = "G"
           /\ larc_commit_filter(lt, o)
  BY <1>4, LarcFilterStep
<1>5. CASE /\ result' = OpOnly("FAIL", o)
           /\ UNCHANGED <<pool, larc_q, larc_g, g_size, stats, crashed>>
  <2>1. result' \in Results
    BY <1>5, OpOnlyType DEF Operations
  <2> QED
    BY <1>5, <2>1, BoundsFixed DEF LarcInv, GhostsSound, Ghosts
<1> QED
  BY <1>1, <1>2, <1>3, <1>4, <1>5, LarcMapCases

\* Removing a block, cached or ghost.
LEMMA LarcRemoveStep ==
  ASSUME LarcInv, NEW o \in Oblocks, LarcRemove(o)
  PROVE  /\ LarcInv'
         /\ Blocks(pool') = Blocks(pool) \ {o}
         /\ MovingBlocks(pool') = MovingBlocks(pool) \ {o}
         /\ result' = NoResult
<1> DEFINE e == Lookup(o)
<1>1. PoolSound(pool) /\ QueueSound(larc_q, pool) /\ GhostsSound
  BY DEF LarcInv
<1>2. result' = NoResult /\ loading' = FALSE /\ UNCHANGED <<g_size, crashed>>
  BY DEF LarcRemove, larc_remove_api
<1>3. CASE o \in Blocks(pool)
  <2>1. /\ pool' = cache_nucleus_remove(pool, e)
        /\ larc_q' = IF e \in pool.migrating THEN larc_q ELSE queue_remove(larc_q, e)
        /\ stats' = IF e \in pool.migrating THEN stats ELSE inc(stats, {"demotions"})
        /\ larc_g' = larc_g
    BY <1>3, LarcBlocks DEF LarcRemove, larc_remove_api
  <2>2. e \in Cblocks /\ e \in pool.allocated /\ pool.oblock[e] = o
    BY <1>1, <1>3, CachedEntry DEF Lookup
  <2> HIDE DEF e
  <2>3. /\ PoolSound(pool')
        /\ Blocks(pool') = Blocks(pool) \ {o}
        /\ MovingBlocks(pool') = MovingBlocks(pool) \ {o}
    BY <1>1, <2>1, <2>2, RemoveSound, RemoveBlocks
  <2>4. QueueSound(larc_q', pool')
    BY <1>1, <2>1, <2>2, RemoveQueueSound
  <2>5. stats' \in Stats
    BY <2>1, IncType DEF LarcInv
  <2>6. GhostsSound'
    BY <1>1, <1>2, <2>1, <2>3, BoundsFixed DEF GhostsSound, Ghosts
  <2> QED
    BY <1>2, <2>3, <2>4, <2>5, <2>6 DEF LarcInv
<1>4. CASE o \notin Blocks(pool)
  <2> DEFINE r == queue_remove(larc_g, o)
  <2>1. larc_g' = r /\ UNCHANGED <<pool, larc_q, stats>>
    BY <1>4, LarcBlocks DEF LarcRemove, larc_remove_api
  <2>2. /\ larc_g \in Seq(Oblocks) /\ IsInjective(larc_g)
        /\ Len(larc_g) \in Nat /\ Len(larc_g) <= max_g_size /\ max_g_size \in Nat
    BY <1>1, GhostBounds, LenProperties DEF GhostsSound
  <2>3. /\ r \in Seq(Oblocks) /\ IsInjective(r) /\ ToSet(r) = ToSet(larc_g) \ {o}
        /\ Len(r) <= max_g_size
    <3>1. Len(r) = IF o \in ToSet(larc_g) THEN Len(larc_g) - 1 ELSE Len(larc_g)
      BY <2>2, QueueRemove
    <3>2. r \in Seq(Oblocks) /\ IsInjective(r) /\ ToSet(r) = ToSet(larc_g) \ {o}
      BY <2>2, QueueRemove
    <3> HIDE DEF r
    <3> QED
      BY <2>2, <3>1, <3>2
  <2> HIDE DEF r
  <2>4. GhostsSound'
    BY <1>1, <1>2, <2>1, <2>3, BoundsFixed DEF GhostsSound, Ghosts
  <2>5. o \notin MovingBlocks(pool)
    BY <1>1, <1>4, BlocksType
  <2> QED
    BY <1>1, <1>2, <1>4, <2>1, <2>4, <2>5 DEF LarcInv
<1> QED
  BY <1>3, <1>4

\* The end of a migration.
LEMMA LarcMigratedStep ==
  ASSUME LarcInv, NEW o \in Oblocks, LarcMigrated(o)
  PROVE  /\ LarcInv'
         /\ Blocks(pool') = Blocks(pool)
         /\ MovingBlocks(pool') = MovingBlocks(pool) \ {o}
         /\ result' = NoResult
<1> DEFINE e == Lookup(o)
<1>1. PoolSound(pool) /\ QueueSound(larc_q, pool) /\ GhostsSound
  BY DEF LarcInv
<1>2. /\ e \in Cblocks /\ e \in pool.allocated /\ e \in pool.migrating
      /\ pool.oblock[e] = o /\ pool.nr_allocated > 0
  BY <1>1, LarcBlocks, BlocksType, CachedEntry DEF LarcMigrated, Lookup
<1>3. /\ pool' = migrated_entry(pool, e)
      /\ larc_q' = queue_push(larc_q, e)
      /\ stats' = inc(stats, {"promotions"})
      /\ result' = NoResult
      /\ loading' = FALSE
      /\ UNCHANGED <<larc_g, g_size, crashed>>
  BY <1>2 DEF LarcMigrated, larc_migrated_api, larc_migrated, migrated_entry_asserts
<1> HIDE DEF e
<1>4. /\ PoolSound(pool')
      /\ pool'.allocated = pool.allocated
      /\ pool'.migrating = pool.migrating \ {e}
  BY <1>1, <1>2, <1>3, MigratedSound
<1>5. /\ Blocks(pool') = Blocks(pool)
      /\ MovingBlocks(pool') = MovingBlocks(pool) \ {o}
  BY <1>1, <1>2, <1>3, MigratedBlocks
<1>6. e \notin ToSet(larc_q)
  BY <1>1, <1>2 DEF QueueSound
<1>7. /\ larc_q' \in Seq(Cblocks)
      /\ IsInjective(larc_q')
      /\ ToSet(larc_q') = ToSet(larc_q) \cup {e}
  BY <1>1, <1>2, <1>3, <1>6, QueuePush DEF QueueSound
<1>8. QueueSound(larc_q', pool')
  BY <1>1, <1>2, <1>4, <1>7 DEF QueueSound
<1>9. stats' \in Stats
  BY <1>3, IncType DEF LarcInv
<1>10. GhostsSound'
  BY <1>1, <1>3, <1>5, BoundsFixed DEF GhostsSound, Ghosts
<1> QED
  BY <1>3, <1>4, <1>5, <1>8, <1>9, <1>10 DEF LarcInv

\* Renaming a cached block to one that is neither cached nor a ghost.
LEMMA LarcRemapStep ==
  ASSUME LarcInv, NEW o \in Oblocks, NEW n \in Oblocks, LarcRemap(o, n)
  PROVE  /\ LarcInv'
         /\ Blocks(pool') = (Blocks(pool) \ {o}) \cup {n}
         /\ MovingBlocks(pool') =
              IF o \in MovingBlocks(pool) THEN (MovingBlocks(pool) \ {o}) \cup {n}
                                          ELSE MovingBlocks(pool)
         /\ result' = NoResult
<1>1. PoolSound(pool) /\ QueueSound(larc_q, pool) /\ GhostsSound
  BY DEF LarcInv
<1>2. hash_lookup(pool, o) # Null
  BY <1>1, LarcBlocks, CachedEntry DEF LarcRemap
<1>3. NotHashed(pool, n) /\ n \notin ToSet(larc_g)
  BY LarcBlocks, NotInBlocks DEF LarcRemap, Ghosts
<1>4. /\ pool' = default_remap(pool, o, n)
      /\ result' = NoResult
      /\ loading' = FALSE
      /\ UNCHANGED <<larc_q, larc_g, g_size, stats, crashed>>
  BY DEF LarcRemap, larc_remap
<1>5. /\ PoolSound(pool')
      /\ pool'.allocated = pool.allocated
      /\ pool'.migrating = pool.migrating
  <2>1. PoolSound(pool) /\ pool' = default_remap(pool, o, n)
    BY <1>1, <1>4
  <2> QED
    BY <1>2, <1>3, <2>1, RemapSound
<1>6. /\ Blocks(pool') = (Blocks(pool) \ {o}) \cup {n}
      /\ MovingBlocks(pool') =
           IF o \in MovingBlocks(pool) THEN (MovingBlocks(pool) \ {o}) \cup {n}
                                       ELSE MovingBlocks(pool)
  BY <1>1, <1>2, <1>3, <1>4, RemapBlocks
<1>7. QueueSound(larc_q', pool')
  BY <1>1, <1>4, <1>5 DEF QueueSound
<1>8. GhostsSound'
  BY <1>1, <1>3, <1>4, <1>6, BoundsFixed DEF GhostsSound, Ghosts
<1> QED
  BY <1>4, <1>5, <1>6, <1>7, <1>8 DEF LarcInv

\* LarcInv is inductive.
LEMMA LarcNextInv == LarcInv /\ [LarcNext]_<<larcVars, loading>> => LarcInv'
<1> SUFFICES ASSUME LarcInv, [LarcNext]_<<larcVars, loading>>
             PROVE  LarcInv'
  OBVIOUS
<1>1. ASSUME NEW o \in Oblocks, NEW c \in Cblocks, LarcLoad(o, c)
      PROVE  LarcInv'
  BY <1>1, LarcLoadStep
<1>2. ASSUME NEW o \in Oblocks, NEW write \in Writes, LarcMap(o, write)
      PROVE  LarcInv'
  BY <1>2, LarcMapInv, LarcAssumption DEF LarcMap
<1>3. ASSUME NEW o \in Oblocks, LarcRemove(o)
      PROVE  LarcInv'
  BY <1>3, LarcRemoveStep
<1>4. ASSUME NEW o \in Oblocks, LarcMigrated(o)
      PROVE  LarcInv'
  BY <1>4, LarcMigratedStep
<1>5. ASSUME NEW o \in Oblocks, NEW n \in Oblocks, LarcRemap(o, n)
      PROVE  LarcInv'
  BY <1>5, LarcRemapStep
<1>6. CASE UNCHANGED <<larcVars, loading>>
  BY <1>6, BoundsFixed DEF larcVars, LarcInv, GhostsSound, Ghosts
<1> QED
  BY <1>1, <1>2, <1>3, <1>4, <1>5, <1>6 DEF LarcNext

\* The two pools and the two queues are sound in every reachable state.
LEMMA LarcAlways == LarcSpec => []LarcInv
  BY LarcInitInv, LarcNextInv, PTL DEF LarcSpec

\* No block is cached and a ghost at once, g_size stays within its bounds, and the
\* meta pool never runs out: no assertion fails unless the pool is too small.
THEOREM LarcSafety == LarcSpec => []LarcSound
<1>1. LarcInv => LarcSound
  <2> SUFFICES ASSUME LarcInv PROVE LarcSound
    OBVIOUS
  <2>1. LarcTypeOK
    <3>1. g_size \in Nat
      BY GhostBounds DEF LarcInv, GhostsSound
    <3> QED
      BY <3>1 DEF LarcInv, LarcTypeOK, PoolSound, QueueSound, GhostsSound
  <2>2. LarcEntriesExact
    BY LarcBlocks DEF LarcInv, LarcEntriesExact, PoolSound, QueueSound, GhostsSound
  <2>3. LarcGhostsFit
    BY LarcAssumption DEF LarcInv, LarcGhostsFit, GhostsSound
  <2> QED
    BY <2>1, <2>2, <2>3 DEF LarcSound
<1> QED
  BY <1>1, LarcAlways, PTL

-----------------------------------------------------------------------------
(***************************************************************************)
(* LARC does what CachePolicy says of every admission policy.              *)
(***************************************************************************)

\* The answer that a result stands for.
LEMMA LarcAnswer ==
  ASSUME NEW r
  PROVE  LET a == IF r.op = "NONE" THEN <<"NONE", Null>> ELSE <<r.op, r.old_oblock>>
         IN  /\ r = NoResult => a = Policy!Void
             /\ \A op \in Operations : r.op = op => a = <<op, r.old_oblock>>
  BY DEF NoResult, Operations, Policy!Void

\* The policy counts with the same Cardinality.
LEMMA PolicyCardinality == \A S : Policy!Cardinality(S) = Cardinality(S)
  BY Zenon DEF Policy!Cardinality, Cardinality

\* An empty cache is an empty policy.
LEMMA LarcInitRefines == LarcInit => Policy!PolicyInit
<1> SUFFICES ASSUME LarcInit PROVE Policy!PolicyInit
  OBVIOUS
<1>1. pool.ht = {} /\ pool.migrating = {} /\ result = NoResult
  BY DEF LarcInit, epool_init
<1>2. Cached = {} /\ Inflight = {}
  BY <1>1 DEF Cached, Inflight
<1> QED
  BY <1>1, <1>2, LarcAnswer DEF Policy!PolicyInit

\* A request is a hit, an admission, a filtered miss or a failure of the policy; if
\* it stops the program no caller sees anything.
LEMMA LarcMapRefines ==
  ASSUME LarcInv, NEW o \in Oblocks, NEW write \in BOOLEAN, larc_map_api(o, write),
         loading' = FALSE
  PROVE  \/ Policy!Hit(o) \/ Policy!New(o) \/ Policy!Filter(o) \/ Policy!Fail(o)
         \/ \E v \in Oblocks : Policy!Replace(o, v)
         \/ UNCHANGED <<pool, result>>
<1> DEFINE lt == larc_transaction_set(o)
<1>1. /\ Cached = Blocks(pool) /\ Inflight = MovingBlocks(pool)
      /\ Cached' = Blocks(pool') /\ Inflight' = MovingBlocks(pool')
  BY LarcBlocks
<1>2. PoolSound(pool) /\ QueueSound(larc_q, pool)
  BY DEF LarcInv
<1>3. CASE LogFatal
  BY <1>3 DEF LogFatal
<1>4. CASE o \in Blocks(pool) /\ larc_commit_hit(lt, o, write)
  <2>1. /\ Blocks(pool') = Blocks(pool) /\ MovingBlocks(pool') = MovingBlocks(pool)
        /\ result'.op = "HIT" /\ result'.old_oblock = Null
    BY <1>4, LarcHitStep
  <2> QED
    BY <1>1, <1>4, <2>1 DEF Policy!Hit
<1>5. CASE /\ o \notin Blocks(pool) /\ g_size # 0 /\ lt.dest = "Q"
           /\ larc_transaction_is_legal(lt)
           /\ larc_commit_admit(lt, o, write)
  <2> HIDE DEF lt
  <2>1. CASE lt.c_evict
    <3> DEFINE v == pool.oblock[Head(larc_q)]
    <3>1. /\ larc_q # <<>> /\ cache_is_full(pool)
          /\ MovingBlocks(pool') = MovingBlocks(pool) \cup {o}
          /\ Blocks(pool') = (Blocks(pool) \ {v}) \cup {o}
          /\ result'.op = "REPLACE" /\ result'.old_oblock = v
      BY <1>5, <2>1, LarcAdmitStep DEF lt
    <3>2. v \in Blocks(pool) \ MovingBlocks(pool)
      BY <1>2, <3>1, VictimSound
    <3>3. v \in Oblocks
      BY <1>2, <3>2, BlocksType
    <3>4. Cardinality(Blocks(pool)) = CacheSize
      BY <1>2, <3>1, BlocksCardinality
    <3> HIDE DEF v
    <3>5. Policy!Replace(o, v)
      BY <1>1, <1>5, <3>1, <3>2, <3>4, PolicyCardinality DEF Policy!Replace
    <3> QED
      BY <3>3, <3>5
  <2>2. CASE ~lt.c_evict
    <3>1. /\ ~cache_is_full(pool)
          /\ MovingBlocks(pool') = MovingBlocks(pool) \cup {o}
          /\ Blocks(pool') = Blocks(pool) \cup {o}
          /\ result'.op = "NEW" /\ result'.old_oblock = Null
      BY <1>5, <2>2, LarcAdmitStep DEF lt
    <3>2. Cardinality(Blocks(pool)) < CacheSize
      BY <1>2, <3>1, BlocksCardinality
    <3>3. Policy!New(o)
      BY <1>1, <1>5, <3>1, <3>2, PolicyCardinality DEF Policy!New
    <3> QED
      BY <3>3
  <2> QED
    BY <2>1, <2>2
<1>6. CASE /\ o \notin Blocks(pool) /\ g_size # 0 /\ lt.dest = "G"
           /\ larc_commit_filter(lt, o)
  <2>1. /\ pool' = pool
        /\ result'.op = "FILTER" /\ result'.old_oblock = Null
    BY <1>6, LarcFilterStep
  <2> QED
    BY <1>1, <1>6, <2>1 DEF Policy!Filter
<1>7. CASE /\ ~larc_transaction_is_legal(lt)
           /\ result' = OpOnly("FAIL", o)
           /\ UNCHANGED <<pool, larc_q, larc_g, g_size, stats, crashed>>
  <2>1. /\ o \notin Blocks(pool) /\ Blocks(pool) = MovingBlocks(pool)
        /\ Cardinality(Blocks(pool)) = CacheSize
    BY <1>2, <1>7, LarcFailStep, BlocksCardinality
  <2>2. result'.op = "FAIL" /\ result'.old_oblock = Null
    BY <1>7, OpOnlyType DEF Operations
  <2>3. Cached' = Cached /\ Inflight' = Inflight
    BY <1>1, <1>7
  <2> QED
    BY <1>1, <2>1, <2>2, <2>3, PolicyCardinality DEF Policy!Fail
<1> QED
  BY <1>3, <1>4, <1>5, <1>6, <1>7, LarcMapCases

\* Every step of LARC is a step of the policy, or one that no caller sees.
LEMMA LarcNextRefines ==
  LarcInv /\ [LarcNext]_<<larcVars, loading>> => [Policy!PolicyNext]_Policy!policyVars
<1> SUFFICES ASSUME LarcInv, [LarcNext]_<<larcVars, loading>>
             PROVE  [Policy!PolicyNext]_Policy!policyVars
  OBVIOUS
<1>1. /\ Cached = Blocks(pool) /\ Inflight = MovingBlocks(pool)
      /\ Cached' = Blocks(pool') /\ Inflight' = MovingBlocks(pool')
  BY LarcBlocks
<1>2. PoolSound(pool)
  BY DEF LarcInv
<1>3. ASSUME UNCHANGED <<pool, result>>
      PROVE  UNCHANGED Policy!policyVars
  BY <1>3 DEF Policy!policyVars, Cached, Inflight
<1>4. ASSUME NEW o \in Oblocks, NEW c \in Cblocks, LarcLoad(o, c)
      PROVE  Policy!PolicyNext
  <2>1. /\ ~cache_is_full(pool)
        /\ Blocks(pool') = Blocks(pool) \cup {o}
        /\ MovingBlocks(pool') = MovingBlocks(pool)
        /\ result' = NoResult
    BY <1>4, LarcLoadStep
  <2>2. Cardinality(Blocks(pool)) < CacheSize
    BY <1>2, <2>1, BlocksCardinality
  <2>3. o \notin Cached
    BY <1>4 DEF LarcLoad
  <2>4. Policy!Preload(o)
    BY <1>1, <2>1, <2>2, <2>3, LarcAnswer, PolicyCardinality DEF Policy!Preload
  <2> QED
    BY <2>4 DEF Policy!PolicyNext
<1>5. ASSUME NEW o \in Oblocks, NEW write \in Writes, LarcMap(o, write)
      PROVE  Policy!PolicyNext \/ UNCHANGED <<pool, result>>
  BY <1>5, LarcMapRefines, LarcAssumption DEF LarcMap, Policy!PolicyNext
<1>6. ASSUME NEW o \in Oblocks, LarcRemove(o)
      PROVE  Policy!PolicyNext
  <2>1. /\ Blocks(pool') = Blocks(pool) \ {o}
        /\ MovingBlocks(pool') = MovingBlocks(pool) \ {o}
        /\ result' = NoResult
    BY <1>6, LarcRemoveStep
  <2>2. CASE o \in Cached
    <3>1. Policy!Drop(o)
      BY <1>1, <2>1, <2>2, LarcAnswer DEF Policy!Drop
    <3> QED
      BY <3>1 DEF Policy!PolicyNext
  <2>3. CASE o \notin Cached
    <3>1. Policy!Forget(o)
      BY <1>1, <1>2, <2>1, <2>3, BlocksType, LarcAnswer DEF Policy!Forget
    <3> QED
      BY <3>1 DEF Policy!PolicyNext
  <2> QED
    BY <2>2, <2>3
<1>7. ASSUME NEW o \in Oblocks, LarcMigrated(o)
      PROVE  Policy!PolicyNext
  <2>1. /\ Blocks(pool') = Blocks(pool)
        /\ MovingBlocks(pool') = MovingBlocks(pool) \ {o}
        /\ result' = NoResult
    BY <1>7, LarcMigratedStep
  <2>2. o \in Inflight
    BY <1>7 DEF LarcMigrated
  <2>3. Policy!Migrated(o)
    BY <1>1, <2>1, <2>2, LarcAnswer DEF Policy!Migrated
  <2> QED
    BY <2>3 DEF Policy!PolicyNext
<1>8. ASSUME NEW o \in Oblocks, NEW n \in Oblocks, LarcRemap(o, n)
      PROVE  Policy!PolicyNext
  <2>1. /\ Blocks(pool') = (Blocks(pool) \ {o}) \cup {n}
        /\ MovingBlocks(pool') =
             IF o \in MovingBlocks(pool) THEN (MovingBlocks(pool) \ {o}) \cup {n}
                                         ELSE MovingBlocks(pool)
        /\ result' = NoResult
    BY <1>8, LarcRemapStep
  <2>2. o \in Cached /\ n \notin Cached
    BY <1>8 DEF LarcRemap
  <2>3. Policy!Rename(o, n)
    BY <1>1, <2>1, <2>2, LarcAnswer DEF Policy!Rename
  <2> QED
    BY <2>3 DEF Policy!PolicyNext
<1>9. CASE UNCHANGED <<larcVars, loading>>
  BY <1>3, <1>9 DEF larcVars
<1> QED
  BY <1>3, <1>4, <1>5, <1>6, <1>7, <1>8, <1>9 DEF LarcNext

\* LARC implements what every admission policy promises.
THEOREM LarcRefinesPolicy == LarcSpec => LarcImplementsPolicy
<1>1. LarcInv /\ [LarcNext]_<<larcVars, loading>> =>
        [Policy!PolicyNext]_Policy!policyVars
  BY LarcNextRefines
<1> QED
  BY <1>1, LarcInitRefines, LarcAlways, PTL
  DEF LarcSpec, LarcImplementsPolicy, Policy!PolicySpec

-----------------------------------------------------------------------------
(***************************************************************************)
(* What a request is announced to do.                                      *)
(***************************************************************************)

\* What LarcAdmitsOnlyGhosts says of one step.
LarcAnswersSoundly ==
  result' # NoResult /\ ~crashed' =>
    LET announced == larc_next_victim_api(result'.oblock)
    IN  /\ \A op \in {"FAIL", "REPLACE"} : result'.op = op <=> announced.op = op
        /\ result'.op = "REPLACE" =>
             /\ result'.oblock \in ToSet(larc_g) \ ToSet(larc_g')
             /\ result'.old_oblock = pool.oblock[announced.victim]

\* It holds of a request.
LEMMA LarcMapAnswer ==
  ASSUME LarcInv, ~crashed, NEW o \in Oblocks, NEW write \in BOOLEAN,
         larc_map_api(o, write), loading' = FALSE
  PROVE  LarcAnswersSoundly
<1> DEFINE lt == larc_transaction_set(o)
           a == larc_next_victim_api(o)
<1>1. /\ lt.c_evict \in BOOLEAN /\ lt.g_hit \in BOOLEAN
      /\ lt.c_evict => lt.g_hit
      /\ lt.c_evict => lt.dest # "G" /\ o \notin Blocks(pool)
  <2>1. o \in ToSet(larc_g) => o \notin Blocks(pool)
    BY DEF LarcInv, GhostsSound, Ghosts
  <2> QED
    BY <2>1, LarcTransactionFacts
<1>2. /\ ~larc_transaction_is_legal(lt) => a = [op |-> "FAIL", victim |-> Null]
      /\ larc_transaction_is_legal(lt) /\ lt.c_evict =>
           a = [op |-> "REPLACE", victim |-> Head(larc_q)]
      /\ larc_transaction_is_legal(lt) /\ ~lt.c_evict /\ lt.g_hit =>
           a = [op |-> "NEW", victim |-> Null]
      /\ larc_transaction_is_legal(lt) /\ ~lt.c_evict /\ ~lt.g_hit =>
           a = [op |-> "FILTER", victim |-> Null]
  BY <1>1 DEF larc_next_victim_api
<1>3. ~lt.c_evict => larc_transaction_is_legal(lt)
  BY DEF larc_transaction_is_legal
<1> HIDE DEF lt, a
<1>4. ~lt.c_evict => a.op \in {"NEW", "FILTER"}
  BY <1>1, <1>2, <1>3
<1>5. CASE LogFatal
  BY <1>5 DEF LogFatal, LarcAnswersSoundly
<1>6. CASE o \in Blocks(pool) /\ larc_commit_hit(lt, o, write)
  <2>1. result'.op = "HIT" /\ result'.oblock = o
    BY <1>6, LarcHitStep DEF lt
  <2> QED
    BY <1>1, <1>4, <1>6, <2>1 DEF LarcAnswersSoundly, a
<1>7. CASE /\ o \notin Blocks(pool) /\ g_size # 0 /\ lt.dest = "Q"
           /\ larc_transaction_is_legal(lt)
           /\ larc_commit_admit(lt, o, write)
  <2>1. /\ result'.oblock = o
        /\ ToSet(larc_g') = ToSet(larc_g) \ {o}
        /\ lt.c_evict =>
             /\ o \in ToSet(larc_g)
             /\ result'.op = "REPLACE"
             /\ result'.old_oblock = pool.oblock[Head(larc_q)]
        /\ ~lt.c_evict => result'.op = "NEW"
    BY <1>7, LarcAdmitStep DEF lt
  <2>2. CASE lt.c_evict
    <3>1. a.op = "REPLACE" /\ a.victim = Head(larc_q)
      BY <1>2, <1>7, <2>2
    <3> QED
      BY <2>1, <2>2, <3>1 DEF LarcAnswersSoundly, a
  <2>3. CASE ~lt.c_evict
    BY <1>4, <2>1, <2>3 DEF LarcAnswersSoundly, a
  <2> QED
    BY <2>2, <2>3
<1>8. CASE /\ o \notin Blocks(pool) /\ g_size # 0 /\ lt.dest = "G"
           /\ larc_commit_filter(lt, o)
  <2>1. result'.op = "FILTER" /\ result'.oblock = o
    BY <1>8, LarcFilterStep DEF lt
  <2> QED
    BY <1>1, <1>4, <1>8, <2>1 DEF LarcAnswersSoundly, a
<1>9. CASE /\ ~larc_transaction_is_legal(lt)
           /\ result' = OpOnly("FAIL", o)
  <2>1. result'.op = "FAIL" /\ result'.oblock = o
    BY <1>9, OpOnlyType DEF Operations
  <2>2. a.op = "FAIL"
    BY <1>2, <1>9
  <2> QED
    BY <2>1, <2>2 DEF LarcAnswersSoundly, a
<1> QED
  BY <1>5, <1>6, <1>7, <1>8, <1>9, LarcMapCases DEF lt

\* The other calls answer nothing.
LEMMA LarcNextAnswer ==
  LarcInv /\ [LarcNext]_<<larcVars, loading>> => [LarcAnswersSoundly]_larcVars
<1> SUFFICES ASSUME LarcInv, LarcNext
             PROVE  LarcAnswersSoundly
  BY DEF larcVars
<1>1. ASSUME NEW o \in Oblocks, NEW write \in Writes, LarcMap(o, write)
      PROVE  LarcAnswersSoundly
  BY <1>1, LarcMapAnswer, LarcAssumption DEF LarcMap
<1>2. ASSUME result' = NoResult
      PROVE  LarcAnswersSoundly
  BY <1>2 DEF LarcAnswersSoundly
<1> QED
  BY <1>1, <1>2, LarcLoadStep, LarcRemoveStep, LarcMigratedStep, LarcRemapStep
  DEF LarcNext

\* A full cache admits only ghosts, and an eviction or a failure is announced.
THEOREM LarcAdmits == LarcSpec => LarcAdmitsOnlyGhosts
<1>1. LarcInv /\ [LarcNext]_<<larcVars, loading>> =>
        [result' # NoResult /\ ~crashed' =>
           LET announced == larc_next_victim_api(result'.oblock)
           IN  /\ \A op \in {"FAIL", "REPLACE"} : result'.op = op <=> announced.op = op
               /\ result'.op = "REPLACE" =>
                    /\ result'.oblock \in ToSet(larc_g) \ ToSet(larc_g')
                    /\ result'.old_oblock = pool.oblock[announced.victim]]_larcVars
  BY LarcNextAnswer DEF LarcAnswersSoundly
<1> QED
  BY <1>1, LarcAlways, PTL DEF LarcSpec, LarcAdmitsOnlyGhosts

-----------------------------------------------------------------------------
(***************************************************************************)
(* Induction over a loop.  The induction theorems of the library take an   *)
(* operator; this one takes the set of the steps for which the claim holds.*)
(***************************************************************************)

\* A set of naturals has a least member: of the intervals from 0 to its members
\* none is smallest by inclusion otherwise.
LEMMA LeastMember ==
  ASSUME NEW T \in SUBSET Nat, T # {}
  PROVE  \E x \in T : \A y \in T : x <= y
<1>1. PICK m \in T : TRUE
  OBVIOUS
<1> DEFINE S == 0 .. m
           R == StrictSubsetOrdering(S)
           G == {0 .. x : x \in T \cap S}
<1>2. IsFiniteSet(S)
  BY FS_Interval
<1>3. IsWellFoundedOn(R, FiniteSubsetsOf(S))
  BY <1>2, FS_StrictSubsetOrderingWellFounded
<1>4. G \subseteq FiniteSubsetsOf(S) /\ G # {}
  <2>1. m \in T \cap S
    BY SMT
  <2>2. ASSUME NEW x \in T \cap S
        PROVE  (0 .. x) \in FiniteSubsetsOf(S)
    <3>1. (0 .. x) \subseteq S
      BY SMT
    <3>2. IsFiniteSet(0 .. x)
      BY <3>1, <1>2, FS_Subset
    <3> QED
      BY <3>1, <3>2 DEF FiniteSubsetsOf
  <2> QED
    BY <2>1, <2>2
<1> HIDE DEF R
<1>5. PICK g \in G : \A h \in G : ~(<<h, g>> \in R)
  BY <1>3, <1>4, WFMin
<1>6. PICK x \in T \cap S : g = 0 .. x
  OBVIOUS
<1>7. ASSUME NEW y \in T, y < x
      PROVE  FALSE
  <2>1. y \in T \cap S /\ x \in Nat /\ y \in Nat
    BY <1>7
  <2>2. (0 .. y) \in G
    BY <2>1
  <2>3. /\ (0 .. y) \subseteq S /\ (0 .. x) \subseteq S
        /\ (0 .. y) \subseteq (0 .. x) /\ x \notin 0 .. y /\ x \in 0 .. x
    BY <2>1, <1>7
  <2>4. <<0 .. y, g>> \in R
    BY <2>3, <1>6 DEF R, StrictSubsetOrdering
  <2> QED
    BY <2>2, <2>4, <1>5
<1> QED
  BY <1>7

LEMMA UpTo ==
  ASSUME NEW n \in Nat, NEW P, 0 \in P, \A k \in 0 .. n - 1 : k \in P => k + 1 \in P
  PROVE  \A k \in 0 .. n : k \in P
<1> SUFFICES ASSUME NEW k \in 0 .. n, k \notin P
             PROVE  FALSE
  OBVIOUS
<1> DEFINE T == {x \in 0 .. n : x \notin P}
<1>1. T \in SUBSET Nat /\ T # {}
  OBVIOUS
<1>2. PICK x \in T : \A y \in T : x <= y
  BY <1>1, LeastMember
<1>3. x - 1 \in 0 .. n - 1 /\ x - 1 \notin T /\ (x - 1) + 1 = x
  BY <1>2
<1> QED
  BY <1>3

-----------------------------------------------------------------------------
(***************************************************************************)
(* The order of a queue.                                                   *)
(***************************************************************************)

LEMMA QueueItems ==
  ASSUME NEW S, NEW q \in Seq(S)
  PROVE  ToSet(q) \subseteq S
BY LenProperties, ElementOfSeq DEF ToSet

\* What is left keeps its order.
LEMMA RemoveKeepsOrder ==
  ASSUME NEW S, NEW q \in Seq(S), IsInjective(q), NEW e, NEW x, NEW y
  PROVE  Precedes(queue_remove(q, e), x, y) <=> x # e /\ y # e /\ Precedes(q, x, y)
<1>1. CASE e \notin ToSet(q)
  BY <1>1 DEF queue_remove, Precedes, ToSet
<1>2. CASE e \in ToSet(q)
  <2> DEFINE i == CHOOSE i \in DOMAIN q : q[i] = e
             r == RemoveAt(q, i)
  <2>1. i \in 1 .. Len(q) /\ q[i] = e
    BY <1>2, LenProperties DEF ToSet
  <2>2. queue_remove(q, e) = r
    BY <1>2 DEF queue_remove
  <2> HIDE DEF i
  <2>3. /\ r \in Seq(S)
        /\ Len(r) = Len(q) - 1
        /\ \A j \in 1 .. Len(q) - 1 : r[j] = IF j < i THEN q[j] ELSE q[j + 1]
    BY <2>1, RemoveAtFacts
  <2>4. Len(q) \in Nat /\ DOMAIN q = 1 .. Len(q) /\ DOMAIN r = 1 .. Len(q) - 1
    BY <2>3, LenProperties
  <2> HIDE DEF r
  <2>5. \A j, k \in DOMAIN q : q[j] = q[k] => j = k
    BY DEF IsInjective
  <2>6. ASSUME Precedes(r, x, y)
        PROVE  x # e /\ y # e /\ Precedes(q, x, y)
    <3>1. PICK j, k \in 1 .. Len(q) - 1 : j < k /\ r[j] = x /\ r[k] = y
      BY <2>4, <2>6 DEF Precedes
    <3> DEFINE jj == IF j < i THEN j ELSE j + 1
               kk == IF k < i THEN k ELSE k + 1
    <3>2. /\ jj \in DOMAIN q /\ kk \in DOMAIN q /\ jj # i /\ kk # i /\ jj < kk
      BY <3>1, <2>1, <2>4
    <3>3. x = q[jj] /\ y = q[kk]
      BY <3>1, <2>3
    <3> QED
      BY <3>2, <3>3, <2>1, <2>4, <2>5 DEF Precedes
  <2>7. ASSUME x # e, y # e, Precedes(q, x, y)
        PROVE  Precedes(r, x, y)
    <3>1. PICK j, k \in 1 .. Len(q) : j < k /\ q[j] = x /\ q[k] = y
      BY <2>4, <2>7 DEF Precedes
    <3> DEFINE jj == IF j < i THEN j ELSE j - 1
               kk == IF k < i THEN k ELSE k - 1
    <3>2. j # i /\ k # i
      BY <3>1, <2>1, <2>7
    <3>3. jj \in 1 .. Len(q) - 1 /\ kk \in 1 .. Len(q) - 1 /\ jj < kk
      BY <3>1, <3>2, <2>1, <2>4
    <3>4. r[jj] = x /\ r[kk] = y
      <4>1. (IF jj < i THEN jj ELSE jj + 1) = j /\ (IF kk < i THEN kk ELSE kk + 1) = k
        BY <3>1, <3>2, <2>1, <2>4
      <4>2. /\ r[jj] = q[IF jj < i THEN jj ELSE jj + 1]
            /\ r[kk] = q[IF kk < i THEN kk ELSE kk + 1]
        BY <3>3, <2>3
      <4> QED
        BY <4>1, <4>2, <3>1
    <3> QED
      BY <3>3, <3>4, <2>4 DEF Precedes
  <2> QED
    BY <2>2, <2>6, <2>7
<1> QED
  BY <1>1, <1>2

\* What is pushed comes last.
LEMMA PushKeepsOrder ==
  ASSUME NEW S, NEW q \in Seq(S), NEW e \in S, e \notin ToSet(q), NEW x, NEW y
  PROVE  Precedes(queue_push(q, e), x, y) <=> Precedes(q, x, y) \/ (x \in ToSet(q) /\ y = e)
<1> DEFINE r == queue_push(q, e)
<1>1. /\ Len(q) \in Nat
      /\ DOMAIN q = 1 .. Len(q)
      /\ DOMAIN r = 1 .. Len(q) + 1
      /\ r[Len(q) + 1] = e
      /\ \A j \in 1 .. Len(q) : r[j] = q[j]
  BY LenProperties, AppendProperties DEF queue_push
<1> HIDE DEF r
<1>2. \A j \in 1 .. Len(q) : q[j] # e
  BY <1>1 DEF ToSet
<1>3. ASSUME Precedes(r, x, y)
      PROVE  Precedes(q, x, y) \/ (x \in ToSet(q) /\ y = e)
  <2>1. PICK j, k \in 1 .. Len(q) + 1 : j < k /\ r[j] = x /\ r[k] = y
    BY <1>1, <1>3 DEF Precedes
  <2>2. j \in 1 .. Len(q) /\ x = q[j]
    BY <2>1, <1>1
  <2>3. CASE k = Len(q) + 1
    BY <2>1, <2>2, <2>3, <1>1 DEF ToSet
  <2>4. CASE k # Len(q) + 1
    <3>1. k \in 1 .. Len(q) /\ y = q[k]
      BY <2>1, <2>4, <1>1
    <3> QED
      BY <3>1, <2>1, <2>2, <1>1 DEF Precedes
  <2> QED
    BY <2>3, <2>4
<1>4. ASSUME Precedes(q, x, y)
      PROVE  Precedes(r, x, y)
  <2>1. PICK j, k \in 1 .. Len(q) : j < k /\ q[j] = x /\ q[k] = y
    BY <1>1, <1>4 DEF Precedes
  <2> QED
    BY <2>1, <1>1 DEF Precedes
<1>5. ASSUME x \in ToSet(q), y = e
      PROVE  Precedes(r, x, y)
  <2>1. PICK j \in 1 .. Len(q) : q[j] = x
    BY <1>1, <1>5 DEF ToSet
  <2> QED
    BY <2>1, <1>1, <1>5 DEF Precedes
<1> QED
  BY <1>3, <1>4, <1>5 DEF r

\* The head comes before everything else, and nothing before it.
LEMMA HeadIsFirst ==
  ASSUME NEW S, NEW q \in Seq(S), IsInjective(q), q # <<>>
  PROVE  /\ Head(q) \in ToSet(q)
         /\ \A x \in ToSet(q) : x # Head(q) => Precedes(q, Head(q), x)
         /\ \A x : ~Precedes(q, x, Head(q))
<1>1. /\ Len(q) \in Nat \ {0}
      /\ DOMAIN q = 1 .. Len(q)
      /\ Head(q) = q[1]
  BY LenProperties, EmptySeq, HeadTailProperties
<1>2. ASSUME NEW x \in ToSet(q), x # Head(q)
      PROVE  Precedes(q, Head(q), x)
  BY <1>1, <1>2 DEF ToSet, Precedes
<1>3. ASSUME NEW x, Precedes(q, x, Head(q))
      PROVE  FALSE
  <2>1. PICK i, j \in DOMAIN q : i < j /\ q[j] = q[1]
    BY <1>1, <1>3 DEF Precedes
  <2>2. j = 1
    BY <2>1, <1>1 DEF IsInjective
  <2> QED
    BY <2>1, <2>2, <1>1
<1> QED
  BY <1>1, <1>2, <1>3 DEF ToSet

\* The head stays the head as long as it stays in the queue.
LEMMA SameHead ==
  ASSUME NEW S, NEW q \in Seq(S), IsInjective(q), q # <<>>
  PROVE  /\ \A e : e # Head(q) =>
              queue_remove(q, e) # <<>> /\ Head(queue_remove(q, e)) = Head(q)
         /\ \A e \in S : queue_push(q, e) # <<>> /\ Head(queue_push(q, e)) = Head(q)
<1>1. /\ Len(q) \in Nat \ {0}
      /\ DOMAIN q = 1 .. Len(q)
      /\ Head(q) = q[1]
  BY LenProperties, EmptySeq, HeadTailProperties
<1>2. ASSUME NEW e, e # Head(q)
      PROVE  queue_remove(q, e) # <<>> /\ Head(queue_remove(q, e)) = Head(q)
  <2>1. CASE e \notin ToSet(q)
    BY <2>1 DEF queue_remove
  <2>2. CASE e \in ToSet(q)
    <3> DEFINE i == CHOOSE i \in DOMAIN q : q[i] = e
               r == RemoveAt(q, i)
    <3>1. i \in 1 .. Len(q) /\ q[i] = e
      BY <2>2, <1>1 DEF ToSet
    <3>2. queue_remove(q, e) = r
      BY <2>2 DEF queue_remove
    <3> HIDE DEF i
    <3>3. /\ r \in Seq(S)
          /\ Len(r) = Len(q) - 1
          /\ \A j \in 1 .. Len(q) - 1 : r[j] = IF j < i THEN q[j] ELSE q[j + 1]
      BY <3>1, RemoveAtFacts
    <3> HIDE DEF r
    <3>4. i # 1
      BY <3>1, <1>1, <1>2
    <3>5. 1 \in 1 .. Len(q) - 1 /\ 1 < i
      BY <3>1, <3>4, <1>1
    <3>6. r[1] = q[1]
      BY <3>3, <3>5
    <3>7. r # <<>> /\ Head(r) = r[1]
      BY <3>3, <3>5, EmptySeq, HeadTailProperties
    <3> QED
      BY <3>2, <3>6, <3>7, <1>1
  <2> QED
    BY <2>1, <2>2
<1>3. ASSUME NEW e \in S
      PROVE  queue_push(q, e) # <<>> /\ Head(queue_push(q, e)) = Head(q)
  <2> DEFINE r == queue_push(q, e)
  <2>1. r \in Seq(S) /\ Len(r) = Len(q) + 1 /\ r[1] = q[1]
    BY <1>1, AppendProperties DEF queue_push
  <2> HIDE DEF r
  <2>2. r # <<>> /\ Head(r) = r[1]
    BY <2>1, <1>1, EmptySeq, HeadTailProperties
  <2> QED
    BY <2>1, <2>2, <1>1 DEF r
<1> QED
  BY <1>2, <1>3

\* The head is not in a set that the removed item is in.
LEMMA TopStays ==
  ASSUME NEW S, NEW q \in Seq(S), IsInjective(q), NEW h, NEW e \in h,
         q # <<>> => Head(q) \notin h, queue_remove(q, e) # <<>>
  PROVE  Head(queue_remove(q, e)) \notin h
<1>1. CASE q = <<>>
  <2>1. ToSet(q) = {}
    BY <1>1 DEF ToSet
  <2> QED
    BY <1>1, <2>1 DEF queue_remove
<1>2. CASE q # <<>>
  BY <1>2, SameHead
<1> QED
  BY <1>1, <1>2

-----------------------------------------------------------------------------
(***************************************************************************)
(* LIRS: the lists and the status of the blocks.                           *)
(***************************************************************************)
Structs ==
  [ queue       : [Queues -> Seq(Oblocks)],
    s_len       : Int,
    lir_count   : Int,
    hir         : SUBSET Oblocks,
    cached      : SUBSET Oblocks,
    migrating   : SUBSET Oblocks,
    last_oblock : Oblocks \cup {Null},
    fault       : BOOLEAN ]

Members(l, n) == ToSet(l.queue[n])

\* No queue has a block twice, and R has the order of S.
QueuesSound(l) ==
  /\ \A n \in Queues : IsInjective(l.queue[n])
  /\ \A x, y \in Members(l, "r") :
       Precedes(l.queue["r"], x, y) => Precedes(l.queue["s"], x, y)

\* The queues have the blocks that their status says, if the blocks out, which are
\* cached, are in none of them.
StatusSound(l, out) ==
  /\ l.migrating \subseteq out
  /\ out \subseteq l.cached
  /\ Members(l, "q") = (l.cached \ out) \cap l.hir
  /\ (l.cached \ out) \ l.hir \subseteq Members(l, "s")
  /\ Members(l, "s") \subseteq (l.cached \ out) \cup Members(l, "g")
  /\ Members(l, "r") = Members(l, "s") \cap l.hir
  /\ Members(l, "g") = Members(l, "r") \ l.cached
  /\ l.hir \subseteq l.cached \cup Members(l, "g")

\* The oldest block of S is LIR.
TopIsLir(l) == l.queue["s"] # <<>> => Head(l.queue["s"]) \notin l.hir

CountsSound(l) ==
  /\ IsFiniteSet(l.cached)
  /\ Cardinality(l.cached) <= CacheSize
  /\ l.lir_count = Cardinality(l.cached \ l.hir)

\* The struct lirs_policy between two functions, as long as none has failed.
Sound(l, out) ==
  /\ l \in Structs
  /\ QueuesSound(l)
  /\ StatusSound(l, out)
  /\ CountsSound(l)

\* The parts of a struct.
LEMMA StructParts ==
  ASSUME NEW l \in Structs
  PROVE  /\ l.queue \in [Queues -> Seq(Oblocks)]
         /\ \A n \in Queues : l.queue[n] \in Seq(Oblocks)
         /\ l.s_len \in Int /\ l.lir_count \in Int
         /\ l.hir \subseteq Oblocks /\ l.cached \subseteq Oblocks
         /\ l.migrating \subseteq Oblocks
         /\ l.last_oblock \in Oblocks \cup {Null}
         /\ l.fault \in BOOLEAN
         /\ \A n \in Queues : Members(l, n) \subseteq Oblocks
<1>1. \A n \in Queues : l.queue[n] \in Seq(Oblocks)
  BY DEF Structs
<1>2. \A n \in Queues : Members(l, n) \subseteq Oblocks
  BY <1>1, QueueItems DEF Members
<1> QED
  BY <1>1, <1>2 DEF Structs

\* The names of the queues.
LEMMA QueueNames == "q" \in Queues /\ "r" \in Queues /\ "s" \in Queues /\ "g" \in Queues
  BY DEF Queues

\* The queues of x are those of l, with block o removed from, or pushed to, those of ns.
RemovedFrom(l, x, o, ns) ==
  \A n \in Queues : x.queue[n] = IF n \in ns THEN queue_remove(l.queue[n], o) ELSE l.queue[n]

\* What comes after the blocks of R must come after them in S.
MayPush(l, o, ns) ==
  /\ \A n \in ns : o \notin Members(l, n)
  /\ Members(l, "r") \subseteq Members(l, "s")
  /\ "r" \in ns => "s" \in ns

PushedTo(l, x, o, ns) ==
  \A n \in Queues : x.queue[n] = IF n \in ns THEN queue_push(l.queue[n], o) ELSE l.queue[n]

\* The queues of ns without block o.  It may not stay in R if it leaves S.
LEMMA RemovedQueues ==
  ASSUME NEW l \in Structs, NEW x, NEW o, NEW ns,
         QueuesSound(l), "s" \in ns => "r" \in ns,
         RemovedFrom(l, x, o, ns)
  PROVE  /\ \A n \in Queues : x.queue[n] \in Seq(Oblocks)
         /\ QueuesSound(x)
         /\ \A n \in Queues : Members(x, n) = IF n \in ns THEN Members(l, n) \ {o}
                                                          ELSE Members(l, n)
         /\ \A n \in Queues : Len(x.queue[n]) = IF n \in ns /\ o \in Members(l, n)
                                                   THEN Len(l.queue[n]) - 1
                                                   ELSE Len(l.queue[n])
<1>1. ASSUME NEW n \in Queues
      PROVE  /\ x.queue[n] \in Seq(Oblocks)
             /\ IsInjective(x.queue[n])
             /\ Members(x, n) = IF n \in ns THEN Members(l, n) \ {o} ELSE Members(l, n)
             /\ Len(x.queue[n]) = IF n \in ns /\ o \in Members(l, n)
                                    THEN Len(l.queue[n]) - 1
                                    ELSE Len(l.queue[n])
             /\ \A a, b : Precedes(x.queue[n], a, b) <=>
                            /\ n \in ns => a # o /\ b # o
                            /\ Precedes(l.queue[n], a, b)
  <2>1. l.queue[n] \in Seq(Oblocks) /\ IsInjective(l.queue[n])
    BY StructParts DEF QueuesSound
  <2>2. CASE n \in ns
    <3>1. x.queue[n] = queue_remove(l.queue[n], o)
      BY <2>2 DEF RemovedFrom
    <3> QED
      BY <2>1, <2>2, <3>1, QueueRemove, RemoveKeepsOrder DEF Members
  <2>3. CASE n \notin ns
    <3>1. x.queue[n] = l.queue[n]
      BY <2>3 DEF RemovedFrom
    <3> QED
      BY <2>1, <2>3, <3>1 DEF Members
  <2> QED
    BY <2>2, <2>3
<1>2. "r" \in Queues /\ "s" \in Queues
  BY DEF Queues
<1>3. \A a, b \in Members(x, "r") : Precedes(x.queue["r"], a, b) => Precedes(x.queue["s"], a, b)
  <2> SUFFICES ASSUME NEW a \in Members(x, "r"), NEW b \in Members(x, "r"),
                      Precedes(x.queue["r"], a, b)
               PROVE  Precedes(x.queue["s"], a, b)
    OBVIOUS
  <2>1. /\ "r" \in ns => a # o /\ b # o
        /\ Precedes(l.queue["r"], a, b)
        /\ a \in Members(l, "r") /\ b \in Members(l, "r")
    BY <1>1, <1>2
  <2>2. Precedes(l.queue["s"], a, b)
    BY <2>1 DEF QueuesSound
  <2> QED
    BY <2>1, <2>2, <1>1, <1>2
<1> QED
  BY <1>1, <1>3 DEF QueuesSound

\* Then they are sequences of blocks, and have the members and the lengths that one
\* expects.
NewMembers(l, x, o, ns) ==
  /\ \A n \in Queues : x.queue[n] \in Seq(Oblocks)
  /\ \A n \in Queues : Members(x, n) = IF n \in ns THEN Members(l, n) \cup {o} ELSE Members(l, n)
  /\ \A n \in Queues : n \in ns => Len(x.queue[n]) = Len(l.queue[n]) + 1

\* The queues with block o at the end of those of ns.
LEMMA PushedQueues ==
  ASSUME NEW l \in Structs, NEW x, NEW o \in Oblocks, NEW ns,
         QueuesSound(l),
         MayPush(l, o, ns),
         PushedTo(l, x, o, ns)
  PROVE  QueuesSound(x) /\ NewMembers(l, x, o, ns)
<1>1. ASSUME NEW n \in Queues
      PROVE  /\ x.queue[n] \in Seq(Oblocks)
             /\ IsInjective(x.queue[n])
             /\ Members(x, n) = IF n \in ns THEN Members(l, n) \cup {o} ELSE Members(l, n)
             /\ Len(x.queue[n]) = IF n \in ns THEN Len(l.queue[n]) + 1 ELSE Len(l.queue[n])
             /\ \A a, b : Precedes(x.queue[n], a, b) <=>
                            \/ Precedes(l.queue[n], a, b)
                            \/ n \in ns /\ a \in Members(l, n) /\ b = o
  <2>1. l.queue[n] \in Seq(Oblocks) /\ IsInjective(l.queue[n])
    BY StructParts DEF QueuesSound
  <2>2. CASE n \in ns
    <3>1. x.queue[n] = queue_push(l.queue[n], o) /\ o \notin ToSet(l.queue[n])
      BY <2>2 DEF Members, PushedTo, MayPush
    <3> QED
      BY <2>1, <2>2, <3>1, QueuePush, PushKeepsOrder DEF Members
  <2>3. CASE n \notin ns
    <3>1. x.queue[n] = l.queue[n]
      BY <2>3 DEF PushedTo
    <3> QED
      BY <2>1, <2>3, <3>1 DEF Members
  <2> QED
    BY <2>2, <2>3
<1>2. "r" \in Queues /\ "s" \in Queues
  BY DEF Queues
<1>3. ASSUME NEW a \in Members(x, "r"), NEW b \in Members(x, "r"), Precedes(x.queue["r"], a, b)
      PROVE  Precedes(x.queue["s"], a, b)
  <2>1. CASE Precedes(l.queue["r"], a, b)
    <3>1. a \in Members(l, "r") /\ b \in Members(l, "r")
      BY <2>1 DEF Precedes, Members, ToSet
    <3> QED
      BY <2>1, <3>1, <1>1, <1>2 DEF QueuesSound
  <2>2. CASE "r" \in ns /\ a \in Members(l, "r") /\ b = o
    BY <2>2, <1>1, <1>2 DEF MayPush
  <2> QED
    BY <2>1, <2>2, <1>1, <1>2, <1>3
<1> QED
  BY <1>1, <1>3 DEF QueuesSound, NewMembers

-----------------------------------------------------------------------------
(***************************************************************************)
(* LIRS: the functions on the lists.                                       *)
(***************************************************************************)

\* A block leaves its queues.
LEMMA FromQueues ==
  ASSUME NEW l \in Structs, QueuesSound(l), NEW o
  PROVE  LET y == lirs_remove_from_queues(l, o)
         IN  /\ y \in Structs
             /\ QueuesSound(y)
             /\ y.queue = [n \in Queues |-> queue_remove(l.queue[n], o)]
             /\ \A n \in Queues : Members(y, n) = Members(l, n) \ {o}
             /\ y.cached = l.cached /\ y.migrating = l.migrating /\ y.hir = l.hir
             /\ y.last_oblock = l.last_oblock /\ y.fault = l.fault
             /\ y.lir_count = l.lir_count
             /\ y.s_len - Len(y.queue["s"]) = l.s_len - Len(l.queue["s"])
<1> DEFINE y == lirs_remove_from_queues(l, o)
<1>1. /\ y.queue = [n \in Queues |-> queue_remove(l.queue[n], o)]
      /\ y.cached = l.cached /\ y.migrating = l.migrating /\ y.hir = l.hir
      /\ y.last_oblock = l.last_oblock /\ y.fault = l.fault
      /\ y.lir_count = l.lir_count
      /\ y.s_len = (IF o \in Members(l, "s") THEN l.s_len - 1 ELSE l.s_len)
  BY DEF Structs, lirs_remove_from_queues, in_queue, Members
<1> HIDE DEF y
<1>2. /\ y.queue \in [Queues -> Seq(Oblocks)]
      /\ QueuesSound(y)
      /\ \A n \in Queues : Members(y, n) = Members(l, n) \ {o}
      /\ \A n \in Queues : Len(y.queue[n]) = IF o \in Members(l, n) THEN Len(l.queue[n]) - 1
                                                                    ELSE Len(l.queue[n])
  <2>1. RemovedFrom(l, y, o, Queues)
    BY <1>1 DEF RemovedFrom
  <2>2. "s" \in Queues => "r" \in Queues
    BY QueueNames
  <2>3. QueuesSound(y)
    BY <2>1, <2>2, RemovedQueues
  <2>4. \A n \in Queues : y.queue[n] \in Seq(Oblocks)
    BY <2>1, <2>2, RemovedQueues
  <2>5. \A n \in Queues : Members(y, n) = Members(l, n) \ {o}
    BY <2>1, <2>2, RemovedQueues
  <2>6. \A n \in Queues : Len(y.queue[n]) = IF o \in Members(l, n) THEN Len(l.queue[n]) - 1
                                                                    ELSE Len(l.queue[n])
    BY <2>1, <2>2, RemovedQueues
  <2> QED
    BY <2>3, <2>4, <2>5, <2>6, <1>1
<1>3. l.s_len \in Int /\ Len(l.queue["s"]) \in Nat
  BY StructParts, QueueNames, LenProperties
<1>4. y \in Structs
  <2>1. y.queue \in [Queues -> Seq(Oblocks)] /\ y.s_len \in Int
    BY <1>1, <1>2, <1>3
  <2> QED
    BY <1>1, <2>1 DEF Structs, lirs_remove_from_queues, y
<1>5. y.s_len - Len(y.queue["s"]) = l.s_len - Len(l.queue["s"])
  <2>1. Len(y.queue["s"]) = IF o \in Members(l, "s") THEN Len(l.queue["s"]) - 1
                                                     ELSE Len(l.queue["s"])
    BY <1>2, QueueNames
  <2>2. y.s_len = IF o \in Members(l, "s") THEN l.s_len - 1 ELSE l.s_len
    BY <1>1
  <2> QED
    BY <2>1, <2>2, <1>3
<1> QED
  BY <1>1, <1>2, <1>4, <1>5 DEF y

\* The struct x after the entry of a cached block or a ghost, o, has been removed from l.
EntryRemoved(l, x, o, out) ==
  /\ Sound(x, out \ {o})
  /\ x.queue = [n \in Queues |-> queue_remove(l.queue[n], o)]
  /\ \A n \in Queues : Members(x, n) = Members(l, n) \ {o}
  /\ x.cached = l.cached \ {o}
  /\ x.migrating = l.migrating \ {o}
  /\ x.hir = l.hir \ {o}
  /\ x.last_oblock = l.last_oblock /\ x.fault = l.fault
  /\ x.s_len - Len(x.queue["s"]) = l.s_len - Len(l.queue["s"])
  /\ x.lir_count = IF o \in l.hir THEN l.lir_count ELSE l.lir_count - 1
  /\ o \in l.hir /\ TopIsLir(l) => TopIsLir(x)

LEMMA RemoveEntrySound ==
  ASSUME NEW l, NEW out, Sound(l, out), NEW o \in l.cached \cup Members(l, "g")
  PROVE  EntryRemoved(l, lirs_remove_entry(l, o), o, out)
<1> DEFINE x == lirs_remove_entry(l, o)
           y == lirs_remove_from_queues(l, o)
<1>1. /\ l \in Structs /\ QueuesSound(l) /\ StatusSound(l, out) /\ CountsSound(l)
  BY DEF Sound
<1>2. /\ y \in Structs
      /\ QueuesSound(y)
      /\ y.queue = [n \in Queues |-> queue_remove(l.queue[n], o)]
      /\ \A n \in Queues : Members(y, n) = Members(l, n) \ {o}
      /\ y.cached = l.cached /\ y.migrating = l.migrating /\ y.hir = l.hir
      /\ y.last_oblock = l.last_oblock /\ y.fault = l.fault
      /\ y.lir_count = l.lir_count
      /\ y.s_len - Len(y.queue["s"]) = l.s_len - Len(l.queue["s"])
  BY <1>1, FromQueues
<1>3. x = [y EXCEPT !.lir_count = IF o \in l.hir THEN @ ELSE @ - 1, !.hir = @ \ {o},
                    !.cached = @ \ {o}, !.migrating = @ \ {o}]
  BY DEF lirs_remove_entry
<1> HIDE DEF y
<1>4. /\ x.queue = y.queue /\ x.s_len = y.s_len
      /\ x.cached = l.cached \ {o} /\ x.migrating = l.migrating \ {o} /\ x.hir = l.hir \ {o}
      /\ x.last_oblock = l.last_oblock /\ x.fault = l.fault
      /\ x.lir_count = IF o \in l.hir THEN l.lir_count ELSE l.lir_count - 1
  BY <1>2, <1>3 DEF Structs
<1>5. x \in Structs
  <2> DEFINE lc == IF o \in l.hir THEN y.lir_count ELSE y.lir_count - 1
  <2>1. lc \in Int
    BY <1>2, StructParts
  <2>2. x = [y EXCEPT !.lir_count = lc, !.hir = y.hir \ {o},
                      !.cached = y.cached \ {o}, !.migrating = y.migrating \ {o}]
    BY <1>3
  <2> HIDE DEF x, lc
  <2> QED
    BY <1>2, <2>1, <2>2 DEF Structs
<1> HIDE DEF x
<1>6. QueuesSound(x) /\ \A n \in Queues : Members(x, n) = Members(l, n) \ {o}
  BY <1>2, <1>4 DEF QueuesSound, Members
<1>7. StatusSound(x, out \ {o})
  BY <1>1, <1>4, <1>6, QueueNames DEF StatusSound
<1>8. CountsSound(x)
  <2>1. /\ o \notin l.hir => o \in l.cached
        /\ IsFiniteSet(l.cached) /\ Cardinality(l.cached) <= CacheSize
        /\ l.lir_count = Cardinality(l.cached \ l.hir)
    BY <1>1 DEF StatusSound, CountsSound
  <2>2. IsFiniteSet(x.cached) /\ Cardinality(x.cached) <= CacheSize
    <3>1. x.cached = l.cached \ {o}
      BY <1>4
    <3>2. IsFiniteSet(x.cached) /\ Cardinality(x.cached) <= Cardinality(l.cached)
      BY <2>1, <3>1, FS_Subset
    <3> QED
      BY <2>1, <3>2, FS_CardinalityType, NucleusAssumption
  <2>3. IsFiniteSet(l.cached \ l.hir)
    BY <2>1, FS_Subset, l.cached \ l.hir \subseteq l.cached
  <2>4. x.cached \ x.hir = (l.cached \ l.hir) \ {o}
    BY <1>4
  <2>5. Cardinality((l.cached \ l.hir) \ {o}) =
          IF o \in l.cached \ l.hir THEN Cardinality(l.cached \ l.hir) - 1
                                   ELSE Cardinality(l.cached \ l.hir)
    BY <2>3, FS_RemoveElement
  <2> QED
    BY <1>4, <2>1, <2>2, <2>4, <2>5 DEF CountsSound
<1>9. ASSUME o \in l.hir, TopIsLir(l)
      PROVE  TopIsLir(x)
  <2>1. x.queue["s"] = queue_remove(l.queue["s"], o) /\ x.hir = l.hir \ {o}
    BY <1>2, <1>4, QueueNames
  <2> QED
    BY <1>1, <1>9, <2>1, StructParts, QueueNames, TopStays DEF QueuesSound, TopIsLir
<1> QED
  BY <1>1, <1>2, <1>4, <1>5, <1>6, <1>7, <1>8, <1>9 DEF Sound, EntryRemoved, x

\* The struct x after the block o, which may be evicted, has left its queues in l.
Unlinked(l, x, o, out) ==
  /\ Sound(x, out \cup {o})
  /\ x.queue = [n \in Queues |-> queue_remove(l.queue[n], o)]
  /\ \A n \in Queues : Members(x, n) = Members(l, n) \ {o}
  /\ x.cached = l.cached /\ x.migrating = l.migrating /\ x.hir = l.hir
  /\ x.last_oblock = l.last_oblock /\ x.fault = l.fault
  /\ x.lir_count = l.lir_count
  /\ x.s_len - Len(x.queue["s"]) = l.s_len - Len(l.queue["s"])
  /\ o \in l.hir /\ TopIsLir(l) => TopIsLir(x)

LEMMA UnlinkSound ==
  ASSUME NEW l, NEW out, Sound(l, out), NEW o \in l.cached \ out
  PROVE  Unlinked(l, lirs_remove_from_queues(l, o), o, out)
<1> DEFINE x == lirs_remove_from_queues(l, o)
<1>1. /\ l \in Structs /\ QueuesSound(l) /\ StatusSound(l, out) /\ CountsSound(l)
  BY DEF Sound
<1>2. /\ x \in Structs
      /\ QueuesSound(x)
      /\ x.queue = [n \in Queues |-> queue_remove(l.queue[n], o)]
      /\ \A n \in Queues : Members(x, n) = Members(l, n) \ {o}
      /\ x.cached = l.cached /\ x.migrating = l.migrating /\ x.hir = l.hir
      /\ x.last_oblock = l.last_oblock /\ x.fault = l.fault
      /\ x.lir_count = l.lir_count
      /\ x.s_len - Len(x.queue["s"]) = l.s_len - Len(l.queue["s"])
  BY <1>1, FromQueues
<1> HIDE DEF x
<1>3. StatusSound(x, out \cup {o})
  BY <1>1, <1>2, QueueNames DEF StatusSound
<1>4. CountsSound(x)
  BY <1>1, <1>2 DEF CountsSound
<1>5. ASSUME o \in l.hir, TopIsLir(l)
      PROVE  TopIsLir(x)
  <2>1. x.queue["s"] = queue_remove(l.queue["s"], o)
    BY <1>2, QueueNames
  <2> QED
    BY <1>1, <1>2, <1>5, <2>1, StructParts, QueueNames, TopStays DEF QueuesSound, TopIsLir
<1> QED
  BY <1>1, <1>2, <1>3, <1>4, <1>5 DEF Sound, Unlinked, x

\* The oldest HIR block of S leaves it.
LEMMA REvictSound ==
  ASSUME NEW l, NEW out, Sound(l, out), l.queue["r"] # <<>>
  PROVE  LET x == lirs_r_evict(l)
             o == Head(l.queue["r"])
         IN  /\ Sound(x, out)
             /\ x.queue["q"] = l.queue["q"]
             /\ x.queue["s"] = queue_remove(l.queue["s"], o)
             /\ o \in Members(l, "s") /\ o \in l.hir
             /\ x.cached = l.cached /\ x.migrating = l.migrating
             /\ x.hir \subseteq l.hir
             /\ x.cached \ x.hir = l.cached \ l.hir
             /\ x.last_oblock = l.last_oblock /\ x.fault = l.fault
             /\ x.lir_count = l.lir_count
             /\ x.s_len - Len(x.queue["s"]) = l.s_len - Len(l.queue["s"])
             /\ TopIsLir(l) => TopIsLir(x)
<1> DEFINE x == lirs_r_evict(l)
           o == Head(l.queue["r"])
           y == [l EXCEPT !.queue["s"] = queue_remove(@, o),
                          !.queue["r"] = queue_remove(@, o),
                          !.s_len = @ - 1]
<1>1. /\ l \in Structs /\ QueuesSound(l) /\ StatusSound(l, out) /\ CountsSound(l)
  BY DEF Sound
<1>2. /\ o \in Members(l, "r") /\ o \in Members(l, "s") /\ o \in l.hir
      /\ o \notin l.cached => o \in Members(l, "g")
      /\ o \notin out
      /\ o \notin Members(l, "q") \/ o \in l.cached
  <2>1. o \in Members(l, "r")
    BY <1>1, StructParts, QueueNames, HeadIsFirst DEF Members, QueuesSound
  <2> QED
    BY <1>1, <2>1 DEF StatusSound
<1>3. x = IF o \in l.cached THEN y ELSE lirs_remove_entry(y, o)
  BY DEF lirs_r_evict
<1> HIDE DEF o
<1>4. /\ y.queue = [n \in Queues |-> IF n \in {"s", "r"} THEN queue_remove(l.queue[n], o)
                                                       ELSE l.queue[n]]
      /\ y.s_len = l.s_len - 1
      /\ y.cached = l.cached /\ y.migrating = l.migrating /\ y.hir = l.hir
      /\ y.last_oblock = l.last_oblock /\ y.fault = l.fault
      /\ y.lir_count = l.lir_count
  BY <1>1 DEF Structs, Queues
<1>5. l.s_len \in Int /\ Len(l.queue["s"]) \in Nat
  BY <1>1, StructParts, QueueNames, LenProperties
<1>6. y \in Structs
  <2>1. /\ queue_remove(l.queue["s"], o) \in Seq(Oblocks)
        /\ queue_remove(l.queue["r"], o) \in Seq(Oblocks)
    BY <1>1, StructParts, QueueNames, QueueRemove DEF QueuesSound
  <2> DEFINE qs == [n \in Queues |-> IF n \in {"s", "r"} THEN queue_remove(l.queue[n], o)
                                                        ELSE l.queue[n]]
             sl == l.s_len - 1
  <2>2. qs \in [Queues -> Seq(Oblocks)] /\ sl \in Int
    BY <1>1, <1>5, <2>1, StructParts
  <2>3. y = [l EXCEPT !.queue = qs, !.s_len = sl]
    BY <1>1, <1>4 DEF Structs
  <2> HIDE DEF y, qs, sl
  <2> QED
    BY <1>1, <2>2, <2>3 DEF Structs
<1> HIDE DEF y
<1>7. /\ QueuesSound(y)
      /\ \A n \in Queues : Members(y, n) = IF n \in {"s", "r"} THEN Members(l, n) \ {o}
                                                              ELSE Members(l, n)
      /\ \A n \in Queues : Len(y.queue[n]) = IF n \in {"s", "r"} /\ o \in Members(l, n)
                                                THEN Len(l.queue[n]) - 1
                                                ELSE Len(l.queue[n])
  <2> DEFINE ns == {"s", "r"}
  <2>1. RemovedFrom(l, y, o, ns)
    BY <1>4 DEF RemovedFrom
  <2>2. "s" \in ns => "r" \in ns
    OBVIOUS
  <2> HIDE DEF ns
  <2>3. QueuesSound(y)
    BY <1>1, <2>1, <2>2, RemovedQueues
  <2>4. \A n \in Queues : Members(y, n) = IF n \in ns THEN Members(l, n) \ {o}
                                                      ELSE Members(l, n)
    BY <1>1, <2>1, <2>2, RemovedQueues
  <2>5. \A n \in Queues : Len(y.queue[n]) = IF n \in ns /\ o \in Members(l, n)
                                                THEN Len(l.queue[n]) - 1
                                                ELSE Len(l.queue[n])
    BY <1>1, <2>1, <2>2, RemovedQueues
  <2> QED
    BY <2>3, <2>4, <2>5 DEF ns
<1>8. y.s_len - Len(y.queue["s"]) = l.s_len - Len(l.queue["s"])
  <2>1. Len(y.queue["s"]) = Len(l.queue["s"]) - 1 /\ y.s_len = l.s_len - 1
    BY <1>2, <1>4, <1>7, QueueNames
  <2> QED
    BY <2>1, <1>5
<1>9. CASE o \in l.cached
  <2>1. x = y
    BY <1>3, <1>9
  <2>2. StatusSound(y, out)
    BY <1>1, <1>2, <1>4, <1>7, <1>9, QueueNames DEF StatusSound
  <2>3. CountsSound(y)
    BY <1>1, <1>4 DEF CountsSound
  <2>4. Sound(y, out)
    BY <1>1, <1>4, <1>6, <1>7, <2>2, <2>3 DEF Sound
  <2>5. y.queue["q"] = l.queue["q"] /\ y.queue["s"] = queue_remove(l.queue["s"], o)
    BY <1>4, QueueNames
  <2>6. TopIsLir(l) => TopIsLir(y)
    BY <1>1, <1>2, <1>4, <2>5, StructParts, QueueNames, TopStays DEF QueuesSound, TopIsLir
  <2> QED
    BY <1>2, <1>4, <1>8, <2>1, <2>4, <2>5, <2>6 DEF x, o
<1>10. CASE o \notin l.cached
  <2> DEFINE z == lirs_remove_from_queues(y, o)
  <2>1. x = [z EXCEPT !.lir_count = IF o \in y.hir THEN @ ELSE @ - 1, !.hir = @ \ {o},
                      !.cached = @ \ {o}, !.migrating = @ \ {o}]
    BY <1>3, <1>10 DEF lirs_remove_entry
  <2>2. /\ z \in Structs
        /\ QueuesSound(z)
        /\ z.queue = [n \in Queues |-> queue_remove(y.queue[n], o)]
        /\ \A n \in Queues : Members(z, n) = Members(y, n) \ {o}
        /\ z.cached = y.cached /\ z.migrating = y.migrating /\ z.hir = y.hir
        /\ z.last_oblock = y.last_oblock /\ z.fault = y.fault
        /\ z.lir_count = y.lir_count
        /\ z.s_len - Len(z.queue["s"]) = y.s_len - Len(y.queue["s"])
    BY <1>6, <1>7, FromQueues
  <2> HIDE DEF x, z
  <2>3. /\ x.queue = z.queue /\ x.s_len = z.s_len
        /\ x.cached = l.cached \ {o} /\ x.migrating = l.migrating \ {o} /\ x.hir = l.hir \ {o}
        /\ x.last_oblock = l.last_oblock /\ x.fault = l.fault
        /\ x.lir_count = l.lir_count
    BY <1>2, <1>4, <2>1, <2>2 DEF Structs
  <2>4. x \in Structs
    <3>1. x = [z EXCEPT !.lir_count = z.lir_count, !.hir = z.hir \ {o},
                        !.cached = z.cached \ {o}, !.migrating = z.migrating \ {o}]
      BY <2>1, <1>2, <1>4
    <3> QED
      BY <2>2, <3>1 DEF Structs
  <2>5. /\ x.queue["q"] = l.queue["q"]
        /\ x.queue["s"] = queue_remove(l.queue["s"], o)
    <3>1. /\ x.queue["q"] = queue_remove(l.queue["q"], o)
          /\ x.queue["s"] = queue_remove(queue_remove(l.queue["s"], o), o)
      BY <1>4, <2>2, <2>3, QueueNames
    <3>2. o \notin ToSet(l.queue["q"])
      BY <1>2, <1>10 DEF Members
    <3>3. o \notin ToSet(queue_remove(l.queue["s"], o))
      BY <1>1, StructParts, QueueNames, QueueRemove DEF QueuesSound
    <3> QED
      BY <3>1, <3>2, <3>3 DEF queue_remove
  <2>6. QueuesSound(x) /\ \A n \in Queues : Members(x, n) = Members(z, n)
    BY <2>2, <2>3 DEF QueuesSound, Members
  <2>7. \A n \in Queues : Members(x, n) = Members(l, n) \ {o}
    BY <2>6, <2>2, <1>7
  <2>8. StatusSound(x, out)
    BY <1>1, <1>2, <1>10, <2>3, <2>7, QueueNames DEF StatusSound
  <2>9. x.cached = l.cached /\ x.cached \ x.hir = l.cached \ l.hir /\ x.migrating = l.migrating
    BY <1>1, <1>2, <1>10, <2>3 DEF StatusSound
  <2>10. CountsSound(x)
    BY <1>1, <2>3, <2>9 DEF CountsSound
  <2>11. TopIsLir(l) => TopIsLir(x)
    BY <1>1, <1>2, <2>3, <2>5, StructParts, QueueNames, TopStays DEF QueuesSound, TopIsLir
  <2>12. x.s_len - Len(x.queue["s"]) = l.s_len - Len(l.queue["s"])
    BY <2>2, <2>3, <1>8
  <2> QED
    BY <1>1, <1>2, <2>3, <2>4, <2>5, <2>6, <2>8, <2>9, <2>10, <2>11, <2>12 DEF Sound, x, o
<1> QED
  BY <1>9, <1>10

\* A block is pushed to queues that it is not in.
LEMMA ToQueues ==
  ASSUME NEW l \in Structs, NEW o \in Oblocks, NEW ns,
         QueuesSound(l),
         MayPush(l, o, ns)
  PROVE  LET y == lirs_push_to_queues(l, o, ns)
         IN  /\ y \in Structs
             /\ QueuesSound(y)
             /\ y.queue = [n \in Queues |-> IF n \in ns THEN queue_push(l.queue[n], o)
                                                        ELSE l.queue[n]]
             /\ \A n \in Queues : Members(y, n) = IF n \in ns THEN Members(l, n) \cup {o}
                                                              ELSE Members(l, n)
             /\ \A n \in Queues : n \in ns => Len(y.queue[n]) = Len(l.queue[n]) + 1
             /\ y.cached = l.cached /\ y.migrating = l.migrating /\ y.hir = l.hir
             /\ y.last_oblock = l.last_oblock /\ y.fault = l.fault
             /\ y.lir_count = l.lir_count /\ y.s_len = l.s_len
<1> DEFINE y == lirs_push_to_queues(l, o, ns)
<1>1. /\ y.queue = [n \in Queues |-> IF n \in ns THEN queue_push(l.queue[n], o)
                                                 ELSE l.queue[n]]
      /\ y.cached = l.cached /\ y.migrating = l.migrating /\ y.hir = l.hir
      /\ y.last_oblock = l.last_oblock /\ y.fault = l.fault
      /\ y.lir_count = l.lir_count /\ y.s_len = l.s_len
  BY DEF Structs, lirs_push_to_queues
<1> HIDE DEF y
<1>2. PushedTo(l, y, o, ns)
  BY <1>1 DEF PushedTo
<1>3. QueuesSound(y) /\ NewMembers(l, y, o, ns)
  BY <1>2, PushedQueues
<1>4. /\ \A n \in Queues : y.queue[n] \in Seq(Oblocks)
      /\ \A n \in Queues : Members(y, n) = IF n \in ns THEN Members(l, n) \cup {o}
                                                       ELSE Members(l, n)
      /\ \A n \in Queues : n \in ns => Len(y.queue[n]) = Len(l.queue[n]) + 1
  BY <1>3 DEF NewMembers
<1>7. y \in Structs
  <2>1. y.queue \in [Queues -> Seq(Oblocks)]
    BY <1>1, <1>4
  <2> QED
    BY <1>1, <2>1 DEF Structs, lirs_push_to_queues, y
<1> QED
  BY <1>1, <1>3, <1>4, <1>7 DEF y

\* The head of S stays where it is when a block is pushed; and a block pushed to the
\* empty S is its head.
LEMMA TopAfterPush ==
  ASSUME NEW l, NEW x, NEW o \in Oblocks,
         l.queue["s"] \in Seq(Oblocks), IsInjective(l.queue["s"]),
         x.queue["s"] = queue_push(l.queue["s"], o), x.hir \subseteq l.hir,
         TopIsLir(l), l.queue["s"] = <<>> => o \notin x.hir
  PROVE  TopIsLir(x)
<1>1. CASE l.queue["s"] = <<>>
  <2>1. x.queue["s"] = <<o>>
    BY <1>1 DEF queue_push
  <2>2. Head(x.queue["s"]) = o
    BY <2>1
  <2> QED
    BY <1>1, <2>2 DEF TopIsLir
<1>2. CASE l.queue["s"] # <<>>
  BY <1>2, SameHead DEF TopIsLir
<1> QED
  BY <1>1, <1>2

\* The struct x after block o, which was in no queue of l, has been put into those of its
\* status.
Enqueued(l, x, o, is_HIR, out) ==
  /\ Sound(x, out \ {o})
  /\ x.cached = l.cached /\ x.migrating = l.migrating /\ x.hir = l.hir
  /\ x.last_oblock = l.last_oblock /\ x.fault = l.fault
  /\ x.lir_count = l.lir_count /\ x.s_len = l.s_len
  /\ Len(x.queue["s"]) = Len(l.queue["s"]) + 1
  /\ TopIsLir(l) /\ (is_HIR => l.queue["s"] # <<>>) => TopIsLir(x)

LEMMA EnqueueSound ==
  ASSUME NEW l, NEW out, NEW o \in out, NEW is_HIR \in BOOLEAN,
         Sound(l, out), o \notin l.migrating, is_HIR <=> o \in l.hir
  PROVE  Enqueued(l, lirs_enqueue(l, o, is_HIR), o, is_HIR, out)
<1> DEFINE ns == IF is_HIR THEN {"q", "r", "s"} ELSE {"s"}
           x == lirs_push_to_queues(l, o, ns)
<1>1. l \in Structs /\ QueuesSound(l) /\ StatusSound(l, out) /\ CountsSound(l)
  BY DEF Sound
<1>2. /\ o \in Oblocks /\ o \in l.cached
      /\ o \notin Members(l, "q") /\ o \notin Members(l, "r")
      /\ o \notin Members(l, "s") /\ o \notin Members(l, "g")
  BY <1>1, StructParts DEF StatusSound
<1>3. /\ MayPush(l, o, ns)
      /\ "s" \in ns /\ "g" \notin ns
      /\ "r" \in ns <=> is_HIR
      /\ "q" \in ns <=> is_HIR
  BY <1>1, <1>2 DEF StatusSound, MayPush
<1> HIDE DEF ns
<1>4. /\ x \in Structs
      /\ QueuesSound(x)
      /\ x.queue = [n \in Queues |-> IF n \in ns THEN queue_push(l.queue[n], o)
                                                 ELSE l.queue[n]]
      /\ \A n \in Queues : Members(x, n) = IF n \in ns THEN Members(l, n) \cup {o}
                                                       ELSE Members(l, n)
      /\ \A n \in Queues : n \in ns => Len(x.queue[n]) = Len(l.queue[n]) + 1
      /\ x.cached = l.cached /\ x.migrating = l.migrating /\ x.hir = l.hir
      /\ x.last_oblock = l.last_oblock /\ x.fault = l.fault
      /\ x.lir_count = l.lir_count /\ x.s_len = l.s_len
  BY <1>1, <1>2, <1>3, ToQueues
<1>5. x = lirs_enqueue(l, o, is_HIR)
  BY DEF lirs_enqueue, ns
<1> HIDE DEF x
<1>6. /\ Members(x, "s") = Members(l, "s") \cup {o}
      /\ Members(x, "g") = Members(l, "g")
      /\ Members(x, "r") = IF is_HIR THEN Members(l, "r") \cup {o} ELSE Members(l, "r")
      /\ Members(x, "q") = IF is_HIR THEN Members(l, "q") \cup {o} ELSE Members(l, "q")
      /\ Len(x.queue["s"]) = Len(l.queue["s"]) + 1
      /\ x.queue["s"] = queue_push(l.queue["s"], o)
  BY <1>3, <1>4, QueueNames
<1>7. StatusSound(x, out \ {o})
  BY <1>1, <1>2, <1>4, <1>6 DEF StatusSound
<1>8. CountsSound(x)
  BY <1>1, <1>4 DEF CountsSound
<1>9. ASSUME TopIsLir(l), is_HIR => l.queue["s"] # <<>>
      PROVE  TopIsLir(x)
  <2>1. l.queue["s"] \in Seq(Oblocks) /\ IsInjective(l.queue["s"])
    BY <1>1, StructParts, QueueNames DEF QueuesSound
  <2> QED
    BY <1>2, <1>4, <1>6, <1>9, <2>1, TopAfterPush
<1> QED
  BY <1>4, <1>5, <1>6, <1>7, <1>8, <1>9 DEF Sound, Enqueued

\* The struct x after HIR blocks have left S and R of l.
Popped(l, x, out) ==
  /\ Sound(x, out)
  /\ x.queue["q"] = l.queue["q"]
  /\ x.cached = l.cached /\ x.migrating = l.migrating
  /\ x.hir \subseteq l.hir
  /\ x.cached \ x.hir = l.cached \ l.hir
  /\ x.last_oblock = l.last_oblock /\ x.fault = l.fault
  /\ x.lir_count = l.lir_count
  /\ x.s_len - Len(x.queue["s"]) = l.s_len - Len(l.queue["s"])
  /\ TopIsLir(l) => TopIsLir(x)

LEMMA PoppedNothing ==
  ASSUME NEW l, NEW out, Sound(l, out)
  PROVE  Popped(l, l, out)
BY DEF Popped

LEMMA PoppedTwice ==
  ASSUME NEW l, NEW x, NEW y, NEW out, Popped(l, x, out), Popped(x, y, out)
  PROVE  Popped(l, y, out)
BY DEF Popped

\* One step of the loop.  As R has the order of S, its oldest block is that of S.
LEMMA PopHirSound ==
  ASSUME NEW l, NEW out, Sound(l, out)
  PROVE  LET x == lirs_pop_hir(l)
         IN  /\ Popped(l, x, out)
             /\ \/ TopIsLir(l) /\ x = l
                \/ Len(x.queue["s"]) = Len(l.queue["s"]) - 1
<1> DEFINE s == l.queue["s"]
           r == l.queue["r"]
<1>1. l \in Structs /\ QueuesSound(l) /\ StatusSound(l, out) /\ CountsSound(l)
  BY DEF Sound
<1>2. CASE s = <<>> \/ Head(s) \notin l.hir
  <2>1. lirs_pop_hir(l) = l /\ TopIsLir(l)
    BY <1>2 DEF lirs_pop_hir, TopIsLir
  <2> QED
    BY <2>1, PoppedNothing
<1>3. CASE s # <<>> /\ Head(s) \in l.hir
  <2>1. /\ s \in Seq(Oblocks) /\ r \in Seq(Oblocks)
        /\ IsInjective(s) /\ IsInjective(r)
    BY <1>1, StructParts, QueueNames DEF QueuesSound
  <2>2. Head(s) \in ToSet(s)
    BY <1>3, <2>1, HeadIsFirst
  <2>3. Head(s) \in ToSet(r)
    BY <1>1, <1>3, <2>2 DEF StatusSound, Members
  <2>4. r # <<>>
    BY <2>3 DEF ToSet
  <2>5. /\ Head(r) \in ToSet(r)
        /\ Head(s) # Head(r) => Precedes(r, Head(r), Head(s))
        /\ ~Precedes(s, Head(r), Head(s))
    BY <1>3, <2>1, <2>3, <2>4, HeadIsFirst
  <2>6. Head(r) = Head(s)
    BY <1>1, <2>3, <2>5 DEF QueuesSound, Members
  <2>7. lirs_pop_hir(l) = lirs_r_evict(l)
    BY <1>3, <2>4, <2>6 DEF lirs_pop_hir
  <2> DEFINE x == lirs_r_evict(l)
  <2>8. /\ Popped(l, x, out)
        /\ x.queue["s"] = queue_remove(s, Head(r))
    BY <2>4, REvictSound DEF Popped
  <2>9. Len(x.queue["s"]) = Len(s) - 1
    BY <2>1, <2>2, <2>6, <2>8, QueueRemove
  <2> QED
    BY <2>7, <2>8, <2>9
<1> QED
  BY <1>2, <1>3

\* The loop leaves a LIR block at the end of S, or nothing.
LEMMA FindLastSound ==
  ASSUME NEW l, NEW out, Sound(l, out)
  PROVE  LET x == lirs_find_last_lir_lru(l)
         IN  Popped(l, x, out) /\ TopIsLir(x)
<1> DEFINE n == Len(l.queue["s"])
           Steps(f, m) == f = [k \in 0 .. m |-> IF k = 0 THEN l ELSE lirs_pop_hir(f[k - 1])]
           P == {m \in 0 .. n : \E f : Steps(f, m)}
<1>1. n \in Nat
  BY StructParts, QueueNames, LenProperties DEF Sound
<1> HIDE DEF n
<1>2. 0 \in P
  <2> DEFINE f == [k \in 0 .. 0 |-> l]
  <2>1. Steps(f, 0)
    BY SMT
  <2> HIDE DEF f
  <2> QED
    BY <1>1, <2>1
<1>3. ASSUME NEW m \in 0 .. n - 1, m \in P
      PROVE  m + 1 \in P
  <2>1. PICK f : Steps(f, m)
    BY <1>3
  <2> DEFINE g == [k \in 0 .. m + 1 |-> IF k = m + 1 THEN lirs_pop_hir(f[m]) ELSE f[k]]
  <2>2. Steps(g, m + 1)
    BY <1>1, <2>1
  <2> HIDE DEF g
  <2> QED
    BY <1>1, <2>2
<1>4. n \in P
  <2> HIDE DEF P
  <2>1. \A k \in 0 .. n : k \in P
    BY <1>1, <1>2, <1>3, UpTo
  <2> QED
    BY <1>1, <2>1
<1> DEFINE popped == CHOOSE f : Steps(f, n)
<1>5. Steps(popped, n)
  BY <1>4
<1>6. lirs_find_last_lir_lru(l) = popped[n]
  BY DEF lirs_find_last_lir_lru, n
<1> HIDE DEF popped
<1>7. popped[0] = l /\ \A k \in 0 .. n - 1 : popped[k + 1] = lirs_pop_hir(popped[k])
  BY <1>1, <1>5
<1> DEFINE C == {k \in 0 .. n : /\ Popped(l, popped[k], out)
                                /\ \/ TopIsLir(popped[k])
                                   \/ Len(popped[k].queue["s"]) = n - k}
<1>8. 0 \in C
  BY <1>1, <1>7, PoppedNothing DEF n
<1>9. ASSUME NEW k \in 0 .. n - 1, k \in C
      PROVE  k + 1 \in C
  <2> DEFINE y == popped[k]
             z == popped[k + 1]
  <2>1. /\ Popped(l, y, out)
        /\ TopIsLir(y) \/ Len(y.queue["s"]) = n - k
    BY <1>9
  <2>2. Sound(y, out) /\ z = lirs_pop_hir(y)
    BY <1>7, <2>1 DEF Popped
  <2> HIDE DEF y, z
  <2>3. /\ Popped(y, z, out)
        /\ (TopIsLir(y) /\ z = y) \/ Len(z.queue["s"]) = Len(y.queue["s"]) - 1
    BY <2>2, PopHirSound
  <2>4. Popped(l, z, out) /\ (TopIsLir(y) => TopIsLir(z))
    BY <2>1, <2>3, PoppedTwice DEF Popped
  <2>5. TopIsLir(z) \/ Len(z.queue["s"]) = n - (k + 1)
    BY <1>1, <2>1, <2>3, <2>4
  <2> QED
    BY <1>1, <2>4, <2>5 DEF z
<1>10. n \in C
  <2> HIDE DEF C
  <2>1. \A k \in 0 .. n : k \in C
    BY <1>1, <1>8, <1>9, UpTo
  <2> QED
    BY <1>1, <2>1
<1>11. Popped(l, popped[n], out) /\ (TopIsLir(popped[n]) \/ Len(popped[n].queue["s"]) = 0)
  BY <1>1, <1>10
<1>12. ASSUME Len(popped[n].queue["s"]) = 0
       PROVE  TopIsLir(popped[n])
  <2>1. popped[n].queue["s"] \in Seq(Oblocks)
    BY <1>11, StructParts, QueueNames DEF Popped, Sound
  <2> QED
    BY <1>12, <2>1, EmptySeq DEF TopIsLir
<1> QED
  BY <1>6, <1>11, <1>12

\* The oldest block of S, if it is LIR, becomes HIR.
LEMMA SEvictSound ==
  ASSUME NEW l, NEW out, Sound(l, out),
         l.queue["s"] # <<>>, TopIsLir(l), Head(l.queue["s"]) \in l.cached
  PROVE  LET x == lirs_s_evict(l)
         IN  /\ Sound(x, out)
             /\ x.cached = l.cached /\ x.migrating = l.migrating
             /\ x.hir = l.hir \cup {Head(l.queue["s"])}
             /\ x.last_oblock = l.last_oblock /\ x.fault = l.fault
             /\ x.lir_count = l.lir_count - 1
             /\ x.s_len - Len(x.queue["s"]) = l.s_len - Len(l.queue["s"])
<1> DEFINE o == Head(l.queue["s"])
           lc == l.lir_count - 1
           k == [l EXCEPT !.hir = l.hir \cup {o}, !.lir_count = lc]
           y == lirs_remove_from_queues(k, o)
           ns == {"q"}
           x == lirs_push_to_queues(y, o, ns)
<1>1. l \in Structs /\ QueuesSound(l) /\ StatusSound(l, out) /\ CountsSound(l)
  BY DEF Sound
<1>2. o \in Members(l, "s") /\ o \notin l.hir /\ o \in l.cached /\ o \in Oblocks
  <2>1. o \in ToSet(l.queue["s"])
    BY <1>1, StructParts, QueueNames, HeadIsFirst DEF QueuesSound
  <2> QED
    BY <1>1, <2>1, StructParts, QueueNames DEF TopIsLir, Members
<1>3. /\ o \notin out /\ o \notin Members(l, "q") /\ o \notin Members(l, "r")
      /\ o \notin Members(l, "g")
  BY <1>1, <1>2 DEF StatusSound
<1>4. x = lirs_s_evict(l)
  BY <1>2 DEF lirs_s_evict
<1> HIDE DEF o
<1>5. lc \in Int
  BY <1>1, StructParts
<1> HIDE DEF lc
<1>6. /\ k \in Structs
      /\ k.queue = l.queue /\ k.s_len = l.s_len
      /\ k.cached = l.cached /\ k.migrating = l.migrating /\ k.hir = l.hir \cup {o}
      /\ k.last_oblock = l.last_oblock /\ k.fault = l.fault
      /\ k.lir_count = lc
  BY <1>1, <1>2, <1>5 DEF Structs
<1> HIDE DEF k
<1>7. QueuesSound(k) /\ \A n \in Queues : Members(k, n) = Members(l, n)
  BY <1>1, <1>6 DEF QueuesSound, Members
<1>8. /\ y \in Structs
      /\ QueuesSound(y)
      /\ \A n \in Queues : Members(y, n) = Members(k, n) \ {o}
      /\ y.cached = k.cached /\ y.migrating = k.migrating /\ y.hir = k.hir
      /\ y.last_oblock = k.last_oblock /\ y.fault = k.fault
      /\ y.lir_count = k.lir_count
      /\ y.s_len - Len(y.queue["s"]) = k.s_len - Len(k.queue["s"])
  BY <1>6, <1>7, FromQueues
<1> HIDE DEF y
<1>9. /\ Members(y, "q") = Members(l, "q")
      /\ Members(y, "r") = Members(l, "r")
      /\ Members(y, "s") = Members(l, "s") \ {o}
      /\ Members(y, "g") = Members(l, "g")
  BY <1>3, <1>7, <1>8, QueueNames
<1>10. MayPush(y, o, ns)
  BY <1>1, <1>3, <1>9 DEF MayPush, StatusSound
<1> HIDE DEF ns
<1>11. /\ x \in Structs
       /\ QueuesSound(x)
       /\ x.queue = [n \in Queues |-> IF n \in ns THEN queue_push(y.queue[n], o)
                                                     ELSE y.queue[n]]
       /\ \A n \in Queues : Members(x, n) = IF n \in ns THEN Members(y, n) \cup {o}
                                                           ELSE Members(y, n)
       /\ x.cached = y.cached /\ x.migrating = y.migrating /\ x.hir = y.hir
       /\ x.last_oblock = y.last_oblock /\ x.fault = y.fault
       /\ x.lir_count = y.lir_count /\ x.s_len = y.s_len
  BY <1>2, <1>8, <1>10, ToQueues
<1> HIDE DEF x
<1>12. /\ Members(x, "q") = Members(l, "q") \cup {o}
       /\ Members(x, "r") = Members(l, "r")
       /\ Members(x, "s") = Members(l, "s") \ {o}
       /\ Members(x, "g") = Members(l, "g")
       /\ x.queue["s"] = y.queue["s"]
  BY <1>9, <1>11, QueueNames DEF ns
<1>13. /\ x.cached = l.cached /\ x.migrating = l.migrating /\ x.hir = l.hir \cup {o}
       /\ x.last_oblock = l.last_oblock /\ x.fault = l.fault
       /\ x.lir_count = l.lir_count - 1
       /\ x.s_len - Len(x.queue["s"]) = l.s_len - Len(l.queue["s"])
  BY <1>6, <1>8, <1>11, <1>12 DEF lc
<1>14. StatusSound(x, out)
  BY <1>1, <1>2, <1>3, <1>12, <1>13 DEF StatusSound
<1>15. CountsSound(x)
  <2>1. /\ IsFiniteSet(l.cached) /\ Cardinality(l.cached) <= CacheSize
        /\ l.lir_count = Cardinality(l.cached \ l.hir)
    BY <1>1 DEF CountsSound
  <2>2. IsFiniteSet(l.cached \ l.hir)
    BY <2>1, FS_Subset, l.cached \ l.hir \subseteq l.cached
  <2>3. o \in l.cached \ l.hir /\ x.cached \ x.hir = (l.cached \ l.hir) \ {o}
    BY <1>2, <1>13
  <2>4. Cardinality((l.cached \ l.hir) \ {o}) = Cardinality(l.cached \ l.hir) - 1
    BY <2>2, <2>3, FS_RemoveElement
  <2> QED
    BY <1>13, <2>1, <2>3, <2>4 DEF CountsSound
<1> QED
  BY <1>4, <1>11, <1>13, <1>14, <1>15 DEF Sound, o

\* The struct x after a cached HIR block, o, has been evicted from l.
Evicted(l, x, o, out) ==
  /\ Sound(x, out)
  /\ x.cached = l.cached \ {o} /\ x.migrating = l.migrating
  /\ x.hir \subseteq l.hir
  /\ x.cached \ x.hir = l.cached \ l.hir
  /\ x.last_oblock = l.last_oblock /\ x.fault = l.fault
  /\ x.lir_count = l.lir_count
  /\ x.s_len - Len(x.queue["s"]) = l.s_len - Len(l.queue["s"])
  /\ TopIsLir(l) => TopIsLir(x)

\* A cached HIR block of S becomes a ghost, if the meta pool has any entry.
LEMMA ReplaceSound ==
  ASSUME NEW l, NEW out, Sound(l, out),
         NEW o \in l.cached, o \in l.hir, o \in Members(l, "s")
  PROVE  LET x == lirs_replace_with_meta(l, o)
         IN  \/ x = Fault(l) /\ MetaSize = 0
             \/ Evicted(l, x, o, out)
<1> DEFINE g == l.queue["g"]
           full == Len(g) >= MetaSize
           room == IF full THEN lirs_remove_entry(l, Head(g)) ELSE l
           y == [room EXCEPT !.queue["q"] = queue_remove(@, o)]
           x == [room EXCEPT !.queue["q"] = queue_remove(@, o),
                             !.queue["g"] = queue_push(@, o),
                             !.cached = @ \ {o},
                             !.migrating = @ \ {o}]
<1>1. l \in Structs /\ QueuesSound(l) /\ StatusSound(l, out) /\ CountsSound(l)
  BY DEF Sound
<1>2. o \in Members(l, "r") /\ o \notin Members(l, "g") /\ o \notin out /\ o \in Oblocks
  BY <1>1, StructParts DEF StatusSound
<1>3. in_queue(l, "s", o) /\ in_queue(l, "r", o)
  BY <1>2 DEF in_queue, Members
<1>4. g \in Seq(Oblocks) /\ IsInjective(g)
  BY <1>1, StructParts, QueueNames DEF QueuesSound
<1>5. CASE full /\ g = <<>>
  <2>1. MetaSize = 0
    BY <1>5, LirsAssumption
  <2>2. lirs_replace_with_meta(l, o) = Fault(l)
    BY <1>5 DEF lirs_replace_with_meta
  <2> QED
    BY <2>1, <2>2
<1>6. CASE ~(full /\ g = <<>>)
  <2>1. lirs_replace_with_meta(l, o) = x
    BY <1>3, <1>6 DEF lirs_replace_with_meta
  <2>2. /\ Sound(room, out)
        /\ o \in room.cached /\ o \in room.hir /\ o \in Members(room, "s")
        /\ room.cached = l.cached /\ room.migrating = l.migrating
        /\ room.hir \subseteq l.hir
        /\ room.cached \ room.hir = l.cached \ l.hir
        /\ room.last_oblock = l.last_oblock /\ room.fault = l.fault
        /\ room.lir_count = l.lir_count
        /\ room.s_len - Len(room.queue["s"]) = l.s_len - Len(l.queue["s"])
        /\ TopIsLir(l) => TopIsLir(room)
    <3>1. CASE ~full
      BY <3>1, <1>1 DEF Sound
    <3>2. CASE full
      <4> DEFINE h == Head(g)
                 w == lirs_remove_entry(l, h)
      <4>1. h \in Members(l, "g")
        BY <1>4, <1>6, <3>2, HeadIsFirst DEF Members
      <4>2. h \notin l.cached /\ h \notin out /\ h \notin l.migrating /\ h # o /\ h \in l.hir
        BY <1>1, <1>2, <4>1 DEF StatusSound
      <4> HIDE DEF h
      <4>3. EntryRemoved(l, w, h, out)
        BY <4>1, RemoveEntrySound
      <4>4. room = w
        BY <3>2 DEF h
      <4> HIDE DEF w, room
      <4>5. out \ {h} = out /\ w.cached = l.cached /\ w.migrating = l.migrating
        BY <4>2, <4>3 DEF EntryRemoved
      <4>6. o \in Members(w, "s")
        BY <4>2, <4>3, QueueNames DEF EntryRemoved
      <4> QED
        BY <4>2, <4>3, <4>4, <4>5, <4>6 DEF EntryRemoved
    <3> QED
      BY <3>1, <3>2
  <2> HIDE DEF room
  <2>3. /\ room \in Structs /\ QueuesSound(room) /\ StatusSound(room, out) /\ CountsSound(room)
    BY <2>2 DEF Sound
  <2> DEFINE yq == [n \in Queues |-> IF n \in {"q"} THEN queue_remove(room.queue[n], o)
                                                    ELSE room.queue[n]]
             xq == [n \in Queues |-> IF n \in {"g"} THEN queue_push(yq[n], o) ELSE yq[n]]
  <2>4. /\ y.queue = yq
        /\ y.cached = room.cached /\ y.migrating = room.migrating /\ y.hir = room.hir
    BY <2>3 DEF Structs, Queues
  <2>5. /\ x.queue = xq
        /\ x.s_len = room.s_len /\ x.lir_count = room.lir_count
        /\ x.cached = room.cached \ {o} /\ x.migrating = room.migrating \ {o}
        /\ x.hir = room.hir /\ x.last_oblock = room.last_oblock /\ x.fault = room.fault
    BY <2>3 DEF Structs, Queues
  <2>6. \A n \in Queues : room.queue[n] \in Seq(Oblocks)
    BY <2>3, StructParts
  <2>7. yq \in [Queues -> Seq(Oblocks)]
    <3>1. queue_remove(room.queue["q"], o) \in Seq(Oblocks)
      BY <2>3, <2>6, QueueNames, QueueRemove DEF QueuesSound
    <3> QED
      BY <2>6, <3>1
  <2>8. y \in Structs
    <3>1. y = [room EXCEPT !.queue = yq]
      BY <2>3, <2>4 DEF Structs
    <3> HIDE DEF yq, y
    <3> QED
      BY <2>3, <2>7, <3>1 DEF Structs
  <2>9. RemovedFrom(room, y, o, {"q"})
    BY <2>4 DEF RemovedFrom
  <2>10. PushedTo(y, x, o, {"g"})
    BY <2>4, <2>5 DEF PushedTo
  <2>11. x = [room EXCEPT !.queue = xq, !.cached = room.cached \ {o},
                          !.migrating = room.migrating \ {o}]
    BY <2>3, <2>5 DEF Structs
  <2> HIDE DEF x, y, yq
  <2>12. QueuesSound(y)
    BY <2>3, <2>9, RemovedQueues
  <2>13. \A n \in Queues : Members(y, n) = IF n \in {"q"} THEN Members(room, n) \ {o}
                                                          ELSE Members(room, n)
    BY <2>3, <2>9, RemovedQueues
  <2>14. MayPush(y, o, {"g"})
    BY <2>2, <2>3, <2>13, QueueNames DEF MayPush, StatusSound
  <2>15. QueuesSound(x) /\ NewMembers(y, x, o, {"g"})
    BY <1>2, <2>8, <2>10, <2>12, <2>14, PushedQueues
  <2>16. \A n \in Queues : x.queue[n] \in Seq(Oblocks)
    BY <2>15 DEF NewMembers
  <2>17. /\ Members(x, "q") = Members(room, "q") \ {o}
         /\ Members(x, "r") = Members(room, "r")
         /\ Members(x, "s") = Members(room, "s")
         /\ Members(x, "g") = Members(room, "g") \cup {o}
         /\ x.queue["s"] = room.queue["s"]
    BY <2>4, <2>5, <2>13, <2>15, QueueNames DEF NewMembers, yq
  <2>18. x \in Structs
    <3>1. xq \in [Queues -> Seq(Oblocks)]
      BY <2>5, <2>16
    <3> HIDE DEF xq
    <3> QED
      BY <2>3, <2>11, <3>1 DEF Structs
  <2> HIDE DEF xq
  <2>19. StatusSound(x, out)
    BY <1>2, <2>2, <2>3, <2>5, <2>17 DEF StatusSound
  <2>20. x.cached \ x.hir = room.cached \ room.hir
    BY <2>2, <2>5
  <2>21. CountsSound(x)
    <3>1. IsFiniteSet(x.cached) /\ Cardinality(x.cached) <= Cardinality(room.cached)
      BY <2>3, <2>5, FS_Subset DEF CountsSound
    <3>2. IsFiniteSet(room.cached) /\ Cardinality(room.cached) <= CacheSize
      BY <2>3 DEF CountsSound
    <3>3. Cardinality(x.cached) <= CacheSize
      BY <3>1, <3>2, FS_CardinalityType, NucleusAssumption
    <3> QED
      BY <2>3, <2>5, <2>20, <3>1, <3>3 DEF CountsSound
  <2>22. o \notin l.migrating
    BY <1>1, <1>2 DEF StatusSound
  <2>23. TopIsLir(room) => TopIsLir(x)
    BY <2>5, <2>17 DEF TopIsLir
  <2>24. Evicted(l, x, o, out)
    BY <2>2, <2>5, <2>15, <2>17, <2>18, <2>19, <2>20, <2>21, <2>22, <2>23 DEF Evicted, Sound
  <2> QED
    BY <2>1, <2>24
<1> QED
  BY <1>5, <1>6

\* The head of Q makes room.
LEMMA QEvictSound ==
  ASSUME NEW l, NEW out, Sound(l, out), l.queue["q"] # <<>>
  PROVE  LET x == lirs_q_evict(l)
             v == Head(l.queue["q"])
         IN  /\ v \in l.cached \ out /\ v \in l.hir
             /\ \/ x = Fault(l) /\ MetaSize = 0
                \/ Evicted(l, x, v, out)
<1> DEFINE v == Head(l.queue["q"])
           x == lirs_q_evict(l)
<1>1. l \in Structs /\ QueuesSound(l) /\ StatusSound(l, out) /\ CountsSound(l)
  BY DEF Sound
<1>2. v \in l.cached \ out /\ v \in l.hir
  <2>1. v \in Members(l, "q")
    BY <1>1, StructParts, QueueNames, HeadIsFirst DEF QueuesSound, Members
  <2> QED
    BY <1>1, <2>1 DEF StatusSound
<1>3. x = IF v \in Members(l, "s") THEN lirs_replace_with_meta(l, v) ELSE lirs_remove_entry(l, v)
  BY DEF lirs_q_evict, in_queue, Members
<1> HIDE DEF v, x
<1>4. CASE v \in Members(l, "s")
  BY <1>2, <1>3, <1>4, ReplaceSound DEF v, x
<1>5. CASE v \notin Members(l, "s")
  <2> DEFINE w == lirs_remove_entry(l, v)
  <2>1. EntryRemoved(l, w, v, out)
    BY <1>2, RemoveEntrySound
  <2>2. x = w
    BY <1>3, <1>5
  <2> HIDE DEF w
  <2>3. out \ {v} = out /\ l.migrating \ {v} = l.migrating
    BY <1>1, <1>2 DEF StatusSound
  <2>4. w.cached \ w.hir = l.cached \ l.hir
    BY <1>2, <2>1 DEF EntryRemoved
  <2>5. Evicted(l, w, v, out)
    BY <1>2, <2>1, <2>3, <2>4 DEF Evicted, EntryRemoved
  <2> QED
    BY <1>2, <2>2, <2>5 DEF v, x
<1> QED
  BY <1>4, <1>5

-----------------------------------------------------------------------------
(***************************************************************************)
(* LIRS: a request.                                                        *)
(***************************************************************************)

\* The blocks in flight, and the request's own if it is cached.
OutWith(l, o) == IF o \in l.cached THEN l.migrating \cup {o} ELSE l.migrating

\* The struct x after the entry of block o, which is requested, has left the lists of l.
OwnUnlinked(l, x, o) ==
  /\ Sound(x, OutWith(l, o))
  /\ x.cached = l.cached /\ x.migrating = l.migrating
  /\ x.hir \subseteq l.hir
  /\ o \notin l.cached => o \notin x.hir
  /\ x.cached \ x.hir = l.cached \ l.hir
  /\ x.last_oblock = o /\ x.fault = l.fault
  /\ x.lir_count = l.lir_count
  /\ o \notin l.cached => x.queue["q"] = l.queue["q"]
  /\ o \notin l.migrating =>
       /\ x.s_len - Len(x.queue["s"]) = l.s_len - Len(l.queue["s"])
       /\ TopIsLir(l) /\ (l.queue["s"] # <<>> => Head(l.queue["s"]) # o) => TopIsLir(x)

LEMMA CommitUnlinkSound ==
  ASSUME NEW l, NEW o \in Oblocks, Sound(l, l.migrating)
  PROVE  OwnUnlinked(l, lirs_commit_unlink([l EXCEPT !.last_oblock = o], o), o)
<1> DEFINE k == [l EXCEPT !.last_oblock = o]
           x == lirs_commit_unlink(k, o)
           M == l.migrating
<1>1. /\ l \in Structs /\ QueuesSound(l) /\ StatusSound(l, M) /\ CountsSound(l)
  BY DEF Sound
<1>2. /\ k \in Structs
      /\ k.queue = l.queue /\ k.s_len = l.s_len
      /\ k.cached = l.cached /\ k.migrating = M /\ k.hir = l.hir
      /\ k.last_oblock = o /\ k.fault = l.fault
      /\ k.lir_count = l.lir_count
  BY <1>1 DEF Structs
<1> HIDE DEF k, x
<1>3. QueuesSound(k) /\ \A n \in Queues : Members(k, n) = Members(l, n)
  BY <1>1, <1>2 DEF QueuesSound, Members
<1>4. /\ StatusSound(k, M) /\ CountsSound(k) /\ Sound(k, M)
  <2>1. StatusSound(k, M)
    BY <1>1, <1>2, <1>3, QueueNames DEF StatusSound
  <2>2. CountsSound(k)
    BY <1>1, <1>2 DEF CountsSound
  <2> QED
    BY <1>2, <1>3, <2>1, <2>2 DEF Sound
<1>5. /\ \A n \in Queues : k.queue[n] \in Seq(Oblocks) /\ IsInjective(k.queue[n])
      /\ k.s_len \in Int /\ Len(k.queue["s"]) \in Nat
  BY <1>2, <1>3, StructParts, QueueNames, LenProperties DEF QueuesSound
\* The head of S is the same if it is another block.
<1>6. ASSUME NEW y, y.queue["s"] = queue_remove(k.queue["s"], o), y.hir \subseteq l.hir,
             TopIsLir(l), l.queue["s"] # <<>> => Head(l.queue["s"]) # o
      PROVE  TopIsLir(y)
  <2>1. CASE l.queue["s"] = <<>>
    <3>1. ToSet(l.queue["s"]) = {}
      BY <2>1 DEF ToSet
    <3>2. y.queue["s"] = <<>>
      BY <1>2, <1>6, <2>1, <3>1 DEF queue_remove
    <3> QED
      BY <3>2 DEF TopIsLir
  <2>2. CASE l.queue["s"] # <<>>
    BY <1>2, <1>5, <1>6, <2>2, QueueNames, SameHead DEF TopIsLir
  <2> QED
    BY <2>1, <2>2
<1>7. CASE o \in Members(l, "g")
  <2>1. o \notin l.cached /\ o \notin M /\ o \in l.hir
    BY <1>1, <1>7 DEF StatusSound
  <2> DEFINE w == lirs_remove_entry(k, o)
  <2>2. o \in k.cached \cup Members(k, "g")
    BY <1>3, <1>7, QueueNames
  <2>3. EntryRemoved(k, w, o, M)
    BY <1>4, <2>2, RemoveEntrySound
  <2>4. x = w
    <3>1. o \in ToSet(k.queue["g"])
      BY <1>3, <1>7, QueueNames DEF Members
    <3> QED
      BY <1>2, <2>1, <3>1 DEF lirs_commit_unlink, lirs_ghosts, x
  <2> HIDE DEF w
  <2>5. w.queue["q"] = l.queue["q"]
    <3>1. o \notin ToSet(k.queue["q"])
      BY <1>4, <1>2, <2>1 DEF StatusSound, Members
    <3> QED
      BY <1>2, <2>3, <3>1, QueueNames DEF queue_remove, EntryRemoved
  <2>6. OutWith(l, o) = M \ {o} /\ M \ {o} = M
    BY <2>1 DEF OutWith
  <2>7. w.queue["s"] = queue_remove(k.queue["s"], o)
    BY <2>3, QueueNames DEF EntryRemoved
  <2>8. w.cached \ w.hir = l.cached \ l.hir /\ w.cached = l.cached
    BY <1>2, <2>1, <2>3 DEF EntryRemoved
  <2>9. w.s_len - Len(w.queue["s"]) = l.s_len - Len(l.queue["s"])
    BY <1>2, <2>3 DEF EntryRemoved
  <2>10. /\ Sound(w, OutWith(l, o))
         /\ w.migrating = l.migrating /\ w.hir = l.hir \ {o}
         /\ w.last_oblock = o /\ w.fault = l.fault /\ w.lir_count = l.lir_count
    BY <1>2, <2>1, <2>3, <2>6 DEF EntryRemoved
  <2>11. TopIsLir(l) /\ (l.queue["s"] # <<>> => Head(l.queue["s"]) # o) => TopIsLir(w)
    BY <1>6, <2>7, <2>10
  <2>12. OwnUnlinked(l, w, o)
    BY <2>5, <2>8, <2>9, <2>10, <2>11 DEF OwnUnlinked
  <2> QED
    BY <2>4, <2>12 DEF x, k
<1>8. CASE o \in M
  <2>1. o \notin Members(l, "g") /\ o \in l.cached
    BY <1>1, <1>8 DEF StatusSound
  <2> DEFINE sl == k.s_len - 1
             w == [k EXCEPT !.s_len = sl]
  <2>2. x = w
    BY <1>2, <1>3, <1>8, <2>1, QueueNames DEF lirs_commit_unlink, lirs_ghosts, Members, x
  <2>3. sl \in Int
    BY <1>5
  <2> HIDE DEF sl
  <2>4. /\ w \in Structs
        /\ w.queue = k.queue
        /\ w.cached = k.cached /\ w.migrating = k.migrating /\ w.hir = k.hir
        /\ w.last_oblock = k.last_oblock /\ w.fault = k.fault
        /\ w.lir_count = k.lir_count
    BY <1>2, <2>3 DEF Structs
  <2> HIDE DEF w
  <2>5. QueuesSound(w) /\ \A n \in Queues : Members(w, n) = Members(k, n)
    BY <1>3, <2>4 DEF QueuesSound, Members
  <2>6. StatusSound(w, M)
    BY <1>4, <2>4, <2>5, QueueNames DEF StatusSound
  <2>7. CountsSound(w)
    BY <1>4, <2>4 DEF CountsSound
  <2>8. OutWith(l, o) = M
    BY <1>8 DEF OutWith
  <2>9. Sound(w, OutWith(l, o))
    BY <2>4, <2>5, <2>6, <2>7, <2>8 DEF Sound
  <2>10. OwnUnlinked(l, w, o)
    BY <1>2, <1>8, <2>1, <2>4, <2>9 DEF OwnUnlinked
  <2> QED
    BY <2>2, <2>10 DEF x, k
<1>9. CASE o \in l.cached \ M
  <2>1. o \notin Members(l, "g")
    BY <1>1, <1>9 DEF StatusSound
  <2> DEFINE w == lirs_remove_from_queues(k, o)
  <2>2. o \in k.cached \ M
    BY <1>2, <1>9
  <2>3. Unlinked(k, w, o, M)
    BY <1>4, <2>2, UnlinkSound
  <2>4. x = w
    BY <1>2, <1>3, <1>9, <2>1, QueueNames DEF lirs_commit_unlink, lirs_ghosts, Members, x
  <2> HIDE DEF w
  <2>5. OutWith(l, o) = M \cup {o}
    BY <1>9 DEF OutWith
  <2>6. w.queue["s"] = queue_remove(k.queue["s"], o)
    BY <2>3, QueueNames DEF Unlinked
  <2>7. w.s_len - Len(w.queue["s"]) = l.s_len - Len(l.queue["s"])
    BY <1>2, <2>3 DEF Unlinked
  <2>8. /\ Sound(w, OutWith(l, o))
        /\ w.cached = l.cached /\ w.migrating = l.migrating /\ w.hir = l.hir
        /\ w.last_oblock = o /\ w.fault = l.fault /\ w.lir_count = l.lir_count
    BY <1>2, <2>3, <2>5 DEF Unlinked
  <2>9. TopIsLir(l) /\ (l.queue["s"] # <<>> => Head(l.queue["s"]) # o) => TopIsLir(w)
    BY <1>6, <2>6, <2>8
  <2>10. OwnUnlinked(l, w, o)
    BY <1>9, <2>7, <2>8, <2>9 DEF OwnUnlinked
  <2> QED
    BY <2>4, <2>10 DEF x, k
<1>10. CASE o \notin Members(l, "g") /\ o \notin l.cached
  <2>1. x = k
    BY <1>1, <1>2, <1>3, <1>10, QueueNames
    DEF lirs_commit_unlink, lirs_ghosts, Members, StatusSound, x
  <2>2. OutWith(l, o) = M
    BY <1>10 DEF OutWith
  <2>3. o \notin l.hir
    BY <1>1, <1>10 DEF StatusSound
  <2>4. TopIsLir(l) => TopIsLir(k)
    BY <1>2 DEF TopIsLir
  <2>5. OwnUnlinked(l, k, o)
    BY <1>2, <1>4, <1>10, <2>2, <2>3, <2>4 DEF OwnUnlinked
  <2> QED
    BY <2>1, <2>5 DEF x, k
<1> QED
  BY <1>7, <1>8, <1>9, <1>10 DEF x, k

\* A failure changes nothing else.
LEMMA FaultSound ==
  ASSUME NEW l, NEW out, Sound(l, out)
  PROVE  /\ Sound(Fault(l), out)
         /\ Fault(l).fault
         /\ Fault(l).cached = l.cached /\ Fault(l).migrating = l.migrating
         /\ Fault(l).hir = l.hir
<1> DEFINE x == Fault(l)
<1>1. /\ x \in Structs
      /\ x.queue = l.queue /\ x.cached = l.cached /\ x.migrating = l.migrating
      /\ x.hir = l.hir /\ x.lir_count = l.lir_count /\ x.fault = TRUE
  BY DEF Sound, Structs, Fault
<1> HIDE DEF x
<1>2. QueuesSound(x) /\ \A n \in Queues : Members(x, n) = Members(l, n)
  BY <1>1 DEF Sound, QueuesSound, Members
<1>3. StatusSound(x, out)
  BY <1>1, <1>2, QueueNames DEF Sound, StatusSound
<1>4. CountsSound(x)
  BY <1>1 DEF Sound, CountsSound
<1> QED
  BY <1>1, <1>2, <1>3, <1>4 DEF Sound, x

\* The steps of a commit: room is made, the entry is committed, a LIR block may have to
\* become HIR, and the entry gets its places.
MakeRoom(l, o, t) ==
  LET l1 == lirs_commit_unlink([l EXCEPT !.last_oblock = o], o)
      l2 == IF t.lir_s_lru THEN lirs_find_last_lir_lru(l1) ELSE l1
  IN  IF t.hir_evict THEN lirs_q_evict(l2) ELSE l2

Demote(l, t) == IF t.lir_evict THEN lirs_find_last_lir_lru(lirs_s_evict(l)) ELSE l

Place(l, o, t) ==
  LET x == IF o \in l.migrating THEN l ELSE lirs_enqueue(l, o, t.is_HIR)
  IN  [x EXCEPT !.s_len = @ + 1]

LEMMA CommitSteps ==
  ASSUME NEW l, NEW o, NEW t
  PROVE  lirs_transaction_commit(l, o, t) =
           lirs_prune_s(Place(Demote(lirs_commit_entry(MakeRoom(l, o, t), o, t), t), o, t))
BY DEF lirs_transaction_commit, MakeRoom, Demote, Place

\* The struct x after the entry of o has left the lists of l, and the blocks gone have
\* been evicted.
RoomMade(l, x, o, gone) ==
  /\ Sound(x, OutWith(l, o))
  /\ x.cached = l.cached \ gone /\ x.migrating = l.migrating
  /\ o \in x.hir <=> o \in l.cached \cap l.hir
  /\ x.cached \ x.hir = l.cached \ l.hir
  /\ x.last_oblock = o /\ x.fault = l.fault
  /\ x.lir_count = l.lir_count
  /\ o \notin l.migrating =>
       /\ x.s_len - Len(x.queue["s"]) = l.s_len - Len(l.queue["s"])
       /\ TopIsLir(l) => TopIsLir(x)

Gone(l, t) == IF t.hir_evict THEN {Head(l.queue["q"])} ELSE {}

LEMMA MakeRoomSound ==
  ASSUME NEW l, NEW o \in Oblocks, NEW t, Sound(l, l.migrating),
         t.hir_evict => o \notin l.cached /\ l.queue["q"] # <<>>,
         t.lir_s_lru <=> l.queue["s"] # <<>> /\ Head(l.queue["s"]) = o
  PROVE  LET x == MakeRoom(l, o, t)
         IN  /\ Gone(l, t) \subseteq l.cached \ OutWith(l, o)
             /\ \/ RoomMade(l, x, o, Gone(l, t))
                \/ /\ MetaSize = 0 /\ t.hir_evict
                   /\ Sound(x, l.migrating) /\ x.fault /\ x.cached = l.cached
                   /\ x.migrating = l.migrating
<1> DEFINE out == OutWith(l, o)
           l1 == lirs_commit_unlink([l EXCEPT !.last_oblock = o], o)
           l2 == IF t.lir_s_lru THEN lirs_find_last_lir_lru(l1) ELSE l1
           x == IF t.hir_evict THEN lirs_q_evict(l2) ELSE l2
           v == Head(l.queue["q"])
<1>1. OwnUnlinked(l, l1, o)
  BY CommitUnlinkSound
<1>2. x = MakeRoom(l, o, t)
  BY DEF MakeRoom
<1> HIDE DEF l1
<1>3. Sound(l1, out)
  BY <1>1 DEF OwnUnlinked
<1>4. Popped(l1, l2, out) /\ (t.lir_s_lru => TopIsLir(l2))
  <2>1. CASE t.lir_s_lru
    BY <1>3, <2>1, FindLastSound
  <2>2. CASE ~t.lir_s_lru
    BY <1>3, <2>2, PoppedNothing
  <2> QED
    BY <2>1, <2>2
<1> HIDE DEF l2
<1>5. RoomMade(l, l2, o, {})
  <2>1. /\ Sound(l2, out)
        /\ l2.cached = l.cached \ {} /\ l2.migrating = l.migrating
        /\ l2.cached \ l2.hir = l.cached \ l.hir
        /\ l2.last_oblock = o /\ l2.fault = l.fault
        /\ l2.lir_count = l.lir_count
    BY <1>1, <1>4 DEF OwnUnlinked, Popped
  <2>2. o \in l2.hir <=> o \in l.cached \cap l.hir
    <3>1. o \notin l.cached => o \notin l2.hir
      BY <1>1, <1>4 DEF OwnUnlinked, Popped
    <3> QED
      BY <2>1, <3>1
  <2>3. ASSUME o \notin l.migrating
        PROVE  /\ l2.s_len - Len(l2.queue["s"]) = l.s_len - Len(l.queue["s"])
               /\ TopIsLir(l) => TopIsLir(l2)
    BY <1>1, <1>4, <2>3 DEF OwnUnlinked, Popped
  <2> QED
    BY <2>1, <2>2, <2>3 DEF RoomMade
<1>6. CASE ~t.hir_evict
  <2>1. x = l2 /\ Gone(l, t) = {}
    BY <1>6 DEF Gone
  <2> QED
    BY <1>2, <1>5, <2>1
<1>7. CASE t.hir_evict
  <2>1. x = lirs_q_evict(l2) /\ Gone(l, t) = {v}
    BY <1>7 DEF Gone
  <2>2. o \notin l.cached /\ l2.queue["q"] = l.queue["q"] /\ out = l.migrating
    BY <1>1, <1>4, <1>7 DEF OwnUnlinked, Popped, OutWith
  <2>3. Sound(l2, out) /\ l2.queue["q"] # <<>> /\ Head(l2.queue["q"]) = v
    BY <1>5, <1>7, <2>2 DEF RoomMade
  <2> HIDE DEF x
  <2>4. /\ v \in l2.cached \ out /\ v \in l2.hir
        /\ \/ x = Fault(l2) /\ MetaSize = 0
           \/ Evicted(l2, x, v, out)
    BY <2>1, <2>3, QEvictSound
  <2>5. {v} \subseteq l.cached \ out
    BY <1>5, <2>4 DEF RoomMade
  <2>6. CASE x = Fault(l2) /\ MetaSize = 0
    BY <1>2, <1>5, <1>7, <2>1, <2>2, <2>3, <2>5, <2>6, FaultSound DEF RoomMade
  <2>7. CASE Evicted(l2, x, v, out)
    <3>1. RoomMade(l, x, o, {v})
      <4>1. o \notin x.hir
        BY <1>5, <2>2, <2>7 DEF RoomMade, Evicted
      <4> QED
        BY <1>5, <2>2, <2>7, <4>1 DEF RoomMade, Evicted
    <3> QED
      BY <1>2, <2>1, <2>5, <3>1
  <2> QED
    BY <2>4, <2>6, <2>7
<1> QED
  BY <1>6, <1>7

\* The struct x after the entry of block o has been committed to l.
Committed(l, x, out) ==
  /\ Sound(x, out)
  /\ x.last_oblock = l.last_oblock /\ x.fault = l.fault
  /\ x.queue = l.queue /\ x.s_len = l.s_len
  /\ TopIsLir(l) => TopIsLir(x)

\* And a miss, or a hit, has been counted.
MissCommitted(l, x, o, is_HIR) ==
  /\ Committed(l, x, x.migrating)
  /\ x.cached = l.cached \cup {o}
  /\ x.migrating = l.migrating \cup {o}
  /\ is_HIR => x.hir = l.hir \cup {o} /\ x.lir_count = l.lir_count
  /\ ~is_HIR => x.hir = l.hir /\ x.lir_count = l.lir_count + 1

HitCommitted(l, x, o, out) ==
  /\ Committed(l, x, out)
  /\ x.cached = l.cached /\ x.migrating = l.migrating
  /\ x.hir = l.hir \ {o}
  /\ o \in l.hir => x.lir_count = l.lir_count + 1
  /\ o \notin l.hir => x.lir_count = l.lir_count

\* A miss.
LEMMA CommitMissSound ==
  ASSUME NEW l, NEW o \in Oblocks, NEW t, t.is_HIR \in BOOLEAN, Sound(l, l.migrating),
         o \notin l.cached, o \notin l.hir, Cardinality(l.cached) # CacheSize
  PROVE  MissCommitted(l, lirs_commit_entry(l, o, t), o, t.is_HIR)
<1> DEFINE x == lirs_commit_entry(l, o, t)
           h == IF t.is_HIR THEN l.hir \cup {o} ELSE l.hir \ {o}
           lc == IF t.is_HIR THEN l.lir_count ELSE l.lir_count + 1
           M == l.migrating \cup {o}
<1>1. l \in Structs /\ QueuesSound(l) /\ StatusSound(l, l.migrating) /\ CountsSound(l)
  BY DEF Sound
<1>2. x = [l EXCEPT !.cached = l.cached \cup {o}, !.migrating = M, !.hir = h, !.lir_count = lc]
  BY DEF lirs_commit_entry, policy_cache_is_full
<1>3. lc \in Int /\ h \subseteq Oblocks /\ M \subseteq Oblocks
  BY <1>1, StructParts
<1> HIDE DEF x
<1>4. /\ x.queue = l.queue /\ x.s_len = l.s_len
      /\ x.cached = l.cached \cup {o} /\ x.migrating = M /\ x.hir = h
      /\ x.last_oblock = l.last_oblock /\ x.fault = l.fault
      /\ x.lir_count = lc
  BY <1>1, <1>2 DEF Structs
<1>5. x \in Structs
  <2> HIDE DEF h, lc, M
  <2> QED
    BY <1>1, <1>2, <1>3 DEF Structs
<1>6. h = (IF t.is_HIR THEN l.hir \cup {o} ELSE l.hir)
  OBVIOUS
<1>7. QueuesSound(x) /\ \A n \in Queues : Members(x, n) = Members(l, n)
  BY <1>1, <1>4 DEF QueuesSound, Members
<1>8. o \notin Members(l, "s")
  BY <1>1 DEF StatusSound
<1>9. StatusSound(x, M)
  BY <1>1, <1>4, <1>7, <1>8, QueueNames DEF StatusSound
<1>10. CountsSound(x)
  <2>1. /\ IsFiniteSet(l.cached) /\ Cardinality(l.cached) <= CacheSize
        /\ Cardinality(l.cached) \in Nat
        /\ l.lir_count = Cardinality(l.cached \ l.hir)
    BY <1>1, FS_CardinalityType DEF CountsSound
  <2>2. IsFiniteSet(x.cached) /\ Cardinality(x.cached) = Cardinality(l.cached) + 1
    BY <1>4, <2>1, FS_AddElement
  <2>3. Cardinality(x.cached) <= CacheSize
    BY <2>1, <2>2, NucleusAssumption
  <2>4. CASE t.is_HIR
    <3>1. x.cached \ x.hir = l.cached \ l.hir
      BY <1>4, <2>4
    <3> QED
      BY <1>4, <2>1, <2>2, <2>3, <2>4, <3>1 DEF CountsSound
  <2>5. CASE ~t.is_HIR
    <3>1. x.cached \ x.hir = (l.cached \ l.hir) \cup {o}
      BY <1>4, <2>5
    <3>2. IsFiniteSet(l.cached \ l.hir)
      BY <2>1, FS_Subset, l.cached \ l.hir \subseteq l.cached
    <3>3. Cardinality((l.cached \ l.hir) \cup {o}) = Cardinality(l.cached \ l.hir) + 1
      BY <3>2, FS_AddElement, o \notin l.cached \ l.hir
    <3> QED
      BY <1>4, <2>1, <2>2, <2>3, <2>5, <3>1, <3>3 DEF CountsSound
  <2> QED
    BY <2>4, <2>5
<1>11. TopIsLir(l) => TopIsLir(x)
  <2>1. l.queue["s"] # <<>> => Head(l.queue["s"]) # o
    BY <1>1, <1>8, StructParts, QueueNames, HeadIsFirst DEF QueuesSound, Members
  <2> QED
    BY <1>4, <2>1 DEF TopIsLir
<1>12. Committed(l, x, M)
  BY <1>4, <1>5, <1>7, <1>9, <1>10, <1>11 DEF Committed, Sound
<1>13. /\ t.is_HIR => x.hir = l.hir \cup {o} /\ x.lir_count = l.lir_count
       /\ ~t.is_HIR => x.hir = l.hir /\ x.lir_count = l.lir_count + 1
  BY <1>4, <1>6
<1> QED
  BY <1>4, <1>12, <1>13 DEF x, MissCommitted

\* A hit makes an HIR block LIR.
LEMMA CommitHitSound ==
  ASSUME NEW l, NEW out, NEW o \in out, NEW t, Sound(l, out)
  PROVE  HitCommitted(l, lirs_commit_entry(l, o, t), o, out)
<1> DEFINE x == lirs_commit_entry(l, o, t)
           lc == IF o \in l.hir THEN l.lir_count + 1 ELSE l.lir_count
<1>1. l \in Structs /\ QueuesSound(l) /\ StatusSound(l, out) /\ CountsSound(l)
  BY DEF Sound
<1>2. o \in l.cached
  BY <1>1 DEF StatusSound
<1>3. x = [l EXCEPT !.lir_count = lc, !.hir = l.hir \ {o}]
  BY <1>2 DEF lirs_commit_entry
<1>4. lc \in Int /\ l.hir \subseteq Oblocks
  BY <1>1, StructParts
<1> HIDE DEF x
<1>5. /\ x.queue = l.queue /\ x.s_len = l.s_len
      /\ x.cached = l.cached /\ x.migrating = l.migrating /\ x.hir = l.hir \ {o}
      /\ x.last_oblock = l.last_oblock /\ x.fault = l.fault
      /\ x.lir_count = lc
  BY <1>1, <1>3 DEF Structs
<1>6. x \in Structs
  <2> HIDE DEF lc
  <2> QED
    BY <1>1, <1>3, <1>4 DEF Structs
<1>7. QueuesSound(x) /\ \A n \in Queues : Members(x, n) = Members(l, n)
  BY <1>1, <1>5 DEF QueuesSound, Members
<1>8. StatusSound(x, out)
  BY <1>1, <1>5, <1>7, QueueNames DEF StatusSound
<1>9. CountsSound(x)
  <2>1. /\ IsFiniteSet(l.cached) /\ Cardinality(l.cached) <= CacheSize
        /\ l.lir_count = Cardinality(l.cached \ l.hir)
    BY <1>1 DEF CountsSound
  <2>2. CASE o \notin l.hir
    <3>1. x.cached \ x.hir = l.cached \ l.hir
      BY <1>5, <2>2
    <3> QED
      BY <1>5, <2>1, <2>2, <3>1 DEF CountsSound
  <2>3. CASE o \in l.hir
    <3>1. x.cached \ x.hir = (l.cached \ l.hir) \cup {o}
      BY <1>2, <1>5, <2>3
    <3>2. IsFiniteSet(l.cached \ l.hir)
      BY <2>1, FS_Subset, l.cached \ l.hir \subseteq l.cached
    <3>3. Cardinality((l.cached \ l.hir) \cup {o}) = Cardinality(l.cached \ l.hir) + 1
      BY <2>3, <3>2, FS_AddElement, o \notin l.cached \ l.hir
    <3> QED
      BY <1>5, <2>1, <2>3, <3>1, <3>3 DEF CountsSound
  <2> QED
    BY <2>2, <2>3
<1>10. TopIsLir(l) => TopIsLir(x)
  BY <1>5 DEF TopIsLir
<1>11. Committed(l, x, out)
  BY <1>5, <1>6, <1>7, <1>8, <1>9, <1>10 DEF Committed, Sound
<1>12. /\ o \in l.hir => x.lir_count = l.lir_count + 1
       /\ o \notin l.hir => x.lir_count = l.lir_count
  BY <1>5
<1> QED
  BY <1>5, <1>11, <1>12 DEF x, HitCommitted

\* The struct x after a LIR block of l has become HIR, if n is 1.
Demoted(l, x, out, n) ==
  /\ Sound(x, out)
  /\ x.cached = l.cached /\ x.migrating = l.migrating
  /\ \A o \in out : o \in x.hir => o \in l.hir
  /\ x.last_oblock = l.last_oblock /\ x.fault = l.fault
  /\ x.lir_count = l.lir_count - n
  /\ x.s_len - Len(x.queue["s"]) = l.s_len - Len(l.queue["s"])
  /\ TopIsLir(l) => TopIsLir(x)

\* A LIR block becomes HIR if it is the oldest of S.
LEMMA DemoteSound ==
  ASSUME NEW l, NEW out, NEW t, t.lir_evict \in BOOLEAN, Sound(l, out)
  PROVE  LET x == Demote(l, t)
         IN  \/ Demoted(l, x, out, IF t.lir_evict THEN 1 ELSE 0)
             \/ /\ t.lir_evict /\ (l.queue["s"] = <<>> \/ ~TopIsLir(l))
                /\ Sound(x, out) /\ x.fault /\ x.migrating = l.migrating
<1> DEFINE x == Demote(l, t)
           y == lirs_s_evict(l)
           z == lirs_find_last_lir_lru(y)
<1>1. l \in Structs /\ QueuesSound(l) /\ StatusSound(l, out) /\ CountsSound(l)
  BY DEF Sound
<1>2. CASE ~t.lir_evict
  <2>1. x = l
    BY <1>2 DEF Demote
  <2>2. l.lir_count \in Int
    BY <1>1, StructParts
  <2>3. Demoted(l, l, out, 0)
    BY <2>2 DEF Demoted
  <2> QED
    BY <1>2, <2>1, <2>3
<1>3. CASE t.lir_evict /\ (l.queue["s"] = <<>> \/ ~TopIsLir(l))
  <2>1. y = Fault(l)
    BY <1>3 DEF lirs_s_evict, TopIsLir
  <2>2. Sound(y, out) /\ y.fault /\ y.migrating = l.migrating
    BY <2>1, FaultSound
  <2> HIDE DEF y
  <2>3. Popped(y, z, out)
    BY <2>2, FindLastSound
  <2>4. x = z
    BY <1>3 DEF Demote, y
  <2> HIDE DEF z, x
  <2>5. Sound(x, out) /\ x.fault /\ x.migrating = l.migrating
    BY <2>2, <2>3, <2>4 DEF Popped
  <2> QED
    BY <1>3, <2>5 DEF x
<1>4. CASE t.lir_evict /\ l.queue["s"] # <<>> /\ TopIsLir(l)
  <2> DEFINE o == Head(l.queue["s"])
  <2>1. o \in Members(l, "s")
    BY <1>1, <1>4, StructParts, QueueNames, HeadIsFirst DEF QueuesSound, Members
  <2>2. o \in l.cached \ out
    BY <1>1, <1>4, <2>1 DEF StatusSound, TopIsLir
  <2> HIDE DEF o
  <2>3. /\ Sound(y, out)
        /\ y.cached = l.cached /\ y.migrating = l.migrating
        /\ y.hir = l.hir \cup {o}
        /\ y.last_oblock = l.last_oblock /\ y.fault = l.fault
        /\ y.lir_count = l.lir_count - 1
        /\ y.s_len - Len(y.queue["s"]) = l.s_len - Len(l.queue["s"])
    BY <1>4, <2>2, SEvictSound DEF o
  <2> HIDE DEF y
  <2>4. Popped(y, z, out) /\ TopIsLir(z)
    BY <2>3, FindLastSound
  <2>5. x = z
    BY <1>4 DEF Demote, y
  <2> HIDE DEF z
  <2>6. \A a \in out : a \in z.hir => a \in l.hir
    BY <2>2, <2>3, <2>4 DEF Popped
  <2>7. Demoted(l, z, out, 1)
    BY <2>3, <2>4, <2>6 DEF Demoted, Popped
  <2> QED
    BY <1>4, <2>5, <2>7
<1> QED
  BY <1>2, <1>3, <1>4

\* The struct x after block o of l has got its places, unless it is in flight.
Placed(l, x, o) ==
  /\ Sound(x, x.migrating)
  /\ x.cached = l.cached /\ x.migrating = l.migrating
  /\ x.last_oblock = l.last_oblock /\ x.fault = l.fault
  /\ x.lir_count = l.lir_count
  /\ x.s_len - Len(x.queue["s"]) = l.s_len - Len(l.queue["s"])
                                    + (IF o \in l.migrating THEN 1 ELSE 0)
  /\ TopIsLir(l) => TopIsLir(x)

\* The length of S counts a block in flight as well.
LEMMA LongerSound ==
  ASSUME NEW l, NEW out, Sound(l, out)
  PROVE  LET x == [l EXCEPT !.s_len = @ + 1]
         IN  /\ Sound(x, out)
             /\ x.queue = l.queue
             /\ x.cached = l.cached /\ x.migrating = l.migrating /\ x.hir = l.hir
             /\ x.last_oblock = l.last_oblock /\ x.fault = l.fault
             /\ x.lir_count = l.lir_count
             /\ x.s_len = l.s_len + 1
             /\ TopIsLir(l) => TopIsLir(x)
<1> DEFINE sl == l.s_len + 1
           x == [l EXCEPT !.s_len = sl]
<1>1. l \in Structs /\ QueuesSound(l) /\ StatusSound(l, out) /\ CountsSound(l)
  BY DEF Sound
<1>2. sl \in Int
  BY <1>1, StructParts
<1> HIDE DEF sl
<1>3. /\ x \in Structs
      /\ x.queue = l.queue
      /\ x.cached = l.cached /\ x.migrating = l.migrating /\ x.hir = l.hir
      /\ x.last_oblock = l.last_oblock /\ x.fault = l.fault
      /\ x.lir_count = l.lir_count
      /\ x.s_len = sl
  BY <1>1, <1>2 DEF Structs
<1> HIDE DEF x
<1>4. QueuesSound(x) /\ \A n \in Queues : Members(x, n) = Members(l, n)
  BY <1>1, <1>3 DEF QueuesSound, Members
<1>5. StatusSound(x, out)
  BY <1>1, <1>3, <1>4, QueueNames DEF StatusSound
<1>6. CountsSound(x)
  BY <1>1, <1>3 DEF CountsSound
<1>7. TopIsLir(l) => TopIsLir(x)
  BY <1>3 DEF TopIsLir
<1> QED
  BY <1>3, <1>4, <1>5, <1>6, <1>7 DEF Sound, x, sl

LEMMA PlaceSound ==
  ASSUME NEW l, NEW o, NEW t, Sound(l, l.migrating \cup {o}),
         o \notin l.migrating => ~t.is_HIR /\ o \notin l.hir, t.is_HIR \in BOOLEAN
  PROVE  Placed(l, Place(l, o, t), o)
<1> DEFINE M == l.migrating
           w == IF o \in M THEN l ELSE lirs_enqueue(l, o, t.is_HIR)
           x == [w EXCEPT !.s_len = @ + 1]
           d == IF o \in M THEN 1 ELSE 0
<1>1. /\ Sound(w, M)
      /\ w.cached = l.cached /\ w.migrating = M
      /\ w.last_oblock = l.last_oblock /\ w.fault = l.fault
      /\ w.lir_count = l.lir_count /\ w.s_len = l.s_len
      /\ Len(w.queue["s"]) = Len(l.queue["s"]) + 1 - d
      /\ TopIsLir(l) => TopIsLir(w)
  <2>1. CASE o \in M
    <3>1. w = l /\ M \cup {o} = M
      BY <2>1
    <3>2. Sound(l, M)
      BY <3>1
    <3>3. Len(l.queue["s"]) = Len(l.queue["s"]) + 1 - d
      BY <2>1, StructParts, QueueNames, LenProperties DEF Sound
    <3> HIDE DEF w, d
    <3> QED
      BY <2>1, <3>1, <3>2, <3>3
  <2>2. CASE o \notin M
    <3> DEFINE e == lirs_enqueue(l, o, FALSE)
    <3>1. w = e /\ (M \cup {o}) \ {o} = M /\ o \in M \cup {o}
      BY <2>2
    <3>2. Enqueued(l, e, o, FALSE, M \cup {o})
      BY <2>2, <3>1, EnqueueSound
    <3>3. Len(e.queue["s"]) = Len(l.queue["s"]) + 1 - d
      <4>1. Len(l.queue["s"]) \in Nat /\ Len(e.queue["s"]) = Len(l.queue["s"]) + 1
        BY <3>2, StructParts, QueueNames, LenProperties DEF Enqueued, Sound
      <4>2. d = 0
        BY <2>2
      <4> HIDE DEF d, e
      <4> QED
        BY <4>1, <4>2
    <3> HIDE DEF e, w, d
    <3> QED
      BY <2>2, <3>1, <3>2, <3>3 DEF Enqueued
  <2> QED
    BY <2>1, <2>2
<1>2. x = Place(l, o, t)
  BY DEF Place
<1> HIDE DEF w
<1>3. /\ Sound(x, M)
      /\ x.queue = w.queue
      /\ x.cached = w.cached /\ x.migrating = w.migrating
      /\ x.last_oblock = w.last_oblock /\ x.fault = w.fault
      /\ x.lir_count = w.lir_count
      /\ x.s_len = w.s_len + 1
      /\ TopIsLir(w) => TopIsLir(x)
  BY <1>1, LongerSound
<1> HIDE DEF x
<1>4. /\ Len(l.queue["s"]) \in Nat /\ l.s_len \in Int /\ d \in Int
  BY StructParts, QueueNames, LenProperties DEF Sound
<1> HIDE DEF d
<1>5. x.s_len - Len(x.queue["s"]) = l.s_len - Len(l.queue["s"]) + d
  <2>1. x.s_len = l.s_len + 1 /\ Len(x.queue["s"]) = Len(l.queue["s"]) + 1 - d
    BY <1>1, <1>3
  <2> QED
    BY <1>4, <2>1
<1>6. Placed(l, x, o)
  BY <1>1, <1>3, <1>5 DEF Placed, d
<1> QED
  BY <1>2, <1>6

\* S loses an HIR block if it is too long.
LEMMA PruneSound ==
  ASSUME NEW l, NEW out, Sound(l, out)
  PROVE  LET x == lirs_prune_s(l)
         IN  \/ Popped(l, x, out)
             \/ x.fault /\ l.queue["r"] = <<>> /\ l.s_len > s_maxlen
<1> DEFINE x == lirs_prune_s(l)
<1>1. l \in Structs
  BY DEF Sound
<1>2. CASE l.s_len <= s_maxlen
  BY <1>2, PoppedNothing DEF lirs_prune_s
<1>3. CASE ~(l.s_len <= s_maxlen) /\ l.queue["r"] # <<>>
  <2>1. Popped(l, lirs_r_evict(l), out)
    BY <1>3, REvictSound DEF Popped
  <2> QED
    BY <1>3, <2>1 DEF lirs_prune_s
<1>4. CASE ~(l.s_len <= s_maxlen) /\ l.queue["r"] = <<>>
  <2>1. x = Fault(l)
    BY <1>4 DEF lirs_prune_s, lirs_r_evict
  <2>2. x.fault
    BY <2>1, FaultSound
  <2>3. l.s_len \in Int /\ s_maxlen \in Int
    BY <1>1, StructParts, NucleusAssumption DEF s_maxlen
  <2> QED
    BY <1>4, <2>2, <2>3
<1> QED
  BY <1>2, <1>3, <1>4

\* Once a function has failed, the commit fails.
LEMMA FaultStays ==
  ASSUME NEW l \in Structs, l.fault, NEW o, NEW t
  PROVE  lirs_prune_s(Place(l, o, t)).fault
<1> DEFINE w == IF o \in l.migrating THEN l ELSE lirs_enqueue(l, o, t.is_HIR)
           k == [w EXCEPT !.s_len = @ + 1]
           r == Head(k.queue["r"])
           y == [k EXCEPT !.queue["s"] = queue_remove(@, r),
                          !.queue["r"] = queue_remove(@, r),
                          !.s_len = @ - 1]
<1>1. "fault" \in DOMAIN w /\ w.fault
  BY DEF lirs_enqueue, lirs_push_to_queues, Structs
<1>2. k = Place(l, o, t)
  BY DEF Place
<1> HIDE DEF w
<1>3. "fault" \in DOMAIN k /\ k.fault
  BY <1>1
<1> HIDE DEF k
<1>4. Fault(k).fault
  BY <1>3 DEF Fault
<1> HIDE DEF r
<1>5. "fault" \in DOMAIN y /\ y.fault
  BY <1>3
<1> HIDE DEF y
<1>6. lirs_remove_entry(y, r).fault
  BY <1>5 DEF lirs_remove_entry, lirs_remove_from_queues
<1>7. lirs_r_evict(k) \in {Fault(k), y, lirs_remove_entry(y, r)}
  BY DEF lirs_r_evict, y, r
<1>8. lirs_r_evict(k).fault
  BY <1>4, <1>5, <1>6, <1>7
<1> QED
  BY <1>2, <1>3, <1>8 DEF lirs_prune_s

\* A queue that has no block twice is not longer than a set of its blocks.
LEMMA QueueFits ==
  ASSUME NEW S, NEW q \in Seq(S), IsInjective(q), NEW T, IsFiniteSet(T), ToSet(q) \subseteq T
  PROVE  Len(q) <= Cardinality(T)
<1>1. /\ Len(q) \in Nat
      /\ q \in [1 .. Len(q) -> S]
      /\ DOMAIN q = 1 .. Len(q)
  BY LenProperties
<1>2. q \in [1 .. Len(q) -> T]
  BY <1>1 DEF ToSet
<1>3. q \in Injection(1 .. Len(q), T)
  BY <1>1, <1>2 DEF IsInjective, Injection
<1>4. Cardinality(1 .. Len(q)) = Len(q)
  BY <1>1, FS_Interval
<1> QED
  BY <1>3, <1>4, FS_Injection

LEMMA LimitFacts == hir_limit \in Nat /\ hir_limit >= 2
<1>1. CacheSize \div 100 \in Nat
  BY NucleusAssumption, DivFacts
<1> QED
  BY <1>1, MaxOfTwo DEF hir_limit

\* What a request does, as lirs_transaction_set found out.
LEMMA TransactionFacts ==
  ASSUME NEW l, NEW o \in Oblocks, Sound(l, l.migrating)
  PROVE  LET t == lirs_transaction_set(l, o)
         IN  /\ t.repeat \in BOOLEAN /\ t.hir_evict \in BOOLEAN /\ t.lir_s_lru \in BOOLEAN
             /\ t.is_HIR \in BOOLEAN /\ t.lir_evict \in BOOLEAN /\ t.fault \in BOOLEAN
             /\ t.repeat <=> o = l.last_oblock
             /\ t.hir_evict => ~t.repeat /\ o \notin l.cached
             /\ ~t.repeat /\ o \notin l.cached =>
                  (t.hir_evict <=> Cardinality(l.cached) = CacheSize)
             /\ t.lir_s_lru <=> l.queue["s"] # <<>> /\ Head(l.queue["s"]) = o
             /\ o \in l.cached => ~t.is_HIR
             /\ t.lir_evict => /\ ~t.is_HIR /\ o \in l.hir
                               /\ l.lir_count + 1 > CacheSize - hir_limit
             /\ t.fault => l.queue["s"] = <<>> /\ o \in l.cached \cup Members(l, "g")
             /\ o \in l.cached \cap l.hir /\ ~t.repeat /\ ~t.lir_evict =>
                  l.lir_count + 1 <= CacheSize - hir_limit
             /\ o \notin l.cached /\ ~t.repeat /\ ~t.is_HIR /\ ~t.lir_evict =>
                  l.lir_count + 1 <= CacheSize - hir_limit
             /\ l.cached = {} /\ CacheSize > hir_limit => ~t.is_HIR
<1> DEFINE t        == lirs_transaction_set(l, o)
           known    == o \in l.cached \cup lirs_ghosts(l)
           in_cache == o \in l.cached
           free     == CacheSize - Cardinality(l.cached)
           HIR      == (known => o \in l.hir) /\ (in_cache \/ free <= hir_limit)
           promoted == known /\ HIR
<1>1. /\ l \in Structs /\ StatusSound(l, l.migrating) /\ CountsSound(l)
  BY DEF Sound
<1>2. /\ t.repeat = (o = l.last_oblock)
      /\ t.hir_evict = (o # l.last_oblock /\ ~in_cache /\ policy_cache_is_full(l))
      /\ t.lir_s_lru = (l.queue["s"] # <<>> /\ Head(l.queue["s"]) = o)
      /\ t.is_HIR = (HIR /\ ~promoted)
      /\ t.lir_evict = (o # l.last_oblock /\ promoted /\ l.lir_count + 1 > CacheSize - hir_limit)
      /\ t.fault = (o # l.last_oblock /\ promoted /\ l.queue["s"] = <<>>)
  BY DEF lirs_transaction_set
<1> HIDE DEF t
<1>3. known <=> o \in l.cached \cup Members(l, "g")
  BY DEF lirs_ghosts, Members
<1>4. /\ o \in Members(l, "g") => o \in l.hir /\ o \notin l.cached
  BY <1>1 DEF StatusSound
<1>5. /\ Cardinality(l.cached) \in Nat /\ CacheSize \in Nat /\ hir_limit \in Nat
      /\ l.lir_count \in Nat /\ l.lir_count <= Cardinality(l.cached)
  <2>1. IsFiniteSet(l.cached) /\ l.lir_count = Cardinality(l.cached \ l.hir)
    BY <1>1 DEF CountsSound
  <2>2. /\ IsFiniteSet(l.cached \ l.hir)
        /\ Cardinality(l.cached \ l.hir) <= Cardinality(l.cached)
    BY <2>1, FS_Subset, l.cached \ l.hir \subseteq l.cached
  <2> QED
    BY <2>1, <2>2, FS_CardinalityType, NucleusAssumption, LimitFacts
<1>6. policy_cache_is_full(l) <=> Cardinality(l.cached) = CacheSize
  BY DEF policy_cache_is_full
<1>7. l.cached = {} => free = CacheSize
  BY <1>5, FS_EmptySet
<1>8. ~(free <= hir_limit) => l.lir_count + 1 <= CacheSize - hir_limit
  BY <1>5
<1>9. ~(l.lir_count + 1 > CacheSize - hir_limit) => l.lir_count + 1 <= CacheSize - hir_limit
  BY <1>5
<1> DEFINE over  == l.lir_count + 1 > CacheSize - hir_limit
           fits  == l.lir_count + 1 <= CacheSize - hir_limit
           tight == free <= hir_limit
<1>10. l.cached = {} /\ CacheSize > hir_limit => ~tight
  BY <1>5, <1>7
<1>11. o \in l.cached \cap l.hir /\ ~t.repeat /\ ~t.lir_evict => fits
  BY <1>2, <1>9
<1>12. o \notin l.cached /\ ~t.repeat /\ ~t.is_HIR /\ ~t.lir_evict => fits
  BY <1>2, <1>3, <1>4, <1>8, <1>9
<1>13. l.cached = {} /\ CacheSize > hir_limit => ~t.is_HIR
  BY <1>2, <1>10
<1>14. t.lir_evict => ~t.is_HIR /\ o \in l.hir /\ over
  BY <1>2
<1>15. /\ t.repeat \in BOOLEAN /\ t.hir_evict \in BOOLEAN /\ t.lir_s_lru \in BOOLEAN
       /\ t.is_HIR \in BOOLEAN /\ t.lir_evict \in BOOLEAN /\ t.fault \in BOOLEAN
       /\ t.repeat <=> o = l.last_oblock
       /\ t.hir_evict => ~t.repeat /\ o \notin l.cached
       /\ ~t.repeat /\ o \notin l.cached =>
            (t.hir_evict <=> Cardinality(l.cached) = CacheSize)
       /\ t.lir_s_lru <=> l.queue["s"] # <<>> /\ Head(l.queue["s"]) = o
       /\ o \in l.cached => ~t.is_HIR
       /\ t.fault => l.queue["s"] = <<>> /\ o \in l.cached \cup Members(l, "g")
  BY <1>2, <1>3, <1>6
<1> QED
  BY <1>11, <1>12, <1>13, <1>14, <1>15 DEF t

\* The struct x after room has been made in l for block o and its entry committed.
EntryMade(l, x, o, t) ==
  /\ Sound(x, l.migrating \cup {o})
  /\ x.cached = (l.cached \ Gone(l, t)) \cup {o}
  /\ x.migrating = l.migrating \cup ({o} \ l.cached)
  /\ o \in l.cached => o \notin x.hir
  /\ x.last_oblock = o /\ x.fault = l.fault
  /\ x.lir_count \in {l.lir_count, l.lir_count + 1}
  /\ t.lir_evict => x.lir_count = l.lir_count + 1
  /\ ~t.lir_evict => x.lir_count = l.lir_count \/ x.lir_count <= CacheSize - hir_limit
  /\ l.cached = {} /\ CacheSize > hir_limit => x.lir_count >= 1
  /\ o \notin l.migrating =>
       /\ x.s_len - Len(x.queue["s"]) = l.s_len - Len(l.queue["s"])
       /\ TopIsLir(l) => TopIsLir(x)

\* A request that is neither repeated nor refused gets its entry, unless there is no
\* entry for the ghost of the evicted block.
LEMMA EntrySound ==
  ASSUME NEW l, NEW o \in Oblocks, Sound(l, l.migrating), o # l.last_oblock,
         lirs_transaction_is_legal(l, lirs_transaction_set(l, o))
  PROVE  LET t == lirs_transaction_set(l, o)
             x == lirs_commit_entry(MakeRoom(l, o, t), o, t)
         IN  /\ Gone(l, t) \subseteq l.cached \ (l.migrating \cup {o})
             /\ t.hir_evict <=> Gone(l, t) # {}
             /\ \/ EntryMade(l, x, o, t)
                \/ MetaSize = 0 /\ x.fault /\ Sound(x, l.migrating) /\ x.migrating = l.migrating
<1> DEFINE t == lirs_transaction_set(l, o)
           y == MakeRoom(l, o, t)
           x == lirs_commit_entry(y, o, t)
<1>1. /\ l \in Structs /\ StatusSound(l, l.migrating) /\ CountsSound(l)
      /\ l.cached \subseteq Oblocks /\ l.migrating \subseteq l.cached
      /\ l.lir_count \in Nat
  <2>1. l \in Structs /\ StatusSound(l, l.migrating) /\ CountsSound(l)
    BY DEF Sound
  <2>2. l.lir_count \in Nat
    <3>1. IsFiniteSet(l.cached \ l.hir)
      BY <2>1, FS_Subset, l.cached \ l.hir \subseteq l.cached DEF CountsSound
    <3> QED
      BY <2>1, <3>1, FS_CardinalityType DEF CountsSound
  <2> QED
    BY <2>1, <2>2, StructParts DEF StatusSound
<1>2. /\ t.repeat \in BOOLEAN /\ t.hir_evict \in BOOLEAN /\ t.lir_s_lru \in BOOLEAN
      /\ t.is_HIR \in BOOLEAN /\ t.lir_evict \in BOOLEAN
      /\ ~t.repeat
      /\ t.hir_evict => o \notin l.cached
      /\ o \notin l.cached => (t.hir_evict <=> Cardinality(l.cached) = CacheSize)
      /\ t.lir_s_lru <=> l.queue["s"] # <<>> /\ Head(l.queue["s"]) = o
      /\ o \in l.cached => ~t.is_HIR
      /\ t.lir_evict => ~t.is_HIR /\ o \in l.hir
      /\ o \in l.cached \cap l.hir /\ ~t.repeat /\ ~t.lir_evict =>
           l.lir_count + 1 <= CacheSize - hir_limit
      /\ o \notin l.cached /\ ~t.repeat /\ ~t.is_HIR /\ ~t.lir_evict =>
           l.lir_count + 1 <= CacheSize - hir_limit
      /\ l.cached = {} /\ CacheSize > hir_limit => ~t.is_HIR
  BY TransactionFacts
<1>3. t.hir_evict => l.queue["q"] # <<>>
  BY DEF lirs_transaction_is_legal
<1> HIDE DEF t
<1>4. /\ Gone(l, t) \subseteq l.cached \ OutWith(l, o)
      /\ \/ RoomMade(l, y, o, Gone(l, t))
         \/ /\ MetaSize = 0 /\ t.hir_evict
            /\ Sound(y, l.migrating) /\ y.fault /\ y.cached = l.cached
            /\ y.migrating = l.migrating
  BY <1>2, <1>3, MakeRoomSound
<1> HIDE DEF y
<1>5. Gone(l, t) \subseteq l.cached \ (l.migrating \cup {o})
  BY <1>1, <1>2, <1>4 DEF OutWith, Gone
<1>6. t.hir_evict <=> Gone(l, t) # {}
  BY DEF Gone
<1>7. CASE /\ MetaSize = 0 /\ t.hir_evict
           /\ Sound(y, l.migrating) /\ y.fault /\ y.cached = l.cached
           /\ y.migrating = l.migrating
  <2>1. o \notin y.cached /\ policy_cache_is_full(y)
    BY <1>2, <1>7 DEF policy_cache_is_full
  <2>2. x = Fault(y)
    BY <2>1 DEF lirs_commit_entry
  <2> QED
    BY <1>5, <1>6, <1>7, <2>2, FaultSound DEF x, y, t
<1>8. ASSUME RoomMade(l, y, o, Gone(l, t))
      PROVE  EntryMade(l, x, o, t)
  <2>1. /\ Sound(y, OutWith(l, o))
        /\ y.cached = l.cached \ Gone(l, t) /\ y.migrating = l.migrating
        /\ o \in y.hir <=> o \in l.cached \cap l.hir
        /\ y.last_oblock = o /\ y.fault = l.fault
        /\ y.lir_count = l.lir_count
        /\ o \notin l.migrating =>
             /\ y.s_len - Len(y.queue["s"]) = l.s_len - Len(l.queue["s"])
             /\ TopIsLir(l) => TopIsLir(y)
    BY <1>8 DEF RoomMade
  <2>2. CASE o \in l.cached
    <3>1. OutWith(l, o) = l.migrating \cup {o}
      BY <2>2 DEF OutWith
    <3> DEFINE out == l.migrating \cup {o}
    <3> HIDE DEF out
    <3>a. Sound(y, out) /\ o \in out
      BY <2>1, <3>1 DEF out
    <3>b. HitCommitted(y, x, o, out)
      BY <3>a, CommitHitSound
    <3> HIDE DEF x
    <3>2. /\ Committed(y, x, l.migrating \cup {o})
          /\ x.cached = y.cached /\ x.migrating = y.migrating
          /\ x.hir = y.hir \ {o}
          /\ o \in y.hir => x.lir_count = y.lir_count + 1
          /\ o \notin y.hir => x.lir_count = y.lir_count
      BY <3>b DEF HitCommitted, out
    <3>3. /\ x.cached = (l.cached \ Gone(l, t)) \cup {o}
          /\ x.migrating = l.migrating \cup ({o} \ l.cached)
      BY <1>1, <1>5, <2>1, <2>2, <3>2
    <3>4. /\ o \in l.hir => x.lir_count = l.lir_count + 1
          /\ o \notin l.hir => x.lir_count = l.lir_count
      BY <2>1, <2>2, <3>2
    <3>5. /\ x.lir_count \in {l.lir_count, l.lir_count + 1}
          /\ t.lir_evict => x.lir_count = l.lir_count + 1
          /\ ~t.lir_evict => x.lir_count = l.lir_count \/ x.lir_count <= CacheSize - hir_limit
      <4>1. CASE o \in l.hir
        BY <1>2, <2>2, <3>4, <4>1
      <4>2. CASE o \notin l.hir
        BY <1>2, <2>2, <3>4, <4>2
      <4> QED
        BY <4>1, <4>2
    <3>6. l.cached # {}
      BY <2>2
    <3> QED
      BY <2>1, <2>2, <3>2, <3>3, <3>5, <3>6 DEF EntryMade, Committed
  <2>3. CASE o \notin l.cached
    <3>1. OutWith(l, o) = l.migrating /\ o \notin l.migrating /\ o \notin y.hir /\ o \notin y.cached
      BY <1>1, <2>1, <2>3 DEF OutWith
    <3>2. Cardinality(y.cached) # CacheSize
      <4>1. CASE t.hir_evict
        <5>1. Gone(l, t) = {Head(l.queue["q"])} /\ Head(l.queue["q"]) \in l.cached
          BY <4>1, <1>5 DEF Gone
        <5> DEFINE v == Head(l.queue["q"])
        <5> HIDE DEF v
        <5>2. Cardinality(l.cached) = CacheSize /\ IsFiniteSet(l.cached)
          BY <1>1, <1>2, <2>3, <4>1 DEF CountsSound
        <5>3. y.cached = l.cached \ {v} /\ v \in l.cached
          BY <2>1, <5>1 DEF v
        <5>4. Cardinality(l.cached \ {v}) = Cardinality(l.cached) - 1
          BY <5>2, <5>3, FS_RemoveElement
        <5> QED
          BY <5>2, <5>3, <5>4, NucleusAssumption
      <4>2. CASE ~t.hir_evict
        <5>1. y.cached = l.cached
          BY <4>2, <2>1 DEF Gone
        <5> QED
          BY <4>2, <5>1, <1>2, <2>3
      <4> QED
        BY <4>1, <4>2
    <3>a. Sound(y, y.migrating)
      BY <2>1, <3>1
    <3>b. MissCommitted(y, x, o, t.is_HIR)
      BY <1>2, <3>a, <3>1, <3>2, CommitMissSound
    <3> HIDE DEF x
    <3>3. /\ Committed(y, x, x.migrating)
          /\ x.cached = y.cached \cup {o}
          /\ x.migrating = y.migrating \cup {o}
          /\ t.is_HIR => x.lir_count = y.lir_count
          /\ ~t.is_HIR => x.lir_count = y.lir_count + 1
      BY <3>b DEF MissCommitted
    <3>4. /\ x.cached = (l.cached \ Gone(l, t)) \cup {o}
          /\ x.migrating = l.migrating \cup {o}
          /\ x.migrating = l.migrating \cup ({o} \ l.cached)
      BY <1>1, <2>1, <2>3, <3>3
    <3>5. /\ t.is_HIR => x.lir_count = l.lir_count
          /\ ~t.is_HIR => x.lir_count = l.lir_count + 1
      BY <2>1, <3>3
    <3>6. /\ x.lir_count \in {l.lir_count, l.lir_count + 1}
          /\ t.lir_evict => x.lir_count = l.lir_count + 1
          /\ ~t.lir_evict => x.lir_count = l.lir_count \/ x.lir_count <= CacheSize - hir_limit
          /\ l.cached = {} /\ CacheSize > hir_limit => x.lir_count >= 1
      <4>1. CASE t.is_HIR
        BY <1>2, <2>3, <3>5, <4>1
      <4>2. CASE ~t.is_HIR
        BY <1>1, <1>2, <2>3, <3>5, <4>2
      <4> QED
        BY <4>1, <4>2
    <3>7. Sound(x, l.migrating \cup {o})
      BY <3>3, <3>4 DEF Committed
    <3> QED
      BY <2>1, <2>3, <3>1, <3>3, <3>4, <3>6, <3>7 DEF EntryMade, Committed
  <2> QED
    BY <2>2, <2>3
<1> QED
  BY <1>4, <1>5, <1>6, <1>7, <1>8 DEF x, y, t

\* The struct x after the request of block o.
Served(l, x, o, t) ==
  /\ Sound(x, x.migrating)
  /\ x.fault = l.fault
  /\ x.cached = (l.cached \ Gone(l, t)) \cup {o}
  /\ x.migrating = l.migrating \cup ({o} \ l.cached)
  /\ x.last_oblock = o
  /\ x.lir_count <= l.lir_count \/ x.lir_count <= CacheSize - hir_limit
  /\ l.cached = {} /\ CacheSize > hir_limit => x.lir_count >= 1
  /\ l.lir_count >= 1 /\ CacheSize > hir_limit => x.lir_count >= 1
  /\ o \notin l.migrating /\ o \in l.cached =>
       x.s_len - Len(x.queue["s"]) = l.s_len - Len(l.queue["s"])
  /\ o \notin l.cached =>
       x.s_len - Len(x.queue["s"]) = l.s_len - Len(l.queue["s"]) + 1
  /\ o \notin l.migrating /\ TopIsLir(l) => TopIsLir(x)

\* A struct in which no block is in flight, the oldest block of S is LIR, there is one if
\* any block is cached, and the limits are kept.
Steady(l) ==
  /\ l.migrating = {}
  /\ MetaSize > 0 /\ CacheSize >= hir_limit + 2
  /\ l.s_len = Len(l.queue["s"])
  /\ l.lir_count <= CacheSize - hir_limit
  /\ TopIsLir(l)
  /\ l.cached # {} => l.lir_count >= 1

\* The oldest block of S can become HIR: it is LIR, and S has another than the block
\* that is requested.
LEMMA MayDemote ==
  ASSUME NEW l, NEW x, NEW o \in Oblocks, NEW t, Steady(l), l.lir_count \in Int,
         t.lir_evict, EntryMade(l, x, o, t), l.lir_count + 1 > CacheSize - hir_limit
  PROVE  x.queue["s"] # <<>> /\ TopIsLir(x)
<1>1. /\ Sound(x, {o}) /\ x.lir_count = l.lir_count + 1 /\ TopIsLir(x)
      /\ l.lir_count + 1 > CacheSize - hir_limit /\ CacheSize - hir_limit >= 2
  <2>1. l.migrating = {} /\ l.migrating \cup {o} = {o} /\ o \notin l.migrating
    BY DEF Steady
  <2> QED
    BY <2>1, LimitFacts, NucleusAssumption DEF EntryMade, Steady
<1>2. /\ IsFiniteSet(x.cached \ x.hir)
      /\ x.lir_count = Cardinality(x.cached \ x.hir)
  BY <1>1, FS_Subset, x.cached \ x.hir \subseteq x.cached DEF Sound, CountsSound
<1>3. x.lir_count >= 2
  BY <1>1, LimitFacts, NucleusAssumption
<1>4. ~(x.cached \ x.hir \subseteq {o})
  <2> SUFFICES ASSUME x.cached \ x.hir \subseteq {o}
               PROVE  FALSE
    OBVIOUS
  <2>2. IsFiniteSet({o}) /\ Cardinality({o}) = 1
    BY FS_Singleton
  <2>3. Cardinality(x.cached \ x.hir) <= Cardinality({o})
    BY <2>2, FS_Subset
  <2>4. x.lir_count <= 1 /\ x.lir_count \in Int
    BY <2>2, <2>3, <1>2, FS_CardinalityType
  <2> QED
    BY <2>4, <1>3
<1>5. PICK b \in x.cached \ x.hir : b # o
  BY <1>4
<1>6. b \in Members(x, "s")
  BY <1>1, <1>5 DEF Sound, StatusSound
<1>7. x.queue["s"] # <<>>
  BY <1>6 DEF Members, ToSet
<1> QED
  BY <1>1, <1>7

\* S has room for the blocks of the cache and one more.
LEMMA StackFits ==
  ASSUME NEW l, NEW out, Sound(l, out), l.queue["r"] = <<>>
  PROVE  Len(l.queue["s"]) <= CacheSize
<1>1. l \in Structs /\ QueuesSound(l) /\ StatusSound(l, out) /\ CountsSound(l)
  BY DEF Sound
<1>2. Members(l, "r") = {}
  BY DEF Members, ToSet
<1>3. Members(l, "s") \subseteq l.cached
  BY <1>1, <1>2 DEF StatusSound
<1>4. l.queue["s"] \in Seq(Oblocks) /\ IsInjective(l.queue["s"])
  BY <1>1, StructParts, QueueNames DEF QueuesSound
<1>5. IsFiniteSet(l.cached) /\ Cardinality(l.cached) <= CacheSize
  BY <1>1 DEF CountsSound
<1>6. Len(l.queue["s"]) <= Cardinality(l.cached)
  BY <1>3, <1>4, <1>5, QueueFits DEF Members
<1>7. Len(l.queue["s"]) \in Nat /\ Cardinality(l.cached) \in Nat
  BY <1>4, <1>5, LenProperties, FS_CardinalityType
<1> QED
  BY <1>5, <1>6, <1>7, NucleusAssumption

\* A request that is neither repeated nor refused is served or fails, and with a steady
\* struct it does not fail.
LEMMA RequestSound ==
  ASSUME NEW l, NEW o \in Oblocks, Sound(l, l.migrating), ~l.fault, o # l.last_oblock,
         lirs_transaction_is_legal(l, lirs_transaction_set(l, o))
  PROVE  LET t == lirs_transaction_set(l, o)
             x == lirs_transaction_commit(l, o, t)
         IN  /\ Gone(l, t) \subseteq l.cached \ (l.migrating \cup {o})
             /\ x.fault \/ Served(l, x, o, t)
             /\ Steady(l) => Served(l, x, o, t)
<1> DEFINE t == lirs_transaction_set(l, o)
           m == lirs_commit_entry(MakeRoom(l, o, t), o, t)
           d == Demote(m, t)
           p == Place(d, o, t)
           x == lirs_prune_s(p)
<1>1. /\ Gone(l, t) \subseteq l.cached \ (l.migrating \cup {o})
      /\ \/ EntryMade(l, m, o, t)
         \/ MetaSize = 0 /\ m.fault /\ Sound(m, l.migrating) /\ m.migrating = l.migrating
  BY EntrySound
<1>2. x = lirs_transaction_commit(l, o, t)
  BY CommitSteps
<1>3. /\ t.lir_evict \in BOOLEAN /\ t.is_HIR \in BOOLEAN
      /\ o \in l.cached => ~t.is_HIR
      /\ t.lir_evict => l.lir_count + 1 > CacheSize - hir_limit
  BY TransactionFacts
<1>4. l \in Structs /\ l.lir_count \in Int /\ l.s_len \in Int /\ Len(l.queue["s"]) \in Nat
  BY StructParts, QueueNames, LenProperties DEF Sound
<1> HIDE DEF t, m, d, p, x
<1>5. ASSUME m.fault, NEW out, Sound(m, out)
      PROVE  x.fault
  <2> DEFINE n == IF t.lir_evict THEN 1 ELSE 0
  <2> HIDE DEF n
  <2>1. \/ Demoted(m, d, out, n)
        \/ Sound(d, out) /\ d.fault
    BY <1>3, <1>5, DemoteSound DEF d, n
  <2>2. d \in Structs /\ d.fault
    BY <1>5, <2>1 DEF Demoted, Sound
  <2> QED
    BY <2>2, FaultStays DEF p, x
<1>6. ASSUME EntryMade(l, m, o, t)
      PROVE  (x.fault \/ Served(l, x, o, t)) /\ (Steady(l) => Served(l, x, o, t))
  <2> DEFINE out == l.migrating \cup {o}
             n == IF t.lir_evict THEN 1 ELSE 0
  <2>1. /\ Sound(m, out)
        /\ m.cached = (l.cached \ Gone(l, t)) \cup {o}
        /\ m.migrating = l.migrating \cup ({o} \ l.cached)
        /\ o \in l.cached => o \notin m.hir
        /\ m.last_oblock = o /\ m.fault = l.fault
        /\ m.lir_count \in {l.lir_count, l.lir_count + 1}
        /\ t.lir_evict => m.lir_count = l.lir_count + 1
        /\ ~t.lir_evict => m.lir_count = l.lir_count \/ m.lir_count <= CacheSize - hir_limit
        /\ l.cached = {} /\ CacheSize > hir_limit => m.lir_count >= 1
        /\ o \notin l.migrating =>
             /\ m.s_len - Len(m.queue["s"]) = l.s_len - Len(l.queue["s"])
             /\ TopIsLir(l) => TopIsLir(m)
    BY <1>6 DEF EntryMade
  <2>2. n \in {0, 1} /\ (t.lir_evict <=> n = 1)
    BY <1>3
  <2> HIDE DEF n
  <2>3. \/ Demoted(m, d, out, n)
        \/ /\ t.lir_evict /\ (m.queue["s"] = <<>> \/ ~TopIsLir(m))
           /\ Sound(d, out) /\ d.fault
    BY <1>3, <2>1, DemoteSound DEF d, n
  <2>4. Steady(l) => Demoted(m, d, out, n)
    BY <1>3, <1>4, <1>6, <2>3, MayDemote
  <2>5. CASE ~Demoted(m, d, out, n)
    <3>1. d \in Structs /\ d.fault
      BY <2>3, <2>5 DEF Sound
    <3>2. x.fault
      BY <3>1, FaultStays DEF p, x
    <3> QED
      BY <3>2, <2>4, <2>5
  <2>6. CASE Demoted(m, d, out, n)
    <3>1. /\ Sound(d, out)
          /\ d.cached = m.cached /\ d.migrating = m.migrating
          /\ o \in d.hir => o \in m.hir
          /\ d.last_oblock = o /\ d.fault = l.fault
          /\ d.lir_count = m.lir_count - n
          /\ d.s_len - Len(d.queue["s"]) = m.s_len - Len(m.queue["s"])
          /\ TopIsLir(m) => TopIsLir(d)
      BY <2>1, <2>6 DEF Demoted
    <3>2. /\ d.migrating \cup {o} = out
          /\ o \in d.migrating <=> o \notin l.cached \/ o \in l.migrating
          /\ o \notin d.migrating => ~t.is_HIR /\ o \notin d.hir
      BY <1>3, <2>1, <3>1
    <3>3. Placed(d, p, o)
      BY <1>3, <3>1, <3>2, PlaceSound DEF p
    <3>4. /\ Sound(p, p.migrating)
          /\ p.cached = m.cached /\ p.migrating = m.migrating
          /\ p.last_oblock = o /\ p.fault = l.fault
          /\ p.lir_count = m.lir_count - n
          /\ TopIsLir(d) => TopIsLir(p)
          /\ o \in d.migrating =>
               p.s_len - Len(p.queue["s"]) = d.s_len - Len(d.queue["s"]) + 1
          /\ o \notin d.migrating =>
               p.s_len - Len(p.queue["s"]) = d.s_len - Len(d.queue["s"])
      <4>1. /\ Sound(p, p.migrating)
            /\ p.cached = d.cached /\ p.migrating = d.migrating
            /\ p.last_oblock = d.last_oblock /\ p.fault = d.fault
            /\ p.lir_count = d.lir_count
            /\ p.s_len - Len(p.queue["s"]) = d.s_len - Len(d.queue["s"])
                                              + (IF o \in d.migrating THEN 1 ELSE 0)
            /\ TopIsLir(d) => TopIsLir(p)
        BY <3>3 DEF Placed
      <4>2. d.s_len \in Int /\ Len(d.queue["s"]) \in Nat
        BY <3>1, StructParts, QueueNames, LenProperties DEF Sound
      <4> QED
        BY <3>1, <4>1, <4>2
    <3>5. ASSUME Popped(p, x, p.migrating)
          PROVE  Served(l, x, o, t)
      <4>1. /\ Sound(x, x.migrating)
            /\ x.cached = m.cached /\ x.migrating = m.migrating
            /\ x.last_oblock = o /\ x.fault = l.fault
            /\ x.lir_count = m.lir_count - n
            /\ x.s_len - Len(x.queue["s"]) = p.s_len - Len(p.queue["s"])
            /\ TopIsLir(p) => TopIsLir(x)
        BY <3>4, <3>5 DEF Popped
      <4>2. /\ x.lir_count <= l.lir_count \/ x.lir_count <= CacheSize - hir_limit
            /\ l.cached = {} /\ CacheSize > hir_limit => x.lir_count >= 1
            /\ l.lir_count >= 1 /\ CacheSize > hir_limit => x.lir_count >= 1
        <5>1. CacheSize \in Nat /\ hir_limit \in Nat
          BY LimitFacts, NucleusAssumption
        <5>2. CASE t.lir_evict
          <6>1. x.lir_count = l.lir_count
            BY <1>4, <2>1, <2>2, <4>1, <5>2
          <6>2. l.cached = {} => l.lir_count = 0
            BY FS_EmptySet, {} \ l.hir = {} DEF Sound, CountsSound
          <6>3. l.lir_count + 1 > CacheSize - hir_limit
            BY <1>3, <5>2
          <6>4. l.cached = {} /\ CacheSize > hir_limit => x.lir_count >= 1
            <7>1. SUFFICES ASSUME l.cached = {}
                           PROVE  x.lir_count >= 1 \/ ~(CacheSize > hir_limit)
              OBVIOUS
            <7> QED
              BY <5>1, <6>2, <6>3, <7>1
          <6>5. l.lir_count <= l.lir_count
            BY <1>4
          <6> QED
            BY <6>1, <6>4, <6>5
        <5>3. CASE ~t.lir_evict
          <6>1. n = 0
            BY <2>2, <5>3
          <6>2. x.lir_count = m.lir_count
            BY <1>4, <2>1, <4>1, <6>1
          <6>3. m.lir_count = l.lir_count \/ m.lir_count <= CacheSize - hir_limit
            BY <2>1, <5>3
          <6>4. l.cached = {} /\ CacheSize > hir_limit => m.lir_count >= 1
            BY <2>1
          <6>5. l.lir_count >= 1 => m.lir_count >= 1
            BY <1>4, <2>1
          <6>6. x.lir_count <= l.lir_count \/ x.lir_count <= CacheSize - hir_limit
            <7>1. l.lir_count <= l.lir_count
              BY <1>4
            <7> QED
              BY <6>2, <6>3, <7>1
          <6> QED
            BY <6>2, <6>4, <6>5, <6>6
        <5> QED
          BY <5>2, <5>3
      <4>3. /\ o \notin l.migrating /\ o \in l.cached =>
                 x.s_len - Len(x.queue["s"]) = l.s_len - Len(l.queue["s"])
            /\ o \notin l.cached =>
                 x.s_len - Len(x.queue["s"]) = l.s_len - Len(l.queue["s"]) + 1
        <5>1. l.migrating \subseteq l.cached
          BY DEF Sound, StatusSound
        <5>2. CASE o \in l.migrating
          BY <5>1, <5>2
        <5>3. CASE o \notin l.migrating /\ o \in l.cached
          BY <5>3, <2>1, <3>1, <3>2, <3>4, <4>1
        <5>4. CASE o \notin l.migrating /\ o \notin l.cached
          BY <5>4, <2>1, <3>1, <3>2, <3>4, <4>1
        <5> QED
          BY <5>2, <5>3, <5>4
      <4>4. o \notin l.migrating /\ TopIsLir(l) => TopIsLir(x)
        BY <2>1, <3>1, <3>4, <4>1
      <4> QED
        BY <2>1, <4>1, <4>2, <4>3, <4>4 DEF Served
    <3>6. \/ Popped(p, x, p.migrating)
          \/ x.fault /\ p.queue["r"] = <<>> /\ p.s_len > s_maxlen
      BY <3>4, PruneSound DEF x
    <3>7. ASSUME Steady(l), p.queue["r"] = <<>>, p.s_len > s_maxlen
          PROVE  FALSE
      <4>1. Len(p.queue["s"]) <= CacheSize
        BY <3>4, <3>7, StackFits
      <4>2. Len(p.queue["s"]) \in Nat /\ p.s_len \in Int /\ CacheSize \in Nat /\ CacheSize >= 2
        BY <3>4, <3>7, StructParts, QueueNames, LenProperties, LimitFacts, NucleusAssumption
        DEF Sound, Steady
      <4>3. l.s_len - Len(l.queue["s"]) = 0 /\ o \notin l.migrating
        BY <1>4, <3>7 DEF Steady
      <4>4. d.s_len - Len(d.queue["s"]) = 0
        BY <2>1, <3>1, <4>3
      <4>5. p.s_len - Len(p.queue["s"]) \in {0, 1}
        BY <3>4, <4>4
      <4>6. p.s_len <= CacheSize + 1
        BY <4>1, <4>2, <4>5
      <4> QED
        BY <4>2, <4>6, <3>7 DEF s_maxlen
    <3> QED
      BY <3>5, <3>6, <3>7
  <2> QED
    BY <2>5, <2>6
<1>7. ASSUME MetaSize = 0, m.fault, Sound(m, l.migrating)
      PROVE  x.fault /\ ~Steady(l)
  <2>1. x.fault
    BY <1>5, <1>7
  <2> QED
    BY <1>7, <2>1 DEF Steady
<1> QED
  BY <1>1, <1>2, <1>6, <1>7 DEF t

-----------------------------------------------------------------------------
(***************************************************************************)
(* LIRS: the inductive invariant.                                          *)
(***************************************************************************)

\* While mappings are loaded there are no ghosts and nothing is in flight.
LoadSound(l) ==
  /\ Members(l, "g") = {}
  /\ l.migrating = {}
  /\ l.last_oblock = Null

\* In quiet use at most the block of the last request is in flight, and s_len and
\* lir_count keep their limits.
QuietSound(l) ==
  /\ l.migrating \subseteq {l.last_oblock}
  /\ l.last_oblock \in l.cached \cup {Null}
  /\ l.s_len = Len(l.queue["s"]) + Cardinality(l.migrating)
  /\ l.lir_count <= CacheSize - hir_limit

LargeCache == CacheSize >= hir_limit + 2 /\ MetaSize > 0

\* In a cache that is large enough, S ends in a LIR block.
NeverFaults(l) ==
  /\ ~l.fault
  /\ TopIsLir(l)
  /\ l.cached # {} => l.lir_count >= 1

\* What holds of the struct l, in quiet use or while mappings are loaded.
InvOf(l, loads, calm) ==
  /\ ~l.fault => Sound(l, l.migrating)
  /\ ~l.fault /\ loads => LoadSound(l)
  /\ ~l.fault /\ calm => QuietSound(l)
  /\ calm /\ LargeCache => NeverFaults(l)

LirsInv == InvOf(lirs, loading, quiet)

\* Only the parts on which the lists depend matter.
LEMMA SameLists ==
  ASSUME NEW l, NEW x \in Structs, NEW out, Sound(l, out), x.queue = l.queue,
         x.cached = l.cached, x.hir = l.hir, x.lir_count = l.lir_count,
         x.migrating \subseteq out
  PROVE  Sound(x, out) /\ (TopIsLir(l) => TopIsLir(x))
<1>1. \A n : Members(x, n) = Members(l, n)
  BY DEF Members
<1> QED
  BY <1>1 DEF Sound, QueuesSound, StatusSound, CountsSound, TopIsLir

\* If there is a LIR block, and none is out of the lists, S has one.
LEMMA LirInStack ==
  ASSUME NEW l, NEW out, Sound(l, out), l.lir_count >= 1, out \subseteq l.hir
  PROVE  l.queue["s"] # <<>>
<1>1. CountsSound(l) /\ StatusSound(l, out)
  BY DEF Sound
<1>2. l.cached \ l.hir # {}
  BY <1>1, FS_EmptySet DEF CountsSound
<1>3. PICK b \in l.cached \ l.hir : TRUE
  BY <1>2
<1>4. b \in Members(l, "s")
  BY <1>1, <1>3 DEF StatusSound
<1> QED
  BY <1>4 DEF Members, ToSet

LEMMA SoundParts ==
  ASSUME NEW l, NEW out, Sound(l, out)
  PROVE  /\ l \in Structs /\ QueuesSound(l) /\ StatusSound(l, out) /\ CountsSound(l)
         /\ l.s_len \in Int /\ l.lir_count \in Nat /\ Len(l.queue["s"]) \in Nat
         /\ IsFiniteSet(l.migrating) /\ Cardinality(l.migrating) \in Nat
         /\ IsFiniteSet(l.cached) /\ Cardinality(l.cached) \in Nat
         /\ Cardinality(l.cached) <= CacheSize
         /\ l.migrating \subseteq out /\ out \subseteq l.cached /\ l.cached \subseteq Oblocks
         /\ l.cached = {} => l.lir_count = 0
<1>1. l \in Structs /\ QueuesSound(l) /\ StatusSound(l, out) /\ CountsSound(l)
  BY DEF Sound
<1>2. l.s_len \in Int /\ Len(l.queue["s"]) \in Nat
  BY <1>1, StructParts, QueueNames, LenProperties
<1>3. l.migrating \subseteq out /\ out \subseteq l.cached /\ l.cached \subseteq Oblocks
  BY <1>1, StructParts DEF StatusSound
<1>4. /\ IsFiniteSet(l.cached) /\ Cardinality(l.cached) \in Nat
      /\ Cardinality(l.cached) <= CacheSize
  BY <1>1, FS_CardinalityType DEF CountsSound
<1>5. IsFiniteSet(l.migrating) /\ Cardinality(l.migrating) \in Nat
  BY <1>3, <1>4, FS_Subset, FS_CardinalityType
<1>6. l.lir_count \in Nat
  <2>1. IsFiniteSet(l.cached \ l.hir)
    BY <1>4, FS_Subset, l.cached \ l.hir \subseteq l.cached
  <2> QED
    BY <1>1, <2>1, FS_CardinalityType DEF CountsSound
<1>7. l.cached = {} => l.lir_count = 0
  BY <1>1, FS_EmptySet, {} \ l.hir = {} DEF CountsSound
<1> QED
  BY <1>1, <1>2, <1>3, <1>4, <1>5, <1>6, <1>7

\* A block whose data has been copied gets its places.
LEMMA MigratedStep ==
  ASSUME NEW l, NEW o \in l.migrating, ~l.fault, NEW calm, InvOf(l, FALSE, calm)
  PROVE  LET x == lirs_enqueue([l EXCEPT !.migrating = @ \ {o}], o, o \in l.hir)
         IN  /\ InvOf(x, FALSE, calm)
             /\ x.cached = l.cached /\ x.migrating = l.migrating \ {o}
<1> DEFINE y == [l EXCEPT !.migrating = @ \ {o}]
           x == lirs_enqueue(y, o, o \in l.hir)
<1>1. Sound(l, l.migrating)
  BY DEF InvOf
<1>2. /\ l \in Structs /\ l.s_len \in Int /\ l.lir_count \in Nat /\ Len(l.queue["s"]) \in Nat
      /\ IsFiniteSet(l.migrating) /\ l.migrating \subseteq l.cached /\ l.cached \subseteq Oblocks
      /\ l.migrating \subseteq Oblocks
  BY <1>1, SoundParts
<1>3. /\ y \in Structs /\ y.queue = l.queue /\ y.s_len = l.s_len
      /\ y.cached = l.cached /\ y.hir = l.hir /\ y.lir_count = l.lir_count
      /\ y.migrating = l.migrating \ {o}
      /\ y.last_oblock = l.last_oblock /\ y.fault = l.fault
  BY <1>2 DEF Structs
<1> HIDE DEF y
<1>4. Sound(y, l.migrating) /\ (TopIsLir(l) => TopIsLir(y))
  BY <1>1, <1>3, SameLists
<1>5. Enqueued(y, x, o, o \in l.hir, l.migrating)
  <2>1. (o \in l.hir) \in BOOLEAN /\ (o \in l.hir <=> o \in y.hir) /\ o \notin y.migrating
    BY <1>3
  <2> QED
    BY <1>4, <2>1, EnqueueSound
<1> HIDE DEF x
<1>6. /\ Sound(x, x.migrating)
      /\ x.cached = l.cached /\ x.migrating = l.migrating \ {o}
      /\ x.last_oblock = l.last_oblock /\ x.fault = l.fault
      /\ x.lir_count = l.lir_count /\ x.s_len = l.s_len
      /\ Len(x.queue["s"]) = Len(l.queue["s"]) + 1
      /\ TopIsLir(l) /\ (o \in l.hir => l.queue["s"] # <<>>) => TopIsLir(x)
  BY <1>3, <1>4, <1>5 DEF Enqueued
<1>7. ASSUME calm
      PROVE  QuietSound(x)
  <2>1. QuietSound(l)
    BY <1>7 DEF InvOf
  <2>2. Cardinality(x.migrating) = Cardinality(l.migrating) - 1
    BY <1>2, <1>6, FS_RemoveElement
  <2>3. Cardinality(l.migrating) \in Nat
    BY <1>2, FS_CardinalityType
  <2>4. x.s_len = Len(x.queue["s"]) + Cardinality(x.migrating)
    <3>1. l.s_len = Len(l.queue["s"]) + Cardinality(l.migrating)
      BY <2>1 DEF QuietSound
    <3>2. x.s_len = l.s_len /\ Len(x.queue["s"]) = Len(l.queue["s"]) + 1
      BY <1>6
    <3> QED
      BY <1>2, <2>2, <2>3, <3>1, <3>2
  <2> QED
    BY <1>6, <2>1, <2>4 DEF QuietSound
<1>8. ASSUME calm, LargeCache
      PROVE  NeverFaults(x)
  <2>1. QuietSound(l) /\ NeverFaults(l)
    BY <1>8 DEF InvOf
  <2>2. l.migrating = {o}
    BY <2>1 DEF QuietSound
  <2>3. o \in l.hir => l.queue["s"] # <<>>
    <3>1. l.lir_count >= 1
      BY <1>2, <2>1 DEF NeverFaults
    <3> QED
      BY <1>1, <2>2, <3>1, LirInStack
  <2> QED
    BY <1>6, <2>1, <2>3 DEF NeverFaults
<1> QED
  BY <1>6, <1>7, <1>8 DEF InvOf, x, y

\* A removal leaves a sound struct or fails.
LEMMA RemoveStep ==
  ASSUME NEW l, NEW o \in l.cached \cup Members(l, "g"), ~l.fault, Sound(l, l.migrating),
         NEW to_history \in BOOLEAN
  PROVE  LET x == lirs_prune_s(
                    IF o \in l.cached /\ to_history /\ o \in l.hir /\ in_queue(l, "s", o)
                      THEN lirs_replace_with_meta(l, o)
                      ELSE lirs_remove_entry(l, o))
         IN  x.fault \/ (~x.fault /\ Sound(x, x.migrating))
<1> DEFINE y == IF o \in l.cached /\ to_history /\ o \in l.hir /\ in_queue(l, "s", o)
                  THEN lirs_replace_with_meta(l, o)
                  ELSE lirs_remove_entry(l, o)
           x == lirs_prune_s(y)
<1>1. (y.fault /\ Sound(y, l.migrating)) \/ (~y.fault /\ Sound(y, y.migrating))
  <2>1. CASE o \in l.cached /\ to_history /\ o \in l.hir /\ in_queue(l, "s", o)
    <3>1. o \in Members(l, "s")
      BY <2>1 DEF in_queue, Members
    <3>2. \/ y = Fault(l)
          \/ Evicted(l, y, o, l.migrating)
      BY <2>1, <3>1, ReplaceSound
    <3> QED
      BY <3>2, FaultSound DEF Evicted
  <2>2. CASE ~(o \in l.cached /\ to_history /\ o \in l.hir /\ in_queue(l, "s", o))
    <3>1. EntryRemoved(l, y, o, l.migrating)
      BY <2>2, RemoveEntrySound
    <3> QED
      BY <3>1 DEF EntryRemoved
  <2> QED
    BY <2>1, <2>2
<1> HIDE DEF y
<1>2. CASE y.fault /\ Sound(y, l.migrating)
  <2>1. x.fault
    BY <1>2, PruneSound DEF Popped
  <2> QED
    BY <2>1 DEF y
<1>3. CASE ~y.fault /\ Sound(y, y.migrating)
  <2>1. x.fault \/ Popped(y, x, y.migrating)
    BY <1>3, PruneSound
  <2>2. Popped(y, x, y.migrating) => ~x.fault /\ Sound(x, x.migrating)
    BY <1>3 DEF Popped
  <2> QED
    BY <2>1, <2>2 DEF y
<1> QED
  BY <1>1, <1>2, <1>3

\* The struct l after block o, which is not cached, has been added.
Added(l, o, is_HIR) ==
  [l EXCEPT !.cached = @ \cup {o},
            !.hir = IF is_HIR THEN @ \cup {o} ELSE @,
            !.lir_count = IF is_HIR THEN @ ELSE @ + 1,
            !.s_len = @ + 1]

\* It gets its places while mappings are loaded.
LEMMA LoadStep ==
  ASSUME NEW l, NEW o \in Oblocks, ~l.fault, NEW calm, InvOf(l, TRUE, calm),
         o \notin l.cached, ~policy_cache_is_full(l),
         NEW is_HIR \in BOOLEAN,
         is_HIR <=> CacheSize - (Cardinality(l.cached) + 1) <= hir_limit
  PROVE  LET x == lirs_enqueue(Added(l, o, is_HIR), o, is_HIR)
         IN  /\ InvOf(x, TRUE, calm)
             /\ x.cached = l.cached \cup {o} /\ x.migrating = l.migrating
<1> DEFINE added == Added(l, o, is_HIR)
           h == IF is_HIR THEN l.hir \cup {o} ELSE l.hir
           c == IF is_HIR THEN l.lir_count ELSE l.lir_count + 1
           t == [is_HIR |-> is_HIR]
           w == lirs_commit_entry(l, o, t)
           x == lirs_enqueue(added, o, is_HIR)
<1>1. Sound(l, l.migrating) /\ LoadSound(l)
  BY DEF InvOf
<1>2. /\ l \in Structs /\ QueuesSound(l) /\ StatusSound(l, l.migrating) /\ CountsSound(l)
      /\ l.s_len \in Int /\ l.lir_count \in Nat /\ Len(l.queue["s"]) \in Nat
      /\ l.cached \subseteq Oblocks /\ l.hir \subseteq Oblocks
      /\ IsFiniteSet(l.cached) /\ Cardinality(l.cached) \in Nat
      /\ Cardinality(l.cached) <= CacheSize
      /\ l.cached = {} => l.lir_count = 0
  BY <1>1, SoundParts, StructParts
<1>3. l.migrating = {} /\ Members(l, "g") = {} /\ l.last_oblock = Null /\ o \notin l.hir
  BY <1>1, <1>2 DEF LoadSound, StatusSound
<1>4. /\ h \subseteq Oblocks /\ c \in Int
      /\ added = [l EXCEPT !.cached = l.cached \cup {o}, !.hir = h, !.lir_count = c,
                           !.s_len = l.s_len + 1]
  BY <1>2 DEF Added
<1>5. /\ Committed(l, w, w.migrating)
      /\ w.cached = l.cached \cup {o}
      /\ w.migrating = l.migrating \cup {o}
      /\ w.hir = h
      /\ w.lir_count = c
  <2>1. t.is_HIR = is_HIR /\ t.is_HIR \in BOOLEAN
    OBVIOUS
  <2>2. Cardinality(l.cached) # CacheSize
    BY DEF policy_cache_is_full
  <2> HIDE DEF t
  <2>3. MissCommitted(l, w, o, t.is_HIR)
    BY <1>1, <1>3, <2>1, <2>2, CommitMissSound
  <2> QED
    BY <2>1, <2>3 DEF MissCommitted
<1> HIDE DEF w, h, c, t
<1>6. /\ added.queue = l.queue /\ added.cached = l.cached \cup {o} /\ added.hir = h
      /\ added.lir_count = c /\ added.s_len = l.s_len + 1
      /\ added.migrating = l.migrating /\ added.last_oblock = l.last_oblock
      /\ added.fault = l.fault
  BY <1>2, <1>4 DEF Structs
<1>7. added \in Structs
  <2>1. l.cached \cup {o} \subseteq Oblocks /\ l.s_len + 1 \in Int
    BY <1>2
  <2> QED
    BY <1>2, <1>4, <2>1 DEF Structs
<1> HIDE DEF added
<1>8. Sound(w, {o}) /\ w.queue = l.queue /\ (TopIsLir(l) => TopIsLir(w))
  <2>1. w.migrating = {o}
    BY <1>3, <1>5
  <2> QED
    BY <1>5, <2>1 DEF Committed
<1>9. Sound(added, {o}) /\ (TopIsLir(l) => TopIsLir(added))
  <2>1. added.migrating \subseteq {o}
    BY <1>3, <1>6
  <2> QED
    BY <1>5, <1>6, <1>7, <1>8, <2>1, SameLists
<1>10. is_HIR <=> o \in added.hir
  BY <1>3, <1>6 DEF h
<1>11. Enqueued(added, x, o, is_HIR, {o})
  BY <1>3, <1>6, <1>9, <1>10, EnqueueSound
<1> HIDE DEF x
<1>12. /\ Sound(x, {o} \ {o})
       /\ x.cached = l.cached \cup {o} /\ x.migrating = l.migrating
       /\ x.last_oblock = l.last_oblock /\ x.fault = l.fault
       /\ x.lir_count = c /\ x.s_len = l.s_len + 1
       /\ Len(x.queue["s"]) = Len(l.queue["s"]) + 1
       /\ TopIsLir(l) /\ (is_HIR => l.queue["s"] # <<>>) => TopIsLir(x)
  BY <1>6, <1>9, <1>11 DEF Enqueued
<1>13. {o} \ {o} = {} /\ x.migrating = {}
  BY <1>3, <1>12
<1>14. Sound(x, x.migrating)
  BY <1>12, <1>13
<1>15. LoadSound(x)
  <2>1. Members(x, "g") = {}
    <3>1. Members(x, "g") \subseteq x.hir \ x.cached /\ x.hir \subseteq Oblocks
      BY <1>14, SoundParts, StructParts DEF StatusSound
    <3>2. Enqueued(added, x, o, is_HIR, {o})
      BY <1>11
    <3>3. x.hir = h
      BY <1>6, <3>2 DEF Enqueued
    <3>4. h \subseteq l.cached \cup {o}
      BY <1>2, <1>3 DEF StatusSound, h
    <3> QED
      BY <1>12, <3>1, <3>3, <3>4
  <2> QED
    BY <1>3, <1>12, <2>1 DEF LoadSound
<1>16. CacheSize \in Nat /\ hir_limit \in Nat
  BY LimitFacts, NucleusAssumption
<1>17. c <= l.lir_count \/ c <= CacheSize - hir_limit
  <2>1. CASE is_HIR
    BY <1>2, <2>1 DEF c
  <2>2. CASE ~is_HIR
    <3>1. CacheSize - (Cardinality(l.cached) + 1) > hir_limit
      BY <1>2, <1>16, <2>2
    <3>2. l.lir_count <= Cardinality(l.cached)
      BY <1>2, FS_Subset, l.cached \ l.hir \subseteq l.cached DEF CountsSound
    <3> QED
      BY <1>2, <1>16, <2>2, <3>1, <3>2 DEF c
  <2> QED
    BY <2>1, <2>2
<1>18. ASSUME calm
       PROVE  QuietSound(x)
  <2>1. QuietSound(l)
    BY <1>18 DEF InvOf
  <2>2. c <= CacheSize - hir_limit
    BY <1>2, <1>16, <1>17, <2>1, <1>4 DEF QuietSound
  <2> QED
    <3>1. Cardinality(x.migrating) = 0 /\ Cardinality(l.migrating) = 0
      BY <1>3, <1>13, FS_EmptySet
    <3>2. l.s_len = Len(l.queue["s"]) + Cardinality(l.migrating)
      BY <2>1 DEF QuietSound
    <3>3. x.s_len = Len(x.queue["s"]) + Cardinality(x.migrating)
      BY <1>2, <1>12, <3>1, <3>2
    <3>4. x.migrating \subseteq {x.last_oblock} /\ x.last_oblock \in x.cached \cup {Null}
      BY <1>3, <1>12, <1>13
    <3>5. x.lir_count <= CacheSize - hir_limit
      BY <1>12, <2>2
    <3> QED
      BY <3>3, <3>4, <3>5 DEF QuietSound
<1>19. ASSUME calm, LargeCache
       PROVE  NeverFaults(x)
  <2>1. NeverFaults(l)
    BY <1>19 DEF InvOf
  <2>2. CASE l.cached = {}
    <3>1. ~is_HIR
      <4>1. Cardinality(l.cached) = 0
        BY <2>2, FS_EmptySet
      <4> QED
        BY <4>1, <1>16, <1>19 DEF LargeCache
    <3>2. c >= 1
      BY <1>2, <3>1 DEF c
    <3> QED
      BY <1>12, <2>1, <3>1, <3>2 DEF NeverFaults
  <2>3. CASE l.cached # {}
    <3>1. l.lir_count >= 1
      BY <2>1, <2>3 DEF NeverFaults
    <3>2. l.queue["s"] # <<>>
      BY <1>1, <1>3, <3>1, LirInStack
    <3>3. c >= 1
      BY <1>2, <3>1 DEF c
    <3> QED
      BY <1>12, <2>1, <3>2, <3>3 DEF NeverFaults
  <2> QED
    BY <2>2, <2>3
<1> QED
  BY <1>12, <1>14, <1>15, <1>18, <1>19 DEF InvOf, x, added

\* Block n takes the place of block o in a set, or o that of n again in a name.
Renamed(S, o, n) == IF o \in S THEN (S \ {o}) \cup {n} ELSE S
OldName(b, o, n) == IF b = n THEN o ELSE b

\* The queue keeps its order.
LEMMA RenameQueue ==
  ASSUME NEW S, NEW q \in Seq(S), IsInjective(q), NEW o, NEW n \in S, n \notin ToSet(q)
  PROVE  LET r == ReplaceAll(q, o, n)
         IN  /\ r \in Seq(S)
             /\ IsInjective(r)
             /\ ToSet(r) = Renamed(ToSet(q), o, n)
             /\ \A x, y : Precedes(r, x, y) => Precedes(q, OldName(x, o, n), OldName(y, o, n))
             /\ \A x, y : /\ x # n \/ o \in ToSet(q)
                          /\ y # n \/ o \in ToSet(q)
                          /\ x # o /\ y # o
                          /\ Precedes(q, OldName(x, o, n), OldName(y, o, n))
                          => Precedes(r, x, y)
<1> DEFINE r == ReplaceAll(q, o, n)
<1>1. /\ Len(q) \in Nat /\ DOMAIN q = 1 .. Len(q)
      /\ \A i \in 1 .. Len(q) : q[i] \in S /\ q[i] # n
      /\ \A i, j \in 1 .. Len(q) : q[i] = q[j] => i = j
  BY LenProperties DEF ToSet, IsInjective
<1>2. /\ r = [i \in 1 .. Len(q) |-> IF q[i] = o THEN n ELSE q[i]]
      /\ DOMAIN r = 1 .. Len(q)
      /\ \A i \in 1 .. Len(q) : r[i] = IF q[i] = o THEN n ELSE q[i]
  BY DEF ReplaceAll
<1>3. r \in Seq(S)
  <2>1. r \in [1 .. Len(q) -> S]
    BY <1>1, <1>2
  <2> QED
    BY <1>1, <2>1, SeqDef
<1> HIDE DEF r
<1>4. IsInjective(r)
  BY <1>1, <1>2 DEF IsInjective
<1>5. ToSet(r) = Renamed(ToSet(q), o, n)
  <2>1. ASSUME NEW i \in 1 .. Len(q)
        PROVE  r[i] \in Renamed(ToSet(q), o, n)
    BY <1>1, <1>2 DEF ToSet, Renamed
  <2>2. ASSUME NEW b \in Renamed(ToSet(q), o, n)
        PROVE  \E i \in 1 .. Len(q) : b = r[i]
    <3>1. CASE b = n
      <4>1. o \in ToSet(q)
        BY <2>2, <3>1 DEF Renamed
      <4> QED
        BY <1>1, <1>2, <3>1, <4>1 DEF ToSet
    <3>2. CASE b # n
      <4>1. b \in ToSet(q) /\ b # o
        BY <2>2, <3>2 DEF Renamed
      <4> QED
        BY <1>1, <1>2, <4>1 DEF ToSet
    <3> QED
      BY <3>1, <3>2
  <2> QED
    BY <1>2, <2>1, <2>2 DEF ToSet
<1>6. ASSUME NEW x, NEW y, Precedes(r, x, y)
      PROVE  Precedes(q, OldName(x, o, n), OldName(y, o, n))
  <2>1. PICK i, j \in 1 .. Len(q) : i < j /\ r[i] = x /\ r[j] = y
    BY <1>2, <1>6 DEF Precedes
  <2>2. q[i] = OldName(x, o, n) /\ q[j] = OldName(y, o, n)
    BY <1>1, <1>2, <2>1 DEF OldName
  <2> QED
    BY <1>1, <2>1, <2>2 DEF Precedes
<1>7. ASSUME NEW x, NEW y, x # o, y # o,
             Precedes(q, OldName(x, o, n), OldName(y, o, n))
      PROVE  Precedes(r, x, y)
  <2>1. PICK i, j \in 1 .. Len(q) : /\ i < j
                                    /\ q[i] = OldName(x, o, n) /\ q[j] = OldName(y, o, n)
    BY <1>1, <1>7 DEF Precedes
  <2>2. r[i] = x /\ r[j] = y
    BY <1>1, <1>2, <1>7, <2>1 DEF OldName
  <2> QED
    BY <1>2, <2>1, <2>2 DEF Precedes
<1> QED
  BY <1>3, <1>4, <1>5, <1>6, <1>7 DEF r

\* A block gets another name, which no block has.
LEMMA RemapStep ==
  ASSUME NEW l, Sound(l, l.migrating), NEW o \in l.cached, NEW n \in Oblocks,
         n \notin l.cached \cup Members(l, "g")
  PROVE  LET x == [l EXCEPT !.queue = [k \in Queues |-> ReplaceAll(l.queue[k], o, n)],
                            !.hir = Renamed(@, o, n),
                            !.cached = Renamed(@, o, n),
                            !.migrating = Renamed(@, o, n)]
         IN  Sound(x, x.migrating) /\ x.fault = l.fault
<1> DEFINE qs == [k \in Queues |-> ReplaceAll(l.queue[k], o, n)]
           x == [l EXCEPT !.queue = qs,
                          !.hir = Renamed(@, o, n),
                          !.cached = Renamed(@, o, n),
                          !.migrating = Renamed(@, o, n)]
<1>1. /\ l \in Structs /\ QueuesSound(l) /\ StatusSound(l, l.migrating) /\ CountsSound(l)
      /\ l.cached \subseteq Oblocks /\ l.hir \subseteq Oblocks /\ l.migrating \subseteq l.cached
      /\ IsFiniteSet(l.cached)
  BY SoundParts, StructParts
<1>2. /\ n # o /\ n \notin l.hir /\ n \notin l.migrating /\ n \notin l.cached
      /\ \A k \in Queues : n \notin Members(l, k)
  <2>1. /\ n \notin Members(l, "q") /\ n \notin Members(l, "s")
        /\ n \notin Members(l, "r") /\ n \notin Members(l, "g")
        /\ n # o /\ n \notin l.hir /\ n \notin l.migrating /\ n \notin l.cached
    BY <1>1 DEF StatusSound
  <2> QED
    BY <2>1 DEF Queues
<1>3. /\ \A k \in Queues : qs[k] = ReplaceAll(l.queue[k], o, n)
      /\ DOMAIN qs = Queues /\ qs = [k \in Queues |-> qs[k]]
  OBVIOUS
<1> HIDE DEF qs
<1>4. ASSUME NEW k \in Queues
      PROVE  /\ qs[k] \in Seq(Oblocks)
             /\ IsInjective(qs[k])
             /\ ToSet(qs[k]) = Renamed(Members(l, k), o, n)
             /\ \A b, c : Precedes(qs[k], b, c) =>
                            Precedes(l.queue[k], OldName(b, o, n), OldName(c, o, n))
             /\ \A b, c : /\ b # n \/ o \in Members(l, k)
                          /\ c # n \/ o \in Members(l, k)
                          /\ b # o /\ c # o
                          /\ Precedes(l.queue[k], OldName(b, o, n), OldName(c, o, n))
                          => Precedes(qs[k], b, c)
  <2>1. l.queue[k] \in Seq(Oblocks) /\ IsInjective(l.queue[k]) /\ n \notin ToSet(l.queue[k])
    BY <1>1, <1>2, StructParts DEF QueuesSound, Members
  <2> QED
    BY <1>3, <2>1, RenameQueue DEF Members
<1>5. qs \in [Queues -> Seq(Oblocks)]
  BY <1>3, <1>4
<1>6. /\ x.queue = qs /\ x.s_len = l.s_len /\ x.lir_count = l.lir_count
      /\ x.hir = Renamed(l.hir, o, n) /\ x.cached = Renamed(l.cached, o, n)
      /\ x.migrating = Renamed(l.migrating, o, n)
      /\ x.last_oblock = l.last_oblock /\ x.fault = l.fault
  BY <1>1 DEF Structs
<1>7. x \in Structs
  <2>1. /\ Renamed(l.hir, o, n) \subseteq Oblocks /\ Renamed(l.cached, o, n) \subseteq Oblocks
        /\ Renamed(l.migrating, o, n) \subseteq Oblocks
    BY <1>1 DEF Renamed
  <2> QED
    BY <1>1, <1>5, <2>1 DEF Structs
<1> HIDE DEF x
<1>8. \A k \in Queues : Members(x, k) = Renamed(Members(l, k), o, n)
  BY <1>4, <1>6 DEF Members
<1>9. QueuesSound(x)
  <2>1. ASSUME NEW b \in Members(x, "r"), NEW c \in Members(x, "r"),
               Precedes(x.queue["r"], b, c)
        PROVE  Precedes(x.queue["s"], b, c)
    <3> DEFINE b0 == OldName(b, o, n)
               c0 == OldName(c, o, n)
    <3>1. Precedes(l.queue["r"], b0, c0)
      BY <1>4, <1>6, <2>1, QueueNames
    <3>2. /\ b # o /\ c # o
          /\ b0 \in Members(l, "r") /\ c0 \in Members(l, "r")
          /\ b # n \/ o \in Members(l, "r")
          /\ c # n \/ o \in Members(l, "r")
      <4>1. b \in Renamed(Members(l, "r"), o, n) /\ c \in Renamed(Members(l, "r"), o, n)
        BY <1>8, QueueNames
      <4>2. n \notin Members(l, "r")
        BY <1>2, QueueNames
      <4> QED
        BY <1>2, <4>1, <4>2 DEF Renamed, OldName
    <3>3. Members(l, "r") \subseteq Members(l, "s")
      BY <1>1 DEF StatusSound
    <3>4. Precedes(l.queue["s"], b0, c0)
      BY <1>1, <3>1, <3>2 DEF QueuesSound
    <3> HIDE DEF b0, c0
    <3>5. /\ b # n \/ o \in Members(l, "s")
          /\ c # n \/ o \in Members(l, "s")
      BY <3>2, <3>3
    <3> QED
      BY <1>4, <1>6, <3>2, <3>4, <3>5, QueueNames DEF b0, c0
  <2> QED
    BY <1>4, <1>6, <2>1 DEF QueuesSound
<1>10. StatusSound(x, x.migrating)
  <2>1. /\ Members(x, "q") = Renamed(Members(l, "q"), o, n)
        /\ Members(x, "s") = Renamed(Members(l, "s"), o, n)
        /\ Members(x, "r") = Renamed(Members(l, "r"), o, n)
        /\ Members(x, "g") = Renamed(Members(l, "g"), o, n)
    BY <1>8, QueueNames
  <2>2. /\ n \notin Members(l, "q") /\ n \notin Members(l, "s")
        /\ n \notin Members(l, "r") /\ n \notin Members(l, "g")
    BY <1>2, QueueNames
  <2> QED
    BY <1>1, <1>2, <1>6, <2>1, <2>2 DEF StatusSound, Renamed
<1>11. CountsSound(x)
  <2>1. ASSUME NEW T, IsFiniteSet(T), n \notin T
        PROVE  IsFiniteSet(Renamed(T, o, n)) /\ Cardinality(Renamed(T, o, n)) = Cardinality(T)
    <3>1. CASE o \in T
      <4>1. IsFiniteSet(T \ {o}) /\ Cardinality(T \ {o}) = Cardinality(T) - 1
        BY <2>1, <3>1, FS_RemoveElement
      <4>2. n \notin T \ {o}
        BY <2>1
      <4>3. /\ IsFiniteSet((T \ {o}) \cup {n})
            /\ Cardinality((T \ {o}) \cup {n}) = Cardinality(T \ {o}) + 1
        BY <4>1, <4>2, FS_AddElement
      <4> QED
        BY <2>1, <3>1, <4>1, <4>3, FS_CardinalityType DEF Renamed
    <3>2. CASE o \notin T
      BY <2>1, <3>2 DEF Renamed
    <3> QED
      BY <3>1, <3>2
  <2>2. x.cached \ x.hir = Renamed(l.cached \ l.hir, o, n)
    BY <1>2, <1>6 DEF Renamed
  <2>3. IsFiniteSet(l.cached \ l.hir) /\ n \notin l.cached \ l.hir
    BY <1>1, <1>2, FS_Subset, l.cached \ l.hir \subseteq l.cached
  <2> QED
    BY <1>1, <1>2, <1>6, <2>1, <2>2, <2>3 DEF CountsSound
<1> QED
  BY <1>6, <1>7, <1>9, <1>10, <1>11 DEF Sound, x, qs

\* A quiet request can be served: there is a block to evict, and a LIR block if one
\* has to become HIR.
LEMMA QuietRequest ==
  ASSUME NEW l, NEW o \in Oblocks, Sound(l, l.migrating), l.migrating = {}
  PROVE  LET t == lirs_transaction_set(l, o)
         IN  /\ l.lir_count <= CacheSize - hir_limit /\ ~t.fault =>
                  lirs_transaction_is_legal(l, t)
             /\ Steady(l) => ~t.fault
<1> DEFINE t == lirs_transaction_set(l, o)
<1>1. /\ l \in Structs /\ StatusSound(l, {}) /\ CountsSound(l)
      /\ l.lir_count \in Nat /\ IsFiniteSet(l.cached)
  BY SoundParts
<1>2. /\ t.hir_evict => ~t.repeat /\ o \notin l.cached
      /\ ~t.repeat /\ o \notin l.cached => (t.hir_evict <=> Cardinality(l.cached) = CacheSize)
      /\ t.fault => l.queue["s"] = <<>> /\ o \in l.cached \cup Members(l, "g")
  BY TransactionFacts
<1>3. t.lir_evict /\ l.queue["s"] = <<>> => t.fault
  BY DEF lirs_transaction_set
<1>4. ASSUME t.hir_evict, l.queue["q"] = <<>>, l.lir_count <= CacheSize - hir_limit
      PROVE  FALSE
  <2>1. Members(l, "q") = {}
    BY <1>4 DEF Members, ToSet
  <2>2. l.cached \ l.hir = l.cached
    BY <1>1, <2>1 DEF StatusSound
  <2>3. l.lir_count = CacheSize
    BY <1>1, <1>2, <1>4, <2>2 DEF CountsSound
  <2> QED
    BY <1>4, <2>3, LimitFacts, NucleusAssumption
<1>5. ASSUME Steady(l), t.fault
      PROVE  FALSE
  <2>1. l.queue["s"] = <<>> /\ o \in l.cached \cup Members(l, "g")
    BY <1>2, <1>5
  <2>2. Members(l, "s") = {}
    BY <2>1 DEF Members, ToSet
  <2>3. o \in l.cached
    BY <1>1, <2>1, <2>2 DEF StatusSound
  <2>4. l.lir_count >= 1
    BY <1>5, <2>3 DEF Steady
  <2>5. l.queue["s"] # <<>>
    BY <2>4, LirInStack
  <2> QED
    BY <2>1, <2>5
<1> HIDE DEF t
<1> QED
  BY <1>3, <1>4, <1>5 DEF lirs_transaction_is_legal, t

\* A request keeps the invariant, and in a large cache that is used quietly it is
\* served.
LEMMA MapStep ==
  ASSUME NEW l, NEW o \in Oblocks, ~l.fault, NEW calm, InvOf(l, FALSE, calm),
         NEW x,
         LET t == lirs_transaction_set(l, o)
         IN  \/ t.fault /\ x = Fault(l)
             \/ /\ ~t.fault
                /\ ~lirs_transaction_is_legal(l, t) \/ t.repeat
                /\ x = l
             \/ /\ ~t.fault /\ lirs_transaction_is_legal(l, t) /\ ~t.repeat
                /\ x = lirs_transaction_commit(l, o, t)
  PROVE  InvOf(x, FALSE, calm /\ l.migrating = {})
<1> DEFINE t == lirs_transaction_set(l, o)
<1>1. Sound(l, l.migrating)
  BY DEF InvOf
<1>2. /\ l.s_len \in Int /\ l.lir_count \in Nat /\ Len(l.queue["s"]) \in Nat
      /\ CacheSize \in Nat /\ hir_limit \in Nat
  BY <1>1, SoundParts, LimitFacts, NucleusAssumption
<1>3. ASSUME calm, l.migrating = {}, LargeCache
      PROVE  Steady(l)
  <2>1. QuietSound(l) /\ NeverFaults(l)
    BY <1>3 DEF InvOf
  <2>2. Cardinality(l.migrating) = 0
    BY <1>3, FS_EmptySet
  <2> QED
    BY <1>2, <1>3, <2>1, <2>2 DEF QuietSound, NeverFaults, LargeCache, Steady
<1>4. CASE t.fault /\ x = Fault(l)
  <2>1. x.fault
    BY <1>1, <1>4, FaultSound
  <2>2. ~(calm /\ l.migrating = {} /\ LargeCache)
    BY <1>1, <1>3, <1>4, QuietRequest
  <2> QED
    BY <2>1, <2>2 DEF InvOf
<1>5. CASE x = l
  BY <1>5 DEF InvOf
<1>6. CASE /\ ~t.fault /\ lirs_transaction_is_legal(l, t) /\ ~t.repeat
           /\ x = lirs_transaction_commit(l, o, t)
  <2>1. o # l.last_oblock
    BY <1>1, <1>6, TransactionFacts
  <2>2. /\ x.fault \/ Served(l, x, o, t)
        /\ Steady(l) => Served(l, x, o, t)
    BY <1>1, <1>6, <2>1, RequestSound
  <2>3. Served(l, x, o, t) => ~x.fault /\ Sound(x, x.migrating)
    BY DEF Served
  <2> HIDE DEF t
  <2>4. ASSUME Served(l, x, o, t), calm, l.migrating = {}
        PROVE  QuietSound(x)
    <3>1. QuietSound(l)
      BY <2>4 DEF InvOf
    <3>2. /\ x.cached = (l.cached \ Gone(l, t)) \cup {o}
          /\ x.migrating = l.migrating \cup ({o} \ l.cached)
          /\ x.last_oblock = o
          /\ x.lir_count <= l.lir_count \/ x.lir_count <= CacheSize - hir_limit
          /\ o \notin l.migrating /\ o \in l.cached =>
               x.s_len - Len(x.queue["s"]) = l.s_len - Len(l.queue["s"])
          /\ o \notin l.cached =>
               x.s_len - Len(x.queue["s"]) = l.s_len - Len(l.queue["s"]) + 1
      BY <2>4 DEF Served
    <3>3. x.s_len \in Int /\ Len(x.queue["s"]) \in Nat /\ x.lir_count \in Nat
      BY <2>3, <2>4, SoundParts
    <3>4. l.s_len = Len(l.queue["s"])
      BY <1>2, <2>4, <3>1, FS_EmptySet DEF QuietSound
    <3>5. x.s_len = Len(x.queue["s"]) + Cardinality(x.migrating)
      <4>1. CASE o \in l.cached
        <5>1. x.migrating = {} /\ o \notin l.migrating
          BY <2>4, <3>2, <4>1
        <5>2. x.s_len - Len(x.queue["s"]) = 0
          BY <1>2, <3>2, <3>4, <4>1, <5>1
        <5> QED
          BY <3>3, <5>1, <5>2, FS_EmptySet
      <4>2. CASE o \notin l.cached
        <5>1. x.migrating = {o}
          BY <2>4, <3>2, <4>2
        <5>2. x.s_len - Len(x.queue["s"]) = 1
          BY <1>2, <3>2, <3>4, <4>2
        <5>3. Cardinality(x.migrating) = 1
          BY <5>1, FS_Singleton
        <5> QED
          BY <3>3, <5>2, <5>3
      <4> QED
        BY <4>1, <4>2
    <3>6. x.lir_count <= CacheSize - hir_limit
      BY <1>2, <3>1, <3>2, <3>3 DEF QuietSound
    <3> QED
      BY <2>4, <3>2, <3>5, <3>6 DEF QuietSound
  <2>5. ASSUME calm, l.migrating = {}, LargeCache
        PROVE  NeverFaults(x)
    <3>1. Served(l, x, o, t)
      BY <1>3, <2>2, <2>5
    <3>2. NeverFaults(l)
      BY <2>5 DEF InvOf
    <3>3. TopIsLir(x)
      BY <2>5, <3>1, <3>2 DEF Served, NeverFaults
    <3>4. x.lir_count >= 1
      <4>1. CacheSize > hir_limit
        BY <1>2, <2>5 DEF LargeCache
      <4> QED
        BY <3>1, <3>2, <4>1 DEF Served, NeverFaults
    <3> QED
      BY <2>3, <3>1, <3>3, <3>4 DEF NeverFaults
  <2> QED
    BY <2>2, <2>3, <2>4, <2>5 DEF InvOf
<1> HIDE DEF t
<1> QED
  BY <1>4, <1>5, <1>6 DEF t

LEMMA LirsInitInv == LirsInit => LirsInv
<1> SUFFICES ASSUME LirsInit
             PROVE  LirsInv
  OBVIOUS
<1> DEFINE l == lirs
<1>1. /\ l.queue = [n \in Queues |-> <<>>] /\ l.s_len = 0 /\ l.lir_count = 0
      /\ l.hir = {} /\ l.cached = {} /\ l.migrating = {} /\ l.last_oblock = Null
      /\ l.fault = FALSE
  BY DEF LirsInit
<1>2. l \in Structs
  <2>1. <<>> \in Seq(Oblocks)
    BY EmptySeq
  <2> QED
    BY <2>1 DEF LirsInit, Structs
<1> HIDE DEF l
<1>3. /\ l.queue["q"] = <<>> /\ l.queue["s"] = <<>> /\ l.queue["r"] = <<>> /\ l.queue["g"] = <<>>
      /\ \A n \in Queues : l.queue[n] = <<>>
  BY <1>1, QueueNames
<1>4. \A n \in Queues : Members(l, n) = {} /\ IsInjective(l.queue[n])
  BY <1>3 DEF Members, ToSet, IsInjective
<1>5. QueuesSound(l)
  BY <1>4, QueueNames DEF QueuesSound
<1>6. StatusSound(l, {})
  BY <1>1, <1>4, QueueNames DEF StatusSound
<1>7. CountsSound(l)
  <2>1. {} \ {} = {} /\ IsFiniteSet({}) /\ Cardinality({}) = 0
    BY FS_EmptySet
  <2> QED
    BY <1>1, <2>1, NucleusAssumption DEF CountsSound
<1>8. Sound(l, l.migrating)
  BY <1>1, <1>2, <1>5, <1>6, <1>7 DEF Sound
<1>9. LoadSound(l)
  BY <1>1, <1>4, QueueNames DEF LoadSound
<1>10. QuietSound(l)
  <2>1. hir_limit <= CacheSize
    <3>1. /\ CacheSize \div 100 \in Nat /\ 100 * (CacheSize \div 100) <= CacheSize
          /\ CacheSize \in Nat /\ CacheSize >= 2
      BY NucleusAssumption, DivFacts
    <3>2. hir_limit = 2 \/ hir_limit = CacheSize \div 100
      BY <3>1, MaxOfTwo DEF hir_limit
    <3> QED
      BY <3>1, <3>2
  <2>2. Len(l.queue["s"]) = 0 /\ Cardinality(l.migrating) = 0
    BY <1>1, <1>3, EmptySeq, FS_EmptySet
  <2> QED
    BY <1>1, <2>1, <2>2, LimitFacts, NucleusAssumption DEF QuietSound
<1>11. NeverFaults(l)
  BY <1>1, <1>3 DEF NeverFaults, TopIsLir
<1> QED
  BY <1>8, <1>9, <1>10, <1>11 DEF LirsInv, InvOf, l

\* The steps of the callers, in terms of the struct before and after.
LEMMA LirsMapCases ==
  ASSUME NEW o \in Oblocks, LirsMap(o)
  PROVE  LET t == lirs_transaction_set(lirs, o)
         IN  \/ t.fault /\ lirs' = Fault(lirs)
             \/ /\ ~t.fault
                /\ ~lirs_transaction_is_legal(lirs, t) \/ t.repeat
                /\ lirs' = lirs
             \/ /\ ~t.fault /\ lirs_transaction_is_legal(lirs, t) /\ ~t.repeat
                /\ lirs' = lirs_transaction_commit(lirs, o, t)
BY Zenon DEF LirsMap, lirs_map_api

LEMMA LirsLoadInv ==
  ASSUME LirsInv, NEW o \in Oblocks, LirsLoad(o)
  PROVE  LirsInv' /\ lirs'.cached = lirs.cached \cup {o} /\ lirs'.migrating = lirs.migrating
<1> DEFINE is_HIR == CacheSize - (Cardinality(lirs.cached) + 1) <= hir_limit
           x == lirs_enqueue(Added(lirs, o, is_HIR), o, is_HIR)
<1>1. /\ ~lirs.fault /\ loading /\ o \notin lirs.cached /\ ~policy_cache_is_full(lirs)
      /\ lirs' = x
      /\ loading' = loading /\ quiet' = quiet
  BY DEF LirsLoad, lirs_insert_api, Added
<1>2. InvOf(lirs, TRUE, quiet)
  BY <1>1 DEF LirsInv, InvOf
<1>3. /\ is_HIR \in BOOLEAN
      /\ is_HIR <=> CacheSize - (Cardinality(lirs.cached) + 1) <= hir_limit
  OBVIOUS
<1> HIDE DEF is_HIR
<1>4. /\ InvOf(x, TRUE, quiet)
      /\ x.cached = lirs.cached \cup {o} /\ x.migrating = lirs.migrating
  BY <1>1, <1>2, <1>3, LoadStep
<1> HIDE DEF x
<1> QED
  BY <1>1, <1>4 DEF LirsInv, InvOf

LEMMA LirsMapInv ==
  ASSUME LirsInv, NEW o \in Oblocks, LirsMap(o)
  PROVE  LirsInv'
<1>1. ~lirs.fault /\ loading' = FALSE /\ quiet' = (quiet /\ lirs.migrating = {})
  BY DEF LirsMap
<1>2. InvOf(lirs, FALSE, quiet)
  BY DEF LirsInv, InvOf
<1>3. InvOf(lirs', FALSE, quiet /\ lirs.migrating = {})
  BY <1>1, <1>2, LirsMapCases, MapStep
<1> QED
  BY <1>1, <1>3 DEF LirsInv

LEMMA LirsMigratedInv ==
  ASSUME LirsInv, NEW o \in Oblocks, LirsMigrated(o)
  PROVE  /\ LirsInv'
         /\ lirs'.cached = lirs.cached /\ lirs'.migrating = lirs.migrating \ {o}
<1>1. /\ ~lirs.fault /\ o \in lirs.migrating /\ loading' = FALSE /\ quiet' = quiet
      /\ lirs' = lirs_enqueue([lirs EXCEPT !.migrating = @ \ {o}], o, o \in lirs.hir)
  BY DEF LirsMigrated, lirs_migrated_api
<1>2. InvOf(lirs, FALSE, quiet)
  BY DEF LirsInv, InvOf
<1>3. /\ InvOf(lirs', FALSE, quiet)
      /\ lirs'.cached = lirs.cached /\ lirs'.migrating = lirs.migrating \ {o}
  BY <1>1, <1>2, MigratedStep
<1> QED
  BY <1>1, <1>3 DEF LirsInv

LEMMA LirsRemoveInv ==
  ASSUME LirsInv, NEW o \in Oblocks, NEW remove_to_history \in BOOLEAN,
         LirsRemove(o, remove_to_history)
  PROVE  LirsInv'
<1>1. /\ ~lirs.fault /\ loading' = FALSE /\ quiet' = FALSE
      /\ o \in lirs.cached \cup Members(lirs, "g")
      /\ lirs' = lirs_prune_s(
                   IF /\ o \in lirs.cached /\ remove_to_history
                      /\ o \in lirs.hir /\ in_queue(lirs, "s", o)
                     THEN lirs_replace_with_meta(lirs, o)
                     ELSE lirs_remove_entry(lirs, o))
  BY DEF LirsRemove, lirs_remove_api, lirs_ghosts, Members
<1>2. Sound(lirs, lirs.migrating)
  BY <1>1 DEF LirsInv, InvOf
<1>3. lirs'.fault \/ (~lirs'.fault /\ Sound(lirs', lirs'.migrating))
  BY <1>1, <1>2, RemoveStep
<1> QED
  BY <1>1, <1>3 DEF LirsInv, InvOf

LEMMA LirsRemapInv ==
  ASSUME LirsInv, NEW o \in Oblocks, NEW n \in Oblocks, LirsRemap(o, n)
  PROVE  LirsInv'
<1>1. /\ ~lirs.fault /\ loading' = FALSE /\ quiet' = FALSE
      /\ o \in lirs.cached /\ n \notin lirs.cached \cup Members(lirs, "g")
      /\ lirs' = [lirs EXCEPT !.queue = [k \in Queues |-> ReplaceAll(lirs.queue[k], o, n)],
                              !.hir = Renamed(@, o, n),
                              !.cached = Renamed(@, o, n),
                              !.migrating = Renamed(@, o, n)]
  BY DEF LirsRemap, lirs_remap, lirs_ghosts, Members, Renamed
<1>2. Sound(lirs, lirs.migrating)
  BY <1>1 DEF LirsInv, InvOf
<1>3. Sound(lirs', lirs'.migrating)
  BY <1>1, <1>2, RemapStep
<1> QED
  BY <1>1, <1>3 DEF LirsInv, InvOf

LEMMA LirsNextInv == LirsInv /\ [LirsNext]_lirsVars => LirsInv'
<1> SUFFICES ASSUME LirsInv, [LirsNext]_lirsVars
             PROVE  LirsInv'
  OBVIOUS
<1>1. ASSUME NEW o \in Oblocks, LirsLoad(o)
      PROVE  LirsInv'
  BY <1>1, LirsLoadInv
<1>2. ASSUME NEW o \in Oblocks, LirsMap(o)
      PROVE  LirsInv'
  BY <1>2, LirsMapInv
<1>3. ASSUME NEW o \in Oblocks, LirsMigrated(o)
      PROVE  LirsInv'
  BY <1>3, LirsMigratedInv
<1>4. ASSUME NEW o \in Oblocks, NEW remove_to_history \in BOOLEAN,
             LirsRemove(o, remove_to_history)
      PROVE  LirsInv'
  BY <1>4, LirsRemoveInv
<1>5. ASSUME NEW o \in Oblocks, NEW n \in Oblocks, LirsRemap(o, n)
      PROVE  LirsInv'
  BY <1>5, LirsRemapInv
<1>6. CASE UNCHANGED lirsVars
  BY <1>6 DEF lirsVars, LirsInv
<1> QED
  BY <1>1, <1>2, <1>3, <1>4, <1>5, <1>6 DEF LirsNext

LEMMA LirsAlways == LirsSpec => []LirsInv
BY LirsInitInv, LirsNextInv, PTL DEF LirsSpec

\* Whatever the order of requests, migrations, removals and renamings, the lists of LIRS
\* agree with each other and with the status of the blocks, in a cache and a meta pool
\* of any size, for as long as no assertion has failed.
THEOREM LirsListsAlwaysSound == LirsSpec => []LirsListsSound
<1>1. LirsInv => LirsListsSound
  <2> SUFFICES ASSUME LirsInv, ~lirs.fault
               PROVE  LirsListsSound
    BY DEF LirsListsSound
  <2>1. QueuesSound(lirs) /\ StatusSound(lirs, lirs.migrating) /\ CountsSound(lirs)
    BY DEF LirsInv, InvOf, Sound
  <2> QED
    BY <2>1 DEF QueuesSound, StatusSound, CountsSound, Members, LirsListsSound
<1> QED
  BY <1>1, LirsAlways, PTL

\* A LIRS cache that is large enough and used quietly never fails an assertion nor follows
\* NULL, counts the entries of S, and keeps the number of LIR blocks within its
\* limit.
THEOREM LirsQuietAlwaysServes == LirsSpec => []LirsQuietNeverFaults
<1>1. LirsInv => LirsQuietNeverFaults
  BY DEF LirsInv, InvOf, LirsQuietNeverFaults, LargeCache, NeverFaults, QuietSound
<1> QED
  BY <1>1, LirsAlways, PTL

-----------------------------------------------------------------------------
(***************************************************************************)
(* LIRS: what a request answers, and the policy that it implements.        *)
(***************************************************************************)

\* The answer of a request that does not stop the program, and the block that leaves the
\* cache.
LEMMA LirsMapAnswer ==
  ASSUME LirsInv, NEW o \in Oblocks, LirsMap(o), ~lirs'.fault
  PROVE  LET t == lirs_transaction_set(lirs, o)
             gone == Gone(lirs, t)
         IN  /\ ~t.fault
             /\ answer' = lirs_next_victim_api(o)
             /\ \/ /\ ~lirs_transaction_is_legal(lirs, t)
                   /\ answer' = <<"FAIL", Null>>
                   /\ lirs' = lirs
                \/ /\ lirs_transaction_is_legal(lirs, t) /\ t.repeat /\ lirs' = lirs
                   /\ answer' = IF o \in lirs.cached THEN <<"HIT", Null>> ELSE <<"NEW", Null>>
                \/ /\ lirs_transaction_is_legal(lirs, t) /\ ~t.repeat
                   /\ lirs'.cached = (lirs.cached \ gone) \cup {o}
                   /\ lirs'.migrating = lirs.migrating \cup ({o} \ lirs.cached)
                   /\ gone \subseteq lirs.cached \ (lirs.migrating \cup {o})
                   /\ gone # {} => /\ o \notin lirs.cached
                                   /\ Cardinality(lirs.cached) = CacheSize
                   /\ gone = {} /\ o \notin lirs.cached => Cardinality(lirs.cached) < CacheSize
                   /\ answer' = IF o \in lirs.cached THEN <<"HIT", Null>>
                                ELSE IF gone # {} THEN <<"REPLACE", Head(lirs.queue["q"])>>
                                ELSE <<"NEW", Null>>
                   /\ gone = {Head(lirs.queue["q"])} \/ gone = {}
<1> DEFINE t == lirs_transaction_set(lirs, o)
           gone == Gone(lirs, t)
           op == CASE o \in lirs.cached -> "HIT"
                   [] o \notin lirs.cached /\ t.hir_evict -> "REPLACE"
                   [] OTHER -> "NEW"
           announced == CASE ~lirs_transaction_is_legal(lirs, t) -> <<"FAIL", Null>>
             [] lirs_transaction_is_legal(lirs, t) /\ o \in lirs.cached -> <<"HIT", Null>>
             [] /\ lirs_transaction_is_legal(lirs, t)
                /\ o \notin lirs.cached /\ t.hir_evict -> <<"REPLACE", Head(lirs.queue["q"])>>
             [] OTHER -> <<"NEW", Null>>
<1>1. ~lirs.fault /\ Sound(lirs, lirs.migrating)
  BY DEF LirsMap, LirsInv, InvOf
<1>2. /\ t.repeat \in BOOLEAN /\ t.hir_evict \in BOOLEAN
      /\ t.repeat <=> o = lirs.last_oblock
      /\ t.hir_evict => ~t.repeat /\ o \notin lirs.cached
      /\ ~t.repeat /\ o \notin lirs.cached =>
           (t.hir_evict <=> Cardinality(lirs.cached) = CacheSize)
  BY <1>1, TransactionFacts
<1>3. /\ \/ t.fault /\ lirs' = Fault(lirs)
         \/ /\ ~t.fault
            /\ ~lirs_transaction_is_legal(lirs, t)
            /\ answer' = <<"FAIL", Null>> /\ lirs' = lirs
         \/ /\ ~t.fault
            /\ lirs_transaction_is_legal(lirs, t) /\ t.repeat
            /\ answer' = <<op, Null>> /\ lirs' = lirs
         \/ /\ ~t.fault
            /\ lirs_transaction_is_legal(lirs, t) /\ ~t.repeat
            /\ lirs' = lirs_transaction_commit(lirs, o, t)
            /\ answer' = <<op, IF t.hir_evict THEN Head(lirs.queue["q"]) ELSE Null>>
      /\ lirs_next_victim_api(o) = announced
  BY Zenon DEF LirsMap, lirs_map_api, lirs_next_victim_api
<1>4. ~t.fault
  <2>1. Fault(lirs).fault
    BY <1>1, FaultSound
  <2> QED
    BY <1>3, <2>1
<1>5. CASE /\ ~lirs_transaction_is_legal(lirs, t)
           /\ answer' = <<"FAIL", Null>> /\ lirs' = lirs
  <2>1. announced = <<"FAIL", Null>>
    BY <1>5
  <2> HIDE DEF t, announced
  <2> QED
    BY <1>3, <1>4, <1>5, <2>1 DEF t
<1>6. CASE /\ lirs_transaction_is_legal(lirs, t) /\ t.repeat
           /\ answer' = <<op, Null>> /\ lirs' = lirs
  <2> HIDE DEF t
  <2>1. ~t.hir_evict
    BY <1>2, <1>6
  <2>2. CASE o \in lirs.cached
    <3>1. op = "HIT" /\ announced = <<"HIT", Null>>
      BY <1>6, <2>2
    <3> HIDE DEF op, announced
    <3> QED
      BY <1>3, <1>4, <1>6, <2>2, <3>1 DEF t
  <2>3. CASE o \notin lirs.cached
    <3>1. op = "NEW" /\ announced = <<"NEW", Null>>
      BY <1>6, <2>1, <2>3
    <3> HIDE DEF op, announced
    <3> QED
      BY <1>3, <1>4, <1>6, <2>3, <3>1 DEF t
  <2> QED
    BY <2>2, <2>3
<1>7. CASE /\ lirs_transaction_is_legal(lirs, t) /\ ~t.repeat
           /\ lirs' = lirs_transaction_commit(lirs, o, t)
           /\ answer' = <<op, IF t.hir_evict THEN Head(lirs.queue["q"]) ELSE Null>>
  <2>1. /\ gone \subseteq lirs.cached \ (lirs.migrating \cup {o})
        /\ Served(lirs, lirs', o, t)
    BY <1>1, <1>2, <1>7, RequestSound
  <2> HIDE DEF t
  <2>2. /\ lirs'.cached = (lirs.cached \ gone) \cup {o}
        /\ lirs'.migrating = lirs.migrating \cup ({o} \ lirs.cached)
    BY <2>1 DEF Served
  <2>3. /\ t.hir_evict => gone = {Head(lirs.queue["q"])}
        /\ ~t.hir_evict => gone = {}
    BY DEF Gone
  <2>4. /\ gone # {} => o \notin lirs.cached /\ Cardinality(lirs.cached) = CacheSize
        /\ gone = {} /\ o \notin lirs.cached => Cardinality(lirs.cached) < CacheSize
    <3>1. /\ Cardinality(lirs.cached) \in Nat /\ Cardinality(lirs.cached) <= CacheSize
          /\ CacheSize \in Nat
      BY <1>1, SoundParts, NucleusAssumption
    <3> QED
      BY <1>2, <1>7, <2>3, <3>1
  <2>5. /\ answer' = IF o \in lirs.cached THEN <<"HIT", Null>>
                     ELSE IF gone # {} THEN <<"REPLACE", Head(lirs.queue["q"])>>
                     ELSE <<"NEW", Null>>
        /\ answer' = announced
    <3>1. CASE o \in lirs.cached
      <4>1. ~t.hir_evict /\ op = "HIT" /\ announced = <<"HIT", Null>>
        BY <1>2, <1>7, <3>1
      <4> HIDE DEF op, announced
      <4> QED
        BY <1>7, <3>1, <4>1
    <3>2. CASE o \notin lirs.cached /\ t.hir_evict
      <4>1. op = "REPLACE" /\ announced = <<"REPLACE", Head(lirs.queue["q"])>> /\ gone # {}
        BY <1>7, <2>3, <3>2
      <4> HIDE DEF op, announced, gone
      <4> QED
        BY <1>7, <3>2, <4>1
    <3>3. CASE o \notin lirs.cached /\ ~t.hir_evict
      <4>1. op = "NEW" /\ announced = <<"NEW", Null>> /\ gone = {}
        BY <1>7, <2>3, <3>3
      <4> HIDE DEF op, announced, gone
      <4> QED
        BY <1>7, <3>3, <4>1
    <3> QED
      BY <1>2, <3>1, <3>2, <3>3
  <2>6. gone = {Head(lirs.queue["q"])} \/ gone = {}
    BY DEF Gone
  <2> HIDE DEF gone, op, announced
  <2> QED
    BY <1>3, <1>4, <1>7, <2>1, <2>2, <2>4, <2>5, <2>6 DEF t, gone
<1> HIDE DEF t, op, announced
<1> QED
  BY <1>3, <1>4, <1>5, <1>6, <1>7

\* What LirsVictimAsAnnounced says of one step.
LirsAnswersSoundly(o) ==
  /\ answer' = lirs_next_victim_api(o)
  /\ answer'[1] # "HIT" => lirs.cached \ lirs'.cached = {answer'[2]} \ {Null}

LEMMA LirsVictimStep ==
  ASSUME LirsInv, NEW o \in Oblocks, LirsMap(o), ~lirs'.fault
  PROVE  LirsAnswersSoundly(o)
<1> DEFINE t == lirs_transaction_set(lirs, o)
           gone == Gone(lirs, t)
           v == Head(lirs.queue["q"])
<1>1. answer' = lirs_next_victim_api(o)
  BY LirsMapAnswer
<1>2. CASE lirs' = lirs /\ answer' = <<"FAIL", Null>>
  BY <1>1, <1>2 DEF LirsAnswersSoundly
<1>3. CASE lirs' = lirs /\ answer' = <<"HIT", Null>>
  BY <1>1, <1>3 DEF LirsAnswersSoundly
<1>4. CASE lirs' = lirs /\ answer' = <<"NEW", Null>>
  BY <1>1, <1>4 DEF LirsAnswersSoundly
<1>5. CASE /\ lirs'.cached = (lirs.cached \ gone) \cup {o}
           /\ gone \subseteq lirs.cached \ (lirs.migrating \cup {o})
           /\ answer' = IF o \in lirs.cached THEN <<"HIT", Null>>
                        ELSE IF gone # {} THEN <<"REPLACE", v>>
                        ELSE <<"NEW", Null>>
           /\ gone = {v} \/ gone = {}
  <2> HIDE DEF gone, v
  <2>1. lirs.cached \ lirs'.cached = gone
    BY <1>5
  <2>2. lirs.cached \subseteq Oblocks
    BY SoundParts DEF LirsInv, InvOf, LirsMap
  <2>3. CASE o \in lirs.cached
    <3>1. answer'[1] = "HIT"
      BY <1>5, <2>3
    <3> QED
      BY <1>1, <3>1 DEF LirsAnswersSoundly
  <2>4. CASE o \notin lirs.cached /\ gone # {}
    <3>1. answer'[2] = v /\ gone = {v} /\ v \in Oblocks
      BY <1>5, <2>2, <2>4
    <3>2. v # Null
      BY <3>1, NucleusAssumption
    <3> QED
      BY <1>1, <2>1, <3>1, <3>2 DEF LirsAnswersSoundly
  <2>5. CASE o \notin lirs.cached /\ gone = {}
    <3>1. answer'[2] = Null
      BY <1>5, <2>5
    <3> QED
      BY <1>1, <2>1, <2>5, <3>1 DEF LirsAnswersSoundly
  <2> QED
    BY <2>3, <2>4, <2>5
<1> HIDE DEF t, gone, v
<1>6. \/ lirs' = lirs /\ answer' = <<"FAIL", Null>>
      \/ lirs' = lirs /\ answer' = <<"HIT", Null>>
      \/ lirs' = lirs /\ answer' = <<"NEW", Null>>
      \/ /\ lirs'.cached = (lirs.cached \ gone) \cup {o}
         /\ gone \subseteq lirs.cached \ (lirs.migrating \cup {o})
         /\ answer' = IF o \in lirs.cached THEN <<"HIT", Null>>
                      ELSE IF gone # {} THEN <<"REPLACE", v>>
                      ELSE <<"NEW", Null>>
         /\ gone = {v} \/ gone = {}
  BY LirsMapAnswer DEF t, gone, v
<1> QED
  BY <1>2, <1>3, <1>4, <1>5, <1>6

LEMMA LirsPolicyCardinality == \A S : LirsPolicy!Cardinality(S) = Cardinality(S)
  BY Zenon DEF LirsPolicy!Cardinality, Cardinality

LEMMA LirsInitRefines == LirsInit => LirsPolicy!PolicyInit
  BY DEF LirsInit, LirsPolicy!PolicyInit, LirsPolicy!Void, Void

\* A quiet request does what every policy promises.
LEMMA LirsMapRefines ==
  ASSUME LirsInv, NEW o \in Oblocks, LirsMap(o), ~lirs'.fault, quiet'
  PROVE  LirsPolicy!PolicyNext
<1> DEFINE t == lirs_transaction_set(lirs, o)
           gone == Gone(lirs, t)
           v == Head(lirs.queue["q"])
<1>1. /\ ~lirs.fault /\ quiet /\ lirs.migrating = {}
      /\ Sound(lirs, lirs.migrating) /\ QuietSound(lirs)
  BY DEF LirsMap, LirsInv, InvOf
<1>2. lirs_transaction_is_legal(lirs, t)
  <2>1. ~t.fault
    BY LirsMapAnswer
  <2> QED
    BY <1>1, <2>1, QuietRequest DEF QuietSound
<1>3. t.repeat => o \in lirs.cached
  <2>1. t.repeat => o = lirs.last_oblock
    BY <1>1, TransactionFacts
  <2> QED
    BY <1>1, <2>1, NucleusAssumption DEF QuietSound
<1> HIDE DEF t, gone, v
<1>4. CASE t.repeat /\ lirs' = lirs
  <2>1. answer' = <<"HIT", Null>>
    BY <1>2, <1>3, <1>4, LirsMapAnswer DEF t
  <2>2. LirsPolicy!Hit(o)
    BY <1>3, <1>4, <2>1 DEF LirsPolicy!Hit
  <2> QED
    BY <2>2 DEF LirsPolicy!PolicyNext
<1>5. CASE /\ lirs'.cached = (lirs.cached \ gone) \cup {o}
           /\ lirs'.migrating = lirs.migrating \cup ({o} \ lirs.cached)
           /\ gone \subseteq lirs.cached \ (lirs.migrating \cup {o})
           /\ gone # {} => /\ o \notin lirs.cached
                           /\ Cardinality(lirs.cached) = CacheSize
           /\ gone = {} /\ o \notin lirs.cached => Cardinality(lirs.cached) < CacheSize
           /\ answer' = IF o \in lirs.cached THEN <<"HIT", Null>>
                        ELSE IF gone # {} THEN <<"REPLACE", v>>
                        ELSE <<"NEW", Null>>
           /\ gone = {v} \/ gone = {}
  <2>1. CASE o \in lirs.cached
    <3>1. lirs'.cached = lirs.cached /\ lirs'.migrating = lirs.migrating
      BY <1>5, <2>1
    <3>2. answer' = <<"HIT", Null>>
      BY <1>5, <2>1
    <3>3. LirsPolicy!Hit(o)
      BY <2>1, <3>1, <3>2 DEF LirsPolicy!Hit
    <3> QED
      BY <3>3 DEF LirsPolicy!PolicyNext
  <2>2. CASE o \notin lirs.cached /\ gone # {}
    <3>1. /\ v \in lirs.cached \ lirs.migrating
          /\ lirs'.cached = (lirs.cached \ {v}) \cup {o}
          /\ lirs'.migrating = lirs.migrating \cup {o}
          /\ Cardinality(lirs.cached) = CacheSize
      BY <1>5, <2>2
    <3>2. answer' = <<"REPLACE", v>>
      BY <1>5, <2>2
    <3>3. v \in Oblocks
      BY <1>1, <3>1, SoundParts
    <3>4. LirsPolicy!Replace(o, v)
      BY <2>2, <3>1, <3>2, LirsPolicyCardinality DEF LirsPolicy!Replace
    <3> QED
      BY <3>3, <3>4 DEF LirsPolicy!PolicyNext
  <2>3. CASE o \notin lirs.cached /\ gone = {}
    <3>1. /\ lirs'.cached = lirs.cached \cup {o}
          /\ lirs'.migrating = lirs.migrating \cup {o}
          /\ Cardinality(lirs.cached) < CacheSize
      BY <1>5, <2>3
    <3>2. answer' = <<"NEW", Null>>
      BY <1>5, <2>3
    <3>3. LirsPolicy!New(o)
      BY <2>3, <3>1, <3>2, LirsPolicyCardinality DEF LirsPolicy!New
    <3> QED
      BY <3>3 DEF LirsPolicy!PolicyNext
  <2> QED
    BY <2>1, <2>2, <2>3
<1>6. \/ t.repeat /\ lirs' = lirs
      \/ /\ lirs'.cached = (lirs.cached \ gone) \cup {o}
         /\ lirs'.migrating = lirs.migrating \cup ({o} \ lirs.cached)
         /\ gone \subseteq lirs.cached \ (lirs.migrating \cup {o})
         /\ gone # {} => /\ o \notin lirs.cached
                         /\ Cardinality(lirs.cached) = CacheSize
         /\ gone = {} /\ o \notin lirs.cached => Cardinality(lirs.cached) < CacheSize
         /\ answer' = IF o \in lirs.cached THEN <<"HIT", Null>>
                      ELSE IF gone # {} THEN <<"REPLACE", v>>
                      ELSE <<"NEW", Null>>
         /\ gone = {v} \/ gone = {}
  BY <1>2, LirsMapAnswer DEF t, gone, v
<1> QED
  BY <1>4, <1>5, <1>6

\* Every quiet step that does not stop LIRS is a step of the policy.
LEMMA LirsNextRefines ==
  ASSUME LirsInv, [LirsNext]_lirsVars, quiet', ~lirs'.fault
  PROVE  LirsPolicy!PolicyNext \/ UNCHANGED LirsPolicy!policyVars
<1>1. ASSUME NEW o \in Oblocks, LirsLoad(o)
      PROVE  LirsPolicy!PolicyNext
  <2>1. lirs'.cached = lirs.cached \cup {o} /\ lirs'.migrating = lirs.migrating
    BY <1>1, LirsLoadInv
  <2>2. Cardinality(lirs.cached) < CacheSize
    <3>1. Cardinality(lirs.cached) # CacheSize /\ Sound(lirs, lirs.migrating)
      BY <1>1 DEF LirsLoad, policy_cache_is_full, LirsInv, InvOf
    <3> QED
      BY <3>1, SoundParts, NucleusAssumption
  <2>3. o \notin lirs.cached /\ answer' = LirsPolicy!Void
    BY <1>1 DEF LirsLoad, lirs_insert_api, Void, LirsPolicy!Void
  <2>4. LirsPolicy!Preload(o)
    BY <2>1, <2>2, <2>3, LirsPolicyCardinality DEF LirsPolicy!Preload
  <2> QED
    BY <2>4 DEF LirsPolicy!PolicyNext
<1>2. ASSUME NEW o \in Oblocks, LirsMap(o)
      PROVE  LirsPolicy!PolicyNext
  BY <1>2, LirsMapRefines
<1>3. ASSUME NEW o \in Oblocks, LirsMigrated(o)
      PROVE  LirsPolicy!PolicyNext
  <2>1. lirs'.cached = lirs.cached /\ lirs'.migrating = lirs.migrating \ {o}
    BY <1>3, LirsMigratedInv
  <2>2. o \in lirs.migrating /\ answer' = LirsPolicy!Void
    BY <1>3 DEF LirsMigrated, lirs_migrated_api, Void, LirsPolicy!Void
  <2>3. LirsPolicy!Migrated(o)
    BY <2>1, <2>2 DEF LirsPolicy!Migrated
  <2> QED
    BY <2>3 DEF LirsPolicy!PolicyNext
<1>4. CASE UNCHANGED lirsVars
  BY <1>4 DEF lirsVars, LirsPolicy!policyVars
<1>5. ASSUME NEW o \in Oblocks, NEW remove_to_history \in BOOLEAN,
             LirsRemove(o, remove_to_history)
      PROVE  FALSE
  BY <1>5 DEF LirsRemove
<1>6. ASSUME NEW o \in Oblocks, NEW n \in Oblocks, LirsRemap(o, n)
      PROVE  FALSE
  BY <1>6 DEF LirsRemap
<1> QED
  BY <1>1, <1>2, <1>3, <1>4, <1>5, <1>6 DEF LirsNext

\* LIRS does what every policy promises, as long as it is used quietly and until it stops:
\* which blocks are cached, which are being copied, and what each call answers.  And
\* whatever its use, a request answers what lirs_next_victim_api announces, and evicts
\* the block that it names and no other.
THEOREM LirsRefinesPolicy == LirsSpec => LirsImplementsPolicy
<1> DEFINE Step == quiet' /\ ~lirs'.fault =>
                     LirsPolicy!PolicyNext \/ UNCHANGED LirsPolicy!policyVars
           Answers == \A o \in Oblocks :
                        LirsMap(o) /\ ~lirs'.fault =>
                          /\ answer' = lirs_next_victim_api(o)
                          /\ answer'[1] # "HIT" =>
                               lirs.cached \ lirs'.cached = {answer'[2]} \ {Null}
<1>1. LirsInv /\ [LirsNext]_lirsVars => [Step]_lirsVars
  BY LirsNextRefines
<1>2. LirsInv /\ [LirsNext]_lirsVars => [Answers]_lirsVars
  BY LirsVictimStep DEF LirsAnswersSoundly
<1> HIDE DEF Step, Answers
<1>3. LirsSpec => LirsPolicy!PolicyInit
  BY LirsInitRefines DEF LirsSpec
<1>4. LirsSpec => [][Step]_lirsVars
  BY <1>1, LirsAlways, PTL DEF LirsSpec
<1>5. LirsSpec => [][Answers]_lirsVars
  BY <1>2, LirsAlways, PTL DEF LirsSpec
<1> QED
  BY <1>3, <1>4, <1>5 DEF LirsImplementsPolicy, LirsVictimAsAnnounced, Step, Answers
============================================================================
