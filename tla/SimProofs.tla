------------------------------ MODULE SimProofs ------------------------------
(***************************************************************************)
(* The safety of LRU, of FOMO around it, and of the simulator that drives  *)
(* them, each for every value of its own constants: an assumption about    *)
(* FOMO or the simulator is cited only where these are the subject.        *)
(***************************************************************************)
EXTENDS Sim, NucleusProofs

(***************************************************************************)
(* LRU.  LruInv is inductive, and implies the invariants that Lru states.  *)
(* Every step is one of CachePolicy, and changes the order of eviction as  *)
(* Lru says.                                                               *)
(***************************************************************************)
LruInv ==
  /\ PoolSound(pool)
  /\ QueueSound(lru_q, pool)
  /\ stats \in Stats
  /\ result \in Results \cup {NoResult}
  /\ crashed = FALSE
  /\ loading \in BOOLEAN

\* A policy starts with every entry free.
LEMMA LruInitInv == LruInit => LruInv
<1> SUFFICES ASSUME LruInit PROVE LruInv
  OBVIOUS
<1>1. PoolSound(pool) /\ pool.allocated = {} /\ pool.migrating = {}
  BY PoolInitSound DEF LruInit, epool_init
<1>2. QueueSound(lru_q, pool)
  <2>1. <<>> \in Seq(Cblocks) /\ ToSet(<<>>) = {} /\ IsInjective(<<>>)
    BY DEF ToSet, IsInjective
  <2> QED
    BY <1>1, <2>1 DEF LruInit, QueueSound
<1>3. stats \in Stats
  BY NucleusAssumption DEF LruInit, stats_init, Stats
<1> QED
  BY <1>1, <1>2, <1>3 DEF LruInit, LruInv

\* The blocks that the policy shows are those of its pool.
LEMMA LruBlocks == Cached = Blocks(pool) /\ Inflight = MovingBlocks(pool)
  BY DEF Cached, Inflight, Blocks, MovingBlocks

\* Preloading a block preserves the invariant.
LEMMA LruLoadStep ==
  ASSUME LruInv, NEW o \in Oblocks, NEW c \in Cblocks, LruLoad(o, c)
  PROVE  /\ LruInv'
         /\ ~cache_is_full(pool)
         /\ Blocks(pool') = Blocks(pool) \cup {o}
         /\ MovingBlocks(pool') = MovingBlocks(pool)
         /\ c \notin ToSet(lru_q) /\ lru_q' = queue_push(lru_q, c)
         /\ result' = NoResult
<1>1. /\ pool' = alloc_pool_entry(pool, c, o)
      /\ lru_q' = queue_push(lru_q, c)
      /\ result' = NoResult
      /\ stats' = stats
      /\ crashed' = crashed
      /\ loading' = loading
      /\ c \notin pool.allocated
  BY DEF LruLoad, lru_insert_api
<1>2. PoolSound(pool) /\ QueueSound(lru_q, pool)
  BY DEF LruInv
<1>3. NotHashed(pool, o)
  BY LruBlocks, NotInBlocks DEF LruLoad
<1>4. /\ PoolSound(pool')
      /\ pool'.allocated = pool.allocated \cup {c}
      /\ pool'.migrating = pool.migrating
  BY <1>1, <1>2, <1>3, AllocSound
<1>5. /\ Blocks(pool') = Blocks(pool) \cup {o}
      /\ MovingBlocks(pool') = MovingBlocks(pool)
  BY <1>1, <1>2, <1>3, AllocBlocks
<1>6. ~cache_is_full(pool)
  BY <1>1, <1>2, AllocEntryFacts
<1>7. c \notin ToSet(lru_q)
  BY <1>1, <1>2 DEF QueueSound
<1>8. QueueSound(lru_q', pool')
  <2>1. pool.migrating \subseteq pool.allocated
    BY <1>2 DEF PoolSound
  <2> QED
    BY <1>1, <1>2, <1>4, <1>7, <2>1, QueuePush DEF QueueSound
<1> QED
  BY <1>1, <1>4, <1>5, <1>6, <1>7, <1>8 DEF LruInv

\* A hit preserves the invariant: an entry that is migrating stays out of the
\* queue, another one only moves in it.
LEMMA LruHitStep ==
  ASSUME LruInv, NEW o \in Oblocks, NEW write \in BOOLEAN,
         o \in Blocks(pool), lru_commit_hit(o, write), loading' = FALSE
  PROVE  /\ LruInv'
         /\ Blocks(pool') = Blocks(pool)
         /\ MovingBlocks(pool') = MovingBlocks(pool)
         /\ lru_q' = lru_hit(Lookup(o))
         /\ result'.op = "HIT" /\ result'.oblock = o
         /\ result'.cblock = Lookup(o) /\ result'.old_oblock = Null
<1> DEFINE e == Lookup(o)
<1>1. PoolSound(pool) /\ QueueSound(lru_q, pool)
  BY DEF LruInv
<1>2. e \in Cblocks /\ e \in pool.allocated
  BY <1>1, CachedEntry DEF Lookup
<1>3. /\ pool' = mark_dirty(pool, e, write)
      /\ lru_q' = lru_hit(e)
      /\ stats' = inc(stats, {"hits", "ios"})
      /\ result' = [OpOnly("HIT", o) EXCEPT !.cblock = e]
      /\ crashed' = crashed
  BY DEF lru_commit_hit
<1> HIDE DEF e
<1>4. PoolSound(pool')
  BY <1>1, <1>2, <1>3, DirtySound
<1>5. Blocks(pool') = Blocks(pool) /\ MovingBlocks(pool') = MovingBlocks(pool)
  BY <1>1, <1>2, <1>3, DirtyBlocks
<1>6. QueueSound(lru_q', pool')
  BY <1>1, <1>2, <1>3, HitQueueSound DEF lru_hit
<1>7. stats' \in Stats
  BY <1>3, IncType DEF LruInv
<1>8. /\ result' \in Results
      /\ result'.op = "HIT" /\ result'.oblock = o
      /\ result'.cblock = e /\ result'.old_oblock = Null
  BY <1>2, <1>3 DEF OpOnly, Results, Operations
<1> QED
  BY <1>3, <1>4, <1>5, <1>6, <1>7, <1>8 DEF LruInv, e

\* A miss preserves the invariant.  In a full cache the victim's entry is the one
\* that the new block gets.
LEMMA LruMissStep ==
  ASSUME LruInv, NEW o \in Oblocks, NEW write \in BOOLEAN, o \notin Blocks(pool),
         lru_transaction_is_legal(lru_transaction_set(o)),
         lru_commit_miss(lru_transaction_set(o), o, write), loading' = FALSE
  PROVE  /\ LruInv'
         /\ MovingBlocks(pool') = MovingBlocks(pool) \cup {o}
         /\ result'.oblock = o
         /\ cache_is_full(pool) =>
              /\ lru_q # <<>> /\ lru_q' = Tail(lru_q)
              /\ Blocks(pool') = (Blocks(pool) \ {pool.oblock[Head(lru_q)]}) \cup {o}
              /\ result'.op = "REPLACE"
              /\ result'.old_oblock = pool.oblock[Head(lru_q)]
         /\ ~cache_is_full(pool) =>
              /\ lru_q' = lru_q
              /\ Blocks(pool') = Blocks(pool) \cup {o}
              /\ result'.op = "NEW" /\ result'.old_oblock = Null
<1> DEFINE t == lru_transaction_set(o)
           v == Head(lru_q)
           evicted == lru_evict(t)
           e == alloc_entry(evicted)
<1>1. PoolSound(pool) /\ QueueSound(lru_q, pool)
  BY DEF LruInv
<1>2. t.evict \in BOOLEAN /\ (t.evict <=> cache_is_full(pool))
  BY <1>1, LookupIsCached DEF lru_transaction_set, Lookup, cache_is_full
<1>3. /\ t.evict => lru_q # <<>> /\ evicted = cache_nucleus_remove(pool, v)
      /\ ~t.evict => evicted = pool
  <2>1. t.evict => Len(lru_q) > 0
    BY DEF lru_transaction_is_legal
  <2>2. Len(<<>>) = 0
    OBVIOUS
  <2> QED
    BY <2>1, <2>2 DEF lru_evict
<1>4. /\ e \in Cblocks /\ e # Null
      /\ PoolSound(AdmitEntry(evicted, e, o, write))
      /\ MovingBlocks(AdmitEntry(evicted, e, o, write)) = MovingBlocks(pool) \cup {o}
      /\ t.evict =>
           /\ QueueSound(Tail(lru_q), AdmitEntry(evicted, e, o, write))
           /\ Blocks(AdmitEntry(evicted, e, o, write)) =
                (Blocks(pool) \ {pool.oblock[v]}) \cup {o}
      /\ ~t.evict =>
           /\ QueueSound(lru_q, AdmitEntry(evicted, e, o, write))
           /\ Blocks(AdmitEntry(evicted, e, o, write)) = Blocks(pool) \cup {o}
  <2> HIDE DEF t, evicted
  <2>1. \/ lru_q # <<>> /\ evicted = cache_nucleus_remove(pool, Head(lru_q))
        \/ ~cache_is_full(pool) /\ evicted = pool
    BY <1>2, <1>3
  <2> QED
    BY <1>1, <1>2, <1>3, <2>1, AdmitQueueSound
<1>5. /\ pool' = AdmitEntry(evicted, e, o, write)
      /\ lru_q' = IF t.evict THEN Tail(lru_q) ELSE lru_q
      /\ stats' = inc(stats, {"misses", "ios"}
                               \cup IF t.evict THEN {"demotions"} ELSE {})
      /\ result' =
           [ op             |-> IF t.evict THEN "REPLACE" ELSE "NEW",
             oblock         |-> o,
             cblock         |-> e,
             old_oblock     |-> IF t.evict THEN pool.oblock[v] ELSE Null,
             dirty_eviction |-> t.evict /\ v \in pool.dirty ]
      /\ crashed' = crashed
  BY <1>4 DEF lru_commit_miss, AdmitEntry
<1> HIDE DEF t, v, evicted, e
<1>6. stats' \in Stats
  BY <1>5, IncType DEF LruInv
<1>7. result' \in Results
  <2>1. (IF t.evict THEN pool.oblock[v] ELSE Null) \in Oblocks \cup {Null}
    <3>1. t.evict => pool.oblock[v] \in Blocks(pool)
      BY <1>1, <1>3, VictimSound DEF v
    <3> QED
      BY <1>1, <3>1, BlocksType
  <2>2. (t.evict /\ v \in pool.dirty) \in BOOLEAN
    OBVIOUS
  <2> QED
    BY <1>4, <1>5, <2>1, <2>2 DEF Results, Operations
<1>8. PoolSound(pool') /\ QueueSound(lru_q', pool')
  BY <1>2, <1>4, <1>5
<1>9. LruInv'
  BY <1>5, <1>6, <1>7, <1>8 DEF LruInv
<1>10. CASE t.evict
  <2>1. result'.op = "REPLACE" /\ result'.oblock = o /\ result'.old_oblock = pool.oblock[v]
    BY <1>5, <1>10
  <2> QED
    BY <1>2, <1>3, <1>4, <1>5, <1>9, <1>10, <2>1 DEF v
<1>11. CASE ~t.evict
  <2>1. result'.op = "NEW" /\ result'.oblock = o /\ result'.old_oblock = Null
    BY <1>5, <1>11
  <2> QED
    BY <1>2, <1>3, <1>4, <1>5, <1>9, <1>11, <2>1
<1> QED
  BY <1>2, <1>10, <1>11

\* A request fails only if it is a miss, and every cache block is in flight.
LEMMA LruFailStep ==
  ASSUME LruInv, NEW o \in Oblocks, ~lru_transaction_is_legal(lru_transaction_set(o))
  PROVE  /\ o \notin Blocks(pool)
         /\ cache_is_full(pool)
         /\ Blocks(pool) = MovingBlocks(pool)
<1>1. PoolSound(pool) /\ QueueSound(lru_q, pool)
  BY DEF LruInv
<1>2. o \notin Blocks(pool) /\ cache_is_full(pool) /\ ~(Len(lru_q) > 0)
  BY <1>1, LookupIsCached DEF lru_transaction_is_legal, lru_transaction_set, Lookup
<1>3. lru_q = <<>>
  BY <1>1, <1>2, EmptySeq, LenProperties DEF QueueSound
<1>4. ToSet(lru_q) = {}
  BY <1>3 DEF ToSet
<1>5. Blocks(pool) = MovingBlocks(pool)
  BY <1>1, <1>4 DEF QueueSound, PoolSound, Blocks, MovingBlocks
<1> QED
  BY <1>2, <1>5

\* A request is a hit, a miss that is legal, or fails.
LEMMA LruMapCases ==
  ASSUME LruInv, NEW o \in Oblocks, NEW write \in BOOLEAN, lru_map_api(o, write)
  PROVE  \/ o \in Blocks(pool) /\ lru_commit_hit(o, write)
         \/ /\ o \notin Blocks(pool)
            /\ lru_transaction_is_legal(lru_transaction_set(o))
            /\ lru_commit_miss(lru_transaction_set(o), o, write)
         \/ /\ ~lru_transaction_is_legal(lru_transaction_set(o))
            /\ result' = OpOnly("FAIL", o)
            /\ UNCHANGED <<pool, lru_q, stats, crashed>>
<1>1. lru_transaction_set(o).hit <=> o \in Blocks(pool)
  BY LookupIsCached DEF LruInv, lru_transaction_set, Lookup
<1> QED
  BY <1>1 DEF lru_map_api

\* A request preserves the invariant, also when it fails.
LEMMA LruMapInv ==
  ASSUME LruInv, NEW o \in Oblocks, NEW write \in BOOLEAN, lru_map_api(o, write),
         loading' = FALSE
  PROVE  LruInv'
<1>1. CASE o \in Blocks(pool) /\ lru_commit_hit(o, write)
  BY <1>1, LruHitStep
<1>2. CASE /\ o \notin Blocks(pool)
           /\ lru_transaction_is_legal(lru_transaction_set(o))
           /\ lru_commit_miss(lru_transaction_set(o), o, write)
  BY <1>2, LruMissStep
<1>3. CASE result' = OpOnly("FAIL", o) /\ UNCHANGED <<pool, lru_q, stats, crashed>>
  <2>1. result' \in Results
    BY <1>3, OpOnlyType DEF Operations
  <2> QED
    BY <1>3, <2>1 DEF LruInv
<1> QED
  BY <1>1, <1>2, <1>3, LruMapCases

\* Removing a cached block preserves the invariant, migrating or not.
LEMMA LruRemoveStep ==
  ASSUME LruInv, NEW o \in Oblocks, LruRemove(o)
  PROVE  /\ LruInv'
         /\ Blocks(pool') = Blocks(pool) \ {o}
         /\ MovingBlocks(pool') = MovingBlocks(pool) \ {o}
         /\ lru_q' = lru_q \/ lru_q' = queue_remove(lru_q, Lookup(o))
         /\ result' = NoResult
<1> DEFINE e == Lookup(o)
<1>1. PoolSound(pool) /\ QueueSound(lru_q, pool)
  BY DEF LruInv
<1>2. /\ e \in Cblocks /\ e \in pool.allocated /\ e # Null
      /\ pool.oblock[e] = o /\ pool.nr_allocated > 0
  BY <1>1, LruBlocks, CachedEntry DEF LruRemove, Lookup
<1>3. /\ lru_remove_entry(e)
      /\ result' = NoResult
      /\ crashed' = crashed
      /\ loading' = FALSE
  BY <1>2 DEF LruRemove, lru_remove_api, free_entry_asserts
<1> HIDE DEF e
<1>4. /\ pool' = cache_nucleus_remove(pool, e)
      /\ lru_q' = IF e \in pool.migrating THEN lru_q ELSE queue_remove(lru_q, e)
  BY <1>3 DEF lru_remove_entry
<1>5. /\ PoolSound(pool')
      /\ Blocks(pool') = Blocks(pool) \ {o}
      /\ MovingBlocks(pool') = MovingBlocks(pool) \ {o}
  BY <1>1, <1>2, <1>4, RemoveSound, RemoveBlocks
<1>6. QueueSound(lru_q', pool')
  BY <1>1, <1>2, <1>4, RemoveQueueSound
<1>7. stats' \in Stats
  BY <1>3, IncType DEF LruInv, lru_remove_entry
<1> QED
  BY <1>3, <1>4, <1>5, <1>6, <1>7 DEF LruInv, e

\* The end of a migration preserves the invariant.
LEMMA LruMigratedStep ==
  ASSUME LruInv, NEW o \in Oblocks, LruMigrated(o)
  PROVE  /\ LruInv'
         /\ Blocks(pool') = Blocks(pool)
         /\ MovingBlocks(pool') = MovingBlocks(pool) \ {o}
         /\ Lookup(o) \notin ToSet(lru_q) /\ lru_q' = queue_push(lru_q, Lookup(o))
         /\ result' = NoResult
<1> DEFINE e == Lookup(o)
<1>1. PoolSound(pool) /\ QueueSound(lru_q, pool)
  BY DEF LruInv
<1>2. /\ e \in Cblocks /\ e \in pool.allocated /\ e \in pool.migrating
      /\ pool.oblock[e] = o /\ pool.nr_allocated > 0
  BY <1>1, LruBlocks, BlocksType, CachedEntry DEF LruMigrated, Lookup
<1>3. /\ pool' = migrated_entry(pool, e)
      /\ lru_q' = queue_push(lru_q, e)
      /\ stats' = inc(stats, {"promotions"})
      /\ result' = NoResult
      /\ crashed' = crashed
      /\ loading' = FALSE
  BY <1>2 DEF LruMigrated, lru_migrated_api, migrated_entry_asserts
<1> HIDE DEF e
<1>4. /\ PoolSound(pool')
      /\ pool'.allocated = pool.allocated
      /\ pool'.migrating = pool.migrating \ {e}
  BY <1>1, <1>2, <1>3, MigratedSound
<1>5. /\ Blocks(pool') = Blocks(pool)
      /\ MovingBlocks(pool') = MovingBlocks(pool) \ {o}
  BY <1>1, <1>2, <1>3, MigratedBlocks
<1>6. e \notin ToSet(lru_q)
  BY <1>1, <1>2 DEF QueueSound
<1>7. /\ lru_q' \in Seq(Cblocks)
      /\ IsInjective(lru_q')
      /\ ToSet(lru_q') = ToSet(lru_q) \cup {e}
  BY <1>1, <1>2, <1>3, <1>6, QueuePush DEF QueueSound
<1>8. QueueSound(lru_q', pool')
  BY <1>1, <1>2, <1>4, <1>7 DEF QueueSound
<1>9. stats' \in Stats
  BY <1>3, IncType DEF LruInv
<1> QED
  BY <1>3, <1>4, <1>5, <1>6, <1>8, <1>9 DEF LruInv, e

\* Renaming a cached block preserves the invariant.
LEMMA LruRemapStep ==
  ASSUME LruInv, NEW o \in Oblocks, NEW n \in Oblocks, LruRemap(o, n)
  PROVE  /\ LruInv'
         /\ Blocks(pool') = (Blocks(pool) \ {o}) \cup {n}
         /\ MovingBlocks(pool') =
              IF o \in MovingBlocks(pool) THEN (MovingBlocks(pool) \ {o}) \cup {n}
                                          ELSE MovingBlocks(pool)
         /\ lru_q' = lru_q
         /\ result' = NoResult
<1>1. PoolSound(pool) /\ QueueSound(lru_q, pool)
  BY DEF LruInv
<1>2. hash_lookup(pool, o) # Null
  BY <1>1, LruBlocks, CachedEntry DEF LruRemap
<1>3. NotHashed(pool, n)
  BY LruBlocks, NotInBlocks DEF LruRemap
<1>4. /\ pool' = default_remap(pool, o, n)
      /\ lru_q' = lru_q
      /\ stats' = stats
      /\ result' = NoResult
      /\ crashed' = crashed
      /\ loading' = FALSE
  BY DEF LruRemap, lru_remap_api
<1>5. /\ PoolSound(pool')
      /\ pool'.allocated = pool.allocated
      /\ pool'.migrating = pool.migrating
  <2>1. PoolSound(pool) /\ pool' = default_remap(pool, o, n)
    BY <1>1, <1>4
  <2> QED
    BY <1>2, <1>3, <2>1, RemapSound
<1>6. /\ Blocks(pool') = (Blocks(pool) \ {o}) \cup {n}
      /\ MovingBlocks(pool') =
           IF o \in MovingBlocks(pool) THEN (MovingBlocks(pool) \ {o}) \cup {n}
                                       ELSE MovingBlocks(pool)
  BY <1>1, <1>2, <1>3, <1>4, RemapBlocks
<1>7. QueueSound(lru_q', pool')
  BY <1>1, <1>4, <1>5 DEF QueueSound
<1> QED
  BY <1>4, <1>5, <1>6, <1>7 DEF LruInv

\* LruInv is inductive.
LEMMA LruNextInv == LruInv /\ [LruNext]_<<lruVars, loading>> => LruInv'
<1> SUFFICES ASSUME LruInv, [LruNext]_<<lruVars, loading>>
             PROVE  LruInv'
  OBVIOUS
<1>1. ASSUME NEW o \in Oblocks, NEW c \in Cblocks, LruLoad(o, c)
      PROVE  LruInv'
  BY <1>1, LruLoadStep
<1>2. ASSUME NEW o \in Oblocks, NEW write \in BOOLEAN, LruMap(o, write)
      PROVE  LruInv'
  BY <1>2, LruMapInv DEF LruMap
<1>3. ASSUME NEW o \in Oblocks, LruRemove(o)
      PROVE  LruInv'
  BY <1>3, LruRemoveStep
<1>4. ASSUME NEW o \in Oblocks, LruMigrated(o)
      PROVE  LruInv'
  BY <1>4, LruMigratedStep
<1>5. ASSUME NEW o \in Oblocks, NEW n \in Oblocks, LruRemap(o, n)
      PROVE  LruInv'
  BY <1>5, LruRemapStep
<1>6. CASE UNCHANGED <<lruVars, loading>>
  BY <1>6 DEF lruVars, LruInv
<1> QED
  BY <1>1, <1>2, <1>3, <1>4, <1>5, <1>6 DEF LruNext

\* The pool and the queue of LRU are sound in every reachable state.
THEOREM LruSafety == LruSpec => []LruInv
  BY LruInitInv, LruNextInv, PTL DEF LruSpec

-----------------------------------------------------------------------------

\* Type correctness.
THEOREM LruTypeCorrect == LruSpec => []LruTypeOK
<1>1. LruInv => LruTypeOK
  BY DEF LruInv, LruTypeOK, PoolSound, QueueSound
<1> QED
  BY <1>1, LruSafety, PTL

\* No entry of the pool is ever lost, or in two lists.
THEOREM LruEntryInOnePlace == LruSpec => []EntryInOnePlace
<1>1. LruInv => EntryInOnePlace
  BY DEF LruInv, EntryInOnePlace, PoolSound, QueueSound
<1> QED
  BY <1>1, LruSafety, PTL

\* A block never has two entries.
THEOREM LruOneEntryPerBlock == LruSpec => []OneEntryPerBlock
<1>1. LruInv => OneEntryPerBlock
  BY DEF LruInv, OneEntryPerBlock, PoolSound
<1> QED
  BY <1>1, LruSafety, PTL

\* The counters of the pool count.
THEOREM LruPoolCountersExact == LruSpec => []PoolCountersExact
<1>1. LruInv => PoolCountersExact
  BY DEF LruInv, PoolCountersExact, PoolSound
<1> QED
  BY <1>1, LruSafety, PTL

\* A caller that keeps to the API never makes an assertion of the policy fail.
THEOREM LruNoAssertionFails == LruSpec => []NoAssertionFails
<1>1. LruInv => NoAssertionFails
  BY DEF LruInv, NoAssertionFails
<1> QED
  BY <1>1, LruSafety, PTL

-----------------------------------------------------------------------------
(***************************************************************************)
(* LRU does what CachePolicy says of every policy: each of its steps is    *)
(* one of PolicyNext, or changes nothing that a caller sees.               *)
(***************************************************************************)

\* The answer that a result stands for.
LEMMA LruAnswer ==
  ASSUME NEW r
  PROVE  LET a == IF r.op = "NONE" THEN <<"NONE", Null>> ELSE <<r.op, r.old_oblock>>
         IN  /\ r = NoResult => a = Policy!Void
             /\ \A x \in Operations : r.op = x => a = <<x, r.old_oblock>>
  BY DEF NoResult, Operations, Policy!Void

\* The policy counts with the same Cardinality.
LEMMA PolicyCardinality == \A S : Policy!Cardinality(S) = Cardinality(S)
  BY Zenon DEF Policy!Cardinality, Cardinality

\* An empty cache is an empty policy.
LEMMA LruInitRefines == LruInit => Policy!PolicyInit
<1> SUFFICES ASSUME LruInit PROVE Policy!PolicyInit
  OBVIOUS
<1>1. pool.ht = {} /\ pool.migrating = {} /\ result = NoResult
  BY DEF LruInit, epool_init
<1>2. Cached = {} /\ Inflight = {}
  BY <1>1 DEF Cached, Inflight
<1> QED
  BY <1>1, <1>2, LruAnswer DEF Policy!PolicyInit

\* A request is a hit, a miss or a failure of the policy.
LEMMA LruMapRefines ==
  ASSUME LruInv, NEW o \in Oblocks, NEW write \in BOOLEAN, lru_map_api(o, write),
         loading' = FALSE
  PROVE  \/ Policy!Hit(o) \/ Policy!New(o) \/ Policy!Fail(o)
         \/ \E v \in Oblocks : Policy!Replace(o, v)
<1>1. /\ Cached = Blocks(pool) /\ Inflight = MovingBlocks(pool)
      /\ Cached' = Blocks(pool') /\ Inflight' = MovingBlocks(pool')
  BY LruBlocks DEF Cached, Inflight, Blocks, MovingBlocks
<1>2. PoolSound(pool) /\ QueueSound(lru_q, pool)
  BY DEF LruInv
<1>3. CASE o \in Blocks(pool) /\ lru_commit_hit(o, write)
  <2>1. /\ Blocks(pool') = Blocks(pool) /\ MovingBlocks(pool') = MovingBlocks(pool)
        /\ result'.op = "HIT" /\ result'.old_oblock = Null
    BY <1>3, LruHitStep
  <2> QED
    BY <1>1, <1>3, <2>1 DEF Policy!Hit
<1>4. CASE /\ o \notin Blocks(pool)
           /\ lru_transaction_is_legal(lru_transaction_set(o))
           /\ lru_commit_miss(lru_transaction_set(o), o, write)
  <2>1. CASE cache_is_full(pool)
    <3> DEFINE v == pool.oblock[Head(lru_q)]
    <3>1. /\ lru_q # <<>>
          /\ MovingBlocks(pool') = MovingBlocks(pool) \cup {o}
          /\ Blocks(pool') = (Blocks(pool) \ {v}) \cup {o}
          /\ result'.op = "REPLACE" /\ result'.old_oblock = v
      BY <1>4, <2>1, LruMissStep
    <3>2. v \in Blocks(pool) \ MovingBlocks(pool)
      BY <1>2, <3>1, VictimSound
    <3>3. v \in Oblocks
      BY <1>2, <3>2, BlocksType
    <3>4. Cardinality(Blocks(pool)) = CacheSize
      BY <1>2, <2>1, BlocksCardinality
    <3> HIDE DEF v
    <3>5. Policy!Replace(o, v)
      BY <1>1, <1>4, <3>1, <3>2, <3>4, PolicyCardinality DEF Policy!Replace
    <3> QED
      BY <3>3, <3>5
  <2>2. CASE ~cache_is_full(pool)
    <3>1. /\ MovingBlocks(pool') = MovingBlocks(pool) \cup {o}
          /\ Blocks(pool') = Blocks(pool) \cup {o}
          /\ result'.op = "NEW" /\ result'.old_oblock = Null
      BY <1>4, <2>2, LruMissStep
    <3>2. Cardinality(Blocks(pool)) < CacheSize
      BY <1>2, <2>2, BlocksCardinality
    <3>3. Policy!New(o)
      BY <1>1, <1>4, <3>1, <3>2, PolicyCardinality DEF Policy!New
    <3> QED
      BY <3>3
  <2> QED
    BY <2>1, <2>2
<1>5. CASE /\ ~lru_transaction_is_legal(lru_transaction_set(o))
           /\ result' = OpOnly("FAIL", o)
           /\ UNCHANGED <<pool, lru_q, stats, crashed>>
  <2>1. /\ o \notin Blocks(pool) /\ Blocks(pool) = MovingBlocks(pool)
        /\ Cardinality(Blocks(pool)) = CacheSize
    BY <1>2, <1>5, LruFailStep, BlocksCardinality
  <2>2. result'.op = "FAIL" /\ result'.old_oblock = Null
    BY <1>5, OpOnlyType DEF Operations
  <2>3. Cached' = Cached /\ Inflight' = Inflight
    BY <1>1, <1>5
  <2> QED
    BY <1>1, <2>1, <2>2, <2>3, PolicyCardinality DEF Policy!Fail
<1> QED
  BY <1>3, <1>4, <1>5, LruMapCases

\* Every step of LRU is a step of the policy, or one that no caller sees.
LEMMA LruNextRefines ==
  LruInv /\ [LruNext]_<<lruVars, loading>> => [Policy!PolicyNext]_Policy!policyVars
<1> SUFFICES ASSUME LruInv, [LruNext]_<<lruVars, loading>>
             PROVE  [Policy!PolicyNext]_Policy!policyVars
  OBVIOUS
<1>1. /\ Cached = Blocks(pool) /\ Inflight = MovingBlocks(pool)
      /\ Cached' = Blocks(pool') /\ Inflight' = MovingBlocks(pool')
  BY LruBlocks DEF Cached, Inflight, Blocks, MovingBlocks
<1>2. PoolSound(pool)
  BY DEF LruInv
<1>3. ASSUME NEW o \in Oblocks, NEW c \in Cblocks, LruLoad(o, c)
      PROVE  Policy!PolicyNext
  <2>1. /\ ~cache_is_full(pool)
        /\ Blocks(pool') = Blocks(pool) \cup {o}
        /\ MovingBlocks(pool') = MovingBlocks(pool)
        /\ result' = NoResult
    BY <1>3, LruLoadStep
  <2>2. Cardinality(Blocks(pool)) < CacheSize
    BY <1>2, <2>1, BlocksCardinality
  <2>3. o \notin Cached
    BY <1>3 DEF LruLoad
  <2>4. Policy!Preload(o)
    BY <1>1, <2>1, <2>2, <2>3, LruAnswer, PolicyCardinality DEF Policy!Preload
  <2> QED
    BY <2>4 DEF Policy!PolicyNext
<1>4. ASSUME NEW o \in Oblocks, NEW write \in BOOLEAN, LruMap(o, write)
      PROVE  Policy!PolicyNext
  BY <1>4, LruMapRefines DEF LruMap, Policy!PolicyNext
<1>5. ASSUME NEW o \in Oblocks, LruRemove(o)
      PROVE  Policy!PolicyNext
  <2>1. /\ Blocks(pool') = Blocks(pool) \ {o}
        /\ MovingBlocks(pool') = MovingBlocks(pool) \ {o}
        /\ result' = NoResult
    BY <1>5, LruRemoveStep
  <2>2. o \in Cached
    BY <1>5 DEF LruRemove
  <2>3. Policy!Drop(o)
    BY <1>1, <2>1, <2>2, LruAnswer DEF Policy!Drop
  <2> QED
    BY <2>3 DEF Policy!PolicyNext
<1>6. ASSUME NEW o \in Oblocks, LruMigrated(o)
      PROVE  Policy!PolicyNext
  <2>1. /\ Blocks(pool') = Blocks(pool)
        /\ MovingBlocks(pool') = MovingBlocks(pool) \ {o}
        /\ result' = NoResult
    BY <1>6, LruMigratedStep
  <2>2. o \in Inflight
    BY <1>6 DEF LruMigrated
  <2>3. Policy!Migrated(o)
    BY <1>1, <2>1, <2>2, LruAnswer DEF Policy!Migrated
  <2> QED
    BY <2>3 DEF Policy!PolicyNext
<1>7. ASSUME NEW o \in Oblocks, NEW n \in Oblocks, LruRemap(o, n)
      PROVE  Policy!PolicyNext
  <2>1. /\ Blocks(pool') = (Blocks(pool) \ {o}) \cup {n}
        /\ MovingBlocks(pool') =
             IF o \in MovingBlocks(pool) THEN (MovingBlocks(pool) \ {o}) \cup {n}
                                         ELSE MovingBlocks(pool)
        /\ result' = NoResult
    BY <1>7, LruRemapStep
  <2>2. o \in Cached /\ n \notin Cached
    BY <1>7 DEF LruRemap
  <2>3. Policy!Rename(o, n)
    BY <1>1, <2>1, <2>2, LruAnswer DEF Policy!Rename
  <2> QED
    BY <2>3 DEF Policy!PolicyNext
<1>8. CASE UNCHANGED <<lruVars, loading>>
  BY <1>8 DEF lruVars, Policy!policyVars, Cached, Inflight
<1> QED
  BY <1>3, <1>4, <1>5, <1>6, <1>7, <1>8 DEF LruNext

\* LRU implements what every policy promises: a victim is never in flight, nothing
\* is evicted while there is room, and a request fails only when every cache block
\* is in flight.
THEOREM LruImplementsPolicy == LruSpec => ImplementsPolicy
<1>1. LruInv /\ [LruNext]_<<lruVars, loading>> => [Policy!PolicyNext]_Policy!policyVars
  BY LruNextRefines
<1> QED
  BY <1>1, LruInitRefines, LruSafety, PTL DEF LruSpec, ImplementsPolicy, Policy!PolicySpec

-----------------------------------------------------------------------------
(***************************************************************************)
(* The order of eviction.                                                  *)
(***************************************************************************)

\* An item that is pushed overtakes none, and is behind every other.
LEMMA BeforePush ==
  ASSUME NEW S, NEW q \in Seq(S), NEW e \in S, NEW c, NEW d
  PROVE  /\ Before(q, c, d) => Before(queue_push(q, e), c, d)
         /\ c \in ToSet(q) => Before(queue_push(q, e), c, e)
<1> DEFINE r == queue_push(q, e)
<1>1. /\ Len(q) \in Nat /\ DOMAIN q = 1 .. Len(q)
      /\ DOMAIN r = 1 .. Len(q) + 1
      /\ r[Len(q) + 1] = e
      /\ \A i \in 1 .. Len(q) : r[i] = q[i]
  BY AppendProperties, LenProperties DEF queue_push
<1> HIDE DEF r
<1>2. ASSUME Before(q, c, d) PROVE Before(r, c, d)
  <2>1. PICK i, j \in 1 .. Len(q) : i < j /\ q[i] = c /\ q[j] = d
    BY <1>1, <1>2 DEF Before
  <2>2. /\ i \in 1 .. Len(q) + 1 /\ j \in 1 .. Len(q) + 1
        /\ i < j /\ r[i] = c /\ r[j] = d
    BY <1>1, <2>1
  <2> QED
    BY <1>1, <2>2 DEF Before
<1>3. ASSUME c \in ToSet(q) PROVE Before(r, c, e)
  <2>1. PICK i \in 1 .. Len(q) : q[i] = c
    BY <1>1, <1>3 DEF ToSet
  <2>2. /\ i \in 1 .. Len(q) + 1 /\ Len(q) + 1 \in 1 .. Len(q) + 1
        /\ i < Len(q) + 1 /\ r[i] = c
    BY <1>1, <2>1
  <2> QED
    BY <1>1, <2>2 DEF Before
<1> QED
  BY <1>2, <1>3 DEF r

\* Taking an item out of a queue leaves the order of the others.
LEMMA BeforeRemove ==
  ASSUME NEW S, NEW q \in Seq(S), NEW e, NEW c, NEW d, c # e, d # e, Before(q, c, d)
  PROVE  Before(queue_remove(q, e), c, d)
<1>1. CASE e \notin ToSet(q)
  BY <1>1 DEF queue_remove
<1>2. CASE e \in ToSet(q)
  <2> DEFINE k == CHOOSE k \in DOMAIN q : q[k] = e
             r == RemoveAt(q, k)
  <2>1. Len(q) \in Nat /\ DOMAIN q = 1 .. Len(q) /\ k \in 1 .. Len(q) /\ q[k] = e
    BY <1>2, LenProperties DEF ToSet
  <2> HIDE DEF k
  <2>2. /\ r \in Seq(S) /\ Len(r) = Len(q) - 1
        /\ \A i \in 1 .. Len(q) - 1 : r[i] = IF i < k THEN q[i] ELSE q[i + 1]
    BY <2>1, RemoveAtFacts
  <2>3. DOMAIN r = 1 .. Len(q) - 1
    BY <2>2, LenProperties
  <2> HIDE DEF r
  <2>4. PICK i, j \in 1 .. Len(q) : i < j /\ q[i] = c /\ q[j] = d
    BY <2>1 DEF Before
  <2> DEFINE a == IF i < k THEN i ELSE i - 1
             b == IF j < k THEN j ELSE j - 1
  <2>5. i # k /\ j # k
    BY <2>1, <2>4
  <2>6. a \in 1 .. Len(q) - 1 /\ b \in 1 .. Len(q) - 1 /\ a < b
    BY <2>1, <2>4, <2>5
  <2>7. r[a] = c /\ r[b] = d
    <3>1. \A x \in 1 .. Len(q) :
            x # k => r[IF x < k THEN x ELSE x - 1] = q[x]
      <4> SUFFICES ASSUME NEW x \in 1 .. Len(q), x # k
                   PROVE  r[IF x < k THEN x ELSE x - 1] = q[x]
        OBVIOUS
      <4>1. CASE x < k
        <5>1. x \in 1 .. Len(q) - 1
          BY <2>1, <4>1
        <5> QED
          BY <2>2, <4>1, <5>1
      <4>2. CASE ~(x < k)
        <5>1. x - 1 \in 1 .. Len(q) - 1 /\ ~(x - 1 < k) /\ (x - 1) + 1 = x
          BY <2>1, <4>2
        <5> QED
          BY <2>2, <4>2, <5>1
      <4> QED
        BY <4>1, <4>2
    <3> QED
      BY <2>4, <2>5, <3>1
  <2>8. Before(r, c, d)
    BY <2>3, <2>6, <2>7 DEF Before
  <2> QED
    BY <1>2, <2>8 DEF queue_remove, r, k
<1> QED
  BY <1>1, <1>2

\* Popping the head of a queue leaves the order of the others.
LEMMA BeforeTail ==
  ASSUME NEW S, NEW q \in Seq(S), IsInjective(q), q # <<>>, NEW c, NEW d,
         c \in ToSet(Tail(q)), Before(q, c, d)
  PROVE  Before(Tail(q), c, d)
<1> DEFINE r == Tail(q)
<1>1. /\ Len(q) \in Nat /\ Len(q) > 0 /\ DOMAIN q = 1 .. Len(q)
      /\ DOMAIN r = 1 .. Len(q) - 1
      /\ \A i \in 1 .. Len(q) - 1 : r[i] = q[i + 1]
  BY HeadTailProperties, LenProperties, EmptySeq
<1>2. c # Head(q)
  BY QueuePop
<1>3. Head(q) = q[1]
  BY HeadTailProperties
<1> HIDE DEF r
<1>4. PICK i, j \in 1 .. Len(q) : i < j /\ q[i] = c /\ q[j] = d
  BY <1>1 DEF Before
<1>5. /\ i - 1 \in 1 .. Len(q) - 1 /\ j - 1 \in 1 .. Len(q) - 1
      /\ i - 1 < j - 1 /\ r[i - 1] = c /\ r[j - 1] = d
  BY <1>1, <1>2, <1>3, <1>4
<1> QED
  BY <1>1, <1>5 DEF Before, r

\* What OnlyAccessedBlockIsOvertaken says of one step.
OvertakenByAccess ==
  \A c, d \in ToSet(lru_q) \cap ToSet(lru_q') :
    Before(lru_q, c, d) /\ ~Before(lru_q', c, d) =>
      result'.op = "HIT" /\ result'.cblock = c

\* A request overtakes only the block it hits.
LEMMA LruMapRecency ==
  ASSUME LruInv, NEW o \in Oblocks, NEW write \in BOOLEAN, lru_map_api(o, write),
         loading' = FALSE
  PROVE  OvertakenByAccess
<1>1. lru_q \in Seq(Cblocks) /\ IsInjective(lru_q)
  BY DEF LruInv, QueueSound
<1>2. CASE o \in Blocks(pool) /\ lru_commit_hit(o, write)
  <2> DEFINE e == Lookup(o)
             r == queue_remove(lru_q, e)
  <2>1. lru_q' = lru_hit(e) /\ result'.op = "HIT" /\ result'.cblock = e
    BY <1>2, LruHitStep
  <2>2. e \in Cblocks
    BY <1>2, CachedEntry DEF LruInv, Lookup
  <2> HIDE DEF e
  <2>3. r \in Seq(Cblocks) /\ ToSet(r) = ToSet(lru_q) \ {e}
    BY <1>1, QueueRemove
  <2>4. CASE lru_q' = lru_q
    BY <2>4 DEF OvertakenByAccess
  <2>5. CASE lru_q' = queue_push(r, e)
    <3> SUFFICES ASSUME NEW c, NEW d, c \in ToSet(lru_q), d \in ToSet(lru_q),
                        Before(lru_q, c, d), c # e
                 PROVE  Before(lru_q', c, d)
      BY <2>1 DEF OvertakenByAccess
    <3>1. CASE d = e
      <4>1. c \in ToSet(r)
        BY <2>3
      <4> HIDE DEF r
      <4> QED
        BY <2>2, <2>3, <2>5, <3>1, <4>1, BeforePush
    <3>2. CASE d # e
      <4>1. Before(r, c, d)
        BY <1>1, <3>2, BeforeRemove
      <4> HIDE DEF r
      <4> QED
        BY <2>2, <2>3, <2>5, <4>1, BeforePush
    <3> QED
      BY <3>1, <3>2
  <2> QED
    BY <2>1, <2>4, <2>5 DEF lru_hit
<1>3. CASE /\ o \notin Blocks(pool)
           /\ lru_transaction_is_legal(lru_transaction_set(o))
           /\ lru_commit_miss(lru_transaction_set(o), o, write)
  <2>1. lru_q' = lru_q \/ (lru_q # <<>> /\ lru_q' = Tail(lru_q))
    BY <1>3, LruMissStep
  <2> QED
    BY <1>1, <2>1, BeforeTail DEF OvertakenByAccess
<1>4. CASE UNCHANGED <<pool, lru_q, stats, crashed>>
  BY <1>4 DEF OvertakenByAccess
<1> QED
  BY <1>2, <1>3, <1>4, LruMapCases

\* The other calls overtake none.
LEMMA LruNextRecency ==
  LruInv /\ [LruNext]_<<lruVars, loading>> => [OvertakenByAccess]_lruVars
<1> SUFFICES ASSUME LruInv, [LruNext]_<<lruVars, loading>>
             PROVE  [OvertakenByAccess]_lruVars
  OBVIOUS
<1>1. lru_q \in Seq(Cblocks) /\ IsInjective(lru_q)
  BY DEF LruInv, QueueSound
<1>2. ASSUME NEW o \in Oblocks, NEW c \in Cblocks, LruLoad(o, c)
      PROVE  OvertakenByAccess
  <2>1. lru_q' = queue_push(lru_q, c)
    BY <1>2, LruLoadStep
  <2> QED
    BY <1>1, <2>1, BeforePush DEF OvertakenByAccess
<1>3. ASSUME NEW o \in Oblocks, NEW write \in BOOLEAN, LruMap(o, write)
      PROVE  OvertakenByAccess
  BY <1>3, LruMapRecency DEF LruMap
<1>4. ASSUME NEW o \in Oblocks, LruRemove(o)
      PROVE  OvertakenByAccess
  <2> DEFINE e == Lookup(o)
  <2>1. lru_q' = lru_q \/ lru_q' = queue_remove(lru_q, e)
    BY <1>4, LruRemoveStep
  <2> HIDE DEF e
  <2>2. ToSet(queue_remove(lru_q, e)) = ToSet(lru_q) \ {e}
    BY <1>1, QueueRemove
  <2> QED
    BY <1>1, <2>1, <2>2, BeforeRemove DEF OvertakenByAccess
<1>5. ASSUME NEW o \in Oblocks, LruMigrated(o)
      PROVE  OvertakenByAccess
  <2> DEFINE e == Lookup(o)
  <2>1. lru_q' = queue_push(lru_q, e)
    BY <1>5, LruMigratedStep
  <2>2. e \in Cblocks
    BY <1>5, LruBlocks, BlocksType, CachedEntry DEF LruMigrated, LruInv, Lookup
  <2> HIDE DEF e
  <2> QED
    BY <1>1, <2>1, <2>2, BeforePush DEF OvertakenByAccess
<1>6. ASSUME NEW o \in Oblocks, NEW n \in Oblocks, LruRemap(o, n)
      PROVE  OvertakenByAccess
  <2>1. lru_q' = lru_q
    BY <1>6, LruRemapStep
  <2> QED
    BY <2>1 DEF OvertakenByAccess
<1>7. CASE UNCHANGED <<lruVars, loading>>
  BY <1>7
<1> QED
  BY <1>2, <1>3, <1>4, <1>5, <1>6, <1>7 DEF LruNext

\* Two blocks change places in the order of eviction only when the first of them
\* is accessed.
THEOREM LruRecency == LruSpec => OnlyAccessedBlockIsOvertaken
<1>1. LruInv /\ [LruNext]_<<lruVars, loading>> =>
        [\A c, d \in ToSet(lru_q) \cap ToSet(lru_q') :
           Before(lru_q, c, d) /\ ~Before(lru_q', c, d) =>
             result'.op = "HIT" /\ result'.cblock = c]_lruVars
  BY LruNextRecency DEF OvertakenByAccess
<1> QED
  BY <1>1, LruSafety, PTL DEF LruSpec, OnlyAccessedBlockIsOvertaken

-----------------------------------------------------------------------------
(***************************************************************************)
(* FOMO.  LRU's invariant is kept by the internal policy's part of each    *)
(* step; what is proved here is FOMO's own state and what its requests do. *)
(***************************************************************************)

\* What Fomo keeps beside its internal policy.
FomoOwnInv ==
  /\ state \in {"INSERT", "FILTER"}
  /\ mh \in Seq(Oblocks)
  /\ IsInjective(mh)
  /\ Len(mh) <= ghost_size
  /\ counter \in Nat
  /\ c_hits \in Nat
  /\ mh_hits \in Nat
  /\ filters \in 0 .. StatModulus - 1
  /\ counter < period_size
  /\ c_hits <= HitWeight * counter
  /\ mh_hits <= HitWeight * counter

FomoInv == LruInv /\ FomoOwnInv

\* A window has at least one request.
LEMMA PeriodSize == period_size \in Nat /\ period_size >= 1
<1> DEFINE n == CacheSize \div PeriodDivisor
<1>1. n \in Int
  BY NucleusAssumption, FomoAssumption
<1> HIDE DEF n
<1>2. period_size = IF n >= 1 THEN n ELSE 1
  BY <1>1, MaxOfTwo DEF period_size, n
<1> QED
  BY <1>1, <1>2

\* The window is empty when the state is initialized.
LEMMA FomoInitInv == FomoInit => FomoInv
<1> SUFFICES ASSUME FomoInit PROVE FomoOwnInv
  BY LruInitInv DEF FomoInit, FomoInv
<1>1. <<>> \in Seq(Oblocks) /\ IsInjective(<<>>) /\ Len(<<>>) = 0
  BY DEF IsInjective
<1>2. HitWeight * 0 = 0
  BY FomoAssumption
<1> QED
  BY <1>1, <1>2, PeriodSize, NucleusAssumption
  DEF FomoInit, FomoOwnInv, ghost_size

-----------------------------------------------------------------------------
(***************************************************************************)
(* The miss history.                                                       *)
(***************************************************************************)

\* Renaming in a sequence that does not hold the new name.
LEMMA ReplaceFacts ==
  ASSUME NEW q \in Seq(Oblocks), IsInjective(q), NEW o \in Oblocks, NEW n \in Oblocks,
         n \notin ToSet(q)
  PROVE  /\ ReplaceAll(q, o, n) \in Seq(Oblocks)
         /\ IsInjective(ReplaceAll(q, o, n))
         /\ Len(ReplaceAll(q, o, n)) = Len(q)
<1> DEFINE r == ReplaceAll(q, o, n)
<1>1. Len(q) \in Nat /\ DOMAIN q = 1 .. Len(q) /\ \A i \in 1 .. Len(q) : q[i] \in Oblocks
  BY LenProperties, ElementOfSeq
<1>2. /\ r \in [1 .. Len(q) -> Oblocks]
      /\ \A i \in 1 .. Len(q) : r[i] = IF q[i] = o THEN n ELSE q[i]
  BY <1>1 DEF ReplaceAll
<1> HIDE DEF r
<1>3. r \in Seq(Oblocks) /\ Len(r) = Len(q) /\ DOMAIN r = 1 .. Len(q)
  BY <1>1, <1>2, SeqDef, LenProperties
<1>4. \A i \in 1 .. Len(q) : q[i] # n
  BY <1>1 DEF ToSet
<1>5. IsInjective(r)
  BY <1>1, <1>2, <1>3, <1>4 DEF IsInjective
<1> QED
  BY <1>3, <1>5 DEF r

\* The history once a block has been taken out of it.
LEMMA HistoryRemove ==
  ASSUME FomoOwnInv, NEW o
  PROVE  /\ queue_remove(mh, o) \in Seq(Oblocks)
         /\ IsInjective(queue_remove(mh, o))
         /\ o \notin ToSet(queue_remove(mh, o))
         /\ Len(queue_remove(mh, o)) <= ghost_size
         /\ o \in ToSet(mh) => Len(queue_remove(mh, o)) < ghost_size
<1>1. mh \in Seq(Oblocks) /\ IsInjective(mh) /\ Len(mh) \in Nat /\ Len(mh) <= ghost_size
  BY LenProperties DEF FomoOwnInv
<1>2. /\ queue_remove(mh, o) \in Seq(Oblocks)
      /\ IsInjective(queue_remove(mh, o))
      /\ ToSet(queue_remove(mh, o)) = ToSet(mh) \ {o}
      /\ Len(queue_remove(mh, o)) = IF o \in ToSet(mh) THEN Len(mh) - 1 ELSE Len(mh)
  BY <1>1, QueueRemove
<1>3. ghost_size \in Nat
  BY NucleusAssumption DEF ghost_size
<1> QED
  BY <1>1, <1>2, <1>3

\* After mh_make_room the history has room for one more.
LEMMA HistoryRoom ==
  ASSUME FomoOwnInv
  PROVE  /\ mh_make_room \in Seq(Oblocks)
         /\ IsInjective(mh_make_room)
         /\ ToSet(mh_make_room) \subseteq ToSet(mh)
         /\ Len(mh_make_room) < ghost_size
<1>1. mh \in Seq(Oblocks) /\ IsInjective(mh) /\ Len(mh) \in Nat /\ Len(mh) <= ghost_size
  BY LenProperties DEF FomoOwnInv
<1>2. ghost_size \in Nat /\ ghost_size >= 2
  BY NucleusAssumption DEF ghost_size
<1>3. CASE Len(mh) = ghost_size
  <2>1. mh # <<>>
    BY <1>2, <1>3
  <2>2. Len(Tail(mh)) = Len(mh) - 1
    BY <1>1, <2>1, HeadTailProperties
  <2> QED
    BY <1>1, <1>2, <1>3, <2>1, <2>2, QueuePop DEF mh_make_room
<1>4. CASE Len(mh) # ghost_size
  BY <1>1, <1>2, <1>4 DEF mh_make_room
<1> QED
  BY <1>3, <1>4

-----------------------------------------------------------------------------
(***************************************************************************)
(* The transaction.                                                        *)
(***************************************************************************)

\* The fields of a transaction that the proofs use.
LEMMA TransactionFacts ==
  ASSUME FomoInv, NEW o \in Oblocks
  PROVE  LET ft == fomo_transaction_set(o)
         IN  /\ ft.c_hit \in BOOLEAN /\ (ft.c_hit <=> o \in Blocks(pool))
             /\ ft.mh_hit \in BOOLEAN /\ (ft.mh_hit <=> o \in ToSet(mh))
             /\ ft.state \in {"INSERT", "FILTER"}
             /\ ft.filter \in BOOLEAN
             /\ ft.filter <=> ~ft.c_hit /\ ~ft.mh_hit /\ ft.state = "FILTER"
<1>1. Lookup(o) # Null <=> o \in Blocks(pool)
  BY LookupIsCached DEF FomoInv, LruInv, Lookup
<1>2. state \in {"INSERT", "FILTER"}
  BY DEF FomoInv, FomoOwnInv
<1> DEFINE ft == fomo_transaction_set(o)
<1>3. /\ ft.c_hit = (Lookup(o) # Null)
      /\ ft.mh_hit = (o \in ToSet(mh))
      /\ ft.filter = (~ft.c_hit /\ ~ft.mh_hit /\ ft.state # "INSERT")
  BY DEF fomo_transaction_set
<1>4. ft.state \in {"INSERT", "FILTER"}
  BY <1>2 DEF fomo_transaction_set
<1> HIDE DEF ft
<1>5. ft.c_hit \in BOOLEAN /\ ft.mh_hit \in BOOLEAN /\ ft.filter \in BOOLEAN
  <2>1. /\ (Lookup(o) # Null) \in BOOLEAN
        /\ (o \in ToSet(mh)) \in BOOLEAN
        /\ (~ft.c_hit /\ ~ft.mh_hit /\ ft.state # "INSERT") \in BOOLEAN
    OBVIOUS
  <2> QED
    BY <1>3, <2>1, Zenon
<1>6. ft.c_hit <=> o \in Blocks(pool)
  BY <1>1, <1>3, Zenon
<1>7. ft.mh_hit <=> o \in ToSet(mh)
  BY <1>3, Zenon
<1>8. ft.filter <=> ~ft.c_hit /\ ~ft.mh_hit /\ ft.state = "FILTER"
  <2>1. ft.state # "INSERT" <=> ft.state = "FILTER"
    BY <1>4
  <2> QED
    BY <1>3, <2>1, Zenon
<1> QED
  BY <1>4, <1>5, <1>6, <1>7, <1>8 DEF ft

\* The request counter and the hit counters stay in step.
LEMMA WindowFacts ==
  ASSUME FomoInv, NEW o \in Oblocks
  PROVE  LET ft == fomo_transaction_set(o)
         IN  /\ ft.counter \in Nat /\ ft.c_hits \in Nat /\ ft.mh_hits \in Nat
             /\ ft.counter < period_size
             /\ ft.c_hits <= HitWeight * ft.counter
             /\ ft.mh_hits <= HitWeight * ft.counter
<1> DEFINE ft == fomo_transaction_set(o)
           n == counter + 1
<1>1. /\ counter \in Nat /\ c_hits \in Nat /\ mh_hits \in Nat
      /\ counter < period_size
      /\ c_hits <= HitWeight * counter /\ mh_hits <= HitWeight * counter
  BY DEF FomoInv, FomoOwnInv
<1>2. period_size \in Nat /\ period_size >= 1 /\ HitWeight \in Nat
  BY PeriodSize, FomoAssumption
<1>3. CASE window_ends
  <2>1. ft.counter = 0 /\ ft.c_hits = 0 /\ ft.mh_hits = 0
    BY <1>3 DEF fomo_transaction_set
  <2>2. HitWeight * 0 = 0
    BY <1>2
  <2> HIDE DEF ft
  <2> QED
    BY <1>2, <2>1, <2>2 DEF ft
<1>4. CASE ~window_ends
  <2>1. /\ ft.counter = n
        /\ ft.c_hits \in {c_hits, c_hits + HitWeight}
        /\ ft.mh_hits \in {mh_hits, mh_hits + HitWeight}
    <3>1. /\ ft.counter = n
          /\ ft.c_hits = c_hits + (IF Lookup(o) # Null THEN HitWeight ELSE 0)
          /\ ft.mh_hits = mh_hits + (IF o \in ToSet(mh) THEN HitWeight ELSE 0)
      BY <1>4 DEF fomo_transaction_set
    <3> HIDE DEF ft
    <3> QED
      BY <1>1, <1>2, <3>1
  <2>2. n # period_size
    <3>1. \A p \in Nat : p >= 1 => p % p = 0
      OBVIOUS
    <3> QED
      BY <1>2, <1>4, <3>1 DEF window_ends
  <2>3. HitWeight * n = HitWeight * counter + HitWeight /\ HitWeight * counter \in Nat
    BY <1>1, <1>2
  <2> HIDE DEF ft
  <2>4. n \in Nat /\ n < period_size
    BY <1>1, <1>2, <2>2
  <2> HIDE DEF n
  <2> QED
    BY <1>1, <1>2, <2>1, <2>3, <2>4 DEF ft
<1> QED
  BY <1>3, <1>4

\* The miss history stays free of repetitions and within its pool, and an admitted
\* block leaves it while FOMO filters.
LEMMA HistoryAfter ==
  ASSUME FomoInv, NEW o \in Oblocks, NEW ft, ft = fomo_transaction_set(o)
  PROVE  /\ mh_after(ft, o) \in Seq(Oblocks)
         /\ IsInjective(mh_after(ft, o))
         /\ Len(mh_after(ft, o)) <= ghost_size
         /\ ~ft.c_hit /\ ft.mh_hit /\ ft.state = "FILTER" =>
              o \notin ToSet(mh_after(ft, o))
         /\ insert_in_meta_asserts(ft)
<1> DEFINE r == queue_remove(mh, o)
           m == mh_make_room
<1>1. FomoOwnInv
  BY DEF FomoInv
<1>2. /\ ft.c_hit \in BOOLEAN /\ ft.mh_hit \in BOOLEAN
      /\ ft.mh_hit <=> o \in ToSet(mh)
      /\ ft.state \in {"INSERT", "FILTER"}
  BY TransactionFacts
<1>3. /\ r \in Seq(Oblocks) /\ IsInjective(r) /\ o \notin ToSet(r)
      /\ Len(r) <= ghost_size
      /\ o \in ToSet(mh) => Len(r) < ghost_size
      /\ Len(r) \in Nat
  BY <1>1, HistoryRemove, LenProperties
<1>4. /\ m \in Seq(Oblocks) /\ IsInjective(m) /\ ToSet(m) \subseteq ToSet(mh)
      /\ Len(m) < ghost_size
      /\ Len(m) \in Nat
  BY <1>1, HistoryRoom, LenProperties
<1>5. ghost_size \in Nat /\ meta_pool_size = ghost_size
  BY NucleusAssumption DEF ghost_size, meta_pool_size
<1>6. insert_in_meta_asserts(ft)
  BY <1>4, <1>5 DEF insert_in_meta_asserts
<1>7. /\ ft.c_hit => mh_after(ft, o) = r
      /\ ~ft.c_hit /\ ft.mh_hit /\ ft.state = "FILTER" => mh_after(ft, o) = r
      /\ ~ft.c_hit /\ ft.mh_hit /\ ft.state = "INSERT" => mh_after(ft, o) = queue_push(r, o)
      /\ ~ft.c_hit /\ ~ft.mh_hit => mh_after(ft, o) = queue_push(m, o)
  BY <1>2 DEF mh_after
<1> HIDE DEF r, m
<1>8. /\ queue_push(r, o) \in Seq(Oblocks) /\ IsInjective(queue_push(r, o))
      /\ Len(queue_push(r, o)) = Len(r) + 1
  BY <1>3, QueuePush
<1>9. o \notin ToSet(mh) =>
        /\ queue_push(m, o) \in Seq(Oblocks) /\ IsInjective(queue_push(m, o))
        /\ Len(queue_push(m, o)) = Len(m) + 1
  BY <1>4, QueuePush
<1>10. /\ mh_after(ft, o) \in Seq(Oblocks)
       /\ IsInjective(mh_after(ft, o))
       /\ Len(mh_after(ft, o)) <= ghost_size
  BY <1>2, <1>3, <1>4, <1>5, <1>7, <1>8, <1>9
<1> QED
  BY <1>3, <1>6, <1>7, <1>10

-----------------------------------------------------------------------------
(***************************************************************************)
(* The steps.                                                              *)
(***************************************************************************)

\* A request is filtered, is left to the internal policy, or fails; its miss
\* history and its window are committed unless it fails.
LEMMA FomoMapCases ==
  ASSUME FomoInv, NEW o \in Oblocks, NEW ft, ft = fomo_transaction_set(o), FomoMap(o)
  PROVE  /\ loading' = FALSE
         /\ \/ /\ fomo_transaction_is_legal(ft, o)
               /\ fomo_transaction_commit(ft, o)
            \/ /\ ~fomo_transaction_is_legal(ft, o)
               /\ result' = OpOnly("FAIL", o)
               /\ UNCHANGED <<pool, lru_q, stats, crashed, fomoVars>>
BY HistoryAfter DEF FomoMap, fomo_map

\* A request preserves the invariant.
LEMMA FomoMapInv ==
  ASSUME FomoInv, NEW o \in Oblocks, FomoMap(o)
  PROVE  FomoInv'
<1> DEFINE ft == fomo_transaction_set(o)
<1>1. LruInv /\ FomoOwnInv
  BY DEF FomoInv
<1>2. /\ ft.state \in {"INSERT", "FILTER"}
      /\ ft.counter \in Nat /\ ft.c_hits \in Nat /\ ft.mh_hits \in Nat
      /\ ft.counter < period_size
      /\ ft.c_hits <= HitWeight * ft.counter
      /\ ft.mh_hits <= HitWeight * ft.counter
  BY TransactionFacts, WindowFacts
<1>3. /\ mh_after(ft, o) \in Seq(Oblocks)
      /\ IsInjective(mh_after(ft, o))
      /\ Len(mh_after(ft, o)) <= ghost_size
  BY HistoryAfter
<1>4. /\ loading' = FALSE
      /\ \/ fomo_transaction_commit(ft, o)
         \/ /\ result' = OpOnly("FAIL", o)
            /\ UNCHANGED <<pool, lru_q, stats, crashed, fomoVars>>
  BY FomoMapCases
<1> HIDE DEF ft
<1>5. CASE fomo_transaction_commit(ft, o)
  <2>1. /\ state' = ft.state
        /\ counter' = ft.counter
        /\ c_hits' = ft.c_hits
        /\ mh_hits' = ft.mh_hits
        /\ mh' = mh_after(ft, o)
    BY <1>5 DEF fomo_transaction_commit
  <2>2. CASE /\ filters' = (filters + 1) % StatModulus
             /\ result' = OpOnly("FILTER", o)
             /\ UNCHANGED <<pool, lru_q, stats, crashed>>
    <3>1. filters' \in 0 .. StatModulus - 1
      BY <1>1, <2>2, NucleusAssumption DEF FomoOwnInv
    <3>2. result' \in Results
      BY <2>2, OpOnlyType DEF Operations
    <3>3. LruInv'
      BY <1>1, <1>4, <2>2, <3>2 DEF LruInv
    <3>4. FomoOwnInv'
      BY <1>2, <1>3, <2>1, <3>1 DEF FomoOwnInv, ghost_size, period_size
    <3> QED
      BY <3>3, <3>4 DEF FomoInv
  <2>3. CASE lru_map_api(o, FALSE) /\ UNCHANGED filters
    <3>1. LruInv'
      BY <1>1, <1>4, <2>3, LruMapInv
    <3>2. FomoOwnInv'
      BY <1>1, <1>2, <1>3, <2>1, <2>3 DEF FomoOwnInv, ghost_size, period_size
    <3> QED
      BY <3>1, <3>2 DEF FomoInv
  <2> QED
    BY <1>5, <2>2, <2>3 DEF fomo_transaction_commit
<1>6. CASE /\ result' = OpOnly("FAIL", o)
           /\ UNCHANGED <<pool, lru_q, stats, crashed, fomoVars>>
  <2>1. result' \in Results
    BY <1>6, OpOnlyType DEF Operations
  <2>2. LruInv'
    BY <1>1, <1>4, <1>6, <2>1 DEF LruInv
  <2>3. FomoOwnInv'
    BY <1>1, <1>6 DEF FomoOwnInv, fomoVars, windowVars, ghost_size, period_size
  <2> QED
    BY <2>2, <2>3 DEF FomoInv
<1> QED
  BY <1>4, <1>5, <1>6

\* The other calls are LRU's, with at most a change to the miss history.
LEMMA FomoOtherSteps ==
  ASSUME FomoInv, NEW o \in Oblocks, NEW n \in Oblocks, NEW c \in Cblocks,
         NEW remove_to_history \in BOOLEAN,
         \/ FomoLoad(o, c) \/ FomoRemove(o, remove_to_history)
         \/ FomoMigrated(o) \/ FomoRemap(o, n)
  PROVE  FomoInv' /\ result' = NoResult
<1>1. LruInv /\ FomoOwnInv
  BY DEF FomoInv
<1>2. /\ LruInv' /\ result' = NoResult
      /\ UNCHANGED <<windowVars, filters>>
  <2>1. CASE FomoLoad(o, c)
    <3>1. LruLoad(o, c) /\ UNCHANGED fomoVars
      BY <2>1 DEF FomoLoad, fomo_insert, LruLoad
    <3> QED
      BY <1>1, <3>1, LruLoadStep DEF fomoVars
  <2>2. CASE FomoRemove(o, remove_to_history)
    <3>1. LruRemove(o) /\ UNCHANGED <<windowVars, filters>>
      BY <2>2 DEF FomoRemove, fomo_remove, LruRemove
    <3> QED
      BY <1>1, <3>1, LruRemoveStep
  <2>3. CASE FomoMigrated(o)
    <3>1. LruMigrated(o) /\ UNCHANGED fomoVars
      BY <2>3 DEF FomoMigrated, fomo_migrated, LruMigrated
    <3> QED
      BY <1>1, <3>1, LruMigratedStep DEF fomoVars
  <2>4. CASE FomoRemap(o, n)
    <3>1. LruRemap(o, n) /\ UNCHANGED <<windowVars, filters>>
      BY <2>4 DEF FomoRemap, fomo_remap, LruRemap
    <3> QED
      BY <1>1, <3>1, LruRemapStep
  <2> QED
    BY <2>1, <2>2, <2>3, <2>4
<1>3. mh' \in Seq(Oblocks) /\ IsInjective(mh') /\ Len(mh') <= ghost_size
  <2>1. \/ mh' = mh
        \/ mh' = queue_remove(mh, o)
        \/ mh' = ReplaceAll(queue_remove(mh, n), o, n)
    BY DEF FomoLoad, fomo_insert, FomoRemove, fomo_remove, FomoMigrated,
           fomo_migrated, FomoRemap, fomo_remap, fomoVars
  <2>2. CASE mh' = mh
    BY <1>1, <2>2 DEF FomoOwnInv
  <2>3. CASE mh' = queue_remove(mh, o)
    BY <1>1, <2>3, HistoryRemove
  <2>4. CASE mh' = ReplaceAll(queue_remove(mh, n), o, n)
    <3> DEFINE r == queue_remove(mh, n)
    <3>1. /\ r \in Seq(Oblocks) /\ IsInjective(r) /\ n \notin ToSet(r)
          /\ Len(r) <= ghost_size
      BY <1>1, HistoryRemove
    <3> HIDE DEF r
    <3>2. mh' = ReplaceAll(r, o, n)
      BY <2>4 DEF r
    <3> QED
      BY <3>1, <3>2, ReplaceFacts
  <2> QED
    BY <2>1, <2>2, <2>3, <2>4
<1>4. FomoOwnInv'
  BY <1>1, <1>2, <1>3 DEF FomoOwnInv, windowVars, ghost_size, period_size
<1> QED
  BY <1>2, <1>4 DEF FomoInv

\* FomoInv is inductive.
LEMMA FomoNextInv == FomoInv /\ [FomoNext]_allVars => FomoInv'
<1> SUFFICES ASSUME FomoInv, [FomoNext]_allVars
             PROVE  FomoInv'
  OBVIOUS
<1>1. ASSUME NEW o \in Oblocks, NEW c \in Cblocks, FomoLoad(o, c)
      PROVE  FomoInv'
  BY <1>1, FomoOtherSteps
<1>2. ASSUME NEW o \in Oblocks, FomoMap(o)
      PROVE  FomoInv'
  BY <1>2, FomoMapInv
<1>3. 0 \in Cblocks
  BY NucleusAssumption DEF Cblocks
<1>4. ASSUME NEW o \in Oblocks, NEW remove_to_history \in BOOLEAN,
             FomoRemove(o, remove_to_history)
      PROVE  FomoInv'
  BY <1>3, <1>4, FomoOtherSteps
<1>5. ASSUME NEW o \in Oblocks, FomoMigrated(o)
      PROVE  FomoInv'
  BY <1>3, <1>5, FomoOtherSteps
<1>6. ASSUME NEW o \in Oblocks, NEW n \in Oblocks, FomoRemap(o, n)
      PROVE  FomoInv'
  BY <1>3, <1>6, FomoOtherSteps
<1>7. CASE UNCHANGED allVars
  BY <1>7 DEF allVars, lruVars, fomoVars, windowVars, FomoInv, LruInv, FomoOwnInv,
              ghost_size, period_size
<1> QED
  BY <1>1, <1>2, <1>4, <1>5, <1>6, <1>7 DEF FomoNext

\* FOMO and its internal policy are sound in every reachable state.
LEMMA FomoAlways == FomoSpec => []FomoInv
  BY FomoInitInv, FomoNextInv, PTL DEF FomoSpec

\* The miss history never runs out of its pool nor holds a block twice, and the
\* hit rates that FOMO compares never exceed one.
THEOREM FomoSafety == FomoSpec => []FomoSound
<1>1. FomoInv => FomoSound
  BY DEF FomoInv, FomoOwnInv, LruInv, PoolSound, QueueSound, FomoSound, FomoTypeOK,
         LruTypeOK, MissHistorySound, WindowConsistent
<1> QED
  BY <1>1, FomoAlways, PTL

-----------------------------------------------------------------------------
(***************************************************************************)
(* What a request answers.                                                 *)
(***************************************************************************)

\* What the internal policy answers is what lru_next_victim_api announces.
LEMMA LruAnnounced ==
  ASSUME LruInv, NEW o \in Oblocks, NEW write \in BOOLEAN, lru_map_api(o, write),
         loading' = FALSE
  PROVE  /\ result'.oblock = o
         /\ result'.op = lru_next_victim_api(o).op
         /\ result'.op = "REPLACE" =>
              result'.old_oblock = pool.oblock[lru_next_victim_api(o).victim]
         /\ result'.op \in {"NEW", "REPLACE"} => o \notin Blocks(pool)
         /\ result'.op = "FAIL" => ~lru_transaction_is_legal(lru_transaction_set(o))
<1> DEFINE t == lru_transaction_set(o)
<1>1. /\ t.hit <=> o \in Blocks(pool)
      /\ t.evict <=> o \notin Blocks(pool) /\ cache_is_full(pool)
  BY LookupIsCached DEF LruInv, lru_transaction_set, Lookup
<1>2. /\ ~lru_transaction_is_legal(t) =>
           lru_next_victim_api(o) = [op |-> "FAIL", victim |-> Null]
      /\ lru_transaction_is_legal(t) /\ t.hit =>
           lru_next_victim_api(o) = [op |-> "HIT", victim |-> Null]
      /\ lru_transaction_is_legal(t) /\ ~t.hit /\ t.evict =>
           lru_next_victim_api(o) = [op |-> "REPLACE", victim |-> Head(lru_q)]
      /\ lru_transaction_is_legal(t) /\ ~t.hit /\ ~t.evict =>
           lru_next_victim_api(o) = [op |-> "NEW", victim |-> Null]
  BY <1>1 DEF lru_next_victim_api
<1> HIDE DEF t
<1>3. CASE o \in Blocks(pool) /\ lru_commit_hit(o, write)
  <2>1. lru_transaction_is_legal(t)
    BY <1>1, <1>3 DEF lru_transaction_is_legal
  <2>2. result'.op = "HIT" /\ result'.oblock = o
    BY <1>3, LruHitStep
  <2> QED
    BY <1>1, <1>2, <1>3, <2>1, <2>2
<1>4. CASE /\ o \notin Blocks(pool)
           /\ lru_transaction_is_legal(t)
           /\ lru_commit_miss(t, o, write)
  <2>1. /\ result'.oblock = o
        /\ cache_is_full(pool) =>
             /\ result'.op = "REPLACE"
             /\ result'.old_oblock = pool.oblock[Head(lru_q)]
        /\ ~cache_is_full(pool) => result'.op = "NEW"
    BY <1>4, LruMissStep DEF t
  <2> QED
    BY <1>1, <1>2, <1>4, <2>1
<1>5. CASE ~lru_transaction_is_legal(t) /\ result' = OpOnly("FAIL", o)
  <2>1. result'.op = "FAIL" /\ result'.oblock = o
    BY <1>5, OpOnlyType DEF Operations
  <2> QED
    BY <1>2, <1>5, <2>1 DEF t
<1> QED
  BY <1>3, <1>4, <1>5, LruMapCases DEF t

\* What the three action properties of Fomo say of one step.
FomoAnswersSoundly ==
  /\ result'.op = "FAIL" => UNCHANGED <<pool, lru_q, stats, fomoVars>>
  /\ state' = "FILTER" /\ result'.op \in {"NEW", "REPLACE"} =>
       /\ result'.oblock \in ToSet(mh)
       /\ result'.oblock \notin ToSet(mh')
  /\ result' # NoResult /\ ~crashed' =>
       LET announced == fomo_next_victim(result'.oblock)
       IN  /\ result'.op = announced.op
           /\ result'.op = "REPLACE" =>
                result'.old_oblock = pool.oblock[announced.victim]

\* They hold of a request: it is answered as announced, and what has been filtered
\* or has failed has changed nothing but the history.
LEMMA FomoMapAnswer ==
  ASSUME FomoInv, NEW o \in Oblocks, FomoMap(o)
  PROVE  FomoAnswersSoundly
<1> DEFINE ft == fomo_transaction_set(o)
           a == fomo_next_victim(o)
<1>1. LruInv
  BY DEF FomoInv
<1>2. /\ ft.c_hit \in BOOLEAN /\ ft.mh_hit \in BOOLEAN /\ ft.filter \in BOOLEAN
      /\ ft.c_hit <=> o \in Blocks(pool)
      /\ ft.mh_hit <=> o \in ToSet(mh)
      /\ ft.filter <=> ~ft.c_hit /\ ~ft.mh_hit /\ ft.state = "FILTER"
  BY TransactionFacts
<1>3. ~ft.c_hit /\ ft.mh_hit /\ ft.state = "FILTER" => o \notin ToSet(mh_after(ft, o))
  BY HistoryAfter
<1>4. /\ loading' = FALSE
      /\ \/ /\ fomo_transaction_is_legal(ft, o)
            /\ fomo_transaction_commit(ft, o)
         \/ /\ ~fomo_transaction_is_legal(ft, o)
            /\ result' = OpOnly("FAIL", o)
            /\ UNCHANGED <<pool, lru_q, stats, crashed, fomoVars>>
  BY FomoMapCases
<1>5. /\ ~fomo_transaction_is_legal(ft, o) => a = [op |-> "FAIL", victim |-> Null]
      /\ fomo_transaction_is_legal(ft, o) /\ ft.filter =>
           a = [op |-> "FILTER", victim |-> Null]
      /\ fomo_transaction_is_legal(ft, o) /\ ~ft.filter => a = lru_next_victim_api(o)
  BY DEF fomo_next_victim, fomo_transaction_is_legal
<1> HIDE DEF ft, a
<1>6. CASE fomo_transaction_is_legal(ft, o) /\ fomo_transaction_commit(ft, o)
  <2>1. state' = ft.state /\ mh' = mh_after(ft, o)
    BY <1>6 DEF fomo_transaction_commit
  <2>2. CASE ft.filter /\ result' = OpOnly("FILTER", o)
    <3>1. result'.op = "FILTER" /\ result'.oblock = o
      BY <2>2, OpOnlyType DEF Operations
    <3> QED
      BY <1>5, <1>6, <2>2, <3>1 DEF FomoAnswersSoundly, a
  <2>3. CASE ~ft.filter /\ lru_map_api(o, FALSE)
    <3>1. /\ result'.oblock = o
          /\ result'.op = lru_next_victim_api(o).op
          /\ result'.op = "REPLACE" =>
               result'.old_oblock = pool.oblock[lru_next_victim_api(o).victim]
          /\ result'.op \in {"NEW", "REPLACE"} => o \notin Blocks(pool)
      BY <1>1, <1>4, <2>3, LruAnnounced
    <3>2. result'.op # "FAIL"
      BY <1>6, <2>3, <3>1 DEF fomo_transaction_is_legal
    <3>3. ASSUME state' = "FILTER", result'.op \in {"NEW", "REPLACE"}
          PROVE  o \in ToSet(mh) /\ o \notin ToSet(mh')
      BY <1>2, <1>3, <2>1, <2>3, <3>1, <3>3
    <3> QED
      BY <1>5, <1>6, <2>3, <3>1, <3>2, <3>3 DEF FomoAnswersSoundly, a
  <2> QED
    BY <1>6, <2>2, <2>3 DEF fomo_transaction_commit
<1>7. CASE /\ ~fomo_transaction_is_legal(ft, o)
           /\ result' = OpOnly("FAIL", o)
           /\ UNCHANGED <<pool, lru_q, stats, crashed, fomoVars>>
  <2>1. result'.op = "FAIL" /\ result'.oblock = o
    BY <1>7, OpOnlyType DEF Operations
  <2> QED
    BY <1>5, <1>7, <2>1 DEF FomoAnswersSoundly, a
<1> QED
  BY <1>4, <1>6, <1>7

\* The other calls answer nothing.
LEMMA FomoNextAnswer ==
  FomoInv /\ [FomoNext]_allVars => [FomoAnswersSoundly]_allVars
<1> SUFFICES ASSUME FomoInv, FomoNext
             PROVE  FomoAnswersSoundly
  OBVIOUS
<1>1. ASSUME NEW o \in Oblocks, FomoMap(o)
      PROVE  FomoAnswersSoundly
  BY <1>1, FomoMapAnswer
<1>2. ASSUME result' = NoResult
      PROVE  FomoAnswersSoundly
  <2>1. result'.op = "NONE"
    BY <1>2 DEF NoResult
  <2> QED
    BY <1>2, <2>1 DEF FomoAnswersSoundly
<1>3. 0 \in Cblocks
  BY NucleusAssumption DEF Cblocks
<1> QED
  BY <1>1, <1>2, <1>3, FomoOtherSteps DEF FomoNext

\* A request that fails leaves the window, the state and the miss history alone.
THEOREM FomoFailChangesNothing == FomoSpec => FailChangesNothing
<1>1. FomoInv /\ [FomoNext]_allVars =>
        [result'.op = "FAIL" => UNCHANGED <<pool, lru_q, stats, fomoVars>>]_allVars
  BY FomoNextAnswer DEF FomoAnswersSoundly
<1> QED
  BY <1>1, FomoAlways, PTL DEF FomoSpec, FailChangesNothing

\* While FOMO filters, only a block of the miss history is admitted, and it leaves
\* the history.
THEOREM FomoFilterAdmits == FomoSpec => FilterAdmitsOnlyReused
<1>1. FomoInv /\ [FomoNext]_allVars =>
        [state' = "FILTER" /\ result'.op \in {"NEW", "REPLACE"} =>
           /\ result'.oblock \in ToSet(mh)
           /\ result'.oblock \notin ToSet(mh')]_allVars
  BY FomoNextAnswer DEF FomoAnswersSoundly
<1> QED
  BY <1>1, FomoAlways, PTL DEF FomoSpec, FilterAdmitsOnlyReused

\* A request is answered as fomo_next_victim announces.
THEOREM FomoVictim == FomoSpec => FomoVictimAsAnnounced
<1>1. FomoInv /\ [FomoNext]_allVars =>
        [result' # NoResult /\ ~crashed' =>
           LET announced == fomo_next_victim(result'.oblock)
           IN  /\ result'.op = announced.op
               /\ result'.op = "REPLACE" =>
                    result'.old_oblock = pool.oblock[announced.victim]]_allVars
  BY FomoNextAnswer DEF FomoAnswersSoundly
<1> QED
  BY <1>1, FomoAlways, PTL DEF FomoSpec, FomoVictimAsAnnounced

-----------------------------------------------------------------------------
(***************************************************************************)
(* The simulator.  The tracker is a queue of distinct blocks, ordered by   *)
(* the time that is left to each: between lo and hi accesses.              *)
(***************************************************************************)
Scheduled(q, lo, hi) ==
  /\ q \in Seq(Migrations)
  /\ \A i \in DOMAIN q : q[i].left \in lo .. hi
  /\ \A i, j \in DOMAIN q : i < j => q[i].left < q[j].left
  /\ \A i, j \in DOMAIN q : q[i].oblock = q[j].oblock => i = j

\* The blocks of a queue of migrations.
BlocksOf(q) == {m.oblock : m \in ToSet(q)}

\* The times that may be left before each step of an access.
Soonest == IF pc \in {"map", "migrate"} THEN 0 ELSE 1
Latest == IF pc = "remove" THEN options.migration_delay ELSE options.migration_delay - 1

\* The block that was admitted by this access and is not yet in the tracker.
Pending == IF pc \in {"migrate", "add"} /\ was_admitted THEN {request} ELSE {}

\* While the simulator runs: what is in flight is what is in the tracker and what
\* this access has just admitted.
SimRuns ==
  /\ FomoInv
  /\ options \in Options
  /\ pc \in {"map", "migrate", "add", "remove"}
  /\ op \in Operations
  /\ request \in Oblocks \cup {Null}
  /\ pc # "map" => request \in Oblocks /\ loading = FALSE
  /\ pc = "add" => options.migration_delay > 0
  /\ Scheduled(tracker, Soonest, Latest)
  /\ MovingBlocks(pool) = BlocksOf(tracker) \cup Pending
  /\ BlocksOf(tracker) \cap Pending = {}
  /\ op = "FAIL" => CacheSize <= options.migration_delay

\* Only an unsupported command line stops it.
SimStopped ==
  /\ crashed = TRUE
  /\ Unsupported
  /\ pc = "map"
  /\ tracker = <<>>
  /\ MovingBlocks(pool) = {}
  /\ SimTypeOK
  /\ op # "FAIL"

SimInv == SimRuns \/ SimStopped

\* A queue of migrations is no longer than the range of its times, and has no more
\* blocks than entries.
LEMMA ScheduledBounds ==
  ASSUME NEW lo \in Int, NEW hi \in Int, lo <= hi + 1, NEW q, Scheduled(q, lo, hi)
  PROVE  /\ Len(q) \in Nat
         /\ Len(q) <= hi - lo + 1
         /\ Cardinality(BlocksOf(q)) <= hi - lo + 1
<1> DEFINE S == 1 .. Len(q)
           T == lo .. hi
           f == [i \in S |-> q[i].left]
           g == [i \in S |-> q[i].oblock]
<1>1. Len(q) \in Nat /\ DOMAIN q = S
  BY LenProperties DEF Scheduled
<1>2. IsFiniteSet(S) /\ Cardinality(S) = Len(q)
  <2>1. IsFiniteSet(S) /\ Cardinality(S) = IF 1 > Len(q) THEN 0 ELSE Len(q) - 1 + 1
    BY <1>1, FS_Interval
  <2> QED
    BY <1>1, <2>1
<1>3. IsFiniteSet(T) /\ Cardinality(T) = hi - lo + 1
  <2>1. IsFiniteSet(T) /\ Cardinality(T) = IF lo > hi THEN 0 ELSE hi - lo + 1
    BY FS_Interval
  <2> QED
    BY <2>1
<1>4. f \in Injection(S, T)
  <2>1. f \in [S -> T]
    BY <1>1 DEF Scheduled
  <2>2. ASSUME NEW i \in S, NEW j \in S, f[i] = f[j]
        PROVE  i = j
    <3>1. q[i].left = q[j].left /\ i \in DOMAIN q /\ j \in DOMAIN q
      BY <1>1, <2>2
    <3>2. q[i].left \in Int /\ q[j].left \in Int
      BY <3>1 DEF Scheduled
    <3>3. ~(i < j) /\ ~(j < i)
      BY <3>1, <3>2 DEF Scheduled
    <3> QED
      BY <1>1, <3>3
  <2> HIDE DEF f
  <2> QED
    BY <2>1, <2>2 DEF Injection, IsInjective
<1>5. Cardinality(S) <= Cardinality(T)
  BY <1>3, <1>4, FS_Injection
<1>6. g \in Surjection(S, BlocksOf(q))
  <2>1. g \in [S -> BlocksOf(q)]
    BY <1>1 DEF BlocksOf, ToSet
  <2>2. \A o \in BlocksOf(q) : \E i \in S : g[i] = o
    BY <1>1 DEF BlocksOf, ToSet
  <2> HIDE DEF g
  <2> QED
    BY <2>1, <2>2 DEF Surjection
<1>7. IsFiniteSet(BlocksOf(q)) /\ Cardinality(BlocksOf(q)) <= Cardinality(S)
  BY <1>2, <1>6, FS_Surjection
<1>8. Cardinality(BlocksOf(q)) \in Nat
  BY <1>7, FS_CardinalityType
<1> QED
  BY <1>1, <1>2, <1>3, <1>5, <1>7, <1>8

\* A migration leaves the queue.
LEMMA ScheduledRemove ==
  ASSUME NEW lo \in Int, NEW hi \in Int, Scheduled(tracker, lo, hi), NEW o
  PROVE  /\ Scheduled(migration_remove(o), lo, hi)
         /\ ToSet(migration_remove(o)) = {m \in ToSet(tracker) : m.oblock # o}
         /\ BlocksOf(migration_remove(o)) = BlocksOf(tracker) \ {o}
<1>1. CASE o \notin Tracked
  <2>1. migration_remove(o) = tracker
    BY <1>1 DEF migration_remove
  <2> QED
    BY <1>1, <2>1 DEF Tracked, BlocksOf
<1>2. CASE o \in Tracked
  <2> DEFINE k == CHOOSE i \in DOMAIN tracker : tracker[i].oblock = o
             r == RemoveAt(tracker, k)
  <2>1. Len(tracker) \in Nat /\ DOMAIN tracker = 1 .. Len(tracker)
    BY LenProperties DEF Scheduled
  <2>2. k \in 1 .. Len(tracker) /\ tracker[k].oblock = o
    <3>1. \E i \in DOMAIN tracker : tracker[i].oblock = o
      BY <1>2 DEF Tracked, ToSet
    <3> QED
      BY <2>1, <3>1
  <2>3. migration_remove(o) = r
    BY <1>2 DEF migration_remove
  <2> HIDE DEF k
  <2>4. /\ r \in Seq(Migrations)
        /\ Len(r) = Len(tracker) - 1
        /\ \A j \in 1 .. Len(tracker) - 1 :
             r[j] = IF j < k THEN tracker[j] ELSE tracker[j + 1]
    BY <2>2, RemoveAtFacts DEF Scheduled
  <2> HIDE DEF r
  <2>5. DOMAIN r = 1 .. Len(tracker) - 1
    BY <2>1, <2>4, LenProperties
  <2> DEFINE to(j) == IF j < k THEN j ELSE j + 1
  <2>6. \A j \in DOMAIN r : to(j) \in DOMAIN tracker /\ to(j) # k /\ r[j] = tracker[to(j)]
    BY <2>1, <2>2, <2>4, <2>5
  <2>7. \A i, j \in DOMAIN r : /\ i < j => to(i) < to(j)
                               /\ to(i) = to(j) => i = j
    BY <2>1, <2>2, <2>5
  <2>8. \A i \in DOMAIN tracker : i # k => \E j \in DOMAIN r : to(j) = i
    <3> SUFFICES ASSUME NEW i \in DOMAIN tracker, i # k
                 PROVE  \E j \in DOMAIN r : to(j) = i
      OBVIOUS
    <3>1. CASE i < k
      BY <2>1, <2>2, <2>5, <3>1
    <3>2. CASE i > k
      <4>1. i - 1 \in DOMAIN r /\ to(i - 1) = i
        BY <2>1, <2>2, <2>5, <3>2
      <4> QED
        BY <4>1
    <3> QED
      BY <2>1, <2>2, <3>1, <3>2
  <2> HIDE DEF to
  <2>9. Scheduled(r, lo, hi)
    BY <2>4, <2>6, <2>7 DEF Scheduled
  <2>10. ToSet(r) = {m \in ToSet(tracker) : m.oblock # o}
    <3>1. ASSUME NEW m \in ToSet(r)
          PROVE  m \in ToSet(tracker) /\ m.oblock # o
      <4>1. PICK j \in DOMAIN r : m = r[j]
        BY DEF ToSet
      <4>2. to(j) \in DOMAIN tracker /\ to(j) # k /\ m = tracker[to(j)]
        BY <2>6, <4>1
      <4>3. tracker[to(j)].oblock # tracker[k].oblock
        BY <2>1, <2>2, <4>2 DEF Scheduled
      <4> QED
        BY <2>2, <4>2, <4>3 DEF ToSet
    <3>2. ASSUME NEW m \in ToSet(tracker), m.oblock # o
          PROVE  m \in ToSet(r)
      <4>1. PICK i \in DOMAIN tracker : m = tracker[i]
        BY DEF ToSet
      <4>2. i # k
        BY <2>2, <3>2, <4>1
      <4>3. PICK j \in DOMAIN r : to(j) = i
        BY <2>8, <4>2
      <4> QED
        BY <2>6, <4>1, <4>3 DEF ToSet
    <3> QED
      BY <3>1, <3>2
  <2>11. BlocksOf(r) = BlocksOf(tracker) \ {o}
    BY <2>10 DEF BlocksOf
  <2> QED
    BY <2>3, <2>9, <2>10, <2>11
<1> QED
  BY <1>1, <1>2

\* Once the migration that is due has left the queue, if there is one, the others
\* have time left.
LEMMA ScheduledDue ==
  ASSUME NEW hi \in Int, Scheduled(tracker, 0, hi)
  PROVE  /\ migration_due => /\ Head(tracker).oblock \in BlocksOf(tracker)
                             /\ Scheduled(migration_remove(Head(tracker).oblock), 1, hi)
         /\ ~migration_due => Scheduled(tracker, 1, hi)
<1>1. /\ Len(tracker) \in Nat /\ DOMAIN tracker = 1 .. Len(tracker)
      /\ \A i \in DOMAIN tracker : tracker[i].left \in 0 .. hi
      /\ \A i, j \in DOMAIN tracker : i < j => tracker[i].left < tracker[j].left
  BY LenProperties DEF Scheduled
<1>2. tracker # <<>> => 1 \in DOMAIN tracker /\ Head(tracker) = tracker[1]
  BY <1>1, EmptySeq, HeadTailProperties DEF Scheduled
<1>3. ASSUME migration_due
      PROVE  /\ Head(tracker).oblock \in BlocksOf(tracker)
             /\ Scheduled(migration_remove(Head(tracker).oblock), 1, hi)
  <2> DEFINE o == Head(tracker).oblock
             r == migration_remove(o)
  <2>1. /\ tracker # <<>> /\ tracker[1].left = 0 /\ 1 \in DOMAIN tracker
        /\ o = tracker[1].oblock
    BY <1>2, <1>3 DEF migration_due
  <2>2. o \in BlocksOf(tracker)
    BY <2>1 DEF BlocksOf, ToSet
  <2> HIDE DEF o
  <2>3. Scheduled(r, 0, hi) /\ ToSet(r) = {m \in ToSet(tracker) : m.oblock # o}
    BY ScheduledRemove
  <2> HIDE DEF r
  <2>4. ASSUME NEW m \in ToSet(tracker), m.oblock # o
        PROVE  m.left \in 1 .. hi
    <3>1. PICK i \in DOMAIN tracker : m = tracker[i]
      BY DEF ToSet
    <3>2. i # 1
      BY <2>1, <2>4, <3>1
    <3>3. 1 < i
      BY <1>1, <3>1, <3>2
    <3>4. tracker[1].left < tracker[i].left
      BY <1>1, <2>1, <3>3
    <3> QED
      BY <1>1, <2>1, <3>1, <3>4
  <2>5. \A i \in DOMAIN r : r[i].left \in 1 .. hi
    BY <2>3, <2>4 DEF ToSet
  <2> QED
    BY <2>2, <2>3, <2>5 DEF Scheduled, r, o
<1>4. ASSUME ~migration_due
      PROVE  Scheduled(tracker, 1, hi)
  <2>1. ASSUME NEW i \in DOMAIN tracker
        PROVE  tracker[i].left \in 1 .. hi
    <3>1. tracker # <<>>
      BY <1>1, <2>1
    <3>2. tracker[1].left # 0 /\ 1 \in DOMAIN tracker
      BY <1>2, <1>4, <3>1 DEF migration_due
    <3>3. tracker[1].left \in 1 .. hi
      BY <1>1, <3>2
    <3>4. i = 1 \/ tracker[1].left < tracker[i].left
      BY <1>1, <3>2
    <3> QED
      BY <1>1, <3>3, <3>4
  <2> QED
    BY <2>1 DEF Scheduled
<1> QED
  BY <1>3, <1>4

\* A new migration ends after all others.
LEMMA ScheduledAdd ==
  ASSUME NEW lo \in Int, NEW hi \in Int, NEW d \in Nat, hi < d, lo <= d,
         NEW q, Scheduled(q, lo, hi), NEW o \in Oblocks, o \notin BlocksOf(q)
  PROVE  /\ Scheduled(Append(q, [oblock |-> o, left |-> d]), lo, d)
         /\ BlocksOf(Append(q, [oblock |-> o, left |-> d])) = BlocksOf(q) \cup {o}
<1> DEFINE m == [oblock |-> o, left |-> d]
           r == Append(q, m)
<1>1. m \in Migrations /\ m.oblock = o /\ m.left = d
  BY DEF Migrations
<1> HIDE DEF m
<1>2. /\ q \in Seq(Migrations)
      /\ Len(q) \in Nat /\ DOMAIN q = 1 .. Len(q)
      /\ \A i \in DOMAIN q : q[i].left \in lo .. hi
      /\ \A i, j \in DOMAIN q : i < j => q[i].left < q[j].left
      /\ \A i, j \in DOMAIN q : q[i].oblock = q[j].oblock => i = j
  BY LenProperties DEF Scheduled
<1>3. /\ r \in Seq(Migrations)
      /\ DOMAIN r = 1 .. Len(q) + 1
      /\ r[Len(q) + 1] = m
      /\ \A i \in 1 .. Len(q) : r[i] = q[i]
  <2>1. r \in Seq(Migrations) /\ Len(r) = Len(q) + 1
    BY <1>1, <1>2, AppendProperties
  <2> QED
    BY <1>1, <1>2, <2>1, AppendProperties, LenProperties
<1>4. \A i \in 1 .. Len(q) : q[i].oblock # o
  BY <1>2 DEF BlocksOf, ToSet
<1> HIDE DEF r
<1>5. \A i \in DOMAIN r : i \in DOMAIN q \/ i = Len(q) + 1
  BY <1>2, <1>3
<1>6. \A i \in DOMAIN r : r[i].left \in lo .. d
  BY <1>1, <1>2, <1>3, <1>5
<1>7. ASSUME NEW i \in DOMAIN r, NEW j \in DOMAIN r, i < j
      PROVE  r[i].left < r[j].left
  <2>1. i \in DOMAIN q /\ r[i] = q[i] /\ r[i].left \in lo .. hi
    BY <1>2, <1>3, <1>7
  <2>2. CASE j = Len(q) + 1
    BY <1>1, <1>3, <2>1, <2>2
  <2>3. CASE j \in DOMAIN q
    BY <1>2, <1>3, <1>7, <2>1, <2>3
  <2> QED
    BY <1>5, <2>2, <2>3
<1>8. ASSUME NEW i \in DOMAIN r, NEW j \in DOMAIN r, r[i].oblock = r[j].oblock
      PROVE  i = j
  BY <1>1, <1>2, <1>3, <1>4, <1>5, <1>8
<1>9. Scheduled(r, lo, d)
  BY <1>3, <1>6, <1>7, <1>8 DEF Scheduled
<1>10. ToSet(r) = ToSet(q) \cup {m}
  BY <1>2, <1>3, <1>5 DEF ToSet
<1>11. BlocksOf(r) = BlocksOf(q) \cup {o}
  BY <1>1, <1>10 DEF BlocksOf
<1> QED
  BY <1>9, <1>11 DEF r, m

\* Time passes for all migrations.
LEMMA ScheduledElapse ==
  ASSUME NEW hi \in Int, NEW q, Scheduled(q, 1, hi)
  PROVE  /\ Scheduled(Elapse(q), 0, hi - 1)
         /\ BlocksOf(Elapse(q)) = BlocksOf(q)
<1> DEFINE r == Elapse(q)
<1>1. /\ Len(q) \in Nat /\ DOMAIN q = 1 .. Len(q)
      /\ \A i \in DOMAIN q : q[i] \in Migrations /\ q[i].left \in 1 .. hi
      /\ \A i, j \in DOMAIN q : i < j => q[i].left < q[j].left
      /\ \A i, j \in DOMAIN q : q[i].oblock = q[j].oblock => i = j
  BY LenProperties, ElementOfSeq DEF Scheduled
<1>2. /\ DOMAIN r = DOMAIN q
      /\ \A i \in DOMAIN q : r[i] = [q[i] EXCEPT !.left = @ - 1]
  BY DEF Elapse
<1>3. r = [i \in 1 .. Len(q) |-> r[i]]
  BY <1>1 DEF Elapse
<1> HIDE DEF r
<1>4. \A i \in DOMAIN q : /\ r[i] \in Migrations
                          /\ r[i].left = q[i].left - 1
                          /\ r[i].oblock = q[i].oblock
  BY <1>1, <1>2 DEF Migrations
<1>5. r \in Seq(Migrations)
  <2>1. r \in [1 .. Len(q) -> Migrations]
    BY <1>1, <1>3, <1>4
  <2> QED
    BY <1>1, <2>1, SeqDef
<1>6. \A i \in DOMAIN q : r[i].left \in 0 .. hi - 1
  BY <1>1, <1>4
<1>7. \A i, j \in DOMAIN q : i < j => r[i].left < r[j].left
  BY <1>1, <1>4
<1>8. Scheduled(r, 0, hi - 1)
  BY <1>1, <1>2, <1>4, <1>5, <1>6, <1>7 DEF Scheduled
<1>9. BlocksOf(r) = BlocksOf(q)
  BY <1>2, <1>4 DEF BlocksOf, ToSet
<1> QED
  BY <1>8, <1>9 DEF r

-----------------------------------------------------------------------------
(***************************************************************************)
(* The steps of an access.                                                 *)
(***************************************************************************)

\* What a request does to the blocks in flight: one that it admits joins them, and
\* it fails only if they fill the cache.
LEMMA FomoMapMoves ==
  ASSUME FomoInv, NEW o \in Oblocks, FomoMap(o)
  PROVE  /\ result'.op \in Operations
         /\ result'.op \in {"NEW", "REPLACE"} =>
              /\ o \notin Blocks(pool)
              /\ MovingBlocks(pool') = MovingBlocks(pool) \cup {o}
         /\ result'.op \notin {"NEW", "REPLACE"} => MovingBlocks(pool') = MovingBlocks(pool)
         /\ result'.op = "FAIL" => Cardinality(MovingBlocks(pool)) = CacheSize
<1> DEFINE ft == fomo_transaction_set(o)
           lt == lru_transaction_set(o)
<1>1. LruInv /\ PoolSound(pool)
  BY DEF FomoInv, LruInv
<1>2. ~lru_transaction_is_legal(lt) => Cardinality(MovingBlocks(pool)) = CacheSize
  BY <1>1, LruFailStep, BlocksCardinality
<1>3. /\ loading' = FALSE
      /\ \/ /\ fomo_transaction_is_legal(ft, o)
            /\ fomo_transaction_commit(ft, o)
         \/ /\ ~fomo_transaction_is_legal(ft, o)
            /\ result' = OpOnly("FAIL", o)
            /\ UNCHANGED <<pool, lru_q, stats, crashed, fomoVars>>
  BY FomoMapCases
<1>4. lru_next_victim_api(o).op = "FAIL" => ~lru_transaction_is_legal(lt)
  BY DEF lru_next_victim_api
<1> HIDE DEF ft, lt
<1>5. CASE ~fomo_transaction_is_legal(ft, o) /\ result' = OpOnly("FAIL", o) /\ pool' = pool
  <2>1. result'.op = "FAIL"
    BY <1>5, OpOnlyType DEF Operations
  <2>2. ~lru_transaction_is_legal(lt)
    BY <1>4, <1>5 DEF fomo_transaction_is_legal
  <2> QED
    BY <1>2, <1>5, <2>1, <2>2 DEF Operations
<1>6. CASE result' = OpOnly("FILTER", o) /\ pool' = pool
  <2>1. result'.op = "FILTER"
    BY <1>6, OpOnlyType DEF Operations
  <2> QED
    BY <1>6, <2>1 DEF Operations
<1>7. CASE lru_map_api(o, FALSE)
  <2>1. CASE o \in Blocks(pool) /\ lru_commit_hit(o, FALSE)
    <3>1. MovingBlocks(pool') = MovingBlocks(pool) /\ result'.op = "HIT"
      BY <1>1, <1>3, <2>1, LruHitStep
    <3> QED
      BY <3>1 DEF Operations
  <2>2. CASE /\ o \notin Blocks(pool)
             /\ lru_transaction_is_legal(lt)
             /\ lru_commit_miss(lt, o, FALSE)
    <3>1. /\ MovingBlocks(pool') = MovingBlocks(pool) \cup {o}
          /\ cache_is_full(pool) => result'.op = "REPLACE"
          /\ ~cache_is_full(pool) => result'.op = "NEW"
      BY <1>1, <1>3, <2>2, LruMissStep DEF lt
    <3> QED
      BY <2>2, <3>1 DEF Operations
  <2>3. CASE /\ ~lru_transaction_is_legal(lt)
             /\ result' = OpOnly("FAIL", o)
             /\ UNCHANGED <<pool, lru_q, stats, crashed>>
    <3>1. result'.op = "FAIL"
      BY <2>3, OpOnlyType DEF Operations
    <3> QED
      BY <1>2, <2>3, <3>1 DEF Operations
  <2> QED
    BY <1>1, <1>7, <2>1, <2>2, <2>3, LruMapCases DEF lt
<1> QED
  BY <1>3, <1>5, <1>6, <1>7 DEF fomo_transaction_commit

\* The facts about a running simulator that its steps use.
LEMMA SimRunsFacts ==
  ASSUME SimRuns
  PROVE  /\ options.migration_delay \in Nat /\ options.removals \in BOOLEAN
         /\ CacheSize \in Nat /\ CacheSize >= 2
         /\ PoolSound(pool)
         /\ crashed = FALSE
         /\ Tracked = BlocksOf(tracker)
         /\ Inflight = MovingBlocks(pool)
         /\ Soonest \in 0 .. 1 /\ Latest \in Int
         /\ \A o \in Oblocks : Lookup(o) # Null <=> o \in Blocks(pool)
         /\ MovingBlocks(pool) \subseteq Blocks(pool)
<1>1. options.migration_delay \in Nat /\ options.removals \in BOOLEAN
  BY SimAssumption DEF SimRuns
<1>2. PoolSound(pool) /\ crashed = FALSE
  BY DEF SimRuns, FomoInv, LruInv
<1>3. \A o \in Oblocks : Lookup(o) # Null <=> o \in Blocks(pool)
  BY <1>2, LookupIsCached DEF Lookup
<1>4. MovingBlocks(pool) \subseteq Blocks(pool)
  BY <1>2, BlocksType
<1> QED
  BY <1>1, <1>2, <1>3, <1>4, LruBlocks, NucleusAssumption
  DEF Tracked, BlocksOf, Soonest, Latest

\* The map step.  It can fail only if all blocks are in the tracker, each with a
\* time of its own.
LEMMA SimMapInv ==
  ASSUME SimRuns, NEW o \in Oblocks, sim_map(o)
  PROVE  SimRuns'
<1> DEFINE D == options.migration_delay
<1>1. /\ D \in Nat /\ CacheSize \in Nat /\ CacheSize >= 2 /\ PoolSound(pool)
      /\ Inflight = MovingBlocks(pool)
      /\ MovingBlocks(pool) \subseteq Blocks(pool)
  BY SimRunsFacts
<1>2. /\ pc = "map" /\ ~crashed /\ pc' = "migrate"
      /\ request' = o /\ loading' = FALSE
      /\ tracker' = tracker /\ options' = options
  BY DEF sim_map
<1>3. /\ FomoInv /\ options \in Options /\ op \in Operations
      /\ Scheduled(tracker, 0, D - 1)
      /\ MovingBlocks(pool) = BlocksOf(tracker)
  BY <1>2 DEF SimRuns, Soonest, Latest, Pending
<1>4. /\ FomoInv'
      /\ op' \in Operations
      /\ op' \in {"NEW", "REPLACE"} =>
           /\ o \notin Blocks(pool)
           /\ MovingBlocks(pool') = MovingBlocks(pool) \cup {o}
      /\ op' \notin {"NEW", "REPLACE"} => MovingBlocks(pool') = MovingBlocks(pool)
      /\ op' = "FAIL" => Cardinality(MovingBlocks(pool)) = CacheSize
  <2>1. CASE op' = "HIT" /\ UNCHANGED <<lruVars, fomoVars>>
    <3>1. UNCHANGED <<lruVars, fomoVars>> /\ loading' = FALSE
      BY <1>2, <2>1
    <3>2. FomoInv'
      BY <1>3, <3>1 DEF lruVars, fomoVars, windowVars, FomoInv, LruInv, FomoOwnInv,
                        ghost_size, period_size
    <3> QED
      BY <2>1, <3>2 DEF lruVars, Operations
  <2>2. CASE fomo_map(o) /\ op' = result'.op
    <3>1. FomoMap(o)
      BY <1>2, <2>2 DEF FomoMap
    <3> QED
      BY <1>3, <2>2, <3>1, FomoMapInv, FomoMapMoves
  <2> QED
    BY <2>1, <2>2 DEF sim_map
<1>5. op' = "FAIL" => CacheSize <= D
  <2>1. Cardinality(BlocksOf(tracker)) <= (D - 1) - 0 + 1
    <3>1. 0 \in Int /\ D - 1 \in Int /\ 0 <= (D - 1) + 1
      BY <1>1
    <3> QED
      BY <1>3, <3>1, ScheduledBounds
  <2> QED
    BY <1>1, <1>3, <1>4, <2>1
<1>6. /\ Scheduled(tracker', Soonest', Latest')
  BY <1>2, <1>3 DEF Soonest, Latest
<1>7. Pending' = IF op' \in {"NEW", "REPLACE"} THEN {o} ELSE {}
  BY <1>2 DEF Pending, was_admitted
<1>8. BlocksOf(tracker') = BlocksOf(tracker)
  BY <1>2
<1>9. /\ MovingBlocks(pool') = BlocksOf(tracker') \cup Pending'
      /\ BlocksOf(tracker') \cap Pending' = {}
  BY <1>1, <1>3, <1>4, <1>7, <1>8
<1>10. MovingBlocks(pool)' = MovingBlocks(pool') /\ BlocksOf(tracker)' = BlocksOf(tracker')
  BY DEF MovingBlocks, BlocksOf
<1>11. /\ options' \in Options /\ pc' \in {"map", "migrate", "add", "remove"}
       /\ request' \in Oblocks /\ pc' # "add" /\ options'.migration_delay = D
  BY <1>2, <1>3
<1> QED
  BY <1>2, <1>4, <1>5, <1>6, <1>9, <1>10, <1>11 DEF SimRuns, Scheduled

\* The end of a migration of a block in flight.
LEMMA FomoMigratedMoves ==
  ASSUME SimRuns, NEW o \in MovingBlocks(pool), fomo_migrated(o), loading = FALSE,
         loading' = loading
  PROVE  FomoInv' /\ MovingBlocks(pool') = MovingBlocks(pool) \ {o}
<1>1. FomoInv /\ LruInv /\ crashed = FALSE
  BY DEF SimRuns, FomoInv, LruInv
<1>2. o \in Oblocks /\ o \in Inflight
  BY SimRunsFacts, BlocksType
<1>3. FomoMigrated(o) /\ LruMigrated(o)
  BY <1>1, <1>2 DEF FomoMigrated, fomo_migrated, LruMigrated
<1>4. 0 \in Cblocks /\ TRUE \in BOOLEAN
  BY NucleusAssumption DEF Cblocks
<1> QED
  BY <1>1, <1>2, <1>3, <1>4, FomoOtherSteps, LruMigratedStep

\* Nothing happens to the policy.
LEMMA FomoIdle ==
  ASSUME FomoInv, UNCHANGED <<lruVars, fomoVars>>, loading' \in BOOLEAN
  PROVE  FomoInv' /\ pool' = pool
BY DEF lruVars, fomoVars, windowVars, FomoInv, LruInv, FomoOwnInv, ghost_size, period_size

\* Without a delay the block admitted is the only one in flight, and it has migrated.
LEMMA SimMigrateNowInv ==
  ASSUME SimRuns, sim_migrate_now
  PROVE  SimRuns'
<1> DEFINE D == options.migration_delay
<1>1. /\ pc = "migrate" /\ D = 0 /\ pc' = "remove"
      /\ options' = options /\ request' = request /\ op' = op
      /\ tracker' = tracker /\ loading' = loading
  BY DEF sim_migrate_now
<1>2. /\ FomoInv /\ options \in Options /\ op \in Operations
      /\ request \in Oblocks /\ loading = FALSE
      /\ Scheduled(tracker, 0, -1)
      /\ MovingBlocks(pool) = BlocksOf(tracker) \cup Pending
      /\ Pending = IF was_admitted THEN {request} ELSE {}
      /\ BlocksOf(tracker) \cap Pending = {}
      /\ op = "FAIL" => CacheSize <= D
  BY <1>1 DEF SimRuns, Soonest, Latest, Pending
<1>3. FomoInv' /\ MovingBlocks(pool') = BlocksOf(tracker)
  <2>1. CASE was_admitted /\ fomo_migrated(request)
    <3>1. request \in MovingBlocks(pool) /\ request \notin BlocksOf(tracker)
      BY <1>2, <2>1
    <3>2. FomoInv' /\ MovingBlocks(pool') = MovingBlocks(pool) \ {request}
      BY <1>1, <1>2, <2>1, <3>1, FomoMigratedMoves
    <3> QED
      BY <1>2, <2>1, <3>1, <3>2
  <2>2. CASE ~was_admitted /\ UNCHANGED <<lruVars, fomoVars>>
    <3>1. FomoInv' /\ pool' = pool
      BY <1>1, <1>2, <2>2, FomoIdle
    <3> QED
      BY <1>2, <2>2, <3>1
  <2> QED
    BY <2>1, <2>2 DEF sim_migrate_now
<1>4. Scheduled(tracker, 1, 0)
  <2>1. \A i \in DOMAIN tracker : tracker[i].left \in 1 .. 0
    BY <1>2 DEF Scheduled
  <2> QED
    BY <1>2, <2>1 DEF Scheduled
<1>5. Scheduled(tracker', Soonest', Latest')
  BY <1>1, <1>4 DEF Soonest, Latest
<1>6. Pending' = {} /\ BlocksOf(tracker') = BlocksOf(tracker)
  BY <1>1 DEF Pending
<1>7. MovingBlocks(pool)' = MovingBlocks(pool') /\ BlocksOf(tracker)' = BlocksOf(tracker')
  BY DEF MovingBlocks, BlocksOf
<1> QED
  BY <1>1, <1>2, <1>3, <1>5, <1>6, <1>7 DEF SimRuns, Scheduled

\* With one, the migration that is due ends: its block is still in flight.
LEMMA SimMigrationNextInv ==
  ASSUME SimRuns, migration_next
  PROVE  SimRuns'
<1> DEFINE D == options.migration_delay
           o == Head(tracker).oblock
<1>1. /\ pc = "migrate" /\ D > 0 /\ pc' = "add"
      /\ options' = options /\ request' = request /\ op' = op
      /\ loading' = loading
  BY DEF migration_next
<1>2. /\ FomoInv /\ options \in Options /\ op \in Operations
      /\ request \in Oblocks /\ loading = FALSE
      /\ Scheduled(tracker, 0, D - 1)
      /\ MovingBlocks(pool) = BlocksOf(tracker) \cup Pending
      /\ BlocksOf(tracker) \cap Pending = {}
      /\ op = "FAIL" => CacheSize <= D
  BY <1>1 DEF SimRuns, Soonest, Latest
<1>3. /\ D \in Nat /\ D - 1 \in Int
      /\ \A b \in Oblocks : Lookup(b) # Null <=> b \in Blocks(pool)
      /\ MovingBlocks(pool) \subseteq Blocks(pool) /\ PoolSound(pool)
  BY SimRunsFacts
<1>4. /\ FomoInv'
      /\ Scheduled(tracker', 1, D - 1)
      /\ MovingBlocks(pool') = BlocksOf(tracker') \cup Pending
      /\ BlocksOf(tracker') \subseteq BlocksOf(tracker)
  <2>1. CASE /\ migration_due
             /\ tracker' = migration_remove(o)
             /\ sim_migrated(o)
    <3>1. o \in BlocksOf(tracker) /\ Scheduled(migration_remove(o), 1, D - 1)
      BY <1>2, <1>3, <2>1, ScheduledDue
    <3> HIDE DEF o
    <3>2. BlocksOf(migration_remove(o)) = BlocksOf(tracker) \ {o}
      BY <1>2, <1>3, ScheduledRemove
    <3>3. o \in MovingBlocks(pool) /\ o \notin Pending
      BY <1>2, <3>1
    <3>4. Lookup(o) # Null
      BY <1>3, <3>3, BlocksType
    <3>5. fomo_migrated(o)
      BY <2>1, <3>4 DEF sim_migrated
    <3>6. FomoInv' /\ MovingBlocks(pool') = MovingBlocks(pool) \ {o}
      BY <1>1, <1>2, <3>3, <3>5, FomoMigratedMoves
    <3> QED
      BY <1>2, <2>1, <3>1, <3>2, <3>3, <3>6
  <2>2. CASE ~migration_due /\ UNCHANGED <<tracker, lruVars, fomoVars>>
    <3>1. FomoInv' /\ pool' = pool
      BY <1>1, <1>2, <2>2, FomoIdle
    <3>2. Scheduled(tracker, 1, D - 1)
      BY <1>2, <1>3, <2>2, ScheduledDue
    <3> QED
      BY <1>2, <2>2, <3>1, <3>2
  <2> QED
    BY <2>1, <2>2 DEF migration_next
<1> HIDE DEF o
<1>5. Scheduled(tracker', Soonest', Latest')
  BY <1>1, <1>4 DEF Soonest, Latest
<1>6. Pending' = Pending
  BY <1>1 DEF Pending, was_admitted
<1>7. MovingBlocks(pool)' = MovingBlocks(pool') /\ BlocksOf(tracker)' = BlocksOf(tracker')
  BY DEF MovingBlocks, BlocksOf
<1>8. BlocksOf(tracker') \cap Pending = {}
  BY <1>2, <1>4
<1> QED
  BY <1>1, <1>2, <1>4, <1>5, <1>6, <1>7, <1>8 DEF SimRuns, Scheduled

\* The block admitted is scheduled: the tracker's pool, twice the delay, is never
\* used up.
LEMMA SimMigrationAddInv ==
  ASSUME SimRuns, migration_add
  PROVE  SimRuns'
<1> DEFINE D == options.migration_delay
           m == [oblock |-> request, left |-> D]
<1>1. /\ pc = "add" /\ pc' = "remove"
      /\ options' = options /\ request' = request /\ op' = op
      /\ loading' = loading /\ UNCHANGED fomoVars
  BY DEF migration_add
<1>2. /\ FomoInv /\ options \in Options /\ op \in Operations /\ D > 0
      /\ request \in Oblocks /\ loading = FALSE
      /\ Scheduled(tracker, 1, D - 1)
      /\ MovingBlocks(pool) = BlocksOf(tracker) \cup Pending
      /\ Pending = IF was_admitted THEN {request} ELSE {}
      /\ BlocksOf(tracker) \cap Pending = {}
      /\ op = "FAIL" => CacheSize <= D
  BY <1>1 DEF SimRuns, Soonest, Latest, Pending
<1>3. D \in Nat /\ D - 1 \in Int /\ Tracked = BlocksOf(tracker)
  BY SimRunsFacts
<1>4. Len(tracker) < tracker_nr_entries
  <2>1. Len(tracker) \in Nat /\ Len(tracker) <= (D - 1) - 1 + 1
    <3>1. 1 \in Int /\ D - 1 \in Int /\ 1 <= (D - 1) + 1
      BY <1>2, <1>3
    <3> QED
      BY <1>2, <3>1, ScheduledBounds
  <2> QED
    BY <1>2, <1>3, <2>1 DEF tracker_nr_entries
<1>5. /\ UNCHANGED lruVars
      /\ Scheduled(tracker', 1, D)
      /\ BlocksOf(tracker') = MovingBlocks(pool)
  <2>1. CASE was_admitted /\ request \notin Tracked
    <3>1. tracker' = Append(tracker, m) /\ UNCHANGED lruVars
      BY <1>4, <2>1 DEF migration_add
    <3>2. /\ Scheduled(Append(tracker, m), 1, D)
          /\ BlocksOf(Append(tracker, m)) = BlocksOf(tracker) \cup {request}
      <4>1. 1 \in Int /\ D - 1 < D /\ 1 <= D /\ request \notin BlocksOf(tracker)
        BY <1>2, <1>3, <2>1
      <4> QED
        BY <1>2, <1>3, <4>1, ScheduledAdd
    <3> HIDE DEF m
    <3> QED
      BY <1>2, <2>1, <3>1, <3>2
  <2>2. CASE ~(was_admitted /\ request \notin Tracked)
    <3>1. tracker' = tracker /\ UNCHANGED lruVars
      BY <2>2 DEF migration_add
    <3>2. ~was_admitted
      BY <1>2, <1>3, <2>2
    <3>3. Scheduled(tracker, 1, D)
      <4>1. \A i \in DOMAIN tracker : tracker[i].left \in 1 .. D
        BY <1>2, <1>3 DEF Scheduled
      <4> QED
        BY <1>2, <4>1 DEF Scheduled
    <3> QED
      BY <1>2, <3>1, <3>2, <3>3
  <2> QED
    BY <2>1, <2>2
<1>6. FomoInv' /\ pool' = pool
  BY <1>1, <1>2, <1>5, FomoIdle
<1>7. Scheduled(tracker', Soonest', Latest')
  BY <1>1, <1>5 DEF Soonest, Latest
<1>8. Pending' = {}
  BY <1>1 DEF Pending
<1>9. MovingBlocks(pool)' = MovingBlocks(pool') /\ BlocksOf(tracker)' = BlocksOf(tracker')
  BY DEF MovingBlocks, BlocksOf
<1> QED
  BY <1>1, <1>2, <1>5, <1>6, <1>7, <1>8, <1>9 DEF SimRuns, Scheduled

\* The types that the simulator's variables have while it runs.
LEMMA SimRunsTyped ==
  ASSUME SimRuns
  PROVE  SimTypeOK
BY DEF SimRuns, FomoInv, FomoOwnInv, LruInv, PoolSound, QueueSound, Scheduled,
       SimTypeOK, FomoTypeOK, LruTypeOK

\* A block that is removed leaves the tracker as well; without a tracker the
\* simulator stops.
LEMMA SimRemoveInv ==
  ASSUME SimRuns, sim_remove
  PROVE  SimInv'
<1> DEFINE D == options.migration_delay
           r == migration_remove(request)
<1>1. /\ pc = "remove" /\ pc' = "map"
      /\ options' = options /\ request' = request /\ op' = op
      /\ loading' = loading
  BY DEF sim_remove
<1>2. /\ FomoInv /\ options \in Options /\ op \in Operations
      /\ request \in Oblocks /\ loading = FALSE
      /\ Scheduled(tracker, 1, D)
      /\ MovingBlocks(pool) = BlocksOf(tracker)
      /\ op = "FAIL" => CacheSize <= D
  BY <1>1 DEF SimRuns, Soonest, Latest, Pending
<1>3. /\ D \in Nat /\ CacheSize \in Nat /\ CacheSize >= 2
      /\ \A b \in Oblocks : Lookup(b) # Null <=> b \in Blocks(pool)
      /\ crashed = FALSE /\ Tracked = BlocksOf(tracker)
  BY SimRunsFacts
<1>4. ASSUME FomoInv', Scheduled(tracker', 0, D - 1),
             MovingBlocks(pool') = BlocksOf(tracker')
      PROVE  SimRuns'
  <2>1. Scheduled(tracker', Soonest', Latest')
    BY <1>1, <1>4 DEF Soonest, Latest
  <2>2. Pending' = {}
    BY <1>1 DEF Pending
  <2>3. MovingBlocks(pool)' = MovingBlocks(pool') /\ BlocksOf(tracker)' = BlocksOf(tracker')
    BY DEF MovingBlocks, BlocksOf
  <2> QED
    BY <1>1, <1>2, <1>4, <2>1, <2>2, <2>3 DEF SimRuns, Scheduled
<1>5. CASE D > 0 /\ tracker' = Elapse(r) /\ fomo_remove(request, TRUE) /\ Lookup(request) # Null
  <2>1. Scheduled(r, 1, D) /\ BlocksOf(r) = BlocksOf(tracker) \ {request}
    <3>1. 1 \in Int /\ D \in Int
      BY <1>3
    <3> QED
      BY <1>2, <3>1, ScheduledRemove
  <2> HIDE DEF r
  <2>2. Scheduled(tracker', 0, D - 1) /\ BlocksOf(tracker') = BlocksOf(r)
    BY <1>3, <1>5, <2>1, ScheduledElapse
  <2>3. FomoRemove(request, TRUE) /\ LruRemove(request)
    <3>1. request \in Cached
      BY <1>2, <1>3, <1>5, LruBlocks
    <3> QED
      BY <1>1, <1>2, <1>3, <1>5, <3>1 DEF FomoRemove, fomo_remove, LruRemove
  <2>4. FomoInv' /\ MovingBlocks(pool') = MovingBlocks(pool) \ {request}
    <3>1. 0 \in Cblocks /\ TRUE \in BOOLEAN /\ LruInv
      BY <1>2, NucleusAssumption DEF Cblocks, FomoInv
    <3> QED
      BY <1>2, <2>3, <3>1, FomoOtherSteps, LruRemoveStep
  <2> QED
    BY <1>2, <1>4, <2>1, <2>2, <2>4 DEF SimInv
<1>6. CASE tracker' = Elapse(tracker) /\ UNCHANGED <<lruVars, fomoVars>>
  <2>1. Scheduled(tracker', 0, D - 1) /\ BlocksOf(tracker') = BlocksOf(tracker)
    BY <1>2, <1>3, <1>6, ScheduledElapse
  <2>2. FomoInv' /\ pool' = pool
    BY <1>1, <1>2, <1>6, FomoIdle
  <2> QED
    BY <1>2, <1>4, <2>1, <2>2 DEF SimInv
<1>7. CASE options.removals /\ ~(D > 0) /\ LogFatal /\ UNCHANGED <<tracker, fomoVars>>
  <2>1. D = 0
    BY <1>3, <1>7
  <2>2. /\ crashed' = TRUE
        /\ UNCHANGED <<pool, lru_q, stats, result, tracker, fomoVars>>
    BY <1>7 DEF LogFatal
  <2>3. Unsupported'
    BY <1>1, <1>7, <2>1 DEF Unsupported
  <2>4. tracker = <<>>
    <3>1. Len(tracker) \in Nat /\ Len(tracker) <= 0 - 1 + 1
      BY <1>2, <2>1, ScheduledBounds
    <3> QED
      BY <1>2, <3>1, EmptySeq DEF Scheduled
  <2>5. MovingBlocks(pool) = {}
    BY <1>2, <2>4 DEF BlocksOf, ToSet
  <2>6. SimTypeOK
    BY SimRunsTyped
  <2>7. SimTypeOK'
    BY <1>1, <2>2, <2>6 DEF SimTypeOK, FomoTypeOK, LruTypeOK, fomoVars, windowVars
  <2>8. op' # "FAIL"
    BY <1>1, <1>2, <1>3, <2>1
  <2>9. tracker' = <<>> /\ MovingBlocks(pool)' = {}
    BY <2>2, <2>4, <2>5 DEF MovingBlocks
  <2> QED
    BY <1>1, <2>2, <2>3, <2>7, <2>8, <2>9 DEF SimInv, SimStopped
<1> QED
  BY <1>5, <1>6, <1>7 DEF sim_remove

\* Nothing is in flight when the trace starts.
LEMMA SimInitInv == SimInit => SimInv
<1> SUFFICES ASSUME SimInit PROVE SimRuns
  BY DEF SimInv
<1>1. FomoInv /\ PoolSound(pool) /\ pool.migrating = {} /\ tracker = <<>> /\ pc = "map"
  BY FomoInitInv DEF SimInit, FomoInit, LruInit, epool_init, FomoInv, LruInv
<1>2. MovingBlocks(pool) = {} /\ BlocksOf(tracker) = {} /\ Pending = {}
  BY <1>1 DEF MovingBlocks, BlocksOf, ToSet, Pending
<1>3. <<>> \in Seq(Migrations) /\ DOMAIN <<>> = {}
  OBVIOUS
<1>4. Scheduled(tracker, Soonest, Latest)
  BY <1>1, <1>3 DEF Scheduled
<1> QED
  BY <1>1, <1>2, <1>4 DEF SimInit, SimRuns, Operations

\* SimInv is inductive.
LEMMA SimNextInv == SimInv /\ [SimNext]_<<allVars, simVars>> => SimInv'
<1>1. ASSUME SimRuns, SimNext
      PROVE  SimInv'
  <2>1. ASSUME NEW o \in Oblocks, sim_map(o)
        PROVE  SimInv'
    BY <1>1, <2>1, SimMapInv DEF SimInv
  <2>2. ASSUME sim_migrate_now
        PROVE  SimInv'
    BY <1>1, <2>2, SimMigrateNowInv DEF SimInv
  <2>3. ASSUME migration_next
        PROVE  SimInv'
    BY <1>1, <2>3, SimMigrationNextInv DEF SimInv
  <2>4. ASSUME migration_add
        PROVE  SimInv'
    BY <1>1, <2>4, SimMigrationAddInv DEF SimInv
  <2>5. ASSUME sim_remove
        PROVE  SimInv'
    BY <1>1, <2>5, SimRemoveInv
  <2> QED
    BY <1>1, <2>1, <2>2, <2>3, <2>4, <2>5 DEF SimNext
<1>2. ASSUME SimStopped, SimNext
      PROVE  SimInv'
  BY <1>2 DEF SimStopped, SimNext, sim_map, sim_migrate_now, migration_next,
              migration_add, sim_remove
<1>3. ASSUME SimInv, UNCHANGED <<allVars, simVars>>
      PROVE  SimInv'
  <2>1. CASE SimRuns
    <3>1. FomoInv'
      BY <1>3, <2>1, FomoIdle DEF SimRuns, FomoInv, LruInv, allVars
    <3> QED
      BY <1>3, <2>1, <3>1
      DEF allVars, simVars, lruVars, SimInv, SimRuns, Scheduled, Soonest, Latest, Pending,
          was_admitted, BlocksOf, MovingBlocks
  <2>2. CASE SimStopped
    BY <1>3, <2>2
    DEF allVars, simVars, lruVars, fomoVars, windowVars, SimInv, SimStopped, SimTypeOK,
        FomoTypeOK, LruTypeOK, Unsupported, MovingBlocks
  <2> QED
    BY <1>3, <2>1, <2>2 DEF SimInv
<1> QED
  BY <1>1, <1>2, <1>3 DEF SimInv

\* Tracker and policy agree on what is in flight, the tracker is in order, and no
\* assertion of the policy fails, for every trace and every supported command line;
\* a request fails only if migrations take as long as there are cache blocks.
THEOREM SimSafety == SimSpec => []SimSound
<1>1. ASSUME SimRuns
      PROVE  SimSound
  <2>1. /\ Tracked = BlocksOf(tracker) /\ Inflight = MovingBlocks(pool)
        /\ crashed = FALSE /\ options.migration_delay \in Nat
    BY <1>1, SimRunsFacts
  <2>2. SimTypeOK
    BY <1>1, SimRunsTyped
  <2>3. TrackerMatchesPolicy
    BY <1>1, <2>1 DEF SimRuns, Pending, TrackerMatchesPolicy
  <2>4. TrackerOrdered
    <3>1. \A i, j \in DOMAIN tracker : i < j => tracker[i].left < tracker[j].left
      BY <1>1 DEF SimRuns, Scheduled
    <3>2. ASSUME NEW i \in DOMAIN tracker
          PROVE  tracker[i].left \in 0 .. options.migration_delay
      <4>1. tracker[i].left \in Soonest .. Latest
        BY <1>1 DEF SimRuns, Scheduled
      <4> QED
        BY <2>1, <4>1 DEF Soonest, Latest
    <3> QED
      BY <3>1, <3>2 DEF TrackerOrdered
  <2>5. FailsOnlyWithLongDelays
    BY <1>1 DEF SimRuns, FailsOnlyWithLongDelays
  <2> QED
    BY <2>1, <2>2, <2>3, <2>4, <2>5 DEF SimSound, NoAssertionFails
<1>2. ASSUME SimStopped
      PROVE  SimSound
  <2>1. Tracked = {} /\ Inflight = {} /\ DOMAIN tracker = {}
    BY <1>2, LruBlocks DEF SimStopped, Tracked, ToSet
  <2> QED
    BY <1>2, <2>1 DEF SimStopped, SimSound, TrackerMatchesPolicy, TrackerOrdered,
                      FailsOnlyWithLongDelays
<1>3. SimInv => SimSound
  BY <1>1, <1>2 DEF SimInv
<1> QED
  BY <1>3, SimInitInv, SimNextInv, PTL DEF SimSpec
=============================================================================
