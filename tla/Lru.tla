-------------------------------- MODULE Lru --------------------------------
(***************************************************************************)
(* The LRU policy (algs/lru/lru_policy.c), the repository's reference      *)
(* implementation of the Cache Nucleus API, used asynchronously: a miss    *)
(* only reserves a cache block, the block becomes evictable when the       *)
(* caller reports that its data has been copied (policy_migrated), and any *)
(* other call may come in between.                                         *)
(*                                                                         *)
(* A map call is a transaction: it is set up from the current state, then  *)
(* tested for legality, and only then committed.                           *)
(***************************************************************************)
EXTENDS Nucleus

VARIABLES
  pool,      \* the nucleus: cache pool and hash table
  lru_q,     \* resident entries, least recently used first; entries that are
             \* migrating are in no queue
  stats,     \* policy_stats
  result,    \* what the last call returned
  crashed,   \* a LOG_ASSERT has failed, or a pointer faulted: the program stopped
  loading    \* the caller is still loading the mappings of an earlier session

lruVars == <<pool, lru_q, stats, result, crashed>>

Lookup(o) == hash_lookup(pool, o)
Cached == {pool.oblock[c] : c \in pool.ht}
Inflight == {pool.oblock[c] : c \in pool.migrating}

LruInit ==
  /\ pool = epool_init
  /\ lru_q = <<>>
  /\ stats = stats_init
  /\ result = NoResult
  /\ crashed = FALSE
  /\ loading = TRUE

\* A failed LOG_ASSERT, or a fault: the program stops.
LogFatal ==
  /\ crashed' = TRUE
  /\ UNCHANGED <<pool, lru_q, stats, result>>

(***************************************************************************)
(* The transaction.                                                        *)
(***************************************************************************)
\* Fault: a miss evicts as soon as there is something to evict.
lru_transaction_set_eager(o) ==
  LET hit == Lookup(o) # Null
  IN  [hit |-> hit, evict |-> ~hit /\ Len(lru_q) > 0]

lru_transaction_set(o) ==
  LET hit == Lookup(o) # Null
  IN  [hit |-> hit, evict |-> ~hit /\ cache_is_full(pool)]

lru_transaction_is_legal(t) == t.evict => Len(lru_q) > 0

\* The operation that a request for o would cause, and the entry it would evict.
lru_next_victim_api(o) ==
  LET t     == lru_transaction_set(o)
      legal == lru_transaction_is_legal(t)
  IN  CASE ~legal           -> [op |-> "FAIL", victim |-> Null]
        [] legal /\ t.hit   -> [op |-> "HIT", victim |-> Null]
        [] legal /\ t.evict -> [op |-> "REPLACE", victim |-> Head(lru_q)]
        [] OTHER            -> [op |-> "NEW", victim |-> Null]

\* Fault: a hit queues an entry that is still migrating.
lru_hit_migrating(e) == queue_push(queue_remove(lru_q, e), e)

\* The queue after a hit on entry e: e moves to the MRU end, unless migrating.
lru_hit(e) ==
  IF e \in pool.migrating THEN lru_q ELSE queue_push(queue_remove(lru_q, e), e)

lru_commit_hit(o, write) ==
  LET e == Lookup(o)
  IN  /\ pool' = mark_dirty(pool, e, write)
      /\ lru_q' = lru_hit(e)
      /\ stats' = inc(stats, {"hits", "ios"})
      /\ result' = [OpOnly("HIT", o) EXCEPT !.cblock = e]
      /\ UNCHANGED crashed

\* Fault: the victim is not freed before the new entry is allocated.
lru_evict_late(t) == pool

\* The pool once the victim of the transaction, if any, has been removed.
lru_evict(t) ==
  IF t.evict THEN cache_nucleus_remove(pool, Head(lru_q)) ELSE pool

\* The evicted entry is freed before the new one is allocated, and the new one
\* is not put in the queue: its data is still to be copied.
lru_commit_miss(t, o, write) ==
  LET evicted == lru_evict(t)
      e       == alloc_entry(evicted)
      v       == Head(lru_q)
  IN  IF e = Null
        THEN LogFatal
        ELSE /\ pool' = mark_dirty(
                          migrating_entry(alloc_pool_entry(evicted, e, o), e),
                          e, write)
             /\ lru_q' = IF t.evict THEN Tail(lru_q) ELSE lru_q
             /\ stats' = inc(stats, {"misses", "ios"}
                                      \cup IF t.evict THEN {"demotions"} ELSE {})
             /\ result' =
                  [ op             |-> IF t.evict THEN "REPLACE" ELSE "NEW",
                    oblock         |-> o,
                    cblock         |-> e,
                    old_oblock     |-> IF t.evict THEN pool.oblock[v] ELSE Null,
                    dirty_eviction |-> t.evict /\ v \in pool.dirty ]
             /\ UNCHANGED crashed

lru_map_api(o, write) ==
  LET t == lru_transaction_set(o)
  IN  \/ /\ lru_transaction_is_legal(t)
         /\ t.hit
         /\ lru_commit_hit(o, write)
      \/ /\ lru_transaction_is_legal(t)
         /\ ~t.hit
         /\ lru_commit_miss(t, o, write)
      \/ /\ ~lru_transaction_is_legal(t)
         /\ result' = OpOnly("FAIL", o)
         /\ UNCHANGED <<pool, lru_q, stats, crashed>>

(***************************************************************************)
(* The other calls of the API.  They return nothing.                       *)
(***************************************************************************)

\* An entry that has not finished migrating is not counted as a demotion.
lru_remove_entry(e) ==
  /\ lru_q' = IF e \in pool.migrating THEN lru_q ELSE queue_remove(lru_q, e)
  /\ stats' = IF e \in pool.migrating THEN stats ELSE inc(stats, {"demotions"})
  /\ pool' = cache_nucleus_remove(pool, e)

lru_remove_api(o) ==
  LET e == Lookup(o)
  IN  IF e # Null /\ free_entry_asserts(pool, e)
        THEN /\ lru_remove_entry(e)
             /\ result' = NoResult
             /\ UNCHANGED crashed
        ELSE LogFatal

\* Preloads block o at a given cache block: its data is already there.
lru_insert_api(o, c) ==
  IF c \in pool.allocated
    THEN LogFatal
    ELSE /\ pool' = alloc_pool_entry(pool, c, o)
         /\ lru_q' = queue_push(lru_q, c)
         /\ result' = NoResult
         /\ UNCHANGED <<stats, crashed>>

lru_migrated_api(o) ==
  LET e == Lookup(o)
  IN  IF migrated_entry_asserts(pool, e)
        THEN /\ pool' = migrated_entry(pool, e)
             /\ lru_q' = queue_push(lru_q, e)
             /\ stats' = inc(stats, {"promotions"})
             /\ result' = NoResult
             /\ UNCHANGED crashed
        ELSE LogFatal

lru_remap_api(o, n) ==
  /\ pool' = default_remap(pool, o, n)
  /\ result' = NoResult
  /\ UNCHANGED <<lru_q, stats, crashed>>

(***************************************************************************)
(* The callers, as the API documents them: mappings are loaded before the  *)
(* first request, a removed or renamed block is cached, the new name of a  *)
(* block is not, and a migration is reported once, for a block in flight.  *)
(***************************************************************************)
LruLoad(o, c) ==
  /\ loading /\ ~crashed
  /\ o \notin Cached /\ c \notin pool.allocated
  /\ lru_insert_api(o, c)
  /\ UNCHANGED loading

LruMap(o, write) ==
  /\ ~crashed
  /\ lru_map_api(o, write)
  /\ loading' = FALSE

LruRemove(o) ==
  /\ ~crashed
  /\ o \in Cached
  /\ lru_remove_api(o)
  /\ loading' = FALSE

LruMigrated(o) ==
  /\ ~crashed
  /\ o \in Inflight
  /\ lru_migrated_api(o)
  /\ loading' = FALSE

LruRemap(o, n) ==
  /\ ~crashed
  /\ o \in Cached /\ n \notin Cached
  /\ lru_remap_api(o, n)
  /\ loading' = FALSE

LruNext ==
  \/ \E o \in Oblocks, c \in Cblocks : LruLoad(o, c)
  \/ \E o \in Oblocks, write \in BOOLEAN : LruMap(o, write)
  \/ \E o \in Oblocks : LruRemove(o)
  \/ \E o \in Oblocks : LruMigrated(o)
  \/ \E o, n \in Oblocks : LruRemap(o, n)

LruSpec == LruInit /\ [][LruNext]_<<lruVars, loading>>

-----------------------------------------------------------------------------
(***************************************************************************)
(* Correctness.                                                            *)
(***************************************************************************)

\* The type of every variable of the policy.
LruTypeOK ==
  /\ pool \in Pools
  /\ lru_q \in Seq(Cblocks)
  /\ stats \in Stats
  /\ result \in Results \cup {NoResult}
  /\ crashed \in BOOLEAN
  /\ loading \in BOOLEAN

\* No entry is lost and none is in two places: an entry is either on the free
\* list, or migrating and in no queue, or in the LRU queue, and it is there
\* once; the hash table finds exactly the allocated ones.  (The three lists are
\* kept by different functions of epool.h, hashtable.h and lru_policy.c.)
EntryInOnePlace ==
  /\ IsInjective(pool.free)
  /\ IsInjective(lru_q)
  /\ pool.ht = pool.allocated
  /\ ToSet(pool.free) = Cblocks \ pool.allocated
  /\ pool.migrating \subseteq pool.allocated
  /\ ToSet(lru_q) = pool.allocated \ pool.migrating

\* A block is cached at one cache block only: two entries of the hash table
\* never have the same oblock, whatever removals, renamings and replacements
\* came before (hash_insert does not look for an older entry).
OneEntryPerBlock ==
  \A c, d \in pool.ht : pool.oblock[c] = pool.oblock[d] => c = d

\* The counters that the pool keeps beside its lists (policy_residency returns
\* one of them) never drift from the entries they count.
PoolCountersExact ==
  /\ pool.nr_allocated = Cardinality(pool.allocated)
  /\ pool.nr_migrating = Cardinality(pool.migrating)

\* No LOG_ASSERT of the policy fails while its callers keep to the API.
NoAssertionFails == ~crashed

\* The policy does what every policy promises: in particular a victim is never
\* in flight, and a request fails only when every cache block is in flight.
Policy == INSTANCE CachePolicy
            WITH cached    <- Cached,
                 inflight  <- Inflight,
                 answer    <- IF result.op = "NONE" THEN <<"NONE", Null>>
                              ELSE <<result.op, result.old_oblock>>,
                 MayFilter <- FALSE,
                 FailsEarly <- FALSE

ImplementsPolicy == Policy!PolicySpec

\* Recency: a call changes the order in which two resident blocks would be
\* evicted only by moving the block it accesses behind the other.
Before(q, c, d) == \E i, j \in DOMAIN q : i < j /\ q[i] = c /\ q[j] = d
OnlyAccessedBlockIsOvertaken ==
  [][\A c, d \in ToSet(lru_q) \cap ToSet(lru_q') :
       Before(lru_q, c, d) /\ ~Before(lru_q', c, d) =>
         result'.op = "HIT" /\ result'.cblock = c]_lruVars

============================================================================
