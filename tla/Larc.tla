-------------------------------- MODULE Larc -------------------------------
(***************************************************************************)
(* The LARC policy (algs/larc/larc_policy.c): an LRU queue of cached       *)
(* blocks, and a queue of "ghosts", blocks that missed while the cache was *)
(* full.  A miss is admitted to a full cache only if it is a ghost; the    *)
(* number of ghosts that are kept adapts to the hits and misses.           *)
(*                                                                         *)
(* A ghost is allocated, hashed and queued at once, and nothing depends on *)
(* which entry of the meta pool it is, so larc_g is a queue of blocks.     *)
(***************************************************************************)
EXTENDS Meta

CONSTANTS
  GhostDivisor,  \* g_size is kept at least one such part from 0 and MetaSize: 10
  Writes         \* the kinds of request: TRUE for a write

ASSUME LarcAssumption ==
  /\ MetaSize \in Nat \ {0}
  /\ GhostDivisor \in Nat /\ GhostDivisor >= 2
  /\ Writes \subseteq BOOLEAN

VARIABLES
  pool,      \* cache pool and hash table
  larc_q,    \* resident entries, least recently used first
  larc_g,    \* the ghosts, oldest first
  g_size,    \* the number of ghosts to keep
  stats,     \* policy_stats
  result,    \* what the last call returned
  crashed    \* a LOG_ASSERT has failed, or the program faulted

larcVars == <<pool, larc_q, larc_g, g_size, stats, result, crashed>>

Lookup(o) == hash_lookup(pool, o)
Cached == {pool.oblock[c] : c \in pool.ht}
Inflight == {pool.oblock[c] : c \in pool.migrating}
Ghosts == ToSet(larc_g)

min_g_size == MetaSize \div GhostDivisor
max_g_size == ((GhostDivisor - 1) * MetaSize) \div GhostDivisor

LarcInit ==
  /\ pool = epool_init
  /\ larc_q = <<>>
  /\ larc_g = <<>>
  /\ g_size = min_g_size
  /\ stats = stats_init
  /\ result = NoResult
  /\ crashed = FALSE
  /\ loading = TRUE

LogFatal ==
  /\ crashed' = TRUE
  /\ UNCHANGED <<pool, larc_q, larc_g, g_size, stats, result>>

(***************************************************************************)
(* The transaction.                                                        *)
(***************************************************************************)

\* Fault: the upper bound is forgotten.
larc_increase_unbounded == g_size + (MetaSize \div g_size)

larc_increase_g_size == Min({max_g_size, g_size + (MetaSize \div g_size)})

larc_decrease_g_size ==
  LET tmp == MetaSize \div (MetaSize - g_size)
  IN  IF tmp < g_size THEN Max({min_g_size, g_size - tmp}) ELSE min_g_size

\* Fault: a full cache admits every miss while there is something to evict.
larc_transaction_set_eager(o) ==
  LET c_hit == o \in Cached
      g_hit == ~c_hit /\ o \in Ghosts
      size  == IF c_hit THEN larc_decrease_g_size ELSE larc_increase_g_size
      dest  == IF c_hit \/ g_hit \/ Len(larc_q) > 0 THEN "Q" ELSE "G"
  IN  [ c_hit   |-> c_hit, g_hit |-> g_hit, g_size |-> size, dest |-> dest,
        c_evict |-> ~c_hit /\ dest = "Q" /\ cache_is_full(pool),
        g_evict |-> dest = "G" /\ Len(larc_g) + 1 > size ]

\* Fault: a ghost evicts even if there is free space.
larc_transaction_set_evicts(o) ==
  LET c_hit == o \in Cached
      g_hit == ~c_hit /\ o \in Ghosts
      size  == IF c_hit THEN larc_decrease_g_size ELSE larc_increase_g_size
      dest  == IF c_hit \/ g_hit \/ ~cache_is_full(pool) THEN "Q" ELSE "G"
  IN  [ c_hit   |-> c_hit, g_hit |-> g_hit, g_size |-> size, dest |-> dest,
        c_evict |-> g_hit,
        g_evict |-> dest = "G" /\ Len(larc_g) + 1 > size ]

larc_transaction_set(o) ==
  LET c_hit == o \in Cached
      g_hit == ~c_hit /\ o \in Ghosts
      size  == IF c_hit THEN larc_decrease_g_size ELSE larc_increase_g_size
      dest  == IF c_hit \/ g_hit \/ ~cache_is_full(pool) THEN "Q" ELSE "G"
  IN  [ c_hit   |-> c_hit, g_hit |-> g_hit, g_size |-> size, dest |-> dest,
        c_evict |-> g_hit /\ cache_is_full(pool),
        g_evict |-> dest = "G" /\ Len(larc_g) + 1 > size ]

larc_transaction_is_legal(lt) == lt.c_evict => Len(larc_q) > 0

\* What a request for o is announced to do: a hit, and a miss that finds free
\* space and no ghost, are both announced as FILTER.
larc_next_victim_api(o) ==
  LET lt    == larc_transaction_set(o)
      legal == larc_transaction_is_legal(lt)
  IN  CASE ~legal -> [op |-> "FAIL", victim |-> Null]
        [] legal /\ lt.c_evict -> [op |-> "REPLACE", victim |-> Head(larc_q)]
        [] legal /\ ~lt.c_evict /\ lt.g_hit -> [op |-> "NEW", victim |-> Null]
        [] OTHER -> [op |-> "FILTER", victim |-> Null]

(***************************************************************************)
(* The commit.                                                             *)
(***************************************************************************)

\* A hit: the entry moves to the MRU end, unless it is migrating.
larc_commit_hit(lt, o, write) ==
  LET e == Lookup(o)
  IN  /\ g_size' = lt.g_size
      /\ pool' = mark_dirty(pool, e, write)
      /\ larc_q' = IF e \in pool.migrating THEN larc_q
                   ELSE queue_push(queue_remove(larc_q, e), e)
      /\ stats' = inc(stats, {"hits", "ios"})
      /\ result' = [OpOnly("HIT", o) EXCEPT !.cblock = e]
      /\ UNCHANGED <<larc_g, crashed>>

\* The ghosts once the admitted block is no longer one of them.
larc_leave_ghosts(lt, o) == IF lt.g_hit THEN queue_remove(larc_g, o) ELSE larc_g

\* The block gets an entry, that of the victim if there is one.
larc_commit_admit(lt, o, write) ==
  LET v       == Head(larc_q)
      evicted == IF lt.c_evict THEN cache_nucleus_remove(pool, v) ELSE pool
      e       == alloc_entry(evicted)
  IN  IF e = Null
        THEN LogFatal
        ELSE /\ g_size' = lt.g_size
             /\ pool' = mark_dirty(
                          migrating_entry(alloc_pool_entry(evicted, e, o), e),
                          e, write)
             /\ larc_q' = IF lt.c_evict THEN Tail(larc_q) ELSE larc_q
             /\ larc_g' = larc_leave_ghosts(lt, o)
             /\ stats' = inc(stats, {"misses", "ios"}
                                      \cup IF lt.c_evict THEN {"demotions"} ELSE {})
             /\ result' =
                  [ op             |-> IF lt.c_evict THEN "REPLACE" ELSE "NEW",
                    oblock         |-> o,
                    cblock         |-> e,
                    old_oblock     |-> IF lt.c_evict THEN pool.oblock[v] ELSE Null,
                    dirty_eviction |-> lt.c_evict /\ v \in pool.dirty ]
             /\ UNCHANGED crashed

\* The block becomes a ghost; only then does the oldest ghost make room for it.
larc_commit_filter(lt, o) ==
  IF Len(larc_g) >= MetaSize
    THEN LogFatal
    ELSE /\ g_size' = lt.g_size
         /\ larc_g' = IF lt.g_evict THEN Tail(queue_push(larc_g, o))
                      ELSE queue_push(larc_g, o)
         /\ stats' = inc(stats, {"filters", "ios"})
         /\ result' = OpOnly("FILTER", o)
         /\ UNCHANGED <<pool, larc_q, crashed>>

\* The adaptation to a miss divides by g_size, which is 0 if the meta pool has
\* fewer than GhostDivisor entries.
larc_map_api(o, write) ==
  IF o \notin Cached /\ g_size = 0
    THEN LogFatal
    ELSE LET lt == larc_transaction_set(o)
         IN  \/ /\ larc_transaction_is_legal(lt)
                /\ lt.c_hit
                /\ larc_commit_hit(lt, o, write)
             \/ /\ larc_transaction_is_legal(lt)
                /\ ~lt.c_hit /\ lt.dest = "Q"
                /\ larc_commit_admit(lt, o, write)
             \/ /\ larc_transaction_is_legal(lt)
                /\ lt.dest = "G"
                /\ larc_commit_filter(lt, o)
             \/ /\ ~larc_transaction_is_legal(lt)
                /\ result' = OpOnly("FAIL", o)
                /\ UNCHANGED <<pool, larc_q, larc_g, g_size, stats, crashed>>

(***************************************************************************)
(* The other calls.                                                        *)
(***************************************************************************)

\* Removes the entry of o, cached or ghost; one in flight is in no queue and is
\* not counted as a demotion.  remove_to_history is ignored.
larc_remove_api(o) ==
  LET e == Lookup(o)
  IN  /\ IF o \in Cached
           THEN /\ pool' = cache_nucleus_remove(pool, e)
                /\ larc_q' = IF e \in pool.migrating THEN larc_q
                             ELSE queue_remove(larc_q, e)
                /\ stats' = IF e \in pool.migrating THEN stats
                            ELSE inc(stats, {"demotions"})
                /\ UNCHANGED larc_g
           ELSE /\ larc_g' = queue_remove(larc_g, o)
                /\ UNCHANGED <<pool, larc_q, stats>>
      /\ result' = NoResult
      /\ UNCHANGED <<g_size, crashed>>

larc_insert_api(o, c) ==
  IF c \in pool.allocated
    THEN LogFatal
    ELSE /\ pool' = alloc_pool_entry(pool, c, o)
         /\ larc_q' = queue_push(larc_q, c)
         /\ result' = NoResult
         /\ UNCHANGED <<larc_g, g_size, stats, crashed>>

larc_migrated(e) == queue_push(larc_q, e)

larc_migrated_api(o) ==
  LET e == Lookup(o)
  IN  IF migrated_entry_asserts(pool, e)
        THEN /\ pool' = migrated_entry(pool, e)
             /\ larc_q' = larc_migrated(e)
             /\ stats' = inc(stats, {"promotions"})
             /\ result' = NoResult
             /\ UNCHANGED <<larc_g, g_size, crashed>>
        ELSE LogFatal

larc_remap(o, n) ==
  /\ pool' = default_remap(pool, o, n)
  /\ result' = NoResult
  /\ UNCHANGED <<larc_q, larc_g, g_size, stats, crashed>>

(***************************************************************************)
(* The callers.  A removed block is one that the policy knows; before a    *)
(* block is renamed the new name is removed (dmcache_base.h:318).          *)
(***************************************************************************)
LarcLoad(o, c) ==
  /\ loading /\ ~crashed
  /\ o \notin Cached /\ c \notin pool.allocated
  /\ larc_insert_api(o, c)
  /\ UNCHANGED loading

LarcMap(o, write) ==
  /\ ~crashed
  /\ larc_map_api(o, write)
  /\ loading' = FALSE

LarcRemove(o) ==
  /\ ~crashed
  /\ o \in Cached \cup Ghosts
  /\ larc_remove_api(o)
  /\ loading' = FALSE

LarcMigrated(o) ==
  /\ ~crashed
  /\ o \in Inflight
  /\ larc_migrated_api(o)
  /\ loading' = FALSE

LarcRemap(o, n) ==
  /\ ~crashed
  /\ o \in Cached /\ n \notin Cached \cup Ghosts
  /\ larc_remap(o, n)
  /\ loading' = FALSE

LarcNext ==
  \/ \E o \in Oblocks, c \in Cblocks : LarcLoad(o, c)
  \/ \E o \in Oblocks, write \in Writes : LarcMap(o, write)
  \/ \E o \in Oblocks : LarcRemove(o)
  \/ \E o \in Oblocks : LarcMigrated(o)
  \/ \E o, n \in Oblocks : LarcRemap(o, n)

LarcSpec == LarcInit /\ [][LarcNext]_<<larcVars, loading>>

-----------------------------------------------------------------------------
(***************************************************************************)
(* Correctness.                                                            *)
(***************************************************************************)

\* The type of every variable.
LarcTypeOK ==
  /\ pool \in Pools
  /\ larc_q \in Seq(Cblocks)
  /\ larc_g \in Seq(Oblocks)
  /\ g_size \in Nat
  /\ stats \in Stats
  /\ result \in Results \cup {NoResult}
  /\ crashed \in BOOLEAN
  /\ loading \in BOOLEAN

\* Every cached block is in flight or can be evicted, exactly once, and no block
\* is both cached and a ghost: both pools share one hash table, and a second
\* entry of a block would hide the first (larc_policy.c:171).
LarcEntriesExact ==
  /\ IsInjective(larc_q) /\ IsInjective(larc_g)
  /\ pool.ht = pool.allocated
  /\ ToSet(larc_q) = pool.allocated \ pool.migrating
  /\ \A c, d \in pool.ht : pool.oblock[c] = pool.oblock[d] => c = d
  /\ Cached \cap Ghosts = {}

\* g_size stays strictly between 0, by which a miss divides, and the size of the
\* meta pool, from which a new ghost is allocated before an old one is freed
\* (larc_policy.c:40,48,202); the ghosts may outnumber g_size, which shrinks by
\* hits, but never its upper bound.  The meta pool must have GhostDivisor
\* entries: the program faults on its first miss if it has fewer.
LarcGhostsFit ==
  MetaSize >= GhostDivisor =>
    /\ ~crashed
    /\ g_size \in min_g_size .. max_g_size
    /\ Len(larc_g) <= max_g_size

\* LARC does what every admission policy promises; in particular it fails only
\* when every cache block is in flight.
Policy == INSTANCE CachePolicy
            WITH cached     <- Cached,
                 inflight   <- Inflight,
                 answer     <- IF result.op = "NONE" THEN <<"NONE", Null>>
                               ELSE <<result.op, result.old_oblock>>,
                 MayFilter  <- TRUE,
                 FailsEarly <- FALSE

LarcImplementsPolicy == Policy!PolicySpec

\* The two lists of LARC, as each of these parts says.
LarcSound == LarcTypeOK /\ LarcEntriesExact /\ LarcGhostsFit

\* A full cache admits a block only on a request that finds it among the ghosts,
\* and it then is one no longer.  And what a policy around LARC relies on: a
\* request is announced to fail exactly when it does, and to evict exactly the
\* block that it evicts (the other announcements are not what policy_map then
\* answers, larc_policy.c:304).
LarcAdmitsOnlyGhosts ==
  [][result' # NoResult /\ ~crashed' =>
       LET announced == larc_next_victim_api(result'.oblock)
       IN  /\ \A op \in {"FAIL", "REPLACE"} : result'.op = op <=> announced.op = op
           /\ result'.op = "REPLACE" =>
                /\ result'.oblock \in ToSet(larc_g) \ ToSet(larc_g')
                /\ result'.old_oblock = pool.oblock[announced.victim]]_larcVars
============================================================================
