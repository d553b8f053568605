-------------------------------- MODULE Arc --------------------------------
(***************************************************************************)
(* The ARC policy (algs/arc/arc_policy.c).  Cached blocks are in T1 (seen  *)
(* once) or T2 (seen again); blocks evicted from them are remembered in    *)
(* the history lists B1 and B2; the target size p of T1 moves with the     *)
(* hits in the history.  As in every policy a miss only reserves a cache   *)
(* block: until it has migrated, an entry counts in the length of its list *)
(* but is in no queue.                                                     *)
(*                                                                         *)
(* T1 and T2 are queues of cache blocks.  A history entry is allocated,    *)
(* hashed and queued at once, and nothing depends on which entry of the    *)
(* meta pool it is, so B1 and B2 are queues of origin blocks.              *)
(***************************************************************************)
EXTENDS Nucleus

CONSTANTS
  MetaSize,   \* entries of the meta pool; the cache size, unless -m says otherwise
  Callers,    \* the kinds of caller: the values of remove_to_history each removes with
  Writes      \* the kinds of request: TRUE for a write

ASSUME ArcAssumption ==
  MetaSize \in Nat /\ Callers \subseteq SUBSET BOOLEAN /\ Writes \subseteq BOOLEAN

VARIABLES
  pool,      \* cache pool and hash table
  loc,       \* the list that each cache entry counts in
  arc_q,     \* the four queues, least recently used first
  length,    \* the four lengths, entries in flight included
  p,         \* target length of T1
  stats,     \* policy_stats
  result,    \* what the last call returned
  crashed,   \* a LOG_ASSERT has failed, or a pointer faulted
  loading,   \* the caller is still loading the mappings of an earlier session
  removals   \* the values of remove_to_history that this caller uses

arcVars == <<pool, loc, arc_q, length, p, stats, result, crashed>>

Resident == {"T1", "T2"}
History  == {"B1", "B2"}
Lists    == Resident \cup History
None     == "ARC_NULL"

Lookup(o) == hash_lookup(pool, o)
Cached == {pool.oblock[c] : c \in pool.ht}
Inflight == {pool.oblock[c] : c \in pool.migrating}
Remembered == ToSet(arc_q["B1"]) \cup ToSet(arc_q["B2"])

\* The list of block o, or None.
Location(o) ==
  CASE Lookup(o) # Null -> loc[Lookup(o)]
    [] Lookup(o) = Null /\ o \in ToSet(arc_q["B1"]) -> "B1"
    [] Lookup(o) = Null /\ o \in ToSet(arc_q["B2"]) -> "B2"
    [] OTHER -> None

ArcInit ==
  /\ pool = epool_init
  /\ loc = [c \in Cblocks |-> None]
  /\ arc_q = [l \in Lists |-> <<>>]
  /\ length = [l \in Lists |-> 0]
  /\ p = 0
  /\ stats = stats_init
  /\ result = NoResult
  /\ crashed = FALSE
  /\ loading = TRUE
  /\ removals \in Callers

LogFatal ==
  /\ crashed' = TRUE
  /\ UNCHANGED <<pool, loc, arc_q, length, p, stats, result>>

\* Changes of one list; None stands for no list.
AddTo(len, l)     == IF l = None THEN len ELSE [len EXCEPT ![l] = @ + 1]
TakeFrom(len, l)  == IF l = None THEN len ELSE [len EXCEPT ![l] = @ - 1]
Push(qs, l, x)    == IF l = None THEN qs ELSE [qs EXCEPT ![l] = queue_push(@, x)]
Drop(qs, l, x)    == IF l = None THEN qs ELSE [qs EXCEPT ![l] = queue_remove(@, x)]

meta_is_full(qs) == Len(qs["B1"]) + Len(qs["B2"]) >= MetaSize

(***************************************************************************)
(* The transaction.                                                        *)
(***************************************************************************)

\* The list that REPLACE evicts from, for a block in list l and target np.
arc_replace(l, np) ==
  IF /\ length["T1"] >= 1
     /\ (l = "B2" /\ length["T1"] = np) \/ length["T1"] > np
    THEN "T1"
    ELSE "T2"

\* The target after a hit in the history list l.
arc_adapt(l) ==
  IF l = "B1"
    THEN Min({CacheSize, p + Max({length["B2"] \div length["B1"], 1})})
    ELSE Max({p - Max({length["B1"] \div length["B2"], 1}), 0})

\* Faults: the history never makes room; the other one evicts one block too early.
arc_miss_no_room ==
  LET L1 == length["T1"] + length["B1"]
      L2 == length["T2"] + length["B2"]
      at == [p |-> p, current_loc |-> None, dest |-> "T1", cache_evict |-> None,
             remember |-> FALSE, meta_evict |-> None]
      replaced == [at EXCEPT !.cache_evict = arc_replace(None, p), !.remember = TRUE]
  IN  CASE L1 = CacheSize /\ length["T1"] >= CacheSize -> [at EXCEPT !.cache_evict = "T1"]
        [] L1 + L2 >= CacheSize /\ length["T1"] < CacheSize -> replaced
        [] OTHER -> at

arc_miss_early ==
  IF \E l \in Resident : arc_q[l] # <<>>
    THEN [p |-> p, current_loc |-> None, dest |-> "T1", remember |-> FALSE,
          cache_evict |-> CHOOSE l \in Resident : arc_q[l] # <<>>, meta_evict |-> None]
    ELSE [p |-> p, current_loc |-> None, dest |-> "T1", cache_evict |-> None,
          remember |-> FALSE, meta_evict |-> None]

\* For a block that the policy does not know: the list to evict from, whether the
\* victim is remembered, and the history list that has to make room.
arc_miss ==
  LET L1 == length["T1"] + length["B1"]
      L2 == length["T2"] + length["B2"]
      at == [p |-> p, current_loc |-> None, dest |-> "T1", cache_evict |-> None,
             remember |-> FALSE, meta_evict |-> None]
      replaced == [at EXCEPT !.cache_evict = arc_replace(None, p), !.remember = TRUE]
  IN  CASE L1 = CacheSize /\ length["T1"] < CacheSize ->
             [replaced EXCEPT !.meta_evict = "B1"]
        [] L1 = CacheSize /\ length["T1"] >= CacheSize ->
             [at EXCEPT !.cache_evict = "T1"]
        [] L1 < CacheSize /\ L1 + L2 >= CacheSize ->
             [replaced EXCEPT !.meta_evict = IF L1 + L2 = 2 * CacheSize THEN "B2" ELSE None]
        [] OTHER -> at

arc_transaction_set(o) ==
  LET l == Location(o)
  IN  CASE l \in Resident ->
             [p |-> p, current_loc |-> l, dest |-> "T2", cache_evict |-> None,
              remember |-> FALSE, meta_evict |-> None]
        [] l \in History ->
             [p |-> arc_adapt(l), current_loc |-> l, dest |-> "T2",
              cache_evict |-> arc_replace(l, arc_adapt(l)), remember |-> TRUE,
              meta_evict |-> None]
        [] l = None -> arc_miss

arc_transaction_is_legal(at) ==
  at.cache_evict # None => Len(arc_q[at.cache_evict]) > 0

\* Fault: the victim is announced for the target before the history hit.
arc_next_victim_api_old_p(o) ==
  LET at == [arc_transaction_set(o) EXCEPT
               !.cache_evict = IF @ = None THEN None ELSE arc_replace(Location(o), p)]
      legal == arc_transaction_is_legal(at)
  IN  CASE ~legal -> [op |-> "FAIL", victim |-> Null]
        [] legal /\ at.current_loc \in Resident -> [op |-> "HIT", victim |-> Null]
        [] legal /\ at.current_loc \notin Resident /\ at.cache_evict # None ->
             [op |-> "REPLACE", victim |-> Head(arc_q[at.cache_evict])]
        [] OTHER -> [op |-> "NEW", victim |-> Null]

\* The operation that a request for o would cause, and the entry it would evict.
arc_next_victim_api(o) ==
  LET at == arc_transaction_set(o)
      legal == arc_transaction_is_legal(at)
  IN  CASE ~legal -> [op |-> "FAIL", victim |-> Null]
        [] legal /\ at.current_loc \in Resident -> [op |-> "HIT", victim |-> Null]
        [] legal /\ at.current_loc \notin Resident /\ at.cache_evict # None ->
             [op |-> "REPLACE", victim |-> Head(arc_q[at.cache_evict])]
        [] OTHER -> [op |-> "NEW", victim |-> Null]

(***************************************************************************)
(* The commit.                                                             *)
(***************************************************************************)

\* The queues after a hit on entry e.
arc_hit(e, dest) ==
  IF e \in pool.migrating THEN arc_q ELSE Push(Drop(arc_q, loc[e], e), dest, e)

\* A hit moves the entry to T2; one in flight only changes the list it counts in.
arc_commit_hit(at, o, write) ==
  LET e == Lookup(o)
  IN  /\ pool' = mark_dirty(pool, e, write)
      /\ length' = AddTo(TakeFrom(length, loc[e]), at.dest)
      /\ loc' = [loc EXCEPT ![e] = at.dest]
      /\ arc_q' = arc_hit(e, at.dest)
      /\ stats' = inc(stats, {"hits", "ios"})
      /\ result' = [OpOnly("HIT", o) EXCEPT !.cblock = e]
      /\ UNCHANGED <<p, crashed>>

\* The history list that gives up an entry: the requested block, or its oldest.
arc_forget(at) == IF at.current_loc \in History THEN at.current_loc ELSE at.meta_evict

\* A miss: the block leaves the history, or the history makes room; a victim is
\* evicted and remembered; and the block gets an entry, out of every queue.
arc_commit_miss(at, o, write) ==
  LET from     == arc_forget(at)
      gone     == IF at.current_loc \in History THEN o ELSE Head(arc_q[from])
      forgot_q == IF from = None THEN arc_q ELSE Drop(arc_q, from, gone)
      evict    == at.cache_evict # None
      v        == Head(arc_q[at.cache_evict])
      popped_q == IF evict THEN Drop(forgot_q, at.cache_evict, v) ELSE forgot_q
      evicted  == IF evict THEN cache_nucleus_remove(pool, v) ELSE pool
      memory   == CASE evict /\ at.remember /\ at.cache_evict = "T1" -> "B1"
                    [] evict /\ at.remember /\ at.cache_evict = "T2" -> "B2"
                    [] OTHER -> None
      e        == alloc_entry(evicted)
  IN  IF \/ from # None /\ arc_q[from] = <<>>
         \/ memory # None /\ meta_is_full(popped_q)
         \/ e = Null
        THEN LogFatal
        ELSE /\ p' = at.p
             /\ pool' = mark_dirty(
                          migrating_entry(alloc_pool_entry(evicted, e, o), e),
                          e, write)
             /\ loc' = [c \in Cblocks |-> CASE c = e -> at.dest
                                            [] c # e /\ evict /\ c = v -> None
                                            [] OTHER -> loc[c]]
             /\ arc_q' = IF memory = None THEN popped_q
                         ELSE Push(popped_q, memory, pool.oblock[v])
             /\ length' = AddTo(AddTo(TakeFrom(TakeFrom(length, from), at.cache_evict),
                                      memory), at.dest)
             /\ stats' = inc(stats, {"misses", "ios"}
                                      \cup IF evict THEN {"demotions"} ELSE {})
             /\ result' =
                  [ op             |-> IF evict THEN "REPLACE" ELSE "NEW",
                    oblock         |-> o,
                    cblock         |-> e,
                    old_oblock     |-> IF evict THEN pool.oblock[v] ELSE Null,
                    dirty_eviction |-> evict /\ v \in pool.dirty ]
             /\ UNCHANGED crashed

arc_map_api(o, write) ==
  LET at == arc_transaction_set(o)
  IN  \/ /\ arc_transaction_is_legal(at)
         /\ at.current_loc \in Resident
         /\ arc_commit_hit(at, o, write)
      \/ /\ arc_transaction_is_legal(at)
         /\ at.current_loc \notin Resident
         /\ arc_commit_miss(at, o, write)
      \/ /\ ~arc_transaction_is_legal(at)
         /\ result' = OpOnly("FAIL", o)
         /\ UNCHANGED <<pool, loc, arc_q, length, p, stats, crashed>>

(***************************************************************************)
(* The other calls.                                                        *)
(***************************************************************************)

\* Fault: the queue is left alone.
arc_remove_entry_queued(e) == arc_q

\* The queues without entry e of the cache, which is in none while it migrates.
arc_remove_entry(e) == IF e \in pool.migrating THEN arc_q ELSE Drop(arc_q, loc[e], e)

\* A cached block may move to the history list that goes with its list, which
\* makes room for it if the meta pool is full.
arc_remove_cached(o, remove_to_history) ==
  LET e        == Lookup(o)
      left_q   == arc_remove_entry(e)
      dest     == CASE remove_to_history /\ loc[e] = "T1" -> "B1"
                    [] remove_to_history /\ loc[e] # "T1" -> "B2"
                    [] OTHER -> None
      full     == dest # None /\ meta_is_full(left_q)
      room_q   == IF full THEN Drop(left_q, dest, Head(left_q[dest])) ELSE left_q
      room_len == TakeFrom(length, loc[e])
  IN  IF full /\ left_q[dest] = <<>>
        THEN LogFatal
        ELSE /\ pool' = cache_nucleus_remove(pool, e)
             /\ loc' = [loc EXCEPT ![e] = None]
             /\ arc_q' = Push(room_q, dest, o)
             /\ length' = AddTo(IF full THEN TakeFrom(room_len, dest) ELSE room_len, dest)
             /\ stats' = IF e \in pool.migrating THEN stats ELSE inc(stats, {"demotions"})
             /\ result' = NoResult
             /\ UNCHANGED <<p, crashed>>

arc_remove_history(o) ==
  /\ arc_q' = Drop(arc_q, Location(o), o)
  /\ length' = TakeFrom(length, Location(o))
  /\ result' = NoResult
  /\ UNCHANGED <<pool, loc, p, stats, crashed>>

arc_remove_api(o, remove_to_history) ==
  \/ o \in Cached /\ arc_remove_cached(o, remove_to_history)
  \/ o \notin Cached /\ arc_remove_history(o)

arc_insert_api(o, c) ==
  IF c \in pool.allocated
    THEN LogFatal
    ELSE /\ pool' = alloc_pool_entry(pool, c, o)
         /\ loc' = [loc EXCEPT ![c] = "T1"]
         /\ length' = AddTo(length, "T1")
         /\ arc_q' = Push(arc_q, "T1", c)
         /\ result' = NoResult
         /\ UNCHANGED <<p, stats, crashed>>

arc_migrated_api(o) ==
  LET e == Lookup(o)
  IN  IF migrated_entry_asserts(pool, e) /\ loc[e] # None
        THEN /\ pool' = migrated_entry(pool, e)
             /\ arc_q' = Push(arc_q, loc[e], e)
             /\ stats' = inc(stats, {"promotions"})
             /\ result' = NoResult
             /\ UNCHANGED <<loc, length, p, crashed>>
        ELSE LogFatal

arc_remap(o, n) ==
  /\ pool' = default_remap(pool, o, n)
  /\ result' = NoResult
  /\ UNCHANGED <<loc, arc_q, length, p, stats, crashed>>

(***************************************************************************)
(* The callers.  A removed block is one that the policy knows; before a    *)
(* block is renamed the new name is removed (dmcache_base.h:318).          *)
(***************************************************************************)
ArcLoad(o, c) ==
  /\ loading /\ ~crashed
  /\ o \notin Cached /\ c \notin pool.allocated
  /\ arc_insert_api(o, c)
  /\ UNCHANGED <<loading, removals>>

ArcMap(o, write) ==
  /\ ~crashed
  /\ arc_map_api(o, write)
  /\ loading' = FALSE
  /\ UNCHANGED removals

ArcRemove(o, remove_to_history) ==
  /\ remove_to_history \in removals /\ ~crashed
  /\ o \in Cached \cup Remembered
  /\ arc_remove_api(o, remove_to_history)
  /\ loading' = FALSE
  /\ UNCHANGED removals

ArcMigrated(o) ==
  /\ ~crashed
  /\ o \in Inflight
  /\ arc_migrated_api(o)
  /\ loading' = FALSE
  /\ UNCHANGED removals

ArcRemap(o, n) ==
  /\ ~crashed
  /\ o \in Cached /\ n \notin Cached \cup Remembered
  /\ arc_remap(o, n)
  /\ loading' = FALSE
  /\ UNCHANGED removals

ArcNext ==
  \/ \E o \in Oblocks, c \in Cblocks : ArcLoad(o, c)
  \/ \E o \in Oblocks, write \in Writes : ArcMap(o, write)
  \/ \E o \in Oblocks, remove_to_history \in BOOLEAN : ArcRemove(o, remove_to_history)
  \/ \E o \in Oblocks : ArcMigrated(o)
  \/ \E o, n \in Oblocks : ArcRemap(o, n)

ArcSpec == ArcInit /\ [][ArcNext]_<<arcVars, loading, removals>>

-----------------------------------------------------------------------------
(***************************************************************************)
(* Correctness.                                                            *)
(***************************************************************************)

\* The type of every variable; in particular no length is decremented below 0
\* (they are unsigned) and the target stays between 0 and the cache size.
ArcTypeOK ==
  /\ pool \in Pools
  /\ loc \in [Cblocks -> Resident \cup {None}]
  /\ \A l \in Resident : arc_q[l] \in Seq(Cblocks)
  /\ \A l \in History : arc_q[l] \in Seq(Oblocks)
  /\ length \in [Lists -> Nat]
  /\ p \in 0 .. CacheSize
  /\ stats \in Stats
  /\ result \in Results \cup {NoResult}
  /\ crashed \in BOOLEAN
  /\ loading \in BOOLEAN
  /\ removals \in Callers

\* As long as nothing is removed, and the meta pool is as large as the cache (it is,
\* unless -m says otherwise), no allocation finds its pool empty, no empty list is
\* popped and no LOG_ASSERT fails: ARC never calls meta_is_full in policy_map, so this
\* rests on its bounds on the lengths of the lists (arc_policy.c:188), which a removal
\* breaks.
ArcNoAssertionFails == removals = {} /\ MetaSize >= CacheSize => ~crashed

\* The lengths that decide on evictions count exactly the entries whose loc says
\* so, in flight or not, and the queues hold exactly those that may be evicted
\* (loc, length and arc_q are updated by five different functions).
ArcListsExact ==
  /\ \A l \in Lists : IsInjective(arc_q[l])
  /\ \A l \in Resident :
       /\ ToSet(arc_q[l]) = {c \in pool.allocated \ pool.migrating : loc[c] = l}
       /\ length[l] = Cardinality({c \in pool.allocated : loc[c] = l})
  /\ \A l \in History : length[l] = Len(arc_q[l])
  /\ \A c \in Cblocks : loc[c] = None <=> c \notin pool.allocated

\* A block is known once: cached at one cache block, or remembered in one history
\* list, never both (the hash table is shared by both pools and would find either).
ArcKnownOnce ==
  /\ \A c, d \in pool.ht : pool.oblock[c] = pool.oblock[d] => c = d
  /\ Cached \cap Remembered = {}
  /\ ToSet(arc_q["B1"]) \cap ToSet(arc_q["B2"]) = {}

\* The bounds of the ARC paper that the case distinction of arc_transaction_set
\* takes for granted, with entries in flight counted in the lengths.
ArcBounds ==
  removals = {} =>
    /\ length["T1"] + length["B1"] <= CacheSize
    /\ length["T1"] + length["T2"] + length["B1"] + length["B2"] <= 2 * CacheSize

\* ARC does what every policy promises, as long as nothing is removed: it evicts
\* only from a full cache and never a block in flight, and it fails only while a
\* block is in flight (it looks in one of T1 and T2 only).
Policy == INSTANCE CachePolicy
            WITH cached     <- Cached,
                 inflight   <- Inflight,
                 answer     <- IF result.op = "NONE" THEN <<"NONE", Null>>
                               ELSE <<result.op, result.old_oblock>>,
                 MayFilter  <- FALSE,
                 FailsEarly <- TRUE

ArcImplementsPolicy ==
  /\ Policy!PolicyInit
  /\ [][removals = {} => Policy!PolicyNext \/ UNCHANGED Policy!policyVars]_arcVars

\* policy_next_victim announces what policy_map then does, also when the request
\* is a hit in the history that moves the target p and so the list to evict from.
ArcVictimAsAnnounced ==
  [][removals = {} /\ result' # NoResult /\ ~crashed' =>
       LET announced == arc_next_victim_api(result'.oblock)
       IN  /\ result'.op = announced.op
           /\ result'.op = "REPLACE" =>
                /\ result'.old_oblock = pool.oblock[announced.victim]
                /\ result'.cblock = announced.victim]_arcVars

\* The lists of ARC, as each of these parts says.
ArcSound == ArcTypeOK /\ ArcListsExact /\ ArcKnownOnce /\ ArcBounds
============================================================================
