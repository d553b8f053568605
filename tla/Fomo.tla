-------------------------------- MODULE Fomo -------------------------------
(***************************************************************************)
(* FOMO (fomo/fomo_policy.c), the admission policy the repository is named *)
(* for, around an internal policy, here LRU.  FOMO remembers the blocks    *)
(* that missed (the miss history) and counts, over a window of requests,   *)
(* how often the cache and how often the miss history were hit.  While     *)
(* misses are not being reused it filters them: a block that missed is     *)
(* only let into the cache when it is requested again.                     *)
(*                                                                         *)
(* The miss history has a pool, a hash table and a queue of its own, whose *)
(* entries are always allocated, hashed and queued together; nothing       *)
(* depends on which pool entry a block has, so mh is the queue of blocks.  *)
(***************************************************************************)
EXTENDS Lru

CONSTANTS
  PeriodDivisor,   \* a window has CacheSize / PeriodDivisor requests (100 in the code)
  HitWeight,       \* what a hit adds to a hit counter (1000 in the code)
  ReuseThreshold   \* what the miss history must exceed per request (50 in the code)

ASSUME FomoAssumption ==
  /\ PeriodDivisor \in Nat \ {0}
  /\ HitWeight \in Nat
  /\ ReuseThreshold \in Nat

VARIABLES
  state,     \* "INSERT": every miss is admitted; "FILTER": only reused ones
  mh,        \* the miss history, least recently missed first
  counter,   \* requests of the current window
  c_hits,    \* weighted cache hits of the window
  mh_hits,   \* weighted miss history hits of the window
  filters    \* statistics: requests that were filtered

windowVars == <<state, counter, c_hits, mh_hits>>
fomoVars == <<windowVars, mh, filters>>

ghost_size == CacheSize
meta_pool_size == CacheSize
period_size == Max({CacheSize \div PeriodDivisor, 1})

FomoInit ==
  /\ LruInit
  /\ state = "INSERT"
  /\ mh = <<>>
  /\ counter = 0
  /\ c_hits = 0
  /\ mh_hits = 0
  /\ filters = 0

(***************************************************************************)
(* The transaction: what the request would do to the window and the state, *)
(* and whether it would be filtered.  The request is counted first; the    *)
(* request that completes the window decides the state for itself too.     *)
(***************************************************************************)

window_ends == (counter + 1) % period_size = 0

fomo_transaction_set(o) ==
  LET c_hit  == Lookup(o) # Null
      mh_hit == o \in ToSet(mh)
      c      == c_hits + (IF c_hit THEN HitWeight ELSE 0)
      m      == mh_hits + (IF mh_hit THEN HitWeight ELSE 0)
      ends   == window_ends
      next   == IF ~ends \/ ~cache_is_full(pool) THEN state
                ELSE IF /\ state = "FILTER"
                        /\ m > ReuseThreshold * period_size
                        /\ c < m
                     THEN "INSERT"
                ELSE IF state = "INSERT" /\ c >= m THEN "FILTER"
                ELSE state
  IN  [ c_hit   |-> c_hit,
        mh_hit  |-> mh_hit,
        state   |-> next,
        counter |-> IF ends THEN 0 ELSE counter + 1,
        c_hits  |-> IF ends THEN 0 ELSE c,
        mh_hits |-> IF ends THEN 0 ELSE m,
        filter  |-> ~c_hit /\ ~mh_hit /\ next # "INSERT" ]

\* Fault: the internal policy is not asked whether it can evict.
fomo_transaction_is_legal_always(ft, o) == TRUE

fomo_transaction_is_legal(ft, o) ==
  ~ft.filter => lru_next_victim_api(o).op # "FAIL"

\* Fault: the internal policy's answer is given for a filtered request.
fomo_next_victim_unfiltered(o) == lru_next_victim_api(o)

fomo_next_victim(o) ==
  LET ft == fomo_transaction_set(o)
  IN  CASE ~fomo_transaction_is_legal(ft, o) -> [op |-> "FAIL", victim |-> Null]
        [] ft.filter                         -> [op |-> "FILTER", victim |-> Null]
        [] OTHER                             -> lru_next_victim_api(o)

(***************************************************************************)
(* The commit: the miss history of a request that is not in it makes room  *)
(* if it is full, and remembers the request.                               *)
(***************************************************************************)

mh_make_room == IF Len(mh) = ghost_size THEN Tail(mh) ELSE mh

\* Fault: an admitted block stays in the miss history whatever the state.
mh_after_keeps(ft, o) ==
  CASE ft.c_hit  -> queue_remove(mh, o)
    [] ~ft.c_hit /\ ft.mh_hit -> queue_push(queue_remove(mh, o), o)
    [] OTHER -> queue_push(mh_make_room, o)

mh_after(ft, o) ==
  CASE ft.c_hit  -> queue_remove(mh, o)
    [] ~ft.c_hit /\ ft.mh_hit /\ ft.state = "FILTER" -> queue_remove(mh, o)
    [] ~ft.c_hit /\ ft.mh_hit /\ ft.state = "INSERT" ->
         queue_push(queue_remove(mh, o), o)
    [] OTHER -> queue_push(mh_make_room, o)

\* insert_in_meta asserts that the pool of the miss history has an entry left.
insert_in_meta_asserts(ft) ==
  ~ft.c_hit /\ ~ft.mh_hit => Len(mh_make_room) < meta_pool_size

\* The internal policy never learns that a request was a write.
fomo_transaction_commit(ft, o) ==
  /\ state' = ft.state
  /\ counter' = ft.counter
  /\ c_hits' = ft.c_hits
  /\ mh_hits' = ft.mh_hits
  /\ mh' = mh_after(ft, o)
  /\ \/ /\ ft.filter
        /\ filters' = (filters + 1) % StatModulus
        /\ result' = OpOnly("FILTER", o)
        /\ UNCHANGED <<pool, lru_q, stats, crashed>>
     \/ /\ ~ft.filter
        /\ lru_map_api(o, FALSE)
        /\ UNCHANGED filters

fomo_map(o) ==
  LET ft == fomo_transaction_set(o)
  IN  \/ /\ fomo_transaction_is_legal(ft, o)
         /\ IF insert_in_meta_asserts(ft)
              THEN fomo_transaction_commit(ft, o)
              ELSE LogFatal /\ UNCHANGED fomoVars
      \/ /\ ~fomo_transaction_is_legal(ft, o)
         /\ result' = OpOnly("FAIL", o)
         /\ UNCHANGED <<pool, lru_q, stats, crashed, fomoVars>>

(***************************************************************************)
(* The other calls.                                                        *)
(***************************************************************************)
fomo_remove(o, remove_to_history) ==
  /\ mh' = IF remove_to_history THEN mh ELSE queue_remove(mh, o)
  /\ lru_remove_api(o)
  /\ UNCHANGED <<windowVars, filters>>

fomo_insert(o, c) == lru_insert_api(o, c) /\ UNCHANGED fomoVars

fomo_migrated(o) == lru_migrated_api(o) /\ UNCHANGED fomoVars

\* Fault: the new name's own entry in the miss history stays there.
fomo_remap_twice(o, n) ==
  /\ mh' = ReplaceAll(mh, o, n)
  /\ lru_remap_api(o, n)
  /\ UNCHANGED <<windowVars, filters>>

\* The new name's own entry in the miss history is dropped first.
fomo_remap(o, n) ==
  /\ mh' = ReplaceAll(queue_remove(mh, n), o, n)
  /\ lru_remap_api(o, n)
  /\ UNCHANGED <<windowVars, filters>>

(***************************************************************************)
(* The callers, under the same rules as those of LRU.                      *)
(***************************************************************************)
FomoLoad(o, c) ==
  /\ loading /\ ~crashed
  /\ o \notin Cached /\ c \notin pool.allocated
  /\ fomo_insert(o, c)
  /\ UNCHANGED loading

FomoMap(o) ==
  /\ ~crashed
  /\ fomo_map(o)
  /\ loading' = FALSE

FomoRemove(o, remove_to_history) ==
  /\ ~crashed
  /\ o \in Cached
  /\ fomo_remove(o, remove_to_history)
  /\ loading' = FALSE

FomoMigrated(o) ==
  /\ ~crashed
  /\ o \in Inflight
  /\ fomo_migrated(o)
  /\ loading' = FALSE

FomoRemap(o, n) ==
  /\ ~crashed
  /\ o \in Cached /\ n \notin Cached
  /\ fomo_remap(o, n)
  /\ loading' = FALSE

FomoNext ==
  \/ \E o \in Oblocks, c \in Cblocks : FomoLoad(o, c)
  \/ \E o \in Oblocks : FomoMap(o)
  \/ \E o \in Oblocks, remove_to_history \in BOOLEAN : FomoRemove(o, remove_to_history)
  \/ \E o \in Oblocks : FomoMigrated(o)
  \/ \E o, n \in Oblocks : FomoRemap(o, n)

allVars == <<lruVars, loading, fomoVars>>

FomoSpec == FomoInit /\ [][FomoNext]_allVars

-----------------------------------------------------------------------------
(***************************************************************************)
(* Correctness.                                                            *)
(***************************************************************************)

\* The type of every variable FOMO adds.
FomoTypeOK ==
  /\ LruTypeOK
  /\ state \in {"INSERT", "FILTER"}
  /\ mh \in Seq(Oblocks)
  /\ counter \in Nat
  /\ c_hits \in Nat
  /\ mh_hits \in Nat
  /\ filters \in 0 .. StatModulus - 1

\* The miss history holds no block twice and never more than ghost_size of
\* them, so that its pool, which has exactly as many entries, is never empty
\* when fomo_transaction_commit allocates from it.  Renaming a block to one that
\* is in the history too must not break either.
MissHistorySound == IsInjective(mh) /\ Len(mh) <= ghost_size

\* The two hit counters are reset together with the request counter, so that the
\* hit rates they are compared as never exceed one: a window has fewer than
\* period_size requests and a counter at most HitWeight for each.
WindowConsistent ==
  /\ counter < period_size
  /\ c_hits <= HitWeight * counter
  /\ mh_hits <= HitWeight * counter

\* A request that fails leaves no trace (lru_policy.c:70-99 requires it of every
\* transaction): FOMO's own window, state and miss history must not have been
\* committed when the internal policy turns out to have nothing to evict.
FailChangesNothing ==
  [][result'.op = "FAIL" =>
       UNCHANGED <<pool, lru_q, stats, fomoVars>>]_allVars

\* While FOMO filters, a block gets into the cache only on a request that finds
\* it in the miss history, and it then leaves the history, so that the next time
\* it is evicted it has to be reused once more to come back.
FilterAdmitsOnlyReused ==
  [][state' = "FILTER" /\ result'.op \in {"NEW", "REPLACE"} =>
       /\ result'.oblock \in ToSet(mh)
       /\ result'.oblock \notin ToSet(mh')]_allVars

\* fomo_next_victim announces what fomo_map does, also on the request that ends
\* a window and changes the state.
FomoVictimAsAnnounced ==
  [][result' # NoResult /\ ~crashed' =>
       LET announced == fomo_next_victim(result'.oblock)
       IN  /\ result'.op = announced.op
           /\ result'.op = "REPLACE" =>
                result'.old_oblock = pool.oblock[announced.victim]]_allVars

\* What FOMO keeps is of its type, and its two windows are sound.
FomoSound == FomoTypeOK /\ MissHistorySound /\ WindowConsistent
============================================================================
