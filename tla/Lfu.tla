-------------------------------- MODULE Lfu --------------------------------
(***************************************************************************)
(* The LFU policy (algs/lfu/lfu_policy.c): the blocks that may be evicted  *)
(* are in a heap, ordered by the number of requests since they were        *)
(* admitted and then by the time of the last one.  A block in flight has   *)
(* its count and time, and is not in the heap.                             *)
(*                                                                         *)
(* Entries are named by their blocks.  The pool and the hash table, the    *)
(* dirty flags and the statistics, used as LRU uses them, are left out.    *)
(***************************************************************************)
EXTENDS Integers, FiniteSets, SequencesExt

CONSTANTS
  Oblocks,      \* block addresses of the origin device
  CacheSize,    \* number of entries of the cache pool, and of the heap
  WordModulus,  \* number of values of an unsigned int
  MaxKey,       \* the highest count that is explored
  MaxTime,      \* the latest time that is explored
  Null

ASSUME LfuAssumption ==
  /\ CacheSize \in Nat \ {0}
  /\ WordModulus \in Nat \ {0} /\ WordModulus % 2 = 0
  /\ MaxKey \in Nat
  /\ MaxTime \in Nat
  /\ Null \notin Oblocks

VARIABLES
  heap,      \* the entries that may be evicted
  flight,    \* the set of entries in flight
  time,      \* cn->time, set by the caller before a request
  answer,    \* <<operation, evicted block>> of the last call
  crashed,   \* a LOG_ASSERT has failed
  loading    \* the caller is still loading the mappings of an earlier session

lfuVars == <<heap, flight, time, answer, crashed, loading>>

Entry(o, key, at) == [oblock |-> o, key |-> key, time |-> at]

Inflight == {e.oblock : e \in flight}
Cached == {e.oblock : e \in ToSet(heap)} \cup Inflight
Full == Cardinality(Cached) = CacheSize

Void == <<"NONE", Null>>

LfuInit ==
  /\ heap = <<>>
  /\ flight = {}
  /\ time = 0
  /\ answer = Void
  /\ crashed = FALSE
  /\ loading = TRUE

\* The difference of two unsigned values, returned as an int.
int_difference(x, y) ==
  ((x - y + WordModulus \div 2) % WordModulus) - WordModulus \div 2

lfu_compare(a, b) ==
  IF a.key = b.key THEN int_difference(a.time, b.time)
                   ELSE int_difference(a.key, b.key)

H == INSTANCE Heap WITH compare <- lfu_compare

\* The position of block o in the heap.
Index(o) == CHOOSE i \in DOMAIN heap : heap[i].oblock = o

LogFatal == crashed' = TRUE /\ UNCHANGED <<heap, flight, time, answer>>

(***************************************************************************)
(* Requests.                                                               *)
(***************************************************************************)

\* The operations that a request for o may be announced to cause.  The fields
\* of the transaction are not initialised in this function, so that evict has
\* any value for a hit or with free space.
lfu_next_victim_api(o) ==
  LET evict == IF o \notin Cached /\ Full THEN {TRUE} ELSE BOOLEAN
      evicting == IF heap = <<>> THEN "FAIL" ELSE "REPLACE"
      hit   == IF o \in Cached THEN {"HIT"} ELSE {"HIT", "NEW"}
  IN  (IF TRUE \in evict THEN {evicting} ELSE {})
        \cup (IF FALSE \in evict THEN hit ELSE {})

\* The heap after a hit on its item i, which counts more and is newer.
lfu_hit(i) ==
  H!heapify([heap EXCEPT ![i] = Entry(@.oblock, @.key + 1, time)], i)

lfu_commit_hit(o) ==
  /\ IF o \in Inflight
       THEN /\ flight' = { IF e.oblock = o THEN Entry(o, e.key + 1, time) ELSE e
                             : e \in flight }
            /\ UNCHANGED heap
       ELSE /\ heap' = lfu_hit(Index(o))
            /\ UNCHANGED flight
  /\ answer' = <<"HIT", Null>>
  /\ UNCHANGED <<time, crashed>>

lfu_evicts == Full

lfu_commit_miss(o) ==
  /\ heap' = IF lfu_evicts THEN H!heap_delete(heap, 1) ELSE heap
  /\ flight' = flight \cup {Entry(o, 1, time)}
  /\ answer' = IF lfu_evicts THEN <<"REPLACE", H!heap_min(heap).oblock>> ELSE <<"NEW", Null>>
  /\ UNCHANGED <<time, crashed>>

lfu_map_api(o) ==
  \/ /\ o \in Cached
     /\ \A e \in ToSet(heap) \cup flight : e.oblock = o => e.key < MaxKey
     /\ lfu_commit_hit(o)
  \/ /\ o \notin Cached
     /\ lfu_evicts => heap # <<>>
     /\ lfu_commit_miss(o)
  \/ /\ o \notin Cached
     /\ lfu_evicts /\ heap = <<>>
     /\ answer' = <<"FAIL", Null>>
     /\ UNCHANGED <<heap, flight, time, crashed>>

(***************************************************************************)
(* The other calls.                                                        *)
(***************************************************************************)
lfu_remove_api(o) ==
  /\ heap' = IF o \in Inflight THEN heap ELSE H!heap_delete(heap, Index(o))
  /\ flight' = {e \in flight : e.oblock # o}
  /\ answer' = Void
  /\ UNCHANGED <<time, crashed>>

lfu_insert_api(o) ==
  IF Full \/ Len(heap) = CacheSize
    THEN LogFatal
    ELSE /\ heap' = H!heap_insert(heap, Entry(o, 1, time))
         /\ answer' = Void
         /\ UNCHANGED <<flight, time, crashed>>

\* Fault: the requests that came while the block was in flight are forgotten.
lfu_migrated_reset(e) == Entry(e.oblock, 1, e.time)

\* The entry is queued with the count that it has by now.
lfu_migrated(e) == e

lfu_migrated_api(o) ==
  IF Len(heap) = CacheSize
    THEN LogFatal
    ELSE LET e == CHOOSE x \in flight : x.oblock = o
         IN  /\ heap' = H!heap_insert(heap, lfu_migrated(e))
             /\ flight' = flight \ {e}
             /\ answer' = Void
             /\ UNCHANGED <<time, crashed>>

Renamed(e, o, n) == IF e.oblock = o THEN [e EXCEPT !.oblock = n] ELSE e

lfu_remap(o, n) ==
  /\ heap' = [i \in DOMAIN heap |-> Renamed(heap[i], o, n)]
  /\ flight' = {Renamed(e, o, n) : e \in flight}
  /\ answer' = Void
  /\ UNCHANGED <<time, crashed>>

(***************************************************************************)
(* The callers, under the same rules as those of LRU.                      *)
(***************************************************************************)
LfuSetTime ==
  /\ ~crashed /\ time < MaxTime
  /\ time' = time + 1
  /\ UNCHANGED <<heap, flight, answer, crashed, loading>>

LfuLoad(o) ==
  /\ ~crashed /\ loading
  /\ o \notin Cached /\ ~Full
  /\ lfu_insert_api(o)
  /\ UNCHANGED loading

LfuMap(o) == ~crashed /\ lfu_map_api(o) /\ loading' = FALSE

LfuRemove(o) == ~crashed /\ o \in Cached /\ lfu_remove_api(o) /\ loading' = FALSE

LfuMigrated(o) ==
  ~crashed /\ o \in Inflight /\ lfu_migrated_api(o) /\ loading' = FALSE

LfuRemap(o, n) ==
  /\ ~crashed
  /\ o \in Cached /\ n \notin Cached
  /\ lfu_remap(o, n)
  /\ loading' = FALSE

LfuNext ==
  \/ LfuSetTime
  \/ \E o \in Oblocks :
       \/ LfuLoad(o) \/ LfuMap(o) \/ LfuRemove(o) \/ LfuMigrated(o)
       \/ \E n \in Oblocks : LfuRemap(o, n)

LfuSpec == LfuInit /\ [][LfuNext]_lfuVars

-----------------------------------------------------------------------------
(***************************************************************************)
(* Correctness.                                                            *)
(***************************************************************************)

\* The order of eviction, over the integers: fewer requests first, then older.
Sooner(a, b) == a.key < b.key \/ (a.key = b.key /\ a.time < b.time)

\* A victim is a block with the fewest requests since it was admitted, those that
\* came while it was in flight included, and of those the one that has not been
\* requested for longest, whatever hits, removals from the middle of the heap and
\* late migrations came before; and a request that evicts, or that fails, was
\* announced to.  (Counts and times must differ by less than half the range of an
\* unsigned int, since lfu_policy.c:22,25 returns their difference as an int.)
LfuEvictsLeastFrequent ==
  [][/\ answer'[1] = "REPLACE" =>
          \A e, v \in ToSet(heap) : v.oblock = answer'[2] => ~Sooner(e, v)
     /\ \A o \in Cached' \ Cached : answer'[1] = "REPLACE" =>
          lfu_next_victim_api(o) = {"REPLACE"}
     /\ answer'[1] = "FAIL" =>
          \A o \in Oblocks \ Cached : lfu_next_victim_api(o) = {"FAIL"}]_lfuVars

\* A count tells the requests for the block since it was admitted: a hit adds one to
\* the count of exactly one block, in flight or not, and nothing else changes a count
\* while its block stays cached, not the end of its migration either.
Count(o) == CHOOSE k \in 0 .. MaxKey : \E e \in ToSet(heap) \cup flight :
              e.oblock = o /\ e.key = k
LfuCountsEveryRequest ==
  [][LET stay   == Cached \cap Cached'
         before == [o \in stay |-> Count(o)]
         after  == [o \in stay |-> Count(o)']
         grown  == {o \in stay : after[o] # before[o]}
     IN  /\ \A o \in grown : after[o] = before[o] + 1
         /\ Cardinality(grown) = IF answer'[1] = "HIT" /\ time' = time THEN 1 ELSE 0]_lfuVars
============================================================================
