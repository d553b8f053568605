---------------------------- MODULE DmCacheProofs ---------------------------
(***************************************************************************)
(* The binding of a policy to dm-cache: the writeback tracker follows the  *)
(* dirty flags, data is moved where the policy expects it, and no thread   *)
(* asks for a block that another has made the policy forget; for every     *)
(* cache size, any number of blocks and threads, and every policy.         *)
(***************************************************************************)
EXTENDS DmCache, NucleusProofs

Trackers == [clean : Seq(Cblocks), dirty : Seq(Cblocks)]

Tracks(p, w) ==
  /\ IsInjective(w.clean) /\ IsInjective(w.dirty)
  /\ ToSet(w.dirty) = p.allocated \cap p.dirty
  /\ ToSet(w.clean) \subseteq p.allocated \ p.dirty

\* The binding: its pool, its tracker, and what the policy returned.
BindInv ==
  /\ PoolSound(pool) /\ wb \in Trackers /\ Tracks(pool, wb)
  /\ tick \in 0 .. TickModulus - 1 /\ tick_protected \in 0 .. TickModulus - 1
  /\ result \in Results \cup {NoResult}
  /\ crashed \in BOOLEAN /\ loading \in BOOLEAN
  /\ mode \in Modes /\ faults \in FaultSets
  /\ dirty_bitset \subseteq Cblocks /\ cells \subseteq Oblocks

(***************************************************************************)
(* What the threads are doing, and with which blocks.                      *)
(***************************************************************************)
HasEntry(o) == \E c \in pool.ht : pool.oblock[c] = o
HasMoving(o) == \E c \in pool.migrating : pool.oblock[c] = o

MigrationRecords ==
  [ kind : {"writeback", "demote", "promote", "overwrite", "invalidate"},
    old : Oblocks \cup {Null}, new : Oblocks \cup {Null}, cblock : Cblocks ]

MapperRecords ==
  {Idle} \cup [at : {"map"}, o : Oblocks] \cup [at : {"write"}, o : Oblocks, c : Cblocks]

IsBlockOf(o, mg) == o # Null /\ (o = mg.old \/ o = mg.new)

\* The blocks and the cache block of a migration, by its kind.
MigrationMatches(mg) ==
  /\ mg.kind = "writeback" =>
       /\ mg.old # Null /\ mg.new = Null /\ (faults = {} => mg.cblock \notin pool.migrating)
       /\ \/ mg.cblock \in pool.ht /\ pool.oblock[mg.cblock] = mg.old
          \/ worker.at = "roll_back" /\ worker.old = mg.old /\ worker.c = mg.cblock
  /\ mg.kind = "demote" =>
       /\ mg.old # Null /\ NotHashed(pool, mg.old)
       /\ worker.at = "roll_back" => worker.old # mg.old
  /\ mg.kind \in {"promote", "overwrite", "invalidate"} => mg.old = Null
  /\ mg.kind # "writeback" => mg.new # Null /\ mg.new # mg.old /\ pool.oblock[mg.cblock] = mg.new
  /\ mg.kind \in {"demote", "promote", "overwrite"} => mg.cblock \in pool.migrating
  /\ mg.kind = "invalidate" <=> mode = "passthrough"

WorkerMatches ==
  /\ worker.at \in {"idle", "write", "roll_back", "set_dirty", "validate", "unmap"}
  /\ worker.at # "idle" => worker.o \in Oblocks
  /\ worker.at \in {"write", "set_dirty"} => HasEntry(worker.o)
  /\ worker.at = "write" => worker.c \in Cblocks
  /\ worker.at = "unmap" => mode = "passthrough"
  /\ worker.at = "roll_back" =>
       /\ "clash" \in faults
       /\ worker.c \in pool.migrating /\ pool.oblock[worker.c] = worker.o
       /\ worker.old \in Oblocks /\ NotHashed(pool, worker.old)
  /\ worker.at = "validate" =>
       HasMoving(worker.o) /\ \A mg \in migrations : ~IsBlockOf(worker.o, mg)

MappersMatch ==
  /\ mapper \in [Mappers -> MapperRecords]
  /\ \A t \in Mappers :
       mapper[t].at = "write" /\ "clash" \notin faults => HasEntry(mapper[t].o)

\* Every cell has one owner: a migration, a mapper or the worker.
CellsOwned ==
  /\ \A mg \in migrations, o \in Oblocks : IsBlockOf(o, mg) => o \in cells
  /\ \A m, n \in migrations, o \in Oblocks : IsBlockOf(o, m) /\ IsBlockOf(o, n) => m = n
  /\ \A t \in Mappers : mapper[t].at # "idle" =>
       mapper[t].o \in cells /\ \A mg \in migrations : ~IsBlockOf(mapper[t].o, mg)
  /\ \A t, u \in Mappers :
       mapper[t].at # "idle" /\ mapper[u].at # "idle" /\ mapper[t].o = mapper[u].o => t = u
  /\ worker.at \in {"write", "roll_back"} =>
       /\ worker.o \in cells
       /\ \A mg \in migrations : ~IsBlockOf(worker.o, mg)
       /\ \A t \in Mappers : mapper[t].at # "idle" => mapper[t].o # worker.o

\* Nothing is moved in passthrough mode, and nothing is dirty.
PassesThrough ==
  mode = "passthrough" =>
    /\ pool.allocated \cap pool.dirty = {}
    /\ worker.at \in {"idle", "unmap"}
    /\ \A t \in Mappers : mapper[t].at # "write"

\* While the program runs.
RunInv ==
  /\ \A mg \in migrations : MigrationMatches(mg)
  /\ WorkerMatches /\ MappersMatch /\ CellsOwned /\ PassesThrough
  /\ loading => migrations = {} /\ worker = Idle /\ \A t \in Mappers : mapper[t] = Idle

DmInv ==
  /\ BindInv
  /\ migrations \subseteq MigrationRecords
  /\ mode = "passthrough" => pool.migrating = {}
  /\ DmNoAssertionFails /\ MigrationsMatchPolicy /\ InflightIsMoving
  /\ ~crashed => RunInv

-----------------------------------------------------------------------------
(***************************************************************************)
(* The tracker.                                                            *)
(***************************************************************************)
\* wb_remove takes an entry out of whichever queue it is in.
LEMMA WbRemove ==
  ASSUME NEW w \in Trackers, IsInjective(w.clean), IsInjective(w.dirty), NEW e
  PROVE  /\ wb_remove(w, e) \in Trackers
         /\ IsInjective(wb_remove(w, e).clean) /\ IsInjective(wb_remove(w, e).dirty)
         /\ ToSet(wb_remove(w, e).clean) = ToSet(w.clean) \ {e}
         /\ ToSet(wb_remove(w, e).dirty) = ToSet(w.dirty) \ {e}
<1>1. w.clean \in Seq(Cblocks) /\ w.dirty \in Seq(Cblocks)
  BY DEF Trackers
<1>2. /\ wb_remove(w, e).clean = queue_remove(w.clean, e)
      /\ wb_remove(w, e).dirty = queue_remove(w.dirty, e)
  BY DEF wb_remove
<1>3. queue_remove(w.clean, e) \in Seq(Cblocks) /\ queue_remove(w.dirty, e) \in Seq(Cblocks)
  BY <1>1, QueueRemove
<1>4. wb_remove(w, e) \in Trackers
  BY <1>3 DEF wb_remove, Trackers
<1> QED
  BY <1>1, <1>2, <1>4, QueueRemove

\* An entry that is not tracked goes to the queue of its dirty flag.
LEMMA WbPush ==
  ASSUME NEW w \in Trackers, IsInjective(w.clean), IsInjective(w.dirty), NEW p, NEW e \in Cblocks,
         e \in p.allocated,
         ToSet(w.dirty) = (p.allocated \cap p.dirty) \ {e},
         ToSet(w.clean) \subseteq (p.allocated \ p.dirty) \ {e}
  PROVE  wb_push_cache(w, p, e) \in Trackers /\ Tracks(p, wb_push_cache(w, p, e))
<1>1. /\ w.clean \in Seq(Cblocks) /\ w.dirty \in Seq(Cblocks)
      /\ e \notin ToSet(w.clean) /\ e \notin ToSet(w.dirty)
  BY DEF Trackers
<1>2. CASE e \in p.dirty
  <2>1. /\ wb_push_cache(w, p, e) = [w EXCEPT !.dirty = queue_push(w.dirty, e)]
        /\ queue_push(w.dirty, e) \in Seq(Cblocks) /\ IsInjective(queue_push(w.dirty, e))
        /\ ToSet(queue_push(w.dirty, e)) = ToSet(w.dirty) \cup {e}
    BY <1>1, <1>2, QueuePush DEF wb_push_cache
  <2> QED
    BY <1>2, <2>1 DEF Trackers, Tracks
<1>3. CASE e \notin p.dirty
  <2>1. /\ wb_push_cache(w, p, e) = [w EXCEPT !.clean = queue_push(w.clean, e)]
        /\ queue_push(w.clean, e) \in Seq(Cblocks) /\ IsInjective(queue_push(w.clean, e))
        /\ ToSet(queue_push(w.clean, e)) = ToSet(w.clean) \cup {e}
    BY <1>1, <1>3, QueuePush DEF wb_push_cache
  <2> QED
    BY <1>3, <2>1 DEF Trackers, Tracks
<1> QED
  BY <1>2, <1>3

\* The entry is taken out before it is pushed, as its flags are now.
LEMMA WbMove ==
  ASSUME NEW w \in Trackers, NEW p, NEW q, Tracks(p, w), NEW e \in Cblocks,
         e \in p.allocated, q.allocated = p.allocated, q.dirty \ {e} = p.dirty \ {e}
  PROVE  /\ wb_push_cache(wb_remove(w, e), q, e) \in Trackers
         /\ Tracks(q, wb_push_cache(wb_remove(w, e), q, e))
<1> DEFINE v == wb_remove(w, e)
<1>1. /\ v \in Trackers /\ IsInjective(v.clean) /\ IsInjective(v.dirty)
      /\ ToSet(v.clean) = ToSet(w.clean) \ {e} /\ ToSet(v.dirty) = ToSet(w.dirty) \ {e}
  BY WbRemove DEF Tracks
<1> HIDE DEF v
<1>2. /\ ToSet(v.dirty) = (q.allocated \cap q.dirty) \ {e}
      /\ ToSet(v.clean) \subseteq (q.allocated \ q.dirty) \ {e}
  BY <1>1 DEF Tracks
<1> QED
  BY <1>1, <1>2, WbPush DEF v

\* Alone in the cache with its block: the block's entry is the only one.
LEMMA EntryFacts ==
  ASSUME PoolSound(pool), NEW o \in Oblocks
  PROVE  /\ Lookup(o) = Null <=> ~HasEntry(o)
         /\ Lookup(o) = Null <=> NotHashed(pool, o)
         /\ Lookup(o) # Null => /\ Lookup(o) \in Cblocks /\ Lookup(o) \in pool.allocated
                                /\ Lookup(o) \in pool.ht /\ pool.oblock[Lookup(o)] = o
         /\ \A c \in pool.ht : pool.oblock[c] = o => Lookup(o) = c
         /\ HasMoving(o) => HasEntry(o)
<1>1. pool.ht = pool.allocated /\ pool.migrating \subseteq pool.ht /\ pool.ht \subseteq Cblocks
  BY DEF PoolSound, Pools
<1>2. Null \notin Cblocks
  BY NucleusAssumption DEF Cblocks
<1> QED
  BY <1>1, <1>2, LookupFacts DEF Lookup, HasEntry, HasMoving, NotHashed

(***************************************************************************)
(* The calls of the binding.                                               *)
(***************************************************************************)
\* The entries are what they were.
SameEntries ==
  /\ pool'.allocated = pool.allocated /\ pool'.ht = pool.ht
  /\ pool'.oblock = pool.oblock /\ pool'.migrating = pool.migrating

\* set_dirty and clear_dirty: nothing but the flag and the tracker.
LEMMA MarkFacts ==
  ASSUME PoolSound(pool), wb \in Trackers, Tracks(pool, wb), NEW o \in Oblocks,
         NEW dirty \in BOOLEAN, dmcache_base_mark(o, dirty)
  PROVE  /\ PoolSound(pool)' /\ wb' \in Trackers /\ Tracks(pool, wb)'
         /\ SameEntries /\ UNCHANGED <<tick, result>>
         /\ crashed' = IF HasEntry(o) THEN crashed ELSE TRUE
         /\ HasEntry(o) \/ UNCHANGED pool
<1>1. CASE Lookup(o) = Null
  BY <1>1, EntryFacts DEF dmcache_base_mark, LogFatal, SameEntries, Tracks
<1>2. CASE Lookup(o) # Null
  <2>1. PICK e : e = Lookup(o)
    OBVIOUS
  <2>2. e \in Cblocks /\ e \in pool.allocated /\ HasEntry(o)
    BY <1>2, <2>1, EntryFacts
  <2>3. /\ pool' = [pool EXCEPT !.dirty = IF dirty THEN @ \cup {e} ELSE @ \ {e}]
        /\ wb' = wb_push_cache(wb_remove(wb, e), pool', e)
        /\ UNCHANGED <<tick, result, crashed>>
    BY <1>2, <2>1 DEF dmcache_base_mark
  <2>4. SameEntries /\ pool'.dirty \ {e} = pool.dirty \ {e} /\ PoolSound(pool')
    BY <2>2, <2>3 DEF PoolSound, Pools, SameEntries
  <2>5. wb' \in Trackers /\ Tracks(pool', wb')
    BY <2>2, <2>3, <2>4, WbMove DEF SameEntries
  <2> QED
    BY <2>2, <2>3, <2>4, <2>5
<1> QED
  BY <1>1, <1>2

\* Block o gets entry e, its data still to come.
Admits(o, e) ==
  /\ e \in Cblocks \ pool.migrating /\ NotHashed(pool, o)
  /\ pool'.allocated = pool.allocated \cup {e} /\ pool'.dirty = pool.dirty \ {e}
  /\ pool'.oblock = [pool.oblock EXCEPT ![e] = o]
  /\ pool'.migrating = pool.migrating \cup {e}

\* An entry that is not allocated is admitted to a sound pool.
LEMMA AdmitFacts ==
  ASSUME NEW p, PoolSound(p), NEW o \in Oblocks, NotHashed(p, o),
         NEW e \in Cblocks, e \notin p.allocated, e = alloc_entry(p)
  PROVE  /\ PoolSound(admit(p, o))
         /\ admit(p, o).allocated = p.allocated \cup {e}
         /\ admit(p, o).migrating = p.migrating \cup {e}
         /\ admit(p, o).oblock = [p.oblock EXCEPT ![e] = o]
         /\ admit(p, o).dirty = p.dirty \ {e}
<1>1. PICK q : q = alloc_pool_entry(p, e, o)
  OBVIOUS
<1>2. /\ PoolSound(q) /\ q.allocated = p.allocated \cup {e}
      /\ q.migrating = p.migrating /\ q.oblock = [p.oblock EXCEPT ![e] = o]
  BY <1>1, AllocSound, AllocOblock
<1>3. q.dirty = p.dirty \ {e}
  BY <1>1 DEF PoolSound, Pools, alloc_pool_entry, alloc_this_entry
<1>4. e \notin p.migrating
  BY DEF PoolSound
<1>5. admit(p, o) = migrating_entry(q, e)
  BY <1>1 DEF admit
<1>6. migrating_entry(q, e).dirty = q.dirty
  BY <1>2 DEF migrating_entry, PoolSound, Pools
<1> QED
  BY <1>2, <1>3, <1>4, <1>5, <1>6, MigratingSound

\* A request: what the policy answers, and what it has done to the pool.
LEMMA MapFacts ==
  ASSUME PoolSound(pool), wb \in Trackers, Tracks(pool, wb), NEW o \in Oblocks,
         NEW can_migrate \in BOOLEAN, dmcache_base_map(o, can_migrate)
  PROVE  /\ PoolSound(pool)' /\ wb' \in Trackers /\ Tracks(pool, wb)'
         /\ result' \in Results /\ tick' = tick_protected /\ UNCHANGED crashed
         /\ \/ /\ result'.op = "HIT" /\ UNCHANGED pool /\ result'.old_oblock = Null
               /\ result'.cblock \in pool.ht /\ pool.oblock[result'.cblock] = o
            \/ result'.op = "FAIL" /\ UNCHANGED pool
            \/ /\ result'.op = "NEW" /\ can_migrate /\ Admits(o, result'.cblock)
               /\ result'.cblock \notin pool.allocated /\ result'.old_oblock = Null
            \/ /\ result'.op = "REPLACE" /\ can_migrate /\ Admits(o, result'.cblock)
               /\ result'.cblock \in pool.allocated
               /\ result'.old_oblock = pool.oblock[result'.cblock]
<1>1. PICK e : e = Lookup(o)
  OBVIOUS
<1>2. /\ tick' = tick_protected /\ UNCHANGED crashed
      /\ {"HIT", "NEW", "REPLACE", "FAIL"} \subseteq Operations
  BY DEF dmcache_base_map, Operations
<1>3. CASE e # Null /\ UNCHANGED pool /\ result' = [OpOnly("HIT", o) EXCEPT !.cblock = e]
           /\ wb' = IF hides_hit(e) THEN wb ELSE tracked(e)
  <2>1. e \in Cblocks /\ e \in pool.ht /\ e \in pool.allocated /\ pool.oblock[e] = o
    BY <1>1, <1>3, EntryFacts
  <2>2. result' \in Results /\ result'.op = "HIT" /\ result'.cblock = e /\ result'.old_oblock = Null
    BY <1>2, <1>3, <2>1 DEF OpOnly, Results
  <2>3. tracked(e) \in Trackers /\ Tracks(pool, tracked(e))
    BY <2>1, WbMove DEF tracked
  <2>4. wb' \in Trackers /\ Tracks(pool, wb')
    BY <1>3, <2>3
  <2> QED
    BY <1>2, <1>3, <2>1, <2>2, <2>4
<1>4. CASE result' = OpOnly("FAIL", o) /\ UNCHANGED <<pool, wb>>
  BY <1>2, <1>4, OpOnlyType
<1>5. CASE e = Null /\ can_migrate /\ ~cache_is_full(pool) /\ pool' = admit(pool, o)
           /\ result' = [OpOnly("NEW", o) EXCEPT !.cblock = alloc_entry(pool)]
           /\ wb' = wb_push_cache(wb, pool', result'.cblock)
  <2>1. PICK a : a = alloc_entry(pool)
    OBVIOUS
  <2>2. a \in Cblocks /\ a \notin pool.allocated /\ NotHashed(pool, o)
    BY <1>1, <1>5, <2>1, AllocEntryFacts, EntryFacts
  <2>3. result' \in Results /\ result'.op = "NEW" /\ result'.cblock = a /\ result'.old_oblock = Null
    BY <1>2, <1>5, <2>1, <2>2 DEF OpOnly, Results
  <2>4. PoolSound(pool') /\ Admits(o, a)
    BY <1>5, <2>1, <2>2, AdmitFacts DEF Admits, PoolSound
  <2>5. wb' \in Trackers /\ Tracks(pool', wb')
    BY <1>5, <2>2, <2>3, <2>4, WbPush DEF Tracks, Admits
  <2> QED
    BY <1>2, <1>5, <2>2, <2>3, <2>4, <2>5
<1>6. ASSUME NEW v \in pool.allocated \ pool.migrating,
             e = Null, can_migrate,
             pool' = admit(cache_nucleus_remove(pool, v), o),
             result' = [OpOnly("REPLACE", o) EXCEPT !.cblock = v, !.old_oblock = pool.oblock[v]],
             wb' = wb_push_cache(wb_remove(wb, result'.cblock), pool', result'.cblock)
      PROVE  /\ PoolSound(pool') /\ wb' \in Trackers /\ Tracks(pool', wb') /\ result' \in Results
             /\ result'.op = "REPLACE" /\ can_migrate /\ Admits(o, result'.cblock)
             /\ result'.cblock \in pool.allocated
             /\ result'.old_oblock = pool.oblock[result'.cblock]
  <2>1. PICK q : q = cache_nucleus_remove(pool, v)
    OBVIOUS
  <2>2. v \in pool.allocated /\ v \notin pool.migrating
    BY <1>6
  <2>3. /\ PoolSound(q) /\ q.allocated = pool.allocated \ {v} /\ q.migrating = pool.migrating
        /\ q.oblock = pool.oblock /\ alloc_entry(q) = v
    <3>1. /\ PoolSound(q) /\ q.allocated = pool.allocated \ {v} /\ q.oblock = pool.oblock
          /\ q.migrating = pool.migrating \ {v} /\ alloc_entry(q) = v
      BY <2>1, <2>2, RemoveSound
    <3> QED
      BY <2>2, <3>1
  <2>4. q.dirty = pool.dirty
    BY <2>1 DEF cache_nucleus_remove, free_entry, PoolSound, Pools
  <2>5. v \in Cblocks /\ pool.oblock[v] \in Oblocks /\ NotHashed(pool, o)
    BY <1>1, <1>6, EntryFacts DEF PoolSound, Pools
  <2>6. NotHashed(q, o)
    BY <2>3, <2>5 DEF NotHashed, PoolSound
  <2>7. /\ result' \in Results /\ result'.op = "REPLACE" /\ result'.cblock = v
        /\ result'.old_oblock = pool.oblock[v]
    BY <1>2, <1>6, <2>5 DEF OpOnly, Results
  <2>8. PoolSound(pool') /\ Admits(o, v)
    BY <1>6, <2>1, <2>3, <2>4, <2>5, <2>6, AdmitFacts DEF Admits
  <2>9. PICK w : w = wb_remove(wb, v)
    OBVIOUS
  <2>10. /\ w \in Trackers /\ IsInjective(w.clean) /\ IsInjective(w.dirty)
         /\ ToSet(w.clean) = ToSet(wb.clean) \ {v} /\ ToSet(w.dirty) = ToSet(wb.dirty) \ {v}
    BY <2>9, WbRemove DEF Tracks
  <2>11. wb' \in Trackers /\ Tracks(pool', wb')
    BY <1>6, <2>5, <2>7, <2>8, <2>9, <2>10, WbPush DEF Tracks, Admits
  <2> QED
    BY <1>6, <2>7, <2>8, <2>11
<1> QED
  <2>1. CASE e # Null
    <3>1. /\ result' = [OpOnly("HIT", o) EXCEPT !.cblock = e] /\ UNCHANGED pool
          /\ wb' = IF hides_hit(e) THEN wb ELSE tracked(e)
      BY <1>1, <2>1 DEF dmcache_base_map
    <3> QED
      BY <1>3, <2>1, <3>1
  <2>2. CASE e = Null /\ ~can_migrate
    BY <1>1, <1>4, <2>2 DEF dmcache_base_map
  <2>3. CASE e = Null /\ can_migrate
    <3>1. /\ policy_miss(o)
          /\ wb' = CASE result'.op = "NEW" -> wb_push_cache(wb, pool', result'.cblock)
                      [] result'.op = "REPLACE" ->
                           wb_push_cache(wb_remove(wb, result'.cblock), pool', result'.cblock)
                      [] result'.op = "FAIL" -> wb
      BY <1>1, <2>3 DEF dmcache_base_map
    <3>2. CASE /\ ~cache_is_full(pool) /\ pool' = admit(pool, o)
               /\ result' = [OpOnly("NEW", o) EXCEPT !.cblock = alloc_entry(pool)]
      <4>1. result'.op = "NEW"
        BY <3>2 DEF OpOnly
      <4>2. wb' = wb_push_cache(wb, pool', result'.cblock)
        BY <3>1, <4>1
      <4> QED
        BY <1>5, <2>3, <3>2, <4>2
    <3>3. ASSUME NEW v \in pool.allocated \ pool.migrating,
                 pool' = admit(cache_nucleus_remove(pool, v), o),
                 result' = [OpOnly("REPLACE", o) EXCEPT !.cblock = v, !.old_oblock = pool.oblock[v]]
          PROVE  /\ PoolSound(pool') /\ wb' \in Trackers /\ Tracks(pool', wb')
                 /\ result' \in Results
                 /\ result'.op = "REPLACE" /\ can_migrate /\ Admits(o, result'.cblock)
                 /\ result'.cblock \in pool.allocated
                 /\ result'.old_oblock = pool.oblock[result'.cblock]
      <4>1. result'.op = "REPLACE"
        BY <3>3 DEF OpOnly
      <4>2. wb' = wb_push_cache(wb_remove(wb, result'.cblock), pool', result'.cblock)
        BY <3>1, <4>1
      <4> QED
        BY <1>6, <2>3, <3>3, <4>2
    <3>4. CASE result' = OpOnly("FAIL", o) /\ UNCHANGED pool
      <4>1. result'.op = "FAIL"
        BY <3>4 DEF OpOnly
      <4>2. wb' = wb
        BY <3>1, <4>1
      <4> QED
        BY <1>4, <3>4, <4>2
    <3>5. \/ /\ ~cache_is_full(pool) /\ pool' = admit(pool, o)
             /\ result' = [OpOnly("NEW", o) EXCEPT !.cblock = alloc_entry(pool)]
          \/ \E v \in pool.allocated \ pool.migrating :
               /\ pool' = admit(cache_nucleus_remove(pool, v), o)
               /\ result' = [OpOnly("REPLACE", o) EXCEPT !.cblock = v,
                                                         !.old_oblock = pool.oblock[v]]
          \/ result' = OpOnly("FAIL", o) /\ UNCHANGED pool
      BY <3>1, Zenon DEF policy_miss
    <3> QED
      BY <1>2, <3>2, <3>3, <3>4, <3>5
  <2> QED
    BY <2>1, <2>2, <2>3

\* Entry e is freed.
Drops(e) ==
  /\ e \in pool.allocated
  /\ pool'.allocated = pool.allocated \ {e} /\ pool'.dirty = pool.dirty
  /\ pool'.oblock = pool.oblock /\ pool'.migrating = pool.migrating \ {e}

\* An entry is removed from the pool and from the tracker.
LEMMA DropFacts ==
  ASSUME PoolSound(pool), wb \in Trackers, Tracks(pool, wb), NEW e \in pool.allocated,
         pool' = cache_nucleus_remove(pool, e), wb' = wb_remove(wb, e)
  PROVE  PoolSound(pool)' /\ wb' \in Trackers /\ Tracks(pool, wb)' /\ Drops(e)
<1>1. PoolSound(pool') /\ Drops(e)
  <2>1. pool'.dirty = pool.dirty
    BY DEF cache_nucleus_remove, free_entry, PoolSound, Pools
  <2> QED
    BY <2>1, RemoveSound DEF Drops
<1>2. /\ wb' \in Trackers /\ IsInjective(wb'.clean) /\ IsInjective(wb'.dirty)
      /\ ToSet(wb'.clean) = ToSet(wb.clean) \ {e} /\ ToSet(wb'.dirty) = ToSet(wb.dirty) \ {e}
  BY WbRemove DEF Tracks
<1> QED
  BY <1>1, <1>2 DEF Tracks, Drops

\* remove_mapping: the entry of the block, if there is one.
LEMMA RemoveFacts ==
  ASSUME PoolSound(pool), wb \in Trackers, Tracks(pool, wb), NEW o \in Oblocks,
         dmcache_base_remove_mapping(o)
  PROVE  /\ PoolSound(pool)' /\ wb' \in Trackers /\ Tracks(pool, wb)' /\ UNCHANGED <<tick, result>>
         /\ \/ UNCHANGED crashed /\ \E e \in pool.ht : pool.oblock[e] = o /\ Drops(e)
            \/ ~HasEntry(o) /\ crashed' = TRUE /\ UNCHANGED pool
<1>1. CASE Lookup(o) = Null
  BY <1>1, EntryFacts DEF dmcache_base_remove_mapping, LogFatal, Tracks
<1>2. CASE Lookup(o) # Null
  <2>1. PICK e : e = Lookup(o)
    OBVIOUS
  <2>2. e \in pool.allocated /\ e \in pool.ht /\ pool.oblock[e] = o
    BY <1>2, <2>1, EntryFacts
  <2>3. /\ pool' = cache_nucleus_remove(pool, e) /\ wb' = wb_remove(wb, e)
        /\ UNCHANGED <<tick, result, crashed>>
    BY <1>2, <2>1 DEF dmcache_base_remove_mapping
  <2> QED
    BY <2>2, <2>3, DropFacts
<1> QED
  BY <1>1, <1>2

\* remove_cblock: the entry of the block the cache block had last.  That is the entry
\* at c itself if it is allocated; if not, it is in no queue, and its removal from
\* the tracker is idle.
LEMMA RemoveCblockFacts ==
  ASSUME PoolSound(pool), wb \in Trackers, Tracks(pool, wb), NEW c \in Cblocks,
         dmcache_base_remove_cblock(c)
  PROVE  /\ PoolSound(pool)' /\ wb' \in Trackers /\ Tracks(pool, wb)' /\ UNCHANGED <<tick, result>>
         /\ \/ UNCHANGED crashed /\ \E e \in pool.ht : Drops(e)
            \/ crashed' = TRUE /\ UNCHANGED pool
<1>1. CASE Lookup(pool.oblock[c]) = Null
  BY <1>1 DEF dmcache_base_remove_cblock, LogFatal, Tracks
<1>2. CASE Lookup(pool.oblock[c]) # Null
  <2>1. PICK e : e = Lookup(pool.oblock[c])
    OBVIOUS
  <2>2. e \in pool.ht /\ pool.oblock[e] = pool.oblock[c]
    BY <1>2, <2>1 DEF Lookup, hash_lookup
  <2>3. e \in pool.allocated /\ (c \notin pool.allocated \/ c = e)
    BY <2>2 DEF PoolSound
  <2>4. /\ pool' = cache_nucleus_remove(pool, e)
        /\ wb' = wb_remove(wb_remove(wb, e), c)
        /\ UNCHANGED <<tick, result, crashed>>
    BY <1>2, <2>1 DEF dmcache_base_remove_cblock
  <2>5. PoolSound(pool') /\ Drops(e)
    <3>1. pool'.dirty = pool.dirty
      BY <2>4 DEF cache_nucleus_remove, free_entry, PoolSound, Pools
    <3> QED
      BY <2>3, <2>4, <3>1, RemoveSound DEF Drops
  <2>6. PICK w : w = wb_remove(wb, e)
    OBVIOUS
  <2>7. /\ w \in Trackers /\ IsInjective(w.clean) /\ IsInjective(w.dirty)
        /\ ToSet(w.clean) = ToSet(wb.clean) \ {e} /\ ToSet(w.dirty) = ToSet(wb.dirty) \ {e}
    BY <2>6, WbRemove DEF Tracks
  <2>8. /\ wb' \in Trackers /\ IsInjective(wb'.clean) /\ IsInjective(wb'.dirty)
        /\ ToSet(wb'.clean) = ToSet(w.clean) \ {c} /\ ToSet(wb'.dirty) = ToSet(w.dirty) \ {c}
    BY <2>4, <2>6, <2>7, WbRemove
  <2>9. Tracks(pool', wb')
    BY <2>3, <2>5, <2>7, <2>8 DEF Tracks, Drops
  <2> QED
    BY <2>2, <2>4, <2>5, <2>8, <2>9
<1> QED
  BY <1>1, <1>2

\* load_mapping: the entry is free, and is tracked if it is dirty.
LEMMA LoadFacts ==
  ASSUME PoolSound(pool), wb \in Trackers, Tracks(pool, wb), NEW o \in Oblocks, NEW c \in Cblocks,
         NEW dirty \in BOOLEAN, LoadMapping(o, c, dirty)
  PROVE  /\ PoolSound(pool)' /\ wb' \in Trackers /\ Tracks(pool, wb)'
         /\ c \notin pool.allocated /\ pool'.allocated = pool.allocated \cup {c}
         /\ pool'.dirty \ {c} = pool.dirty \ {c} /\ (~dirty => c \notin pool'.dirty)
         /\ pool'.migrating = pool.migrating
<1>1. PICK q : q = alloc_pool_entry(pool, c, o)
  OBVIOUS
<1>2. /\ c \notin pool.allocated /\ NotHashed(pool, o)
      /\ pool' = mark_dirty(q, c, dirty)
      /\ wb' = IF dirty THEN wb_push_cache(wb, pool', c) ELSE wb
  BY <1>1 DEF LoadMapping, dmcache_base_load_mapping, Cached, NotHashed
<1>3. /\ PoolSound(q) /\ q.allocated = pool.allocated \cup {c}
      /\ q.migrating = pool.migrating /\ q.oblock = [pool.oblock EXCEPT ![c] = o]
  BY <1>1, <1>2, AllocSound, AllocOblock
<1>4. q.dirty = pool.dirty \ {c}
  BY <1>1 DEF PoolSound, Pools, alloc_pool_entry, alloc_this_entry
<1>5. /\ PoolSound(pool') /\ pool'.allocated = q.allocated
      /\ pool'.migrating = q.migrating /\ pool'.oblock = q.oblock
      /\ pool'.dirty = IF dirty THEN q.dirty \cup {c} ELSE q.dirty
  <2>1. pool'.dirty = IF dirty THEN q.dirty \cup {c} ELSE q.dirty
    BY <1>2, <1>3 DEF mark_dirty, PoolSound, Pools
  <2> QED
    BY <1>2, <1>3, <2>1, DirtySound
<1>6. wb' \in Trackers /\ Tracks(pool', wb')
  <2>1. /\ pool'.allocated \cap (pool'.dirty \ {c}) = pool.allocated \cap pool.dirty
        /\ (pool.allocated \ pool.dirty) \subseteq (pool'.allocated \ pool'.dirty) \ {c}
        /\ (pool'.allocated \cap pool'.dirty) \ {c} = pool.allocated \cap pool.dirty
    BY <1>2, <1>3, <1>4, <1>5
  <2>2. CASE dirty
    <3>1. wb' = wb_push_cache(wb, pool', c) /\ c \in pool'.allocated
      BY <2>2, <1>2, <1>3, <1>5
    <3> QED
      BY <2>1, <3>1, WbPush DEF Tracks
  <2>3. CASE ~dirty
    <3>1. wb' = wb /\ c \notin pool'.dirty
      BY <2>3, <1>2, <1>4, <1>5
    <3> QED
      BY <2>1, <3>1 DEF Tracks
  <2> QED
    BY <2>2, <2>3
<1> QED
  BY <1>2, <1>3, <1>4, <1>5, <1>6

\* writeback_work: the oldest dirty entry is handed out and counts as clean.
LEMMA WritebackFacts ==
  ASSUME PoolSound(pool), wb \in Trackers, Tracks(pool, wb), dmcache_base_writeback_work
  PROVE  /\ PoolSound(pool)' /\ wb' \in Trackers /\ Tracks(pool, wb)'
         /\ Head(wb.dirty) \in pool.allocated \cap pool.dirty
         /\ SameEntries /\ UNCHANGED <<tick, result, crashed>>
<1>1. PICK e : e = Head(wb.dirty)
  OBVIOUS
<1>2. /\ wb.dirty # <<>> /\ pool' = [pool EXCEPT !.dirty = @ \ {e}]
      /\ wb' = [clean |-> queue_push(wb.clean, e), dirty |-> Tail(wb.dirty)]
      /\ UNCHANGED <<tick, result, crashed>>
  BY <1>1 DEF dmcache_base_writeback_work
<1>3. /\ wb.clean \in Seq(Cblocks) /\ IsInjective(wb.clean)
      /\ wb.dirty \in Seq(Cblocks) /\ IsInjective(wb.dirty)
  BY DEF Trackers, Tracks
<1>4. /\ e \in Cblocks /\ e \in ToSet(wb.dirty) /\ Tail(wb.dirty) \in Seq(Cblocks)
      /\ IsInjective(Tail(wb.dirty)) /\ ToSet(Tail(wb.dirty)) = ToSet(wb.dirty) \ {e}
  BY <1>1, <1>2, <1>3, QueuePop
<1>5. e \in pool.allocated \cap pool.dirty /\ e \notin ToSet(wb.clean)
  BY <1>4 DEF Tracks
<1>6. /\ queue_push(wb.clean, e) \in Seq(Cblocks) /\ IsInjective(queue_push(wb.clean, e))
      /\ ToSet(queue_push(wb.clean, e)) = ToSet(wb.clean) \cup {e}
  BY <1>3, <1>4, <1>5, QueuePush
<1>7. SameEntries /\ PoolSound(pool') /\ pool'.dirty = pool.dirty \ {e}
  BY <1>2 DEF PoolSound, Pools, SameEntries
<1>8. wb' \in Trackers /\ Tracks(pool', wb')
  BY <1>2, <1>4, <1>5, <1>6, <1>7 DEF Trackers, Tracks, SameEntries
<1> QED
  BY <1>1, <1>2, <1>5, <1>7, <1>8

\* force_mapping: the entry of current is renamed.
Renames(current, new, e) ==
  /\ e \in pool.ht /\ pool.oblock[e] = current
  /\ pool'.allocated = pool.allocated /\ pool'.migrating = pool.migrating
  /\ pool'.oblock = [pool.oblock EXCEPT ![e] = new]

\* It asserts that the policy has a history and knows block current.
LEMMA ForceFacts ==
  ASSUME PoolSound(pool), wb \in Trackers, Tracks(pool, wb), NEW current \in Oblocks,
         NEW new \in Oblocks, NotHashed(pool, new), dmcache_base_force_mapping(current, new)
  PROVE  /\ PoolSound(pool)' /\ wb' \in Trackers /\ Tracks(pool, wb)' /\ UNCHANGED <<tick, result>>
         /\ \/ UNCHANGED crashed /\ \E e \in pool.ht : Renames(current, new, e)
            \/ (~HasHistory \/ ~HasEntry(current)) /\ crashed' = TRUE /\ UNCHANGED pool
<1>1. CASE ~HasHistory \/ Lookup(current) = Null
  BY <1>1, EntryFacts DEF dmcache_base_force_mapping, LogFatal, Tracks
<1>2. CASE ~(~HasHistory \/ Lookup(current) = Null)
  <2>1. PICK e : e = Lookup(current)
    OBVIOUS
  <2>2. e \in pool.ht /\ e \in pool.allocated /\ e \in Cblocks /\ pool.oblock[e] = current
    BY <1>2, <2>1, EntryFacts
  <2>3. PICK q : q = default_remap(pool, current, new)
    OBVIOUS
  <2>4. /\ PoolSound(q) /\ q.allocated = pool.allocated /\ q.migrating = pool.migrating
        /\ q.oblock = [pool.oblock EXCEPT ![e] = new]
    BY <1>2, <2>1, <2>3, RemapSound, RemapOblock DEF Lookup
  <2>5. q.dirty = pool.dirty
    BY <2>3 DEF default_remap, PoolSound, Pools
  <2>6. /\ pool' = [q EXCEPT !.dirty = @ \cup {e}]
        /\ wb' = wb_push_cache(wb_remove(wb, e), pool', e) /\ UNCHANGED <<tick, result, crashed>>
    BY <1>2, <2>1, <2>3 DEF dmcache_base_force_mapping
  <2>7. /\ PoolSound(pool') /\ pool'.allocated = q.allocated /\ pool'.migrating = q.migrating
        /\ pool'.oblock = q.oblock /\ pool'.dirty = q.dirty \cup {e}
    BY <2>2, <2>4, <2>6 DEF PoolSound, Pools
  <2>8. wb' \in Trackers /\ Tracks(pool', wb')
    BY <2>2, <2>4, <2>5, <2>6, <2>7, WbMove
  <2> QED
    BY <2>2, <2>4, <2>6, <2>7, <2>8 DEF Renames
<1> QED
  BY <1>1, <1>2

\* io_complete: the entry is not in flight any more.
LEMMA CompleteFacts ==
  ASSUME PoolSound(pool), wb \in Trackers, Tracks(pool, wb), NEW o \in Oblocks,
         dmcache_base_io_complete(o)
  PROVE  /\ PoolSound(pool)' /\ wb' \in Trackers /\ Tracks(pool, wb)' /\ UNCHANGED <<tick, result>>
         /\ \/ /\ UNCHANGED crashed
               /\ \E e \in pool.ht :
                    /\ pool.oblock[e] = o /\ pool'.allocated = pool.allocated
                    /\ pool'.oblock = pool.oblock /\ pool'.dirty = pool.dirty
                    /\ pool'.migrating = pool.migrating \ {e}
            \/ ~HasMoving(o) /\ crashed' = TRUE /\ UNCHANGED pool
<1>1. CASE migrated_entry_asserts(pool, Lookup(o))
  <2>1. PICK e : e = Lookup(o)
    OBVIOUS
  <2>2. e \in pool.migrating /\ e \in pool.ht /\ pool.oblock[e] = o
    <3>1. e # Null
      BY <1>1, <2>1, NucleusAssumption DEF migrated_entry_asserts, Cblocks
    <3> QED
      BY <1>1, <2>1, <3>1, EntryFacts DEF migrated_entry_asserts
  <2>3. pool' = migrated_entry(pool, e) /\ UNCHANGED <<wb, tick, result, crashed>>
    BY <1>1, <2>1 DEF dmcache_base_io_complete
  <2>4. /\ PoolSound(pool') /\ pool'.allocated = pool.allocated /\ pool'.oblock = pool.oblock
        /\ pool'.migrating = pool.migrating \ {e}
    BY <2>2, <2>3, MigratedSound
  <2>5. pool'.dirty = pool.dirty
    BY <2>3 DEF migrated_entry, PoolSound, Pools
  <2>6. wb' \in Trackers /\ Tracks(pool', wb')
    BY <2>3, <2>4, <2>5 DEF Tracks
  <2> QED
    BY <2>2, <2>3, <2>4, <2>5, <2>6
<1>2. CASE ~migrated_entry_asserts(pool, Lookup(o))
  <2>1. /\ crashed' = TRUE /\ UNCHANGED <<pool, wb, tick, result>>
    BY <1>2 DEF dmcache_base_io_complete, LogFatal
  <2>2. ~HasMoving(o)
    <3>1. ASSUME NEW c \in pool.migrating, pool.oblock[c] = o
          PROVE  FALSE
      <4>1. Lookup(o) = c /\ c \in pool.allocated /\ c \in Cblocks
        BY <3>1, EntryFacts DEF PoolSound, Pools
      <4>2. pool.nr_allocated > 0
        <5>1. pool.allocated \in SUBSET Cblocks /\ pool.nr_allocated = Cardinality(pool.allocated)
          BY DEF PoolSound, Pools
        <5>2. /\ Cardinality(pool.allocated) \in Nat /\ Cardinality(pool.allocated \ {c}) \in Nat
              /\ Cardinality(pool.allocated \ {c}) = Cardinality(pool.allocated) - 1
          BY <4>1, <5>1, CblocksFinite
        <5> QED
          BY <5>1, <5>2
      <4> QED
        BY <1>2, <3>1, <4>1, <4>2 DEF migrated_entry_asserts
    <3> QED
      BY <3>1 DEF HasMoving
  <2> QED
    BY <2>1, <2>2 DEF Tracks
<1> QED
  BY <1>1, <1>2

\* The target's own dirty bits keep calls from the policy, never add any.
LEMMA SetDirtyFacts ==
  ASSUME PoolSound(pool), wb \in Trackers, Tracks(pool, wb), NEW o \in Oblocks, NEW c \in Cblocks,
         dirty_bitset \subseteq Cblocks, set_dirty(o, c) \/ clear_dirty(o, c)
  PROVE  /\ PoolSound(pool)' /\ wb' \in Trackers /\ Tracks(pool, wb)'
         /\ SameEntries /\ UNCHANGED <<tick, result>> /\ dirty_bitset' \subseteq Cblocks
         /\ (UNCHANGED crashed \/ (~HasEntry(o) /\ crashed' = TRUE /\ UNCHANGED pool))
<1>1. dirty_bitset' \subseteq Cblocks
  BY DEF set_dirty, clear_dirty
<1>2. CASE UNCHANGED policyState
  BY <1>1, <1>2 DEF policyState, SameEntries, Tracks
<1>3. ASSUME NEW dirty \in BOOLEAN, dmcache_base_mark(o, dirty)
      PROVE  /\ PoolSound(pool)' /\ wb' \in Trackers /\ Tracks(pool, wb)'
             /\ SameEntries /\ UNCHANGED <<tick, result>>
             /\ (UNCHANGED crashed \/ (~HasEntry(o) /\ crashed' = TRUE /\ UNCHANGED pool))
  BY <1>3, MarkFacts
<1>4. UNCHANGED policyState \/ dmcache_base_mark(o, TRUE) \/ dmcache_base_mark(o, FALSE)
  BY DEF set_dirty, clear_dirty
<1> QED
  BY <1>1, <1>2, <1>3, <1>4

-----------------------------------------------------------------------------
(***************************************************************************)
(* The steps of the program.                                               *)
(***************************************************************************)
\* No two migrations concern one cache block.
OneMigrationPerCblock == \A m, n \in migrations : m.cblock = n.cblock => m = n

NothingMovesInPassthrough == mode = "passthrough" => pool.migrating = {}

\* A step that leaves the program running: what migrations do follows from RunInv.
LEMMA RunStep ==
  ASSUME BindInv', (migrations \subseteq MigrationRecords)', NothingMovesInPassthrough',
         OneMigrationPerCblock', InflightIsMoving', RunInv', ~crashed'
  PROVE  DmInv'
<1>1. DmNoAssertionFails'
  BY DEF DmNoAssertionFails
<1>2. MigrationsMatchPolicy'
  BY DEF MigrationsMatchPolicy, OneMigrationPerCblock, RunInv, MigrationMatches, MigrationRecords
<1> QED
  BY <1>1, <1>2 DEF DmInv, NothingMovesInPassthrough

\* A failed assertion: the policy is as it was, and no migration has begun.
LEMMA CrashStep ==
  ASSUME DmInv, ~crashed, crashed', BindInv', UNCHANGED <<pool, mode, faults>>,
         migrations' \subseteq migrations,
         mode = "writeback" => "clash" \in faults \/ ("copy" \in faults /\ ~HasHistory)
  PROVE  DmInv'
<1>1. DmNoAssertionFails'
  BY DEF DmNoAssertionFails
<1>2. MigrationsMatchPolicy'
  BY DEF MigrationsMatchPolicy, DmInv, RunInv, MigrationMatches, MigrationRecords
<1>3. InflightIsMoving'
  <2>1. CASE mode = "passthrough"
    BY <2>1 DEF DmInv, InflightIsMoving
  <2>2. CASE mode # "passthrough"
    BY <2>2, DmAssumption DEF DmInv, BindInv, InflightIsMoving
  <2> QED
    BY <2>1, <2>2
<1> QED
  BY <1>1, <1>2, <1>3 DEF DmInv

\* Start-up: nothing is under way.
LEMMA LoadMappingInv ==
  ASSUME DmInv, UNCHANGED faults, NEW o \in Oblocks, NEW c \in Cblocks, NEW dirty \in BOOLEAN,
         LoadMapping(o, c, dirty)
  PROVE  DmInv'
<1>1. /\ ~crashed /\ loading /\ (mode = "passthrough" => ~dirty)
      /\ dirty_bitset' = IF dirty THEN dirty_bitset \cup {c} ELSE dirty_bitset
      /\ UNCHANGED <<tick, tick_protected, result, crashed, mode, cells, migrations, worker,
                     mapper, loading>>
  BY DEF LoadMapping
<1>2. BindInv /\ RunInv
  BY <1>1 DEF DmInv
<1>3. /\ PoolSound(pool)' /\ wb' \in Trackers /\ Tracks(pool, wb)'
      /\ c \notin pool.allocated /\ pool'.allocated = pool.allocated \cup {c}
      /\ pool'.dirty \ {c} = pool.dirty \ {c} /\ (~dirty => c \notin pool'.dirty)
      /\ pool'.migrating = pool.migrating
  <2>1. PoolSound(pool) /\ wb \in Trackers /\ Tracks(pool, wb)
    BY <1>2 DEF BindInv
  <2> QED
    BY <2>1, LoadFacts
<1>4. migrations = {} /\ worker = Idle /\ \A t \in Mappers : mapper[t] = Idle
  BY <1>1, <1>2 DEF RunInv
<1>5. BindInv'
  BY <1>1, <1>2, <1>3 DEF BindInv
<1>6. NothingMovesInPassthrough' /\ OneMigrationPerCblock' /\ InflightIsMoving'
  BY <1>1, <1>3, <1>4
     DEF NothingMovesInPassthrough, OneMigrationPerCblock, InflightIsMoving, DmInv, Idle
<1>7. WorkerMatches' /\ MappersMatch' /\ CellsOwned'
  BY <1>1, <1>2, <1>4 DEF RunInv, WorkerMatches, MappersMatch, CellsOwned, Idle
<1>8. PassesThrough'
  BY <1>1, <1>2, <1>3, <1>4 DEF RunInv, PassesThrough, Idle
<1>9. RunInv'
  BY <1>1, <1>4, <1>7, <1>8 DEF RunInv
<1> QED
  BY <1>1, <1>4, <1>5, <1>6, <1>9, RunStep

\* A mapper detains a block that nobody holds.
LEMMA MapperDetainInv ==
  ASSUME DmInv, UNCHANGED faults, NEW t \in Mappers, NEW o \in Oblocks, MapperDetain(t, o)
  PROVE  DmInv'
<1>1. /\ ~crashed /\ mapper[t] = Idle /\ o \notin cells /\ cells' = cells \cup {o}
      /\ mapper' = [mapper EXCEPT ![t] = [at |-> "map", o |-> o]] /\ loading' = FALSE
      /\ UNCHANGED <<pool, wb, tick, result, crashed, tick_protected, mode, dirty_bitset,
                     migrations, worker>>
  BY DEF MapperDetain, policyState
<1>2. BindInv /\ RunInv
  BY <1>1 DEF DmInv
<1>3. BindInv'
  BY <1>1, <1>2 DEF BindInv, Tracks
<1>4. NothingMovesInPassthrough' /\ OneMigrationPerCblock' /\ InflightIsMoving'
  BY <1>1 DEF NothingMovesInPassthrough, OneMigrationPerCblock, InflightIsMoving, DmInv,
              MigrationsMatchPolicy
<1>5. \A mg \in migrations' : MigrationMatches(mg)'
  BY <1>1, <1>2 DEF RunInv, MigrationMatches, NotHashed
<1>6. WorkerMatches'
  BY <1>1, <1>2 DEF RunInv, WorkerMatches, HasEntry, HasMoving, NotHashed, IsBlockOf
<1>7. MappersMatch'
  BY <1>1, <1>2 DEF RunInv, MappersMatch, MapperRecords, HasEntry
<1>8. CellsOwned'
  BY <1>1, <1>2 DEF RunInv, CellsOwned, IsBlockOf, MappersMatch, MapperRecords, Idle
<1>9. PassesThrough'
  BY <1>1, <1>2 DEF RunInv, PassesThrough, MappersMatch, MapperRecords
<1>10. RunInv'
  BY <1>1, <1>5, <1>6, <1>7, <1>8, <1>9 DEF RunInv
<1> QED
  BY <1>1, <1>3, <1>4, <1>10, RunStep DEF DmInv

\* A mapper lets go of its block, whatever it was doing with it; the entries are as
\* they were.
LEMMA MapperReleases ==
  ASSUME DmInv, NEW t \in Mappers, ~crashed, ~crashed', mapper[t].at # "idle", BindInv',
         SameEntries, PassesThrough',
         mapper' = [mapper EXCEPT ![t] = Idle], cells' = cells \ {mapper[t].o},
         UNCHANGED <<mode, migrations, worker, loading, faults>>
  PROVE  DmInv'
<1>1. BindInv /\ RunInv
  BY DEF DmInv
<1>2. SameEntries /\ pool'.ht = pool.ht
  BY DEF SameEntries
<1>3. NothingMovesInPassthrough' /\ OneMigrationPerCblock' /\ InflightIsMoving'
  BY <1>2 DEF NothingMovesInPassthrough, OneMigrationPerCblock, InflightIsMoving, DmInv,
              MigrationsMatchPolicy, SameEntries
<1>4. \A mg \in migrations' : MigrationMatches(mg)'
  BY <1>1, <1>2 DEF RunInv, MigrationMatches, NotHashed, SameEntries
<1>5. WorkerMatches'
  BY <1>1, <1>2 DEF RunInv, WorkerMatches, HasEntry, HasMoving, NotHashed, IsBlockOf, SameEntries
<1>6. MappersMatch'
  BY <1>1, <1>2 DEF RunInv, MappersMatch, MapperRecords, HasEntry, SameEntries, Idle
<1>7. CellsOwned'
  BY <1>1, <1>2 DEF RunInv, CellsOwned, IsBlockOf, MappersMatch, MapperRecords, Idle
<1>8. loading' => \A u \in Mappers : mapper'[u] = Idle
  BY <1>1 DEF RunInv, Idle
<1>9. RunInv'
  BY <1>1, <1>4, <1>5, <1>6, <1>7, <1>8 DEF RunInv
<1> QED
  BY <1>3, <1>9, RunStep DEF DmInv

\* The lock is taken: the mapper gives up.
LEMMA MapperLockFailsInv ==
  ASSUME DmInv, UNCHANGED faults, NEW t \in Mappers, MapperLockFails(t)
  PROVE  DmInv'
<1>1. /\ ~crashed /\ mapper[t].at = "map" /\ cells' = cells \ {mapper[t].o}
      /\ mapper' = [mapper EXCEPT ![t] = Idle]
      /\ UNCHANGED <<pool, wb, tick, result, crashed, tick_protected, mode, dirty_bitset,
                     migrations, worker, loading>>
  BY DEF MapperLockFails, policyState
<1>2. BindInv /\ RunInv
  BY <1>1 DEF DmInv
<1>3. BindInv'
  BY <1>1, <1>2 DEF BindInv, Tracks
<1>4. SameEntries /\ PassesThrough'
  BY <1>1, <1>2 DEF SameEntries, RunInv, PassesThrough, MappersMatch, Idle
<1> QED
  BY <1>1, <1>3, <1>4, MapperReleases

\* A mapper asks the policy: it may not evict, so the entries are as they were.
LEMMA MapperMapInv ==
  ASSUME DmInv, UNCHANGED faults, NEW t \in Mappers, NEW write \in BOOLEAN, MapperMap(t, write)
  PROVE  DmInv'
<1> DEFINE o == mapper[t].o
<1>1. /\ ~crashed /\ mapper[t].at = "map" /\ dmcache_base_map(o, FALSE)
      /\ UNCHANGED <<tick_protected, mode, dirty_bitset, migrations, worker, loading>>
  BY DEF MapperMap
<1>2. BindInv /\ RunInv
  BY <1>1 DEF DmInv
<1>3. o \in Oblocks /\ mapper[t].at # "idle"
  BY <1>1, <1>2 DEF RunInv, MappersMatch, MapperRecords, Idle
<1>4. /\ PoolSound(pool)' /\ wb' \in Trackers /\ Tracks(pool, wb)' /\ pool' = pool
      /\ result' \in Results /\ tick' = tick_protected /\ crashed' = crashed
      /\ result'.op = "HIT" => result'.cblock \in pool.ht /\ pool.oblock[result'.cblock] = o
  BY <1>1, <1>2, <1>3, MapFacts DEF BindInv
<1>5. SameEntries
  BY <1>4 DEF SameEntries
<1>6. CASE ~(result'.op = "HIT" /\ write /\ mode # "passthrough")
  <2>1. mapper' = [mapper EXCEPT ![t] = Idle] /\ cells' = cells \ {o}
    BY <1>6 DEF MapperMap
  <2>2. BindInv'
    BY <1>1, <1>2, <1>4, <2>1 DEF BindInv
  <2>3. PassesThrough'
    BY <1>1, <1>2, <1>4, <2>1 DEF RunInv, PassesThrough, MappersMatch, Idle
  <2> QED
    BY <1>1, <1>3, <1>4, <1>5, <2>1, <2>2, <2>3, MapperReleases
<1>7. CASE result'.op = "HIT" /\ write /\ mode # "passthrough"
  <2>1. /\ mapper' = [mapper EXCEPT ![t] = [at |-> "write", o |-> o, c |-> result'.cblock]]
        /\ cells' = cells
    <3>1. o \in cells
      BY <1>2, <1>3 DEF RunInv, CellsOwned
    <3> QED
      BY <1>7, <3>1 DEF MapperMap, cells_of_hit
  <2>2. BindInv'
    BY <1>1, <1>2, <1>4, <2>1 DEF BindInv
  <2>3. NothingMovesInPassthrough' /\ OneMigrationPerCblock' /\ InflightIsMoving'
    BY <1>1, <1>4 DEF NothingMovesInPassthrough, OneMigrationPerCblock, InflightIsMoving, DmInv,
                      MigrationsMatchPolicy
  <2>4. \A mg \in migrations' : MigrationMatches(mg)'
    BY <1>1, <1>2, <1>4 DEF RunInv, MigrationMatches, NotHashed
  <2>5. WorkerMatches'
    BY <1>1, <1>2, <1>4 DEF RunInv, WorkerMatches, HasEntry, HasMoving, NotHashed, IsBlockOf
  <2>6. MappersMatch'
    <3>1. result'.cblock \in Cblocks /\ HasEntry(o)
      BY <1>2, <1>4, <1>7 DEF HasEntry, BindInv, PoolSound, Pools
    <3> QED
      BY <1>2, <1>3, <1>4, <2>1, <3>1 DEF RunInv, MappersMatch, MapperRecords, HasEntry
  <2>7. CellsOwned'
    BY <1>1, <1>2, <1>3, <2>1 DEF RunInv, CellsOwned, IsBlockOf, MappersMatch, MapperRecords, Idle
  <2>8. PassesThrough'
    BY <1>1, <1>7 DEF PassesThrough
  <2>9. ~loading
    BY <1>1, <1>2 DEF RunInv, Idle
  <2>10. RunInv'
    BY <1>1, <2>4, <2>5, <2>6, <2>7, <2>8, <2>9 DEF RunInv
  <2> QED
    BY <1>1, <1>4, <2>2, <2>3, <2>10, RunStep DEF DmInv
<1> QED
  BY <1>6, <1>7

\* A mapper tells the policy of its write: the block is still cached, unless the worker
\* evicts blocks that are detained.
LEMMA MapperWriteInv ==
  ASSUME DmInv, UNCHANGED faults, NEW t \in Mappers, MapperWrite(t)
  PROVE  DmInv'
<1> DEFINE o == mapper[t].o
<1>1. /\ ~crashed /\ mapper[t].at = "write" /\ set_dirty(o, mapper[t].c)
      /\ mapper' = [mapper EXCEPT ![t] = Idle] /\ cells' = cells \ {o}
      /\ UNCHANGED <<tick_protected, mode, migrations, worker, loading>>
  BY DEF MapperWrite
<1>2. BindInv /\ RunInv
  BY <1>1 DEF DmInv
<1>3. /\ o \in Oblocks /\ mapper[t].c \in Cblocks /\ mapper[t].at # "idle"
      /\ mode # "passthrough" /\ ("clash" \notin faults => HasEntry(o))
  BY <1>1, <1>2 DEF RunInv, MappersMatch, MapperRecords, Idle, PassesThrough
<1>4. /\ PoolSound(pool)' /\ wb' \in Trackers /\ Tracks(pool, wb)'
      /\ SameEntries /\ UNCHANGED <<tick, result>> /\ dirty_bitset' \subseteq Cblocks
      /\ (UNCHANGED crashed \/ (~HasEntry(o) /\ crashed' = TRUE /\ UNCHANGED pool))
  BY <1>1, <1>2, <1>3, SetDirtyFacts DEF BindInv
<1>5. BindInv'
  BY <1>1, <1>2, <1>4 DEF BindInv
<1>6. CASE UNCHANGED crashed
  <2>1. PassesThrough'
    BY <1>1, <1>3 DEF PassesThrough
  <2> QED
    BY <1>1, <1>3, <1>4, <1>5, <1>6, <2>1, MapperReleases
<1>7. CASE ~HasEntry(o) /\ crashed' = TRUE /\ UNCHANGED pool
  BY <1>1, <1>3, <1>5, <1>7, CrashStep
<1> QED
  BY <1>4, <1>6, <1>7

\* Nobody but the worker is between two calls for block o, which is not detained.
Undetained(o) ==
  /\ o \in Oblocks /\ o \notin cells
  /\ \A mg \in migrations : ~IsBlockOf(o, mg)
  /\ \A t \in Mappers : mapper[t].at # "idle" => mapper[t].o # o

LEMMA UndetainedFacts ==
  ASSUME BindInv, RunInv, NEW o \in Oblocks, o \notin cells
  PROVE  Undetained(o)
BY DEF RunInv, CellsOwned, Undetained

\* The worker's request is answered with a hit or a refusal, and it goes on alone.
LEMMA WorkerMapGoesOn ==
  ASSUME DmInv, ~crashed, ~crashed', worker = Idle, NEW o \in Oblocks, o \notin cells, BindInv',
         UNCHANGED <<pool, mode, migrations, mapper, faults>>, loading' = FALSE,
         \/ UNCHANGED <<worker, cells>>
         \/ /\ worker'.at = "write" /\ worker'.o = o /\ worker'.c \in Cblocks
            /\ HasEntry(o) /\ mode # "passthrough" /\ cells' = cells \cup {o}
  PROVE  DmInv'
<1>1. BindInv /\ RunInv /\ Undetained(o)
  BY UndetainedFacts DEF DmInv
<1>2. NothingMovesInPassthrough' /\ OneMigrationPerCblock' /\ InflightIsMoving'
  BY DEF NothingMovesInPassthrough, OneMigrationPerCblock, InflightIsMoving, DmInv,
         MigrationsMatchPolicy, Idle
<1>3. \A mg \in migrations' : MigrationMatches(mg)'
  BY <1>1 DEF RunInv, MigrationMatches, NotHashed, Idle
<1>4. WorkerMatches'
  BY <1>1 DEF RunInv, WorkerMatches, HasEntry, HasMoving, NotHashed, IsBlockOf, Idle
<1>5. MappersMatch'
  BY <1>1 DEF RunInv, MappersMatch, HasEntry
<1>6. CellsOwned'
  BY <1>1 DEF RunInv, CellsOwned, IsBlockOf, Undetained, Idle
<1>7. PassesThrough'
  BY <1>1 DEF RunInv, PassesThrough
<1>8. RunInv'
  BY <1>3, <1>4, <1>5, <1>6, <1>7 DEF RunInv
<1> QED
  BY <1>2, <1>8, RunStep DEF DmInv

\* The worker has a migration begin, of blocks that nobody holds; the entries are as
\* they were.
LEMMA MigrationBegins ==
  ASSUME DmInv, ~crashed, ~crashed', worker = Idle, BindInv', SameEntries, PassesThrough',
         NEW o \in Oblocks, o \notin cells, NEW mg \in MigrationRecords,
         mg.cblock \in pool.ht /\ pool.oblock[mg.cblock] = o,
         \/ mg.kind = "writeback" /\ mg.old = o /\ mg.new = Null /\ mode # "passthrough"
         \/ mg.kind = "invalidate" /\ mg.old = Null /\ mg.new = o /\ mode = "passthrough",
         migrations' = migrations \cup {mg}, cells' = cells \cup {o},
         UNCHANGED <<mode, worker, mapper, faults>>, loading' = FALSE
  PROVE  DmInv'
<1>1. BindInv /\ RunInv /\ Undetained(o)
  BY UndetainedFacts DEF DmInv
<1>2. Null \notin Oblocks
  BY NucleusAssumption
<1>3. \A m \in migrations : m.cblock # mg.cblock
  <2>1. SUFFICES ASSUME NEW m \in migrations, m.cblock = mg.cblock
                 PROVE  FALSE
    OBVIOUS
  <2>2. MigrationMatches(m) /\ ~IsBlockOf(o, m) /\ m \in MigrationRecords
    BY <1>1 DEF RunInv, Undetained, DmInv
  <2> QED
    BY <1>2, <2>1, <2>2 DEF MigrationMatches, IsBlockOf, MigrationRecords, Idle
<1>4. NothingMovesInPassthrough' /\ InflightIsMoving'
  BY DEF NothingMovesInPassthrough, InflightIsMoving, DmInv, SameEntries, Idle
<1>5. OneMigrationPerCblock'
  BY <1>3 DEF OneMigrationPerCblock, DmInv, MigrationsMatchPolicy
<1>6. \A m \in migrations' : MigrationMatches(m)'
  <2>1. \A m \in migrations : MigrationMatches(m)'
    BY <1>1 DEF RunInv, MigrationMatches, NotHashed, SameEntries
  <2>2. faults = {} => mg.cblock \notin pool.migrating
    BY <1>3 DEF DmInv, InflightIsMoving, Idle
  <2>3. MigrationMatches(mg)'
    BY <1>2, <2>2 DEF MigrationMatches, SameEntries
  <2> QED
    BY <2>1, <2>3
<1>7. WorkerMatches' /\ MappersMatch'
  BY <1>1 DEF RunInv, WorkerMatches, MappersMatch, HasEntry, SameEntries, Idle
<1>8. CellsOwned'
  BY <1>1, <1>2 DEF RunInv, CellsOwned, IsBlockOf, Undetained, Idle
<1>9. RunInv'
  BY <1>6, <1>7, <1>8 DEF RunInv
<1> QED
  BY <1>4, <1>5, <1>9, RunStep DEF DmInv

\* The worker's request is answered with a cache block for block o, whose former
\* block old, if it had one, is evicted.  Either a migration begins, or old is held by
\* somebody and the worker is going to take the answer back.
LEMMA WorkerAdmits ==
  ASSUME DmInv, ~crashed, ~crashed', worker = Idle, mode # "passthrough", BindInv',
         NEW o \in Oblocks, o \notin cells, NEW e, Admits(o, e), NEW old,
         IF e \in pool.allocated THEN old = pool.oblock[e] ELSE old = Null,
         UNCHANGED <<mode, mapper, faults>>, loading' = FALSE,
         \/ /\ old \notin cells /\ UNCHANGED worker
            /\ \E mg \in MigrationRecords :
                 /\ mg.kind = IF old = Null THEN "promote" ELSE "demote"
                 /\ mg.old = old /\ mg.new = o /\ mg.cblock = e
                 /\ migrations' = migrations \cup {mg}
            /\ cells' = cells \cup {o} \cup ({old} \ {Null})
         \/ /\ old \in cells /\ "clash" \in faults /\ UNCHANGED migrations
            /\ worker' = [at |-> "roll_back", o |-> o, c |-> e, old |-> old]
            /\ cells' = cells \cup {o}
  PROVE  DmInv'
<1>1. BindInv /\ RunInv /\ Undetained(o)
  BY UndetainedFacts DEF DmInv
<1>2. Null \notin Oblocks /\ cells \subseteq Oblocks
  BY <1>1, NucleusAssumption DEF BindInv
<1>3. /\ pool.ht = pool.allocated /\ pool'.ht = pool'.allocated
      /\ pool.oblock \in [Cblocks -> Oblocks \cup {Null}] /\ pool.allocated \subseteq Cblocks
      /\ pool.migrating \subseteq pool.allocated
      /\ \A c \in pool.ht : pool.oblock[c] \in Oblocks
      /\ \A c, d \in pool.ht : pool.oblock[c] = pool.oblock[d] => c = d
  BY <1>1 DEF BindInv, PoolSound, Pools
<1>4. /\ e \in Cblocks \ pool.migrating /\ NotHashed(pool, o)
      /\ pool'.allocated = pool.allocated \cup {e} /\ pool'.dirty = pool.dirty \ {e}
      /\ pool'.oblock = [pool.oblock EXCEPT ![e] = o]
      /\ pool'.migrating = pool.migrating \cup {e}
  BY DEF Admits
<1>5. /\ old = Null <=> e \notin pool.allocated
      /\ old # Null => old \in Oblocks /\ old # o
      /\ \A b \in Oblocks : b # o => (NotHashed(pool', b) <=> NotHashed(pool, b) \/ b = old)
      /\ ~NotHashed(pool', o)
  <2>1. old = Null <=> e \notin pool.allocated
    BY <1>2, <1>3
  <2>2. old # Null => old \in Oblocks /\ old # o
    BY <2>1, <1>3, <1>4 DEF NotHashed
  <2>3. ASSUME NEW b \in Oblocks, b # o
        PROVE  NotHashed(pool', b) <=> NotHashed(pool, b) \/ b = old
    BY <2>1, <2>3, <1>2, <1>3, <1>4 DEF NotHashed
  <2>4. ~NotHashed(pool', o)
    BY <1>3, <1>4 DEF NotHashed
  <2> QED
    BY <2>1, <2>2, <2>3, <2>4
<1>6. \A b \in Oblocks : b # o => (HasEntry(b)' <=> HasEntry(b) /\ b # old)
  BY <1>5 DEF HasEntry, NotHashed
<1>7. \A mg \in migrations : mg.cblock = e => mg.kind = "writeback" /\ mg.old = old /\ old \in cells
  <2>1. SUFFICES ASSUME NEW mg \in migrations, mg.cblock = e
                 PROVE  mg.kind = "writeback" /\ mg.old = old /\ old \in cells
    OBVIOUS
  <2>2. MigrationMatches(mg) /\ mg \in MigrationRecords
    BY <1>1 DEF RunInv, DmInv
  <2>3. mg.kind = "writeback" /\ mg.old # Null /\ e \in pool.ht /\ pool.oblock[e] = mg.old
    BY <1>4, <2>1, <2>2 DEF MigrationMatches, MigrationRecords, Idle
  <2>4. mg.old \in Oblocks /\ IsBlockOf(mg.old, mg)
    BY <2>2, <2>3 DEF MigrationRecords, IsBlockOf
  <2> QED
    BY <1>1, <1>3, <2>3, <2>4 DEF RunInv, CellsOwned
<1>8. NothingMovesInPassthrough' /\ PassesThrough'
  BY DEF NothingMovesInPassthrough, PassesThrough
<1>9. OneMigrationPerCblock'
  BY <1>7 DEF OneMigrationPerCblock, DmInv, MigrationsMatchPolicy
<1>10. InflightIsMoving'
  BY <1>4 DEF InflightIsMoving, DmInv, Idle
<1>11. \A mg \in migrations : MigrationMatches(mg)'
  <2>1. SUFFICES ASSUME NEW mg \in migrations
                 PROVE  MigrationMatches(mg)'
    OBVIOUS
  <2>2. /\ MigrationMatches(mg) /\ mg \in MigrationRecords /\ ~IsBlockOf(o, mg)
        /\ mg.old # Null => mg.old \in cells
    BY <1>1 DEF RunInv, DmInv, Undetained, CellsOwned, IsBlockOf, MigrationRecords
  <2>3. CASE mg.kind = "writeback"
    <3>1. mg.cblock \in pool.ht /\ pool.oblock[mg.cblock] = mg.old /\ mg.old # Null /\ mg.new = Null
      BY <2>2, <2>3 DEF MigrationMatches, Idle
    <3>2. CASE mg.cblock # e
      BY <1>3, <1>4, <2>2, <2>3, <3>1, <3>2 DEF MigrationMatches
    <3>3. CASE mg.cblock = e
      BY <1>7, <2>2, <2>3, <3>1, <3>3 DEF MigrationMatches
    <3> QED
      BY <3>2, <3>3
  <2>4. CASE mg.kind = "demote"
    <3>1. mg.old # Null /\ NotHashed(pool, mg.old) /\ mg.old \in Oblocks /\ mg.old # o
      BY <2>2, <2>4 DEF MigrationMatches, MigrationRecords, IsBlockOf
    <3>2. NotHashed(pool', mg.old)
      BY <1>5, <3>1
    <3>3. worker'.at = "roll_back" => worker'.old # mg.old
      BY <1>2, <1>3, <3>1 DEF NotHashed, Idle
    <3> QED
      BY <1>3, <1>4, <2>2, <2>4, <3>2, <3>3 DEF MigrationMatches, MigrationRecords
  <2>5. CASE mg.kind \notin {"writeback", "demote"}
    BY <1>3, <1>4, <2>2, <2>5 DEF MigrationMatches, MigrationRecords
  <2> QED
    BY <2>3, <2>4, <2>5
<1>12. \A mg \in migrations' : MigrationMatches(mg)'
  <2>1. SUFFICES ASSUME NEW mg \in migrations', mg \notin migrations
                 PROVE  MigrationMatches(mg)'
    BY <1>11
  <2>2. /\ mg.kind = IF old = Null THEN "promote" ELSE "demote"
        /\ mg.old = old /\ mg.new = o /\ mg.cblock = e /\ worker' = worker
    BY <2>1
  <2>3. old # Null => NotHashed(pool', old)
    BY <1>5
  <2>4. e \in pool'.migrating /\ pool'.oblock[e] = o /\ o # Null
    BY <1>2, <1>3, <1>4
  <2> QED
    BY <1>5, <2>2, <2>3, <2>4 DEF MigrationMatches, Idle
<1>13. WorkerMatches'
  <2>1. CASE UNCHANGED worker
    BY <2>1 DEF WorkerMatches, Idle
  <2>2. CASE worker' = [at |-> "roll_back", o |-> o, c |-> e, old |-> old] /\ old \in cells
             /\ "clash" \in faults
    <3>1. e \in pool'.migrating /\ pool'.oblock[e] = o /\ old \in Oblocks /\ NotHashed(pool', old)
      BY <1>2, <1>3, <1>4, <1>5, <2>2
    <3> QED
      BY <2>2, <3>1 DEF WorkerMatches
  <2> QED
    BY <2>1, <2>2
<1>14. MappersMatch'
  <2>1. ASSUME NEW t \in Mappers, mapper[t].at = "write", "clash" \notin faults
        PROVE  HasEntry(mapper[t].o)'
    <3>1. /\ HasEntry(mapper[t].o) /\ mapper[t].o \in cells /\ mapper[t].o \in Oblocks
          /\ mapper[t].o # o
      BY <1>1, <1>2, <2>1 DEF RunInv, MappersMatch, CellsOwned
    <3>2. old \notin cells
      BY <2>1
    <3> QED
      BY <1>6, <3>1, <3>2
  <2> QED
    BY <1>1, <2>1 DEF RunInv, MappersMatch
<1>15. CellsOwned'
  <2>1. old # Null /\ old \notin cells => Undetained(old)
    BY <1>1, <1>5, UndetainedFacts
  <2>2. CASE UNCHANGED worker
    BY <1>1, <1>2, <1>5, <2>1, <2>2 DEF RunInv, CellsOwned, IsBlockOf, Undetained, Idle
  <2>3. CASE ~UNCHANGED worker
    <3>1. UNCHANGED migrations /\ worker'.at = "roll_back" /\ worker'.o = o /\ cells' = cells \cup {o}
      BY <2>3
    <3> QED
      BY <1>1, <3>1 DEF RunInv, CellsOwned, IsBlockOf, Undetained
  <2> QED
    BY <2>2, <2>3
<1>16. RunInv'
  BY <1>8, <1>12, <1>13, <1>14, <1>15 DEF RunInv
<1>17. migrations' \subseteq MigrationRecords
  BY DEF DmInv
<1> QED
  BY <1>8, <1>9, <1>10, <1>16, <1>17, RunStep

\* The worker's request, in all cases.
LEMMA WorkerMapInv ==
  ASSUME DmInv, UNCHANGED faults, NEW o \in Oblocks, NEW write \in BOOLEAN,
         NEW can_migrate \in BOOLEAN, WorkerMap(o, write, can_migrate)
  PROVE  DmInv'
<1> DEFINE hold(kind, old) ==
             /\ migrations' = migrations \cup {Migration(kind, old, o, result'.cblock)}
             /\ cells' = cells \cup {o} \cup ({old} \ {Null})
             /\ UNCHANGED worker
           go_on(at) ==
             /\ worker' = [at |-> at, o |-> o, c |-> result'.cblock, old |-> result'.old_oblock]
             /\ cells' = cells \cup {o}
             /\ UNCHANGED migrations
<1>1. /\ ~crashed /\ worker = Idle /\ o \notin cells /\ (mode = "passthrough" => ~can_migrate)
      /\ dmcache_base_map(o, can_migrate) /\ loading' = FALSE
      /\ UNCHANGED <<tick_protected, mode, dirty_bitset, mapper>>
  BY DEF WorkerMap
<1>2. (CASE result'.op = "HIT" /\ write /\ mode # "passthrough" -> go_on("write")
         [] result'.op = "HIT" /\ write /\ mode = "passthrough"  -> hold("invalidate", Null)
         [] result'.op = "NEW" -> hold("promote", Null)
         [] result'.op = "REPLACE" /\ result'.old_oblock \notin cells ->
              hold("demote", result'.old_oblock)
         [] result'.op = "REPLACE" /\ result'.old_oblock \in cells ->
              "clash" \in faults /\ go_on("roll_back")
         [] OTHER -> UNCHANGED <<cells, migrations, worker>>)
  BY DEF WorkerMap
<1> HIDE DEF hold, go_on
<1>3. BindInv /\ RunInv
  BY <1>1 DEF DmInv
<1>4. PoolSound(pool) /\ wb \in Trackers /\ Tracks(pool, wb)
  BY <1>3 DEF BindInv
<1>5. PICK c : c = result'.cblock
  OBVIOUS
<1>6. /\ PoolSound(pool)' /\ wb' \in Trackers /\ Tracks(pool, wb)'
      /\ result' \in Results /\ tick' = tick_protected /\ UNCHANGED crashed
      /\ \/ /\ result'.op = "HIT" /\ UNCHANGED pool /\ result'.old_oblock = Null
            /\ c \in pool.ht /\ pool.oblock[c] = o
         \/ result'.op = "FAIL" /\ UNCHANGED pool
         \/ /\ result'.op = "NEW" /\ can_migrate /\ Admits(o, c)
            /\ c \notin pool.allocated /\ result'.old_oblock = Null
         \/ /\ result'.op = "REPLACE" /\ can_migrate /\ Admits(o, c)
            /\ c \in pool.allocated /\ result'.old_oblock = pool.oblock[c]
  BY <1>1, <1>4, <1>5, MapFacts
<1>7. ~crashed' /\ (can_migrate => mode # "passthrough") /\ c \in Cblocks \cup {Null}
  BY <1>1, <1>5, <1>6 DEF Results
<1>8. cells' \subseteq Oblocks => BindInv'
  BY <1>1, <1>3, <1>6 DEF BindInv
<1>9. cells \subseteq Oblocks /\ pool.ht \subseteq Cblocks
  BY <1>3 DEF BindInv, PoolSound, Pools
<1>10. CASE result'.op = "HIT" /\ write /\ mode # "passthrough"
  <2>1. go_on("write")
    BY <1>2, <1>10
  <2>2. /\ worker'.at = "write" /\ worker'.o = o /\ worker'.c = c
        /\ cells' = cells \cup {o} /\ UNCHANGED migrations
    BY <1>5, <2>1 DEF go_on
  <2>3. c \in Cblocks /\ HasEntry(o) /\ UNCHANGED pool
    BY <1>6, <1>9, <1>10 DEF HasEntry
  <2> QED
    BY <1>1, <1>7, <1>8, <1>9, <1>10, <2>2, <2>3, WorkerMapGoesOn
<1>11. CASE result'.op = "HIT" /\ write /\ mode = "passthrough"
  <2>1. hold("invalidate", Null)
    BY <1>2, <1>11
  <2>2. PICK mg : mg = Migration("invalidate", Null, o, c)
    OBVIOUS
  <2>3. /\ migrations' = migrations \cup {mg} /\ cells' = cells \cup {o} /\ UNCHANGED worker
    BY <1>5, <2>1, <2>2 DEF hold
  <2>4. UNCHANGED pool /\ c \in pool.ht /\ pool.oblock[c] = o /\ c \in Cblocks
    BY <1>6, <1>9, <1>11
  <2>5. /\ mg \in MigrationRecords /\ mg.kind = "invalidate" /\ mg.old = Null /\ mg.new = o
        /\ mg.cblock = c
    BY <2>2, <2>4 DEF Migration, MigrationRecords
  <2>6. SameEntries /\ PassesThrough'
    BY <1>1, <1>3, <2>3, <2>4 DEF SameEntries, RunInv, PassesThrough
  <2>7. BindInv'
    BY <1>8, <1>9, <2>3
  <2> QED
    BY <1>1, <1>7, <1>11, <2>3, <2>4, <2>5, <2>6, <2>7, MigrationBegins
<1>12. CASE result'.op = "NEW"
  <2>1. hold("promote", Null)
    BY <1>2, <1>12
  <2>2. PICK mg : mg = Migration("promote", Null, o, c)
    OBVIOUS
  <2>3. /\ migrations' = migrations \cup {mg} /\ UNCHANGED worker
        /\ cells' = cells \cup {o} \cup ({Null} \ {Null})
    BY <1>5, <2>1, <2>2 DEF hold
  <2>4. c \notin pool.allocated /\ Admits(o, c) /\ mode # "passthrough" /\ c \in Cblocks
    BY <1>6, <1>7, <1>12 DEF Admits
  <2>5. /\ mg \in MigrationRecords /\ mg.kind = "promote" /\ mg.old = Null /\ mg.new = o
        /\ mg.cblock = c
    BY <2>2, <2>4 DEF Migration, MigrationRecords
  <2>6. BindInv' /\ Null \notin cells
    BY <1>8, <1>9, <2>3, NucleusAssumption
  <2> QED
    BY <1>1, <1>7, <2>3, <2>4, <2>5, <2>6, WorkerAdmits
<1>13. CASE result'.op = "REPLACE"
  <2>1. PICK old : old = result'.old_oblock
    OBVIOUS
  <2>2. /\ c \in pool.allocated /\ Admits(o, c) /\ mode # "passthrough" /\ c \in Cblocks
        /\ old = pool.oblock[c]
    BY <1>6, <1>7, <1>13, <2>1 DEF Admits
  <2>3. old \in Oblocks /\ old # Null
    BY <1>4, <2>2, NucleusAssumption DEF PoolSound
  <2>4. CASE old \notin cells
    <3>1. hold("demote", old)
      BY <1>2, <1>13, <2>1, <2>4
    <3>2. PICK mg : mg = Migration("demote", old, o, c)
      OBVIOUS
    <3>3. /\ migrations' = migrations \cup {mg} /\ UNCHANGED worker
          /\ cells' = cells \cup {o} \cup ({old} \ {Null})
      BY <1>5, <3>1, <3>2 DEF hold
    <3>4. /\ mg \in MigrationRecords /\ mg.kind = "demote" /\ mg.old = old /\ mg.new = o
          /\ mg.cblock = c
      BY <2>2, <2>3, <3>2 DEF Migration, MigrationRecords
    <3>5. BindInv'
      BY <1>8, <1>9, <2>3, <3>3
    <3> QED
      BY <1>1, <1>7, <2>2, <2>3, <2>4, <3>3, <3>4, <3>5, WorkerAdmits
  <2>5. CASE old \in cells
    <3>1. "clash" \in faults /\ go_on("roll_back")
      BY <1>2, <1>13, <2>1, <2>5
    <3>2. /\ worker' = [at |-> "roll_back", o |-> o, c |-> c, old |-> old]
          /\ cells' = cells \cup {o} /\ UNCHANGED migrations
      BY <1>5, <2>1, <3>1 DEF go_on
    <3>3. BindInv'
      BY <1>8, <1>9, <3>2
    <3> QED
      BY <1>1, <1>7, <2>2, <2>5, <3>1, <3>2, <3>3, WorkerAdmits
  <2> QED
    BY <2>4, <2>5
<1>14. CASE result'.op = "FAIL" \/ (result'.op = "HIT" /\ ~write)
  <2>1. UNCHANGED <<cells, migrations, worker>>
    BY <1>2, <1>14
  <2>2. UNCHANGED pool
    BY <1>6, <1>14
  <2> QED
    BY <1>1, <1>7, <1>8, <1>9, <2>1, <2>2, WorkerMapGoesOn
<1> QED
  BY <1>6, <1>10, <1>11, <1>12, <1>13, <1>14

\* The worker has the oldest dirty block written back, unless somebody holds it.
LEMMA WorkerWritebackInv ==
  ASSUME DmInv, UNCHANGED faults, WorkerWriteback
  PROVE  DmInv'
<1>1. PICK c : c = Head(wb.dirty)
  OBVIOUS
<1>2. PICK o : o = pool.oblock[c]
  OBVIOUS
<1>3. /\ ~crashed /\ worker = Idle /\ dmcache_base_writeback_work /\ loading' = FALSE
      /\ UNCHANGED <<tick_protected, mode, dirty_bitset, mapper>>
      /\ IF o \in cells
           THEN /\ worker' = [at |-> "set_dirty", o |-> o] /\ UNCHANGED <<cells, migrations>>
           ELSE /\ cells' = cells \cup {o} /\ UNCHANGED worker
                /\ migrations' = migrations \cup {Migration("writeback", o, Null, c)}
  BY <1>1, <1>2 DEF WorkerWriteback
<1>4. BindInv /\ RunInv
  BY <1>3 DEF DmInv
<1>5. /\ PoolSound(pool)' /\ wb' \in Trackers /\ Tracks(pool, wb)'
      /\ c \in pool.allocated \cap pool.dirty
      /\ SameEntries /\ UNCHANGED <<tick, result, crashed>>
  BY <1>1, <1>3, <1>4, WritebackFacts DEF BindInv
<1>6. /\ c \in Cblocks /\ c \in pool.ht /\ o \in Oblocks /\ HasEntry(o)
      /\ mode # "passthrough" /\ PassesThrough'
  BY <1>2, <1>3, <1>4, <1>5 DEF BindInv, PoolSound, Pools, HasEntry, RunInv, PassesThrough
<1>7. BindInv'
  BY <1>3, <1>4, <1>5, <1>6 DEF BindInv
<1>8. CASE o \notin cells
  <2>1. PICK mg : mg = Migration("writeback", o, Null, c)
    OBVIOUS
  <2>2. /\ mg \in MigrationRecords /\ mg.kind = "writeback" /\ mg.old = o /\ mg.new = Null
        /\ mg.cblock = c
    BY <1>6, <2>1 DEF Migration, MigrationRecords
  <2> QED
    BY <1>2, <1>3, <1>5, <1>6, <1>7, <1>8, <2>1, <2>2, MigrationBegins
<1>9. CASE o \in cells
  <2>1. worker' = [at |-> "set_dirty", o |-> o] /\ UNCHANGED <<cells, migrations>>
    BY <1>3, <1>9
  <2>2. NothingMovesInPassthrough' /\ OneMigrationPerCblock' /\ InflightIsMoving'
    BY <1>3, <1>5, <2>1
       DEF NothingMovesInPassthrough, OneMigrationPerCblock, InflightIsMoving, DmInv,
           MigrationsMatchPolicy, SameEntries, Idle
  <2>3. \A mg \in migrations' : MigrationMatches(mg)'
    BY <1>3, <1>4, <1>5, <2>1 DEF RunInv, MigrationMatches, NotHashed, SameEntries, Idle
  <2>4. WorkerMatches'
    BY <1>5, <1>6, <2>1 DEF WorkerMatches, HasEntry, SameEntries
  <2>5. MappersMatch' /\ CellsOwned'
    BY <1>3, <1>4, <1>5, <2>1 DEF RunInv, MappersMatch, CellsOwned, HasEntry, IsBlockOf, SameEntries
  <2>6. RunInv'
    BY <1>3, <1>6, <2>3, <2>4, <2>5 DEF RunInv
  <2> QED
    BY <1>3, <1>5, <1>7, <2>1, <2>2, <2>6, RunStep DEF DmInv
<1> QED
  BY <1>8, <1>9

\* The worker ends what it was doing with a block that is cached.
LEMMA WorkerMarks ==
  ASSUME DmInv, ~crashed, ~crashed', worker.at \in {"write", "set_dirty"}, BindInv', SameEntries,
         worker' = Idle,
         cells' = IF worker.at \in {"write", "roll_back"} THEN cells \ {worker.o} ELSE cells,
         UNCHANGED <<mode, migrations, mapper, loading, faults>>
  PROVE  DmInv'
<1>1. BindInv /\ RunInv
  BY DEF DmInv
<1>2. worker # Idle /\ mode # "passthrough" /\ PassesThrough'
  BY <1>1 DEF RunInv, PassesThrough, Idle
<1>3. NothingMovesInPassthrough' /\ OneMigrationPerCblock' /\ InflightIsMoving'
  BY DEF NothingMovesInPassthrough, OneMigrationPerCblock, InflightIsMoving, DmInv,
         MigrationsMatchPolicy, SameEntries
<1>4. \A mg \in migrations' : MigrationMatches(mg)'
  BY <1>1 DEF RunInv, MigrationMatches, NotHashed, SameEntries, Idle
<1>5. WorkerMatches'
  BY DEF WorkerMatches, Idle
<1>6. MappersMatch' /\ CellsOwned'
  BY <1>1 DEF RunInv, MappersMatch, CellsOwned, WorkerMatches, HasEntry, IsBlockOf, SameEntries, Idle
<1>7. RunInv'
  BY <1>1, <1>2, <1>4, <1>5, <1>6 DEF RunInv
<1> QED
  BY <1>3, <1>7, RunStep DEF DmInv

\* In passthrough mode an entry is removed, whatever is invalidated meanwhile.
LEMMA PassthroughDrops ==
  ASSUME DmInv, ~crashed, ~crashed', mode = "passthrough", BindInv', NEW e, Drops(e),
         worker' = Idle, ~loading',
         UNCHANGED <<cells, mode, migrations, mapper, faults>>
  PROVE  DmInv'
<1>1. BindInv /\ RunInv
  BY DEF DmInv
<1>2. PassesThrough'
  BY <1>1 DEF RunInv, PassesThrough, Drops, Idle
<1>3. NothingMovesInPassthrough' /\ OneMigrationPerCblock' /\ InflightIsMoving'
  BY DEF NothingMovesInPassthrough, OneMigrationPerCblock, InflightIsMoving, DmInv,
         MigrationsMatchPolicy, Drops
<1>4. \A mg \in migrations' : MigrationMatches(mg)'
  <2>1. SUFFICES ASSUME NEW mg \in migrations
                 PROVE  MigrationMatches(mg)'
    OBVIOUS
  <2>2. MigrationMatches(mg) /\ mg.kind = "invalidate"
    BY <1>1 DEF RunInv, MigrationMatches
  <2> QED
    BY <2>2 DEF MigrationMatches, Drops
<1>5. WorkerMatches'
  BY DEF WorkerMatches, Idle
<1>6. MappersMatch' /\ CellsOwned'
  BY <1>1 DEF RunInv, PassesThrough, MappersMatch, CellsOwned, IsBlockOf, Idle
<1>7. RunInv'
  BY <1>2, <1>4, <1>5, <1>6 DEF RunInv
<1> QED
  BY <1>3, <1>7, RunStep DEF DmInv

\* The worker takes the policy's answer back: the entry gets its former block again.
LEMMA WorkerRollsBack ==
  ASSUME DmInv, ~crashed, ~crashed', worker.at = "roll_back", BindInv',
         NEW e \in pool.ht, Renames(worker.o, worker.old, e),
         worker' = Idle, cells' = cells \ {worker.o},
         UNCHANGED <<mode, migrations, mapper, loading, faults>>
  PROVE  DmInv'
<1>1. BindInv /\ RunInv
  BY DEF DmInv
<1>2. /\ pool.ht = pool.allocated /\ pool'.ht = pool'.allocated
      /\ pool.oblock \in [Cblocks -> Oblocks \cup {Null}] /\ pool.allocated \subseteq Cblocks
      /\ pool.migrating \subseteq pool.allocated
      /\ \A c, d \in pool.ht : pool.oblock[c] = pool.oblock[d] => c = d
  BY <1>1 DEF BindInv, PoolSound, Pools
<1>3. /\ worker # Idle /\ mode # "passthrough" /\ "clash" \in faults /\ ~loading
      /\ worker.c \in pool.migrating /\ pool.oblock[worker.c] = worker.o
      /\ worker.old \in Oblocks /\ NotHashed(pool, worker.old) /\ worker.o \in Oblocks
      /\ \A mg \in migrations : ~IsBlockOf(worker.o, mg)
  BY <1>1 DEF RunInv, WorkerMatches, CellsOwned, PassesThrough, Idle
<1>4. e = worker.c
  BY <1>2, <1>3 DEF Renames
<1>5. /\ pool'.ht = pool.ht /\ pool'.migrating = pool.migrating
      /\ pool'.oblock = [pool.oblock EXCEPT ![e] = worker.old]
  BY <1>2 DEF Renames
<1>6. NothingMovesInPassthrough' /\ OneMigrationPerCblock' /\ InflightIsMoving' /\ PassesThrough'
  BY <1>3 DEF NothingMovesInPassthrough, OneMigrationPerCblock, InflightIsMoving, DmInv,
              MigrationsMatchPolicy, PassesThrough
<1>7. \A mg \in migrations' : MigrationMatches(mg)'
  <2>1. SUFFICES ASSUME NEW mg \in migrations
                 PROVE  MigrationMatches(mg)'
    OBVIOUS
  <2>2. /\ MigrationMatches(mg) /\ mg \in MigrationRecords /\ ~IsBlockOf(worker.o, mg)
    BY <1>1, <1>3 DEF RunInv, DmInv
  <2>3. worker.o # Null
    BY <1>3, NucleusAssumption
  <2>4. CASE mg.kind = "writeback"
    <3>1. mg.cblock \in pool.ht
      BY <1>2, <1>3, <2>2, <2>4 DEF MigrationMatches
    <3>2. mg.old # worker.o /\ mg.cblock \in Cblocks
      BY <2>2, <2>3 DEF IsBlockOf, MigrationRecords
    <3>3. pool'.oblock[mg.cblock] = mg.old
      BY <1>2, <1>3, <1>4, <1>5, <2>2, <2>4, <3>1, <3>2 DEF MigrationMatches
    <3> QED
      BY <1>5, <2>2, <2>4, <3>1, <3>3 DEF MigrationMatches
  <2>5. CASE mg.kind = "demote"
    <3>1. NotHashed(pool, mg.old) /\ worker.old # mg.old
      BY <1>3, <2>2, <2>5 DEF MigrationMatches
    <3>2. NotHashed(pool', mg.old)
      BY <1>2, <1>5, <3>1 DEF NotHashed
    <3>3. mg.cblock # e
      BY <1>3, <1>4, <2>2, <2>3, <2>5 DEF MigrationMatches, IsBlockOf
    <3> QED
      BY <1>2, <1>5, <2>2, <2>5, <3>2, <3>3 DEF MigrationMatches, MigrationRecords, Idle
  <2>6. CASE mg.kind \notin {"writeback", "demote"}
    <3>1. mg.cblock # e
      BY <1>3, <1>4, <2>2, <2>3, <2>6 DEF MigrationMatches, IsBlockOf, MigrationRecords
    <3> QED
      BY <1>2, <1>5, <2>2, <2>6, <3>1 DEF MigrationMatches, MigrationRecords
  <2> QED
    BY <2>4, <2>5, <2>6
<1>8. WorkerMatches'
  BY DEF WorkerMatches, Idle
<1>9. MappersMatch' /\ CellsOwned'
  BY <1>1, <1>3 DEF RunInv, MappersMatch, CellsOwned, IsBlockOf, Idle
<1>10. RunInv'
  BY <1>3, <1>6, <1>7, <1>8, <1>9 DEF RunInv
<1> QED
  BY <1>6, <1>10, RunStep DEF DmInv

\* The policy hears that the data of a block has arrived: its entry may be evicted.
LEMMA WorkerValidates ==
  ASSUME DmInv, ~crashed, ~crashed', worker.at = "validate", BindInv',
         NEW e \in pool.ht, pool.oblock[e] = worker.o, pool'.allocated = pool.allocated,
         pool'.oblock = pool.oblock, pool'.migrating = pool.migrating \ {e},
         worker' = Idle, UNCHANGED <<cells, mode, migrations, mapper, loading, faults>>
  PROVE  DmInv'
<1>1. BindInv /\ RunInv
  BY DEF DmInv
<1>2. /\ pool.ht = pool.allocated /\ pool'.ht = pool'.allocated
      /\ pool.migrating \subseteq pool.allocated
      /\ \A c, d \in pool.ht : pool.oblock[c] = pool.oblock[d] => c = d
  BY <1>1 DEF BindInv, PoolSound, Pools
<1>3. /\ worker # Idle /\ mode # "passthrough" /\ ~loading /\ worker.o \in Oblocks
      /\ worker.o # Null /\ \A mg \in migrations : ~IsBlockOf(worker.o, mg)
  BY <1>1, NucleusAssumption DEF RunInv, WorkerMatches, PassesThrough, Idle
<1>4. NothingMovesInPassthrough' /\ OneMigrationPerCblock' /\ PassesThrough'
  BY <1>3 DEF NothingMovesInPassthrough, OneMigrationPerCblock, DmInv, MigrationsMatchPolicy,
              PassesThrough
<1>5. InflightIsMoving'
  BY <1>2 DEF InflightIsMoving, DmInv, Idle
<1>6. \A mg \in migrations' : MigrationMatches(mg)'
  BY <1>1, <1>2, <1>3 DEF RunInv, MigrationMatches, NotHashed, IsBlockOf, Idle
<1>7. WorkerMatches'
  BY DEF WorkerMatches, Idle
<1>8. MappersMatch' /\ CellsOwned'
  BY <1>1, <1>2 DEF RunInv, MappersMatch, CellsOwned, HasEntry, IsBlockOf, Idle
<1>9. RunInv'
  BY <1>3, <1>4, <1>6, <1>7, <1>8 DEF RunInv
<1> QED
  BY <1>4, <1>5, <1>9, RunStep DEF DmInv

\* The last call of what the worker was doing.
LEMMA WorkerGoesOnInv ==
  ASSUME DmInv, UNCHANGED faults, WorkerGoesOn
  PROVE  DmInv'
<1>1. /\ ~crashed /\ worker' = Idle
      /\ cells' = IF worker.at \in {"write", "roll_back"} THEN cells \ {worker.o} ELSE cells
      /\ UNCHANGED <<tick_protected, mode, migrations, mapper, loading>>
  BY DEF WorkerGoesOn
<1>2. BindInv /\ RunInv
  BY <1>1 DEF DmInv
<1>3. PoolSound(pool) /\ wb \in Trackers /\ Tracks(pool, wb) /\ dirty_bitset \subseteq Cblocks
  BY <1>2 DEF BindInv
<1>4. WorkerMatches
  BY <1>2 DEF RunInv
<1>5. cells' \subseteq Oblocks /\ UNCHANGED <<tick_protected, mode, loading, faults>>
  BY <1>1, <1>2 DEF BindInv
<1>6. /\ PoolSound(pool)' /\ wb' \in Trackers /\ Tracks(pool, wb)' /\ UNCHANGED <<tick, result>>
      /\ dirty_bitset' \subseteq Cblocks /\ (UNCHANGED crashed \/ crashed' = TRUE)
      => BindInv'
  BY <1>2, <1>5 DEF BindInv
<1>7. CASE worker.at = "write" /\ set_dirty(worker.o, worker.c)
  <2>1. worker.o \in Oblocks /\ worker.c \in Cblocks /\ HasEntry(worker.o)
    BY <1>4, <1>7 DEF WorkerMatches
  <2>2. /\ PoolSound(pool)' /\ wb' \in Trackers /\ Tracks(pool, wb)'
        /\ SameEntries /\ UNCHANGED <<tick, result>> /\ dirty_bitset' \subseteq Cblocks
        /\ UNCHANGED crashed
    BY <1>3, <1>7, <2>1, SetDirtyFacts
  <2>3. BindInv'
    BY <1>1, <1>6, <2>2
  <2> QED
    BY <1>1, <1>7, <2>2, <2>3, WorkerMarks
<1>8. CASE worker.at = "set_dirty" /\ dmcache_base_mark(worker.o, TRUE) /\ UNCHANGED dirty_bitset
  <2>1. worker.o \in Oblocks /\ HasEntry(worker.o)
    BY <1>4, <1>8 DEF WorkerMatches
  <2>2. /\ PoolSound(pool)' /\ wb' \in Trackers /\ Tracks(pool, wb)'
        /\ SameEntries /\ UNCHANGED <<tick, result>> /\ UNCHANGED crashed
    BY <1>3, <1>8, <2>1, MarkFacts
  <2>3. BindInv'
    BY <1>1, <1>3, <1>6, <1>8, <2>2
  <2> QED
    BY <1>1, <1>8, <2>2, <2>3, WorkerMarks
<1>9. CASE worker.at = "roll_back" /\ dmcache_base_force_mapping(worker.o, worker.old)
           /\ UNCHANGED dirty_bitset
  <2>1. /\ worker.o \in Oblocks /\ worker.old \in Oblocks /\ NotHashed(pool, worker.old)
        /\ "clash" \in faults
    BY <1>4, <1>9 DEF WorkerMatches
  <2>2. /\ PoolSound(pool)' /\ wb' \in Trackers /\ Tracks(pool, wb)' /\ UNCHANGED <<tick, result>>
        /\ \/ UNCHANGED crashed /\ \E e \in pool.ht : Renames(worker.o, worker.old, e)
           \/ crashed' = TRUE /\ UNCHANGED pool
    BY <1>3, <1>9, <2>1, ForceFacts
  <2>3. BindInv'
    BY <1>1, <1>3, <1>6, <1>9, <2>2
  <2>4. CASE UNCHANGED crashed /\ \E e \in pool.ht : Renames(worker.o, worker.old, e)
    BY <1>1, <1>9, <2>3, <2>4, WorkerRollsBack
  <2>5. CASE crashed' = TRUE /\ UNCHANGED pool
    BY <1>1, <2>1, <2>3, <2>5, CrashStep
  <2> QED
    BY <2>2, <2>4, <2>5
<1>10. CASE worker.at = "validate" /\ dmcache_base_io_complete(worker.o) /\ UNCHANGED dirty_bitset
  <2>1. worker.o \in Oblocks /\ HasMoving(worker.o)
    BY <1>4, <1>10 DEF WorkerMatches
  <2>2. /\ PoolSound(pool)' /\ wb' \in Trackers /\ Tracks(pool, wb)'
        /\ UNCHANGED <<tick, result, crashed>>
        /\ \E e \in pool.ht :
             /\ pool.oblock[e] = worker.o /\ pool'.allocated = pool.allocated
             /\ pool'.oblock = pool.oblock /\ pool'.migrating = pool.migrating \ {e}
    BY <1>3, <1>10, <2>1, CompleteFacts
  <2>3. BindInv'
    BY <1>1, <1>3, <1>6, <1>10, <2>2
  <2> QED
    BY <1>1, <1>10, <2>2, <2>3, WorkerValidates
<1>11. CASE worker.at = "unmap" /\ dmcache_base_remove_mapping(worker.o) /\ UNCHANGED dirty_bitset
  <2>1. worker.o \in Oblocks /\ mode = "passthrough" /\ ~loading
    BY <1>2, <1>4, <1>11 DEF WorkerMatches, RunInv, Idle
  <2>2. /\ PoolSound(pool)' /\ wb' \in Trackers /\ Tracks(pool, wb)' /\ UNCHANGED <<tick, result>>
        /\ \/ UNCHANGED crashed /\ \E e \in pool.ht : Drops(e)
           \/ crashed' = TRUE /\ UNCHANGED pool
    BY <1>3, <1>11, <2>1, RemoveFacts
  <2>3. BindInv'
    BY <1>1, <1>3, <1>6, <1>11, <2>2
  <2>4. CASE UNCHANGED crashed /\ \E e \in pool.ht : Drops(e)
    BY <1>1, <1>11, <2>1, <2>3, <2>4, PassthroughDrops
  <2>5. CASE crashed' = TRUE /\ UNCHANGED pool
    BY <1>1, <2>1, <2>3, <2>5, CrashStep
  <2> QED
    BY <2>2, <2>4, <2>5
<1> QED
  BY <1>7, <1>8, <1>9, <1>10, <1>11 DEF WorkerGoesOn

\* A cache block is invalidated by its number, in passthrough mode only.
LEMMA WorkerRemoveCblockInv ==
  ASSUME DmInv, UNCHANGED faults, NEW c \in Cblocks, WorkerRemoveCblock(c)
  PROVE  DmInv'
<1>1. /\ ~crashed /\ worker = Idle /\ mode = "passthrough" /\ dmcache_base_remove_cblock(c)
      /\ loading' = FALSE
      /\ UNCHANGED <<tick_protected, mode, dirty_bitset, cells, migrations, worker, mapper>>
  BY DEF WorkerRemoveCblock
<1>2. BindInv
  BY DEF DmInv
<1>3. /\ PoolSound(pool)' /\ wb' \in Trackers /\ Tracks(pool, wb)' /\ UNCHANGED <<tick, result>>
      /\ \/ UNCHANGED crashed /\ \E e \in pool.ht : Drops(e)
         \/ crashed' = TRUE /\ UNCHANGED pool
  BY <1>1, <1>2, RemoveCblockFacts DEF BindInv
<1>4. BindInv'
  BY <1>1, <1>2, <1>3 DEF BindInv
<1>5. CASE UNCHANGED crashed /\ \E e \in pool.ht : Drops(e)
  BY <1>1, <1>4, <1>5, PassthroughDrops
<1>6. CASE crashed' = TRUE /\ UNCHANGED pool
  BY <1>1, <1>4, <1>6, CrashStep
<1> QED
  BY <1>3, <1>5, <1>6

\* A migration ends or becomes another one (the members of N), in its own cache block
\* and with its own blocks.
LEMMA MigrationGoesOn ==
  ASSUME DmInv, ~crashed, ~crashed', worker = Idle, BindInv', UNCHANGED <<mode, mapper, loading, faults>>,
         NEW mg \in migrations, NEW N \in SUBSET MigrationRecords,
         migrations' = (migrations \ {mg}) \cup N,
         \A m, n \in N : m = n,
         \A n \in N : /\ n.cblock = mg.cblock /\ MigrationMatches(n)'
                      /\ \A o \in Oblocks : IsBlockOf(o, n) => IsBlockOf(o, mg) /\ o \in cells',
         cells' \subseteq cells, \A o \in cells \ cells' : IsBlockOf(o, mg),
         \A c \in Cblocks \ {mg.cblock} :
            /\ c \in pool'.ht <=> c \in pool.ht
            /\ c \in pool'.migrating <=> c \in pool.migrating
            /\ pool'.oblock[c] = pool.oblock[c],
         mg.cblock \in pool'.ht => IsBlockOf(pool'.oblock[mg.cblock], mg),
         mode = "passthrough" => SameEntries /\ pool'.dirty = pool.dirty,
         InflightIsMoving', WorkerMatches', worker'.at \in {"idle", "validate", "unmap"},
         mode = "passthrough" => worker'.at # "validate"
  PROVE  DmInv'
<1>1. BindInv /\ RunInv /\ MigrationMatches(mg) /\ mg \in MigrationRecords
  BY DEF DmInv, RunInv
<1>2. ~loading
  BY <1>1 DEF RunInv
<1>3. \A m \in migrations \ {mg} :
         m.cblock # mg.cblock /\ \A o \in Oblocks : IsBlockOf(o, m) => ~IsBlockOf(o, mg) /\ o \in cells'
  BY <1>1 DEF DmInv, MigrationsMatchPolicy, RunInv, CellsOwned
<1>4. OneMigrationPerCblock'
  BY <1>3 DEF OneMigrationPerCblock, DmInv, MigrationsMatchPolicy
<1>5. NothingMovesInPassthrough' /\ PassesThrough'
  BY <1>1 DEF NothingMovesInPassthrough, PassesThrough, RunInv, DmInv, SameEntries
<1>6. /\ \A c \in pool.ht : c \in Cblocks /\ pool.oblock[c] \in Oblocks
      /\ \A c \in pool'.ht : c \in Cblocks /\ pool'.oblock[c] \in Oblocks
      /\ pool.migrating \subseteq pool.ht
  BY <1>1 DEF BindInv, PoolSound, Pools
<1>7. \A b \in Oblocks : ~IsBlockOf(b, mg) =>
         /\ HasEntry(b) => HasEntry(b)'
         /\ NotHashed(pool, b) => NotHashed(pool', b)
  <2>1. SUFFICES ASSUME NEW b \in Oblocks, ~IsBlockOf(b, mg)
                 PROVE  /\ HasEntry(b) => HasEntry(b)'
                        /\ NotHashed(pool, b) => NotHashed(pool', b)
    OBVIOUS
  <2>2. mg.cblock \in pool.ht => IsBlockOf(pool.oblock[mg.cblock], mg)
    BY <1>1, <1>6, NucleusAssumption DEF MigrationMatches, IsBlockOf, MigrationRecords, Idle
  <2>3. \A c \in pool.ht : pool.oblock[c] = b => c \in pool'.ht /\ pool'.oblock[c] = b
    BY <1>6, <2>1, <2>2
  <2>4. \A c \in pool'.ht : pool'.oblock[c] = b => c \in pool.ht /\ pool.oblock[c] = b
    BY <1>6, <2>1
  <2> QED
    BY <2>3, <2>4 DEF HasEntry, NotHashed
<1>8. \A m \in migrations' : MigrationMatches(m)'
  <2>1. SUFFICES ASSUME NEW m \in migrations \ {mg}
                 PROVE  MigrationMatches(m)'
    OBVIOUS
  <2>2. /\ MigrationMatches(m) /\ m \in MigrationRecords /\ m.cblock # mg.cblock
        /\ \A o \in Oblocks : IsBlockOf(o, m) => ~IsBlockOf(o, mg)
    BY <1>1, <1>3 DEF RunInv, DmInv
  <2>3. /\ m.cblock \in pool'.ht <=> m.cblock \in pool.ht
        /\ m.cblock \in pool'.migrating <=> m.cblock \in pool.migrating
        /\ pool'.oblock[m.cblock] = pool.oblock[m.cblock]
    BY <2>2 DEF MigrationRecords
  <2>4. m.kind = "demote" => NotHashed(pool', m.old)
    BY <1>7, <2>2 DEF MigrationMatches, MigrationRecords, IsBlockOf
  <2> QED
    BY <2>2, <2>3, <2>4 DEF MigrationMatches, MigrationRecords, Idle
<1>9. MappersMatch'
  <2>1. ASSUME NEW t \in Mappers, mapper[t].at = "write", "clash" \notin faults
        PROVE  HasEntry(mapper[t].o)'
    <3>1. HasEntry(mapper[t].o) /\ mapper[t].o \in Oblocks /\ ~IsBlockOf(mapper[t].o, mg)
      BY <1>1, <2>1 DEF RunInv, MappersMatch, CellsOwned, BindInv
    <3> QED
      BY <1>7, <3>1
  <2> QED
    BY <1>1, <2>1 DEF RunInv, MappersMatch
<1>10. CellsOwned'
  <2>1. \A m \in migrations', o \in Oblocks : IsBlockOf(o, m) => o \in cells'
    BY <1>3
  <2>2. \A m, n \in migrations', o \in Oblocks : IsBlockOf(o, m) /\ IsBlockOf(o, n) => m = n
    BY <1>1, <1>3 DEF RunInv, CellsOwned
  <2>3. \A t \in Mappers : mapper[t].at # "idle" =>
          mapper[t].o \in cells' /\ \A m \in migrations' : ~IsBlockOf(mapper[t].o, m)
    BY <1>1 DEF RunInv, CellsOwned, BindInv
  <2> QED
    BY <1>1, <2>1, <2>2, <2>3 DEF RunInv, CellsOwned, IsBlockOf
<1>11. RunInv'
  BY <1>2, <1>5, <1>8, <1>9, <1>10 DEF RunInv
<1>12. migrations' \subseteq MigrationRecords
  BY DEF DmInv
<1> QED
  BY <1>4, <1>5, <1>11, <1>12, RunStep

\* What is known of a migration while the worker is idle.
LEMMA MigrationFacts ==
  ASSUME BindInv, RunInv, worker = Idle, NEW mg \in migrations, mg \in MigrationRecords
  PROVE  /\ mg.kind = "writeback" => mg.old \in Oblocks /\ mg.new = Null /\ HasEntry(mg.old)
         /\ mg.kind # "writeback" => mg.new \in Oblocks
         /\ mg.kind = "demote" => mg.old \in Oblocks /\ NotHashed(pool, mg.old)
         /\ mg.kind \notin {"writeback", "demote"} => mg.old = Null
         /\ mg.kind \in {"demote", "promote", "overwrite"} =>
              /\ HasEntry(mg.new) /\ HasMoving(mg.new) /\ mg.cblock \in pool.migrating
              /\ \A c \in pool.ht : pool.oblock[c] = mg.new <=> c = mg.cblock
         /\ mg.cblock \in pool.ht => IsBlockOf(pool.oblock[mg.cblock], mg)
         /\ mg.kind = "invalidate" <=> mode = "passthrough"
<1>1. MigrationMatches(mg)
  BY DEF RunInv
<1>2. /\ pool.migrating \subseteq pool.ht
      /\ \A c \in pool.ht : c \in Cblocks /\ pool.oblock[c] \in Oblocks
      /\ \A c, d \in pool.ht : pool.oblock[c] = pool.oblock[d] => c = d
  BY DEF BindInv, PoolSound, Pools
<1> QED
  BY <1>1, <1>2, NucleusAssumption
     DEF MigrationMatches, MigrationRecords, IsBlockOf, HasEntry, HasMoving, Idle

\* A promotion is overtaken by a write of the whole block.
LEMMA IssueOverwriteInv ==
  ASSUME DmInv, UNCHANGED faults, NEW mg \in migrations, IssueOverwrite(mg)
  PROVE  DmInv'
<1>1. PICK n : n = [mg EXCEPT !.kind = "overwrite"]
  OBVIOUS
<1>2. /\ ~crashed /\ worker = Idle /\ mg.kind = "promote" /\ set_dirty(mg.new, mg.cblock)
      /\ migrations' = (migrations \ {mg}) \cup {n}
      /\ UNCHANGED <<tick_protected, mode, cells, worker, mapper, loading>>
  BY <1>1 DEF IssueOverwrite
<1>3. BindInv /\ RunInv /\ mg \in MigrationRecords /\ MigrationMatches(mg)
  BY <1>2 DEF DmInv, RunInv
<1>4. /\ mg.new \in Oblocks /\ mg.old = Null /\ HasEntry(mg.new) /\ mg.cblock \in Cblocks
      /\ mode # "passthrough" /\ mg.cblock \in pool.migrating
      /\ mg.cblock \in pool.ht => IsBlockOf(pool.oblock[mg.cblock], mg)
  BY <1>2, <1>3, MigrationFacts DEF MigrationRecords
<1>5. /\ n \in MigrationRecords /\ n.kind = "overwrite" /\ n.old = mg.old /\ n.new = mg.new
      /\ n.cblock = mg.cblock
  BY <1>1, <1>3 DEF MigrationRecords
<1>6. /\ PoolSound(pool)' /\ wb' \in Trackers /\ Tracks(pool, wb)'
      /\ SameEntries /\ UNCHANGED <<tick, result, crashed>> /\ dirty_bitset' \subseteq Cblocks
  BY <1>2, <1>3, <1>4, SetDirtyFacts DEF BindInv
<1>7. BindInv'
  BY <1>2, <1>3, <1>6 DEF BindInv
<1>8. InflightIsMoving'
  BY <1>2, <1>5, <1>6 DEF InflightIsMoving, DmInv, SameEntries
<1>9. WorkerMatches'
  BY <1>2 DEF WorkerMatches, Idle
<1>10. MigrationMatches(n)'
  BY <1>2, <1>3, <1>4, <1>5, <1>6 DEF MigrationMatches, SameEntries, Idle
<1>11. \A o \in Oblocks : IsBlockOf(o, n) => IsBlockOf(o, mg) /\ o \in cells'
  BY <1>2, <1>3, <1>5 DEF IsBlockOf, RunInv, CellsOwned
<1> QED
  <2> DEFINE N == {n}
  <2>1. N \in SUBSET MigrationRecords /\ \A a, b \in N : a = b
    BY <1>5
  <2>2. \A a \in N : /\ a.cblock = mg.cblock /\ MigrationMatches(a)'
                     /\ \A o \in Oblocks : IsBlockOf(o, a) => IsBlockOf(o, mg) /\ o \in cells'
    BY <1>5, <1>10, <1>11
  <2>3. migrations' = (migrations \ {mg}) \cup N
    BY <1>2
  <2> HIDE DEF N
  <2>4. /\ mg.cblock \in pool'.ht => IsBlockOf(pool'.oblock[mg.cblock], mg)
        /\ pool'.ht = pool.ht /\ pool'.oblock = pool.oblock /\ pool'.migrating = pool.migrating
    BY <1>4, <1>6 DEF SameEntries
  <2>5. worker'.at = "idle" /\ cells' = cells /\ ~crashed'
    BY <1>2, <1>6 DEF Idle
  <2> QED
    BY <1>2, <1>4, <1>7, <1>8, <1>9, <2>1, <2>2, <2>3, <2>4, <2>5, MigrationGoesOn

\* A migration ends as it should, or goes on with its second copy.
LEMMA MigrationSuccessInv ==
  ASSUME DmInv, UNCHANGED faults, NEW mg \in migrations, MigrationSuccess(mg)
  PROVE  DmInv'
<1> DEFINE N == IF mg.kind = "demote" THEN {[mg EXCEPT !.kind = "promote", !.old = Null]} ELSE {}
<1>1. /\ ~crashed /\ worker = Idle
      /\ migrations' = (migrations \ {mg}) \cup N
      /\ worker' = after_migration(mg)
      /\ cells' = cells \ IF mg.kind = "demote" THEN {mg.old} ELSE {mg.old, mg.new}
      /\ UNCHANGED <<tick_protected, mode, mapper, loading>>
  BY DEF MigrationSuccess
<1>2. BindInv /\ RunInv /\ mg \in MigrationRecords /\ MigrationMatches(mg)
  BY <1>1 DEF DmInv, RunInv
<1>3. /\ mg.kind = "writeback" => mg.old \in Oblocks /\ mg.new = Null /\ HasEntry(mg.old)
      /\ mg.kind # "writeback" => mg.new \in Oblocks
      /\ mg.kind = "demote" => mg.old \in Oblocks
      /\ mg.kind \notin {"writeback", "demote"} => mg.old = Null
      /\ mg.kind \in {"demote", "promote", "overwrite"} =>
           HasEntry(mg.new) /\ HasMoving(mg.new) /\ mg.cblock \in pool.migrating
      /\ mg.cblock \in pool.ht => IsBlockOf(pool.oblock[mg.cblock], mg)
      /\ mg.kind = "invalidate" <=> mode = "passthrough"
      /\ mg.cblock \in Cblocks
  BY <1>1, <1>2, MigrationFacts DEF MigrationRecords
<1>4. /\ PoolSound(pool)' /\ wb' \in Trackers /\ Tracks(pool, wb)'
      /\ SameEntries /\ UNCHANGED <<tick, result, crashed>> /\ dirty_bitset' \subseteq Cblocks
      /\ mode = "passthrough" => pool' = pool
  <2>1. CASE mg.kind \in {"demote", "invalidate"}
    <3>1. UNCHANGED <<pool, wb, tick, result, crashed, dirty_bitset>>
      BY <2>1 DEF MigrationSuccess, policyState
    <3> QED
      BY <1>2, <3>1 DEF BindInv, Tracks, SameEntries
  <2>2. CASE mg.kind \in {"promote", "overwrite"}
    <3>1. set_dirty(mg.new, mg.cblock) \/ clear_dirty(mg.new, mg.cblock)
      BY <2>2 DEF MigrationSuccess
    <3> QED
      BY <1>2, <1>3, <2>2, <3>1, SetDirtyFacts DEF BindInv
  <2>3. CASE mg.kind = "writeback"
    <3>1. clear_dirty(mg.old, mg.cblock)
      BY <2>3 DEF MigrationSuccess
    <3> QED
      BY <1>2, <1>3, <2>3, <3>1, SetDirtyFacts DEF BindInv
  <2> QED
    BY <1>2, <2>1, <2>2, <2>3 DEF MigrationRecords
<1>5. BindInv'
  BY <1>1, <1>2, <1>4 DEF BindInv
<1>6. Null \notin Oblocks
  BY NucleusAssumption
<1>7. /\ N \in SUBSET MigrationRecords /\ \A a, b \in N : a = b
      /\ mg.kind = "demote" => N # {}
      /\ \A n \in N : /\ mg.kind = "demote" /\ n.kind = "promote" /\ n.old = Null /\ n.new = mg.new
                      /\ n.cblock = mg.cblock
  BY <1>2 DEF MigrationRecords
<1> HIDE DEF N
<1>8. \A o \in Oblocks, m \in migrations : IsBlockOf(o, m) => o \in cells /\ (IsBlockOf(o, mg) => m = mg)
  BY <1>2 DEF RunInv, CellsOwned
<1>9. \A n \in N : MigrationMatches(n)'
  BY <1>1, <1>2, <1>3, <1>4, <1>6, <1>7 DEF MigrationMatches, SameEntries
<1>10. \A n \in N : \A o \in Oblocks : IsBlockOf(o, n) => IsBlockOf(o, mg) /\ o \in cells'
  BY <1>1, <1>2, <1>7, <1>8 DEF IsBlockOf, MigrationMatches
<1>11. \A o \in cells \ cells' : IsBlockOf(o, mg)
  BY <1>1, <1>2, <1>6 DEF IsBlockOf, BindInv
<1>12. WorkerMatches' /\ worker'.at \in {"idle", "validate", "unmap"}
  <2>1. CASE mg.kind \in {"promote", "overwrite"}
    <3>1. worker'.at = "validate" /\ worker'.o = mg.new /\ N = {}
      BY <1>1, <1>7, <2>1 DEF after_migration
    <3>2. HasMoving(mg.new)'
      BY <1>3, <1>4, <2>1 DEF HasMoving, SameEntries
    <3>3. \A m \in migrations' : ~IsBlockOf(mg.new, m)
      BY <1>1, <1>3, <1>6, <1>8, <2>1, <3>1 DEF IsBlockOf
    <3> QED
      BY <1>3, <2>1, <3>1, <3>2, <3>3 DEF WorkerMatches, IsBlockOf
  <2>2. CASE mg.kind = "invalidate"
    BY <1>1, <1>3, <2>2 DEF WorkerMatches, after_migration
  <2>3. CASE mg.kind \in {"demote", "writeback"}
    BY <1>1, <2>3 DEF WorkerMatches, after_migration, Idle
  <2> QED
    BY <1>2, <2>1, <2>2, <2>3 DEF MigrationRecords
<1>13. InflightIsMoving'
  <2>1. SUFFICES ASSUME faults = {}, NEW c \in pool.migrating, c = mg.cblock
                 PROVE  \/ \E m \in migrations' : m.cblock = c
                        \/ worker'.at = "validate" /\ worker'.o = pool.oblock[c]
    BY <1>1, <1>4 DEF InflightIsMoving, DmInv, SameEntries, Idle
  <2>2. pool.oblock[c] = mg.new \/ mg.kind = "writeback"
    BY <1>2, <2>1 DEF MigrationMatches, MigrationRecords
  <2>3. mg.kind # "invalidate"
    BY <1>3, <2>1 DEF DmInv
  <2>4. mg.kind # "writeback"
    BY <1>2, <2>1 DEF MigrationMatches
  <2>5. CASE mg.kind = "demote"
    <3>1. PICK n \in N : n.cblock = c
      BY <1>7, <2>1, <2>5
    <3> QED
      BY <1>1, <3>1
  <2>6. CASE mg.kind \in {"promote", "overwrite"}
    BY <1>1, <2>2, <2>6 DEF after_migration
  <2> QED
    BY <1>2, <2>3, <2>4, <2>5, <2>6 DEF MigrationRecords
<1>14. /\ mg.cblock \in pool'.ht => IsBlockOf(pool'.oblock[mg.cblock], mg)
       /\ pool'.ht = pool.ht /\ pool'.oblock = pool.oblock /\ pool'.migrating = pool.migrating
  BY <1>3, <1>4 DEF SameEntries
<1>15. mode = "passthrough" => worker'.at # "validate"
  BY <1>1, <1>3 DEF after_migration
<1> QED
  BY <1>1, <1>4, <1>5, <1>7, <1>9, <1>10, <1>11, <1>12, <1>13, <1>14, <1>15, MigrationGoesOn

\* A copy has failed: the policy takes the migration back, or asserts that it could.
LEMMA MigrationFailureInv ==
  ASSUME DmInv, UNCHANGED faults, NEW mg \in migrations, MigrationFailure(mg)
  PROVE  DmInv'
<1>1. /\ ~crashed /\ worker = Idle /\ "copy" \in faults /\ mg.kind # "invalidate"
      /\ migrations' = migrations \ {mg} /\ cells' = cells \ {mg.old, mg.new}
      /\ UNCHANGED <<tick_protected, mode, worker, mapper, loading>>
  BY DEF MigrationFailure
<1>2. BindInv /\ RunInv /\ mg \in MigrationRecords /\ MigrationMatches(mg)
  BY <1>1 DEF DmInv, RunInv
<1>3. /\ mg.kind = "writeback" => mg.old \in Oblocks /\ mg.new = Null /\ HasEntry(mg.old)
      /\ mg.kind # "writeback" => mg.new \in Oblocks
      /\ mg.kind = "demote" => mg.old \in Oblocks /\ NotHashed(pool, mg.old)
      /\ mg.kind \in {"demote", "promote", "overwrite"} =>
           HasEntry(mg.new) /\ \A c \in pool.ht : pool.oblock[c] = mg.new <=> c = mg.cblock
      /\ mg.cblock \in pool.ht => IsBlockOf(pool.oblock[mg.cblock], mg)
      /\ mode # "passthrough" /\ mg.cblock \in Cblocks
  BY <1>1, <1>2, MigrationFacts DEF MigrationRecords
<1>4. /\ pool.ht = pool.allocated /\ pool.allocated \subseteq Cblocks
      /\ pool.oblock \in [Cblocks -> Oblocks \cup {Null}]
      /\ PoolSound(pool)' => pool'.ht = pool'.allocated
      /\ Null \notin Oblocks
  BY <1>2, NucleusAssumption DEF BindInv, PoolSound, Pools
<1>5. /\ PoolSound(pool)' /\ wb' \in Trackers /\ Tracks(pool, wb)'
      /\ UNCHANGED <<tick, result>> /\ dirty_bitset' \subseteq Cblocks
      /\ \/ /\ UNCHANGED crashed
            /\ \A c \in Cblocks \ {mg.cblock} :
                 /\ c \in pool'.ht <=> c \in pool.ht
                 /\ c \in pool'.migrating <=> c \in pool.migrating
                 /\ pool'.oblock[c] = pool.oblock[c]
            /\ mg.cblock \in pool'.ht => IsBlockOf(pool'.oblock[mg.cblock], mg)
         \/ crashed' = TRUE /\ UNCHANGED pool /\ ~HasHistory
  <2>1. CASE mg.kind = "writeback"
    <3>1. set_dirty(mg.old, mg.cblock)
      BY <2>1 DEF MigrationFailure
    <3>2. /\ PoolSound(pool)' /\ wb' \in Trackers /\ Tracks(pool, wb)' /\ SameEntries
          /\ UNCHANGED <<tick, result, crashed>> /\ dirty_bitset' \subseteq Cblocks
      BY <1>2, <1>3, <2>1, <3>1, SetDirtyFacts DEF BindInv
    <3> QED
      BY <1>3, <3>2 DEF SameEntries
  <2>2. CASE mg.kind = "demote"
    <3>1. dmcache_base_force_mapping(mg.new, mg.old) /\ UNCHANGED dirty_bitset
      BY <2>2 DEF MigrationFailure
    <3>2. /\ PoolSound(pool)' /\ wb' \in Trackers /\ Tracks(pool, wb)' /\ UNCHANGED <<tick, result>>
          /\ \/ UNCHANGED crashed /\ \E e \in pool.ht : Renames(mg.new, mg.old, e)
             \/ (~HasHistory \/ ~HasEntry(mg.new)) /\ crashed' = TRUE /\ UNCHANGED pool
      BY <1>2, <1>3, <2>2, <3>1, ForceFacts DEF BindInv
    <3>3. CASE UNCHANGED crashed /\ \E e \in pool.ht : Renames(mg.new, mg.old, e)
      <4>1. Renames(mg.new, mg.old, mg.cblock)
        BY <1>3, <2>2, <3>3 DEF Renames
      <4>2. IsBlockOf(mg.old, mg) /\ pool'.oblock = [pool.oblock EXCEPT ![mg.cblock] = mg.old]
        BY <1>3, <1>4, <2>2, <4>1 DEF IsBlockOf, Renames
      <4> QED
        BY <1>2, <1>3, <1>4, <3>1, <3>2, <3>3, <4>1, <4>2 DEF Renames, BindInv
    <3> QED
      BY <1>2, <1>3, <2>2, <3>1, <3>2, <3>3 DEF BindInv
  <2>3. CASE mg.kind \in {"promote", "overwrite"}
    <3>1. dmcache_base_remove_mapping(mg.new) /\ UNCHANGED dirty_bitset
      BY <2>3 DEF MigrationFailure
    <3>2. /\ PoolSound(pool)' /\ wb' \in Trackers /\ Tracks(pool, wb)' /\ UNCHANGED <<tick, result>>
          /\ UNCHANGED crashed /\ \E e \in pool.ht : pool.oblock[e] = mg.new /\ Drops(e)
      BY <1>2, <1>3, <2>3, <3>1, RemoveFacts DEF BindInv
    <3>3. Drops(mg.cblock)
      BY <1>3, <2>3, <3>2
    <3>4. /\ mg.cblock \notin pool'.ht
          /\ \A c \in Cblocks \ {mg.cblock} :
                 /\ c \in pool'.ht <=> c \in pool.ht
                 /\ c \in pool'.migrating <=> c \in pool.migrating
                 /\ pool'.oblock[c] = pool.oblock[c]
      BY <1>4, <3>2, <3>3 DEF Drops
    <3> QED
      BY <1>2, <3>1, <3>2, <3>4 DEF BindInv
  <2> QED
    BY <1>1, <1>2, <2>1, <2>2, <2>3 DEF MigrationRecords
<1>6. BindInv'
  BY <1>1, <1>2, <1>5 DEF BindInv
<1>7. InflightIsMoving'
  BY <1>1 DEF InflightIsMoving
<1>8. CASE crashed' = TRUE /\ UNCHANGED pool /\ ~HasHistory
  BY <1>1, <1>6, <1>8, CrashStep
<1>9. CASE ~(crashed' = TRUE /\ UNCHANGED pool /\ ~HasHistory)
  <2>1. WorkerMatches' /\ worker'.at = "idle"
    BY <1>1 DEF WorkerMatches, Idle
  <2>2. PICK N \in SUBSET MigrationRecords : N = {}
    OBVIOUS
  <2>3. migrations' = (migrations \ {mg}) \cup N /\ cells' \subseteq cells
    BY <1>1, <2>2
  <2>4. \A o \in cells \ cells' : IsBlockOf(o, mg)
    BY <1>1, <1>2, <1>4 DEF IsBlockOf, BindInv
  <2>5. /\ ~crashed'
        /\ \A c \in Cblocks \ {mg.cblock} :
             /\ c \in pool'.ht <=> c \in pool.ht
             /\ c \in pool'.migrating <=> c \in pool.migrating
             /\ pool'.oblock[c] = pool.oblock[c]
        /\ mg.cblock \in pool'.ht => IsBlockOf(pool'.oblock[mg.cblock], mg)
    BY <1>1, <1>5, <1>9
  <2> QED
    BY <1>1, <1>3, <1>6, <1>7, <2>1, <2>2, <2>3, <2>4, <2>5, MigrationGoesOn
<1> QED
  BY <1>8, <1>9

\* A tick, or a step that changes nothing.
LEMMA TickInv ==
  ASSUME DmInv, UNCHANGED <<policyState, targetState, faults>>,
         tick_protected' \in 0 .. TickModulus - 1
  PROVE  DmInv'
<1>1. UNCHANGED <<pool, wb, tick, result, crashed, mode, dirty_bitset, cells, migrations, worker,
                  mapper, loading, faults>>
  BY DEF policyState, targetState
<1>2. BindInv'
  BY <1>1 DEF DmInv, BindInv, Tracks
<1>3. DmNoAssertionFails' /\ MigrationsMatchPolicy' /\ InflightIsMoving'
  BY <1>1 DEF DmInv, DmNoAssertionFails, MigrationsMatchPolicy, InflightIsMoving
<1>4. ~crashed => RunInv'
  <2>1. SUFFICES ASSUME RunInv
                 PROVE  RunInv'
    BY DEF DmInv
  <2>2. \A mg \in migrations' : MigrationMatches(mg)'
    BY <1>1, <2>1 DEF RunInv, MigrationMatches, NotHashed
  <2>3. WorkerMatches'
    BY <1>1, <2>1 DEF RunInv, WorkerMatches, HasEntry, HasMoving, NotHashed, IsBlockOf
  <2>4. MappersMatch' /\ PassesThrough'
    BY <1>1, <2>1 DEF RunInv, MappersMatch, HasEntry, PassesThrough
  <2>5. CellsOwned'
    BY <1>1, <2>1 DEF RunInv, CellsOwned, IsBlockOf
  <2> QED
    BY <1>1, <2>1, <2>2, <2>3, <2>4, <2>5 DEF RunInv
<1> QED
  BY <1>1, <1>2, <1>3, <1>4 DEF DmInv

-----------------------------------------------------------------------------
(***************************************************************************)
(* The specification.                                                      *)
(***************************************************************************)
\* Nothing is cached and nobody is doing anything.
LEMMA DmInitInv == DmInit => DmInv
<1> SUFFICES ASSUME DmInit
             PROVE  DmInv
  OBVIOUS
<1>1. /\ pool = epool_init /\ wb = wb_init /\ tick = 0 /\ tick_protected = 0 /\ result = NoResult
      /\ crashed = FALSE /\ mode \in Modes /\ dirty_bitset = {} /\ cells = {} /\ migrations = {}
      /\ worker = Idle /\ mapper = [t \in Mappers |-> Idle] /\ loading = TRUE
      /\ faults \in FaultSets
  BY DEF DmInit
<1>2. pool.allocated = {} /\ pool.migrating = {} /\ PoolSound(pool)
  BY <1>1, PoolInitSound DEF epool_init
<1>3. wb \in Trackers /\ Tracks(pool, wb)
  <2>1. wb.clean = <<>> /\ wb.dirty = <<>>
    BY <1>1 DEF wb_init
  <2>2. <<>> \in Seq(Cblocks) /\ IsInjective(<<>>) /\ ToSet(<<>>) = {}
    BY DEF IsInjective, ToSet
  <2> QED
    BY <1>1, <1>2, <2>1, <2>2 DEF wb_init, Trackers, Tracks
<1>4. BindInv
  <2>1. tick \in 0 .. TickModulus - 1 /\ tick_protected \in 0 .. TickModulus - 1
    BY <1>1, DmAssumption
  <2>2. result \in Results \cup {NoResult} /\ crashed \in BOOLEAN /\ loading \in BOOLEAN
    BY <1>1
  <2> QED
    BY <1>1, <1>2, <1>3, <2>1, <2>2 DEF BindInv
<1>5. DmNoAssertionFails /\ MigrationsMatchPolicy /\ InflightIsMoving
  BY <1>1, <1>2 DEF DmNoAssertionFails, MigrationsMatchPolicy, InflightIsMoving
<1>6. WorkerMatches /\ MappersMatch /\ CellsOwned /\ PassesThrough
  BY <1>1, <1>2 DEF WorkerMatches, MappersMatch, MapperRecords, CellsOwned, PassesThrough, Idle
<1>7. RunInv
  BY <1>1, <1>6 DEF RunInv
<1> QED
  BY <1>1, <1>2, <1>4, <1>5, <1>7 DEF DmInv

\* Every step of every thread keeps the invariant.
LEMMA DmNextInv == DmInv /\ [DmNext]_dmVars => DmInv'
<1>1. SUFFICES ASSUME DmInv, [DmNext]_dmVars
               PROVE  DmInv'
  OBVIOUS
<1>2. Writes \subseteq BOOLEAN
  BY DmAssumption
<1>3. CASE UNCHANGED dmVars
  <2>1. UNCHANGED <<policyState, targetState, faults>> /\ tick_protected' = tick_protected
    BY <1>3 DEF dmVars
  <2> QED
    BY <1>1, <2>1, TickInv DEF DmInv, BindInv
<1>4. CASE DmNext
  <2>1. UNCHANGED faults
    BY <1>4 DEF DmNext
  <2>2. ASSUME NEW o \in Oblocks, NEW c \in Cblocks, NEW dirty \in Writes, LoadMapping(o, c, dirty)
        PROVE  DmInv'
    BY <1>1, <1>2, <2>1, <2>2, LoadMappingInv
  <2>3. ASSUME NEW t \in Mappers, MapperStep(t)
        PROVE  DmInv'
    <3>1. ASSUME NEW o \in Oblocks, MapperDetain(t, o)
          PROVE  DmInv'
      BY <1>1, <2>1, <3>1, MapperDetainInv
    <3>2. ASSUME NEW write \in Writes, MapperMap(t, write)
          PROVE  DmInv'
      BY <1>1, <1>2, <2>1, <3>2, MapperMapInv
    <3>3. CASE MapperLockFails(t)
      BY <1>1, <2>1, <3>3, MapperLockFailsInv
    <3>4. CASE MapperWrite(t)
      BY <1>1, <2>1, <3>4, MapperWriteInv
    <3> QED
      BY <2>3, <3>1, <3>2, <3>3, <3>4 DEF MapperStep
  <2>4. CASE WorkerStep
    <3>1. ASSUME NEW o \in Oblocks, NEW write \in Writes, NEW can_migrate \in BOOLEAN,
                 WorkerMap(o, write, can_migrate)
          PROVE  DmInv'
      BY <1>1, <1>2, <2>1, <3>1, WorkerMapInv
    <3>2. CASE WorkerGoesOn
      BY <1>1, <2>1, <3>2, WorkerGoesOnInv
    <3>3. CASE WorkerWriteback
      BY <1>1, <2>1, <3>3, WorkerWritebackInv
    <3>4. ASSUME NEW c \in Cblocks, WorkerRemoveCblock(c)
          PROVE  DmInv'
      BY <1>1, <2>1, <3>4, WorkerRemoveCblockInv
    <3>5. ASSUME NEW mg \in migrations, IssueOverwrite(mg)
          PROVE  DmInv'
      BY <1>1, <2>1, <3>5, IssueOverwriteInv
    <3>6. ASSUME NEW mg \in migrations, MigrationSuccess(mg)
          PROVE  DmInv'
      BY <1>1, <2>1, <3>6, MigrationSuccessInv
    <3>7. ASSUME NEW mg \in migrations, MigrationFailure(mg)
          PROVE  DmInv'
      BY <1>1, <2>1, <3>7, MigrationFailureInv
    <3> QED
      BY <2>4, <3>1, <3>2, <3>3, <3>4, <3>5, <3>6, <3>7 DEF WorkerStep
  <2>5. CASE Tick
    <3>1. UNCHANGED <<policyState, targetState>>
          /\ tick_protected' = (tick_protected + 1) % TickModulus
      BY <2>5 DEF Tick
    <3>2. tick_protected' \in 0 .. TickModulus - 1
      BY <1>1, <3>1, DmAssumption DEF DmInv, BindInv
    <3> QED
      BY <1>1, <2>1, <3>1, <3>2, TickInv
  <2> QED
    BY <1>4, <2>2, <2>3, <2>4, <2>5 DEF DmNext
<1> QED
  BY <1>1, <1>3, <1>4

\* Whatever the threads do in whatever order, the binding, the policy's flags, the
\* migrations and the cells agree.
LEMMA DmAlways == DmSpec => []DmInv
  BY DmInitInv, DmNextInv, PTL DEF DmSpec

\* The tracker's queues follow the dirty flags through every call of the binding, the
\* removals that happen inside the policy included, so writeback_work never hands out
\* a freed entry and never misses a dirty one.
THEOREM DmBindingSound == DmSpec => []BindingSound
<1>1. DmInv => BindingSound
  <2> SUFFICES ASSUME DmInv
               PROVE  BindingSound
    OBVIOUS
  <2>1. BindInv /\ pool \in Pools
    BY DEF DmInv, BindInv, PoolSound
  <2>2. \A mg \in migrations : mg.cblock \in Cblocks
    BY DEF DmInv, MigrationRecords
  <2>3. DmTypeOK
    BY <2>1, <2>2 DEF DmTypeOK, BindInv, Trackers
  <2>4. TrackerExact
    BY <2>1 DEF BindInv, Tracks, TrackerExact
  <2> QED
    BY <2>3, <2>4 DEF BindingSound
<1> QED
  BY <1>1, DmAlways, PTL

\* A migration copies to or from the cache block that the policy has for its block,
\* and no two migrations use one cache block, whatever fails and whoever interferes.
THEOREM DmMigrationsMatchPolicy == DmSpec => []MigrationsMatchPolicy
<1>1. DmInv => MigrationsMatchPolicy
  BY DEF DmInv
<1> QED
  BY <1>1, DmAlways, PTL

\* An entry in flight has somebody who is going to land it, as long as nothing fails
\* and nothing is evicted under a bio.
THEOREM DmInflightIsMoving == DmSpec => []InflightIsMoving
<1>1. DmInv => InflightIsMoving
  BY DEF DmInv
<1> QED
  BY <1>1, DmAlways, PTL

\* No assertion of the binding or of the policy fails in writeback mode, unless a cell
\* clash takes a block away or a policy without history has to take one back.
THEOREM DmAssertionsHold == DmSpec => []DmNoAssertionFails
<1>1. DmInv => DmNoAssertionFails
  BY DEF DmInv
<1> QED
  BY <1>1, DmAlways, PTL

============================================================================
