------------------------------ MODULE DmCache ------------------------------
(***************************************************************************)
(* A policy inside Linux's dm-cache: the binding (dmcache_base.h) with its *)
(* writeback tracker (writeback_tracker.h), called by the cache target     *)
(* (linux_patches/dm-cache-target.c).                                      *)
(*                                                                         *)
(* The policy is any policy that keeps the promise of CachePolicy: it may  *)
(* evict any block that is not in flight.  Every entry point of the        *)
(* binding holds its mutex from beginning to end, so a call is one step;   *)
(* between two calls of one thread those of the others come in.  The       *)
(* threads are the target's worker, the only one that moves blocks, and    *)
(* the mappers, which submit bios and take the fast path of cache_map.     *)
(***************************************************************************)
EXTENDS Nucleus

CONSTANTS
  Mappers,      \* threads that submit bios
  Writes,       \* the kinds of bio: TRUE for a write
  Modes,        \* the modes of the target: "writeback", "passthrough"
  FaultSets,    \* what may go wrong in a run, "copy": a migration may fail; "clash": a
                \* block may be evicted while a bio to it is mapped or it is written back
  HasHistory,   \* the policy has a history, and finds each evicted block in it
  UseTick,      \* the option use_tick
  TickModulus   \* number of values of the tick counter

ASSUME DmAssumption ==
  /\ Writes \subseteq BOOLEAN
  /\ {HasHistory, UseTick} \subseteq BOOLEAN
  /\ Modes \subseteq {"writeback", "passthrough"}
  /\ FaultSets \subseteq SUBSET {"copy", "clash"}
  /\ TickModulus \in Nat \ {0}

VARIABLES
  pool,            \* cache pool and hash table of the policy
  wb,              \* writeback tracker: the clean and the dirty queue
  tick,            \* the policy's copy of the tick
  tick_protected,  \* the tick
  result,          \* what the last policy_map returned
  crashed,         \* a LOG_ASSERT has failed, or a pointer faulted
  mode,            \* the mode of the target
  dirty_bitset,    \* the target's own record of dirty cache blocks
  cells,           \* origin blocks that are held by a bio or a migration
  migrations,      \* migrations under way
  worker,          \* where the worker is
  mapper,          \* where each mapper is
  loading,         \* the target is still loading its mappings
  faults           \* what may go wrong in this run

policyState == <<pool, wb, tick, result, crashed>>
targetState == <<mode, dirty_bitset, cells, migrations, worker, mapper, loading>>
dmVars == <<policyState, tick_protected, targetState, faults>>

Lookup(o) == hash_lookup(pool, o)
Cached == {pool.oblock[c] : c \in pool.ht}

Idle == [at |-> "idle"]

(***************************************************************************)
(* The writeback tracker.                                                  *)
(***************************************************************************)
wb_init == [clean |-> <<>>, dirty |-> <<>>]

wb_push_cache(w, p, e) ==
  IF e \in p.dirty THEN [w EXCEPT !.dirty = queue_push(@, e)]
                   ELSE [w EXCEPT !.clean = queue_push(@, e)]

wb_remove(w, e) ==
  [clean |-> queue_remove(w.clean, e), dirty |-> queue_remove(w.dirty, e)]

(***************************************************************************)
(* The policy, as CachePolicy promises.                                    *)
(***************************************************************************)
LogFatal ==
  /\ crashed' = TRUE
  /\ UNCHANGED <<pool, wb, tick, result>>

\* Fault: the new entry is not marked as in flight.
admit_valid(p, o) == alloc_pool_entry(p, alloc_entry(p), o)

\* The head of the free list becomes the entry of block o, its data still to come.
admit(p, o) ==
  LET e == alloc_entry(p) IN migrating_entry(alloc_pool_entry(p, e, o), e)

\* A request for a block that is not cached.
policy_miss(o) ==
  \/ /\ ~cache_is_full(pool)
     /\ pool' = admit(pool, o)
     /\ result' = [OpOnly("NEW", o) EXCEPT !.cblock = alloc_entry(pool)]
  \/ /\ cache_is_full(pool)
     /\ \E v \in pool.allocated \ pool.migrating :
          /\ pool' = admit(cache_nucleus_remove(pool, v), o)
          /\ result' = [OpOnly("REPLACE", o) EXCEPT !.cblock = v,
                                                    !.old_oblock = pool.oblock[v]]
  \/ /\ result' = OpOnly("FAIL", o)
     /\ UNCHANGED pool

(***************************************************************************)
(* The binding.                                                            *)
(***************************************************************************)

\* With use_tick a hit is kept from the policy if the entry was last accessed in
\* this tick; entry.time is 0 from its allocation on, and only LFU ever sets it.
hides_hit(e) == (UseTick /\ tick_protected = 0) \/ e \in pool.migrating

\* Fault: the entry is not taken out of the tracker before it is pushed.
tracked_twice(e) == wb_push_cache(wb, pool, e)

\* The tracker after a hit: the entry moves to the end of its queue.
tracked(e) == wb_push_cache(wb_remove(wb, e), pool, e)

dmcache_base_map(o, can_migrate) ==
  LET e == Lookup(o)
  IN  /\ tick' = tick_protected
      /\ UNCHANGED crashed
      /\ \/ /\ e # Null
            /\ result' = [OpOnly("HIT", o) EXCEPT !.cblock = e]
            /\ wb' = IF hides_hit(e) THEN wb ELSE tracked(e)
            /\ UNCHANGED pool
         \/ /\ e = Null /\ ~can_migrate
            /\ result' = OpOnly("FAIL", o)
            /\ UNCHANGED <<pool, wb>>
         \/ /\ e = Null /\ can_migrate
            /\ policy_miss(o)
            /\ wb' = CASE result'.op = "NEW" -> wb_push_cache(wb, pool', result'.cblock)
                       [] result'.op = "REPLACE" ->
                            wb_push_cache(wb_remove(wb, result'.cblock), pool', result'.cblock)
                       [] result'.op = "FAIL" -> wb

\* set_dirty and clear_dirty.
dmcache_base_mark(o, dirty) ==
  LET e == Lookup(o)
      p == [pool EXCEPT !.dirty = IF dirty THEN @ \cup {e} ELSE @ \ {e}]
  IN  IF e = Null
        THEN LogFatal
        ELSE /\ pool' = p
             /\ wb' = wb_push_cache(wb_remove(wb, e), p, e)
             /\ UNCHANGED <<tick, result, crashed>>

\* The entry is not tracked until it is marked dirty.
dmcache_base_load_mapping(p, o, c) == alloc_pool_entry(p, c, o)

dmcache_base_remove_mapping(o) ==
  LET e == Lookup(o)
  IN  IF e = Null
        THEN LogFatal
        ELSE /\ pool' = cache_nucleus_remove(pool, e)
             /\ wb' = wb_remove(wb, e)
             /\ UNCHANGED <<tick, result, crashed>>

\* The entry at a cache block, allocated or not, is removed by its block number:
\* what is removed is the entry that has this number now.  The number of an entry
\* never used is that of zeroed memory, a block that is not in Oblocks.  The policy
\* takes entry e out of the tracker, the binding the entry at c.
dmcache_base_remove_cblock(c) ==
  LET e == Lookup(pool.oblock[c])
  IN  IF e = Null
        THEN LogFatal
        ELSE /\ pool' = cache_nucleus_remove(pool, e)
             /\ wb' = wb_remove(wb_remove(wb, e), c)
             /\ UNCHANGED <<tick, result, crashed>>

\* The entry handed out for writeback counts as clean from now on.
dmcache_base_writeback_work ==
  LET e == Head(wb.dirty)
  IN  /\ wb.dirty # <<>>
      /\ pool' = [pool EXCEPT !.dirty = @ \ {e}]
      /\ wb' = [clean |-> queue_push(wb.clean, e), dirty |-> Tail(wb.dirty)]
      /\ UNCHANGED <<tick, result, crashed>>

\* Block new is removed first, whether or not the policy knows it.
dmcache_base_force_mapping(current, new) ==
  LET p == default_remap(pool, current, new)
      e == Lookup(current)
      d == [p EXCEPT !.dirty = @ \cup {e}]
  IN  IF ~HasHistory \/ e = Null
        THEN LogFatal
        ELSE /\ pool' = d
             /\ wb' = wb_push_cache(wb_remove(wb, e), d, e)
             /\ UNCHANGED <<tick, result, crashed>>

dmcache_base_io_complete(o) ==
  IF migrated_entry_asserts(pool, Lookup(o))
    THEN /\ pool' = migrated_entry(pool, Lookup(o))
         /\ UNCHANGED <<wb, tick, result, crashed>>
    ELSE LogFatal

(***************************************************************************)
(* The target.  It keeps dirty bits of its own and tells the policy only   *)
(* of changes.                                                             *)
(***************************************************************************)
set_dirty(o, c) ==
  /\ dirty_bitset' = dirty_bitset \cup {c}
  /\ IF c \in dirty_bitset THEN UNCHANGED policyState ELSE dmcache_base_mark(o, TRUE)

clear_dirty(o, c) ==
  /\ dirty_bitset' = dirty_bitset \ {c}
  /\ IF c \in dirty_bitset THEN dmcache_base_mark(o, FALSE) ELSE UNCHANGED policyState

Migration(kind, old, new, c) == [kind |-> kind, old |-> old, new |-> new, cblock |-> c]

\* Start-up, before the first bio.
LoadMapping(o, c, dirty) ==
  /\ ~crashed /\ loading
  /\ mode = "passthrough" => ~dirty
  /\ o \notin Cached /\ c \notin pool.allocated
  /\ LET d == mark_dirty(dmcache_base_load_mapping(pool, o, c), c, dirty)
     IN  /\ pool' = d
         /\ wb' = IF dirty THEN wb_push_cache(wb, d, c) ELSE wb
  /\ dirty_bitset' = IF dirty THEN dirty_bitset \cup {c} ELSE dirty_bitset
  /\ UNCHANGED <<tick, tick_protected, result, crashed, mode, cells, migrations,
                 worker, mapper, loading>>

\* cache_map, first the block is detained, then the policy asked.
MapperDetain(t, o) ==
  /\ ~crashed /\ mapper[t] = Idle /\ o \notin cells
  /\ cells' = cells \cup {o}
  /\ mapper' = [mapper EXCEPT ![t] = [at |-> "map", o |-> o]]
  /\ loading' = FALSE
  /\ UNCHANGED <<policyState, tick_protected, mode, dirty_bitset, migrations, worker>>

\* Fault: the block is released before the policy hears of the write.
cells_of_hit_released(o) == cells \ {o}

\* A block stays detained until the policy has heard of the write to it.
cells_of_hit(o) == cells \cup {o}

\* A write that hits goes on to mark the block dirty; any other bio is done with,
\* or left to the worker.
MapperMap(t, write) ==
  LET o == mapper[t].o
  IN  /\ ~crashed /\ mapper[t].at = "map"
      /\ dmcache_base_map(o, FALSE)
      /\ IF result'.op = "HIT" /\ write /\ mode # "passthrough"
           THEN /\ mapper' = [mapper EXCEPT ![t] =
                                [at |-> "write", o |-> o, c |-> result'.cblock]]
                /\ cells' = cells_of_hit(o)
           ELSE /\ mapper' = [mapper EXCEPT ![t] = Idle]
                /\ cells' = cells \ {o}
      /\ UNCHANGED <<tick_protected, mode, dirty_bitset, migrations, worker, loading>>

\* mutex_trylock fails: the bio is left to the worker.
MapperLockFails(t) ==
  /\ ~crashed /\ mapper[t].at = "map"
  /\ mapper' = [mapper EXCEPT ![t] = Idle]
  /\ cells' = cells \ {mapper[t].o}
  /\ UNCHANGED <<policyState, tick_protected, mode, dirty_bitset, migrations, worker, loading>>

MapperWrite(t) ==
  /\ ~crashed /\ mapper[t].at = "write"
  /\ set_dirty(mapper[t].o, mapper[t].c)
  /\ mapper' = [mapper EXCEPT ![t] = Idle]
  /\ cells' = cells \ {mapper[t].o}
  /\ UNCHANGED <<tick_protected, mode, migrations, worker, loading>>

\* process_bio.  can_migrate depends on the bandwidth that is left.
WorkerMap(o, write, can_migrate) ==
  LET hold(kind, old) ==
        /\ migrations' = migrations \cup {Migration(kind, old, o, result'.cblock)}
        /\ cells' = cells \cup {o} \cup ({old} \ {Null})
        /\ UNCHANGED worker
      go_on(at) ==
        /\ worker' = [at |-> at, o |-> o, c |-> result'.cblock, old |-> result'.old_oblock]
        /\ cells' = cells \cup {o}
        /\ UNCHANGED migrations
  IN  /\ ~crashed /\ worker = Idle /\ o \notin cells
      /\ mode = "passthrough" => ~can_migrate
      /\ dmcache_base_map(o, can_migrate)
      /\ CASE result'.op = "HIT" /\ write /\ mode # "passthrough" -> go_on("write")
           [] result'.op = "HIT" /\ write /\ mode = "passthrough"  -> hold("invalidate", Null)
           [] result'.op = "NEW" -> hold("promote", Null)
           [] result'.op = "REPLACE" /\ result'.old_oblock \notin cells ->
                hold("demote", result'.old_oblock)
           [] result'.op = "REPLACE" /\ result'.old_oblock \in cells ->
                "clash" \in faults /\ go_on("roll_back")
           [] OTHER -> UNCHANGED <<cells, migrations, worker>>
      /\ loading' = FALSE
      /\ UNCHANGED <<tick_protected, mode, dirty_bitset, mapper>>

\* The last step of the worker's current task.
WorkerGoesOn ==
  /\ ~crashed
  /\ \/ worker.at = "write" /\ set_dirty(worker.o, worker.c)
     \/ /\ UNCHANGED dirty_bitset
        /\ \/ worker.at = "roll_back" /\ dmcache_base_force_mapping(worker.o, worker.old)
           \/ worker.at = "set_dirty" /\ dmcache_base_mark(worker.o, TRUE)
           \/ worker.at = "validate" /\ dmcache_base_io_complete(worker.o)
           \/ worker.at = "unmap" /\ dmcache_base_remove_mapping(worker.o)
  /\ worker' = Idle
  /\ cells' = IF worker.at \in {"write", "roll_back"} THEN cells \ {worker.o} ELSE cells
  /\ UNCHANGED <<tick_protected, mode, migrations, mapper, loading>>

\* writeback_some_dirty_blocks.
WorkerWriteback ==
  LET c == Head(wb.dirty)
      o == pool.oblock[c]
  IN  /\ ~crashed /\ worker = Idle
      /\ dmcache_base_writeback_work
      /\ IF o \in cells
           THEN /\ worker' = [at |-> "set_dirty", o |-> o]
                /\ UNCHANGED <<cells, migrations>>
           ELSE /\ cells' = cells \cup {o}
                /\ migrations' = migrations \cup {Migration("writeback", o, Null, c)}
                /\ UNCHANGED worker
      /\ loading' = FALSE
      /\ UNCHANGED <<tick_protected, mode, dirty_bitset, mapper>>

\* process_invalidation_request, for one cache block.
WorkerRemoveCblock(c) ==
  /\ ~crashed /\ worker = Idle /\ mode = "passthrough"
  /\ dmcache_base_remove_cblock(c)
  /\ loading' = FALSE
  /\ UNCHANGED <<tick_protected, mode, dirty_bitset, cells, migrations, worker, mapper>>

\* A full-block write replaces the copy of a promotion.
IssueOverwrite(mg) ==
  /\ ~crashed /\ worker = Idle
  /\ mg.kind = "promote" /\ TRUE \in Writes
  /\ set_dirty(mg.new, mg.cblock)
  /\ migrations' = (migrations \ {mg}) \cup {[mg EXCEPT !.kind = "overwrite"]}
  /\ UNCHANGED <<tick_protected, mode, cells, worker, mapper, loading>>

\* Fault: the policy is not told of a completed promotion.
after_migration_silent(mg) ==
  IF mg.kind = "invalidate" THEN [at |-> "unmap", o |-> mg.new] ELSE Idle

\* The call that completes a migration, after the commit.
after_migration(mg) ==
  CASE mg.kind \in {"promote", "overwrite"} -> [at |-> "validate", o |-> mg.new]
    [] mg.kind = "invalidate" -> [at |-> "unmap", o |-> mg.new]
    [] OTHER -> Idle

\* Completion, up to the commit and after it; a promotion follows a demotion.
MigrationSuccess(mg) ==
  /\ ~crashed /\ worker = Idle
  /\ CASE mg.kind = "demote"     -> UNCHANGED <<policyState, dirty_bitset>>
       [] mg.kind = "promote"    -> clear_dirty(mg.new, mg.cblock)
       [] mg.kind = "overwrite"  -> set_dirty(mg.new, mg.cblock)
       [] mg.kind = "writeback"  -> clear_dirty(mg.old, mg.cblock)
       [] mg.kind = "invalidate" -> UNCHANGED <<policyState, dirty_bitset>>
  /\ migrations' = (migrations \ {mg}) \cup
                   IF mg.kind = "demote"
                     THEN {[mg EXCEPT !.kind = "promote", !.old = Null]} ELSE {}
  /\ worker' = after_migration(mg)
  /\ cells' = cells \ IF mg.kind = "demote" THEN {mg.old} ELSE {mg.old, mg.new}
  /\ UNCHANGED <<tick_protected, mode, mapper, loading>>

\* A failed copy: the policy's mapping is rolled back.
MigrationFailure(mg) ==
  /\ ~crashed /\ worker = Idle
  /\ "copy" \in faults /\ mg.kind # "invalidate"
  /\ CASE mg.kind = "writeback" -> set_dirty(mg.old, mg.cblock)
       [] mg.kind = "demote" ->
            dmcache_base_force_mapping(mg.new, mg.old) /\ UNCHANGED dirty_bitset
       [] OTHER -> dmcache_base_remove_mapping(mg.new) /\ UNCHANGED dirty_bitset
  /\ migrations' = migrations \ {mg}
  /\ cells' = cells \ {mg.old, mg.new}
  /\ UNCHANGED <<tick_protected, mode, worker, mapper, loading>>

\* A bio that was sent as a tick has completed (cache_end_io).
Tick ==
  /\ ~crashed /\ UseTick
  /\ tick_protected' = (tick_protected + 1) % TickModulus
  /\ UNCHANGED <<policyState, targetState>>

DmInit ==
  /\ pool = epool_init
  /\ wb = wb_init
  /\ tick = 0 /\ tick_protected = 0
  /\ result = NoResult
  /\ crashed = FALSE
  /\ mode \in Modes
  /\ dirty_bitset = {} /\ cells = {} /\ migrations = {}
  /\ worker = Idle
  /\ mapper = [t \in Mappers |-> Idle]
  /\ loading = TRUE
  /\ faults \in FaultSets

MapperStep(t) ==
  \/ \E o \in Oblocks : MapperDetain(t, o)
  \/ \E write \in Writes : MapperMap(t, write)
  \/ MapperLockFails(t)
  \/ MapperWrite(t)

WorkerStep ==
  \/ \E o \in Oblocks, write \in Writes, can_migrate \in BOOLEAN :
       WorkerMap(o, write, can_migrate)
  \/ WorkerGoesOn
  \/ WorkerWriteback
  \/ \E c \in Cblocks : WorkerRemoveCblock(c)
  \/ \E mg \in migrations :
       IssueOverwrite(mg) \/ MigrationSuccess(mg) \/ MigrationFailure(mg)

DmNext ==
  /\ UNCHANGED faults
  /\ \/ \E o \in Oblocks, c \in Cblocks, dirty \in Writes : LoadMapping(o, c, dirty)
     \/ \E t \in Mappers : MapperStep(t)
     \/ WorkerStep
     \/ Tick

DmSpec == DmInit /\ [][DmNext]_dmVars

-----------------------------------------------------------------------------
(***************************************************************************)
(* Correctness.                                                            *)
(***************************************************************************)

\* The type of every variable of the binding and the target.
DmTypeOK ==
  /\ pool \in Pools
  /\ wb \in [clean : Seq(Cblocks), dirty : Seq(Cblocks)]
  /\ {tick, tick_protected} \subseteq 0 .. TickModulus - 1
  /\ result \in Results \cup {NoResult}
  /\ {crashed, loading} \subseteq BOOLEAN
  /\ mode \in Modes
  /\ dirty_bitset \subseteq Cblocks
  /\ cells \subseteq Oblocks
  /\ \A mg \in migrations : mg.cblock \in Cblocks
  /\ faults \in FaultSets

\* No LOG_ASSERT of the binding or of the policy fails: no thread asks for a block
\* that another one has made the policy forget (dmcache_base.h:190, 206, 239).
\* Not so with cell clashes (a block is evicted between its hit and set_dirty), when a
\* policy without history is to take an evicted block back, nor when passthrough mode
\* removes a cache block that is not in use.
DmNoAssertionFails ==
  /\ "clash" \notin faults /\ mode = "writeback"
  /\ "copy" \in faults => HasHistory
  => ~crashed

\* The queues of the writeback tracker follow the dirty flags: a dirty entry is in
\* the dirty queue, once, so writeback_work finds it, and a freed entry is in no
\* queue (the policy removes entries from it behind the binding's back).
TrackerExact ==
  /\ IsInjective(wb.clean) /\ IsInjective(wb.dirty)
  /\ ToSet(wb.dirty) = pool.allocated \cap pool.dirty
  /\ ToSet(wb.clean) \subseteq pool.allocated \ pool.dirty

\* Data is copied where the policy expects it: a promotion fills the cache block of
\* an entry in flight that has the block's number, a writeback reads the cache
\* block of the block it writes (unless the worker is about to restore it, or has
\* stopped there), and no two migrations move data of one cache block at the same time.
MigrationsMatchPolicy ==
  /\ \A mg \in migrations :
       CASE mg.kind \in {"promote", "overwrite", "demote"} ->
              mg.cblock \in pool.migrating /\ pool.oblock[mg.cblock] = mg.new
         [] mg.kind = "writeback" ->
              \/ mg.cblock \in pool.ht /\ pool.oblock[mg.cblock] = mg.old
              \/ worker.at = "roll_back" /\ worker.old = mg.old
              \/ crashed
         [] OTHER -> TRUE
  /\ \A m, n \in migrations : m.cblock = n.cblock => m = n

\* An entry is migrating only while dm-cache moves its data ("States whether the
\* entry is in the process of migrating", entry.h): once nobody is going to call
\* io_complete or remove_mapping for it, it may be evicted.  Otherwise its cache
\* block is out of service for good, which is what every roll-back leaves behind:
\* force_mapping renames the entry and nobody completes it (dmcache_base.h:324).
InflightIsMoving ==
  faults = {} =>
    \A c \in pool.migrating :
      \/ \E mg \in migrations : mg.cblock = c
      \/ worker.at = "validate" /\ worker.o = pool.oblock[c]

\* The binding's own state: its type, and the tracker's agreement with the flags.
BindingSound == DmTypeOK /\ TrackerExact
============================================================================
