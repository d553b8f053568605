# A verification of the FOMO caching framework

The repository implements caching policies (which blocks of a slow *origin*
device are kept on a fast *cache* device) behind one interface, the *Cache
Nucleus*, and runs them in a trace-driven simulator or inside the Linux kernel's
dm-cache. This directory models the policies and their callers in TLA+, checks
the models with TLC and proves the central invariants with TLAPS.

Source paths below are relative to `src/src/` of the repository.

## 1. The system

### Components, state, operations

| component | state | operations | hard behaviour |
|---|---|---|---|
| entry pool `include/tools/epool.h` | entries (oblock, dirty, allocated, migrating), free list, `nr_allocated`, `nr_migrating` | `alloc_entry`, `alloc_particular_entry`, `migrating_entry`, `migrated_entry`, `free_entry` | entries move between lists kept by different files; freeing an entry that is still migrating |
| hash table `include/tools/hashtable.h`, queue `include/tools/queue.h`, statistics `include/policy_stats.h` | links in the entry; wrapping counters | insert, lookup, remove; push, pop, remove | insertion never looks for an older entry of the same block |
| Cache Nucleus `include/cache_nucleus_*.h` | cache pool, meta pool, table, statistics | the policy API: `map`, `remove`, `insert`, `migrated`, lookups, `remap`, `next_victim` | calls in any order between a `map` and its `migrated` |
| LRU `algs/lru` | one queue | the API | transactions must be all or nothing |
| ARC `algs/arc` | queues T1, T2 (cached) and B1, B2 (history), their lengths, the target p | the API | entries in flight count in a length but are in no queue; the history is never tested for room |
| LARC `algs/larc` | LRU queue, queue of ghosts, its adaptive size | the API | divides by the size and by its distance to the pool; a ghost is allocated before one is freed |
| mARC `algs/marc` | state, sample window, phase counters, ghosts; ARC inside | the API | counters cleared at different moments; the size of the ghost list jumps |
| LFU `algs/lfu`, heap `include/tools/heap.h` | heap of the evictable blocks by count and time | the API; insert, delete, heapify | deletion from the middle; comparison by an unsigned difference |
| LIRS `algs/lirs` | stack S, queues Q, R, G, their counters | the API | four lists of the same entries, updated by a dozen functions |
| FOMO `fomo/` | miss history, request window, state; an internal policy | the API, forwarded to the internal policy | two policies must commit or fail together |
| mstar `mstar/` | ghosts; phases, hit rates and adaptive transitions; an internal policy | the API | asks the internal policy in the middle of its own work; integer hit rates in mixed units |
| simulator `sim/main.c`, migration tracker `sim/sim_migration_tracker.h` | the policy, the queue of scheduled migrations, the clock | one access: map, migrate, schedule, remove | scheduled events about blocks that are gone or came back |
| dm-cache binding `dmcache_policy/dmcache_base.h`, `include/writeback_tracker.h` | mutex, tick counters, dirty/clean lists | dm-cache's policy calls | callers in several threads; writeback racing removal |
| dm-cache target `linux_patches/dm-cache-target.c` | dirty and discard bits, cells held by bios and migrations, migrations, deferred bios, metadata | map a bio, copy, commit, roll back, write back, invalidate, suspend, reload | asks the policy in one call and acts on the answer in later ones; copies, commits and acknowledgements in an order that survives a crash |
| trace readers, wrappers, registries, output, `workingset_size`, `unsupported_algs` | – | start-up, I/O, reporting, third-party | not modelled (see 8) |

### Interaction

A caller (simulator or dm-cache) asks `policy_map(block)`. On NEW or REPLACE the
policy has reserved a cache block and the entry is *migrating*: the caller copies
the data and later calls `policy_migrated`. Until then the entry is hashed, so
requests hit it, but it is in no queue, so it cannot be evicted. In between any
other call may arrive, including the removal or renaming of that very block. FOMO
stands between the caller and an internal policy: it may answer FILTER itself and
otherwise forwards the call. Inside dm-cache the binding serialises the calls with a
mutex; what dm-cache does between two calls is protected only by *cells*, locks on
origin blocks of which the policy knows nothing.

### What makes the components correct

* pool: every entry is in exactly one place, the counters are exact, no block has
  two entries;
* every policy: never evicts a block in flight, uses free space first, fails only
  when everything is in flight, and a failed request changes nothing;
  `next_victim` announces what `map` then does;
* ARC: lengths, locations and queues agree, a block is known once, the lists keep
  to the bounds of the algorithm, so that the history never overflows;
* LRU: recency order changes only by the access; statistics follow residency;
* FOMO: history bounded and without repetitions, windows compared at equal length,
  while filtering only reused blocks get in;
* simulator: tracker and policy agree on what is in flight; every migration ends;
* LARC, mARC, mstar: ghosts fit their pool, no divisor is 0, a full cache admits only
  ghosts (out of UNSTABLE), counters are compared over the same requests;
* LFU: the victim is the least frequently and then least recently used block;
* LIRS: the lists and counters agree with the status of every block;
* dm-cache binding: the writeback tracker follows the dirty flags, data is copied
  where the policy expects it, a block is in flight only while it moves, and no call
  is about a block that the policy has forgotten;
* dm-cache target: no acknowledged write is lost, whatever fails or crashes; no read
  returns older data than the last acknowledged write; every bio gets on.

## 2. Modules

| module | models | kind |
|---|---|---|
| `Nucleus` | `epool.h`, `hashtable.h`, `queue.h`, `policy_stats.h`, the helpers of `cache_nucleus_internal.h` | operators, no state |
| `CachePolicy` | the contract of `cache_nucleus_api.h` and of the operation codes | abstract specification |
| `Lru` | `algs/lru/lru_policy.c` | state machine, extends `Nucleus` |
| `Arc` | `algs/arc/arc_policy.c` | state machine, extends `Nucleus` |
| `Fomo` | `fomo/fomo_policy.c` around LRU | state machine, extends `Lru` |
| `Sim` | `sim/main.c`, `sim_migration_tracker.h` driving FOMO over LRU | state machine, extends `Fomo` |
| `Meta` | the size of the meta pool | parameters that `Larc` and `Lirs` share, extends `Nucleus` |
| `Larc`, `Lirs`, `Lfu` | `algs/larc`, `algs/lirs`, `algs/lfu` | state machines; `Larc` and `Lirs` extend `Meta` |
| `Heap` | `include/tools/heap.h`, for any comparison | operators, instantiated by `Lfu` |
| `Marc`, `Mstar` | `algs/marc`, `mstar/mstar_policy.c` around any policy | state machines, extend `CachePolicy` (the policy inside) |
| `MstarPhases` | the phases and states of `mstar/mstar_logic.c` | abstract specification, composed into `Mstar` |
| `MstarLogic` | `mstar_logic.c`, `mstar_transitions.c`, `mstar_phase.c` | state machine, implements `MstarPhases` |
| `DmCache` | `dmcache_policy/dmcache_base.h`, `writeback_tracker.h`, called by `linux_patches/dm-cache-target.c` | state machine, extends `Nucleus` |
| `DmTarget` | the path of bios and data in `linux_patches/dm-cache-target.c` | state machine |
| `NucleusProofs` | lemmas on queues, pool and hash table | proofs |
| `SimProofs` | theorems about LRU, FOMO and the simulator, each over the one before | proofs |
| `LarcLirsProofs` | theorems about LARC and about LIRS | proofs |
| `ArcProofs`, `MarcProofs` | theorems about these policies | proofs |
| `MstarProofs` | theorems about mstar: its ghosts, and its logic | proofs |
| `DmCacheProofs` | theorems about binding, threads and migrations | proofs |
| `DmTargetProofs` | theorems about the mapping and the waiting of the target, and about the data | proofs |
| `MC*` | instances with the symmetry of the origin blocks (of the mapping threads and bios too) | TLC |

**Nucleus.** A pool is a record: the flags of `struct entry` are the sets of
entries that have them, `free` is the free list, `ht` the set of hashed entries
(the key is the entry's own `oblock`). Each C function is an operator from pools
to pools, and the actions compose them in the order of the calls in the code. The
fields of a freed entry keep their last value, as in the code. Statistics wrap at
`StatModulus`, which stands for 2^32.

**Lru.** One action per API call, as called by a caller that keeps to the
documented rules: mappings are loaded before the first request, a removed or
renamed block is cached, the new name is not, a migration is reported for a block
in flight. `lru_map_api` is the transaction of the code: set, test for legality,
commit. `crashed` becomes true where a `LOG_ASSERT` fails or a pointer faults.
`result` is the answer of the last call together with its request.

**Arc.** The same callers and transaction as in `Lru`. T1 and T2 are queues of
cache entries, B1 and B2 queues of blocks (as `mh` below); `loc` and `length` are
kept beside them as in the code, because an entry in flight has the first and
counts in the second without being queued. `arc_transaction_set` is split by the
cases of the code (`arc_adapt` for a hit in the history, `arc_miss`, and
`arc_replace`, which both use). `crashed` also stands for a pop of an empty list,
whose result the code dereferences. The caller is chosen in the initial state from
`Callers`: it makes no removals, complete ones (dm-cache), ones to the history
(simulator), or both (`removals`). `Writes` bounds the kinds of request.

**Fomo.** `mh` is the miss history. Its entries are allocated, hashed and queued
together and nothing depends on which pool entry a block has, so the queue of
blocks stands for pool, table and queue; the assertion that the pool is not empty
is kept (`insert_in_meta_asserts`). The write flag is not forwarded, as in the
code. The code's numbers 100, 1000 and 50 are the constants `PeriodDivisor`,
`HitWeight` and `ReuseThreshold`.

**Sim.** One access is the four steps map, migrate, add, remove of `sim_access`.
The tracker stores the *remaining* time of each migration, so that the clock needs
no bound. Which accesses `--remove-rate` hits is left open, which covers the
periodic and the random rate. The options are chosen in the initial state, as on the
command line.

**DmCache.** The policy is not one algorithm but any that keeps the promise of
`CachePolicy`: `policy_miss` admits into free space, evicts any block that is not in
flight, or fails. Every entry point of the binding holds the mutex throughout, so it
is one step; the steps of a mapping thread (`cache_map`: detain the block, ask the
policy, mark it dirty) and of the worker (`process_bio`, writeback, invalidation,
completion of migrations) interleave. `cells` are the origin blocks held. A
migration is a record of its kind, blocks and cache block; its copy is the time
between the step that starts it and the one that completes it. The target's dirty
bit and the call that reports its change are one step: the block's cell is held.
`FaultSets`, of which the initial state takes one, enables failed copies and cell clashes (the policy evicts a block whose
cell is held, which dm-cache rolls back with `force_mapping`); failures to write
dm-cache's metadata, which make the same calls to the policy, are left out.
`HasHistory` says that the policy knows evicted blocks (ARC and its kin) or does not
(LRU). The mode, writeback or passthrough, is chosen in the initial state.

**Larc, Lfu, Lirs.** The callers of `Lru`, and one action per API call. Ghosts are
queues of blocks, as `mh` above. In `Lfu` and `Lirs` entries are named by their
blocks, because neither policy chooses cache blocks. The functions of
`lirs_policy.c` are operators on the value of `struct lirs_policy`, composed in the
order of the calls in `lirs_transaction_commit`; `fault` records a failed assertion or
a NULL pointer. The loop of `lirs_find_last_lir_lru` is a function on the number of its
steps (`popped`). The heap is the array of the code, with its own order of comparisons;
`WordModulus` is the range of the unsigned counts that `lfu_compare` subtracts.

**Marc, Mstar.** Admission policies around *any* policy: the variables and actions of
`CachePolicy` are the internal policy, so what is checked holds for ARC, and for LRU
and the others where the code allows them. `GhostDivisor` stands for the code's 10.
mARC asks `next_victim` first and changes nothing when the answer is FAIL
(`marc_fail`); mstar calls `policy_map` in the middle of its own work.

**MstarPhases, MstarLogic.** `Mstar` needs to know only when the state may change:
that is `MstarPhases`. `MstarLogic` is the arithmetic, with the thresholds of the
code, in hundredths and thousandths and with unsigned wrap-around, for the static and
the adaptive variant; it implements `MstarPhases`.

**DmTarget.** The contents of a block are the number of the write they come from. The
two devices, the mapping in core (`policy`), in the metadata (`meta`) and as last
committed (`disk`), the dirty and discard bits, cells, bios and migrations are the
state. `do_worker` goes through its parts in the order of the code (`stage`); the
client's bios, the ends of I/O and of copies, failures, crashes and reloads come at
any time between. `acked` is the last write of each block whose end the client has
seen. A suspend asks the worker to move no more blocks (`start_quiescing`), which it
acknowledges at the end of its round, and waits for the migrations; dm's core has by
then waited for every bio and passes no new ones. The table is then reloaded; resuming
the old one is left out. The bio prison, the deferred set, kcopyd and dm-cache's metadata are not part of
the repository and are modelled by how the target uses them.

## 3. Runs

| run | question | states |
|---|---|---|
| `lru` | does LRU keep pool and order consistent under every order of calls, and implement `CachePolicy`? | 303 280 |
| `fomo` | the same for FOMO around LRU, with both states and the window boundary | 128 139 |
| `sim` | do tracker and policy agree when blocks are removed and come back while migrating? do migrations and failures end? | 166 659 |
| `arc` | does ARC keep its lists exact under every removal, and, without removals, keep its bounds and implement `CachePolicy`? | 20 351 |
| `larc` | are its divisions and its ghost pool safe? what gets into a full cache? | 1 489 |
| `marc` | do ghosts fit through every change of state, and are hit rates comparable? | 62 860 |
| `lfu` | is the victim the least frequent block, through deletions anywhere in the heap? | 12 087 |
| `lirs` | do S, Q, R and G agree, and when does LIRS stop? | 63 743 |
| `mstar` | do ghosts fit, and what does a failed request cost? | 7 246 |
| `mstar_logic` | does the logic keep to its phases, and what do its comparisons amount to? | 495 034 |
| `dm` | do threads, policy and tracker agree, without faults and through roll-backs? | 554 038 |
| `dm_target` | is data ever lost or stale, is anybody stuck? | 1 679 297 |

All hold.

*Bounds.* A cache of 3 with 4 blocks is the smallest in which a miss can replace,
the cache can be full with some blocks in flight and some not, and the queue has
an inner element. Every counter is bounded by construction except the statistics,
which wrap at `StatModulus` (3 in `lru`, 1 elsewhere: no decision is made on them).
FOMO's window has 3
requests and the threshold 600 per request asks for two history hits out of three,
so that both sides of both comparisons occur; with the code's constants a cache of
that size has windows of a single request. The simulator runs, in
a cache of 2, without a delay, with one (1) shorter and one (3) longer than the cache
has blocks, so that requests never fail in the first two and fail in the third. ARC needs
more blocks than twice the cache, or its directory never is full when a new block
comes: 5 blocks for a cache of 2 and a history of 2 (with 6 blocks TLC finds the same
states). LARC has a cache of 2, 6 meta entries and divisor 4, so that the
size moves over its whole range 1 .. 4. mARC and mstar have a cache of 3 and divisor 3
(sizes 1 .. 2), 6 blocks; `PhaseBound` ends a phase of mARC after 9 requests, three
times the sample. LFU needs a heap with two levels below the root in which the last
item belongs to another subtree: 6 entries, counts to 2 and times to 1. LIRS has a
cache of 4, the smallest that its own limits allow (`hir_limit` is 2), 2 ghosts and 6
blocks. `mstar_logic` has phases of 2 requests; the bounds of 206 requests and 3 hits of
one state are chosen because STABLE is entered only below 1% hits, and 3
adaptations see each direction twice. dm-cache (`dm`) has two mapping threads, the
worker, a cache of 2 and 4 blocks: two blocks cached, one wanted by the worker and one
by a thread; the tick has 2 values, so that it wraps. `dm_target` has two blocks that
compete for one cache block, two bios at a time, three in all, and one crash or reload:
enough to write a block, have it demoted by the other one and read it back, with each
fault in between. Its constraint `Explored` keeps the third bio a read until a restart,
and the bios after a restart apart: a write that is lost, overtaken or forgotten shows to
a read, and the recovery that the restart is about runs before the bios that follow it.
Without the constraint there are 9.45 million states, in which TLC finds nothing either,
and four bios give more than TLC can do in minutes; the invariants of this run are proved
without any of these bounds (section 5).

*Deadlock* is not checked where the program may stop: at an assertion
(`arc` with removals, `lirs`, `mstar`, `dm` with faults), or at a bound on the
behaviours explored (`mstar_logic`, `dm_target`).

*Symmetry* in the origin blocks is used where no liveness is checked: blocks are
only compared for equality.

*Fairness.* `FairSimSpec` assumes weak fairness of the simulator's next step: its
main loop runs until the trace ends, and a trace that goes on is what the
properties are about. No fairness is assumed between the alternatives of a step. For
`DmTarget` an invariant stands in for liveness (`NobodyStuck`): every waiting bio has a
cell that a migration holds, every migration waits for bios that a device has or the
worker is about to send to one, so that there is no circle; and a suspend that the
worker has acknowledged waits only for migrations that wait for nobody.

## 4. What the properties say

*Structures.* `EntryInOnePlace`, `PoolCountersExact`, `NoAssertionFails` are
the integrity of pool, table and queue; `OnlyAccessedBlockIsOvertaken` is the recency
order. `ArcSound` (lengths, locations and queues agree, a block is known once, the
bounds of the algorithm), `LarcSound`, `LirsListsSound` and `BindingSound` (the writeback
tracker) say the same of structures that several functions update in parts.

*Contract.* `ImplementsPolicy`, `ArcImplementsPolicy`, `LarcImplementsPolicy` and
`LirsImplementsPolicy` are refinements: under the mapping (cached blocks, blocks in
flight, last answer) each policy implements `CachePolicy`. ARC and LIRS look for a victim in
one list only, so `CachePolicy` lets them fail while some block is in flight
(`FailsEarly`), where LRU and LARC may fail only when all are.
`FomoVictimAsAnnounced`, `ArcVictimAsAnnounced`, and a part of `LarcAdmitsOnlyGhosts`,
`LfuEvictsLeastFrequent`, `LirsImplementsPolicy` (`LirsVictimAsAnnounced`), `MarcAdmission`
and `MstarAdmission`, relate what was announced before a request to what it did: the
legality test of the policies around them depends on it.

*Admission.* `FomoSound` (history and window), `FailChangesNothing`,
`FilterAdmitsOnlyReused`, `LarcAdmitsOnlyGhosts`, `MarcAdmission` and `MstarAdmission`
say who gets in and what a failed request leaves behind; `MarcGhostsFit` and
`MstarGhostsFit` that pool and divisors are safe; `MarcCountersSound` that rates are
compared over the same requests. `MstarLogicImplementsPhases` is a refinement;
`MstarTransitionEffects` says what the comparisons of mstar amount to, which is not
what their comments suggest (section 6).

*Eviction.* `LfuEvictsLeastFrequent` and `LfuCountsEveryRequest` state LFU over plain
integers. `LirsQuietNeverFaults` says under which use LIRS never stops; until it does,
`LirsImplementsPolicy` says what it does.

*Callers.* `SimSound`, `MigrationsEnd` and `FailuresEnd` are the simulator's.
`MigrationsMatchPolicy`, `InflightIsMoving` and `DmNoAssertionFails` relate binding,
target and policy. The first holds through every fault. `InflightIsMoving` holds as long as
dm-cache never rolls back; `DmNoAssertionFails` through failed copies too if the policy has
a history, because the roll-back of a failed demotion asks for one (section 6). `CrashSafe`,
`ReadsLatest`, `CleanMayBeDropped`, `QuietAgreement` and `NobodyStuck` are about the
data. `CrashSafe` looks at the devices and the committed mapping in *every* state, so it
covers a crash at every moment, beyond the crashes that the run goes on from; it excludes
failed commits. `ReadsLatest` and `CleanMayBeDropped` exclude only runs in which a commit
may fail *and* the machine crash (`CommitLost`): after that the data itself is gone.

Each property has a fault next to the definition it concerns (an operator marked
*Fault*): with the fault in place of the definition TLC finds the property violated.

## 5. Proofs

The theorems hold for every value of the constants: any number of blocks, entries,
threads, bios and restarts, any thresholds. `PROJECT.json` lists them.

**Nucleus.** `NucleusProofs` proves what the queue and pool operators do: they keep
queues free of repetitions, and they preserve `PoolSound` (free list and allocated
entries are complements, hashed exactly when allocated, counters exact, one entry per
block). Every proof about a policy or the binding rests on it. Assumption:
`NucleusAssumption` (at least two entries, which `infer_cblock` needs; NULL is neither a
block nor an entry).

**LRU.** `LruInv` is `PoolSound`, and that the queue holds exactly the entries that are
allocated and not migrating. None of the properties is inductive alone: that a hit on a
migrating entry leaves the queue alone is only enough because the queue is known not to
contain it, and that an assertion of the pool holds needs the exact counters. From it
follow the invariants of the run, the recency order (an action property) and, case by
case, that each step is a step of `CachePolicy` or none.

**FOMO.** `FomoInv` is `LruInv` and the bounds of the history and of the window:
`c_hits` and `mh_hits` are at most `HitWeight` times the requests counted, which the hit
rates compared need. The three action properties follow: a failed request changes
nothing, a filter admits reused blocks only, and the announced victim is the one evicted.

**Simulator.** `SimInv` is `FomoInv`, and that the tracker is a queue of distinct
blocks, whose remaining times grow strictly and lie, before each step of an access, in a range of at most
`migration_delay` values (`Scheduled`); and that what is in flight is what is in the tracker and the
block that this access has just admitted (`Pending`), which is not in it yet.
`TrackerMatchesPolicy` alone is not inductive: it speaks of one step of four. As the
times are distinct there are no more migrations than `migration_delay`; from this it
follows that the tracker's pool is never used up, and that a request fails, for which all cache blocks must be in
flight, only if the delay is no shorter than the cache is large. Removals without a delay
stop the simulator (`SimStopped`). TLC checked `SimInv` before, on the instance of the run and with the
unsupported command line added.

**LARC.** `LarcInv` says that the ghosts are no cached blocks and that `g_size` stays
within `MetaSize \div GhostDivisor` and its complement. The arithmetic of truncated
divisions (`GhostBounds`, `GhostAdapts`) shows that the pool always has room for a ghost
before one is dropped, and that the code can divide by 0 only if the meta pool has fewer
than `GhostDivisor` entries. Assumption: `GhostDivisor >= 2` (the code has 10; with 1 the
lower bound would exceed the upper one). `LarcRefinesPolicy` and `LarcAdmits` follow.

**LIRS.** Every function of `lirs_policy.c` has a lemma that says what it keeps of `Sound`: the
four queues have no block twice and hold what the blocks' status says (`StatusSound`), R has the
order of S (`QueuesSound`), and `lir_count` is exact. In the middle of a commit the requested block
is cached but in no list, and so are the blocks in flight all the time; hence `Sound` has a
second parameter, the blocks that are out of the lists. That the head of S, if it is
HIR, is the head of R, as `lirs_find_last_lir_lru` asserts, follows from R having the order of S:
therefore the order is in the invariant although no caller sees it. The loop is proved by an
induction on its steps (`UpTo`, from the least member of a set of naturals; the library's
induction theorems take an operator). A commit is `MakeRoom`, `lirs_commit_entry`, `Demote`,
`Place` and `lirs_prune_s`, one lemma each, put together in `RequestSound`.
`LirsInv` adds to `Sound` what holds while mappings are loaded (`LoadSound`), in quiet use
(`QuietSound`: `s_len` is exact, at most the last request's block is in flight, `lir_count` keeps
its limit) and in quiet use of a cache that is large enough (`NeverFaults`: S ends in a LIR
block, and there is one as soon as a block is cached). `LirsQuietNeverFaults` is not inductive
without the last: the asserted LIR head of S, the block that is demoted, and the bound on the
length of S all depend on it. Assumption: `LirsAssumption` (the types of the constants). TLC checked
`LirsInv` before, with caches of 2, 3 and 4 blocks and 0, 1 and 2 ghosts.

**ARC.** `ArcInv` is `PoolSound`, `ResidentSound` (T1 and T2 hold exactly the entries that
may be evicted, the lengths count those in flight too), `HistorySound` (B1 and B2 are
disjoint, without repetitions), that no cached block is in the history, and `Bounded`. The
bounds of the algorithm (T1 and B1 within the cache size, all four lists within twice of it)
are not inductive alone: a miss into a free entry would break them if there were a history
already. `Bounded` adds that there is a history only while the cache is full. Every change of a
list is one lemma (`LeaveList`, `EnterList`, `QueueEntry`, `MoveEntry`, `ForgetBlock`,
`RememberBlock`), and the miss is composed of them in the order of the code (`MissForgets`,
`MissEvicts`, `MissRemembers`, `MissEnters`, and `MissIsBounded`, by which the history never
outgrows the meta pool). The lists are exact and blocks known once whatever the
caller removes; bounds, assertions, the refinement of `CachePolicy` and the announced victim
are about a caller without removals, because they are false otherwise (section 6). Assumption:
`ArcAssumption` (the types of the constants). TLC checked `ArcInv` before with 4 blocks,
for all callers.

**dm-cache binding.** `DmInv` has two parts. `BindInv` is the binding's own: `PoolSound`,
and the tracker's queues are the dirty entries and some of the clean ones. It is kept by
every call, whoever calls. `RunInv` says what the threads are about to do, while the
program runs: `CellsOwned` (a cell has one owner, be it a mapper, the worker or a
migration), `MigrationMatches` and `WorkerMatches` (what a migration and the worker's next
call rely on is still so), `MappersMatch` (a thread that is going to mark a block finds
it, unless there are clashes), `PassesThrough` (nothing is dirty or moved in passthrough mode).
`MigrationsMatchPolicy` needs all of these: that the entry being written back is not given
away in between follows from its block's cell, and this from the cell having one owner. It
needs also, of a demotion, that its old block is in no entry, or the roll-back would
create a second one. `DmNoAssertionFails` and `InflightIsMoving` are conjuncts of `DmInv`.
A by-product is that the removal by which `force_mapping` begins never finds its block
among the cached ones (`NotHashed` in `MigrationMatches` and `WorkerMatches`). The policy is *any* that keeps
`CachePolicy`'s promise. Assumption: `DmAssumption` (the types of the constants). Before
the proof, TLC checked `DmInv` with 3 blocks and 2 mappers and with 4 blocks and one, each
with all sets of faults, with and without a history.

**dm-cache target.** `TargetInv` is `TargetTypes`, `MapInv` (a migration's phase determines
what policy and metadata have at its cache block; one migration per block and per cache
block; an entry is in flight exactly for a migration) and `WaitInv` (cells and held bios
belong to migrations; a migration waits for bios that are on their way). `QuietAgreement`
and `NobodyStuck` follow. On top of it `DataInv` has `ClientInv` (one write of a block at a time,
and what was promised to whom), `FlightInv` (a migration waits for every bio that carries data
of its blocks), `ContentsInv` (a mapped block is current on the cache, an unmapped or clean
one on the origin) and `CommitInv` (a mapping that is not on disk yet has a migration
waiting for the commit). `CrashSafe` needs all four: that the committed mapping can be trusted in
a crash follows because no write is acknowledged to a place that the disk does not know.
`CleanMayBeDropped` and `ReadsLatest` follow as well. Assumption: `DmTargetAssumption` (types;
NULL is neither a block nor a bio). TLC checked `DataInv` before with two cache blocks, two
submissions and all faults, and with one cache block and three submissions.

**mARC.** `MarcInv` says that the ghosts are a queue without repetitions of at most
`max_ghost_size` blocks, that the size to keep is within its bounds or the cache size, that a
failed assertion needs a cache of fewer than `GhostDivisor` blocks, and how the counters of
a phase are related (`MarcCountersSound`, which types make inductive). A miss evicts one
ghost at most, after it has allocated one: that this is enough although the size drops at once
needs that the number is bounded by `max_ghost_size` *before* each request. The policy
inside is *any* that keeps `CachePolicy`'s promise, so the theorems hold for each of the
policies above. Assumption: `GhostDivisor >= 2`, as for LARC. TLC checked `MarcInv` before.

**mstar.** Its ghosts and its logic are proved apart, as they are modelled.
`MstarGhostsAlwaysFit` is about any policy that keeps `CachePolicy` and any logic that
keeps `MstarPhases`: the size of the list moves within its bounds whatever the phases do,
`LengthControl` shows that the list never exceeds it by more than the one ghost it drops, and an
assertion fails only if there are fewer than `GhostDivisor` cache blocks. That the logic
keeps `MstarPhases` is `LogicImplementsPhases`. Its invariant `LogicInv` says that the
windows hold at most one period of samples, each 0 or 1, that the parameters stay
between 0 and 1000, and that STABLE is entered with a sample that has a hit, and keeps it. With it
every request is one of three steps, `GoesOn`, `Stays` or `Changes`, and each is a step of
`MstarPhases`. `LogicTransitionEffects` needs to know when the unsigned differences
wrap (`WrappedDifference`); the assumption is that the words are wide enough for the
products that the code compares (`WordModulus`, 2^32 in the code). `ChangeFromUnstable`
shows on the way that one of the tests never passes (section 6). The bounds on requests and adaptations that TLC uses
play no part.

**What the proofs changed.** Twelve formulas turned out not to be provable as they
stood. The arms of `next_victim`'s case distinction overlapped in `Lru`, `Arc` and `Larc`, so
that its value was left open in the overlap; they are disjoint now, as the code's `else`
makes them. `LarcAssumption` allowed `GhostDivisor = 1`. The same divisor was allowed for mARC and
mstar. `DmTargetAssumption` allowed NULL to be a
block, and mstar's allowed it to be the mark of a failed assertion. `DmNoAssertionFails` was false of a policy without a history when a demotion
fails (the run had such a policy with clashes only). `CleanMayBeDropped` excluded more than it had to.
`ArcNoAssertionFails` did not say that the meta pool is as large as the cache: with a smaller
one (option `-m`) the history outgrows it. `SimSound` did not exclude the command line
that stops the simulator (`Unsupported`), which the run does not try. And
`MstarTransitionEffects` said that fewer ghost hits always improve the parameter, which is false
when it is at its maximum: `AdaptBound` kept TLC from getting there.
`LirsQuietNeverFaults` did not say that the meta pool has an entry, without which an eviction
from S fails an assertion; and `LirsImplementsPolicy` spoke of steps in which LIRS stops, as
caches of 2 or 3 blocks make it do. The run has neither.

**Only model-checked.** `Lfu`, because what its heap computes is recursive (`Heap`), which the
prover cannot load. Out of its reach are also the liveness properties `MigrationsEnd` and
`FailuresEnd` of `Sim`.

## 6. What the models show about the code

Each of these is a behaviour of the code that a doc, a comment or an assertion rules
out, or hardly intends. The properties above exclude it by the condition named.

*Simulator and ARC*

* `sim_access` calls `migration_remove` for every removed block, but `sim_prep`
  initialises the tracker only with a delay (`sim/main.c:74,190`). The simulator built
  from this code stops with a segmentation fault for `--remove-rate 2`. (`SimSound` excludes
  this command line from what it says of assertions.)
* After a complete removal of a cached block ARC has a free block, but still evicts,
  because the lengths of its four lists reach the cache size; the history outgrows its
  pool and `insert_in_meta` aborts (`arc_policy.c:188`). Loading blocks 1 and 2 and
  then map 1, 2, 3, remove 3, map 3, migrated 3, map 4 aborts the compiled code.
  (`ArcNoAssertionFails` is about a caller without removals.) A meta pool smaller than the
  cache (`-m`) fails the same assertion without removals.
* ARC makes room for a block removed to the history in the list that the block goes
  to, which may be empty. Loading 1 and 2 and then map 1,
  3, remove 3, remove 1 (both to the history) is a segmentation fault in the compiled
  code. After removals ARC may also fail every request with nothing in flight.
* `fomo_remove` forwards every removal to the internal policy, which asserts that the
  block is cached; the API promises that a block known only to the history can be
  removed. The callers of `Fomo` remove cached blocks only.

*LARC, mARC, LFU, LIRS*

* `larc_next_victim_api` announces FILTER for a hit and for a miss that `map` takes in
  (`larc_policy.c:304`); only its REPLACE and FAIL can be relied on. Fewer than 10 meta
  entries make the first miss divide by 0.
* In UNIQUE mARC counts no ghost hit, because a hit is counted only when the ghost is
  removed and added again (`marc_policy.c:251`), which UNIQUE never does: the ghosts'
  own hit rate (`marc_policy.c:102`) never ends that state.
* `lfu_next_victim_api` reads fields of a transaction that it never initialises
  (`lfu_policy.c:181`); it is right where it matters, for a miss in a full cache.
* `lirs_transaction_set` tests whether the *oldest* entry of S, not the request's own, is
  in S (`lirs_policy.c:72`): every known HIR block becomes LIR, and with S empty NULL is
  followed. `s_len` drifts when a block in flight is removed. A repeat of `last_oblock`
  after its removal or renaming answers NEW without an entry. A hit never sets
  `result->cblock`. Caches of 2 or 3 blocks fail an assertion. `LirsQuietNeverFaults`
  says that none of these stops LIRS when every migration ends before the next request
  and nothing is removed or renamed.

*mstar*

* `mstar_remap` follows NULL unless the renamed block is a ghost (`mstar_policy.c:212`),
  and may give two ghosts one name.
* A request that the internal policy fails is counted in the phase, and one that was let
  in as a ghost has used up the ghost: the retry is filtered (`MstarAdmission`).
* `transition_value(us_un_th) * hr_state > hr_sample` (`mstar_transitions.c:209`)
  compares a percentage of hundredths with hundredths: STABLE is entered only if fewer
  than 1% of the requests were hits. The comment of line 96 gives the threshold as 50;
  `transition_value` makes it 60, and `unstable_stable_percent` starts above its own
  maximum.
* `mstar_next_victim` announces FILTER for a block that `map` takes in, as long as there
  is room in the cache (`mstar_policy.c:277`).
* STABLE compares with the phase before it (`mstar_transitions.c:225`), so a falling hit
  rate never ends it.
* The unsigned difference of line 34 wraps: fewer ghost hits count as an improvement.
* The test for a hit rate close to the state's, with `unstable_stable_threshold`
  (`mstar_transitions.c:213`), never passes: where the one of line 209 did not pass, the sample's
  hit rate is at least 20 times the state's (`ChangeFromUnstable` in `MstarProofs`).
* With fewer than 10 cache blocks the size of the ghost list becomes 0, and an assertion
  fails.

*dm-cache binding* (with cell clashes or failed copies)

* `cache_map` gets a HIT and marks the block dirty in a second call. Between the two the
  worker's `map` may evict this block; `set_dirty` then does not find it and its
  assertion fails (`dmcache_base.h:198`). The mutex protects each call, not the pair.
* To roll back a REPLACE `force_mapping` first removes the evicted block,
  unconditionally (`dmcache_base.h:318`); a policy without history, like LRU, asserts that
  it knows it.
* `force_mapping` renames an entry that is migrating, and nobody calls `io_complete` for
  it (`dmcache_base.h:324`). It stays in no queue and can never be evicted.
* `remove_cblock` looks entries up whether they are allocated or not, so its
  `-ENODATA` branch is dead: invalidating an unmapped cache block removes a block that
  the policy does not know (passthrough mode).
* `use_tick` compares the tick with `entry.time`, which only LFU writes, so under
  every other policy it does not limit hits to one per tick.

*dm-cache target* (kernel code that the repository patches)

* After a failed commit `commit_requested` is clear, so the next round skips the commit
  and goes on with what waited for it (`dm-cache-target.c:1465`): acknowledged data is
  lost if the machine crashes then. With `FaultSets` containing `{"commit", "crash"}` and
  without its condition `CrashSafe` is violated.
* If the metadata cannot be changed, the cells of the migration stay held
  (`dm-cache-target.c:901`) and bios on the block hang; a failed invalidation renames a
  block it has never set.

## 7. Plan

Done: every policy that is built, both admission policies around them, the simulator,
the binding and the data path of the target; proofs for pool, LRU, FOMO, LARC, LIRS, ARC, mARC,
mstar, the simulator's tracker, binding and target. Left: proofs about LFU, once the heap is
written without recursion.

## 8. Not modelled

Trace readers and option parsing (I/O; the models take every sequence of accesses),
wrappers and registries (start-up), output and counting helpers (reporting), the
parts of the kernel's dm-cache that move no data (constructor parsing, resizing, throttling of
migrations, status, resuming without a reload), the format of dm-cache's metadata, `unsupported_algs` (not built), vendored lists, hashes, random numbers and fixed-point arithmetic, and memory allocation failure
at creation, after which no policy exists.
