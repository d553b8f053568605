-------------------------------- MODULE Sim --------------------------------
(***************************************************************************)
(* The cache simulator (sim/main.c, sim/sim_migration_tracker.h) driving   *)
(* FOMO over LRU.  Every access of the trace is mapped; a block that was   *)
(* given a cache block completes its migration migration_delay accesses    *)
(* later; and the accessed block may be removed afterwards.                *)
(*                                                                         *)
(* One access is the sequence map, migrate, add, remove of sim_access.     *)
(* The tracker keeps the time at which each migration ends; here it is     *)
(* counted from the current access (0: now), so that time needs no bound.  *)
(***************************************************************************)
EXTENDS Fomo

CONSTANT
  Options  \* the command lines considered: migration_delay is --migration-delay,
           \* removals says whether --remove-rate is set; which accesses it hits is
           \* left open, as it is for a negative (random) rate

ASSUME SimAssumption == Options \subseteq [migration_delay : Nat, removals : BOOLEAN]

VARIABLES
  options,   \* the options of this simulation
  pc,        \* the next step of sim_access
  request,   \* the block of the current access
  op,        \* the operation the access resulted in
  tracker    \* migrations in progress, in the order in which they end

simVars == <<options, pc, request, op, tracker>>
Migrations == [oblock : Oblocks, left : Nat]

Tracked == {m.oblock : m \in ToSet(tracker)}

\* The tracker without the migration of block o, if it has one.
migration_remove(o) ==
  IF o \in Tracked
    THEN RemoveAt(tracker, CHOOSE i \in DOMAIN tracker : tracker[i].oblock = o)
    ELSE tracker

\* The first migration of the tracker ends with this access.
migration_due == tracker # <<>> /\ Head(tracker).left = 0

\* Fault: a block that replaced another is forgotten.
was_admitted_new == op = "NEW"

\* The access gave its block a cache block, to which it has to migrate.
was_admitted == op \in {"NEW", "REPLACE"}

SimInit ==
  /\ FomoInit
  /\ options \in Options
  /\ pc = "map"
  /\ request = Null
  /\ op = "HIT"
  /\ tracker = <<>>

\* A block whose migration is in progress is a hit that the policy never sees.
sim_map(o) ==
  LET e == Lookup(o)
  IN  /\ pc = "map" /\ ~crashed
      /\ request' = o
      /\ \/ /\ e # Null /\ e \in pool.migrating
            /\ op' = "HIT"
            /\ UNCHANGED <<lruVars, fomoVars>>
         \/ /\ ~(e # Null /\ e \in pool.migrating)
            /\ fomo_map(o)
            /\ op' = result'.op
      /\ pc' = "migrate"
      /\ loading' = FALSE
      /\ UNCHANGED <<tracker, options>>

\* The policy hears that a migration has ended if the block is still cached.
sim_migrated(o) ==
  \/ /\ Lookup(o) # Null
     /\ fomo_migrated(o)
  \/ /\ Lookup(o) = Null
     /\ UNCHANGED <<lruVars, fomoVars>>

\* Without a delay the block just given a cache block has migrated at once.
sim_migrate_now ==
  /\ pc = "migrate" /\ ~crashed
  /\ options.migration_delay = 0
  /\ \/ /\ was_admitted
        /\ fomo_migrated(request)
     \/ /\ ~was_admitted
        /\ UNCHANGED <<lruVars, fomoVars>>
  /\ pc' = "remove"
  /\ UNCHANGED <<options, request, op, tracker, loading>>

\* With one, the migration that ends with this access leaves the tracker.
migration_next ==
  /\ pc = "migrate" /\ ~crashed
  /\ options.migration_delay > 0
  /\ \/ /\ migration_due
        /\ tracker' = migration_remove(Head(tracker).oblock)
        /\ sim_migrated(Head(tracker).oblock)
     \/ /\ ~migration_due
        /\ UNCHANGED <<tracker, lruVars, fomoVars>>
  /\ pc' = "add"
  /\ UNCHANGED <<options, request, op, loading>>

\* The pool of the tracker, as migration_tracker_init makes it.
tracker_nr_entries == 2 * options.migration_delay

\* alloc_entry returns NULL, which is then written through, if no entry is left.
migration_add ==
  /\ pc = "add" /\ ~crashed
  /\ \/ /\ was_admitted /\ request \notin Tracked
        /\ IF Len(tracker) < tracker_nr_entries
             THEN /\ tracker' = Append(tracker, [oblock |-> request,
                                                 left |-> options.migration_delay])
                  /\ UNCHANGED lruVars
             ELSE LogFatal /\ UNCHANGED tracker
     \/ /\ ~(was_admitted /\ request \notin Tracked)
        /\ UNCHANGED <<tracker, lruVars>>
  /\ pc' = "remove"
  /\ UNCHANGED <<options, request, op, loading, fomoVars>>

\* The next access is one time unit later.
Elapse(q) == [i \in DOMAIN q |-> [q[i] EXCEPT !.left = @ - 1]]

\* remove_now: the block accessed is removed, if it is cached.  Without a delay the
\* tracker was never initialised, and looking a block up in its hash table reads
\* through a NULL pointer.
sim_remove ==
  /\ pc = "remove" /\ ~crashed
  /\ \/ /\ options.removals
        /\ Lookup(request) # Null
        /\ IF options.migration_delay > 0
             THEN /\ tracker' = Elapse(migration_remove(request))
                  /\ fomo_remove(request, TRUE)
             ELSE LogFatal /\ UNCHANGED <<tracker, fomoVars>>
     \/ /\ tracker' = Elapse(tracker)
        /\ UNCHANGED <<lruVars, fomoVars>>
  /\ pc' = "map"
  /\ UNCHANGED <<options, request, op, loading>>

SimNext ==
  \/ \E o \in Oblocks : sim_map(o)
  \/ sim_migrate_now
  \/ migration_next
  \/ migration_add
  \/ sim_remove

SimSpec == SimInit /\ [][SimNext]_<<allVars, simVars>>

\* The main loop runs as long as the trace has accesses.
FairSimSpec == SimSpec /\ WF_<<allVars, simVars>>(SimNext)

-----------------------------------------------------------------------------
(***************************************************************************)
(* Correctness.                                                            *)
(***************************************************************************)

\* The type of every variable the simulator adds.
SimTypeOK ==
  /\ FomoTypeOK
  /\ options \in Options
  /\ pc \in {"map", "migrate", "add", "remove"}
  /\ request \in Oblocks \cup {Null}
  /\ op \in Operations
  /\ tracker \in Seq(Migrations)

\* Between two accesses the tracker and the policy agree: a block is in flight
\* exactly when the end of its migration is scheduled.  One that is in flight and
\* not tracked would keep its cache block forever without ever being evictable;
\* one that is tracked and not in flight would trip an assertion of epool.h.
TrackerMatchesPolicy ==
  pc = "map" => Tracked = Inflight

\* The tracker only compares the head of its queue with the current time, so the
\* queue must be ordered, without two migrations ending at the same access, and
\* its head never overdue: an overdue head would block it for good.
TrackerOrdered ==
  /\ \A i, j \in DOMAIN tracker : i < j => tracker[i].left < tracker[j].left
  /\ \A i \in DOMAIN tracker : tracker[i].left \in 0 .. options.migration_delay

\* An access fails only when migrations may take as many accesses as there are
\* cache blocks; in particular never when they complete at once.
FailsOnlyWithLongDelays == op = "FAIL" => CacheSize <= options.migration_delay

\* Every migration ends: a block in flight becomes resident or is removed.
MigrationsEnd == \A o \in Oblocks : o \in Inflight ~> o \notin Inflight

\* The cache never wedges: requests do not fail forever, for migrations end and
\* then there is a block to evict.
FailuresEnd == (pc = "migrate" /\ op = "FAIL") ~> (pc = "migrate" /\ op # "FAIL")

\* The command lines with which the simulator does not work: --remove-rate without a
\* --migration-delay (sim_prep initialises the tracker only with one).
Unsupported == options.removals /\ options.migration_delay = 0

\* The tracker, as each of its parts says, and no assertion of the policy fails:
\* policy_migrated is never called for a block that is not migrating, also if it
\* was removed and admitted again meanwhile (main.c:173).
SimSound ==
  /\ SimTypeOK
  /\ ~Unsupported => NoAssertionFails
  /\ TrackerMatchesPolicy
  /\ TrackerOrdered
  /\ FailsOnlyWithLongDelays
============================================================================
