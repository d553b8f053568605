------------------------------ MODULE Nucleus ------------------------------
(***************************************************************************)
(* The part of a caching policy that every algorithm of the repository     *)
(* shares (struct cache_nucleus): the pool of cache entries (epool.h), the *)
(* hash table that finds the entry of an origin block (hashtable.h), the   *)
(* intrusive queue (queue.h) and the statistics (policy_stats.h).          *)
(*                                                                         *)
(* The C functions update those structures in place, one after the other,  *)
(* inside one API call.  Here each of them is an operator from pools to    *)
(* pools, so that a policy's action composes them in the order in which    *)
(* the code calls them.  An entry is named by its index in the pool, which *)
(* is the cache block (cblock) it stands for.                              *)
(***************************************************************************)
EXTENDS Integers, FiniteSets, SequencesExt

CONSTANTS
  Oblocks,      \* block addresses of the origin device
  CacheSize,    \* number of entries of the cache pool
  StatModulus,  \* number of values of the unsigned counters of policy_stats
  Null          \* the NULL pointer, and an oblock field never written

\* infer_cblock divides by the distance between entries[0] and entries[1], so
\* a pool has at least two entries.
ASSUME NucleusAssumption ==
  /\ CacheSize \in Nat /\ CacheSize >= 2
  /\ StatModulus \in Nat \ {0}
  /\ Null \notin Oblocks
  /\ Null \notin 0 .. CacheSize - 1

Cblocks == 0 .. CacheSize - 1

(***************************************************************************)
(* The entry pool and the hash table.  The flags of struct entry are kept  *)
(* as the sets of entries that have them; ht is the set of entries linked  *)
(* into the table, whose key is the entry's own oblock field.              *)
(***************************************************************************)
Pools ==
  [ oblock       : [Cblocks -> Oblocks \cup {Null}],
    dirty        : SUBSET Cblocks,
    allocated    : SUBSET Cblocks,
    migrating    : SUBSET Cblocks,
    free         : Seq(Cblocks),
    ht           : SUBSET Cblocks,
    nr_allocated : Nat,
    nr_migrating : Nat ]

\* list_add pushes the entries 0, 1, ... at the head of the free list.
epool_init ==
  [ oblock       |-> [c \in Cblocks |-> Null],
    dirty        |-> {},
    allocated    |-> {},
    migrating    |-> {},
    free         |-> [i \in 1 .. CacheSize |-> CacheSize - i],
    ht           |-> {},
    nr_allocated |-> 0,
    nr_migrating |-> 0 ]

\* The entry of block o, or Null.
hash_lookup(p, o) ==
  IF \E c \in p.ht : p.oblock[c] = o
    THEN CHOOSE c \in p.ht : p.oblock[c] = o
    ELSE Null

\* Fault: the last item takes the place of the one removed.
queue_remove_swap(q, e) ==
  IF e \in ToSet(q)
    THEN Front([i \in DOMAIN q |-> IF q[i] = e THEN Last(q) ELSE q[i]])
    ELSE q

\* An item leaves the queue it is in; an item in no queue is left alone.
queue_remove(q, e) ==
  IF e \in ToSet(q)
    THEN RemoveAt(q, CHOOSE i \in DOMAIN q : q[i] = e)
    ELSE q

queue_push(q, e) == Append(q, e)

cache_is_full(p) == p.free = <<>>

(***************************************************************************)
(* Allocation.  alloc_this_entry serves both alloc_entry, which takes the  *)
(* head of the free list, and alloc_particular_entry, which takes a given  *)
(* entry out of its middle; the caller then names the entry and hashes it. *)
(***************************************************************************)
alloc_entry(p) == IF p.free = <<>> THEN Null ELSE Head(p.free)

alloc_this_entry(p, e) ==
  [p EXCEPT !.free = queue_remove(@, e),
            !.allocated = @ \cup {e},
            !.nr_allocated = @ + 1]

alloc_pool_entry(p, e, o) ==
  [alloc_this_entry(p, e) EXCEPT !.oblock[e] = o,
                                 !.dirty = @ \ {e},
                                 !.ht = @ \cup {e}]

migrating_entry(p, e) ==
  [p EXCEPT !.migrating = @ \cup {e}, !.nr_migrating = @ + 1]

migrated_entry(p, e) ==
  [p EXCEPT !.migrating = @ \ {e}, !.nr_migrating = @ - 1]

\* Fault: an entry freed while it migrates is still counted as migrating.
free_entry_keeps_count(p, e) ==
  [p EXCEPT !.allocated = @ \ {e},
            !.nr_allocated = @ - 1,
            !.migrating = @ \ {e},
            !.free = <<e>> \o @]

\* The entry goes back to the head of the free list; its oblock and dirty
\* fields keep their last value until it is allocated again.
free_entry(p, e) ==
  [p EXCEPT !.allocated = @ \ {e},
            !.nr_allocated = @ - 1,
            !.migrating = @ \ {e},
            !.nr_migrating = IF e \in p.migrating THEN @ - 1 ELSE @,
            !.free = <<e>> \o @]

cache_nucleus_remove(p, e) == free_entry([p EXCEPT !.ht = @ \ {e}], e)

\* The entry of block o is from now on the entry of block n.
default_remap(p, o, n) == [p EXCEPT !.oblock[hash_lookup(p, o)] = n]

mark_dirty(p, e, write) ==
  IF write THEN [p EXCEPT !.dirty = @ \cup {e}] ELSE p

\* The assertions of free_entry and migrated_entry.
free_entry_asserts(p, e) == e \in Cblocks /\ p.nr_allocated > 0
migrated_entry_asserts(p, e) ==
  /\ e \in Cblocks
  /\ p.nr_allocated > 0
  /\ e \in p.allocated
  /\ e \in p.migrating

(***************************************************************************)
(* Statistics: unsigned counters that wrap around.                         *)
(***************************************************************************)
StatNames == {"ios", "hits", "misses", "filters", "promotions", "demotions"}
Stats == [StatNames -> 0 .. StatModulus - 1]
stats_init == [n \in StatNames |-> 0]

\* Increments the counters of S.
inc(stats, S) ==
  [n \in StatNames |-> IF n \in S THEN (stats[n] + 1) % StatModulus ELSE stats[n]]

(***************************************************************************)
(* What policy_map returns: the operation, the cache block it concerns and *)
(* the block that was evicted.  The request is kept with its answer.       *)
(***************************************************************************)
Operations == {"HIT", "FILTER", "NEW", "REPLACE", "FAIL"}
Results ==
  [ op             : Operations,
    oblock         : Oblocks,
    cblock         : Cblocks \cup {Null},
    old_oblock     : Oblocks \cup {Null},
    dirty_eviction : BOOLEAN ]

\* A call that returns nothing.
NoResult == [op |-> "NONE"]

\* An answer that names no cache block.
OpOnly(op, o) ==
  [ op |-> op, oblock |-> o, cblock |-> Null, old_oblock |-> Null,
    dirty_eviction |-> FALSE ]
============================================================================
