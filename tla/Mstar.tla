------------------------------- MODULE Mstar -------------------------------
(***************************************************************************)
(* m* (mstar/mstar_policy.c): an admission policy around any other.  Like  *)
(* mARC it filters what is not a ghost out of a full cache, unless it is   *)
(* UNSTABLE.  Unlike mARC it asks the internal policy in the middle of its *)
(* own work, so that a request which fails has already moved ghosts.       *)
(*                                                                         *)
(* The internal policy is what CachePolicy says of every policy, and the   *)
(* logic is what MstarPhases says of it.  Of the meta pool and the hash    *)
(* table the queue of ghosts is kept.  The statistics are left out.        *)
(***************************************************************************)
EXTENDS CachePolicy, MstarPhases, FiniteSetsExt, SequencesExt

CONSTANT
  GhostDivisor   \* ghost_size is kept one such part from 0 and the cache size: 10

ASSUME MstarAssumption ==
  /\ GhostDivisor \in Nat \ {0, 1}
  /\ Null \notin {"assert", "null"}
  /\ TABU = CacheSize
  /\ MayFilter = FALSE
  /\ FailsEarly = TRUE

VARIABLES
  mstar_g,       \* the ghosts, oldest first
  ghost_size,    \* the number of ghosts to keep
  loading,       \* the caller is still loading the mappings of an earlier session
  crashed        \* Null, "assert", or "null" for a NULL pointer that is followed

mstarVars == <<policyVars, state, tabu_counter, mstar_g, ghost_size, loading, crashed>>

min_ghost_size == CacheSize \div GhostDivisor
max_ghost_size == ((GhostDivisor - 1) * CacheSize) \div GhostDivisor
meta_pool_size == CacheSize

MstarInit ==
  /\ PolicyInit
  /\ PhasesInit
  /\ mstar_g = <<>>
  /\ ghost_size = max_ghost_size
  /\ loading = TRUE
  /\ crashed = Null

mstar_cache_is_full(c) == Cardinality(c) = CacheSize
Full == mstar_cache_is_full(cached)

(***************************************************************************)
(* The ghosts.                                                             *)
(***************************************************************************)
\* Where hash_lookup may find o: a renamed ghost may have the name of another.
Places(o) == {i \in DOMAIN mstar_g : mstar_g[i] = o}

mstar_only_remove(g, i) == RemoveAt(g, i)

\* Fault: nothing is evicted.
mstar_ghost_length_control_never(g, size) == g

mstar_ghost_length_control(g, size) == IF Len(g) > size THEN Tail(g) ELSE g

mstar_increase_ghost_size(size) == Min({max_ghost_size, size + (CacheSize \div size)})

mstar_decrease_ghost_size(size) ==
  LET tmp == CacheSize \div (CacheSize - size)
  IN  IF size >= tmp THEN Max({min_ghost_size, size - tmp}) ELSE min_ghost_size

\* The LOG_ASSERTs of a request: one that grows ghost_size, or shrinks it, and a
\* pool of ghosts that is not empty.
mstar_asserts(o) ==
  /\ o \notin cached /\ Full => ghost_size > 0
  /\ o \in cached => CacheSize > ghost_size
  /\ o \notin cached /\ Full /\ Places(o) = {} => Len(mstar_g) < meta_pool_size

(***************************************************************************)
(* A request.  It ends with the control of the ghosts' number and with     *)
(* update_mstar, whatever the internal policy answered.                    *)
(***************************************************************************)
\* What the internal policy may answer.
policy_map(o) == Hit(o) \/ New(o) \/ Fail(o) \/ \E v \in cached : Replace(o, v)

mstar_hit(o) ==
  /\ o \in cached
  /\ policy_map(o)
  /\ ghost_size' = IF state # "UNSTABLE" \/ Full
                     THEN mstar_decrease_ghost_size(ghost_size) ELSE ghost_size
  /\ mstar_g' = mstar_ghost_length_control(mstar_g, ghost_size')

\* With the cache full the ghost moves to the end, or stops being one, before the
\* internal policy is asked.
mstar_ghost_hit(o) ==
  /\ o \notin cached
  /\ \E i \in Places(o) :
       LET left == mstar_only_remove(mstar_g, i)
           g    == CASE ~Full -> mstar_g
                     [] Full /\ state = "UNSTABLE" -> Append(left, o)
                     [] Full /\ state # "UNSTABLE" -> left
       IN  /\ ghost_size' = IF Full THEN mstar_increase_ghost_size(ghost_size)
                                    ELSE ghost_size
           /\ mstar_g' = mstar_ghost_length_control(g, ghost_size')
  /\ policy_map(o)

\* Fault: every miss is passed on.
mstar_ghost_miss_admits(o) ==
  /\ o \notin cached /\ Places(o) = {}
  /\ ghost_size' = IF Full THEN mstar_increase_ghost_size(ghost_size) ELSE ghost_size
  /\ mstar_g' = mstar_ghost_length_control(IF Full THEN Append(mstar_g, o) ELSE mstar_g,
                                           ghost_size')
  /\ policy_map(o)

mstar_ghost_miss(o) ==
  /\ o \notin cached /\ Places(o) = {}
  /\ ghost_size' = IF Full THEN mstar_increase_ghost_size(ghost_size) ELSE ghost_size
  /\ mstar_g' = mstar_ghost_length_control(IF Full THEN Append(mstar_g, o) ELSE mstar_g,
                                           ghost_size')
  /\ \/ /\ Full /\ state # "UNSTABLE"
        /\ answer' = <<"FILTER", Null>>
        /\ UNCHANGED <<cached, inflight>>
     \/ ~(Full /\ state # "UNSTABLE") /\ policy_map(o)

mstar_map(o) ==
  \/ /\ mstar_asserts(o)
     /\ mstar_hit(o) \/ mstar_ghost_hit(o) \/ mstar_ghost_miss(o)
     /\ PhasesNext
     /\ UNCHANGED crashed
  \/ /\ ~mstar_asserts(o)
     /\ crashed' = "assert"
     /\ UNCHANGED <<policyVars, state, tabu_counter, mstar_g, ghost_size>>

(***************************************************************************)
(* The other calls.                                                        *)
(***************************************************************************)
\* Whether a request would be filtered, before it is made; else the internal policy
\* says what it would do.  Room in the cache is not considered.
mstar_next_victim_filters(o) == o \notin cached /\ Places(o) = {} /\ state # "UNSTABLE"

logicAndGhosts == <<state, tabu_counter, mstar_g, ghost_size>>

\* The ghost is removed too, unless the block goes to the internal policy's history.
mstar_remove(o, remove_to_history) ==
  /\ Drop(o) \/ Forget(o)
  /\ \/ /\ ~remove_to_history
        /\ \E i \in Places(o) : mstar_g' = mstar_only_remove(mstar_g, i)
     \/ /\ remove_to_history \/ Places(o) = {}
        /\ UNCHANGED mstar_g
  /\ UNCHANGED <<state, tabu_counter, ghost_size, crashed>>

\* The block's ghost is renamed first; hash_lookup finds none for most blocks, and
\* its result is not checked.
mstar_remap(o, n) ==
  \/ /\ Rename(o, n)
     /\ \E i \in Places(o) : mstar_g' = [mstar_g EXCEPT ![i] = n]
     /\ UNCHANGED <<state, tabu_counter, ghost_size, crashed>>
  \/ /\ o \in cached /\ n \notin cached
     /\ Places(o) = {}
     /\ crashed' = "null"
     /\ UNCHANGED <<policyVars, logicAndGhosts>>

Called(call) == crashed = Null /\ call /\ loading' = FALSE

MstarMap(o)       == Called(mstar_map(o))
MstarRemove(o, h) == Called(mstar_remove(o, h))
MstarMigrated(o)  == Called(Migrated(o) /\ UNCHANGED <<logicAndGhosts, crashed>>)
MstarRemap(o, n)  == Called(mstar_remap(o, n))

MstarInsert(o) ==
  /\ crashed = Null /\ loading
  /\ Preload(o)
  /\ UNCHANGED <<logicAndGhosts, loading, crashed>>

MstarNext ==
  \E o \in Oblocks :
    \/ MstarMap(o) \/ MstarInsert(o) \/ MstarMigrated(o)
    \/ \E h \in BOOLEAN : MstarRemove(o, h)
    \/ \E n \in Oblocks : MstarRemap(o, n)

MstarSpec == MstarInit /\ [][MstarNext]_mstarVars

-----------------------------------------------------------------------------
(***************************************************************************)
(* Correctness.                                                            *)
(***************************************************************************)

\* The pool of ghosts is never found empty and no division by ghost_size, or by
\* its distance to the cache size, is by 0, although the number to keep changes
\* by jumps and the ghosts are evicted one at a time, after a new one was
\* allocated.
MstarGhostsFit ==
  CacheSize >= GhostDivisor =>
    /\ crashed # "assert"
    /\ ghost_size \in min_ghost_size .. max_ghost_size
    /\ Len(mstar_g) <= max_ghost_size

\* What a ghost is worth.  Out of UNSTABLE, a full cache admits a block only if it
\* is a ghost, and that uses the ghost up; nothing is filtered in UNSTABLE, or
\* with room in the cache.  A request that the internal policy fails costs the
\* caller who tries it again, as dm-cache does: in UNSTABLE the block still is a
\* ghost, but in the other states one that was let in as a ghost no longer is, so
\* that the next try is filtered (mstar_policy.c:123,138).  What mstar_next_victim
\* announces as filtered is filtered in a full cache only: with room in the cache
\* it is taken in (mstar_policy.c:277).
MstarAdmission ==
  [][crashed' = Null =>
       /\ answer'[1] = "REPLACE" /\ state # "UNSTABLE" =>
            \E o \in cached' \ cached :
              /\ Places(o) # {}
              /\ Cardinality(Places(o)') < Cardinality(Places(o))
       /\ answer'[1] = "FILTER" => state # "UNSTABLE" /\ Full
       /\ answer'[1] = "FAIL" /\ mstar_g' # mstar_g =>
            \/ state = "UNSTABLE" /\ Len(mstar_g') > 0 /\ Last(mstar_g') \notin cached
            \/ state # "UNSTABLE" /\ Len(mstar_g') < Len(mstar_g)
       /\ \A o \in Oblocks :
            MstarMap(o) =>
              (answer'[1] = "FILTER" <=> mstar_next_victim_filters(o) /\ Full)]_mstarVars
============================================================================
