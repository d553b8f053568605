-------------------------------- MODULE Marc -------------------------------
(***************************************************************************)
(* mARC (algs/marc/marc_policy.c): an admission policy around ARC.  It     *)
(* samples the hit rate and moves between three states.  UNSTABLE admits   *)
(* every miss; STABLE and UNIQUE admit a miss to a full cache only if it   *)
(* is a "ghost", a block that missed not long ago.  After a change of      *)
(* state the next one is taboo for some requests.                          *)
(*                                                                         *)
(* The internal policy is what CachePolicy says of every policy, ARC       *)
(* included: it chooses its victims, and whether to fail, as it likes.  Of *)
(* mARC's own meta pool and hash table the queue of ghosts is kept.  The   *)
(* sample_avg window is left out, which is written and never read, and so   *)
(* are the statistics.                                                     *)
(***************************************************************************)
EXTENDS CachePolicy, SequencesExt

CONSTANTS
  GhostDivisor,  \* ghost_size is kept one such part from 0 and the cache size: 10
  PhaseBound     \* the longest phase that is explored, in requests

ASSUME MarcAssumption ==
  /\ CacheSize \in Nat \ {0}
  /\ GhostDivisor \in Nat \ {0, 1}
  /\ PhaseBound \in Nat
  /\ MayFilter = FALSE
  /\ FailsEarly = TRUE

VARIABLES
  state,         \* UNSTABLE, STABLE or UNIQUE
  tabu_counter,  \* requests before the next change of state is considered
  ghost_q,       \* the ghosts, oldest first
  ghost_size,    \* the number of ghosts to keep
  ghost_hits,    \* ghost hits since the last sample, ghost_hits_old subtracted
  sample,        \* 1 for a hit, 0 for a miss: the last requests, oldest first
  phase_hits,    \* hits and ...
  phase_ios,     \* ... requests of the current phase
  loading,       \* the caller is still loading the mappings of an earlier session
  crashed        \* a LOG_ASSERT has failed, or the program divided by 0

phaseVars == <<state, tabu_counter, ghost_size, ghost_hits, sample, phase_hits,
               phase_ios>>
marcVars == <<policyVars, phaseVars, ghost_q, loading, crashed>>

TABU == CacheSize
sample_size == CacheSize
meta_pool_size == CacheSize
min_ghost_size == CacheSize \div GhostDivisor
max_ghost_size == ((GhostDivisor - 1) * CacheSize) \div GhostDivisor

Full == Cardinality(cached) = CacheSize

MarcInit ==
  /\ PolicyInit
  /\ state = "UNSTABLE"
  /\ tabu_counter = 2 * TABU
  /\ ghost_q = <<>>
  /\ ghost_size = CacheSize
  /\ ghost_hits = 0
  /\ sample = <<>>
  /\ phase_hits = 0
  /\ phase_ios = 0
  /\ loading = TRUE
  /\ crashed = FALSE

(***************************************************************************)
(* The window of samples (window_stats.h).                                 *)
(***************************************************************************)
\* The values are 0 and 1: their sum is the number of 1s.
window_sum(w) == Cardinality({i \in DOMAIN w : w[i] = 1})

\* The value that the next push pops.
window_stats_peek(w) == IF Len(w) < sample_size THEN 0 ELSE Head(w)

window_stats_push(w, x) == Append(IF Len(w) = sample_size THEN Tail(w) ELSE w, x)

(***************************************************************************)
(* The number of ghosts.                                                   *)
(***************************************************************************)
marc_ghost_decrease_size(size) ==
  LET tmp == CacheSize \div (CacheSize - size)
  IN  IF size # CacheSize /\ size >= tmp
        THEN Max({min_ghost_size, size - tmp})
        ELSE min_ghost_size

marc_ghost_increase_size(size) ==
  Min({max_ghost_size, size + (CacheSize \div size)})

(***************************************************************************)
(* The changes of state.                                                   *)
(***************************************************************************)
marc_unst_uniq_check(hr_sample, hr_state) ==
  hr_state \div 2 > hr_sample \/ hr_sample < 5

marc_unst_stab_check(hr_sample, hr_state) ==
  \/ hr_state < (11 * hr_sample) \div 10 /\ hr_state > (9 * hr_sample) \div 10
  \/ hr_sample >= hr_state /\ hr_sample >= 20

marc_stab_unst_check(hr_sample, hr_state) == hr_sample <= (7 * hr_state) \div 10

marc_uniq_unst_check(hr_sample) ==
  (ghost_hits * 100) \div TABU > 10 \/ hr_sample > 5

\* The state after a full sample.
marc_try_transition(hr_sample, hr_state) ==
  CASE state = "UNSTABLE" /\ marc_unst_uniq_check(hr_sample, hr_state) -> "UNIQUE"
    [] /\ state = "UNSTABLE"
       /\ ~marc_unst_uniq_check(hr_sample, hr_state)
       /\ marc_unst_stab_check(hr_sample, hr_state) -> "STABLE"
    [] state = "STABLE" /\ marc_stab_unst_check(hr_sample, hr_state) -> "UNSTABLE"
    [] state = "UNIQUE" /\ marc_uniq_unst_check(hr_sample) -> "UNSTABLE"
    [] OTHER -> state

(***************************************************************************)
(* The transaction.                                                        *)
(***************************************************************************)

\* What a request for o does to the sample and the state.
marc_sampled(o) ==
  LET hit       == IF o \in cached THEN 1 ELSE 0
      tabu      == Max({tabu_counter - 1, 0})
      due       == tabu = 0 /\ Len(sample) + 1 >= sample_size
      hr_sample == (100 * (window_sum(sample) - window_stats_peek(sample) + hit))
                     \div sample_size
      hr_state  == (100 * (phase_hits + hit)) \div (phase_ios + 1)
      next      == IF due THEN marc_try_transition(hr_sample, hr_state) ELSE state
      moved     == next # state
  IN  [ state       |-> next,
        tabu        |-> CASE ~due -> tabu
                          [] moved /\ next = "UNSTABLE" -> 2 * TABU
                          [] OTHER -> TABU,
        size        |-> IF moved /\ next # "UNSTABLE" THEN min_ghost_size ELSE ghost_size,
        clear       |-> moved,
        phase_clear |-> moved /\ next # "STABLE",
        due         |-> due ]

\* What it does to the ghosts, and whether it is filtered.
marc_admission(s, o) ==
  LET hit == o \in cached
      g_hit == o \in ToSet(ghost_q)
      miss == ~hit /\ Full
  IN  [ remove |-> miss /\ g_hit, add |-> miss /\ (s.state = "UNSTABLE" \/ ~g_hit),
        filter |-> miss /\ s.state # "UNSTABLE" /\ ~g_hit ]

\* The number of ghosts to keep.  A miss divides by the old one; with fewer than
\* GhostDivisor cache blocks that is 0, and the program faults.
marc_divides_by_zero(s, o) == o \notin cached /\ Full /\ s.size = 0

marc_resize(s, o) ==
  CASE o \in cached /\ (s.state # "UNSTABLE" \/ Full) -> marc_ghost_decrease_size(s.size)
    [] o \notin cached /\ Full -> marc_ghost_increase_size(s.size)
    [] OTHER -> s.size

(***************************************************************************)
(* The commit.                                                             *)
(***************************************************************************)

\* The queue without the ghost o, which it holds.
queue_remove(q, o) == RemoveAt(q, CHOOSE i \in DOMAIN q : q[i] = o)

\* The ghosts after the request: moved to the end, dropped, or added.
marc_ghosts(a, o) ==
  LET left == IF a.remove THEN queue_remove(ghost_q, o) ELSE ghost_q
  IN  IF a.add THEN Append(left, o) ELSE left

\* Fault: a ghost found in any state is counted as a hit.
marc_ghost_hit_any(a) == a.remove

\* A ghost hit is counted only if the ghost stays one.
marc_ghost_hit(a) == a.remove /\ a.add

\* Fault: nothing is evicted.
marc_ghost_evict_never(q, size) == q

marc_ghost_evict(q, size) == IF Len(q) > size THEN Tail(q) ELSE q

\* The new ghost is allocated before the oldest is evicted.
marc_commit_asserts(a) == a.add /\ ~a.remove => Len(ghost_q) < meta_pool_size

marc_transaction_commit(s, a, o) ==
  LET hit == IF o \in cached THEN 1 ELSE 0
  IN  /\ tabu_counter' = s.tabu
      /\ ghost_size' = marc_resize(s, o)
      /\ state' = s.state
      /\ sample' = IF s.clear THEN <<>> ELSE window_stats_push(sample, hit)
      /\ phase_hits' = IF s.phase_clear THEN 0 ELSE phase_hits + hit
      /\ phase_ios' = IF s.phase_clear THEN 0 ELSE phase_ios + 1
      /\ ghost_hits' = (IF s.due THEN 0 ELSE ghost_hits)
                         + (IF marc_ghost_hit(a) THEN 1 ELSE 0)
      /\ ghost_q' = marc_ghost_evict(marc_ghosts(a, o), ghost_size')
      /\ \/ /\ ~a.filter
            /\ Hit(o) \/ New(o) \/ \E v \in cached : Replace(o, v)
         \/ /\ a.filter
            /\ answer' = <<"FILTER", Null>>
            /\ UNCHANGED <<cached, inflight>>
      /\ UNCHANGED crashed

\* Fault: the phase is counted before the internal policy is asked.
marc_fail_counted(o) ==
  /\ Fail(o)
  /\ phase_ios' = phase_ios + 1
  /\ UNCHANGED <<state, tabu_counter, ghost_size, ghost_hits, sample, phase_hits,
                 ghost_q, crashed>>

\* The internal policy would fail.
marc_fail(o) == Fail(o) /\ UNCHANGED <<phaseVars, ghost_q, crashed>>

marc_map_api(o) ==
  LET s == marc_sampled(o)
      a == marc_admission(s, o)
  IN  IF marc_divides_by_zero(s, o) \/ ~marc_commit_asserts(a)
        THEN crashed' = TRUE /\ UNCHANGED <<policyVars, phaseVars, ghost_q>>
        ELSE \/ ~a.filter /\ marc_fail(o)
             \/ marc_transaction_commit(s, a, o)

\* What a request would do, before it is made: it is filtered, or what the
\* internal policy announces.
marc_next_victim_filters(o) == marc_admission(marc_sampled(o), o).filter

(***************************************************************************)
(* The other calls are those of the internal policy; the ghosts do not     *)
(* follow a block that is removed or renamed.                              *)
(***************************************************************************)
MarcMap(o) ==
  /\ ~crashed /\ phase_ios < PhaseBound
  /\ marc_map_api(o)
  /\ loading' = FALSE

MarcInsert(o) ==
  /\ ~crashed /\ loading
  /\ Preload(o)
  /\ UNCHANGED <<phaseVars, ghost_q, loading, crashed>>

Delegated(call) ==
  /\ ~crashed
  /\ call
  /\ loading' = FALSE
  /\ UNCHANGED <<phaseVars, ghost_q, crashed>>

MarcRemove(o)   == Delegated(Drop(o) \/ Forget(o))
MarcMigrated(o) == Delegated(Migrated(o))
MarcRemap(o, n) == Delegated(Rename(o, n))

MarcNext ==
  \E o \in Oblocks :
    \/ MarcMap(o) \/ MarcRemove(o) \/ MarcInsert(o) \/ MarcMigrated(o)
    \/ \E n \in Oblocks : MarcRemap(o, n)

MarcSpec == MarcInit /\ [][MarcNext]_marcVars

-----------------------------------------------------------------------------
(***************************************************************************)
(* Correctness.                                                            *)
(***************************************************************************)

\* The pool of ghosts is never found empty and ghost_size never becomes 0, by
\* which a miss divides (marc_policy.c:79), although the ghosts are evicted one
\* at a time, after the new one was allocated, and the number to keep drops to
\* its minimum at once when the state changes.
MarcGhostsFit ==
  /\ IsInjective(ghost_q)
  /\ CacheSize >= GhostDivisor =>
       /\ ~crashed
       /\ ghost_size \in (min_ghost_size .. max_ghost_size) \cup {CacheSize}
       /\ Len(ghost_q) <= max_ghost_size

\* A phase never counts more hits than requests, and the sample is a suffix of
\* the phase except right after a change to STABLE, which clears the sample and
\* not the phase: so hit rates never exceed 100, and the two are compared over
\* requests of the same phase.
MarcRatesComparable ==
  /\ phase_hits <= phase_ios
  /\ Len(sample) <= Min({sample_size, phase_ios})
  /\ window_sum(sample) <= phase_hits

\* No ghost hit is ever counted while mARC is UNIQUE, so that the filtered
\* requests' own hit rate, meant to end that state, is always 0 and only hits in
\* the cache can end it (marc_policy.c:102,251).
MarcUniqueCountsNoGhostHits == state = "UNIQUE" => ghost_hits = 0

\* The counters that decide on the changes of state, as each of these parts says.
MarcCountersSound == MarcRatesComparable /\ MarcUniqueCountsNoGhostHits

\* What each state is for: out of UNSTABLE a full cache admits a block only on a
\* request that finds it among the ghosts, and it then is one no longer; a
\* request is filtered only out of UNSTABLE, with the cache full; and one that
\* the internal policy would fail leaves no trace: no sample, no step towards the
\* next change of state, no ghost.  marc_next_victim_api announces FILTER for
\* exactly the requests that are filtered, also when the request changes the state.
MarcAdmission ==
  [][/\ answer'[1] = "REPLACE" /\ state' # "UNSTABLE" =>
          cached' \ cached \subseteq ToSet(ghost_q) \ ToSet(ghost_q')
     /\ answer'[1] = "FILTER" => state' # "UNSTABLE" /\ Full
     /\ answer'[1] = "FAIL" => UNCHANGED <<phaseVars, ghost_q>>
     /\ \A o \in Oblocks :
          MarcMap(o) /\ ~crashed' =>
            (answer'[1] = "FILTER" <=> marc_next_victim_filters(o))]_marcVars
============================================================================
