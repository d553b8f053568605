----------------------------- MODULE MstarLogic ----------------------------
(***************************************************************************)
(* The logic of m*: the hit rates it samples (mstar_phase.c), the seven    *)
(* transitions between its states (mstar_transitions.c), and, if adaptive, *)
(* how each is made easier or harder by what came of it (mstar_logic.c).   *)
(* A request is all that it sees of the cache: a hit or not, a ghost or    *)
(* not.                                                                    *)
(***************************************************************************)
EXTENDS MstarPhases, FiniteSetsExt, SequencesExt

CONSTANTS
  WordModulus,   \* 2^w for the width of an unsigned integer
  RequestBound,  \* the most requests ...
  HitBound,      \* ... and hits of one state that are explored
  AdaptBound     \* the most adaptations that are explored

ASSUME MstarLogicAssumption ==
  /\ WordModulus \in Nat /\ WordModulus > 3000 * TABU
  /\ RequestBound \in Nat /\ HitBound \in Nat /\ AdaptBound \in Nat

VARIABLES
  adaptive,          \* enter_new_phase is adaptive_new_phase
  this_phase,        \* the windows of the last TABU requests, oldest first
  prev_phase,        \* a copy of them
  state_stats,       \* a running sum, and its length
  stat,              \* how far each transition is between its min and max
  last_transition,   \* or "none"
  recent_transition,
  adaptations        \* the number of adaptations so far

logicVars == <<state, tabu_counter, adaptive, this_phase, prev_phase, state_stats,
               stat, last_transition, recent_transition, adaptations>>

(***************************************************************************)
(* The windows.                                                            *)
(***************************************************************************)
Cleared == [cache |-> <<>>, ghost |-> <<>>]

\* The values are 0 and 1: their sum is the number of 1s.
window_sum(w) == Cardinality({i \in DOMAIN w : w[i] = 1})

window_stats_push(w, x) == Append(IF Len(w) = TABU THEN Tail(w) ELSE w, x)

average_hundredths(sum, len) == IF len = 0 THEN 0 ELSE (100 * sum) \div len

phase_cache_hitrate(phase) == average_hundredths(window_sum(phase.cache), Len(phase.cache))
phase_ghost_hitrate(phase) == average_hundredths(window_sum(phase.ghost), Len(phase.ghost))

(***************************************************************************)
(* The transitions.                                                        *)
(***************************************************************************)
\* "harder" tells what makes the transition harder: a larger or a smaller value.
transition_set ==
  [ unstable_stable_threshold |->
      [min |-> 2, max |-> 20, stat |-> 555, judge |-> "hitrate", harder |-> "smaller"],
    unstable_stable_percent |->
      [min |-> 105, max |-> 150, stat |-> 333, judge |-> "hitrate", harder |-> "larger"],
    unstable_unique_threshold |->
      [min |-> 20, max |-> 80, stat |-> 500, judge |-> "unique", harder |-> "smaller"],
    unstable_unique_percent |->
      [min |-> 2, max |-> 25, stat |-> 130, judge |-> "unique", harder |-> "smaller"],
    stable_unstable_percent |->
      [min |-> 50, max |-> 90, stat |-> 500, judge |-> "hitrate", harder |-> "smaller"],
    unique_unstable_threshold |->
      [min |-> 1, max |-> 30, stat |-> 0, judge |-> "hitrate", harder |-> "larger"],
    unique_unstable_percent |->
      [min |-> 1, max |-> 20, stat |-> 237, judge |-> "hitrate", harder |-> "larger"] ]

Transitions == DOMAIN transition_set

\* The parameters that the static variant starts with.
static_stat(t) ==
  CASE t = "unstable_unique_percent"   -> 260
    [] t = "unique_unstable_threshold" -> 310
    [] t = "unique_unstable_percent"   -> 473
    [] OTHER -> transition_set[t].stat

transition_value(st, t) ==
  ((transition_set[t].max * st[t]) \div 1000) + transition_set[t].min

transition_improved_hitrate(phase) ==
  phase_cache_hitrate(phase) >= phase_cache_hitrate(prev_phase)

\* The difference, and its product, are of unsigned integers.
transition_improved_unique(phase) ==
  LET more == (window_sum(phase.ghost) - window_sum(prev_phase.ghost))
                % WordModulus
  IN  \/ ((more * 100) % WordModulus) \div TABU
           > transition_value(stat, "unique_unstable_threshold")
      \/ phase_cache_hitrate(phase)
           > transition_value(stat, "unique_unstable_percent")

was_improvement(t, phase) ==
  IF transition_set[t].judge = "unique" THEN transition_improved_unique(phase)
                                        ELSE transition_improved_hitrate(phase)

transition_increase_param(cur) ==
  IF cur = 0 THEN 1000 ELSE Min({1000, cur + (1000 \div cur)})

transition_decrease_param(cur) ==
  LET low == IF cur = 1000 THEN 0 ELSE cur
      tmp == 1000 \div (1000 - low)
  IN  IF low > tmp THEN low - tmp ELSE 0

increase_difficulty(t, cur) ==
  IF transition_set[t].harder = "larger" THEN transition_increase_param(cur)
                                         ELSE transition_decrease_param(cur)

decrease_difficulty(t, cur) ==
  IF transition_set[t].harder = "larger" THEN transition_decrease_param(cur)
                                         ELSE transition_increase_param(cur)

(***************************************************************************)
(* The changes of state: <<transition, state>>, or no change.              *)
(***************************************************************************)
NoChange == <<>>

\* The first test compares hundredths of hundredths with hundredths.
change_from_unstable_if_able(st, hr_sample, hr_state) ==
  LET v(t) == transition_value(st, t)
      to_unique == v("unstable_unique_threshold") * hr_state > hr_sample
      few       == hr_sample < v("unstable_unique_percent")
      near      == /\ 100 * hr_sample < (100 + v("unstable_stable_threshold")) * hr_state
                   /\ 100 * hr_sample > (100 - v("unstable_stable_threshold")) * hr_state
      better    == hr_sample >= v("unstable_stable_percent") * hr_state /\ hr_sample >= 20
  IN  CASE to_unique -> <<"unstable_unique_threshold", "UNIQUE">>
        [] ~to_unique /\ few -> <<"unstable_unique_percent", "UNIQUE">>
        [] ~to_unique /\ ~few /\ near -> <<"unstable_stable_threshold", "STABLE">>
        [] ~to_unique /\ ~few /\ ~near /\ better -> <<"unstable_stable_percent", "STABLE">>
        [] OTHER -> NoChange

\* hr_sample is that of the previous phase.
change_from_stable_if_able(st, hr_sample, hr_state) ==
  IF 100 * hr_sample <= transition_value(st, "stable_unstable_percent") * hr_state
    THEN <<"stable_unstable_percent", "UNSTABLE">> ELSE NoChange

change_from_unique_if_able(st, hr_sample, filter_hr_sample) ==
  CASE transition_value(st, "unique_unstable_threshold") * hr_sample
         > 100 * filter_hr_sample -> <<"unique_unstable_threshold", "UNSTABLE">>
    [] /\ transition_value(st, "unique_unstable_threshold") * hr_sample
            <= 100 * filter_hr_sample
       /\ hr_sample > transition_value(st, "unique_unstable_percent") ->
         <<"unique_unstable_percent", "UNSTABLE">>
    [] OTHER -> NoChange

\* Fault: the current phase decides in every state.
change_if_able_this(st, phase, total) ==
  LET hr_sample == phase_cache_hitrate(phase)
      hr_state  == average_hundredths(total.sum, total.len)
  IN  CASE state = "UNSTABLE" -> change_from_unstable_if_able(st, hr_sample, hr_state)
        [] state = "STABLE" -> change_from_stable_if_able(st, hr_sample, hr_state)
        [] state = "UNIQUE" ->
             change_from_unique_if_able(st, hr_sample, phase_ghost_hitrate(phase))

\* The change that the present state makes after a phase, if it makes one.
change_if_able(st, phase, total) ==
  LET hr_sample == phase_cache_hitrate(phase)
      hr_state  == average_hundredths(total.sum, total.len)
  IN  CASE state = "UNSTABLE" -> change_from_unstable_if_able(st, hr_sample, hr_state)
        [] state = "STABLE" ->
             change_from_stable_if_able(st, phase_cache_hitrate(prev_phase), hr_state)
        [] state = "UNIQUE" ->
             change_from_unique_if_able(st, hr_sample, phase_ghost_hitrate(phase))

(***************************************************************************)
(* A request.                                                              *)
(***************************************************************************)
MstarLogicInit ==
  /\ PhasesInit
  /\ adaptive \in BOOLEAN
  /\ this_phase = Cleared
  /\ prev_phase = Cleared
  /\ state_stats = [sum |-> 0, len |-> 0]
  /\ stat = [t \in Transitions |-> IF adaptive THEN transition_set[t].stat
                                               ELSE static_stat(t)]
  /\ last_transition = "none"
  /\ recent_transition = FALSE
  /\ adaptations = 0

\* Whether the transition before last phase is judged now, and the parameters after it.
Judged == adaptive /\ recent_transition

adapt(phase) ==
  LET t == last_transition
  IN  IF Judged
        THEN [stat EXCEPT ![t] = IF was_improvement(t, phase)
                                   THEN decrease_difficulty(t, @)
                                   ELSE increase_difficulty(t, @)]
        ELSE stat

\* Fault: the longer phase after a change to UNSTABLE is forgotten.
tabu_after_always(next) == TABU

tabu_after(next) == IF next = "UNSTABLE" THEN 2 * TABU ELSE TABU

state_transition_to(change, phase, total) ==
  LET next == change[2]
  IN  /\ last_transition' = change[1]
      /\ state' = next
      /\ recent_transition' = TRUE
      /\ tabu_counter' = tabu_after(next)
      /\ state_stats' = IF next = "STABLE" THEN [sum |-> 0, len |-> 0] ELSE total
      /\ prev_phase' = phase
      /\ this_phase' = Cleared

\* static_new_phase and adaptive_new_phase: a recent transition is judged, and
\* then the state may change.
enter_new_phase(phase, total) ==
  LET st     == adapt(phase)
      change == change_if_able(st, phase, total)
  IN  /\ stat' = st
      /\ adaptations' = IF Judged THEN adaptations + 1 ELSE adaptations
      /\ \/ change # NoChange /\ state_transition_to(change, phase, total)
         \/ /\ change = NoChange
            /\ tabu_counter' = TABU
            /\ recent_transition' = (recent_transition /\ ~adaptive)
            /\ this_phase' = phase
            /\ prev_phase' = [prev_phase EXCEPT !.ghost = phase.ghost]
            /\ state_stats' = total
            /\ UNCHANGED <<state, last_transition>>

update_mstar(hit, ghost) ==
  LET phase == [ cache |-> window_stats_push(this_phase.cache, hit),
                 ghost |-> window_stats_push(this_phase.ghost, ghost) ]
      total == [sum |-> state_stats.sum + hit, len |-> state_stats.len + 1]
  IN  \/ tabu_counter = 1 /\ enter_new_phase(phase, total)
      \/ /\ tabu_counter > 1
         /\ tabu_counter' = tabu_counter - 1
         /\ this_phase' = phase
         /\ state_stats' = total
         /\ UNCHANGED <<state, prev_phase, stat, last_transition, recent_transition,
                        adaptations>>

MstarLogicNext ==
  /\ state_stats.len < RequestBound /\ adaptations < AdaptBound
  /\ \E hit, ghost \in 0 .. 1 :
       state_stats.sum + hit <= HitBound /\ update_mstar(hit, ghost)
  /\ UNCHANGED adaptive

MstarLogicSpec == MstarLogicInit /\ [][MstarLogicNext]_logicVars

-----------------------------------------------------------------------------
(***************************************************************************)
(* Correctness.                                                            *)
(***************************************************************************)

\* update_mstar keeps to MstarPhases: the state changes only at the end of a
\* phase, and an UNSTABLE one is given the longer first phase, whatever the
\* transitions' parameters have become.
MstarLogicImplementsPhases == PhasesSpec

\* What the units of the first test amount to (mstar_transitions.c:209): STABLE
\* is entered only if fewer than 1% of the requests of the state were hits, for
\* every value that the parameters adapt to.
MstarStableOnlyAfterCold ==
  [][state' = "STABLE" /\ state # "STABLE" =>
       100 * (state_stats.sum + Last(prev_phase'.cache)) < state_stats.len + 1]_logicVars

\* STABLE looks at the phase before it (mstar_transitions.c:225), which nothing
\* replaces while it lasts: with the static parameters it ends only once hits
\* have become more frequent than in the sample that it was entered with, and a
\* fall of the hit rate never ends it.
MstarStableEndsOnlyOnRise ==
  [][~adaptive /\ state = "STABLE" /\ state' # "STABLE" =>
       average_hundredths(state_stats'.sum, state_stats'.len)
         > phase_cache_hitrate(prev_phase)]_logicVars

\* The subtraction wraps (mstar_transitions.c:34): a transition to UNIQUE that
\* was followed by fewer ghost hits than before counts as an improvement, and is
\* made easier, never harder, until it is as easy as can be.
MstarFewerGhostHitsImprove ==
  [][( /\ Judged /\ tabu_counter = 1
       /\ transition_set[last_transition].judge = "unique"
       /\ window_sum(prev_phase'.ghost) < window_sum(prev_phase.ghost) )
     => \/ stat'[last_transition] > stat[last_transition]
        \/ stat'[last_transition] = 1000]_logicVars

\* What the transitions amount to, as each of these parts says.
MstarTransitionEffects ==
  MstarStableOnlyAfterCold /\ MstarStableEndsOnlyOnRise /\ MstarFewerGhostHitsImprove
============================================================================
