---------------------------- MODULE MstarPhases ----------------------------
(***************************************************************************)
(* What m* (mstar/mstar_logic.c) promises of its three states, whatever    *)
(* hit rates it measures: a phase is TABU requests long, twice that after  *)
(* a change to UNSTABLE; the state changes only where a phase ends; and    *)
(* UNSTABLE lies between the two others.                                   *)
(***************************************************************************)
EXTENDS Integers

CONSTANT TABU

ASSUME TabuAssumption == TABU \in Nat \ {0}

VARIABLES
  state,         \* UNSTABLE, STABLE or UNIQUE
  tabu_counter   \* requests before the phase ends

PhasesInit ==
  /\ state = "UNSTABLE"
  /\ tabu_counter = 2 * TABU

PhaseGoesOn ==
  /\ tabu_counter > 1
  /\ tabu_counter' = tabu_counter - 1
  /\ UNCHANGED state

PhaseEnds ==
  /\ tabu_counter = 1
  /\ \/ /\ tabu_counter' = TABU
        /\ UNCHANGED state
     \/ /\ state = "UNSTABLE"
        /\ state' \in {"STABLE", "UNIQUE"}
        /\ tabu_counter' = TABU
     \/ /\ state # "UNSTABLE"
        /\ state' = "UNSTABLE"
        /\ tabu_counter' = 2 * TABU

PhasesNext == PhaseGoesOn \/ PhaseEnds

PhasesSpec == PhasesInit /\ [][PhasesNext]_<<state, tabu_counter>>
============================================================================
