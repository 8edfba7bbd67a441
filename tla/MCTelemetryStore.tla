-------------------------- MODULE MCTelemetryStore --------------------------
(* Two simulations, a cap of two rows, and up to two appends between       *)
(* maintenances.                                                           *)
EXTENDS TelemetryStore, TLC

CONSTANTS A, B  \* the simulations

Symmetry == Permutations(Sims)
=============================================================================
