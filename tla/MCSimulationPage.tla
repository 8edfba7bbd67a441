-------------------------- MODULE MCSimulationPage --------------------------
(* Two simulations that have one name of a parameter in common.            *)
EXTENDS SimulationPage, TLC

CONSTANTS A, B, p, q

MCParamsOf == (A :> {p}) @@ (B :> {p, q})
=============================================================================
