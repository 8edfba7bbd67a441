------------------------ MODULE MCSimulationRunner ------------------------
(* SimulationRunner with three step requests racing the loop.                *)
EXTENDS SimulationRunner
=============================================================================
