---------------------------- MODULE Simulations ----------------------------
(***************************************************************************)
(* The simulations that the daemon hosts, each with a runner, a log and    *)
(* rows of its own, and that the pages of the dashboard choose from.       *)
(***************************************************************************)
CONSTANT Sims
=============================================================================
