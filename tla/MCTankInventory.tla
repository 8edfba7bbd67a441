-------------------------- MODULE MCTankInventory --------------------------
(* A source of 2, a destination of 1 with room for 1 more, and edits that  *)
(* empty, keep and overfill.                                               *)
EXTENDS TankInventory, TLC

MCDefault == Source :> 2 @@ Dest :> 1 @@ Capacity :> 2
Symmetry == Permutations(Callers)
=============================================================================
