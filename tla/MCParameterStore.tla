-------------------------- MODULE MCParameterStore --------------------------
(* A parameter with both bounds and one with a lower bound only, as in     *)
(* TankTransferSystem.                                                     *)
EXTENDS ParameterStore, TLC

CONSTANTS enable, weight

MCParams   == {enable, weight}
MCDefault  == enable :> 0 @@ weight :> 2
MCMinValue == enable :> 0 @@ weight :> 0
MCMaxValue == enable :> 1 @@ weight :> NoBound
MCRequests == {-1, 1, 2, NaN}
=============================================================================
