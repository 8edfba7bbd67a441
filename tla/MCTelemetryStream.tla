------------------------- MODULE MCTelemetryStream -------------------------
(* One client; the second simulation is there to be active or not, and the *)
(* first can be asked for with another spelling of its id.                 *)
EXTENDS TelemetryStream

CONSTANTS A, B, a

MCSimOrder == <<A, B>>
MCNames == {A, B, a}
MCNamed == (A :> A) @@ (B :> B) @@ (a :> A)
MCAsked == {A, a}
MCMaxTick == (A :> 2) @@ (B :> 0)
=============================================================================
