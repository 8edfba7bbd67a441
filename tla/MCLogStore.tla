----------------------------- MODULE MCLogStore -----------------------------
(* Logs of two entries, so that trimming meets every interleaving of two   *)
(* writers, and a page whose timer and button refresh while simulations    *)
(* are chosen.                                                             *)
EXTENDS LogStore
=============================================================================
