------------------------------ MODULE MCTheme ------------------------------
(* Two tabs of a browser, and two clicks faster than their answers.        *)
EXTENDS Theme, TLC

CONSTANTS T1, T2  \* the tabs

Symmetry == Permutations(Tabs)
=============================================================================
