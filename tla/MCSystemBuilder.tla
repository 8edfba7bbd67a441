-------------------------- MODULE MCSystemBuilder --------------------------
(* Every system of N components with declarations from a small set that    *)
(* makes diamonds, self-reads, cycles, second writers (also of the same    *)
(* component), blank names, a wrong unit and an external input.            *)
EXTENDS SystemBuilder, TLC

CONSTANTS a, b, x, lb, psi

MCNames == {a, b, x, Blank}
MCUnits == {lb, psi}
Lb(S) == [name : S, unit : {lb}]
Decl(r, w) == [reads |-> Lb(r), writes |-> Lb(w), again |-> {}]
MCInputs ==
  { Decl({}, {a}), Decl({}, {b}), Decl({x}, {}), Decl({a}, {b}), Decl({b}, {a}),
    Decl({a}, {}), Decl({a, b}, {x}), Decl({b}, {x}), Decl({x}, {x}), Decl({}, {a, b}),
    Decl({}, {Blank}),
    [reads |-> {[name |-> a, unit |-> psi]}, writes |-> {}, again |-> {}],
    [reads |-> {}, writes |-> Lb({b}), again |-> Lb({b})],
    [reads |-> {}, writes |-> [name : {x}, unit : MCUnits], again |-> {}] }
=============================================================================
