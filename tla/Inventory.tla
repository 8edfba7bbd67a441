----------------------------- MODULE Inventory -----------------------------
(***************************************************************************)
(* What the tank inventory of TankTransferSystem promises: material moves  *)
(* from the source to the destination tank without being lost, within what *)
(* is asked for, what is there and what fits; nothing else changes but by  *)
(* the event of an edit, which sets a weight or the capacity.  Each        *)
(* happens as one step.  Where one of the numbers is NaN a tick cannot     *)
(* move anything and takes the weights with it.                            *)
(***************************************************************************)
EXTENDS Doubles

CONSTANTS Source, Dest, Capacity  \* the edited parameters

VARIABLES
  source,  \* _sourceWeightLb
  dest,    \* _destWeightLb
  cap,     \* _destCapacityLb
  asked,   \* requestedDelta
  told     \* NewValue of the latest event for each parameter

vars == <<source, dest, cap, asked, told>>

Init ==
  /\ told \in [{Source, Dest, Capacity} -> 0..Infinity]
  /\ source = told[Source] /\ dest = told[Dest] /\ cap = told[Capacity]
  /\ asked = 0

Ask ==
  /\ asked' = NaN \/ asked' \in 0..(Infinity - 1)
  /\ UNCHANGED <<source, dest, cap, told>>

(* Nothing can be computed: not the space, or with it.                     *)
Stuck == NaN \in {asked, source, Minus0(cap, dest)}

Transfer ==
  /\ ~Stuck
  /\ \E amount \in 1..asked :
       /\ amount <= source
       /\ source' = Minus0(source, amount)
       /\ dest' = Plus(dest, amount)
  /\ AtLeast(cap, dest')
  /\ UNCHANGED <<cap, asked, told>>

Spoil ==
  /\ Stuck
  /\ source' \in {source, NaN}
  /\ dest' \in {dest, NaN}
  /\ UNCHANGED <<cap, asked, told>>

Event(p, v) ==
  /\ v \in Weight
  /\ told' = [told EXCEPT ![p] = v]
  /\ UNCHANGED asked

EditSource(v) ==
  /\ Event(Source, v)
  /\ source' = v
  /\ UNCHANGED <<dest, cap>>

EditDest(v) ==
  /\ Event(Dest, v)
  /\ dest' = v
  /\ UNCHANGED <<source, cap>>

(* A smaller capacity discards what no longer fits; 0 means no limit.      *)
EditCapacity(v) ==
  /\ Event(Capacity, v)
  /\ cap' = v
  /\ dest' = IF Exceeds(v, 0) /\ Exceeds(dest, v) THEN v ELSE dest
  /\ UNCHANGED source

Next ==
  \/ Ask \/ Transfer \/ Spoil
  \/ EditSource(told'[Source])
  \/ EditDest(told'[Dest])
  \/ EditCapacity(told'[Capacity])

Spec == Init /\ [][Next]_vars
=============================================================================
