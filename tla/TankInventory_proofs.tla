----------------------- MODULE TankInventory_proofs -----------------------
(***************************************************************************)
(* For any number of editing threads, any edits and any transfer rate: no  *)
(* weight is ever negative, a tick that no edit interferes with keeps the  *)
(* total weight and the destination's limit or, where it meets NaN, makes  *)
(* both weights NaN, and until a tick the inventory is what its parameters *)
(* say, unless events have overlapped.                                     *)
(***************************************************************************)
EXTENDS TankInventory, TLAPS

(* The results of the arithmetic, and when they are NaN.                   *)
LEMMA MaxOfZero ==
  /\ \A x \in Double : Max0(x) \in Weight
  /\ \A x \in Weight : Max0(x) = x
BY DoublesAssumption DEF Max0, Double, Weight

LEMMA LesserOf ==
  ASSUME NEW x \in Weight, NEW y \in Weight
  PROVE  /\ Lesser(x, y) \in Weight
         /\ Lesser(x, y) = NaN <=> x = NaN \/ y = NaN
         /\ Lesser(x, y) # NaN => Lesser(x, y) <= x /\ Lesser(x, y) <= y
BY DoublesAssumption DEF Lesser, Weight

LEMMA SumOf ==
  /\ \A x, y \in Double : Plus(x, y) \in Double
  /\ \A x, y \in Weight : Plus(x, y) \in Weight
  /\ \A x, y \in Double : Plus(x, y) = NaN <=> x = NaN \/ y = NaN
<1>1. \A x, y \in Double : NaN \notin {x, y} =>
        /\ x + y \in Int /\ Plus(x, y) = (IF x + y < Infinity THEN x + y ELSE Infinity)
  BY DoublesAssumption DEF Plus, Lesser, Double
<1>2. \A x, y \in Double : NaN \in {x, y} => Plus(x, y) = NaN
  BY DEF Plus
<1>3. Infinity \in Int /\ NaN \notin Int
  BY DoublesAssumption
<1>4. ASSUME NEW x \in Double, NEW y \in Double
      PROVE  Plus(x, y) \in Double /\ (Plus(x, y) = NaN <=> x = NaN \/ y = NaN)
  <2>1. CASE NaN \in {x, y}
    BY <1>2, <2>1 DEF Double
  <2>2. CASE NaN \notin {x, y}
    <3>1. Plus(x, y) \in Int /\ Plus(x, y) <= Infinity
      BY <1>1, <1>3, <2>2
    <3> QED BY <1>3, <2>2, <3>1 DEF Double
  <2> QED BY <2>1, <2>2
<1>5. ASSUME NEW x \in Weight, NEW y \in Weight
      PROVE  Plus(x, y) \in Weight
  <2>0. x \in Double /\ y \in Double
    BY DoublesAssumption DEF Weight, Double
  <2>1. CASE NaN \in {x, y}
    BY <1>2, <2>0, <2>1 DEF Weight
  <2>2. CASE NaN \notin {x, y}
    <3>1. x \in 0..Infinity /\ y \in 0..Infinity
      BY <2>2 DEF Weight
    <3>2. Plus(x, y) = IF x + y < Infinity THEN x + y ELSE Infinity
      BY <1>1, <2>0, <2>2
    <3> QED BY <3>1, <3>2, DoublesAssumption DEF Weight
  <2> QED BY <2>1, <2>2
<1> QED BY <1>4, <1>5

LEMMA DifferenceOf ==
  ASSUME NEW x \in Weight, NEW y \in Weight
  PROVE  /\ Minus0(x, y) \in Weight
         /\ Minus0(x, y) = NaN <=> \/ x = NaN \/ y = NaN
                                   \/ x = Infinity /\ y = Infinity
BY DoublesAssumption DEF Minus0, Max0, Weight

(* What is taken from a weight and added again.                            *)
LEMMA TakeAndReturn ==
  ASSUME NEW s \in 0..Infinity, NEW d \in 0..(Infinity - 1), d <= s
  PROVE  /\ Minus0(s, d) # NaN
         /\ Plus(Minus0(s, d), d) = s
BY DoublesAssumption DEF Minus0, Max0, Plus, Lesser

(* Moving an amount from one weight to the other leaves the total.         *)
LEMMA MovedTotal ==
  ASSUME NEW s \in 0..Infinity, NEW d \in 0..Infinity, NEW amount \in 0..Infinity
  PROVE  Plus(s, Plus(d, amount)) = Plus(Plus(s, amount), d)
<1>1. \A x, y \in 0..Infinity :
        /\ Plus(x, y) \in 0..Infinity
        /\ Plus(x, y) = IF x + y < Infinity THEN x + y ELSE Infinity
  BY DoublesAssumption DEF Plus, Lesser
<1> DEFINE left  == Plus(s, amount)
           moved == Plus(d, amount)
<1>2. left \in 0..Infinity /\ moved \in 0..Infinity
  BY <1>1
<1>3. /\ left = IF s + amount < Infinity THEN s + amount ELSE Infinity
      /\ moved = IF d + amount < Infinity THEN d + amount ELSE Infinity
  BY <1>1
<1>4. /\ Plus(s, moved) = IF s + moved < Infinity THEN s + moved ELSE Infinity
      /\ Plus(left, d) = IF left + d < Infinity THEN left + d ELSE Infinity
  BY <1>1, <1>2
<1> HIDE DEF left, moved
<1>5. s \in Nat /\ d \in Nat /\ amount \in Nat /\ Infinity \in Nat
  BY DoublesAssumption
<1>6. Plus(s, moved) = Plus(left, d)
  <2>1. CASE s + amount < Infinity /\ d + amount < Infinity
    <3>1. s + moved = left + d
      BY <1>3, <1>5, <2>1
    <3> QED BY <1>4, <3>1
  <2>2. CASE ~(s + amount < Infinity /\ d + amount < Infinity)
    <3>1. left = Infinity \/ moved = Infinity
      BY <1>3, <2>2
    <3>2. s + moved >= Infinity /\ left + d >= Infinity
      BY <1>3, <1>5, <3>1
    <3> QED BY <1>2, <1>4, <1>5, <3>2
  <2> QED BY <2>1, <2>2
<1> QED BY <1>6 DEF left, moved

(* An amount that there is space for fits.                                 *)
LEMMA SpaceSuffices ==
  ASSUME NEW c \in 0..Infinity, NEW d \in 0..Infinity, NEW amount \in 1..Infinity,
         Minus0(c, d) # NaN, amount <= Minus0(c, d)
  PROVE  AtLeast(c, Plus(d, amount))
BY DoublesAssumption DEF Minus0, Max0, Plus, Lesser, AtLeast

(* The registers hold weights wherever they are written back.              *)
Moving == tpc \in {"take", "takeStore", "give", "giveStore"}

WeightInv ==
  /\ source \in Weight /\ dest \in Weight /\ cap \in Weight
  /\ delta \in Weight /\ available \in Weight /\ reg \in Weight
  /\ \A t \in Callers : pc[t] = "clampStore" => seen[t] \in Weight
  /\ Moving /\ delta # NaN => request # NaN /\ delta <= request

(* What the history variable before says of the numbers a tick finds.      *)
Total(weight) ==
  IF NaN \in {request, weight, Minus0(cap, dest)} THEN NaN ELSE Plus(weight, dest)

(* What an undisturbed tick knows at each step.                            *)
UnracedInv ==
  ~raced =>
    /\ tpc \in {"readSource", "readCap", "readDest", "take", "takeStore"}
         => before = Total(source)
    /\ tpc \in {"readCap", "readDest"} => available = source
    /\ tpc = "readDest" => reg = cap
    /\ Moving => (delta = NaN <=> before = NaN)
    /\ Moving /\ delta # NaN => delta <= Minus0(cap, dest)
    /\ tpc \in {"take", "takeStore"} /\ delta # NaN => delta <= source
    /\ tpc = "takeStore" => reg = source
    /\ tpc \in {"give", "giveStore"} =>
         /\ before = Total(Plus(source, delta))
         /\ delta = NaN => source = NaN
         /\ delta # NaN => source = Minus0(Plus(source, delta), delta)
    /\ tpc = "giveStore" => reg = dest
    /\ TickDone => UnracedTransfers

IInv == TypeOK /\ WeightInv /\ UnracedInv

USE DEF Params, ClampLabels, TickLabels

(* A parameter of the inventory has only a lower bound, 0.                 *)
LEMMA ClampToWeight ==
  ASSUME NEW p \in Params, NEW v \in Requests
  PROVE  Store!ApplyValidation(p, v) \in Weight
<1>1. v \in Double /\ NoBound # 0 /\ MinValue[p] = 0 /\ MaxValue[p] = NoBound
  BY InventoryAssumption DEF MinValue, MaxValue
<1>2. Store!ApplyValidation(p, v) = IF v # NaN /\ v < 0 THEN 0 ELSE v
  BY <1>1 DEF Store!ApplyValidation, Store!Below, Store!Above
<1> QED BY <1>1, <1>2, DoublesAssumption DEF Double, Weight

(* A weight is a double.                                                   *)
LEMMA WeightIsDouble == Weight \subseteq Double
BY DoublesAssumption DEF Weight, Double

(* The component starts in the invariant.                                  *)
LEMMA InitIInv == Init => IInv
<1> SUFFICES ASSUME Init PROVE IInv
  OBVIOUS
<1> USE InventoryAssumption DEF Init, Store!Init
<1>1. /\ Default \in [Params -> Weight] /\ 0 \in Weight /\ 0 # NaN
      /\ 0 \in (0..MaxDelta) \cup {NaN}
  BY DoublesAssumption DEF Weight
<1>2. TypeOK
  <2>1. newValue \in [Callers -> Double] /\ target \in [Callers -> Params]
    BY <1>1, WeightIsDouble
  <2>2. pc \in [Callers -> {"idle", "read", "swap", "raise"} \cup ClampLabels]
    OBVIOUS
  <2>3. seen \in [Callers -> Double]
    BY <1>1, WeightIsDouble
  <2>4. /\ source \in Weight /\ dest \in Weight /\ cap \in Weight
        /\ outSource \in Weight /\ outDest \in Weight /\ before \in Weight
    BY <1>1, SumOf
  <2>5. /\ tpc \in TickLabels /\ request \in (0..MaxDelta) \cup {NaN}
        /\ available \in Weight /\ reg \in Weight /\ delta \in Weight
    BY <1>1
  <2>6. /\ isStarved \in BOOLEAN /\ isFull \in BOOLEAN
        /\ raced \in BOOLEAN /\ ticked \in BOOLEAN /\ serialized \in BOOLEAN
    OBVIOUS
  <2> HIDE DEF Init, Store!Init
  <2> QED BY <2>1, <2>2, <2>3, <2>4, <2>5, <2>6, WeightIsDouble DEF TypeOK
<1>3. WeightInv
  BY <1>1 DEF WeightInv, Moving
<1>4. UnracedInv
  BY DEF UnracedInv, TickDone, Moving
<1> QED BY <1>2, <1>3, <1>4 DEF IInv

(* A call of Set touches no field of the component.                        *)
LEMMA SetStepIInv ==
  ASSUME IInv, NEW t \in Callers, SetCall(t) \/ SetStep(t), UNCHANGED serialized
  PROVE  IInv'
<1> USE DEF IInv, TypeOK, locals, signals, history
<1>1. UNCHANGED <<source, dest, cap, seen, locals, signals, history>>
  BY DEF SetCall, SetStep
<1>2. UnracedInv'
  BY <1>1 DEF UnracedInv, TickDone, Moving, Total, UnracedTransfers
<1>3. /\ newValue' \in [Callers -> Double]
      /\ pc' \in [Callers -> {"idle", "read", "swap", "raise"} \cup ClampLabels]
      /\ target' \in [Callers -> Params]
      /\ \A u \in Callers : pc'[u] = "clampStore" => pc[u] = "clampStore"
  <2>1. CASE SetCall(t)
    <3>1. PICK p \in Params, v \in Requests : Store!Set(t, p, v)
      BY <2>1 DEF SetCall
    <3> DEFINE w == Store!ApplyValidation(p, v)
    <3>2. w \in Double
      BY ClampToWeight, WeightIsDouble
    <3>3. newValue' = [newValue EXCEPT ![t] = w]
      BY <3>1 DEF Store!Set
    <3> HIDE DEF w
    <3> QED BY <3>1, <3>2, <3>3 DEF Store!Set
  <2>2. CASE SetStep(t)
    BY <2>2 DEF SetStep, Store!TryGetValue, Store!TryUpdate, Store!Exchange,
                Store!TryUpdateFails
  <2> QED BY <2>1, <2>2
<1>4. WeightInv'
  BY <1>1, <1>3 DEF WeightInv, Moving
<1>5. TypeOK'
  BY <1>1, <1>3
<1> QED BY <1>2, <1>4, <1>5

(* A handler leaves weights behind, and marks a tick it disturbs.          *)
LEMMA HandlerIInv ==
  ASSUME IInv, NEW t \in Callers,
         \/ EditSource(t) \/ EditDest(t) \/ EditCapacity(t)
         \/ ClampLimit(t) \/ ClampRead(t) \/ ClampTest(t)
         \/ ClampLoad(t) \/ ClampStore(t),
         UNCHANGED serialized
  PROVE  IInv'
<1> USE DEF IInv, TypeOK, locals, signals
<1>1. ASSUME EditSource(t) \/ EditDest(t) \/ EditCapacity(t) PROVE IInv'
  <2> USE <1>1 DEF EditSource, EditDest, EditCapacity, Raced,
                   Store!ParameterChanged, Store!Deliver
  <2>0. Max0(newValue[t]) \in Weight /\ Max0(newValue[t]) \in Double
    BY MaxOfZero, WeightIsDouble
  <2>1. TypeOK'
    <3>1. CASE EditSource(t) BY <2>0, <3>1
    <3>2. CASE EditDest(t) BY <2>0, <3>2
    <3>3. CASE EditCapacity(t)
      <4>1. cap' \in Double /\ raced' \in BOOLEAN
        BY <2>0, <3>3
      <4> QED BY <3>3, <4>1
    <3> QED BY <3>1, <3>2, <3>3
  <2>2. WeightInv' BY <2>0 DEF WeightInv, Moving
  <2>3. UnracedInv' BY DEF UnracedInv, TickDone, Moving
  <2> QED BY <2>1, <2>2, <2>3
<1>2. ASSUME \/ ClampLimit(t) \/ ClampRead(t) \/ ClampTest(t)
             \/ ClampLoad(t) \/ ClampStore(t)
      PROVE IInv'
  <2> USE <1>2 DEF ClampLimit, ClampRead, ClampTest, ClampLoad, ClampStore, ClampStep
  <2>1. TypeOK'
    <3>1. CASE ClampLimit(t) BY <3>1
    <3>2. CASE ClampRead(t) BY <3>2
    <3>3. CASE ClampTest(t) BY <3>3
    <3>4. CASE ClampLoad(t) BY <3>4
    <3>5. CASE ClampStore(t) BY <3>5
    <3> QED BY <3>1, <3>2, <3>3, <3>4, <3>5
  <2>2. WeightInv' BY DEF WeightInv, Moving
  <2>3. UnracedInv'
    BY DEF UnracedInv, TickDone, Moving, Total, UnracedTransfers
  <2> QED BY <2>1, <2>2, <2>3
<1> QED BY <1>1, <1>2

(* A step of Tick.                                                         *)
LEMMA TickIInv == IInv /\ Tick /\ UNCHANGED serialized => IInv'
<1> SUFFICES ASSUME IInv, Tick, UNCHANGED serialized PROVE IInv'
  OBVIOUS
<1> USE DEF IInv, TypeOK, store, signals, history, TickStep, WeightInv, TickDone, Moving
<1>0. /\ NaN \notin Int /\ MaxDelta \in 0..(Infinity - 1) /\ Infinity \in Nat
      /\ Minus0(cap, dest) \in Weight
  BY DoublesAssumption, InventoryAssumption, DifferenceOf
<1>1. CASE TickBegin
  <2>1. Plus(source, dest) \in Double /\ NaN \in Double
    BY SumOf, WeightIsDouble DEF Double
  <2>2. TypeOK' /\ WeightInv'
    BY <1>1, <2>1 DEF TickBegin
  <2>3. UnracedInv'
    BY <1>1 DEF TickBegin, UnracedInv, Total
  <2> QED BY <2>2, <2>3
<1>2. CASE ReadSource
  <2>1. available' = source
    BY <1>2, MaxOfZero DEF ReadSource
  <2> QED BY <1>2, <2>1 DEF ReadSource, UnracedInv, Total
<1>3. CASE ReadCap BY <1>3 DEF ReadCap, UnracedInv, Total
<1>4. CASE ReadDest
  <2> DEFINE space == Minus0(reg, dest)
             most  == Lesser(available, space)
  <2>1. space \in Weight /\ request \in Weight
    BY <1>0, DifferenceOf DEF Weight
  <2>2. most \in Weight
    BY <2>1, LesserOf
  <2>3. delta' = Lesser(request, most)
    BY <1>4 DEF ReadDest
  <2>4. /\ delta' \in Weight
        /\ delta' = NaN <=> NaN \in {request, available, space}
        /\ delta' # NaN => delta' <= request /\ delta' <= available /\ delta' <= space
    <3>1. /\ delta' \in Weight
          /\ delta' = NaN <=> request = NaN \/ most = NaN
          /\ delta' # NaN => delta' <= request /\ delta' <= most
      BY <2>1, <2>2, <2>3, LesserOf
    <3>2. /\ most = NaN <=> available = NaN \/ space = NaN
          /\ most # NaN => most <= available /\ most <= space
      BY <2>1, LesserOf
    <3> HIDE DEF most, space
    <3> QED BY <1>0, <2>1, <2>2, <3>1, <3>2 DEF Weight
  <2>5. TypeOK' /\ WeightInv'
    BY <1>4, <2>4, WeightIsDouble DEF ReadDest
  <2>6. ASSUME ~raced
        PROVE  /\ space = Minus0(cap, dest) /\ available = source
               /\ before = Total(source)
               /\ Total(source) = NaN <=> delta' = NaN
    <3>1. space = Minus0(cap, dest) /\ available = source /\ before = Total(source)
      BY <1>4, <2>6 DEF ReadDest, UnracedInv
    <3>2. Plus(source, dest) = NaN => NaN \in {source, Minus0(cap, dest)}
      BY <1>0, SumOf, DifferenceOf
    <3> QED BY <2>4, <3>1, <3>2 DEF Total
  <2>7. UnracedInv'
    <3>1. /\ UNCHANGED <<source, dest, cap, request, before, raced>> /\ tpc' = "take"
      BY <1>4 DEF ReadDest
    <3> QED BY <2>4, <2>6, <3>1 DEF UnracedInv, Total
  <2> QED BY <2>5, <2>7
<1>5. CASE TakeLoad BY <1>5 DEF TakeLoad, UnracedInv, Total
<1>6. CASE TakeStore
  <2>1. source' = Minus0(reg, delta) /\ source' \in Weight
    BY <1>6, DifferenceOf DEF TakeStore
  <2>2. TypeOK' /\ WeightInv'
    BY <1>6, <2>1, WeightIsDouble DEF TakeStore
  <2>3. ASSUME ~raced, delta # NaN
        PROVE  source \in 0..Infinity /\ delta \in 0..(Infinity - 1) /\ delta <= source
    <3>1. source # NaN
      BY <1>0, <1>6, <2>3, SumOf DEF TakeStore, UnracedInv, Total
    <3> QED BY <1>0, <1>6, <2>3, <3>1 DEF TakeStore, UnracedInv, Weight
  <2>4. ASSUME ~raced, delta # NaN
        PROVE  source' # NaN /\ Plus(source', delta) = source
    BY <1>6, <2>1, <2>3, <2>4, TakeAndReturn DEF TakeStore, UnracedInv
  <2>5. ASSUME ~raced, delta = NaN
        PROVE  before = NaN /\ source' = NaN /\ Plus(source', delta) = NaN
    BY <1>0, <1>6, <2>1, <2>5, DifferenceOf DEF TakeStore, UnracedInv, Plus
  <2>6. UnracedInv'
    <3>1. /\ UNCHANGED <<dest, cap, request, before, delta, raced>> /\ tpc' = "give"
          /\ ~raced => before = Total(source) /\ reg = source
          /\ ~raced => (delta = NaN <=> before = NaN)
          /\ ~raced /\ delta # NaN => delta <= Minus0(cap, dest)
      BY <1>6 DEF TakeStore, UnracedInv
    <3>2. ASSUME ~raced PROVE before = Total(Plus(source, delta))'
      BY <2>4, <2>5, <3>1, <3>2 DEF Total
    <3>3. ASSUME ~raced, delta # NaN
          PROVE  source' = Minus0(Plus(source', delta), delta)
      BY <2>1, <2>4, <3>1, <3>3
    <3> QED BY <2>5, <3>1, <3>2, <3>3 DEF UnracedInv
  <2> QED BY <2>2, <2>6
<1>7. CASE GiveLoad BY <1>7 DEF GiveLoad, UnracedInv, Total
<1>8. CASE GiveStore
  <2>1. dest' = Max0(Plus(reg, delta)) /\ dest' \in Weight
    BY <1>8, MaxOfZero, SumOf, WeightIsDouble DEF GiveStore
  <2>2. TypeOK' /\ WeightInv'
    BY <1>8, <2>1, WeightIsDouble DEF GiveStore
  <2>3. ASSUME ~raced PROVE UnracedTransfers'
    <3>1. /\ UNCHANGED <<source, cap, before, delta, raced>>
          /\ reg = dest /\ before = Total(Plus(source, delta))
          /\ delta = NaN <=> before = NaN
          /\ delta = NaN => source = NaN
          /\ delta # NaN => delta <= Minus0(cap, dest)
      BY <1>8, <2>3 DEF GiveStore, UnracedInv
    <3>2. dest' = Plus(dest, delta)
      BY <2>1, <3>1, MaxOfZero, SumOf
    <3>3. CASE delta = NaN
      BY <3>1, <3>2, <3>3 DEF UnracedTransfers, Plus
    <3>4. CASE delta # NaN
      <4>1. /\ NaN \notin {request, Plus(source, delta), Minus0(cap, dest)}
            /\ before = Plus(Plus(source, delta), dest)
        BY <3>1, <3>4 DEF Total
      <4>2. NaN \notin {source, dest, cap}
        BY <1>0, <4>1, SumOf, DifferenceOf
      <4>3. /\ source \in 0..Infinity /\ dest \in 0..Infinity /\ cap \in 0..Infinity
            /\ delta \in 0..Infinity
        BY <3>4, <4>2 DEF Weight
      <4>4. Plus(source, dest') = before
        BY <3>2, <4>1, <4>3, MovedTotal
      <4>5. delta > 0 => AtLeast(cap, dest')
        <5>1. delta > 0 => delta \in 1..Infinity
          BY <1>0, <4>3
        <5> QED BY <3>1, <3>2, <3>4, <4>1, <4>3, <5>1, SpaceSuffices
      <4> QED BY <3>1, <3>4, <4>4, <4>5 DEF UnracedTransfers
    <3> QED BY <3>3, <3>4
  <2>4. UnracedInv'
    BY <1>8, <2>3 DEF GiveStore, UnracedInv
  <2> QED BY <2>2, <2>4
<1>9. CASE OutSource BY <1>9 DEF OutSource, UnracedInv, UnracedTransfers
<1>10. CASE OutDest BY <1>10 DEF OutDest, UnracedInv, UnracedTransfers
<1>11. CASE OutStarved BY <1>11 DEF OutStarved, UnracedInv, UnracedTransfers
<1>12. CASE OutFull BY <1>12 DEF OutFull, UnracedInv, UnracedTransfers
<1>13. CASE OutFullDest BY <1>13 DEF OutFullDest, UnracedInv, UnracedTransfers
<1>14. CASE OutFullCap
  <2>1. isFull' \in BOOLEAN
    BY <1>14 DEF OutFullCap, AtLeast
  <2> QED BY <1>14, <2>1 DEF OutFullCap, UnracedInv, UnracedTransfers
<1> QED
  BY <1>1, <1>2, <1>3, <1>4, <1>5, <1>6, <1>7, <1>8, <1>9, <1>10, <1>11, <1>12,
     <1>13, <1>14 DEF Tick

(* Every step keeps the invariant.                                         *)
LEMMA StepIInv == IInv /\ [Next]_vars => IInv'
<1> SUFFICES ASSUME IInv, [Next]_vars PROVE IInv'
  OBVIOUS
<1>1. CASE UNCHANGED vars
  BY <1>1 DEF vars, store, locals, signals, history, IInv, TypeOK, WeightInv, Moving,
              UnracedInv, TickDone, Total, UnracedTransfers
<1> QED
  BY <1>1, SetStepIInv, HandlerIInv, TickIInv DEF Next, Edit

(* The invariant holds of every run of the component.                      *)
THEOREM Invariant == Spec => []IInv
BY InitIInv, StepIInv, PTL DEF Spec

(* No interleaving of edits with a tick makes a weight negative.           *)
THEOREM WeightsNonNegative == Spec => []NonNegative
<1>1. IInv => NonNegative
  BY DoublesAssumption DEF IInv, WeightInv, NonNegative, Weight
<1> QED BY <1>1, Invariant, PTL

(* A tick without interference that began with numbers conserves the       *)
(* material and fits; one that did not makes both weights NaN.             *)
THEOREM MaterialConserved == Spec => []UnracedTransfers
<1>1. IInv => UnracedTransfers
  BY DEF IInv, UnracedInv, UnracedTransfers
<1> QED BY <1>1, Invariant, PTL

Listened == {Source, Capacity}

(* The field that a parameter is kept in, as far as no tick writes it.     *)
Follows(p) ==
  /\ p = Source => ticked \/ source = value[Source]
  /\ p = Capacity => cap = value[Capacity]

(* A field lags behind its parameter by the one event under way, if events *)
(* for it have never overlapped.                                           *)
AlignInv ==
  /\ value \in [Params -> Weight]
  /\ oldValue \in [Callers -> Weight]
  /\ overlapped \subseteq Params
  /\ \A t \in Callers : pc[t] # "idle" => newValue[t] \in Weight
  /\ \A p \in Listened \ overlapped :
       /\ Store!Undelivered(p) = {} => Follows(p)
       /\ \A t \in Store!Undelivered(p) :
            Store!Undelivered(p) = {t} /\ newValue[t] = value[p]

(* The component starts with the values of its parameters.                 *)
LEMMA InitAlign == Init => AlignInv
<1> SUFFICES ASSUME Init PROVE AlignInv
  OBVIOUS
<1> USE InventoryAssumption DEF Init, Store!Init
<1>1. \A p \in Params : Store!Undelivered(p) = {}
  BY DEF Store!Undelivered
<1>2. \A p \in Params : Default[p] \in Weight
  BY DEF Weight
<1> QED BY <1>1, <1>2 DEF AlignInv, Listened, Follows

(* Where no event starts or ends and no field or value is written, the     *)
(* fields follow as before.                                                *)
LEMMA QuietAlign ==
  ASSUME IInv, AlignInv,
         UNCHANGED <<value, oldValue, overlapped, newValue, source, cap>>,
         ticked => ticked',
         \A p \in Params : Store!Undelivered(p)' = Store!Undelivered(p),
         \A t \in Callers : pc'[t] # "idle" => pc[t] # "idle"
  PROVE  AlignInv'
BY DEF AlignInv, Listened, Follows

(* A step of Set: the exchange starts an event when it changes the value.  *)
LEMMA SetAlign ==
  ASSUME IInv, AlignInv, NEW t \in Callers, SetCall(t) \/ SetStep(t)
  PROVE  AlignInv'
<1> USE DEF IInv, TypeOK, history
<1>0. UNCHANGED <<source, cap, ticked>>
  BY DEF SetCall, SetStep
<1>1. ASSUME SetCall(t) PROVE AlignInv'
  <2>1. PICK p \in Params, v \in Requests : Store!Set(t, p, v)
    BY <1>1 DEF SetCall
  <2> DEFINE w == Store!ApplyValidation(p, v)
  <2>2. w \in Weight
    BY ClampToWeight
  <2>3. newValue' = [newValue EXCEPT ![t] = w]
    BY <2>1 DEF Store!Set
  <2> HIDE DEF w
  <2>4. \A q \in Params :
          Store!Undelivered(q)' = Store!Undelivered(q) /\ t \notin Store!Undelivered(q)
    BY <2>1 DEF Store!Set, Store!Undelivered
  <2>5. UNCHANGED <<value, oldValue, overlapped>>
    BY <2>1 DEF Store!Set
  <2>6. \A u \in Callers : pc'[u] # "idle" => newValue'[u] \in Weight
    BY <2>1, <2>2, <2>3 DEF Store!Set, AlignInv
  <2>7. \A q \in Listened : \A u \in Store!Undelivered(q) : newValue'[u] = newValue[u]
    BY <2>3, <2>4 DEF Listened, Store!Undelivered
  <2> QED BY <1>0, <2>4, <2>5, <2>6, <2>7 DEF AlignInv, Listened, Follows
<1>2. ASSUME Store!TryGetValue(t) PROVE AlignInv'
  <2> USE <1>2 DEF Store!TryGetValue
  <2>1. \A q \in Params : Store!Undelivered(q)' = Store!Undelivered(q)
    BY DEF Store!Undelivered
  <2>2. oldValue' \in [Callers -> Weight]
    BY DEF AlignInv
  <2>3. \A u \in Callers : pc'[u] # "idle" => pc[u] # "idle"
    OBVIOUS
  <2> QED BY <1>0, <2>1, <2>2, <2>3 DEF AlignInv, Listened, Follows
<1>3. ASSUME Store!TryUpdateFails(t) PROVE AlignInv'
  <2> USE <1>3 DEF Store!TryUpdateFails
  <2>1. \A q \in Params : Store!Undelivered(q)' = Store!Undelivered(q)
    BY DEF Store!Undelivered
  <2>2. \A u \in Callers : pc'[u] # "idle" => pc[u] # "idle"
    OBVIOUS
  <2> QED BY <1>0, <2>1, <2>2, QuietAlign
<1>4. ASSUME Store!TryUpdate(t) PROVE AlignInv'
  <2>0. PICK p \in Params : p = target[t]
    OBVIOUS
  <2>1. /\ pc[t] = "swap" /\ value[p] = oldValue[t]
        /\ value' = [value EXCEPT ![p] = newValue[t]]
        /\ UNCHANGED <<target, newValue, oldValue>>
    BY <1>4, <2>0 DEF Store!TryUpdate, Store!Exchange
  <2>2. \A u \in Callers : pc'[u] # "idle" => pc[u] # "idle"
    BY <1>4 DEF Store!TryUpdate, Store!Exchange
  <2>3. CASE oldValue[t] = newValue[t]
    <3>1. value' = value /\ overlapped' = overlapped
      BY <1>4, <2>1, <2>3 DEF Store!TryUpdate, Store!Exchange, AlignInv
    <3>2. \A q \in Params : Store!Undelivered(q)' = Store!Undelivered(q)
      BY <1>4, <2>3 DEF Store!TryUpdate, Store!Exchange, Store!Undelivered
    <3> QED BY <1>0, <2>1, <2>2, <3>1, <3>2, QuietAlign
  <2>4. CASE oldValue[t] # newValue[t]
    <3>1. /\ overlapped \subseteq overlapped' /\ overlapped' \subseteq Params
          /\ Store!Undelivered(p) # {} => p \in overlapped'
      BY <1>4, <2>0, <2>4 DEF Store!TryUpdate, Store!Exchange, AlignInv
    <3>2. \A q \in Params \ {p} : Store!Undelivered(q)' = Store!Undelivered(q)
      BY <1>4, <2>0, <2>4 DEF Store!TryUpdate, Store!Exchange, Store!Undelivered
    <3>3. Store!Undelivered(p)' = Store!Undelivered(p) \cup {t}
      BY <1>4, <2>0, <2>1, <2>4 DEF Store!TryUpdate, Store!Exchange, Store!Undelivered
    <3>4. ASSUME NEW q \in Listened \ overlapped'
          PROVE  /\ Store!Undelivered(q)' = {} => Follows(q)'
                 /\ \A u \in Store!Undelivered(q)' :
                      Store!Undelivered(q)' = {u} /\ newValue'[u] = value'[q]
      <4>1. CASE q = p
        <5>1. Store!Undelivered(p)' = {t}
          BY <3>1, <3>3, <3>4, <4>1
        <5>2. value'[p] = newValue[t]
          BY <2>1 DEF AlignInv
        <5> QED BY <2>1, <4>1, <5>1, <5>2
      <4>2. CASE q # p
        <5>1. value'[q] = value[q] /\ Store!Undelivered(q)' = Store!Undelivered(q)
          BY <2>1, <3>2, <3>4, <4>2 DEF Listened, AlignInv
        <5>2. q \in Listened \ overlapped
          BY <3>1, <3>4
        <5>3. Follows(q) => Follows(q)'
          BY <1>0, <5>1 DEF Follows
        <5> QED BY <2>1, <5>1, <5>2, <5>3 DEF AlignInv
      <4> QED BY <4>1, <4>2
    <3>5. value' \in [Params -> Weight]
      BY <2>1 DEF AlignInv
    <3> QED BY <2>1, <2>2, <3>1, <3>4, <3>5 DEF AlignInv
  <2> QED BY <2>3, <2>4
<1> QED BY <1>1, <1>2, <1>3, <1>4 DEF SetStep

(* A handler writes the field of its event.                                *)
LEMMA HandlerAlign ==
  ASSUME IInv, AlignInv, NEW t \in Callers,
         EditSource(t) \/ EditDest(t) \/ EditCapacity(t)
  PROVE  AlignInv'
<1> USE InventoryAssumption DEF IInv, TypeOK, EditSource, EditDest, EditCapacity, Raced,
        Store!ParameterChanged, Store!Deliver
<1>1. /\ UNCHANGED <<value, oldValue, newValue, target, overlapped, ticked>>
      /\ pc[t] = "raise"
      /\ \A u \in Callers : pc'[u] # "idle" => pc[u] # "idle"
  OBVIOUS
<1>2. \A q \in Params : Store!Undelivered(q)' = Store!Undelivered(q) \ {t}
  BY DEF Store!Undelivered
<1>3. Max0(newValue[t]) = newValue[t]
  <2>1. newValue[t] \in Weight
    BY <1>1 DEF AlignInv
  <2> QED BY <2>1, MaxOfZero
<1>4. /\ target[t] = Source => source' = newValue[t] /\ cap' = cap
      /\ target[t] = Dest => source' = source /\ cap' = cap
      /\ target[t] = Capacity => source' = source /\ cap' = newValue[t]
      /\ target[t] \in Params
  BY <1>3
<1>5. \A q \in Params : t \in Store!Undelivered(q) <=> target[t] = q
  BY <1>1 DEF Store!Undelivered
<1> HIDE DEF EditSource, EditDest, EditCapacity, Raced, Store!ParameterChanged,
             Store!Deliver, IInv, TypeOK
<1>6. ASSUME NEW q \in Listened \ overlapped
      PROVE  /\ Store!Undelivered(q)' = {} => Follows(q)'
             /\ \A u \in Store!Undelivered(q)' :
                  Store!Undelivered(q)' = {u} /\ newValue'[u] = value'[q]
  <2>0. q \in Params
    BY <1>6 DEF Listened
  <2>1. CASE target[t] = q
    <3>1. Store!Undelivered(q) = {t} /\ newValue[t] = value[q]
      BY <1>5, <1>6, <2>0, <2>1 DEF AlignInv
    <3>2. Store!Undelivered(q)' = {}
      BY <1>2, <2>0, <3>1
    <3>3. Follows(q)'
      BY <1>1, <1>4, <1>6, <2>1, <3>1 DEF Follows, Listened
    <3> QED BY <3>2, <3>3
  <2>2. CASE target[t] # q
    <3>1. Store!Undelivered(q)' = Store!Undelivered(q)
      BY <1>2, <1>5, <2>0, <2>2
    <3>2. Follows(q) => Follows(q)'
      BY <1>1, <1>4, <2>2 DEF Follows
    <3> QED BY <1>1, <1>6, <3>1, <3>2 DEF AlignInv
  <2> QED BY <2>1, <2>2
<1> QED BY <1>1, <1>6 DEF AlignInv

(* The clamp of the destination writes neither field.                      *)
LEMMA ClampAlign ==
  ASSUME IInv, AlignInv, NEW t \in Callers,
         \/ ClampLimit(t) \/ ClampRead(t) \/ ClampTest(t)
         \/ ClampLoad(t) \/ ClampStore(t)
  PROVE  AlignInv'
<1>1. PICK from \in ClampLabels, to \in ClampLabels \cup {"idle"} : ClampStep(t, from, to)
  BY DEF ClampLimit, ClampRead, ClampTest, ClampLoad, ClampStore
<1> USE <1>1 DEF ClampStep, IInv, TypeOK
<1>2. \A q \in Params : Store!Undelivered(q)' = Store!Undelivered(q)
  BY DEF Store!Undelivered
<1>3. \A u \in Callers : pc'[u] # "idle" => pc[u] # "idle"
  OBVIOUS
<1> QED BY <1>2, <1>3, QuietAlign

(* A tick writes the source only, and says so.                             *)
LEMMA TickAlign == IInv /\ AlignInv /\ Tick => AlignInv'
<1> SUFFICES ASSUME IInv, AlignInv, Tick PROVE AlignInv'
  OBVIOUS
<1>1. UNCHANGED store /\ cap' = cap
  BY DEF Tick, TickBegin, ReadSource, ReadCap, ReadDest, TakeLoad, TakeStore, GiveLoad,
         GiveStore, OutSource, OutDest, OutStarved, OutFull, OutFullDest,
         OutFullCap, TickStep
<1>2. (ticked' = ticked /\ source' = source) \/ ticked' = TRUE
  BY DEF Tick, TickBegin, ReadSource, ReadCap, ReadDest, TakeLoad, TakeStore, GiveLoad,
         GiveStore, OutSource, OutDest, OutStarved, OutFull, OutFullDest,
         OutFullCap, history
<1>3. \A q \in Params : Store!Undelivered(q)' = Store!Undelivered(q)
  BY <1>1 DEF store, Store!Undelivered
<1> QED BY <1>1, <1>2, <1>3 DEF store, AlignInv, Listened, Follows

(* Every step keeps the fields in line.                                    *)
LEMMA StepAlign == IInv /\ AlignInv /\ [Next]_vars => AlignInv'
<1> SUFFICES ASSUME IInv, AlignInv, [Next]_vars PROVE AlignInv'
  OBVIOUS
<1>1. CASE UNCHANGED vars
  <2>1. \A q \in Params : Store!Undelivered(q)' = Store!Undelivered(q)
    BY <1>1 DEF vars, store, Store!Undelivered
  <2> QED BY <1>1, <2>1, QuietAlign DEF vars, store, history
<1> QED
  BY <1>1, SetAlign, HandlerAlign, ClampAlign, TickAlign DEF Next, Edit

(* Until a tick moves material, the source and the capacity are what their *)
(* parameters say, unless two events for one have been under way at once.  *)
THEOREM InventoryFollows == Spec => []AlignedWithParameters
<1>1. IInv /\ AlignInv => AlignedWithParameters
  <2> SUFFICES ASSUME AlignInv, NoEdit PROVE AlignedWithParameters
    BY DEF AlignedWithParameters
  <2>1. \A p \in Params : Store!Undelivered(p) = {}
    BY DEF NoEdit, Store!Undelivered
  <2> QED BY <2>1 DEF AlignInv, Listened, Follows, AlignedWithParameters
<1> QED BY <1>1, Invariant, InitAlign, StepAlign, PTL DEF Spec

(* In a run of edits that come one by one and outside ticks, one thing is  *)
(* under way at a time, and the clamp knows what it reads.                 *)
Alone ==
  /\ tpc # "idle" => NoEdit /\ ~raced
  /\ \A t, u \in Callers : pc[t] # "idle" /\ pc[u] # "idle" => t = u

ClampKnows(t) ==
  /\ pc[t] \in ClampLabels \ {"clampLimit"} => Exceeds(cap, 0)
  /\ pc[t] = "clampTest" => seen[t] = dest
  /\ pc[t] \in {"clampLoad", "clampStore"} => Exceeds(dest, cap)
  /\ pc[t] = "clampStore" => seen[t] = cap

SerialInv ==
  /\ mirror \in [Params -> Weight]
  /\ serialized => Alone /\ \A t \in Callers : ClampKnows(t)

(* Nothing is under way in the beginning.                                  *)
LEMMA InitSerial == Init => SerialInv
BY InventoryAssumption
DEF Init, Store!Init, SerialInv, Alone, ClampKnows, NoEdit, Weight

(* An edit or a tick leaves nothing else under way.                        *)
LEMMA SetSerial ==
  ASSUME IInv, SerialInv, NEW t \in Callers, SetCall(t) \/ SetStep(t),
         UNCHANGED serialized
  PROVE  SerialInv'
<1> USE DEF IInv, TypeOK, SerialInv, history, locals
<1>1. CASE SetCall(t)
  BY <1>1 DEF SetCall, Store!Set, Alone, ClampKnows, NoEdit
<1>2. CASE SetStep(t)
  <2>1. /\ UNCHANGED <<mirror, tpc, raced, cap, dest, seen>>
        /\ pc[t] \in {"read", "swap"}
        /\ \E label \in {"idle", "read", "swap", "raise"} :
             pc' = [pc EXCEPT ![t] = label]
    BY <1>2 DEF SetStep, Store!TryGetValue, Store!TryUpdate, Store!TryUpdateFails,
                Store!Exchange
  <2> QED BY <2>1 DEF Alone, ClampKnows, NoEdit
<1> QED BY <1>1, <1>2

(* A handler and its clamp go on alone.                                    *)
LEMMA HandlerSerial ==
  ASSUME IInv, AlignInv, SerialInv, NEW t \in Callers,
         \/ EditSource(t) \/ EditDest(t) \/ EditCapacity(t)
         \/ ClampLimit(t) \/ ClampRead(t) \/ ClampTest(t)
         \/ ClampLoad(t) \/ ClampStore(t),
         UNCHANGED serialized
  PROVE  SerialInv'
<1> USE DEF IInv, TypeOK, SerialInv, locals
<1>1. ASSUME EditSource(t) \/ EditDest(t) \/ EditCapacity(t) PROVE SerialInv'
  <2> USE <1>1 DEF EditSource, EditDest, EditCapacity, Raced,
                   Store!ParameterChanged, Store!Deliver
  <2>1. newValue[t] \in Weight /\ pc[t] = "raise"
    BY DEF AlignInv
  <2>2. mirror' \in [Params -> Weight]
    BY <2>1
  <2>3. /\ tpc' = tpc /\ raced' = (tpc # "idle")
        /\ \E label \in {"idle", "clampLimit"} : pc' = [pc EXCEPT ![t] = label]
    OBVIOUS
  <2> HIDE <1>1 DEF EditSource, EditDest, EditCapacity, Raced,
                    Store!ParameterChanged, Store!Deliver
  <2>4. serialized => Alone'
    BY <2>1, <2>3 DEF Alone, NoEdit
  <2>5. serialized => \A u \in Callers : ClampKnows(u)'
    BY <2>1, <2>3 DEF Alone, ClampKnows
  <2> QED BY <2>2, <2>4, <2>5
<1>2. ASSUME \/ ClampLimit(t) \/ ClampRead(t) \/ ClampTest(t)
             \/ ClampLoad(t) \/ ClampStore(t)
      PROVE SerialInv'
  <2> USE <1>2 DEF ClampLimit, ClampRead, ClampTest, ClampLoad, ClampStore, ClampStep
  <2>1. /\ UNCHANGED <<mirror, tpc, cap>>
        /\ pc[t] \in ClampLabels
        /\ \E label \in ClampLabels \cup {"idle"} : pc' = [pc EXCEPT ![t] = label]
    OBVIOUS
  <2>2. serialized => Alone'
    BY <2>1 DEF Alone, NoEdit
  <2>3. \A u \in Callers \ {t} : serialized => pc[u] = "idle" /\ pc'[u] = "idle"
    BY <2>1 DEF Alone
  <2>4. serialized => ClampKnows(t)'
    BY DEF ClampKnows
  <2>5. \A u \in Callers \ {t} : serialized => ClampKnows(u)'
    BY <2>3 DEF ClampKnows
  <2> QED BY <2>1, <2>2, <2>4, <2>5
<1> QED BY <1>1, <1>2

(* A tick begins and goes on alone.                                        *)
LEMMA TickSerial ==
  ASSUME IInv, SerialInv, Tick, UNCHANGED serialized
  PROVE  SerialInv'
<1>1. /\ UNCHANGED <<store, cap, seen>>
      /\ serialized => NoEdit
      /\ raced' = raced \/ raced' = FALSE
      /\ tpc = "idle" => raced' = FALSE
  BY DEF Tick, TickBegin, ReadSource, ReadCap, ReadDest, TakeLoad, TakeStore, GiveLoad,
         GiveStore, OutSource, OutDest, OutStarved, OutFull, OutFullDest,
         OutFullCap, TickStep, history,
         SerialInv, Alone
<1> QED
  BY <1>1 DEF store, SerialInv, Alone, ClampKnows, NoEdit, IInv, TypeOK

(* Every step keeps it so.                                                 *)
LEMMA StepSerial == IInv /\ AlignInv /\ SerialInv /\ [Next]_vars => SerialInv'
<1> SUFFICES ASSUME IInv, AlignInv, SerialInv, [Next]_vars PROVE SerialInv'
  OBVIOUS
<1>1. CASE UNCHANGED vars
  BY <1>1 DEF vars, store, locals, history, SerialInv, Alone, ClampKnows, NoEdit
<1> QED
  BY <1>1, SetSerial, HandlerSerial, TickSerial DEF Next, Edit

(* What the abstract inventory sees, in a run of serialized edits.         *)
Limited == Clamping /\ Exceeds(cap, 0) /\ Exceeds(dest, cap)
Seen == <<IF Giving THEN Plus(source, delta) ELSE source,
          IF Limited THEN cap ELSE dest, cap, request, mirror>>

(* Where edits are not serialized, the abstract inventory stands still.    *)
LEMMA SeenIsAll ==
  ASSUME UNCHANGED serialized, serialized => UNCHANGED Seen
  PROVE  UNCHANGED Atomic!vars
BY DEF Atomic!vars, Seen, Limited

(* The abstract inventory has the same arithmetic.                         *)
LEMMA SameArithmetic ==
  ASSUME NEW x, NEW y
  PROVE  /\ Atomic!Minus0(x, y) = Minus0(x, y)
         /\ Atomic!Plus(x, y) = Plus(x, y)
         /\ Atomic!Exceeds(x, y) <=> Exceeds(x, y)
         /\ Atomic!AtLeast(x, y) <=> AtLeast(x, y)
BY DEF Atomic!Minus0, Minus0, Atomic!Max0, Max0, Atomic!Plus, Plus, Atomic!Lesser,
       Lesser, Atomic!Exceeds, Exceeds, Atomic!AtLeast, AtLeast

(* Steps of Set are not seen.                                              *)
LEMMA SetImplements ==
  ASSUME IInv, NEW t \in Callers, SetCall(t) \/ SetStep(t), UNCHANGED serialized
  PROVE  UNCHANGED Atomic!vars
<1>1. UNCHANGED <<mirror, tpc, source, dest, cap, delta, request>>
  BY DEF SetCall, SetStep, Store!Set, Store!TryGetValue, Store!TryUpdate,
         Store!TryUpdateFails, Store!Exchange, locals
<1>2. \A u \in Callers : pc'[u] \in ClampLabels <=> pc[u] \in ClampLabels
  BY DEF IInv, TypeOK, SetCall, SetStep, Store!Set, Store!TryGetValue,
         Store!TryUpdate, Store!TryUpdateFails, Store!Exchange
<1>3. Clamping' = Clamping /\ Giving' = Giving
  BY <1>1, <1>2 DEF Clamping, Giving
<1> QED BY <1>1, <1>3, SeenIsAll DEF Seen, Limited

(* The handler of an event is one edit, of a capacity with its clamp.      *)
LEMMA EditImplements ==
  ASSUME IInv, AlignInv, SerialInv, NEW t \in Callers,
         EditSource(t) \/ EditDest(t) \/ EditCapacity(t),
         UNCHANGED serialized
  PROVE  [Atomic!Next]_(Atomic!vars)
<1> USE DEF IInv, TypeOK, SerialInv, locals
<1>1. CASE ~serialized
  BY <1>1, SeenIsAll
<1>2. CASE serialized
  <2> DEFINE v == newValue[t]
  <2>1. /\ v \in Weight /\ Max0(v) = v /\ pc[t] = "raise" /\ target[t] \in Params
        /\ mirror' = [mirror EXCEPT ![target[t]] = v]
        /\ UNCHANGED <<tpc, delta, request>>
    BY MaxOfZero DEF AlignInv, EditSource, EditDest, EditCapacity,
           Store!ParameterChanged, Store!Deliver
  <2>2. tpc = "idle" /\ \A u \in Callers \ {t} : pc[u] = "idle" /\ pc'[u] = "idle"
    BY <1>2, <2>1 DEF Alone, NoEdit, EditSource, EditDest, EditCapacity,
                      Store!ParameterChanged, Store!Deliver
  <2>3. ~Giving /\ ~Giving' /\ ~Clamping
    BY <2>1, <2>2 DEF Giving, Clamping
  <2>4. mirror'[target[t]] = v
    BY <2>1
  <2>5. ASSUME EditSource(t) PROVE Atomic!EditSource(v)
    <3>1. source' = v /\ UNCHANGED <<dest, cap>> /\ target[t] = Source
      BY <2>1, <2>5 DEF EditSource
    <3>2. ~Clamping'
      BY <2>2, <2>5 DEF EditSource, Store!ParameterChanged, Store!Deliver, Clamping
    <3> QED BY <1>2, <2>1, <2>3, <3>1, <3>2
            DEF Atomic!EditSource, Atomic!Event, Atomic!Weight, Weight
  <2>6. ASSUME EditDest(t) PROVE Atomic!EditDest(v)
    <3>1. dest' = v /\ UNCHANGED <<source, cap>> /\ target[t] = Dest
      BY <2>1, <2>6 DEF EditDest
    <3>2. ~Clamping'
      BY <2>2, <2>6 DEF EditDest, Store!ParameterChanged, Store!Deliver, Clamping
    <3> QED BY <1>2, <2>1, <2>3, <3>1, <3>2
            DEF Atomic!EditDest, Atomic!Event, Atomic!Weight, Weight
  <2>7. ASSUME EditCapacity(t) PROVE Atomic!EditCapacity(v)
    <3>1. cap' = v /\ UNCHANGED <<source, dest>> /\ target[t] = Capacity
      BY <2>1, <2>7 DEF EditCapacity
    <3>2. Clamping'
      BY <2>7 DEF EditCapacity, Store!Deliver, Clamping
    <3> QED BY <1>2, <2>1, <2>3, <3>1, <3>2, SameArithmetic
            DEF Atomic!EditCapacity, Atomic!Event, Atomic!Weight, Weight
  <2>8. /\ target[t] = Source => v = (IF serialized THEN mirror ELSE Default)'[Source]
        /\ target[t] = Dest => v = (IF serialized THEN mirror ELSE Default)'[Dest]
        /\ target[t] = Capacity => v = (IF serialized THEN mirror ELSE Default)'[Capacity]
    BY <1>2, <2>4
  <2>9. /\ EditSource(t) => target[t] = Source
        /\ EditDest(t) => target[t] = Dest
        /\ EditCapacity(t) => target[t] = Capacity
    BY DEF EditSource, EditDest, EditCapacity
  <2> HIDE DEF v
  <2> QED BY <2>5, <2>6, <2>7, <2>8, <2>9 DEF Atomic!Next
<1> QED BY <1>1, <1>2

(* The steps of the clamp are not seen: the edit has done them already.    *)
LEMMA ClampImplements ==
  ASSUME IInv, SerialInv, NEW t \in Callers,
         \/ ClampLimit(t) \/ ClampRead(t) \/ ClampTest(t)
         \/ ClampLoad(t) \/ ClampStore(t),
         UNCHANGED serialized
  PROVE  UNCHANGED Atomic!vars
<1> SUFFICES ASSUME serialized PROVE UNCHANGED Seen
  BY SeenIsAll
<1> USE DEF IInv, TypeOK, SerialInv, locals
<1>1. /\ UNCHANGED <<mirror, tpc, source, cap, delta, request>>
      /\ Clamping /\ Giving' = Giving
  BY DEF ClampLimit, ClampRead, ClampTest, ClampLoad, ClampStore, ClampStep,
         Clamping, Giving
<1>2. \A u \in Callers \ {t} : pc[u] = "idle" /\ pc'[u] = "idle"
  BY DEF Alone, ClampLimit, ClampRead, ClampTest, ClampLoad, ClampStore, ClampStep
<1>3. Clamping' <=> pc'[t] \in ClampLabels
  BY <1>2 DEF Clamping
<1>4. CASE ClampLimit(t) BY <1>1, <1>3, <1>4 DEF ClampLimit, ClampStep, Seen, Limited
<1>5. CASE ClampRead(t) BY <1>1, <1>3, <1>5 DEF ClampRead, ClampStep, Seen, Limited
<1>6. CASE ClampTest(t)
  BY <1>1, <1>3, <1>6 DEF ClampTest, ClampStep, Seen, Limited, ClampKnows
<1>7. CASE ClampLoad(t) BY <1>1, <1>3, <1>7 DEF ClampLoad, ClampStep, Seen, Limited
<1>8. CASE ClampStore(t)
  BY <1>1, <1>3, <1>8 DEF ClampStore, ClampStep, Seen, Limited, ClampKnows
<1> QED BY <1>4, <1>5, <1>6, <1>7, <1>8

(* A tick is one transfer, when the destination is written, or none.       *)
LEMMA TickImplements ==
  ASSUME IInv, SerialInv, Tick, UNCHANGED serialized
  PROVE  [Atomic!Next]_(Atomic!vars)
<1> USE DEF IInv, TypeOK, SerialInv, TickStep
<1>1. CASE ~serialized
  BY <1>1, SeenIsAll
<1>2. CASE serialized
  <2>1. UNCHANGED <<mirror, cap, pc>> /\ ~Clamping /\ ~Clamping'
    <3>1. UNCHANGED <<mirror, cap, pc>> /\ NoEdit
      BY <1>2 DEF Tick, TickBegin, ReadSource, ReadCap, ReadDest, TakeLoad, TakeStore,
             GiveLoad, GiveStore, OutSource, OutDest, OutStarved, OutFull, OutFullDest,
         OutFullCap, store, Alone
    <3> QED BY <3>1 DEF Clamping, NoEdit
  <2>2. CASE GiveStore
    <3>1. /\ tpc = "giveStore" /\ ~raced /\ reg = dest
          /\ source' = source /\ dest' = Plus(dest, delta) /\ request' = request
      BY <1>2, <2>2, SumOf, MaxOfZero DEF GiveStore, Alone, UnracedInv, WeightInv
    <3>2. /\ before = Total(Plus(source, delta))
          /\ delta = NaN <=> before = NaN
          /\ delta = NaN => source = NaN
          /\ delta # NaN => source = Minus0(Plus(source, delta), delta)
          /\ delta # NaN => delta <= Minus0(cap, dest) /\ delta <= request
      BY <3>1 DEF UnracedInv, WeightInv, Moving
    <3>3. Giving /\ ~Giving'
      BY <2>2 DEF GiveStore, Giving
    <3>4. CASE delta = NaN
      <4>1. source = NaN /\ Plus(source, delta) = NaN /\ dest' = NaN
        BY <3>1, <3>2, <3>4 DEF Plus
      <4>2. Atomic!Spoil
        BY <1>2, <2>1, <3>1, <3>3, <4>1 DEF Atomic!Spoil, Atomic!Stuck
      <4> QED BY <4>2 DEF Atomic!Next
    <3>5. CASE delta # NaN
      <4>1. /\ NaN \notin {request, Plus(source, delta), Minus0(cap, dest)}
            /\ before = Plus(Plus(source, delta), dest)
        BY <3>2, <3>5 DEF Total
      <4>2. NaN \notin {source, dest, cap}
        BY <4>1, SumOf, DifferenceOf, WeightIsDouble DEF WeightInv
      <4>3. /\ source \in 0..Infinity /\ dest \in 0..Infinity /\ cap \in 0..Infinity
            /\ delta \in 0..Infinity /\ request \in 0..MaxDelta
        BY <3>5, <4>1, <4>2 DEF WeightInv, Weight
      <4>4. CASE delta = 0
        <5>1. Plus(source, 0) = source /\ Plus(dest, 0) = dest
          BY <4>3, DoublesAssumption DEF Plus, Lesser
        <5> QED BY <1>2, <2>1, <3>1, <3>3, <4>4, <5>1, SeenIsAll DEF Seen, Limited
      <4>5. CASE delta # 0
        <5>1. delta \in 1..Infinity /\ delta \in 1..request
          BY <3>2, <3>5, <4>3, <4>5, DoublesAssumption, InventoryAssumption
        <5>2. AtLeast(cap, dest')
          BY <3>1, <3>2, <3>5, <4>1, <4>3, <5>1, SpaceSuffices
        <5>3. delta <= Plus(source, delta)
          BY <4>3, DoublesAssumption DEF Plus, Lesser
        <5>4. Atomic!Transfer
          BY <1>2, <2>1, <3>1, <3>2, <3>3, <3>5, <4>1, <5>1, <5>2, <5>3, SameArithmetic
             DEF Atomic!Transfer, Atomic!Stuck
        <5> QED BY <5>4 DEF Atomic!Next
      <4> QED BY <4>4, <4>5
    <3> QED BY <3>4, <3>5
  <2>3. CASE TakeStore
    <3>1. /\ ~raced /\ reg = source /\ before = Total(source)
          /\ delta = NaN <=> before = NaN
          /\ delta # NaN => delta <= source /\ delta <= request
          /\ source' = Minus0(source, delta)
          /\ dest' = dest /\ request' = request /\ delta' = delta
      BY <1>2, <2>3 DEF TakeStore, Alone, UnracedInv, WeightInv, Moving
    <3>2. ~Giving /\ Giving'
      BY <2>3 DEF TakeStore, Giving
    <3>3. CASE delta = NaN
      <4>1. source' = NaN /\ Plus(source', delta') = NaN
        BY <3>1, <3>3 DEF Minus0, Plus
      <4>2. NaN \in {request, source, Minus0(cap, dest)}
        BY <3>1, <3>3, SumOf, DifferenceOf, WeightIsDouble DEF Total, WeightInv
      <4>3. Atomic!Spoil
        BY <1>2, <2>1, <3>1, <3>2, <4>1, <4>2, SameArithmetic
           DEF Atomic!Spoil, Atomic!Stuck
      <4> QED BY <4>3 DEF Atomic!Next
    <3>4. CASE delta # NaN
      <4>1. source # NaN /\ request # NaN
        BY <3>1, <3>4 DEF Total
      <4>2. /\ source \in 0..Infinity /\ delta \in 0..(Infinity - 1)
            /\ delta <= source
        BY <3>1, <3>4, <4>1, DoublesAssumption, InventoryAssumption
           DEF WeightInv, Weight
      <4>3. Plus(source', delta') = source
        BY <3>1, <4>2, TakeAndReturn
      <4> QED BY <1>2, <2>1, <3>1, <3>2, <4>3, SeenIsAll DEF Seen, Limited
    <3> QED BY <3>3, <3>4
  <2>4. CASE GiveLoad
    BY <2>1, <2>4, SeenIsAll DEF GiveLoad, Giving, Seen, Limited
  <2>5. CASE TickBegin
    <3>1. /\ ~Giving /\ ~Giving' /\ source' = source /\ dest' = dest
          /\ request' = NaN \/ request' \in 0..MaxDelta
      BY <2>5 DEF TickBegin, Giving
    <3>2. request' = NaN \/ request' \in 0..(Infinity - 1)
      BY <3>1, DoublesAssumption, InventoryAssumption
    <3>3. Atomic!Ask
      BY <1>2, <2>1, <3>1, <3>2 DEF Atomic!Ask
    <3> QED BY <3>3 DEF Atomic!Next
  <2>6. CASE \/ ReadSource \/ ReadCap \/ ReadDest \/ TakeLoad
             \/ OutSource \/ OutDest \/ OutStarved
             \/ OutFull \/ OutFullDest \/ OutFullCap
    <3>1. ~Giving /\ ~Giving' /\ UNCHANGED <<source, dest, request>>
      BY <2>6 DEF ReadSource, ReadCap, ReadDest, TakeLoad, OutSource,
                  OutDest, OutStarved, OutFull, OutFullDest, OutFullCap, Giving
    <3> QED BY <2>1, <3>1, SeenIsAll DEF Seen, Limited
  <2> QED BY <2>2, <2>3, <2>4, <2>5, <2>6 DEF Tick
<1> QED BY <1>1, <1>2

(* With edits one by one and outside ticks, every run of the component is  *)
(* a run of atomic transfers and edits.                                    *)
THEOREM InventoryImplemented == Spec => ImplementsInventory
<1>1. Init => Atomic!Init
  BY InventoryAssumption DEF Init, Store!Init, Atomic!Init, Clamping, Giving
<1>2. IInv /\ AlignInv /\ SerialInv /\ [Next]_vars => [Atomic!Next]_(Atomic!vars)
  <2> SUFFICES ASSUME IInv, AlignInv, SerialInv, [Next]_vars
               PROVE  [Atomic!Next]_(Atomic!vars)
    OBVIOUS
  <2>1. CASE UNCHANGED vars
    BY <2>1 DEF vars, store, locals, Atomic!vars, Clamping, Giving
  <2> QED
    BY <2>1, SetImplements, EditImplements, ClampImplements, TickImplements
    DEF Next, Edit
<1> QED
  BY <1>1, <1>2, Invariant, InitIInv, StepIInv, InitAlign, StepAlign,
     InitSerial, StepSerial, PTL DEF Spec, ImplementsInventory, Atomic!Spec
=============================================================================
