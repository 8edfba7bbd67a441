---------------------- MODULE SimulationRunner_proofs ----------------------
(***************************************************************************)
(* Ticks exclude each other and are never torn, a pause lets the loop      *)
(* begin at most one more tick, and every step that was granted is run     *)
(* once: for any number of requests, components, steps and ticks.          *)
(***************************************************************************)
EXTENDS SimulationRunner, FiniteSetTheorems, TLAPS

(* A request is in Step only while it has iterations left.                 *)
StepInv == \A c \in Callers : pc[c] = "idle" \/ left[c] >= 1

(* A loop that has decided to tick did so while the runner was not paused. *)
PauseInv ==
  /\ afterPause <= 1
  /\ ~paused => afterPause = 0
  /\ pc[Loop] \in {"want", "locked"} => afterPause = 0

(* The inductive invariant.                                                *)
IInv == TypeOK /\ StepInv /\ TicksExclude /\ TickWhole /\ PauseInv

(* The runner starts in the invariant.                                     *)
LEMMA InitIInv == Init => IInv
<1> SUFFICES ASSUME Init PROVE IInv
  OBVIOUS
<1> USE RunnerAssumption DEF Init, CreatedPaused, Threads
<1>1. TypeOK
  <2>1. pc \in [Threads -> {"idle", "want", "locked", "ticking",
                           "top", "check", "delay", "stopped"}]
    OBVIOUS
  <2>2. written \in [1..K -> Nat] /\ left \in [Callers -> Nat]
    OBVIOUS
  <2>3. next \in 1..(K + 1)
    OBVIOUS
  <2> QED BY <2>1, <2>2, <2>3 DEF TypeOK
<1>2. StepInv /\ PauseInv
  BY DEF StepInv, PauseInv
<1>3. TicksExclude
  BY DEF TicksExclude, InLock
<1>4. TickWhole
  BY DEF TickWhole
<1> QED
  BY <1>1, <1>2, <1>3, <1>4 DEF IInv

(* Every step keeps it.                                                    *)
LEMMA StepIInv == IInv /\ [Next]_vars => IInv'
<1> SUFFICES ASSUME IInv, [Next]_vars PROVE IInv'
  OBVIOUS
<1> USE RunnerAssumption DEF IInv, TypeOK, Threads, Goto, InLock
<1>1. CASE Pause
  <2> USE <1>1 DEF Pause
  <2>1. TypeOK' OBVIOUS
  <2>2. StepInv' /\ PauseInv' BY DEF StepInv, PauseInv
  <2>3. TicksExclude' /\ TickWhole' BY DEF TicksExclude, TickWhole
  <2> QED BY <2>1, <2>2, <2>3
<1>2. CASE Resume
  <2> USE <1>2 DEF Resume
  <2>1. TypeOK' OBVIOUS
  <2>2. StepInv' /\ PauseInv' BY DEF StepInv, PauseInv
  <2>3. TicksExclude' /\ TickWhole' BY DEF TicksExclude, TickWhole
  <2> QED BY <2>1, <2>2, <2>3
<1>3. CASE Shutdown
  <2> USE <1>3 DEF Shutdown
  <2>1. TypeOK' OBVIOUS
  <2>2. StepInv' /\ PauseInv' BY DEF StepInv, PauseInv
  <2>3. TicksExclude' /\ TickWhole' BY DEF TicksExclude, TickWhole
  <2> QED BY <2>1, <2>2, <2>3
<1>4. ASSUME NEW c \in Callers, NEW n \in 0..MaxSteps, StepRequest(c, n)
      PROVE IInv'
  <2> USE <1>4 DEF StepRequest
  <2>1. TypeOK' OBVIOUS
  <2>2. StepInv' /\ PauseInv' BY DEF StepInv, PauseInv
  <2>3. TicksExclude' BY DEF TicksExclude
  <2>4. TickWhole' BY DEF TickWhole
  <2> QED BY <2>1, <2>2, <2>3, <2>4
<1>5. ASSUME NEW t \in Threads, Acquire(t) PROVE IInv'
  <2> USE <1>5 DEF Acquire
  <2>1. TypeOK' OBVIOUS
  <2>2. StepInv' /\ PauseInv' BY DEF StepInv, PauseInv
  <2>3. TicksExclude' BY DEF TicksExclude
  <2>4. TickWhole' BY DEF TickWhole
  <2> QED BY <2>1, <2>2, <2>3, <2>4
<1>6. ASSUME NEW t \in Threads, Advance(t) PROVE IInv'
  <2> USE <1>6 DEF Advance
  <2>1. TypeOK' OBVIOUS
  <2>2. StepInv' BY DEF StepInv
  <2>3. PauseInv' BY DEF PauseInv
  <2>4. TicksExclude' BY DEF TicksExclude
  <2>5. \A u \in Threads : pc[u] # "ticking"
    BY DEF TicksExclude
  <2>6. \A i \in 1..K : written'[i] = tick
    BY <2>5 DEF TickWhole
  <2>7. TickWhole' BY <2>6 DEF TickWhole
  <2> QED BY <2>1, <2>2, <2>3, <2>4, <2>7
<1>7. ASSUME NEW t \in Threads, TickComponent(t) PROVE IInv'
  <2> USE <1>7 DEF TickComponent
  <2>1. TypeOK' OBVIOUS
  <2>2. StepInv' /\ PauseInv' BY DEF StepInv, PauseInv
  <2>3. TicksExclude' BY DEF TicksExclude
  <2>4. TickWhole' BY DEF TickWhole
  <2> QED BY <2>1, <2>2, <2>3, <2>4
<1>8. ASSUME NEW t \in Threads, NEW label \in {"want", "idle", "top", "delay"},
             next > K, Unlock(t, label)
      PROVE TicksExclude' /\ TickWhole'
  <2> USE <1>8 DEF Unlock
  <2>1. TicksExclude' BY DEF TicksExclude
  <2>2. \A i \in 1..K : written[i] = tick
    BY DEF TickWhole
  <2>3. \A u \in Threads : pc'[u] # "ticking"
    BY DEF TicksExclude
  <2> QED BY <2>1, <2>2, <2>3 DEF TickWhole
<1>9. ASSUME NEW c \in Callers, CallerUnlock(c) PROVE IInv'
  <2>1. left[c] \in Nat /\ left[c] >= 1
    BY <1>9 DEF CallerUnlock, Unlock, StepInv
  <2>2. TypeOK' /\ StepInv' /\ PauseInv'
    BY <1>9, <2>1 DEF CallerUnlock, Unlock, StepInv, PauseInv
  <2>3. TicksExclude' /\ TickWhole'
    BY <1>8, <1>9 DEF CallerUnlock
  <2> QED BY <2>2, <2>3
<1>10. CASE LoopUnlock
  <2>1. TypeOK' /\ StepInv' /\ PauseInv'
    BY <1>10 DEF LoopUnlock, Unlock, StepInv, PauseInv
  <2>2. TicksExclude' /\ TickWhole'
    BY <1>8, <1>10 DEF LoopUnlock
  <2> QED BY <2>1, <2>2
<1>11. ASSUME NEW from \in {"top", "check", "delay"},
              NEW label \in {"top", "check", "delay", "want", "stopped"},
              LoopStep(from, label), label = "want" => ~paused
       PROVE IInv'
  <2> USE <1>11 DEF LoopStep
  <2>1. TypeOK' OBVIOUS
  <2>2. StepInv' /\ PauseInv' BY DEF StepInv, PauseInv
  <2>3. TicksExclude' BY DEF TicksExclude
  <2>4. TickWhole' BY DEF TickWhole
  <2> QED BY <2>1, <2>2, <2>3, <2>4
<1>12. CASE LoopTop BY <1>11, <1>12 DEF LoopTop
<1>13. CASE LoopCheck BY <1>11, <1>13 DEF LoopCheck
<1>14. CASE LoopWake BY <1>11, <1>14 DEF LoopWake
<1>15. CASE LoopCancelled BY <1>11, <1>15 DEF LoopCancelled
<1>16. CASE UNCHANGED vars
  BY <1>16 DEF vars, StepInv, PauseInv, TicksExclude, TickWhole
<1> QED
  BY <1>1, <1>2, <1>3, <1>4, <1>5, <1>6, <1>7, <1>9, <1>10, <1>12, <1>13,
     <1>14, <1>15, <1>16 DEF Next

(* The invariant holds of every run of the runner.                         *)
THEOREM Invariant == Spec => []IInv
BY InitIInv, StepIInv, PTL DEF Spec

(* Every variable of the runner stays in its domain.                       *)
THEOREM TypeCorrect == Spec => []TypeOK
<1>1. IInv => TypeOK BY DEF IInv
<1> QED BY <1>1, Invariant, PTL

(* StepOnce's lock: two threads are never inside a tick together.          *)
THEOREM TickExclusion == Spec => []TicksExclude
<1>1. IInv => TicksExclude BY DEF IInv
<1> QED BY <1>1, Invariant, PTL

(* The components' outputs never mix ticks other than at the one point a   *)
(* tick under way has reached.                                             *)
THEOREM TicksWhole == Spec => []TickWhole
<1>1. IInv => TickWhole BY DEF IInv
<1> QED BY <1>1, Invariant, PTL

(* After Pause() the loop begins at most the tick it had decided on.       *)
THEOREM PauseEffective == Spec => []PauseStopsLoop
<1>1. IInv => PauseStopsLoop BY DEF IInv, PauseInv, PauseStopsLoop
<1> QED BY <1>1, Invariant, PTL

-----------------------------------------------------------------------------
(* The steps that requests have still to run, as a set: its cardinality is *)
(* the sum of left, and a step leaves it one element smaller.              *)
Pending == {p \in Callers \X Nat : 1 <= p[2] /\ p[2] <= left[p[1]]}

(* A tick of a request that is under way, and not yet taken off left.      *)
UnderWay == IF \E c \in Callers : pc[c] = "ticking" THEN 1 ELSE 0

(* Ticks that were run and steps still to run are the loop's ticks and the *)
(* steps granted.                                                          *)
CountInv ==
  /\ \A c \in Callers : pc[c] = "idle" => left[c] = 0
  /\ IsFiniteSet(Pending)
  /\ tick + Cardinality(Pending) = loopTicks + granted + UnderWay

(* Nothing is granted at first.                                            *)
LEMMA InitCount == Init => CountInv
<1> SUFFICES ASSUME Init PROVE CountInv
  OBVIOUS
<1>1. Pending = {}
  BY DEF Init, Pending
<1>2. UnderWay = 0
  BY RunnerAssumption DEF Init, UnderWay, Threads
<1> QED BY <1>1, <1>2, FS_EmptySet DEF CountInv, Init

(* A request for n steps adds n to those pending.                          *)
LEMMA GrantedSteps ==
  ASSUME NEW c \in Callers, NEW n \in Nat, left \in [Callers -> Nat], left[c] = 0,
         left' = [left EXCEPT ![c] = n], IsFiniteSet(Pending)
  PROVE  IsFiniteSet(Pending') /\ Cardinality(Pending') = Cardinality(Pending) + n
<1> DEFINE New == {c} \X (1..n)
<1>1. Pending' = Pending \cup New
  BY DEF Pending
<1>2. Pending \cap New = {}
  BY DEF Pending
<1>3. IsFiniteSet({c}) /\ Cardinality({c}) = 1
  BY FS_Singleton
<1>4. IsFiniteSet(1..n) /\ Cardinality(1..n) = n
  BY FS_Interval
<1>5. IsFiniteSet(New) /\ Cardinality(New) = n
  <2>1. IsFiniteSet(New) /\ Cardinality(New) = Cardinality({c}) * Cardinality(1..n)
    BY <1>3, <1>4, FS_Product, Zenon
  <2> QED BY <1>3, <1>4, <2>1
<1>6. Cardinality(Pending) \in Nat /\ Cardinality({}) = 0
  BY FS_CardinalityType, FS_EmptySet
<1> QED BY <1>1, <1>2, <1>5, <1>6, FS_Union

(* The step that ends is the last of those pending of its request.         *)
LEMMA StepDone ==
  ASSUME NEW c \in Callers, left \in [Callers -> Nat], left[c] >= 1,
         left' = [left EXCEPT ![c] = left[c] - 1], IsFiniteSet(Pending)
  PROVE  IsFiniteSet(Pending') /\ Cardinality(Pending') = Cardinality(Pending) - 1
<1>1. Pending' = Pending \ {<<c, left[c]>>}
  BY DEF Pending
<1>2. <<c, left[c]>> \in Pending
  BY DEF Pending
<1> QED BY <1>1, <1>2, FS_RemoveElement

(* Every step keeps the count.                                             *)
LEMMA StepCount == IInv /\ CountInv /\ [Next]_vars => CountInv'
<1> SUFFICES ASSUME IInv, CountInv, [Next]_vars PROVE CountInv'
  OBVIOUS
<1> USE RunnerAssumption DEF Goto, Threads
<1>0. TypeOK /\ TicksExclude /\ Cardinality(Pending) \in Nat
  BY FS_CardinalityType DEF IInv, CountInv
<1>q. ASSUME UNCHANGED <<left, tick, granted, loopTicks>>, UnderWay' = UnderWay,
             \A c \in Callers : pc'[c] = "idle" => pc[c] = "idle"
      PROVE  CountInv'
  BY <1>q DEF CountInv, Pending
<1>p. ASSUME \A c \in Callers : pc'[c] = "ticking" <=> pc[c] = "ticking"
      PROVE  UnderWay' = UnderWay
  BY <1>p DEF UnderWay
<1>1. CASE Pause \/ Resume \/ Shutdown \/ UNCHANGED vars
  BY <1>1, <1>p, <1>q DEF Pause, Resume, Shutdown, vars
<1>2. ASSUME NEW c \in Callers, NEW n \in 0..MaxSteps, StepRequest(c, n) PROVE CountInv'
  <2>0. n \in Nat /\ left \in [Callers -> Nat] /\ left[c] = 0
        /\ left' = [left EXCEPT ![c] = n] /\ IsFiniteSet(Pending)
    BY <1>0, <1>2 DEF StepRequest, CountInv, TypeOK
  <2>1. IsFiniteSet(Pending') /\ Cardinality(Pending') = Cardinality(Pending) + n
    BY <2>0, GrantedSteps
  <2>2. UnderWay' = UnderWay
    BY <1>0, <1>2, <1>p DEF StepRequest, TypeOK
  <2>3. \A d \in Callers : pc'[d] = "idle" => left'[d] = 0
    BY <1>0, <1>2 DEF StepRequest, TypeOK, CountInv
  <2>4. tick' = tick /\ loopTicks' = loopTicks /\ granted' = granted + n
    BY <1>2 DEF StepRequest
  <2>5. tick \in Nat /\ loopTicks \in Nat /\ granted \in Nat /\ UnderWay \in Nat
    BY <1>0 DEF TypeOK, UnderWay
  <2> QED BY <1>0, <2>0, <2>1, <2>2, <2>3, <2>4, <2>5 DEF CountInv
<1>3. ASSUME NEW t \in Threads, Acquire(t) PROVE CountInv'
  BY <1>0, <1>3, <1>p, <1>q DEF Acquire, TypeOK
<1>4. ASSUME NEW t \in Threads, Advance(t) PROVE CountInv'
  <2>1. \A u \in Threads : pc[u] # "ticking"
    BY <1>0, <1>4 DEF Advance, TicksExclude, InLock
  <2>2. UnderWay = 0 /\ Pending' = Pending
    BY <1>4, <2>1 DEF Advance, UnderWay, Pending
  <2>3. UnderWay' = IF t = Loop THEN 0 ELSE 1
    BY <1>0, <1>4, <2>1 DEF Advance, UnderWay, TypeOK
  <2>4. \A c \in Callers : pc'[c] = "idle" => left'[c] = 0
    BY <1>0, <1>4 DEF Advance, TypeOK, CountInv
  <2> QED BY <1>0, <1>4, <2>2, <2>3, <2>4 DEF Advance, TypeOK, CountInv
<1>5. ASSUME NEW t \in Threads, TickComponent(t) PROVE CountInv'
  BY <1>5, <1>p, <1>q DEF TickComponent
<1>6. ASSUME NEW c \in Callers, CallerUnlock(c) PROVE CountInv'
  <2>1. left[c] \in Nat /\ left[c] >= 1
    BY <1>0, <1>6 DEF CallerUnlock, Unlock, StepInv, IInv, TypeOK
  <2>2. IsFiniteSet(Pending') /\ Cardinality(Pending') = Cardinality(Pending) - 1
    BY <1>0, <1>6, <2>1, StepDone DEF CallerUnlock, CountInv, TypeOK
  <2>3. UnderWay = 1
    BY <1>6 DEF CallerUnlock, Unlock, UnderWay
  <2>4. UnderWay' = 0
    BY <1>0, <1>6 DEF CallerUnlock, Unlock, UnderWay, TypeOK, TicksExclude, InLock
  <2>5. \A d \in Callers : pc'[d] = "idle" => left'[d] = 0
    BY <1>0, <1>6, <2>1 DEF CallerUnlock, Unlock, TypeOK, CountInv
  <2>6. tick' = tick /\ loopTicks' = loopTicks /\ granted' = granted
    BY <1>6 DEF CallerUnlock, Unlock
  <2>7. tick \in Nat /\ loopTicks \in Nat /\ granted \in Nat
    BY <1>0 DEF TypeOK
  <2> QED BY <1>0, <2>2, <2>3, <2>4, <2>5, <2>6, <2>7 DEF CountInv
<1>7. CASE LoopUnlock \/ LoopTop \/ LoopCheck \/ LoopWake \/ LoopCancelled
  BY <1>0, <1>7, <1>p, <1>q
     DEF LoopUnlock, Unlock, LoopTop, LoopCheck, LoopWake, LoopCancelled, LoopStep, TypeOK
<1> QED BY <1>1, <1>2, <1>3, <1>4, <1>5, <1>6, <1>7 DEF Next

(* With no request under way, the clock shows the loop's ticks and the     *)
(* steps granted: Step's loop loses and repeats none, whoever else ticks.  *)
THEOREM StepsRunOnce == Spec => []StepsAccounted
<1>1. IInv /\ CountInv => StepsAccounted
  <2> SUFFICES ASSUME IInv, CountInv, \A c \in Callers : pc[c] = "idle"
               PROVE  tick = loopTicks + granted
    BY DEF StepsAccounted
  <2>1. Pending = {} /\ UnderWay = 0
    BY DEF CountInv, Pending, UnderWay
  <2> QED BY <2>1, FS_EmptySet DEF CountInv, IInv, TypeOK
<1> QED BY <1>1, InitCount, StepCount, Invariant, PTL DEF Spec
=============================================================================
