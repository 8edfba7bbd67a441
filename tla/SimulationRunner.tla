-------------------------- MODULE SimulationRunner --------------------------
(***************************************************************************)
(* The SimulationRunner of SkyNet.Simulator.Core: one background loop      *)
(* (RunRealTimeAsync) and any number of HTTP requests (POST pause, resume, *)
(* step of the daemon) drive one simulated system.  A tick advances the    *)
(* clock and then ticks every component, under the runner's step lock.     *)
(* Wall-clock pacing is the subject of RunnerPacing; here a delay takes    *)
(* any finite time.                                                        *)
(***************************************************************************)
EXTENDS Integers, FiniteSetsExt

CONSTANTS
  Callers,   \* concurrently outstanding POST .../step requests
  Loop,      \* the thread of RunRealTimeAsync
  NoThread,  \* the owner of a free lock
  K,         \* number of components of the system
  MaxSteps,  \* bound: largest n of a step request
  MaxTick    \* bound: ticks that are ever begun

ASSUME RunnerAssumption ==
  /\ Loop \notin Callers
  /\ NoThread \notin Callers \cup {Loop}
  /\ K \in Nat
  /\ MaxSteps \in Nat
  /\ MaxTick \in Nat

VARIABLES
  paused,     \* _paused
  cancelled,  \* cancellationToken.IsCancellationRequested
  tick,       \* _clock.Time.Tick
  written,    \* for each component, the tick its output signals belong to
  next,       \* the component SimSystem.Tick calls next
  lock,       \* owner of _stepLock
  pc,         \* where each thread is
  left,       \* iterations left in SimulationRunner.Step
  granted,    \* history: steps accepted from requests
  loopTicks,  \* history: ticks begun by the loop
  afterPause  \* history: ticks begun by the loop since the runner is paused

vars == <<paused, cancelled, tick, written, next, lock, pc, left,
          granted, loopTicks, afterPause>>

Threads == Callers \cup {Loop}
InLock == {"locked", "ticking"}

(* The daemon pauses each runner as soon as it has created it.             *)
CreatedPaused == paused = TRUE

Init ==
  /\ CreatedPaused
  /\ cancelled = FALSE
  /\ tick = 0
  /\ written = [i \in 1..K |-> 0]
  /\ next = 1
  /\ lock = NoThread
  /\ pc = [t \in Threads |-> IF t = Loop THEN "top" ELSE "idle"]
  /\ left = [c \in Callers |-> 0]
  /\ granted = 0
  /\ loopTicks = 0
  /\ afterPause = 0

Goto(t, label) == pc' = [pc EXCEPT ![t] = label]

-----------------------------------------------------------------------------
(* Requests.  Pause and resume are single volatile writes.                 *)

Pause ==
  /\ paused' = TRUE
  /\ UNCHANGED <<cancelled, tick, written, next, lock, pc, left,
                 granted, loopTicks, afterPause>>

Resume ==
  /\ paused' = FALSE
  /\ afterPause' = 0
  /\ UNCHANGED <<cancelled, tick, written, next, lock, pc, left,
                 granted, loopTicks>>

(* Ticks already promised to somebody: the bound MaxTick counts them.      *)
Promised ==
  MapThenSumSet(LAMBDA c : left[c], Callers)
    + (IF pc[Loop] \in {"want", "locked"} THEN 1 ELSE 0)

(* The endpoint reads IsPaused once, answers 409 when it is not set and    *)
(* 400 when n <= 0 (neither changes state), and else calls Step(n).        *)
StepRequest(c, n) ==
  /\ pc[c] = "idle"
  /\ paused
  /\ n > 0
  /\ tick + Promised + n <= MaxTick
  /\ left' = [left EXCEPT ![c] = n]
  /\ granted' = granted + n
  /\ Goto(c, "want")
  /\ UNCHANGED <<paused, cancelled, tick, written, next, lock,
                 loopTicks, afterPause>>

Shutdown ==
  /\ cancelled' = TRUE
  /\ UNCHANGED <<paused, tick, written, next, lock, pc, left,
                 granted, loopTicks, afterPause>>

-----------------------------------------------------------------------------
(* StepOnce: lock, advance the clock, tick the components, unlock.         *)

Acquire(t) ==
  /\ pc[t] = "want"
  /\ lock = NoThread
  /\ lock' = t
  /\ Goto(t, "locked")
  /\ UNCHANGED <<paused, cancelled, tick, written, next, left,
                 granted, loopTicks, afterPause>>

Advance(t) ==
  /\ pc[t] = "locked"
  /\ tick' = tick + 1
  /\ next' = 1
  /\ Goto(t, "ticking")
  /\ IF t = Loop
       THEN /\ loopTicks' = loopTicks + 1
            /\ afterPause' = IF paused THEN afterPause + 1 ELSE 0
       ELSE UNCHANGED <<loopTicks, afterPause>>
  /\ UNCHANGED <<paused, cancelled, written, lock, left, granted>>

TickComponent(t) ==
  /\ pc[t] = "ticking"
  /\ next <= K
  /\ written' = [written EXCEPT ![next] = tick]
  /\ next' = next + 1
  /\ UNCHANGED <<paused, cancelled, tick, lock, pc, left,
                 granted, loopTicks, afterPause>>

Unlock(t, label) ==
  /\ pc[t] = "ticking"
  /\ lock' = NoThread
  /\ Goto(t, label)
  /\ UNCHANGED <<paused, cancelled, tick, written, next,
                 granted, loopTicks, afterPause>>

(* Slip: Step gives up when the runner is resumed in between.              *)
CallerUnlockGivesUp(c) ==
  /\ next > K
  /\ left' = [left EXCEPT ![c] = IF paused THEN left[c] - 1 ELSE 0]
  /\ Unlock(c, IF paused /\ left[c] > 1 THEN "want" ELSE "idle")

(* The end of StepOnce in Step's for loop.                                 *)
CallerUnlock(c) ==
  /\ next > K
  /\ left' = [left EXCEPT ![c] = left[c] - 1]
  /\ Unlock(c, IF left[c] > 1 THEN "want" ELSE "idle")

(* Slip: the lock is given back before the components have ticked.         *)
LoopUnlockEarly ==
  /\ UNCHANGED left
  /\ \E label \in {"delay", "top"} : Unlock(Loop, label)

(* Slip: a late loop keeps ticking without another look at _paused.        *)
LoopUnlockBlind ==
  /\ next > K
  /\ UNCHANGED left
  /\ \E label \in {"delay", "want"} : Unlock(Loop, label)

(* The end of StepOnce in the loop: sleep, or go on at once when late.     *)
LoopUnlock ==
  /\ next > K
  /\ UNCHANGED left
  /\ \E label \in {"delay", "top"} : Unlock(Loop, label)

-----------------------------------------------------------------------------
(* The loop reads the token, then _paused, in two steps.                   *)

LoopStep(from, label) ==
  /\ pc[Loop] = from
  /\ Goto(Loop, label)
  /\ UNCHANGED <<paused, cancelled, tick, written, next, lock, left,
                 granted, loopTicks, afterPause>>

LoopTop == LoopStep("top", IF cancelled THEN "stopped" ELSE "check")

LoopCheck ==
  /\ ~paused => tick + Promised < MaxTick
  /\ LoopStep("check", IF paused THEN "delay" ELSE "want")

(* Either Task.Delay of the loop ends, or is cancelled and the loop ends.  *)
LoopWake == LoopStep("delay", "top")

LoopCancelled ==
  /\ cancelled
  /\ LoopStep("delay", "stopped")

Next ==
  \/ Pause \/ Resume \/ Shutdown
  \/ \E c \in Callers : \E n \in 0..MaxSteps : StepRequest(c, n)
  \/ \E t \in Threads : Acquire(t) \/ Advance(t) \/ TickComponent(t)
  \/ \E c \in Callers : CallerUnlock(c)
  \/ LoopUnlock \/ LoopTop \/ LoopCheck \/ LoopWake \/ LoopCancelled

Spec == Init /\ [][Next]_vars

-----------------------------------------------------------------------------
(* Every variable stays in its domain.                                     *)
TypeOK ==
  /\ paused \in BOOLEAN
  /\ cancelled \in BOOLEAN
  /\ tick \in Nat
  /\ written \in [1..K -> Nat]
  /\ next \in 1..(K + 1)
  /\ lock \in Threads \cup {NoThread}
  /\ pc \in [Threads -> {"idle", "want", "locked", "ticking",
                         "top", "check", "delay", "stopped"}]
  /\ left \in [Callers -> Nat]
  /\ granted \in Nat
  /\ loopTicks \in Nat
  /\ afterPause \in Nat

(* Ticks never overlap: the thread inside StepOnce is the lock's owner.    *)
TicksExclude == \A t \in Threads : pc[t] \in InLock <=> lock = t

(* No torn tick: outside a tick every component's outputs are those of the *)
(* clock's tick; inside one, the components are split at one point between *)
(* this tick and the one before, although any thread may run any tick.     *)
TickWhole ==
  \A i \in 1..K :
    written[i] = IF /\ \E t \in Threads : pc[t] = "ticking"
                    /\ i >= next
                   THEN tick - 1 ELSE tick

(* Pause() does not stop a tick the loop has already decided on, but the   *)
(* loop begins at most one tick after the runner is paused.                *)
PauseStopsLoop == paused => afterPause <= 1

(* No step is lost or run twice: with no request under way the clock shows *)
(* the loop's own ticks and exactly the steps the requests were granted.   *)
StepsAccounted ==
  (\A c \in Callers : pc[c] = "idle") => tick = loopTicks + granted
=============================================================================
