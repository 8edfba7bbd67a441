---------------------------- MODULE RunnerPacing ----------------------------
(***************************************************************************)
(* The wall-clock pacing of SimulationRunner.RunRealTimeAsync: the loop    *)
(* keeps the time its next tick is due (nextTickAt), sleeps until then, or *)
(* counts a late tick and goes on at once.  Time is a number of clock      *)
(* units; it may pass between any two statements.  The runner may be run   *)
(* again after the loop has returned: it must not be while it has not.     *)
(***************************************************************************)
EXTENDS Integers

CONSTANTS
  StepLength,  \* _clock.StepSeconds, in clock units
  Milli,       \* clock units in a millisecond, the grain of Task.Delay
  PausePoll,   \* the 25 ms delay of a paused loop, in clock units
  MaxNow       \* bound: the time the stopwatch reaches

ASSUME PacingAssumption ==
  /\ StepLength \in Nat \ {0}
  /\ Milli \in Nat \ {0}
  /\ PausePoll \in Nat
  /\ MaxNow \in Nat

VARIABLES
  now,         \* stopwatch.Elapsed of the loop
  paused,      \* _paused
  cancelled,   \* cancellationToken.IsCancellationRequested
  phase,       \* where the loop is; "stopped" when there is none
  wakeAt,      \* when the delay under way ends
  nextTickAt,  \* nextTickAt
  ticks,       \* ticks of the loop
  lateTicks,   \* _lateTicks
  maxBehind,   \* _maxBehindSeconds
  slow,        \* history: the machine was late to run a loop
  everPaused   \* history: the runner has been paused

vars == <<now, paused, cancelled, phase, wakeAt, nextTickAt, ticks, lateTicks,
          maxBehind, slow, everPaused>>
counts == <<ticks, lateTicks, maxBehind>>
history == <<slow, everPaused>>

Init ==
  /\ now = 0
  /\ paused = FALSE
  /\ cancelled = FALSE
  /\ phase = "stopped"
  /\ wakeAt = 0
  /\ nextTickAt = 0
  /\ ticks = 0
  /\ lateTicks = 0
  /\ maxBehind = 0
  /\ slow = FALSE
  /\ everPaused = FALSE

(* A call of RunRealTimeAsync: a new stopwatch and schedule, and a token.  *)
RunRealTimeAsync ==
  /\ now' = 0
  /\ nextTickAt' = 0
  /\ ticks' = 0
  /\ wakeAt' = 0
  /\ cancelled' = FALSE
  /\ phase' = "top"
  /\ UNCHANGED <<paused, lateTicks, maxBehind, history>>

Run ==
  /\ phase = "stopped"
  /\ RunRealTimeAsync

(* Time passes; the machine is slow when the loop had something to do.     *)
Elapse ==
  /\ phase # "stopped"
  /\ now < MaxNow
  /\ now' = now + 1
  /\ slow' = (slow \/ phase # "delay" \/ now >= wakeAt)
  /\ UNCHANGED <<paused, cancelled, phase, wakeAt, nextTickAt, counts, everPaused>>

Pause ==
  /\ paused' = TRUE
  /\ everPaused' = TRUE
  /\ UNCHANGED <<now, cancelled, phase, wakeAt, nextTickAt, counts, slow>>

Resume ==
  /\ paused' = FALSE
  /\ UNCHANGED <<now, cancelled, phase, wakeAt, nextTickAt, counts, history>>

Cancel ==
  /\ cancelled' = TRUE
  /\ UNCHANGED <<now, paused, phase, wakeAt, nextTickAt, counts, history>>

Goto(next) ==
  /\ phase' = next
  /\ UNCHANGED <<now, paused, cancelled, nextTickAt, counts, history>>

Top ==
  /\ phase = "top"
  /\ Goto(IF cancelled THEN "stopped" ELSE "check")
  /\ UNCHANGED wakeAt

PauseDelay ==
  /\ phase = "check"
  /\ paused
  /\ wakeAt' = now + PausePoll
  /\ Goto("delay")

(* StepOnce(), then the schedule moves on by one step.                     *)
Tick ==
  /\ phase = "check"
  /\ ~paused
  /\ ticks' = ticks + 1
  /\ nextTickAt' = nextTickAt + StepLength
  /\ phase' = "ticked"
  /\ UNCHANGED <<now, paused, cancelled, wakeAt, lateTicks, maxBehind, history>>

(* Slip: the delay is computed before the schedule has moved on.           *)
PaceEarly ==
  /\ phase = "ticked"
  /\ nextTickAt > now
  /\ wakeAt' = nextTickAt - StepLength
  /\ Goto("delay")

(* Task.Delay cuts the delay to whole milliseconds.                        *)
Cut(delay) == (delay \div Milli) * Milli

Pace ==
  /\ phase = "ticked"
  /\ nextTickAt > now
  /\ Cut(nextTickAt - now) > 0
  /\ wakeAt' = now + Cut(nextTickAt - now)
  /\ Goto("delay")

(* A delay of less than a millisecond is over at once, without a wait.     *)
PaceAtOnce ==
  /\ phase = "ticked"
  /\ nextTickAt > now
  /\ Cut(nextTickAt - now) = 0
  /\ Goto(IF cancelled THEN "stopped" ELSE "top")
  /\ UNCHANGED wakeAt

Late(behind) ==
  /\ phase = "ticked"
  /\ lateTicks' = lateTicks + 1
  /\ maxBehind' = IF behind > maxBehind THEN behind ELSE maxBehind
  /\ phase' = "top"
  /\ UNCHANGED <<now, paused, cancelled, wakeAt, nextTickAt, ticks, history>>

(* Slip: the loop compares with the time the tick before was due.          *)
GoOnLateStale ==
  /\ nextTickAt - StepLength <= now
  /\ Late(now - (nextTickAt - StepLength))

GoOnLate ==
  /\ nextTickAt <= now
  /\ Late(now - nextTickAt)

Wake ==
  /\ phase = "delay"
  /\ now >= wakeAt
  /\ Goto("top")
  /\ UNCHANGED wakeAt

(* A cancelled delay throws, and the loop returns.                         *)
DelayCancelled ==
  /\ phase = "delay"
  /\ cancelled
  /\ Goto("stopped")
  /\ UNCHANGED wakeAt

Waits == PauseDelay \/ Pace
GoesOn == Tick \/ PaceAtOnce \/ GoOnLate \/ Wake \/ DelayCancelled \/ Top

Next == Run \/ Elapse \/ Pause \/ Resume \/ Cancel \/ Waits \/ GoesOn

Spec == Init /\ [][Next]_vars

-----------------------------------------------------------------------------
TypeOK ==
  /\ now \in Nat
  /\ paused \in BOOLEAN
  /\ cancelled \in BOOLEAN
  /\ phase \in {"top", "check", "delay", "ticked", "stopped"}
  /\ wakeAt \in Nat
  /\ nextTickAt \in Nat
  /\ ticks \in Nat
  /\ lateTicks \in Nat
  /\ maxBehind \in Nat
  /\ slow \in BOOLEAN
  /\ everPaused \in BOOLEAN

(* However late the loop was and however it was paused, the simulation     *)
(* never runs ahead of the wall clock by as much as a step and a grain.    *)
NeverAhead == ticks * StepLength < now + StepLength + Milli

(* Lateness is the machine's or the pause's: a loop that is run promptly   *)
(* and never paused has no late tick (a step is longer than the grain).    *)
PromptIsOnTime == ~slow /\ ~everPaused => lateTicks = 0
=============================================================================
