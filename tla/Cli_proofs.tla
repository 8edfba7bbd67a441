----------------------------- MODULE Cli_proofs -----------------------------
(***************************************************************************)
(* The pacing of a loop for every step length and delay grain, and the     *)
(* console's use of it: its runs are runs of the pacing specification, and *)
(* so what is proved of that holds of them.                                *)
(***************************************************************************)
EXTENDS Cli, TLAPS

(* The schedule is the number of ticks, and how far it can be ahead of the *)
(* clock depends on where the loop is.                                     *)
AheadInv ==
  /\ nextTickAt = ticks * StepLength
  /\ phase \in {"top", "check"} => nextTickAt < now + Milli
  /\ phase = "delay" => nextTickAt < now + Milli \/ nextTickAt < wakeAt + Milli
  /\ nextTickAt < now + StepLength + Milli

(* A prompt loop of a runner that was never paused is not behind its       *)
(* schedule.                                                               *)
PromptInv ==
  /\ paused => everPaused
  /\ ~slow /\ ~everPaused =>
       /\ lateTicks = 0
       /\ phase \in {"top", "check"} => now <= nextTickAt
       /\ phase = "delay" => now <= wakeAt /\ wakeAt <= nextTickAt
       /\ phase = "ticked" => now < nextTickAt

IInv == TypeOK /\ AheadInv /\ PromptInv

(* Cutting a delay to whole milliseconds loses less than one of them.      *)
LEMMA CutLoses ==
  ASSUME NEW d \in Nat
  PROVE  Cut(d) \in Nat /\ Cut(d) <= d /\ d < Cut(d) + Milli
<1> DEFINE q == d \div Milli
           r == d % Milli
<1>1. q \in Nat /\ r \in Nat /\ r < Milli
  BY PacingAssumption
<1>2. d = Milli * q + r
  BY PacingAssumption
<1>3. q * Milli = Milli * q /\ Milli * q \in Nat
  BY <1>1, PacingAssumption
<1> QED BY <1>1, <1>2, <1>3, PacingAssumption DEF Cut

(* A runner without a loop is in the invariant.                            *)
LEMMA InitIInv == Init => IInv
<1> SUFFICES ASSUME Init PROVE IInv
  OBVIOUS
<1> USE PacingAssumption DEF Init
<1>1. TypeOK
  BY DEF TypeOK
<1>2. 0 * StepLength = 0
  OBVIOUS
<1>3. AheadInv
  BY <1>2 DEF AheadInv
<1>4. PromptInv
  BY DEF PromptInv
<1> QED BY <1>1, <1>3, <1>4 DEF IInv

(* Every step keeps it.                                                    *)
LEMMA StepIInv == IInv /\ [Next]_vars => IInv'
<1> SUFFICES ASSUME IInv, [Next]_vars PROVE IInv'
  OBVIOUS
<1> USE PacingAssumption DEF IInv, TypeOK, counts, history
<1>1. CASE Run
  <2> USE <1>1 DEF Run, RunRealTimeAsync
  <2>1. TypeOK' OBVIOUS
  <2>2. ticks' * StepLength = 0
    OBVIOUS
  <2>3. AheadInv' BY <2>2 DEF AheadInv
  <2>4. PromptInv' BY DEF PromptInv
  <2> QED BY <2>1, <2>3, <2>4
<1>2. CASE Elapse
  <2> USE <1>2 DEF Elapse
  <2>1. TypeOK' OBVIOUS
  <2>2. AheadInv' BY DEF AheadInv
  <2>3. ~slow' => ~slow /\ phase = "delay" /\ ~(now >= wakeAt)
    BY Zenon
  <2>4. everPaused' = everPaused /\ paused' = paused
    OBVIOUS
  <2>5. ASSUME ~slow', ~everPaused' PROVE now' <= wakeAt' /\ wakeAt' <= nextTickAt'
    BY <2>3, <2>4, <2>5 DEF PromptInv
  <2>6. PromptInv'
    BY <2>3, <2>4, <2>5 DEF PromptInv
  <2> QED BY <2>1, <2>2, <2>6
<1>3. CASE Pause BY <1>3 DEF Pause, AheadInv, PromptInv
<1>4. CASE Resume BY <1>4 DEF Resume, AheadInv, PromptInv
<1>5. CASE Cancel BY <1>5 DEF Cancel, AheadInv, PromptInv
<1>6. CASE PauseDelay
  <2> USE <1>6 DEF PauseDelay, Goto
  <2>1. TypeOK' OBVIOUS
  <2>2. AheadInv' BY DEF AheadInv
  <2>3. PromptInv' BY DEF PromptInv
  <2> QED BY <2>1, <2>2, <2>3
<1>7. CASE Pace \/ PaceAtOnce
  <2>1. nextTickAt - now \in Nat
    BY <1>7 DEF Pace, PaceAtOnce
  <2>2. /\ Cut(nextTickAt - now) \in Nat
        /\ Cut(nextTickAt - now) <= nextTickAt - now
        /\ nextTickAt - now < Cut(nextTickAt - now) + Milli
    BY <2>1, CutLoses
  <2> QED BY <1>7, <2>2 DEF Pace, PaceAtOnce, Goto, AheadInv, PromptInv
<1>8. CASE Tick
  <2>1. (ticks + 1) * StepLength = ticks * StepLength + StepLength
    OBVIOUS
  <2> QED BY <1>8, <2>1 DEF Tick, AheadInv, PromptInv
<1>9. CASE GoOnLate BY <1>9 DEF GoOnLate, Late, AheadInv, PromptInv
<1>10. CASE Wake BY <1>10 DEF Wake, Goto, AheadInv, PromptInv
<1>11. CASE DelayCancelled BY <1>11 DEF DelayCancelled, Goto, AheadInv, PromptInv
<1>12. CASE Top BY <1>12 DEF Top, Goto, AheadInv, PromptInv
<1>13. CASE UNCHANGED vars BY <1>13 DEF vars, AheadInv, PromptInv
<1> QED
  BY <1>1, <1>2, <1>3, <1>4, <1>5, <1>6, <1>7, <1>8, <1>9, <1>10, <1>11,
     <1>12, <1>13 DEF Next, Waits, GoesOn

(* The invariant holds of every use of the runner.                         *)
THEOREM Invariant == Spec => []IInv
BY InitIInv, StepIInv, PTL DEF Spec

(* Simulated time never leads the wall clock by a step and a grain.        *)
THEOREM NeverAheadOfClock == Spec => []NeverAhead
<1>1. IInv => NeverAhead
  BY PacingAssumption DEF IInv, TypeOK, AheadInv, NeverAhead
<1> QED BY <1>1, Invariant, PTL

(* A late tick needs a slow machine or a pause.                            *)
THEOREM PromptLoopOnTime == Spec => []PromptIsOnTime
<1>1. IInv => PromptIsOnTime
  BY DEF IInv, PromptInv, PromptIsOnTime
<1> QED BY <1>1, Invariant, PTL

-----------------------------------------------------------------------------
(* Where there is a loop, the console has its token, and its task or is in *)
(* it; in it, no wait and no cancellation has come yet.                    *)
ConsoleInv ==
  /\ runTask \in BOOLEAN
  /\ phase # "stopped" => runCts /\ (runTask \/ console = "loop")
  /\ console = "loop" => ~cancelled /\ phase \in {"top", "check", "ticked"}
  /\ console \in {"stepping", "done"} => phase = "stopped"

LEMMA ConsoleInit == CliInit => ConsoleInv
BY DEF CliInit, Init, ConsoleInv

(* A command that begins at the prompt while nothing is running finds no   *)
(* loop.                                                                   *)
LEMMA NotRunning ==
  ASSUME ConsoleInv, console = "prompt", ~Running
  PROVE  phase = "stopped"
BY DEF ConsoleInv, Running

LEMMA ConsoleStep == ConsoleInv /\ [CliNext]_allVars => ConsoleInv'
<1> SUFFICES ASSUME ConsoleInv, [CliNext]_allVars PROVE ConsoleInv'
  OBVIOUS
<1> USE DEF ConsoleInv, cliVars
<1>1. CASE Start BY <1>1 DEF Start, RunRealTimeAsync
<1>2. CASE Stop BY <1>2 DEF Stop, Cancel
<1>3. CASE PauseCommand BY <1>3 DEF PauseCommand, Pause
<1>4. CASE ResumeCommand BY <1>4 DEF ResumeCommand, Resume
<1>5. CASE Quit
  <2>1. phase' = phase
    BY <1>5 DEF Quit, Cancel, vars
  <2>2. CASE runCts BY <1>5, <2>1, <2>2 DEF Quit, Cancel
  <2>3. CASE ~runCts BY <1>5, <2>1, <2>3 DEF Quit
  <2> QED BY <2>2, <2>3
<1>6. ASSUME NEW n \in 1..MaxSteps, Step(n) PROVE ConsoleInv'
  BY <1>6, NotRunning DEF Step, vars
<1>7. CASE Stopped BY <1>7 DEF Stopped, vars
<1>8. CASE Done BY <1>8 DEF Done, vars
<1>9. CASE StepOnce BY <1>9 DEF StepOnce, vars
<1>10. CASE LoopWaits BY <1>10 DEF LoopWaits, Waits, PauseDelay, Pace, Goto
<1>11. CASE LoopGoesOn
  <2> USE <1>11 DEF LoopGoesOn
  <2>1. phase # "stopped"
    BY DEF GoesOn, Tick, PaceAtOnce, GoOnLate, Late, Wake, DelayCancelled, Top
  <2>2. cancelled' = cancelled
    BY DEF GoesOn, Tick, PaceAtOnce, GoOnLate, Late, Wake, DelayCancelled, Top, Goto
  <2>3. console = "loop" => phase' \in {"top", "check", "ticked"}
    BY DEF GoesOn, Tick, PaceAtOnce, GoOnLate, Late, Wake, DelayCancelled, Top, Goto
  <2> QED BY <2>1, <2>2, <2>3
<1>12. CASE TimePasses BY <1>12 DEF TimePasses, Elapse
<1>13. CASE UNCHANGED allVars BY <1>13 DEF allVars, vars
<1> QED
  BY <1>1, <1>2, <1>3, <1>4, <1>5, <1>6, <1>7, <1>8, <1>9, <1>10, <1>11,
     <1>12, <1>13 DEF CliNext, Command

THEOREM ConsoleInvariant == CliSpec => []ConsoleInv
BY ConsoleInit, ConsoleStep, PTL DEF CliSpec

(* Neither a step command nor the end of the program meets a loop.         *)
THEOREM StepsAreAlone == CliSpec => []StepsAlone
<1>1. ConsoleInv => StepsAlone
  BY DEF ConsoleInv, StepsAlone
<1> QED BY <1>1, ConsoleInvariant, PTL

(* Every step of the program is a step of the runner, or leaves it alone.  *)
LEMMA StepPacing == ConsoleInv /\ [CliNext]_allVars => [Next]_vars
<1> SUFFICES ASSUME ConsoleInv, [CliNext]_allVars PROVE [Next]_vars
  OBVIOUS
<1>1. CASE Start BY <1>1, NotRunning DEF Start, Run, Next
<1>2. CASE Stop BY <1>2 DEF Stop, Next
<1>3. CASE PauseCommand BY <1>3 DEF PauseCommand, Next
<1>4. CASE ResumeCommand BY <1>4 DEF ResumeCommand, Next
<1>5. CASE Quit BY <1>5 DEF Quit, Next
<1>6. ASSUME NEW n \in 1..MaxSteps, Step(n) PROVE [Next]_vars
  BY <1>6 DEF Step
<1>7. CASE Stopped \/ Done \/ StepOnce BY <1>7 DEF Stopped, Done, StepOnce
<1>8. CASE LoopWaits BY <1>8 DEF LoopWaits, Next
<1>9. CASE LoopGoesOn BY <1>9 DEF LoopGoesOn, Next
<1>10. CASE TimePasses BY <1>10 DEF TimePasses, Next
<1>11. CASE UNCHANGED allVars BY <1>11 DEF allVars
<1> QED
  BY <1>1, <1>2, <1>3, <1>4, <1>5, <1>6, <1>7, <1>8, <1>9, <1>10, <1>11
  DEF CliNext, Command

(* Whatever is typed, the loop is run again only after it has returned.    *)
THEOREM CommandsImplementPacing == CliSpec => ImplementsPacing
<1>1. CliInit => Init
  BY DEF CliInit
<1> QED BY <1>1, StepPacing, ConsoleInvariant, PTL DEF CliSpec, Spec, ImplementsPacing

-----------------------------------------------------------------------------
(* A prompt loop that the console is in has made its first tick at most.   *)
PromptConsole ==
  console = "loop" /\ ~slow =>
    /\ now = 0
    /\ \/ phase \in {"top", "check"} /\ ticks = 0
       \/ phase = "ticked" /\ ticks = 1

LEMMA PromptConsoleStep ==
  ASSUME Milli <= StepLength, IInv, ConsoleInv, PromptConsole, [CliNext]_allVars
  PROVE  PromptConsole'
<1> USE PacingAssumption DEF PromptConsole, TypeOK
<1>0. TypeOK /\ nextTickAt = ticks * StepLength
  BY DEF IInv, AheadInv
<1>1. CASE Start BY <1>1 DEF Start, RunRealTimeAsync
<1>2. CASE Stop BY <1>2 DEF Stop
<1>3. CASE PauseCommand BY <1>3 DEF PauseCommand, cliVars
<1>4. CASE ResumeCommand BY <1>4 DEF ResumeCommand, cliVars
<1>5. CASE Quit BY <1>5 DEF Quit
<1>6. ASSUME NEW n \in 1..MaxSteps, Step(n) PROVE PromptConsole'
  BY <1>6 DEF Step
<1>7. CASE Stopped \/ Done \/ StepOnce BY <1>7 DEF Stopped, Done, StepOnce
<1>8. CASE LoopWaits BY <1>8 DEF LoopWaits
<1>9. CASE LoopGoesOn
  <2> SUFFICES ASSUME console' = "loop", ~slow' PROVE PromptConsole'
    BY DEF PromptConsole
  <2>1. console = "loop" /\ ~slow /\ now' = now
    BY <1>9 DEF LoopGoesOn, GoesOn, cliVars, history, Tick, PaceAtOnce, GoOnLate,
                Late, Wake, DelayCancelled, Top, Goto
  <2>2. ~cancelled /\ phase \in {"top", "check", "ticked"}
    BY <2>1 DEF ConsoleInv
  <2>3. CASE Top BY <2>1, <2>2, <2>3 DEF Top, Goto, counts
  <2>4. CASE Tick BY <2>1, <2>4 DEF Tick
  <2>5. ~GoOnLate /\ ~PaceAtOnce
    <3> SUFFICES ASSUME phase = "ticked", nextTickAt <= now \/ Cut(nextTickAt - now) = 0
                 PROVE  FALSE
      BY DEF GoOnLate, Late, PaceAtOnce
    <3>1. now = 0 /\ ticks = 1
      BY <2>1
    <3>2. nextTickAt = StepLength
      BY <1>0, <3>1
    <3>3. StepLength < Cut(StepLength) + Milli
      BY CutLoses
    <3>4. nextTickAt - now = StepLength
      BY <3>1, <3>2
    <3> QED BY <3>1, <3>2, <3>3, <3>4
  <2> QED BY <1>9, <2>2, <2>3, <2>4, <2>5 DEF LoopGoesOn, GoesOn, Wake, DelayCancelled
<1>10. CASE TimePasses BY <1>10 DEF TimePasses, Elapse, ConsoleInv, cliVars
<1>11. CASE UNCHANGED allVars BY <1>11 DEF allVars, vars, cliVars
<1> QED
  BY <1>1, <1>2, <1>3, <1>4, <1>5, <1>6, <1>7, <1>8, <1>9, <1>10, <1>11
  DEF CliNext, Command

(* On a prompt machine start gives the prompt back after its first tick,   *)
(* or its first pause delay.                                               *)
THEOREM PromptReturns ==
  ASSUME Milli <= StepLength
  PROVE  CliSpec => []StartIsPrompt
<1>1. CliInit => PromptConsole
  BY DEF CliInit, PromptConsole
<1>2. PromptConsole => StartIsPrompt
  BY DEF PromptConsole, StartIsPrompt
<1>3. CliSpec => []IInv
  BY CommandsImplementPacing, Invariant, PTL DEF ImplementsPacing
<1>4. IInv /\ ConsoleInv /\ PromptConsole /\ [CliNext]_allVars => PromptConsole'
  BY PromptConsoleStep
<1> QED BY <1>1, <1>2, <1>3, <1>4, ConsoleInvariant, PTL DEF CliSpec
=============================================================================
