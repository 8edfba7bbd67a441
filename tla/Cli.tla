-------------------------------- MODULE Cli --------------------------------
(***************************************************************************)
(* The console program: one thread that reads a command, carries it out    *)
(* and reads the next, with the pacing loop of RunnerPacing as its task.   *)
(* The loop runs on the console's own thread until its first real wait;    *)
(* from then on it is another thread's.                                    *)
(***************************************************************************)
EXTENDS RunnerPacing

CONSTANTS
  MaxStarts,  \* bound: loops started
  MaxSteps    \* bound: ticks of a step command

ASSUME CliAssumption == MaxStarts \in Nat /\ MaxSteps \in Nat \ {0}

VARIABLES
  console,  \* what the console's thread is doing
  runTask,  \* runTask is not null
  runCts,   \* runCts is not null
  left,     \* ticks that runner.Step has yet to make
  starts    \* loops started

cliVars == <<console, runTask, runCts, left, starts>>
allVars == <<vars, cliVars>>

CliInit ==
  /\ Init
  /\ console = "prompt"
  /\ runTask = FALSE
  /\ runCts = FALSE
  /\ left = 0
  /\ starts = 0

(* runTask is not null && !runTask.IsCompleted                             *)
Running == runTask /\ phase # "stopped"

(* Slip: start looks at nothing.                                           *)
StartBlindly ==
  /\ console = "prompt"
  /\ starts < MaxStarts
  /\ runCts' = TRUE
  /\ RunRealTimeAsync
  /\ console' = "loop"
  /\ starts' = starts + 1
  /\ UNCHANGED <<runTask, left>>

(* The console's thread goes into the loop, as far as its first wait.      *)
Start ==
  /\ console = "prompt"
  /\ ~Running
  /\ starts < MaxStarts
  /\ runCts' = TRUE
  /\ RunRealTimeAsync
  /\ console' = "loop"
  /\ starts' = starts + 1
  /\ UNCHANGED <<runTask, left>>

(* Slip: start awaits the loop instead of keeping its task.                *)
LoopWaitsForGood ==
  /\ Waits
  /\ UNCHANGED cliVars

(* The loop waits: its call returns the task to the console that made it,  *)
(* or lets go of the thread it was resumed on.                             *)
LoopWaits ==
  /\ Waits
  /\ console' = IF console = "loop" THEN "prompt" ELSE console
  /\ runTask' = (runTask \/ console = "loop")
  /\ UNCHANGED <<runCts, left, starts>>

LoopGoesOn == GoesOn /\ UNCHANGED cliVars

(* Slip: stop waits for a loop that it has not told to return.             *)
StopInVain ==
  /\ console = "prompt"
  /\ runCts
  /\ console' = "stopping"
  /\ UNCHANGED <<vars, runTask, runCts, left, starts>>

Stop ==
  /\ console = "prompt"
  /\ runCts
  /\ Cancel
  /\ console' = "stopping"
  /\ UNCHANGED <<runTask, runCts, left, starts>>

Stopped ==
  /\ console = "stopping"
  /\ phase = "stopped"
  /\ console' = "prompt"
  /\ runCts' = FALSE
  /\ runTask' = FALSE
  /\ UNCHANGED <<vars, left, starts>>

(* Slip: step takes any task for a finished one.                           *)
StepBlindly(n) ==
  /\ console = "prompt"
  /\ left' = n
  /\ console' = "stepping"
  /\ UNCHANGED <<vars, runTask, runCts, starts>>

Step(n) ==
  /\ console = "prompt"
  /\ ~Running
  /\ left' = n
  /\ console' = "stepping"
  /\ UNCHANGED <<vars, runTask, runCts, starts>>

(* One StepOnce() of runner.Step(n).                                       *)
StepOnce ==
  /\ console = "stepping"
  /\ left' = left - 1
  /\ console' = IF left = 1 THEN "prompt" ELSE "stepping"
  /\ UNCHANGED <<vars, runTask, runCts, starts>>

PauseCommand == console = "prompt" /\ Pause /\ UNCHANGED cliVars

ResumeCommand == console = "prompt" /\ Resume /\ UNCHANGED cliVars

(* quit, exit or Ctrl+C: the loop is cancelled and waited for, if there is *)
(* one.                                                                    *)
Quit ==
  /\ console = "prompt"
  /\ console' = IF runCts THEN "quitting" ELSE "done"
  /\ IF runCts THEN Cancel ELSE UNCHANGED vars
  /\ UNCHANGED <<runTask, runCts, left, starts>>

Done ==
  /\ console = "quitting"
  /\ phase = "stopped"
  /\ console' = "done"
  /\ UNCHANGED <<vars, runTask, runCts, left, starts>>

TimePasses == Elapse /\ UNCHANGED cliVars

Command ==
  \/ Start \/ Stop \/ PauseCommand \/ ResumeCommand \/ Quit
  \/ \E n \in 1..MaxSteps : Step(n)

CliNext ==
  \/ Command \/ Stopped \/ Done \/ StepOnce
  \/ LoopWaits \/ LoopGoesOn \/ TimePasses

(* The scheduler runs the threads that can run.  The user need not type,   *)
(* and how far time passes while they run is not known.                    *)
Fairness ==
  /\ WF_allVars(LoopWaits \/ LoopGoesOn)
  /\ WF_allVars(Stopped \/ Done)
  /\ WF_allVars(StepOnce)

CliSpec == CliInit /\ [][CliNext]_allVars /\ Fairness

-----------------------------------------------------------------------------
(* While the console steps the simulation, and when the program ends, no   *)
(* loop is under way: the ticks of a step command are its own.             *)
StepsAlone == console \in {"stepping", "done"} => phase = "stopped"

(* start gives the prompt back after at most one tick, unless the machine  *)
(* is slow; then the console waits for as long as the loop is behind.      *)
StartIsPrompt == console = "loop" /\ ~slow => ticks <= 1

(* The commands use the runner as its loop expects to be used: it is run   *)
(* again only after it has returned.                                       *)
ImplementsPacing == Spec

(* A loop that is told to stop does, paused, delayed or late, and the      *)
(* command that waits for it ends.                                         *)
StopReturns ==
  console \in {"stopping", "quitting"} ~> console \in {"prompt", "done"}
=============================================================================
