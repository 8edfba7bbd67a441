SPECIFICATION CliSpec
CONSTANTS
  StepLength = 5
  Milli = 2
  PausePoll = 7
  MaxNow = 16
  MaxStarts = 2
  MaxSteps = 2
INVARIANTS NeverAhead PromptIsOnTime StepsAlone StartIsPrompt
PROPERTIES ImplementsPacing StopReturns
CHECK_DEADLOCK FALSE
