SPECIFICATION LogFairSpec
CONSTANTS
  Sims = {A, B}
  Default = A
  Blank = blank
  Writers = {w1, w2}
  Timer = timer
  Buttons = {button}
  MaxEntries = 2
  Take = 2
  PageMax = 2
  MaxAdds = 3
  MaxChoices = 1
INVARIANTS QueueBounded PageInOrder PassedWasSeen
PROPERTY PageCatchesUp
