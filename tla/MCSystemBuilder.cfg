SPECIFICATION Spec
CONSTANTS
  N = 4
  Names <- MCNames
  Units <- MCUnits
  Inputs <- MCInputs
  Blank = Blank
  a = a
  b = b
  x = x
  lb = lb
  psi = psi
INVARIANTS WritersFirst StableOrder FailsIfWrong
CHECK_DEADLOCK FALSE
