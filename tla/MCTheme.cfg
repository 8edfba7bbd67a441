SPECIFICATION ThemeSpec
CONSTANTS
  T1 = T1
  T2 = T2
  Tabs = {T1, T2}
  MaxPending = 2
SYMMETRY Symmetry
INVARIANTS ButtonAgrees ReloadKeepsChoice
PROPERTY ClickFlips
