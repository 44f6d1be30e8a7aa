CONSTANTS
  user = user
  ip = ip
  None = None
  Keys <- MCKeys
  WindowMs <- MCWindow
  Max <- MCMax
  SweepEvery = 2
  MaxTime = 7
SPECIFICATION Spec
INVARIANTS
  TypeOK
  TwiceMaxPerWindow
  RefusedAtLimit
  MapSwept
