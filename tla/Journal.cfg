SPECIFICATION Spec
CHECK_DEADLOCK FALSE
CONSTANTS
  Proc = {p, q}
  r = r
  s = s
  Run = {r, s}
  Effect <- TwoRuns
  Digest = {d, f}
  Risk = {0, 1, 2}
  Cooling = 1
  Confirm = 2
  Tries = 2
  MaxFence = 1
  MaxMoves = 1
  MaxCalls = 3
INVARIANTS AtMostOnce UndecidedNeverRan
PROPERTIES AuthorizedNow
SYMMETRY Same
