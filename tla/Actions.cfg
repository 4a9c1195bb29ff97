SPECIFICATION Spec
CONSTANTS
  Server = {s, t}
  Key = {k, l}
  Inline = {c}
  Job = {j}
  Window = 1
  Lease = 0
  ResultTTL = 1
  MaxConcurrent = 1
  MaxRequest = 2
  MaxTime = 2
  MaxDeaths = 1
CHECK_DEADLOCK FALSE
INVARIANTS AtMostOnce ReplayResolvable StatusStays
PROPERTIES FaultedForever
SYMMETRY Same
