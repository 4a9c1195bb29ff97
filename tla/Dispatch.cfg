SPECIFICATION Spec
CHECK_DEADLOCK FALSE
CONSTANTS
  Job = {first, second}
  Landable = {first}
  WriteSets = {{place}}
  Run = {0}
  Branch = {b, c}
  Land = {l, m}
  Other = {o}
  UnsignedLease = 1
  Lifetimes = {1}
  MaxTime = 1
INVARIANTS OneWriter Landed
SYMMETRY Same
