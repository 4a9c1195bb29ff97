SPECIFICATION Spec
CONSTANTS
  Scopes = {c}
  Cap = 3
  Estimates = {2}
  Costs = {1, 3}
  Tickets = {TRUE, FALSE}
  OutboxMax = 1
  EnvelopeMax = 1
  MaxRows = 2
  MaxOpens = 2
CHECK_DEADLOCK FALSE
INVARIANTS NeverCorrupt SpendingCovered WithinCap OutboxBounded RowsKept
PROPERTIES HoldsEnd
