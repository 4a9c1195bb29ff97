SPECIFICATION Spec
CONSTANTS
  Request = {r1,r2}
  Call = {c1}
  Session = {s1}
  CallOf <- SameCall
  SessionOf <- SameSession
  Reporting <- None
  Key = {k1}
  Enrolled <- EveryKey
  Covers <- EveryCover
  Grantable <- EveryOne
  GrantUntil = 3
  NoKey = NoKey
  NoRequest = NoRequest
  Client = {}
  Hook = {h1,h2}
  Hold = 2
  Grace = 0
  Lapse = 2
  Skew = 0
  Reuse = 2
  Ahead = 0
  Waits = 1
  Asked <- None
  KeptEnrolled = 0
  KeptOthers = 0
  MaxTime = 3
  MaxBack = 0
  MaxGrant = 2
CHECK_DEADLOCK FALSE
INVARIANTS TakenOnce

SYMMETRY RequestsAndHooks
