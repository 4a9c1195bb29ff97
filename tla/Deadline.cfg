SPECIFICATION Spec
CONSTANTS
  Request = {r1,r2}
  Call = {c1}
  Session = {s1}
  CallOf <- SameCall
  SessionOf <- SameSession
  Reporting <- None
  Key = {k1}
  Enrolled <- EveryKey
  Covers <- EveryCover
  Grantable <- EveryOne
  GrantUntil = 0
  NoKey = NoKey
  NoRequest = NoRequest
  Client = {a}
  Hook = {}
  Hold = 1
  Grace = 1
  Lapse = 2
  Skew = 0
  Reuse = 1
  Ahead = 0
  Waits = 0
  Asked <- None
  KeptEnrolled = 0
  KeptOthers = 0
  MaxTime = 3
  MaxBack = 1
  MaxGrant = 0
CHECK_DEADLOCK FALSE
INVARIANTS LogOrder NoLateAnswer ExpiryAfterGrace GapsDense HaltsReleased
PROPERTIES TerminalFinal
SYMMETRY Requests
