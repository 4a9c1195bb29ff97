SPECIFICATION Spec
CONSTANTS
  Request = {r1,r2}
  Call = {c1}
  Session = {s1}
  CallOf <- SameCall
  SessionOf <- SameSession
  Reporting <- None
  Key = {k1}
  Enrolled <- EveryKey
  Covers <- EveryCover
  Grantable <- EveryOne
  GrantUntil = 0
  NoKey = NoKey
  NoRequest = NoRequest
  Client = {a}
  Hook = {h1,h2}
  Hold = 2
  Grace = 0
  Lapse = 1
  Skew = 1
  Reuse = 0
  Ahead = 1
  Waits = 0
  Asked <- None
  KeptEnrolled = 0
  KeptOthers = 0
  MaxTime = 2
  MaxBack = 0
  MaxGrant = 0
CHECK_DEADLOCK FALSE
INVARIANTS TypeOK TakesFresh TakesSignedInOrder
PROPERTIES TakesVerified OneRunPerAllow
SYMMETRY RequestsAndHooks
