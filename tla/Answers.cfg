SPECIFICATION LiveSpec
CONSTANTS
  Request = {r1}
  Call = {c1}
  Session = {s1}
  CallOf <- SameCall
  SessionOf <- SameSession
  Reporting <- EverySession
  Key = {k1,k2}
  Enrolled <- FirstKey
  Covers <- FirstCover
  Grantable <- EveryOne
  GrantUntil = 2
  NoKey = NoKey
  NoRequest = NoRequest
  Client = {a}
  Hook = {h1}
  Hold = 1
  Grace = 1
  Lapse = 1
  Skew = 0
  Reuse = 1
  Ahead = 0
  Waits = 0
  Asked <- EveryOne
  KeptEnrolled = 1
  KeptOthers = 1
  MaxTime = 2
  MaxBack = 0
  MaxGrant = 2
CHECK_DEADLOCK FALSE
INVARIANTS EvidenceBounded LateNeverAnswered UndecidedNeverDelivered AnswersInForce
PROPERTIES PendingEnds
