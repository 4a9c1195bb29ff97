SPECIFICATION Spec
CONSTANTS
  Starter = {p}
  Agents = {"claude"}
  Verbs = {"take", "release"}
  Asks = {}
  Holds = {1}
  LeaseTTL = 2
  LaunchTTL = 1
  IdleGrace = 1
  Window = 1
  MaxDeaths = 2
  MaxSpawnsLive = 1
  MaxLaunch = 2
  MaxToken = 2
  MaxTime = 4
  MaxBack = 1
  Backoff <- Growing
CHECK_DEADLOCK FALSE
INVARIANTS LookVoids SilenceBounded
PROPERTIES TokensInOrder
