SPECIFICATION Spec
CONSTANTS
  Starter = {p}
  Agents = {"claude"}
  Verbs = {}
  Asks = {}
  Holds = {}
  LeaseTTL = 1
  LaunchTTL = 1
  IdleGrace = 1
  Window = 1
  MaxDeaths = 2
  MaxSpawnsLive = 1
  MaxLaunch = 3
  MaxToken = 3
  MaxTime = 6
  MaxBack = 0
  Backoff <- Growing
CHECK_DEADLOCK FALSE
INVARIANTS DeathsBounded OneCoordinator
