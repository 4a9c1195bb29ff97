SPECIFICATION LiveSpec
CONSTANTS
  Starter = {p, q}
  Agents = {"claude", "none"}
  Verbs = {}
  Asks = {"worker", "coordinator"}
  Holds = {}
  LeaseTTL = 1
  LaunchTTL = 1
  IdleGrace = 1
  Window = 2
  MaxDeaths = 2
  MaxSpawnsLive = 1
  MaxLaunch = 2
  MaxToken = 2
  MaxTime = 3
  MaxBack = 0
  Backoff <- Growing
CHECK_DEADLOCK FALSE
INVARIANTS OneStarter
PROPERTIES LaunchEdges StrayStopped
