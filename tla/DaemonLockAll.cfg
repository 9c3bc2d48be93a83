\* Two daemons, started, stopped and killed at any moment; two clients.
SPECIFICATION FairSpec
CONSTANTS
  Daemons = {d1, d2}
  Clients = {c1, c2}
  Free = Free
  None = None
  MaxStarts = 3
  MaxCalls = 2
  MaxSleeps = 1
INVARIANTS OneDaemon RunningIsTrue
PROPERTY HeartbeatReturns
CHECK_DEADLOCK FALSE
