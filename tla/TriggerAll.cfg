\* A waiting and a hasty client; crashes, restarts and an interrupted client.
SPECIFICATION FairSpec
CONSTANTS
  r1 = r1
  r2 = r2
  Requests = {r1, r2}
  Waiting = {r1}
  MaxCrashes = 2
  MaxAborts = 1
INVARIANTS ActedOnce Served StaleAbandoned
 
CHECK_DEADLOCK FALSE
