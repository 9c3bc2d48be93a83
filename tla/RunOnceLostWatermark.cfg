\* Two goroutines of the daemon run two different jobs.
SPECIFICATION Spec
CONSTANTS
  Jobs = {backup, report}
  OneShot = {}
  Threads = {t1, t2}
  Externals = {}
  NoProc = NoProc
  Policy <- SkipPolicy
  MaxPerDay <- NoLimit
  Instants = {1}
  Outcomes = {"success"}
  MaxCalls = 3
  MaxFaults = 0
  LastDay = 1
INVARIANT WatermarkDurable
CHECK_DEADLOCK FALSE
