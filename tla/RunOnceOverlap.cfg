\* Two goroutines and one CLI process over one job that tries twice for the lock; purge.
SPECIFICATION Spec
CONSTANTS
  Jobs = {backup}
  OneShot = {}
  Threads = {t1, t2}
  Externals = {cli}
  NoProc = NoProc
  Policy <- QueuePolicy
  MaxPerDay <- NoLimit
  Instants = {1}
  Outcomes = {"success", "failure"}
  MaxCalls = 3
  MaxFaults = 1
  LastDay = 1
SYMMETRY FlowSymmetry
 
INVARIANTS MutualExclusion RunningOnDisk NoGhostRunning
CHECK_DEADLOCK FALSE
