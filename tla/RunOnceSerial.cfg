\* One flow of control, as under the os-scheduler driver or a daemon with one job: no overlap,
\* but crashes, failed writes, a restart and a midnight.
SPECIFICATION Spec
CONSTANTS
  Jobs = {backup}
  OneShot = {backup}
  Threads = {t1}
  Externals = {}
  NoProc = NoProc
  Policy <- SkipPolicy
  MaxPerDay <- OnePerDay
  Instants = {1}
  Outcomes = {"success", "failure", "cancelled"}
  MaxCalls = 4
  MaxFaults = 2
  LastDay = 2
INVARIANTS WatermarkDurable  StreakExact
CHECK_DEADLOCK FALSE
