\* Two jobs that replay what they missed, one with jitter, timers that trip early; a sleep, a
\* crash, a manual run.
SPECIFICATION Spec
CONSTANTS
  backup = backup
  report = report
  Jobs <- TwoJobs
  Grid <- EveryThree
  Catchup <- All
  Window = 20
  Jitter <- JitterOne
  Cap = 1
  Skew = 1
  MaxEarly = 1
  SleepThreshold = 1
  Horizon = 6
  MaxSleeps = 1
  MaxCrashes = 1
  MaxManual = 1
  QuickRestart = FALSE
INVARIANTS TypeOK  LatestSettled
 
CHECK_DEADLOCK FALSE
