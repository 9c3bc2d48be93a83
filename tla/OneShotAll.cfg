\* Two jobs, one without catch-up; a reload, a reload command, a sleep, a crash and a manual run.
SPECIFICATION FairOneShotSpec
CONSTANTS
  backup = backup
  report = report
  Jobs <- TwoJobs
  At <- AtTwoThree
  Catchup <- OffOnce
  Window = 1
  SleepThreshold = 1
  Horizon = 4
  MaxReloads = 1
  MaxCommands = 1
  MaxSleeps = 1
  MaxCrashes = 1
  MaxManual = 1
 
PROPERTY EverySettled
CHECK_DEADLOCK FALSE
