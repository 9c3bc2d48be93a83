\* Edits, a pause or a resume, failing runs, and a reload command or a sleep.
SPECIFICATION FairSpec
CONSTANTS
  Limit = 1
  None = None
  MaxEdits = 1
  MaxSwitches = 1
  MaxOthers = 1
  MaxLost = 1
  MaxRuns = 1
INVARIANTS WatcherInStep 
PROPERTY BreakerStops
CHECK_DEADLOCK FALSE
