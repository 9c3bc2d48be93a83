\* Two runs, of one job one after the other, or of two side by side, one without a timeout.
SPECIFICATION FairSpec
CONSTANTS
  backup = backup
  report = report
  cronBackup = cronBackup
  cronReport = cronReport
  Runs = {r1, r2}
  Jobs = {backup, report}
  AgentName <- OneEach
  Untimed = {report}
  Nobody = Nobody
  MaxFaults = 2
INVARIANTS OwnAgent LeftoversDoNotRefuse PaneIsEvidence
PROPERTY EveryRunEnds
CHECK_DEADLOCK FALSE
