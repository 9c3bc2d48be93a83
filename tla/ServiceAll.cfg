SPECIFICATION Spec
CONSTANTS
  j1 = j1
  j2 = j2
  Jobs = {j1, j2}
  Daemon = Daemon
  Backends = {"systemd", "launchd", "schtasks"}
  Fields <- Schedules
  Untranslatable = Untranslatable
  Off = Off
  None = None
  Foreign = Foreign
  Torn = Torn
  Program = Program
  MaxCalls = 3
  MaxEdits = 2
  MaxFaults = 1
SYMMETRY Symmetry
CHECK_DEADLOCK FALSE
INVARIANTS InstallConverges UninstallSilences DriftVisible
PROPERTY ForeignKept
