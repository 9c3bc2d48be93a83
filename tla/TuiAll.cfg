\* A TUI and a command from the shell, two changes of the files, two loads under way.
SPECIFICATION FairSpec
CONSTANTS
  Jobs = {1, 2}
  Cli = {c1}
  Tui = {u1}
  MaxLoads = 2
  Absent = Absent
  Garbled = Garbled
  Free = Free
  Nobody = Nobody
  Given = {{1, 2}, {2}}
  MaxChanges = 2
  MaxFaults = 1
INVARIANT TypeOK
PROPERTIES  EditsSerialised InvalidIsByHand ShowsFiles
CHECK_DEADLOCK FALSE
