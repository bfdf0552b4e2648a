SPECIFICATION SettingsSpec
CONSTANTS
  Folders <- NestedFolders
  Files <- NestedFiles
  Untitled = Untitled
  Contents = {v1, v2}
  Absent = Absent
  Broken = Broken
  Fallback = Fallback
  MaxChanges = 4
  MaxQueue = 2
SYMMETRY SettingsSymmetry
INVARIANTS WorkspacesFollowTheirToml ClientFollowsServer
CHECK_DEADLOCK FALSE
