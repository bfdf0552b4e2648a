SPECIFICATION SettingsSpec
CONSTANTS
  Folders <- OneFolder
  Files <- NestedFiles
  Untitled = Untitled
  Contents = {v1, v2}
  Absent = Absent
  Broken = Broken
  Fallback = Fallback
  MaxChanges = 3
  MaxQueue = 2
SYMMETRY SettingsSymmetry
INVARIANTS ActiveEditorIsUpToDate
CHECK_DEADLOCK FALSE
