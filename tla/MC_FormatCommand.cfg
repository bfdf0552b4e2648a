SPECIFICATION Spec
CONSTANTS
  Absent = Absent
  Broken = Broken
  None = None
  Threads = {t1, t2}
  Tree <- MCTree
  Folders <- MCFolders
  Hidden <- MCHidden
  DefaultExcluded <- MCDefaultExcluded
  DefaultIncluded <- MCDefaultIncluded
  Tomls <- MCTomls
  Disks <- MCDisks
  Commands <- MCCommands
SYMMETRY ThreadSymmetry
INVARIANTS
  FilesAreThoseReached
  WalkAgreesWithSupplied
  StdinAgreesWithSupplied
  StatusTellsTheDisk
