SPECIFICATION Spec
CONSTANTS
  a = a
  b = b
  Null = Null
  Rules <- MCRules
  MaxEdits = 2
  MaxClicks = 4
  CyclicVers = {2}
  OnDisk <- MCOnDisk
INVARIANTS
  NoCycleOnDisk
  CleanMeansOnDisk
  GraphStaysHome
  RenameKeepsRule
CHECK_DEADLOCK FALSE
