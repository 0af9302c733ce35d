SPECIFICATION Spec
CONSTANTS
  t1 = t1
  t2 = t2
  Null = Null
  Tabs <- MCTabs
  Seeds <- MCSeeds
  Steps = {"documents", "review"}
  MaxDocs = 2
  MaxNotes = 1
  MaxClicks = 5
INVARIANTS
  HoldersSound
  OneAccountHolder
PROPERTIES
  OnlyOldCopiesLose
  SubmissionEnds
CHECK_DEADLOCK FALSE
