SPECIFICATION Spec
CONSTANTS
  Garbage = Garbage
  Null = Null
  NodeIds = {"request", "limits", "response", "other", "n1"}
  FreshIds = {"n1"}
  Columns = {"in_1", "out_1"}
  RuleIds = {"r1", "r2"}
  Schemas = {"s1"}
  Files = {"saved", "plain", "garbage", "scalar", "object"}
  OnDisk <- MCOnDisk
  Sample <- MCSample
  MaxClicks = 6
INVARIANTS
  GraphSound
  SchemaKept
  SavedFileReads
CHECK_DEADLOCK FALSE
