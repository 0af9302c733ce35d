SPECIFICATION Spec
CONSTANTS
  la1 = la1
  caller1 = caller1
  worker1 = worker1
  Null = Null
  Accounts = {la1}
  Callers = {caller1}
  Workers = {worker1}
  Controls <- MCControls
  Reloadable = TRUE
  MaxAttempts = 3
  MaxJobs = 2
  MaxCalls = 2
  MaxFaults = 3
PROPERTIES
  JobsEnd
  OpenedByTheEngine
CHECK_DEADLOCK FALSE
