SPECIFICATION Spec
CONSTANTS
  la1 = la1
  caller1 = caller1
  worker1 = worker1
  Null = Null
  Accounts = {la1}
  Callers = {caller1}
  Workers = {worker1}
  Controls <- MCOpen
  Reloadable = FALSE
  MaxAttempts = 3
  MaxJobs = 1
  MaxCalls = 1
  MaxFaults = 0
PROPERTY Rescreened
CHECK_DEADLOCK FALSE
