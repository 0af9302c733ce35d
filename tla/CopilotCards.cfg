SPECIFICATION Spec
CONSTANTS
  n1 = n1
  n2 = n2
  e1 = e1
  r1 = r1
  s1 = s1
  d1 = d1
  u1 = u1
  u2 = u2
  x1 = x1
  bad = bad
  Null = Null
  Calls <- MCCalls
  Tool <- MCTool
  Args <- MCArgs
  Invalid = {bad}
  Turn <- MCTurn
  Plans <- MCPlans
  FirstNodes <- MCFirstNodes
  MaxAsides = 1
INVARIANTS
  GraphSound
  ActsOnce
PROPERTIES
  NothingActsAlone
  DecidedIsAnswered
CHECK_DEADLOCK FALSE
