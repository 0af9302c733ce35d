SPECIFICATION Spec
CONSTANTS
  R = R
  A = A
  B = B
  X = X
  t1 = t1
  t2 = t2
  Null = Null
  Accounts <- MCAccounts
  Chain <- MCChain
  Rank <- MCRank
  Transfers <- MCTransfers
  NumDays = 2
  Controls <- MCControls
  MaxControls = 2
INVARIANTS
  LimitHolds
PROPERTIES
  ImplementsSerialBooks
  EveryoneEnds
CHECK_DEADLOCK FALSE
