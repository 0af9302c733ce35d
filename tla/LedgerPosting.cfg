SPECIFICATION Spec
CONSTANTS
  R = R
  A = A
  B = B
  X = X
  holder = holder
  pa1 = pa1
  pa2 = pa2
  payee = payee
  Null = Null
  Accounts <- MCAccounts
  Leaves <- MCLeaves
  Chain <- MCChain
  Entities <- MCEntities
  OwnedBy <- MCOwnedBy
  NumDays = 2
  IsoWeek <- MCIsoWeek
  Month <- MCMonth
  Year <- MCYear
  MaxInt = 7
  Transfers <- MCTransfers
  Amounts = {2}
  EntryLimits <- MCEntryLimits
  Controls <- MCControls
  MaxEntries = 4
INVARIANTS
  BalanceMatchesEntries
  TotalsMatchEntries
  DailyPostedWithinLimit
  DoubleEntry
PROPERTIES
  HardCeiling
CHECK_DEADLOCK FALSE
