SPECIFICATION MaintenanceSpec
CONSTANTS
  R = R
  A = A
  holder = holder
  Null = Null
  Accounts <- MCAccounts
  Leaves <- MCLeaves
  Chain <- MCChain
  Entities <- MCEntities
  OwnedBy <- MCOwnedBy
  NumDays = 2
  IsoWeek <- MCIsoWeek
  Month <- MCMonth
  Year <- MCYear
  MaxInt = 3
  MaxEdits = 3
  Transfers <- MCTransfers
  Amounts = {2}
  EntryLimits <- MCEntryLimits
  Controls <- MCControls
  MaxEntries = 2
  InsertStatuses = {"posted", "voided"}
  UpdateStatuses = {"posted", "voided"}
  UpdateAmounts = {1}
INVARIANTS
  BalanceMatchesRows
PROPERTIES
  BlockedNeverMoves
  ZeroCapFreezes
CHECK_DEADLOCK FALSE
