SPECIFICATION Spec
CONSTANTS
  moa = moa
  pass = pass
  tiny = tiny
  bank = bank
  coi = coi
  proof = proof
  Null = Null
  Files <- MCFiles
  Drops <- MCDrops
  Traits <- MCTraits
  Data <- MCData
  DocTypes <- MCTypes
  Samples <- MCSamples
  FormsOpened = {"identity", "directors"}
  MaxClicks = 5
INVARIANTS
  FilesSound
  BatchIsSequential
  RowsKeepTheirPerson
PROPERTIES
  NothingTakenBack
  Settles
CHECK_DEADLOCK FALSE
