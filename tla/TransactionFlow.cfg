SPECIFICATION Spec
CONSTANTS
  t1 = t1
  t2 = t2
  t3 = t3
  key1 = key1
  payee = payee
  Null = Null
  Requests <- MCRequests
  Bodies <- MCBodies
  SubCtr = {t1, t2, t3}
  Creditor <- MCCreditor
  Parties <- MCParties
  CallerStatuses = {"accepted", "rejected"}
  MaxEdits = 2
SYMMETRY MCSymmetry
INVARIANTS
  StructuringCaught
  PostedPassedGate
  OutcomeMatchesPair
  PostedOnce
CHECK_DEADLOCK FALSE
