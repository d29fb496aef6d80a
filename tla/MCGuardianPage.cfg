SPECIFICATION PageSpec
CONSTANTS
  NoText = ""
  Nobody = Nobody
  h1 = h1
  h2 = h2
  Handlers <- MCHandlers
  Requests <- MCRequests
  Normalize <- MCNormalize
  ShortPasswords <- MCShort
  LongPasswords <- MCShort
  PlanIDs <- MCPlans
  Stored <- MCStored
  StoreFails = TRUE
  MaxTime = 3
SYMMETRY MCSymmetry
CHECK_DEADLOCK FALSE
INVARIANTS
  GuardianTypeOK
  TokenGood
  AccountShown
PROPERTIES
  StaysSignedIn
  ConsentByItsGuardian
