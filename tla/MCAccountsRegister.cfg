SPECIFICATION Spec
CONSTANTS
  NoText = ""
  Nobody = Nobody
  h1 = h1
  h2 = h2
  Handlers <- MCHandlers
  Requests <- MCRequests
  Normalize <- MCNormalize
  ShortPasswords <- MCShort
  LongPasswords <- MCLong
  PlanIDs <- MCPlans
  Stored <- NoData
  StoreFails = FALSE
  MaxTime = 0
CHECK_DEADLOCK FALSE
PROPERTIES
  AccountKept
