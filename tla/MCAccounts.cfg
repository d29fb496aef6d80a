SPECIFICATION FairSpec
CONSTANTS
  NoText = ""
  Nobody = Nobody
  h1 = h1
  h2 = h2
  Handlers <- MCHandlers
  Requests <- MCRequests
  Normalize <- MCNormalize
  ShortPasswords <- MCShort
  LongPasswords <- MCLong
  PlanIDs <- MCPlans
  Stored <- NoData
  StoreFails = TRUE
  MaxTime = 2
CHECK_DEADLOCK FALSE
INVARIANTS
  TypeOK
  RecordsSound
  AcknowledgedKept
PROPERTIES
  RequestsAnswered
