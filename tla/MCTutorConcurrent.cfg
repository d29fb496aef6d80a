SPECIFICATION Spec
CONSTANTS
  NoText = ""
  Subjects <- MCSubjects
  Topics <- MCTopics
  Fold <- MCFold
  contentByTopic <- MCContent
  Curriculum <- MCCurriculum
  h1 = h1
  h2 = h2
  Handlers <- MCHandlers
  Requests <- ConcurrentRequests
  HasProvider = TRUE
  ProviderResults <- TwoResults
  StoreFails = TRUE
  WritesTear = TRUE
  Crashes = TRUE
  OneAtATime = FALSE
SYMMETRY MCSymmetry
INVARIANTS
  StoreSound
  NoSequencingError
PROPERTIES
  FreshQuestion
  OwnSavesOnly
