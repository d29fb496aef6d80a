SPECIFICATION WebSpec
CONSTANTS
  NoText = ""
  Subjects <- MCSubjects
  Topics <- MCTopics
  Fold <- MCFold
  contentByTopic <- MCContent
  Curriculum <- MCCurriculum
  h1 = h1
  h2 = h2
  Handlers <- MCHandlers
  Requests <- MCRequests
  HasProvider = TRUE
  ProviderResults <- MCResults
  StoreFails = TRUE
  WritesTear = TRUE
  Crashes = TRUE
  OneAtATime = FALSE
  Patient = TRUE
  Unreliable = TRUE
SYMMETRY MCSymmetry
INVARIANTS
  WebTypeOK
  ScreenAgrees
  ReportAgrees
PROPERTIES
  TakenAsShown
  ResumesWhereLeft
  LoopUnlessOverlapping
