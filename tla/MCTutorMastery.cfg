SPECIFICATION Spec
CONSTANTS
  NoText = ""
  Subjects <- MCSubjects
  Topics <- MCTopics
  Fold <- MCFold
  contentByTopic <- MCContent
  Curriculum <- MCCurriculum
  h1 = h1
  h2 = h2
  Handlers <- MCHandlers
  Requests <- ConcurrentRequests
  HasProvider = FALSE
  ProviderResults = {}
  StoreFails = FALSE
  WritesTear = FALSE
  Crashes = FALSE
  OneAtATime = FALSE
PROPERTIES
  MasteryKept
