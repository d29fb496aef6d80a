SPECIFICATION FairSpec
CONSTANTS
  NoText = ""
  Subjects <- MCSubjects
  Topics <- MCTopics
  Fold <- MCFold
  contentByTopic <- MCContent
  Curriculum <- MCCurriculum
  h1 = h1
  h2 = h2
  Handlers = {h1}
  Requests <- SerialRequests
  HasProvider = TRUE
  ProviderResults <- MCResults
  StoreFails = TRUE
  WritesTear = FALSE
  Crashes = TRUE
  OneAtATime = TRUE
INVARIANTS
  TypeOK
  StoreSound
  NoSequencingError
  ReplyAgrees
PROPERTIES
  MasteryKept
  StoppedStaysStopped
  FreshQuestion
  FollowsLoop
  RequestsAnswered
