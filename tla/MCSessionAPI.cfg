SPECIFICATION Spec
CONSTANTS
  NoText = ""
  Subjects <- MCSubjects
  Topics <- MCTopics
  Fold <- MCFold
  Learner = "Ada"
  Questions <- MCQuestions
  Answers <- MCAnswers
  Bands <- MCBands
  Expected <- MCExpected
  Responses <- MCResponses
  Results <- MCResults
  MaxStreak = 1
INVARIANTS
  TypeOK
  MasteryRecordAgrees
  PendingUnanswered
  StagesInOrder
  NoThirdConfirmation
PROPERTIES
  MasteredByTransferOnly
  RecordedMasteryKept
