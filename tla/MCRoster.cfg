SPECIFICATION Spec
CONSTANTS
  NoText = ""
  Subjects <- NoSubjects
  Topics <- NoSubjects
  Fold <- MCFold
  order <- ThreeLearners
  Strangers <- MCStrangers
  Questions <- MCQuestions
  Answers <- MCAnswers
INVARIANTS
  TypeOK
  EveryoneGetsTurn
PROPERTIES
  AnswersInTurn
