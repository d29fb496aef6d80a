------------------------------- MODULE Session -------------------------------
(***************************************************************************)
(* One learner's tutoring session (session/session.go): the record the     *)
(* engine keeps, and its methods as operators from a session to a session. *)
(* A method that may refuse comes with an operator <Method>Err that gives  *)
(* the error it returns, NoError when it goes through; a refused call       *)
(* leaves the session alone.                                               *)
(*                                                                         *)
(* Texts are strings that are only compared.  Fold(x) is the text x        *)
(* without surrounding blanks and without regard to case.  The fields      *)
(* diagnosticPrompt and lastTeaching are written and never read by any     *)
(* code outside the tests, so the record leaves them out.                  *)
(***************************************************************************)
EXTENDS Integers, Sequences

CONSTANTS
  Subjects,   \* the subject names a caller may pass
  Topics,     \* the topic names a caller may pass
  NoText,     \* the empty string
  Fold(_)     \* strings.ToLower(strings.TrimSpace(x))

States == {"Idle", "Diagnosing", "WaitForAnswer", "CheckAnswer",
           "AwaitingTransferCheck", "Incorrect", "Uncertain", "Mastered"}

GradeBands == {"Primary 4-6", "JSS1-3", "SSS1-3"}

maxConfirmations == 2

uncertainPhrases == {"i don't know", "i dont know", "idk", "not sure", "no idea"}

NoError == "none"

(* Keys of the mastery map: one string for the subject and the topic. *)
KeyOf(subject, topic) == subject \o "|" \o topic

ASSUME NoTextType == NoText \in STRING

ASSUME KeyType ==
  \A u \in Subjects \cup {NoText}, t \in Topics \cup {NoText} : KeyOf(u, t) \in STRING

(***************************************************************************)
(* What an AI evaluation proposes (ai/ai.go), with the confidence in       *)
(* percent; the skill, gap and misconception lists are only displayed.     *)
(***************************************************************************)
DiagnosticResult == [concept : STRING, recommendedAction : STRING, confidence : Int]

NoResult == [concept |-> NoText, recommendedAction |-> NoText, confidence |-> 0]

ValidateDiagnosticResult(r) ==
  IF r.concept = NoText THEN "ErrMissingConcept"
  ELSE IF r.recommendedAction = NoText THEN "ErrMissingRecommendedAction"
  ELSE IF r.confidence < 0 \/ r.confidence > 100 THEN "ErrConfidenceOutOfRange"
  ELSE NoError

-----------------------------------------------------------------------------
Session ==
  [learnerName          : STRING,
   gradeBand            : GradeBands \cup {NoText},
   subject              : Subjects \cup {NoText},
   topic                : Topics \cup {NoText},
   state                : States,
   question             : STRING,
   expectedAnswer       : STRING,
   answer               : STRING,
   hasAnswer            : BOOLEAN,
   mastered             : BOOLEAN,
   masteryBySubject     : SUBSET STRING,
   confirmationCount    : 0 .. maxConfirmations,
   diagnosticFinding    : STRING,
   diagnosticResult     : DiagnosticResult,
   diagnosisComplete    : BOOLEAN,
   originalQuestion     : STRING,
   isTransferQuestion   : BOOLEAN,
   taughtSinceUncertain : BOOLEAN,
   wrongStreak          : Nat]

New(learner) ==
  [learnerName          |-> learner,
   gradeBand            |-> NoText,
   subject              |-> NoText,
   topic                |-> NoText,
   state                |-> "Idle",
   question             |-> NoText,
   expectedAnswer       |-> NoText,
   answer               |-> NoText,
   hasAnswer            |-> FALSE,
   mastered             |-> FALSE,
   masteryBySubject     |-> {},
   confirmationCount    |-> 0,
   diagnosticFinding    |-> NoText,
   diagnosticResult     |-> NoResult,
   diagnosisComplete    |-> FALSE,
   originalQuestion     |-> NoText,
   isTransferQuestion   |-> FALSE,
   taughtSinceUncertain |-> FALSE,
   wrongStreak          |-> 0]

-----------------------------------------------------------------------------
(* Selecting a grade band, a subject and a topic. *)

(* Mutant: every grade band is accepted. *)
SetGradeBandErrNever(band) == NoError

SetGradeBandErr(band) == IF band \in GradeBands THEN NoError ELSE "ErrInvalidGradeBand"

SetGradeBand(s, band) == [s EXCEPT !.gradeBand = band]

masteryKey(s) == KeyOf(s.subject, s.topic)

(* Mutant: the reset drops the record of mastery with the attempt. *)
resetForgetsMastery(s) ==
  [New(s.learnerName) EXCEPT !.gradeBand = s.gradeBand, !.subject = s.subject, !.topic = s.topic]

resetForNewSelection(s) ==
  [s EXCEPT !.state = "Idle",
            !.diagnosisComplete = FALSE,
            !.diagnosticFinding = NoText,
            !.diagnosticResult = NoResult,
            !.question = NoText,
            !.originalQuestion = NoText,
            !.expectedAnswer = NoText,
            !.answer = NoText,
            !.hasAnswer = FALSE,
            !.confirmationCount = 0,
            !.isTransferQuestion = FALSE,
            !.taughtSinceUncertain = FALSE,
            !.wrongStreak = 0]

(* Mutant: the flag of the topic left behind stays set. *)
restoreOnlySets(s) ==
  IF masteryKey(s) \in s.masteryBySubject
  THEN [s EXCEPT !.mastered = TRUE, !.state = "Mastered"]
  ELSE s

restoreMastery(s) ==
  IF masteryKey(s) \in s.masteryBySubject
  THEN [s EXCEPT !.mastered = TRUE, !.state = "Mastered"]
  ELSE [s EXCEPT !.mastered = FALSE]

ResetAttempt(s) == restoreMastery(resetForNewSelection(s))

SelectSubject(s, subject) ==
  IF subject = s.subject
  THEN s
  ELSE ResetAttempt([s EXCEPT !.subject = subject, !.topic = NoText])

SelectTopicErr(s) == IF s.subject = NoText THEN "ErrSubjectNotSelected" ELSE NoError

SelectTopic(s, topic) ==
  IF topic = s.topic
  THEN s
  ELSE ResetAttempt([s EXCEPT !.topic = topic])

-----------------------------------------------------------------------------
(* Diagnosis. *)

StartDiagnosis(s) ==
  IF s.diagnosisComplete THEN s ELSE [s EXCEPT !.state = "Diagnosing"]

RecordDiagnosticResponse(s, response) ==
  [s EXCEPT !.diagnosticFinding = response, !.diagnosisComplete = TRUE]

RecordDiagnosticResultErr(result) == ValidateDiagnosticResult(result)

RecordDiagnosticResult(s, result) ==
  [s EXCEPT !.diagnosticResult = result, !.diagnosisComplete = TRUE]

-----------------------------------------------------------------------------
(* Questions, answers and teaching. *)

(* Mutant: a question may be posed before the diagnosis. *)
AskQuestionErrUndiagnosed(s) ==
  IF s.state = "WaitForAnswer" THEN "ErrQuestionAlreadyPending"
  ELSE IF s.state = "Uncertain" /\ ~s.taughtSinceUncertain THEN "ErrReteachingRequired"
  ELSE NoError

AskQuestionErr(s) ==
  IF ~s.diagnosisComplete THEN "ErrDiagnosisIncomplete"
  ELSE IF s.state = "WaitForAnswer" THEN "ErrQuestionAlreadyPending"
  ELSE IF s.state = "Uncertain" /\ ~s.taughtSinceUncertain THEN "ErrReteachingRequired"
  ELSE NoError

(* Mutant: the answer to the question before is kept. *)
AskQuestionKeepingAnswer(s, q, expected) ==
  [s EXCEPT !.question = q,
            !.originalQuestion = q,
            !.expectedAnswer = expected,
            !.isTransferQuestion = FALSE,
            !.state = "WaitForAnswer",
            !.confirmationCount = 0,
            !.taughtSinceUncertain = FALSE]

(* Mutant: posing a question starts the record of it over. *)
AskQuestionForgettingFinding(s, q, expected) ==
  [s EXCEPT !.question = q,
            !.originalQuestion = q,
            !.expectedAnswer = expected,
            !.diagnosticFinding = IF s.question = NoText THEN @ ELSE NoText,
            !.isTransferQuestion = FALSE,
            !.state = "WaitForAnswer",
            !.hasAnswer = FALSE,
            !.confirmationCount = 0,
            !.taughtSinceUncertain = FALSE]

AskQuestion(s, q, expected) ==
  [s EXCEPT !.question = q,
            !.originalQuestion = q,
            !.expectedAnswer = expected,
            !.isTransferQuestion = FALSE,
            !.state = "WaitForAnswer",
            !.hasAnswer = FALSE,
            !.confirmationCount = 0,
            !.taughtSinceUncertain = FALSE]

AskTransferQuestionErr(s, q) ==
  IF q = s.originalQuestion THEN "ErrTransferQuestionNotDistinct" ELSE NoError

AskTransferQuestion(s, q, expected) ==
  [s EXCEPT !.question = q,
            !.expectedAnswer = expected,
            !.isTransferQuestion = TRUE,
            !.state = "WaitForAnswer",
            !.hasAnswer = FALSE,
            !.confirmationCount = 0]

SubmitAnswer(s, a) ==
  [s EXCEPT !.answer = a, !.hasAnswer = TRUE, !.state = "CheckAnswer"]

IsUncertain(a) == Fold(a) \in uncertainPhrases

SameAnswer(a, expected) == Fold(a) = Fold(expected)

(* Mutant: any right answer is taken for mastery. *)
CheckAnswerWithoutTransfer(s) ==
  IF IsUncertain(s.answer) THEN [s EXCEPT !.state = "Uncertain"]
  ELSE IF ~SameAnswer(s.answer, s.expectedAnswer) THEN [s EXCEPT !.state = "Incorrect"]
  ELSE [s EXCEPT !.mastered = TRUE,
                 !.state = "Mastered",
                 !.masteryBySubject = IF s.subject = NoText THEN @ ELSE @ \cup {masteryKey(s)}]

CheckAnswer(s) ==
  IF IsUncertain(s.answer) THEN [s EXCEPT !.state = "Uncertain"]
  ELSE IF ~SameAnswer(s.answer, s.expectedAnswer) THEN [s EXCEPT !.state = "Incorrect"]
  ELSE IF ~s.isTransferQuestion THEN [s EXCEPT !.state = "AwaitingTransferCheck"]
  ELSE [s EXCEPT !.mastered = TRUE,
                 !.state = "Mastered",
                 !.masteryBySubject = IF s.subject = NoText THEN @ ELSE @ \cup {masteryKey(s)}]

(* Mutant: one confirmation too many. *)
MayConfirmOnceMore(s) ==
  /\ s.state \notin {"Idle", "Diagnosing", "WaitForAnswer"}
  /\ s.confirmationCount <= maxConfirmations

MayConfirm(s) ==
  /\ s.state \notin {"Idle", "Diagnosing", "WaitForAnswer"}
  /\ s.confirmationCount < maxConfirmations

(* Mutant: the confirmation is counted on a copy. *)
RequestConfirmationUncounted(s) == s

RequestConfirmation(s) ==
  IF MayConfirm(s) THEN [s EXCEPT !.confirmationCount = @ + 1] ELSE s

NoteIncorrectAttempt(s) == [s EXCEPT !.wrongStreak = @ + 1]

ResetWrongStreak(s) == [s EXCEPT !.wrongStreak = 0]

Teach(s) == [s EXCEPT !.taughtSinceUncertain = (@ \/ s.state = "Uncertain")]

=============================================================================
