----------------------------- MODULE SessionAPI -----------------------------
(***************************************************************************)
(* One session under every sequence of calls of its public methods         *)
(* (session/session.go), whoever makes them: the contract of the session   *)
(* alone, before the tutor restricts the order of the calls.               *)
(*                                                                         *)
(* The variable confirmed is history, recorded beside the session and      *)
(* never read by it.                                                       *)
(***************************************************************************)
EXTENDS Session

CONSTANTS
  Learner,     \* the learner the session belongs to
  Bands,       \* grade bands passed to SetGradeBand
  Questions,   \* question texts
  Expected,    \* expected answers
  Answers,     \* what the learner may answer
  Responses,   \* what the learner may say in the diagnosis
  Results,     \* what an AI evaluation may propose
  MaxStreak    \* bound on the calls of NoteIncorrectAttempt in a row

ASSUME CallsType ==
  /\ Learner \in STRING
  /\ Questions \cup Expected \cup Answers \cup Responses \subseteq STRING
  /\ Results \subseteq DiagnosticResult

VARIABLES
  s,         \* the session
  confirmed  \* confirmations granted since the last SubmitAnswer

vars == <<s, confirmed>>

TypeOK ==
  /\ s \in Session
  /\ confirmed \in Nat

Init ==
  /\ s = New(Learner)
  /\ confirmed = 0

(* A selection or a reset: the history starts over with the new attempt. *)
StartOver(t) ==
  /\ s' = t
  /\ confirmed' = IF t = s THEN confirmed ELSE 0

CallSetGradeBand == \E band \in Bands :
  /\ SetGradeBandErr(band) = NoError
  /\ s' = SetGradeBand(s, band)
  /\ UNCHANGED confirmed

CallSelectSubject == \E subject \in Subjects : StartOver(SelectSubject(s, subject))

CallSelectTopic == \E topic \in Topics :
  /\ SelectTopicErr(s) = NoError
  /\ StartOver(SelectTopic(s, topic))

CallResetAttempt == StartOver(ResetAttempt(s))

CallStartDiagnosis ==
  /\ s' = StartDiagnosis(s)
  /\ UNCHANGED confirmed

CallRecordDiagnosticResponse == \E response \in Responses :
  /\ s' = RecordDiagnosticResponse(s, response)
  /\ UNCHANGED confirmed

CallRecordDiagnosticResult == \E result \in Results :
  /\ RecordDiagnosticResultErr(result) = NoError
  /\ s' = RecordDiagnosticResult(s, result)
  /\ UNCHANGED confirmed

CallAskQuestion == \E q \in Questions, expected \in Expected :
  /\ AskQuestionErr(s) = NoError
  /\ s' = AskQuestion(s, q, expected)
  /\ confirmed' = 0

CallAskTransferQuestion == \E q \in Questions, expected \in Expected :
  /\ AskTransferQuestionErr(s, q) = NoError
  /\ s' = AskTransferQuestion(s, q, expected)
  /\ confirmed' = 0

CallSubmitAnswer == \E a \in Answers :
  /\ s' = SubmitAnswer(s, a)
  /\ confirmed' = 0

CallCheckAnswer ==
  /\ s' = CheckAnswer(s)
  /\ UNCHANGED confirmed

CallRequestConfirmation ==
  /\ s' = RequestConfirmation(s)
  /\ confirmed' = IF MayConfirm(s) THEN confirmed + 1 ELSE confirmed

CallNoteIncorrectAttempt ==
  /\ s.wrongStreak < MaxStreak
  /\ s' = NoteIncorrectAttempt(s)
  /\ UNCHANGED confirmed

CallResetWrongStreak ==
  /\ s' = ResetWrongStreak(s)
  /\ UNCHANGED confirmed

CallTeach ==
  /\ s' = Teach(s)
  /\ UNCHANGED confirmed

Next ==
  \/ CallSetGradeBand
  \/ CallSelectSubject
  \/ CallSelectTopic
  \/ CallResetAttempt
  \/ CallStartDiagnosis
  \/ CallRecordDiagnosticResponse
  \/ CallRecordDiagnosticResult
  \/ CallAskQuestion
  \/ CallAskTransferQuestion
  \/ CallSubmitAnswer
  \/ CallCheckAnswer
  \/ CallRequestConfirmation
  \/ CallNoteIncorrectAttempt
  \/ CallResetWrongStreak
  \/ CallTeach

Spec == Init /\ [][Next]_vars

-----------------------------------------------------------------------------
(* Once a subject is selected, the flag IsMastered reports and the mastery *)
(* map that survives switches of topic tell the same, whatever calls were  *)
(* made since the topic was selected (restoreMasteryForCurrentSelection,   *)
(* CheckAnswer).                                                           *)
MasteryRecordAgrees ==
  s.subject # NoText => (s.mastered <=> masteryKey(s) \in s.masteryBySubject)

(* While a question waits for its answer there is no answer to it and no   *)
(* confirmation is counted: nothing left over from an earlier question is  *)
(* taken for the answer to this one (AskQuestion, AskTransferQuestion,     *)
(* RequestConfirmation).                                                   *)
PendingUnanswered ==
  s.state = "WaitForAnswer" => ~s.hasAnswer /\ s.confirmationCount = 0

(* A practice question is only ever pending with the diagnosis of the same *)
(* selection recorded, and a transfer question never repeats the original  *)
(* (ErrDiagnosisIncomplete, ErrTransferQuestionNotDistinct).               *)
StagesInOrder ==
  s.state = "WaitForAnswer" =>
    IF s.isTransferQuestion THEN s.question # s.originalQuestion
    ELSE s.diagnosisComplete /\ s.question = s.originalQuestion

(* No answer is ever granted a third confirmation, however often the       *)
(* session asks (maxConfirmations).                                        *)
NoThirdConfirmation == confirmed <= maxConfirmations

(* The session turns mastered only by the right answer to a transfer       *)
(* question, or by selecting a topic whose mastery is on record.           *)
MasteredByTransferOnly ==
  [][~s.mastered /\ s'.mastered =>
       \/ s.isTransferQuestion /\ SameAnswer(s.answer, s.expectedAnswer)
       \/ masteryKey(s') \in s.masteryBySubject]_vars

(* No call ever takes a recorded mastery back: the map only grows.         *)
RecordedMasteryKept == [][s.masteryBySubject \subseteq s'.masteryBySubject]_vars

=============================================================================
