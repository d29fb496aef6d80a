-------------------------- MODULE SessionAPIProofs --------------------------
(***************************************************************************)
(* Proofs about SessionAPI: what a session keeps true whatever public      *)
(* methods are called on it, in whatever order, for any subjects, topics,  *)
(* questions and answers and any number of misses in a row.                *)
(*                                                                         *)
(* No call depends on the call before it, so a session is right exactly    *)
(* when every method takes a right session to a right one.  RightSession   *)
(* says of any session what the three invariants say of s; the one of      *)
(* the confirmations needs the session's own count as a bound on history.  *)
(***************************************************************************)
EXTENDS SessionAPI, SessionProofs

RecordAgrees(t) ==
  t.subject # NoText => (t.mastered <=> masteryKey(t) \in t.masteryBySubject)

Unanswered(t) == t.state = "WaitForAnswer" => ~t.hasAnswer /\ t.confirmationCount = 0

InOrder(t) ==
  t.state = "WaitForAnswer" =>
    IF t.isTransferQuestion THEN t.question # t.originalQuestion
    ELSE t.diagnosisComplete /\ t.question = t.originalQuestion

RightSession(t) ==
  /\ t \in Session
  /\ RecordAgrees(t)
  /\ Unanswered(t)
  /\ InOrder(t)

(* What was granted since the answer is not more than the session counts:  *)
(* SubmitAnswer starts the history over and leaves the count, which only a *)
(* new question, a selection or a reset clears.                            *)
IInv ==
  /\ RightSession(s)
  /\ confirmed \in Nat
  /\ confirmed <= s.confirmationCount

-----------------------------------------------------------------------------
(* Each method takes a right session to a right one. *)

(* A reset gives the attempt up and takes the mastery flag from the map,   *)
(* whatever the flag said before (ResetAttempt).                           *)
LEMMA ResetAttemptRight ==
  ASSUME NEW t \in Session
  PROVE  RightSession(ResetAttempt(t))
<1> DEFINE u == ResetAttempt(t)
<1>1. u \in Session BY ResetAttemptType
<1>2. /\ u.masteryBySubject = t.masteryBySubject
      /\ masteryKey(u) = masteryKey(t)
      /\ u.mastered <=> masteryKey(t) \in t.masteryBySubject
      /\ u.state = IF u.mastered THEN "Mastered" ELSE "Idle"
  BY ResetAttemptFields
<1> HIDE DEF u
<1> QED BY <1>1, <1>2 DEF RightSession, RecordAgrees, Unanswered, InOrder, u

(* Selecting what is selected already changes nothing, anything else is a  *)
(* reset (SelectSubject, SelectTopic).                                     *)
LEMMA SelectSubjectRight ==
  ASSUME NEW t, RightSession(t), NEW subject \in Subjects
  PROVE  RightSession(SelectSubject(t, subject))
<1>1. [t EXCEPT !.subject = subject, !.topic = NoText] \in Session
  BY DEF RightSession, Session
<1> QED BY <1>1, ResetAttemptRight DEF SelectSubject

LEMMA SelectTopicRight ==
  ASSUME NEW t, RightSession(t), NEW topic \in Topics
  PROVE  RightSession(SelectTopic(t, topic))
<1>1. [t EXCEPT !.topic = topic] \in Session
  BY DEF RightSession, Session
<1> QED BY <1>1, ResetAttemptRight DEF SelectTopic

(* A method that leaves the selection, the mastery and the pending         *)
(* question alone, and does not enter the state that waits for an answer.  *)
LEMMA SidelinedRight ==
  ASSUME NEW t, RightSession(t), NEW u \in Session,
         u.subject = t.subject, u.topic = t.topic,
         u.mastered = t.mastered, u.masteryBySubject = t.masteryBySubject,
         u.state = "WaitForAnswer" =>
           /\ t.state = "WaitForAnswer"
           /\ u.hasAnswer = t.hasAnswer
           /\ u.confirmationCount = t.confirmationCount
           /\ u.isTransferQuestion = t.isTransferQuestion
           /\ u.question = t.question
           /\ u.originalQuestion = t.originalQuestion
           /\ t.diagnosisComplete => u.diagnosisComplete
  PROVE  RightSession(u)
<1>1. RecordAgrees(u) BY DEF RightSession, RecordAgrees, masteryKey
<1>2. Unanswered(u) BY DEF RightSession, Unanswered
<1>3. InOrder(u) BY DEF RightSession, InOrder
<1> QED BY <1>1, <1>2, <1>3 DEF RightSession

(* The grade band, the diagnosis, the misses and the explanations: none of *)
(* them touches the pending question (SetGradeBand, StartDiagnosis,        *)
(* RecordDiagnosticResponse, RecordDiagnosticResult, NoteIncorrectAttempt, *)
(* ResetWrongStreak, Teach).                                               *)
LEMMA SetGradeBandRight ==
  ASSUME NEW t, RightSession(t), NEW band \in GradeBands
  PROVE  RightSession(SetGradeBand(t, band))
<1>1. t \in Session BY DEF RightSession
<1>2. SetGradeBand(t, band) \in Session BY <1>1, SetGradeBandType
<1> QED BY <1>1, <1>2, SidelinedRight DEF SetGradeBand, Session

LEMMA StartDiagnosisRight ==
  ASSUME NEW t, RightSession(t)
  PROVE  RightSession(StartDiagnosis(t))
<1>1. t \in Session BY DEF RightSession
<1>2. StartDiagnosis(t) \in Session BY <1>1, StartDiagnosisType
<1> QED BY <1>1, <1>2, SidelinedRight DEF StartDiagnosis, Session

LEMMA RecordDiagnosticResponseRight ==
  ASSUME NEW t, RightSession(t), NEW response \in STRING
  PROVE  RightSession(RecordDiagnosticResponse(t, response))
<1>1. t \in Session BY DEF RightSession
<1>2. RecordDiagnosticResponse(t, response) \in Session
  BY <1>1, RecordDiagnosticResponseType
<1> QED BY <1>1, <1>2, SidelinedRight DEF RecordDiagnosticResponse, Session

LEMMA RecordDiagnosticResultRight ==
  ASSUME NEW t, RightSession(t), NEW result \in DiagnosticResult
  PROVE  RightSession(RecordDiagnosticResult(t, result))
<1>1. t \in Session BY DEF RightSession
<1>2. RecordDiagnosticResult(t, result) \in Session BY <1>1, RecordDiagnosticResultType
<1> QED BY <1>1, <1>2, SidelinedRight DEF RecordDiagnosticResult, Session

LEMMA NoteIncorrectAttemptRight ==
  ASSUME NEW t, RightSession(t)
  PROVE  RightSession(NoteIncorrectAttempt(t))
<1>1. t \in Session BY DEF RightSession
<1>2. NoteIncorrectAttempt(t) \in Session BY <1>1, NoteIncorrectAttemptType
<1> QED BY <1>1, <1>2, SidelinedRight DEF NoteIncorrectAttempt, Session

LEMMA ResetWrongStreakRight ==
  ASSUME NEW t, RightSession(t)
  PROVE  RightSession(ResetWrongStreak(t))
<1>1. t \in Session BY DEF RightSession
<1>2. ResetWrongStreak(t) \in Session BY <1>1, ResetWrongStreakType
<1> QED BY <1>1, <1>2, SidelinedRight DEF ResetWrongStreak, Session

LEMMA TeachRight ==
  ASSUME NEW t, RightSession(t)
  PROVE  RightSession(Teach(t))
<1>1. t \in Session BY DEF RightSession
<1>2. Teach(t) \in Session BY <1>1, TeachType
<1> QED BY <1>1, <1>2, SidelinedRight DEF Teach, Session

(* A submitted answer ends the wait for it (SubmitAnswer).                 *)
LEMMA SubmitAnswerRight ==
  ASSUME NEW t, RightSession(t), NEW a \in STRING
  PROVE  RightSession(SubmitAnswer(t, a))
<1>1. t \in Session BY DEF RightSession
<1>2. SubmitAnswer(t, a) \in Session BY <1>1, SubmitAnswerType
<1> QED BY <1>1, <1>2, SidelinedRight DEF SubmitAnswer, Session

(* A confirmation is counted only where no answer is waited for            *)
(* (RequestConfirmation).                                                  *)
LEMMA RequestConfirmationRight ==
  ASSUME NEW t, RightSession(t)
  PROVE  RightSession(RequestConfirmation(t))
<1>1. t \in Session BY DEF RightSession
<1>2. CASE MayConfirm(t)
  <2>1. t.confirmationCount + 1 \in 0 .. maxConfirmations
    BY <1>1, <1>2 DEF MayConfirm, Session, maxConfirmations
  <2>2. RequestConfirmation(t) \in Session
    BY <1>1, <1>2, <2>1 DEF RequestConfirmation, Session
  <2>3. t.state # "WaitForAnswer" BY <1>2 DEF MayConfirm
  <2> QED BY <1>1, <1>2, <2>2, <2>3, SidelinedRight DEF RequestConfirmation, Session
<1>3. CASE ~MayConfirm(t) BY <1>3 DEF RequestConfirmation
<1> QED BY <1>2, <1>3

(* A checked answer leaves the wait, and sets flag and map together, but   *)
(* for a session without a subject (CheckAnswer).                          *)
LEMMA CheckAnswerRight ==
  ASSUME NEW t, RightSession(t)
  PROVE  RightSession(CheckAnswer(t))
<1>1. t \in Session BY DEF RightSession
<1> DEFINE u == CheckAnswer(t)
           right == [t EXCEPT !.mastered = TRUE, !.state = "Mastered",
                      !.masteryBySubject = IF t.subject = NoText THEN @ ELSE @ \cup {masteryKey(t)}]
<1>2. u \in Session BY <1>1, CheckAnswerType
<1>3. CASE u = right
  <2>1. /\ right.state = "Mastered" /\ right.mastered
        /\ right.subject = t.subject /\ right.topic = t.topic
        /\ t.subject # NoText => masteryKey(t) \in right.masteryBySubject
    BY <1>1 DEF Session
  <2>2. masteryKey(right) = masteryKey(t) BY <2>1 DEF masteryKey
  <2> HIDE DEF u, right
  <2>3. RecordAgrees(u) BY <1>3, <2>1, <2>2 DEF RecordAgrees
  <2>4. Unanswered(u) /\ InOrder(u) BY <1>3, <2>1 DEF Unanswered, InOrder
  <2> QED BY <1>2, <2>3, <2>4 DEF RightSession, u
<1>4. CASE u # right
  <2>1. \E state \in {"Uncertain", "Incorrect", "AwaitingTransferCheck"} :
          u = [t EXCEPT !.state = state]
    BY <1>4 DEF CheckAnswer
  <2> HIDE DEF u, right
  <2> QED BY <1>1, <1>2, <2>1, SidelinedRight DEF Session, u
<1> QED BY <1>3, <1>4

(* The questions clear what was left of an earlier answer, and each is     *)
(* posed in its place in the order of the stages (AskQuestion,             *)
(* AskTransferQuestion).                                                   *)
LEMMA AskQuestionRight ==
  ASSUME NEW t, RightSession(t), NEW q \in STRING, NEW e \in STRING,
         AskQuestionErr(t) = NoError
  PROVE  RightSession(AskQuestion(t, q, e))
<1> DEFINE u == AskQuestion(t, q, e)
<1>1. t \in Session BY DEF RightSession
<1>2. u \in Session BY <1>1, AskQuestionType
<1>3. t.diagnosisComplete BY DEF AskQuestionErr, NoError
<1>4. /\ u.subject = t.subject /\ u.topic = t.topic
      /\ u.mastered = t.mastered /\ u.masteryBySubject = t.masteryBySubject
      /\ ~u.hasAnswer /\ u.confirmationCount = 0
      /\ ~u.isTransferQuestion /\ u.diagnosisComplete /\ u.question = u.originalQuestion
  BY <1>1, <1>3 DEF AskQuestion, Session
<1> HIDE DEF u
<1>5. RecordAgrees(u) BY <1>4 DEF RightSession, RecordAgrees, masteryKey
<1> QED BY <1>2, <1>4, <1>5 DEF RightSession, Unanswered, InOrder, u

LEMMA AskTransferQuestionRight ==
  ASSUME NEW t, RightSession(t), NEW q \in STRING, NEW e \in STRING,
         AskTransferQuestionErr(t, q) = NoError
  PROVE  RightSession(AskTransferQuestion(t, q, e))
<1> DEFINE u == AskTransferQuestion(t, q, e)
<1>1. t \in Session BY DEF RightSession
<1>2. u \in Session BY <1>1, AskTransferQuestionType
<1>3. q # t.originalQuestion BY DEF AskTransferQuestionErr, NoError
<1>4. /\ u.subject = t.subject /\ u.topic = t.topic
      /\ u.mastered = t.mastered /\ u.masteryBySubject = t.masteryBySubject
      /\ ~u.hasAnswer /\ u.confirmationCount = 0
      /\ u.isTransferQuestion /\ u.question # u.originalQuestion
  BY <1>1, <1>3 DEF AskTransferQuestion, Session
<1> HIDE DEF u
<1>5. RecordAgrees(u) BY <1>4 DEF RightSession, RecordAgrees, masteryKey
<1> QED BY <1>2, <1>4, <1>5 DEF RightSession, Unanswered, InOrder, u

-----------------------------------------------------------------------------
(* The invariant holds at first, and every call keeps it. *)

(* A new session is right (New). *)
LEMMA InitRight == Init => IInv
<1> SUFFICES ASSUME Init PROVE IInv OBVIOUS
<1>1. s \in Session BY NewType, CallsType DEF Init
<1>2. s.subject = NoText /\ s.state = "Idle" /\ s.confirmationCount = 0
  BY DEF Init, New
<1>3. confirmed = 0 BY DEF Init
<1> QED BY <1>1, <1>2, <1>3 DEF IInv, RightSession, RecordAgrees, Unanswered, InOrder

(* Of a right session, whatever starts over counts nothing it has not. *)
LEMMA StartOverRight ==
  ASSUME IInv, NEW t, RightSession(t), StartOver(t)
  PROVE  IInv'
<1>1. t.confirmationCount \in Nat BY DEF RightSession, Session, maxConfirmations
<1> QED BY <1>1 DEF IInv, StartOver, RightSession, RecordAgrees, Unanswered, InOrder, masteryKey

(* Whatever grants nothing keeps the bound if it does not lower the count. *)
LEMMA GrantsNothingRight ==
  ASSUME IInv, NEW t, RightSession(t), s' = t,
         confirmed' = 0 \/ (confirmed' = confirmed /\ t.confirmationCount = s.confirmationCount)
  PROVE  IInv'
<1>1. t.confirmationCount \in Nat BY DEF RightSession, Session, maxConfirmations
<1> QED BY <1>1 DEF IInv, RightSession, RecordAgrees, Unanswered, InOrder, masteryKey

LEMMA NextRight == IInv /\ [Next]_vars => IInv'
<1> SUFFICES ASSUME IInv, [Next]_vars PROVE IInv' OBVIOUS
<1>0. RightSession(s) /\ s \in Session BY DEF IInv, RightSession
<1>1. CASE CallSetGradeBand
  <2>1. PICK band \in Bands : /\ SetGradeBandErr(band) = NoError
                              /\ s' = SetGradeBand(s, band) /\ confirmed' = confirmed
    BY <1>1 DEF CallSetGradeBand
  <2>2. band \in GradeBands BY <2>1 DEF SetGradeBandErr, NoError
  <2>3. SetGradeBand(s, band).confirmationCount = s.confirmationCount
    BY <1>0 DEF SetGradeBand, Session
  <2> QED BY <1>0, <2>1, <2>2, <2>3, SetGradeBandRight, GrantsNothingRight
<1>2. CASE CallSelectSubject
  BY <1>0, <1>2, SelectSubjectRight, StartOverRight DEF CallSelectSubject
<1>3. CASE CallSelectTopic
  BY <1>0, <1>3, SelectTopicRight, StartOverRight DEF CallSelectTopic
<1>4. CASE CallResetAttempt
  BY <1>0, <1>4, ResetAttemptRight, StartOverRight DEF CallResetAttempt
<1>5. CASE CallStartDiagnosis
  <2>1. StartDiagnosis(s).confirmationCount = s.confirmationCount
    BY <1>0 DEF StartDiagnosis, Session
  <2> QED BY <1>0, <1>5, <2>1, StartDiagnosisRight, GrantsNothingRight DEF CallStartDiagnosis
<1>6. CASE CallRecordDiagnosticResponse
  <2>1. PICK response \in Responses :
          s' = RecordDiagnosticResponse(s, response) /\ confirmed' = confirmed
    BY <1>6 DEF CallRecordDiagnosticResponse
  <2>2. RecordDiagnosticResponse(s, response).confirmationCount = s.confirmationCount
    BY <1>0 DEF RecordDiagnosticResponse, Session
  <2> QED BY <1>0, <2>1, <2>2, CallsType, RecordDiagnosticResponseRight, GrantsNothingRight
<1>7. CASE CallRecordDiagnosticResult
  <2>1. PICK result \in Results :
          s' = RecordDiagnosticResult(s, result) /\ confirmed' = confirmed
    BY <1>7 DEF CallRecordDiagnosticResult
  <2>2. RecordDiagnosticResult(s, result).confirmationCount = s.confirmationCount
    BY <1>0 DEF RecordDiagnosticResult, Session
  <2> QED BY <1>0, <2>1, <2>2, CallsType, RecordDiagnosticResultRight, GrantsNothingRight
<1>8. CASE CallAskQuestion
  BY <1>0, <1>8, CallsType, AskQuestionRight, GrantsNothingRight DEF CallAskQuestion
<1>9. CASE CallAskTransferQuestion
  BY <1>0, <1>9, CallsType, AskTransferQuestionRight, GrantsNothingRight
  DEF CallAskTransferQuestion
<1>10. CASE CallSubmitAnswer
  BY <1>0, <1>10, CallsType, SubmitAnswerRight, GrantsNothingRight DEF CallSubmitAnswer
<1>11. CASE CallCheckAnswer
  <2>1. CheckAnswer(s).confirmationCount = s.confirmationCount
    BY <1>0 DEF CheckAnswer, Session
  <2> QED BY <1>0, <1>11, <2>1, CheckAnswerRight, GrantsNothingRight DEF CallCheckAnswer
<1>12. CASE CallRequestConfirmation
  <2>1. RightSession(s') BY <1>0, <1>12, RequestConfirmationRight DEF CallRequestConfirmation
  <2>2. CASE MayConfirm(s)
    <3>1. confirmed' = confirmed + 1 BY <1>12, <2>2 DEF CallRequestConfirmation
    <3>2. s'.confirmationCount = s.confirmationCount + 1
      BY <1>0, <1>12, <2>2 DEF CallRequestConfirmation, RequestConfirmation, Session
    <3>3. s.confirmationCount \in Nat /\ s.confirmationCount + 1 \in Nat
      BY <1>0 DEF Session, maxConfirmations
    <3> QED BY <2>1, <3>1, <3>2, <3>3
        DEF IInv, RightSession, RecordAgrees, Unanswered, InOrder, masteryKey
  <2>3. CASE ~MayConfirm(s)
    BY <1>0, <1>12, <2>3, GrantsNothingRight DEF CallRequestConfirmation, RequestConfirmation
  <2> QED BY <2>2, <2>3
<1>13. CASE CallNoteIncorrectAttempt
  <2>1. NoteIncorrectAttempt(s).confirmationCount = s.confirmationCount
    BY <1>0 DEF NoteIncorrectAttempt, Session
  <2> QED BY <1>0, <1>13, <2>1, NoteIncorrectAttemptRight, GrantsNothingRight
      DEF CallNoteIncorrectAttempt
<1>14. CASE CallResetWrongStreak
  <2>1. ResetWrongStreak(s).confirmationCount = s.confirmationCount
    BY <1>0 DEF ResetWrongStreak, Session
  <2> QED BY <1>0, <1>14, <2>1, ResetWrongStreakRight, GrantsNothingRight DEF CallResetWrongStreak
<1>15. CASE CallTeach
  <2>1. Teach(s).confirmationCount = s.confirmationCount BY <1>0 DEF Teach, Session
  <2> QED BY <1>0, <1>15, <2>1, TeachRight, GrantsNothingRight DEF CallTeach
<1>16. CASE UNCHANGED vars BY <1>0, <1>16, GrantsNothingRight DEF vars
<1> QED BY <1>1, <1>2, <1>3, <1>4, <1>5, <1>6, <1>7, <1>8, <1>9, <1>10, <1>11, <1>12,
           <1>13, <1>14, <1>15, <1>16 DEF Next

LEMMA AlwaysRight == Spec => []IInv
  BY InitRight, NextRight, PTL DEF Spec

-----------------------------------------------------------------------------
(* Every field keeps its type, the count of confirmations its bound        *)
(* (session.Session).                                                      *)
THEOREM TypeCorrect == Spec => []TypeOK
<1>1. IInv => TypeOK BY DEF IInv, RightSession, TypeOK
<1> QED BY <1>1, AlwaysRight, PTL

(* IsMastered never tells anything else than the mastery map, in whatever  *)
(* order topics are selected, answered and selected again                  *)
(* (restoreMasteryForCurrentSelection, CheckAnswer).                       *)
THEOREM MasteryRecordCorrect == Spec => []MasteryRecordAgrees
<1>1. IInv => MasteryRecordAgrees
  BY DEF IInv, RightSession, RecordAgrees, MasteryRecordAgrees
<1> QED BY <1>1, AlwaysRight, PTL

(* No answer to an earlier question is ever taken for the answer to the    *)
(* pending one (AskQuestion, AskTransferQuestion).                         *)
THEOREM PendingIsUnanswered == Spec => []PendingUnanswered
<1>1. IInv => PendingUnanswered BY DEF IInv, RightSession, Unanswered, PendingUnanswered
<1> QED BY <1>1, AlwaysRight, PTL

(* No order of calls poses a practice question before the diagnosis, or    *)
(* the practice question again as transfer question (AskQuestion,          *)
(* AskTransferQuestion).                                                   *)
THEOREM StagesAreInOrder == Spec => []StagesInOrder
<1>1. IInv => StagesInOrder BY DEF IInv, RightSession, InOrder, StagesInOrder
<1> QED BY <1>1, AlwaysRight, PTL

(* No answer is granted more confirmations than maxConfirmations, whatever *)
(* is called between the requests for one (RequestConfirmation).           *)
THEOREM ConfirmationsBounded == Spec => []NoThirdConfirmation
<1>1. ASSUME IInv PROVE NoThirdConfirmation
  <2>1. s.confirmationCount \in 0 .. maxConfirmations
    BY <1>1 DEF IInv, RightSession, Session
  <2> QED BY <1>1, <2>1 DEF IInv, NoThirdConfirmation, maxConfirmations
<1> QED BY <1>1, AlwaysRight, PTL

-----------------------------------------------------------------------------
(* What a call may never do. *)

(* A selection or reset takes the flag from the map and leaves the map.    *)
LEMMA ReselectedMastery ==
  ASSUME NEW t \in Session,
         NEW u \in {SelectSubject(t, subject) : subject \in Subjects}
                     \cup {SelectTopic(t, topic) : topic \in Topics} \cup {ResetAttempt(t)}
  PROVE  /\ u.masteryBySubject = t.masteryBySubject
         /\ ~t.mastered /\ u.mastered => masteryKey(u) \in t.masteryBySubject
<1>1. ASSUME NEW v \in Session, v.masteryBySubject = t.masteryBySubject, u = ResetAttempt(v)
      PROVE  /\ u.masteryBySubject = t.masteryBySubject
             /\ u.mastered => masteryKey(u) \in t.masteryBySubject
  BY <1>1, ResetAttemptFields
<1>2. CASE u = ResetAttempt(t) BY <1>1, <1>2
<1>3. ASSUME NEW subject \in Subjects, u = SelectSubject(t, subject), u # t
      PROVE  \E v \in Session : v.masteryBySubject = t.masteryBySubject /\ u = ResetAttempt(v)
  <2> DEFINE v == [t EXCEPT !.subject = subject, !.topic = NoText]
  <2>1. v \in Session /\ v.masteryBySubject = t.masteryBySubject BY DEF Session
  <2> QED BY <1>3, <2>1 DEF SelectSubject
<1>4. ASSUME NEW topic \in Topics, u = SelectTopic(t, topic), u # t
      PROVE  \E v \in Session : v.masteryBySubject = t.masteryBySubject /\ u = ResetAttempt(v)
  <2> DEFINE v == [t EXCEPT !.topic = topic]
  <2>1. v \in Session /\ v.masteryBySubject = t.masteryBySubject BY DEF Session
  <2> QED BY <1>4, <2>1 DEF SelectTopic
<1>5. CASE u = t BY <1>5
<1> QED BY <1>1, <1>2, <1>3, <1>4, <1>5

(* The calls that neither select nor check leave flag and map alone. *)
LEMMA MasteryLeftAlone ==
  ASSUME s \in Session,
         \/ CallSetGradeBand \/ CallStartDiagnosis
         \/ CallRecordDiagnosticResponse \/ CallRecordDiagnosticResult
         \/ CallAskQuestion \/ CallAskTransferQuestion
         \/ CallSubmitAnswer \/ CallRequestConfirmation
         \/ CallNoteIncorrectAttempt \/ CallResetWrongStreak \/ CallTeach
         \/ UNCHANGED vars
  PROVE  s'.mastered = s.mastered /\ s'.masteryBySubject = s.masteryBySubject
<1>1. CASE CallSetGradeBand BY <1>1 DEF CallSetGradeBand, SetGradeBand, Session
<1>2. CASE CallStartDiagnosis BY <1>2 DEF CallStartDiagnosis, StartDiagnosis, Session
<1>3. CASE CallRecordDiagnosticResponse \/ CallRecordDiagnosticResult
  BY <1>3 DEF CallRecordDiagnosticResponse, CallRecordDiagnosticResult,
     RecordDiagnosticResponse, RecordDiagnosticResult, Session
<1>4. CASE CallAskQuestion \/ CallAskTransferQuestion
  BY <1>4 DEF CallAskQuestion, CallAskTransferQuestion, AskQuestion, AskTransferQuestion, Session
<1>5. CASE CallSubmitAnswer \/ CallRequestConfirmation
  BY <1>5 DEF CallSubmitAnswer, CallRequestConfirmation, SubmitAnswer, RequestConfirmation, Session
<1>6. CASE CallNoteIncorrectAttempt \/ CallResetWrongStreak \/ CallTeach
  BY <1>6 DEF CallNoteIncorrectAttempt, CallResetWrongStreak, CallTeach,
     NoteIncorrectAttempt, ResetWrongStreak, Teach, Session
<1>7. CASE UNCHANGED vars BY <1>7 DEF vars
<1> QED BY <1>1, <1>2, <1>3, <1>4, <1>5, <1>6, <1>7

(* So a call changes them in one of two ways. *)
LEMMA MasteryChanges ==
  ASSUME IInv, [Next]_vars
  PROVE  /\ s.masteryBySubject \subseteq s'.masteryBySubject
         /\ ~s.mastered /\ s'.mastered =>
              \/ s.isTransferQuestion /\ SameAnswer(s.answer, s.expectedAnswer)
              \/ masteryKey(s') \in s.masteryBySubject
<1>1. s \in Session BY DEF IInv, RightSession
<1>2. CASE CallSelectSubject \/ CallSelectTopic \/ CallResetAttempt
  BY <1>1, <1>2, ReselectedMastery
  DEF CallSelectSubject, CallSelectTopic, CallResetAttempt, StartOver
<1>3. CASE CallCheckAnswer
  <2>1. s' = CheckAnswer(s) BY <1>3 DEF CallCheckAnswer
  <2>2. s.masteryBySubject \subseteq s'.masteryBySubject
    BY <1>1, <2>1 DEF CheckAnswer, Session
  <2>3. s'.mastered # s.mastered =>
          s.isTransferQuestion /\ SameAnswer(s.answer, s.expectedAnswer)
    BY <1>1, <2>1 DEF CheckAnswer, Session
  <2> QED BY <2>2, <2>3
<1>4. CASE ~(CallSelectSubject \/ CallSelectTopic \/ CallResetAttempt \/ CallCheckAnswer)
  BY <1>1, <1>4, MasteryLeftAlone DEF Next
<1> QED BY <1>2, <1>3, <1>4

(* No sequence of calls gets a topic mastered past the transfer question   *)
(* (CheckAnswer), but by selecting one mastered before.                    *)
THEOREM MasteryIsVerified == Spec => MasteredByTransferOnly
<1>1. IInv /\ [Next]_vars =>
        [~s.mastered /\ s'.mastered =>
           \/ s.isTransferQuestion /\ SameAnswer(s.answer, s.expectedAnswer)
           \/ masteryKey(s') \in s.masteryBySubject]_vars
  BY MasteryChanges
<1> QED BY <1>1, AlwaysRight, PTL DEF Spec, MasteredByTransferOnly

(* No call forgets a mastery once recorded (resetForNewSelection).         *)
THEOREM MasteryNeverForgotten == Spec => RecordedMasteryKept
<1>1. IInv /\ [Next]_vars => [s.masteryBySubject \subseteq s'.masteryBySubject]_vars
  BY MasteryChanges
<1> QED BY <1>1, AlwaysRight, PTL DEF Spec, RecordedMasteryKept

=============================================================================
