---------------------------- MODULE SessionProofs ----------------------------
(***************************************************************************)
(* Lemmas about the methods of a session: each takes a session to a        *)
(* session, and what the selection of a topic leaves behind.               *)
(***************************************************************************)
EXTENDS Session, TLAPS

(* The values that methods write, in the types of the fields. *)

(* The zero DiagnosticResult is one (ai.DiagnosticResult). *)
LEMMA NoResultType == NoResult \in DiagnosticResult
  BY NoTextType DEF NoResult, DiagnosticResult

(* A confirmation count starts at zero (maxConfirmations). *)
LEMMA ZeroConfirmations == 0 \in 0 .. maxConfirmations
  BY DEF maxConfirmations

(* The key of any session's topic is a string (masteryKey). *)
LEMMA KeyIsString == ASSUME NEW s \in Session PROVE masteryKey(s) \in STRING
  BY KeyType DEF masteryKey, Session

-----------------------------------------------------------------------------
(* New makes a session (session.New). *)
LEMMA NewType == ASSUME NEW l \in STRING PROVE New(l) \in Session
<1>1. "Idle" \in States BY DEF States
<1> QED BY <1>1, NoResultType, ZeroConfirmations, NoTextType DEF New, Session

(* SetGradeBand with one of the bands it accepts keeps a session a session. *)
LEMMA SetGradeBandType ==
  ASSUME NEW s \in Session, NEW band \in GradeBands
  PROVE  SetGradeBand(s, band) \in Session
  BY DEF SetGradeBand, Session

(* resetForNewSelection keeps a session a session. *)
LEMMA ResetType == ASSUME NEW s \in Session PROVE resetForNewSelection(s) \in Session
<1>1. "Idle" \in States BY DEF States
<1>2. 0 \in Nat OBVIOUS
<1> QED BY <1>1, <1>2, NoResultType, ZeroConfirmations, NoTextType
        DEF resetForNewSelection, Session

(* restoreMasteryForCurrentSelection keeps a session a session. *)
LEMMA RestoreType == ASSUME NEW s \in Session PROVE restoreMastery(s) \in Session
  BY DEF restoreMastery, Session, States

(* ResetAttempt keeps a session a session. *)
LEMMA ResetAttemptType == ASSUME NEW s \in Session PROVE ResetAttempt(s) \in Session
  BY ResetType, RestoreType DEF ResetAttempt

(* What ResetAttempt leaves: the selection, the band and the mastery map,  *)
(* nothing of the attempt, and the mastery flag the map calls for.         *)
LEMMA ResetAttemptFields ==
  ASSUME NEW s \in Session
  PROVE  LET t == ResetAttempt(s)
         IN  /\ t.learnerName = s.learnerName
             /\ t.gradeBand = s.gradeBand
             /\ t.subject = s.subject
             /\ t.topic = s.topic
             /\ t.masteryBySubject = s.masteryBySubject
             /\ masteryKey(t) = masteryKey(s)
             /\ t.mastered <=> masteryKey(s) \in s.masteryBySubject
             /\ t.state = IF t.mastered THEN "Mastered" ELSE "Idle"
             /\ t.diagnosisComplete = FALSE
             /\ t.diagnosticFinding = NoText
             /\ t.diagnosticResult = NoResult
             /\ t.isTransferQuestion = FALSE
             /\ t.hasAnswer = FALSE
             /\ t.confirmationCount = 0
             /\ t.wrongStreak = 0
<1> DEFINE r == resetForNewSelection(s)
           t == ResetAttempt(s)
<1>1. /\ r \in Session
      /\ r.learnerName = s.learnerName
      /\ r.gradeBand = s.gradeBand
      /\ r.subject = s.subject
      /\ r.topic = s.topic
      /\ r.masteryBySubject = s.masteryBySubject
      /\ r.state = "Idle"
      /\ r.diagnosisComplete = FALSE
      /\ r.diagnosticFinding = NoText
      /\ r.diagnosticResult = NoResult
      /\ r.isTransferQuestion = FALSE
      /\ r.hasAnswer = FALSE
      /\ r.confirmationCount = 0
      /\ r.wrongStreak = 0
  BY ResetType DEF resetForNewSelection, Session
<1>2. masteryKey(r) = masteryKey(s)
  BY <1>1 DEF masteryKey
<1>3. t = restoreMastery(r)
  BY DEF ResetAttempt
<1> HIDE DEF r, t
<1>4. /\ t.learnerName = s.learnerName
      /\ t.gradeBand = s.gradeBand
      /\ t.subject = s.subject
      /\ t.topic = s.topic
      /\ t.masteryBySubject = s.masteryBySubject
      /\ t.mastered <=> masteryKey(s) \in s.masteryBySubject
      /\ t.state = IF t.mastered THEN "Mastered" ELSE "Idle"
      /\ t.diagnosisComplete = FALSE
      /\ t.diagnosticFinding = NoText
      /\ t.diagnosticResult = NoResult
      /\ t.isTransferQuestion = FALSE
      /\ t.hasAnswer = FALSE
      /\ t.confirmationCount = 0
      /\ t.wrongStreak = 0
  BY <1>1, <1>2, <1>3 DEF restoreMastery, Session
<1>5. masteryKey(t) = masteryKey(s)
  BY <1>4 DEF masteryKey
<1> QED BY <1>4, <1>5 DEF t

(* SelectSubject and SelectTopic keep a session a session. *)
LEMMA SelectSubjectType ==
  ASSUME NEW s \in Session, NEW subject \in Subjects \cup {NoText}
  PROVE  SelectSubject(s, subject) \in Session
<1>1. [s EXCEPT !.subject = subject, !.topic = NoText] \in Session
  BY DEF Session
<1> QED BY <1>1, ResetAttemptType DEF SelectSubject

LEMMA SelectTopicType ==
  ASSUME NEW s \in Session, NEW topic \in Topics \cup {NoText}
  PROVE  SelectTopic(s, topic) \in Session
<1>1. [s EXCEPT !.topic = topic] \in Session
  BY DEF Session
<1> QED BY <1>1, ResetAttemptType DEF SelectTopic

-----------------------------------------------------------------------------
(* The methods of diagnosis, questions, answers and teaching keep a        *)
(* session a session.                                                      *)
LEMMA StartDiagnosisType == ASSUME NEW s \in Session PROVE StartDiagnosis(s) \in Session
  BY DEF StartDiagnosis, Session, States

LEMMA RecordDiagnosticResponseType ==
  ASSUME NEW s \in Session, NEW response \in STRING
  PROVE  RecordDiagnosticResponse(s, response) \in Session
  BY DEF RecordDiagnosticResponse, Session

LEMMA RecordDiagnosticResultType ==
  ASSUME NEW s \in Session, NEW result \in DiagnosticResult
  PROVE  RecordDiagnosticResult(s, result) \in Session
  BY DEF RecordDiagnosticResult, Session

LEMMA AskQuestionType ==
  ASSUME NEW s \in Session, NEW q \in STRING, NEW e \in STRING
  PROVE  AskQuestion(s, q, e) \in Session
<1>1. "WaitForAnswer" \in States BY DEF States
<1> QED BY <1>1, ZeroConfirmations DEF AskQuestion, Session

LEMMA AskTransferQuestionType ==
  ASSUME NEW s \in Session, NEW q \in STRING, NEW e \in STRING
  PROVE  AskTransferQuestion(s, q, e) \in Session
<1>1. "WaitForAnswer" \in States BY DEF States
<1> QED BY <1>1, ZeroConfirmations DEF AskTransferQuestion, Session

LEMMA SubmitAnswerType ==
  ASSUME NEW s \in Session, NEW a \in STRING PROVE SubmitAnswer(s, a) \in Session
  BY DEF SubmitAnswer, Session, States

LEMMA CheckAnswerType == ASSUME NEW s \in Session PROVE CheckAnswer(s) \in Session
  BY KeyIsString DEF CheckAnswer, Session, States

LEMMA NoteIncorrectAttemptType ==
  ASSUME NEW s \in Session PROVE NoteIncorrectAttempt(s) \in Session
  BY DEF NoteIncorrectAttempt, Session

LEMMA ResetWrongStreakType == ASSUME NEW s \in Session PROVE ResetWrongStreak(s) \in Session
  BY DEF ResetWrongStreak, Session

LEMMA TeachType == ASSUME NEW s \in Session PROVE Teach(s) \in Session
  BY DEF Teach, Session

=============================================================================
