------------------------------ MODULE WebProofs ------------------------------
(***************************************************************************)
(* The page and the tutor together are a tutor with one kind of client, so *)
(* what is proved of the tutor holds behind the page.  What the page shows *)
(* agrees with what is saved, whatever is lost on the way and whatever     *)
(* fails behind it, but for what handlers at work together do: the server  *)
(* goes on with a request whose connection failed, and a page that sends   *)
(* again meanwhile has two of them save in either order.                   *)
(*                                                                         *)
(* The argument, first for any page: while the last request was sent with  *)
(* no other at work, one handler at most may save, so what it saves or     *)
(* finds saved is still saved when its reply is shown, and the prompt ends *)
(* with what that session expects.  Then for the page of one learner who   *)
(* waits for replies (Patient): a request the page gave up leaves behind   *)
(* TRUE, which lasts until a good reply to a request sent with no other at *)
(* work; until then nothing is claimed, and after it no handler is left.   *)
(* The report is fetched after the diagnosis is over, and no other can     *)
(* start before the page is loaded again, unless two explanations were at  *)
(* work together.                                                          *)
(***************************************************************************)
EXTENDS WebClient, TutorSerialProofs

(* Every learner on the page is the same one. *)
OneLearner == \A k, l \in Learners : k = l

(* A request of the forms, whose reply is a prompt to show. *)
Chat(h) == req[h].kind \in {"begin", "input"}

(* The texts end with what the session expects an answer to. *)
Agrees(texts, s) ==
  s.state \in {"Diagnosing", "WaitForAnswer"} => texts # <<>> /\ Last(texts) = Expects(s)

(* The prompt p goes with session s saved or read for a request r. *)
Shows(r, s, p) ==
  /\ Agrees(p, s)
  /\ r.kind = "begin" => s.state # "Idle"
  /\ r.kind = "input" => s.state # "Diagnosing"

(* A session s about to be saved tells what is on record of learner l's    *)
(* diagnosis, if it tells of one and none was being looked for.            *)
Keeps(l, s) ==
  s.diagnosisComplete =>
    /\ Saved(l)
    /\ store[l].state # "Diagnosing" =>
         store[l].diagnosisComplete /\ DiagnosisReport(store[l]) = DiagnosisReport(s)

Posed(h) == pc[h] \in {"save", "respond"} \/ (pc[h] = "done" /\ Good(out[h]))

HandlerShows(h) ==
  Chat(h) =>
    /\ Posed(h) => Shows(req[h], work[h], out[h].prompt)
    /\ pc[h] = "save" /\ req[h].kind = "input" => Keeps(req[h].learner, work[h])
    /\ pc[h] = "done" /\ Good(out[h]) => out[h].state # "no state"

(* A handler starts where its route says (Arrive). *)
Routed(h) == pc[h] \in Kinds => req[h].kind = pc[h]

-----------------------------------------------------------------------------
(* Replies. *)

(* Status 200 tells of no error (statusForError). *)
LEMMA GoodReply == ASSUME NEW r PROVE Good(r) <=> r.err = NoError
  BY DEF Good, statusForError, NoError

(* The state of a saved session has a name (stateName). *)
LEMMA StateNamed ==
  ASSUME NEW s, Sound(s)
  PROVE  /\ stateName(s.state) # "no state"
         /\ stateName(s.state) = "mastered" <=> s.state = "Mastered"
  BY DEF stateName, Sound, AtRest

(* The last text of a prompt of one or two. *)
LEMMA LastText ==
  ASSUME NEW a, NEW b
  PROVE  /\ <<a>> # <<>> /\ Last(<<a>>) = a
         /\ <<a, b>> # <<>> /\ Last(<<a, b>>) = b
<1>1. Len(<<a>>) = 1 /\ Len(<<a, b>>) = 2 OBVIOUS
<1> QED BY <1>1 DEF Last

(* A load that finds no session reports an error (LoadErr). *)
LEMMA LoadErrTold == ASSUME NEW l, ~Saved(l) PROVE LoadErr(l) # NoError
  BY DEF LoadErr, NoError

-----------------------------------------------------------------------------
(* What the handlers of a patient learner are about to show. *)

(* A refusal is no good reply (Fail). *)
LEMMA FailShows ==
  ASSUME IInv, NEW h \in Handlers, NEW e, Fail(h, e), e # NoError
  PROVE  HandlerShows(h)'
<1>1. pc'[h] = "done" /\ out'[h].err = e
  BY DEF Fail, Goto, IInv, TypeOK, NoReply
<1>2. ~Good(out[h])' BY <1>1, GoodReply
<1> QED BY <1>1, <1>2 DEF HandlerShows, Posed

(* About to save what the prompt asks for (ThenSave). *)
LEMMA ThenSaveShows ==
  ASSUME IInv, NEW h \in Handlers, NEW s, NEW p, ThenSave(h, s, p),
         Chat(h) => /\ Shows(req[h], s, p)
                    /\ req[h].kind = "input" => Keeps(req[h].learner, s)
  PROVE  HandlerShows(h)'
<1>1. /\ pc'[h] = "save" /\ work'[h] = s /\ out'[h].prompt = p
      /\ store' = store /\ req'[h] = req[h]
  BY DEF ThenSave, Goto, IInv, TypeOK, NoReply, files
<1>2. Keeps(req[h].learner, s) => Keeps(req[h].learner, work[h])'
  BY <1>1 DEF Keeps, Saved
<1>3. Shows(req[h], s, p) => Shows(req[h], work[h], out[h].prompt)'
  BY <1>1 DEF Shows, Agrees, Expects
<1> QED BY <1>1, <1>2, <1>3 DEF HandlerShows, Posed, Chat

(* A request that arrives is refused or routed (Arrive). *)
LEMMA ArriveShows ==
  ASSUME IInv, NEW h \in Handlers, Arrive(h)
  PROVE  HandlerShows(h)'
<1>1. PICK r \in Requests :
        /\ req' = [req EXCEPT ![h] = r]
        /\ IF RequestErr(r) = NoError
           THEN Goto(h, r.kind) /\ UNCHANGED out
           ELSE Goto(h, "done") /\ out' = [out EXCEPT ![h].err = RequestErr(r)]
  BY DEF Arrive
<1>2. r.kind \in Kinds /\ req'[h] = r BY <1>1, RequestsType DEF Request, IInv, TypeOK
<1>3. CASE pc'[h] = r.kind
  BY <1>2, <1>3 DEF HandlerShows, Posed, Kinds
<1>4. CASE pc'[h] # r.kind
  <2>1. /\ pc'[h] = "done" /\ out' = [out EXCEPT ![h].err = RequestErr(r)]
        /\ RequestErr(r) # NoError
    BY <1>1, <1>4 DEF Goto, IInv, TypeOK
  <2>2. out'[h].err = RequestErr(r) BY <2>1 DEF IInv, TypeOK, Reply
  <2>3. ~Good(out[h])' BY <2>1, <2>2, GoodReply
  <2> QED BY <2>1, <2>3 DEF HandlerShows, Posed
<1> QED BY <1>3, <1>4

(* A topic begun asks for the explanation, one in progress its pending     *)
(* question, and one mastered neither (BeginTopic).                        *)
LEMMA BeginTopicShows ==
  ASSUME IInv, NEW h \in Handlers, BeginTopic(h)
  PROVE  HandlerShows(h)'
<1> DEFINE r == req[h]
           s0 == LoadOrNew(r.learner)
           s == Selected(s0, r)
           u == Begun(s)
           p == <<BeginPrompt(s, r)>>
<1>1. r \in Request /\ r.kind = "begin" /\ RequestErr(r) = NoError
  BY RequestsType DEF BeginTopic, IInv, HandlerSound, Calling
<1>2. r.subject # NoText /\ r.topic # NoText BY <1>1 DEF RequestErr, NoError
<1>3. s0 \in Session /\ (Sound(s0) \/ s0.subject = NoText)
  <2>1. CASE Saved(r.learner) BY <2>1, SavedSound DEF LoadOrNew
  <2>2. CASE ~Saved(r.learner)
    <3>1. r.learner \in STRING BY <1>1 DEF Request
    <3> QED BY <2>2, <3>1, NewType DEF LoadOrNew, New
  <2> QED BY <2>1, <2>2
<1>4. \/ r.learner \in torn /\ Fail(h, LoadErr(r.learner))
      \/ BeginErr(s0, r) # NoError /\ Fail(h, BeginErr(s0, r))
      \/ BeginErr(s0, r) = NoError /\ ThenSave(h, u, p)
  BY DEF BeginTopic
<1>5. CASE BeginErr(s0, r) = NoError /\ ThenSave(h, u, p)
  <2>1. /\ s \in Session /\ Sound(s)
        /\ s.topic = r.topic /\ s.gradeBand = r.gradeBand
    BY <1>1, <1>2, <1>3, <1>5, SelectedSound
  <2> HIDE DEF s
  <2>2. /\ s.state \in {"Idle", "Diagnosing", "WaitForAnswer", "Mastered"}
        /\ s.state \in {"Idle", "Diagnosing"} => ~s.diagnosisComplete
        /\ s.state = "WaitForAnswer" => s.diagnosisComplete
    BY <2>1 DEF Sound, AtRest, DiagnosisSound
  <2>3. u = IF s.state = "Idle" THEN [s EXCEPT !.state = "Diagnosing"] ELSE s
    BY <2>2 DEF Begun, StartDiagnosis
  <2>4. /\ u.topic = r.topic /\ u.gradeBand = r.gradeBand /\ u.question = s.question
        /\ u.state = IF s.state = "Idle" THEN "Diagnosing" ELSE s.state
    BY <2>1, <2>3 DEF Session
  <2>5. u.state \in {"Diagnosing", "WaitForAnswer"} => BeginPrompt(s, r) = Expects(u)
    BY <2>2, <2>4 DEF BeginPrompt, Expects
  <2>6. Agrees(p, u) BY <2>5, LastText DEF Agrees
  <2>7. Shows(r, u, p) BY <1>1, <2>2, <2>4, <2>6 DEF Shows
  <2> HIDE DEF u, p
  <2> QED BY <1>1, <1>5, <2>7, ThenSaveShows
<1>6. CASE r.learner \in torn /\ Fail(h, LoadErr(r.learner))
  <2>1. LoadErr(r.learner) # NoError BY <1>6 DEF LoadErr, NoError
  <2> QED BY <1>6, <2>1, FailShows
<1> QED BY <1>4, <1>5, <1>6, FailShows

(* The input is sent on, or refused (ApplyInput). *)
LEMMA ApplyInputShows ==
  ASSUME IInv, NEW h \in Handlers, ApplyInput(h)
  PROVE  HandlerShows(h)'
<1> DEFINE l == req[h].learner
<1>1. CASE ~Saved(l) BY <1>1, LoadErrTold, FailShows DEF ApplyInput
<1>2. CASE Saved(l) /\ Route(store[l]) = "nowhere"
  <2>1. "ErrNothingAwaitingInput" # NoError BY DEF NoError
  <2> QED BY <1>2, <2>1, FailShows DEF ApplyInput
<1>3. CASE Saved(l) /\ Route(store[l]) # "nowhere"
  <2>1. Route(store[l]) \in {"diagnose", "answer"} BY <1>3 DEF Route
  <2>2. pc'[h] \in {"diagnose", "answer"}
    BY <1>3, <2>1 DEF ApplyInput, Goto, IInv, TypeOK
  <2> QED BY <2>2 DEF HandlerShows, Posed
<1> QED BY <1>1, <1>2, <1>3

(* A stop leaves nothing to answer (Stop). *)
LEMMA StopShows ==
  ASSUME IInv, NEW h \in Handlers, Stop(h)
  PROVE  HandlerShows(h)'
<1> DEFINE l == req[h].learner
           s == ResetAttempt(store[l])
           p == <<stopPrompt>>
<1>1. CASE ~Saved(l) BY <1>1, LoadErrTold, FailShows DEF Stop
<1>2. CASE Saved(l) /\ store[l].mastered
  <2>1. store[l].state = "Mastered" BY <1>2, SavedSound DEF Sound, MasterySound
  <2>2. pc'[h] = "respond" /\ work'[h] = store[l]
    BY <1>2 DEF Stop, Goto, IInv, TypeOK
  <2>3. Shows(req[h], work[h], out[h].prompt)' BY <2>1, <2>2 DEF Shows, Agrees
  <2> QED BY <2>2, <2>3 DEF HandlerShows, Posed
<1>3. CASE Saved(l) /\ ~store[l].mastered
  <2>1. ThenSave(h, s, p) BY <1>3 DEF Stop
  <2>2. store[l] \in Session /\ Sound(store[l]) BY <1>3, SavedSound
  <2>3. masteryKey(store[l]) \notin store[l].masteryBySubject
    BY <1>3, <2>2 DEF Sound, MasterySound
  <2>4. s.state = "Idle" /\ ~s.diagnosisComplete BY <2>2, <2>3, ResetAttemptFields
  <2>5. req[h].kind = "input" BY DEF Stop, IInv, HandlerSound
  <2> HIDE DEF s, p
  <2>6. Shows(req[h], s, p) /\ Keeps(l, s) BY <2>4, <2>5 DEF Shows, Agrees, Keeps
  <2> QED BY <2>1, <2>6, ThenSaveShows
<1> QED BY <1>1, <1>2, <1>3

(* A question posed is what its session expects an answer to, and leaves   *)
(* the diagnosis on record (AskQuestion, AskTransferQuestion).             *)
LEMMA PosedExpected ==
  ASSUME NEW s \in Session, NEW q, NEW e,
         NEW u \in {AskQuestion(s, q, e), AskTransferQuestion(s, q, e)}
  PROVE  /\ u.state = "WaitForAnswer" /\ Expects(u) = q
         /\ u.diagnosisComplete = s.diagnosisComplete
         /\ DiagnosisReport(u) = DiagnosisReport(s)
<1>1. /\ u.state = "WaitForAnswer" /\ u.question = q
      /\ u.diagnosisComplete = s.diagnosisComplete
      /\ u.diagnosticFinding = s.diagnosticFinding
      /\ u.diagnosticResult = s.diagnosticResult
  BY DEF AskQuestion, AskTransferQuestion, Session
<1> QED BY <1>1 DEF Expects, DiagnosisReport

(* About to save a question that the prompt ends with, for a session with  *)
(* the diagnosis on record.                                                *)
LEMMA AskShows ==
  ASSUME IInv, NEW h \in Handlers, req[h].kind = "input",
         NEW s \in Session, Keeps(req[h].learner, s), NEW q, NEW e,
         NEW u \in {AskQuestion(s, q, e), AskTransferQuestion(s, q, e)},
         NEW p, p # <<>>, Last(p) = q, ThenSave(h, u, p)
  PROVE  HandlerShows(h)'
<1>1. /\ u.state = "WaitForAnswer" /\ Expects(u) = q
      /\ u.diagnosisComplete = s.diagnosisComplete
      /\ DiagnosisReport(u) = DiagnosisReport(s)
  BY PosedExpected
<1>2. Shows(req[h], u, p) BY <1>1 DEF Shows, Agrees
<1>3. Keeps(req[h].learner, u) BY <1>1 DEF Keeps
<1> QED BY <1>2, <1>3, ThenSaveShows

(* The first question follows a diagnosis that was looked for (AskFirst). *)
LEMMA AskFirstShows ==
  ASSUME IInv, NEW h \in Handlers, req[h].kind = "input", req[h].input \in STRING,
         Saved(req[h].learner), store[req[h].learner].state = "Diagnosing",
         NEW s \in Session, AskFirst(h, s)
  PROVE  HandlerShows(h)'
<1> DEFINE t == RecordDiagnosticResponse(s, req[h].input)
           q == firstPracticeQuestion(s.topic, s.gradeBand)
           u == AskQuestion(t, q.question, q.expectedAnswer)
           p == <<q.question>>
<1>1. \/ AskQuestionErr(t) # NoError /\ Fail(h, AskQuestionErr(t))
      \/ ThenSave(h, u, p)
  BY DEF AskFirst
<1>2. CASE ThenSave(h, u, p)
  <2>1. t \in Session BY RecordDiagnosticResponseType
  <2>2. Keeps(req[h].learner, t) BY DEF Keeps
  <2> HIDE DEF t
  <2>3. p # <<>> /\ Last(p) = q.question BY LastText
  <2>4. u \in {AskQuestion(t, q.question, q.expectedAnswer),
               AskTransferQuestion(t, q.question, q.expectedAnswer)}
    OBVIOUS
  <2> HIDE DEF q, u, p
  <2> QED BY <1>2, <2>1, <2>2, <2>3, <2>4, AskShows
<1> QED BY <1>1, <1>2, FailShows

(* The explanation is refused, sent to the provider or recorded            *)
(* (SubmitDiagnosis).                                                      *)
LEMMA SubmitDiagnosisShows ==
  ASSUME IInv, NEW h \in Handlers, SubmitDiagnosis(h)
  PROVE  HandlerShows(h)'
<1> DEFINE l == req[h].learner
<1>1. CASE DiagnosisErr(l) # NoError BY <1>1, FailShows DEF SubmitDiagnosis
<1>2. CASE DiagnosisErr(l) = NoError
  <2>1. Saved(l) /\ store[l].state = "Diagnosing" /\ store[l] \in Session
    BY <1>2, LoadErrTold, SavedSound DEF DiagnosisErr, NoError
  <2>2. req[h].kind = "input" /\ req[h].input \in STRING
    BY RequestsType DEF SubmitDiagnosis, IInv, HandlerSound, Calling, Request
  <2>3. CASE ~HasProvider
    <3>1. AskFirst(h, store[l]) BY <1>2, <2>3 DEF SubmitDiagnosis
    <3> QED BY <2>1, <2>2, <3>1, AskFirstShows
  <2>4. CASE HasProvider
    <3>1. pc'[h] = "provider" BY <1>2, <2>4 DEF SubmitDiagnosis, Goto, IInv, TypeOK
    <3> QED BY <3>1 DEF HandlerShows, Posed
  <2> QED BY <2>3, <2>4
<1> QED BY <1>1, <1>2

(* The provider answers, refuses its JSON mode or fails. *)
LEMMA ProviderShows ==
  ASSUME IInv, SerialInv, NEW h \in Handlers,
         ProviderAnswers(h) \/ ProviderRefusesJSONMode(h) \/ ProviderFails(h)
  PROVE  HandlerShows(h)'
<1> DEFINE l == req[h].learner
<1>1. CASE ProviderAnswers(h)
  <2>1. PICK result \in ProviderResults :
          \/ /\ RecordDiagnosticResultErr(result) # NoError
             /\ Fail(h, RecordDiagnosticResultErr(result))
          \/ AskFirst(h, RecordDiagnosticResult(work[h], result))
    BY <1>1 DEF ProviderAnswers
  <2>2. /\ req[h].kind = "input" /\ req[h].input \in STRING
        /\ Saved(l) /\ work[h] = store[l] /\ work[h].state = "Diagnosing"
        /\ work[h] \in Session
    BY <1>1, RequestsType
    DEF ProviderAnswers, Calling, IInv, TypeOK, HandlerSound, SerialInv, HandlerSerial, Request
  <2> DEFINE s == RecordDiagnosticResult(work[h], result)
  <2>3. s \in Session BY <2>2, ProviderType, RecordDiagnosticResultType
  <2> HIDE DEF s
  <2>4. CASE AskFirst(h, s) BY <2>2, <2>3, <2>4, AskFirstShows
  <2> QED BY <2>1, <2>4, FailShows DEF s
<1>2. CASE ProviderRefusesJSONMode(h)
  <2>1. pc'[h] = "retry" BY <1>2 DEF ProviderRefusesJSONMode, Goto, IInv, TypeOK
  <2> QED BY <2>1 DEF HandlerShows, Posed
<1>3. CASE ProviderFails(h)
  <2>1. "ErrProvider" # NoError BY DEF NoError
  <2> QED BY <1>3, <2>1, FailShows DEF ProviderFails
<1> QED BY <1>1, <1>2, <1>3

(* A question after an answer, for a session with the diagnosis on record  *)
(* (AskNext, AskTransfer).                                                 *)
LEMMA AskNextShows ==
  ASSUME IInv, NEW h \in Handlers, req[h].kind = "input",
         NEW s \in Session, Keeps(req[h].learner, s),
         NEW explained \in BOOLEAN, AskNext(h, s, explained)
  PROVE  HandlerShows(h)'
<1> DEFINE v == Teach(s)
           t == IF explained THEN ResetWrongStreak(v) ELSE s
           q == nextPracticeQuestion(s.topic, s.gradeBand, s.question)
           u == AskQuestion(t, q.question, q.expectedAnswer)
           x == explanation(s.topic, s.gradeBand)
           p == IF explained THEN <<x, q.question>> ELSE <<q.question>>
<1>1. \/ \E e : e # NoError /\ Fail(h, e)
      \/ ThenSave(h, u, p)
  BY DEF AskNext
<1>2. CASE ThenSave(h, u, p)
  <2>1. /\ v \in Session /\ v.diagnosisComplete = s.diagnosisComplete
        /\ v.diagnosticFinding = s.diagnosticFinding
        /\ v.diagnosticResult = s.diagnosticResult
    BY TeachType DEF Teach, Session
  <2> HIDE DEF v
  <2>2. /\ t \in Session /\ t.diagnosisComplete = s.diagnosisComplete
        /\ t.diagnosticFinding = s.diagnosticFinding
        /\ t.diagnosticResult = s.diagnosticResult
    BY <2>1, ResetWrongStreakType DEF ResetWrongStreak, Session
  <2> HIDE DEF t
  <2>3. Keeps(req[h].learner, t) BY <2>2 DEF Keeps, DiagnosisReport
  <2>4. p # <<>> /\ Last(p) = q.question
    <3> HIDE DEF q, x
    <3>1. CASE explained
      <4>1. p = <<x, q.question>> BY <3>1
      <4> QED BY <4>1, LastText
    <3>2. CASE ~explained
      <4>1. p = <<q.question>> BY <3>2
      <4> QED BY <4>1, LastText
    <3> QED BY <3>1, <3>2
  <2>5. u \in {AskQuestion(t, q.question, q.expectedAnswer),
               AskTransferQuestion(t, q.question, q.expectedAnswer)}
    OBVIOUS
  <2> HIDE DEF q, u, p
  <2> QED BY <1>2, <2>2, <2>3, <2>4, <2>5, AskShows
<1> QED BY <1>1, <1>2, FailShows

(* The same for the transfer question (AskTransfer). *)
LEMMA AskTransferShows ==
  ASSUME IInv, NEW h \in Handlers, req[h].kind = "input",
         NEW s \in Session, Keeps(req[h].learner, s), AskTransfer(h, s)
  PROVE  HandlerShows(h)'
<1> DEFINE q == transferQuestion(s.topic, s.gradeBand)
           u == AskTransferQuestion(s, q.question, q.expectedAnswer)
           p == <<q.question>>
<1>1. \/ \E e : e # NoError /\ Fail(h, e)
      \/ ThenSave(h, u, p)
  BY DEF AskTransfer
<1>2. CASE ThenSave(h, u, p)
  <2>1. p # <<>> /\ Last(p) = q.question BY LastText
  <2>2. u \in {AskQuestion(s, q.question, q.expectedAnswer),
               AskTransferQuestion(s, q.question, q.expectedAnswer)}
    OBVIOUS
  <2> HIDE DEF q, u, p
  <2> QED BY <1>2, <2>1, <2>2, AskShows
<1> QED BY <1>1, <1>2, FailShows

(* The answer is checked: the diagnosis stays on record and what follows   *)
(* is asked (SubmitAnswer).                                                *)
LEMMA AnswerQuestionShows ==
  ASSUME IInv, NEW h \in Handlers, AnswerQuestion(h)
  PROVE  HandlerShows(h)'
<1> DEFINE l == req[h].learner
           a == req[h].input
           s0 == store[l]
           s == Checked(l, a)
           r == ResetWrongStreak(s)
           n == NoteIncorrectAttempt(s)
           p == <<completionMessage(s.topic, s.gradeBand)>>
<1>1. CASE AnswerErr(l) # NoError BY <1>1, FailShows DEF AnswerQuestion
<1>2. CASE AnswerErr(l) = NoError
  <2>1. Saved(l) /\ s0.state = "WaitForAnswer"
    BY <1>2, LoadErrTold DEF AnswerErr, NoError
  <2>2. s0 \in Session /\ Sound(s0) BY <2>1, SavedSound
  <2>3. req[h].kind = "input" /\ a \in STRING
    BY RequestsType DEF AnswerQuestion, IInv, HandlerSound, Calling, Request
  <2>4. \/ s.state = "Mastered" /\ ThenSave(h, r, p)
        \/ s.state = "AwaitingTransferCheck" /\ AskTransfer(h, r)
        \/ s.state = "Incorrect" /\ AskNext(h, n, NeedsExplanation(n))
        \/ s.state = "Uncertain" /\ AskNext(h, r, TRUE)
    BY <1>2 DEF AnswerQuestion
  <2>5. s = CheckAnswer(SubmitAnswer(s0, a)) BY DEF Checked
  <2> HIDE DEF s
  <2>6. /\ s \in Session
        /\ s.diagnosticFinding = s0.diagnosticFinding
        /\ s.diagnosticResult = s0.diagnosticResult
    BY <2>1, <2>2, <2>3, <2>5, CheckedFields
  <2>7. s0.diagnosisComplete BY <2>1, <2>2 DEF Sound, DiagnosisSound
  <2>8. /\ r \in Session /\ r.diagnosticFinding = s.diagnosticFinding /\ r.state = s.state
        /\ n \in Session /\ n.diagnosticFinding = s.diagnosticFinding
        /\ r.diagnosticResult = s.diagnosticResult /\ n.diagnosticResult = s.diagnosticResult
    BY <2>6, ResetWrongStreakType, NoteIncorrectAttemptType
    DEF ResetWrongStreak, NoteIncorrectAttempt, Session
  <2>9. Keeps(l, r) /\ Keeps(l, n) BY <2>1, <2>6, <2>7, <2>8 DEF Keeps, DiagnosisReport
  <2>10. NeedsExplanation(n) \in BOOLEAN BY DEF NeedsExplanation
  <2> HIDE DEF r, n, p
  <2>11. CASE s.state = "Mastered" /\ ThenSave(h, r, p)
    <3>1. Shows(req[h], r, p) BY <2>3, <2>8, <2>11 DEF Shows, Agrees
    <3> QED BY <2>9, <2>11, <3>1, ThenSaveShows
  <2>12. CASE AskTransfer(h, r) BY <2>3, <2>8, <2>9, <2>12, AskTransferShows
  <2>13. CASE AskNext(h, n, NeedsExplanation(n))
    BY <2>3, <2>8, <2>9, <2>10, <2>13, AskNextShows
  <2>14. CASE AskNext(h, r, TRUE) BY <2>3, <2>8, <2>9, <2>14, AskNextShows
  <2> QED BY <2>4, <2>11, <2>12, <2>13, <2>14
<1> QED BY <1>1, <1>2

(* The other requests show no prompt that is to be answered                *)
(* (ChangeGradeBand, DiagnosticReport, ResumeSession).                     *)
LEMMA OtherRequestsShow ==
  ASSUME IInv, NEW h \in Handlers, Routed(h),
         ChangeGradeBand(h) \/ DiagnosticReport(h) \/ ResumeSession(h)
  PROVE  HandlerShows(h)'
<1>1. ~Chat(h) BY DEF Routed, Kinds, ChangeGradeBand, DiagnosticReport, ResumeSession, Chat
<1>2. req'[h] = req[h] BY RequestStays DEF HandlerStep, Proceed, Serve, Finish,
      ChangeGradeBand, DiagnosticReport, ResumeSession
<1>3. pc'[h] \in {"done", "save"}
  BY DEF ChangeGradeBand, DiagnosticReport, ResumeSession, Fail, ThenSave, Goto, IInv, TypeOK
<1> QED BY <1>1, <1>2, <1>3 DEF HandlerShows, Chat, Routed, Kinds

(* Saving changes neither the session nor the prompt, and the reply tells  *)
(* the state saved (Save, Respond).                                        *)
LEMMA SavingShows ==
  ASSUME IInv, SerialInv, NEW h \in Handlers, Routed(h), HandlerShows(h), Save(h) \/ Respond(h)
  PROVE  HandlerShows(h)'
<1> DEFINE l == req[h].learner
<1>1. CASE Save(h)
  <2>1. /\ pc[h] = "save" /\ req'[h] = req[h] /\ work'[h] = work[h] /\ out'[h] = out[h]
        /\ pc'[h] = IF req[h].kind = "band" THEN "done" ELSE "respond"
    BY <1>1 DEF Save, Goto, IInv, TypeOK
  <2>2. Shows(req[h], work[h], out[h].prompt) => Shows(req[h], work[h], out[h].prompt)'
    BY <2>1 DEF Shows, Agrees, Expects
  <2> QED BY <2>1, <2>2 DEF HandlerShows, Posed, Chat
<1>2. CASE Respond(h)
  <2>1. Saved(l) /\ work[h] = store[l] /\ pc[h] = "respond"
    BY <1>2 DEF Respond, SerialInv, HandlerSerial
  <2>2. /\ req'[h] = req[h] /\ work'[h] = work[h] /\ pc'[h] = "done"
        /\ out'[h].prompt = out[h].prompt
        /\ out'[h].state = stateName(store[l].state)
    BY <1>2, <2>1 DEF Respond, Goto, IInv, TypeOK, Reply
  <2>3. out'[h].state # "no state" BY <2>1, <2>2, SavedSound, StateNamed
  <2>4. Shows(req[h], work[h], out[h].prompt) => Shows(req[h], work[h], out[h].prompt)'
    BY <2>2 DEF Shows, Agrees, Expects
  <2> QED BY <2>1, <2>2, <2>3, <2>4 DEF HandlerShows, Posed, Chat
<1> QED BY <1>1, <1>2

(* The store fails, or the goroutine ends (LoadFails, SaveFails, Finish). *)
LEMMA EndShows ==
  ASSUME IInv, NEW h \in Handlers, LoadFails(h) \/ SaveFails(h) \/ Finish(h)
  PROVE  HandlerShows(h)'
<1>1. "ErrStore" # NoError BY DEF NoError
<1>2. CASE LoadFails(h) BY <1>1, <1>2, FailShows DEF LoadFails
<1>3. CASE SaveFails(h)
  <2>1. pc'[h] = "done" /\ out'[h].err = "ErrStore"
    BY <1>3 DEF SaveFails, Goto, IInv, TypeOK, NoReply
  <2>2. ~Good(out[h])' BY <1>1, <2>1, GoodReply
  <2> QED BY <2>1, <2>2 DEF HandlerShows, Posed
<1>4. CASE Finish(h)
  <2>1. pc'[h] = "idle" BY <1>4 DEF Finish, Goto, IInv, TypeOK
  <2> QED BY <2>1 DEF HandlerShows, Posed
<1> QED BY <1>2, <1>3, <1>4

(* A handler that does not move still shows what goes with what is saved. *)
LEMMA OthersShow ==
  ASSUME IInv, SerialInv, [Next]_vars, NEW h \in Handlers, HandlerShows(h),
         pc'[h] = pc[h], req'[h] = req[h], work'[h] = work[h], out'[h] = out[h]
  PROVE  HandlerShows(h)'
<1>1. Shows(req[h], work[h], out[h].prompt) => Shows(req[h], work[h], out[h].prompt)'
  BY DEF Shows, Agrees, Expects
<1>2. ASSUME Chat(h), pc[h] = "save", Keeps(req[h].learner, work[h])
      PROVE  Keeps(req[h].learner, work[h])'
  <2>1. Untouched(req[h].learner) BY <1>2, BusyUntouched DEF Chat, Writer
  <2> QED BY <1>2, <2>1 DEF Keeps, Untouched, Saved
<1> QED BY <1>1, <1>2 DEF HandlerShows, Posed, Chat, Good

(* So every step keeps it, while no learner has two handlers that may save. *)
LEMMA NextShows ==
  ASSUME IInv, SerialInv, [Next]_vars, \A h \in Handlers : HandlerShows(h) /\ Routed(h)
  PROVE  \A h \in Handlers : HandlerShows(h)'
<1> SUFFICES ASSUME NEW h \in Handlers PROVE HandlerShows(h)'
  OBVIOUS
<1>1. ASSUME NEW g \in Handlers, Arrive(g) PROVE HandlerShows(h)'
  <2>1. CASE g = h BY <1>1, <2>1, ArriveShows
  <2>2. CASE g # h BY <1>1, <2>2, ArrivalIsOwn, OthersShow
  <2> QED BY <2>1, <2>2
<1>2. ASSUME NEW g \in Handlers, HandlerStep(g) PROVE HandlerShows(h)'
  <2>1. CASE g = h
    BY <1>2, <2>1, BeginTopicShows, ApplyInputShows, StopShows, SubmitDiagnosisShows,
       ProviderShows, AnswerQuestionShows, OtherRequestsShow, SavingShows, EndShows
    DEF HandlerStep, Proceed, Serve
  <2>2. CASE g # h
    <3>1. Elsewhere(g) BY <1>2, StepsAreOwn
    <3> QED BY <2>2, <3>1, OthersShow DEF Elsewhere
  <2> QED BY <2>1, <2>2
<1>3. CASE Crash
  <2>1. pc'[h] = "idle" BY <1>3 DEF Crash
  <2> QED BY <2>1 DEF HandlerShows, Posed
<1>4. CASE UNCHANGED vars BY <1>4, OthersShow DEF vars
<1> QED BY <1>1, <1>2, <1>3, <1>4 DEF Next

(* No handler returns to where its request was routed. *)
LEMMA StepsLeaveRoute ==
  ASSUME IInv, NEW h \in Handlers, HandlerStep(h)
  PROVE  pc'[h] \notin Kinds
<1> USE DEF Goto, IInv, TypeOK, Kinds
<1>1. \A e : Fail(h, e) => pc'[h] \notin Kinds BY DEF Fail
<1>2. \A s, p : ThenSave(h, s, p) => pc'[h] \notin Kinds BY DEF ThenSave
<1>3. \A s : AskFirst(h, s) => pc'[h] \notin Kinds BY <1>1, <1>2 DEF AskFirst
<1>4. CASE BeginTopic(h) \/ ChangeGradeBand(h)
  BY <1>1, <1>2, <1>4 DEF BeginTopic, ChangeGradeBand
<1>5. CASE ApplyInput(h) BY <1>1, <1>5 DEF ApplyInput, Route
<1>6. CASE Stop(h) BY <1>1, <1>2, <1>6 DEF Stop
<1>7. CASE SubmitDiagnosis(h) BY <1>1, <1>3, <1>7 DEF SubmitDiagnosis
<1>8. CASE ProviderAnswers(h) BY <1>1, <1>3, <1>8 DEF ProviderAnswers
<1>9. CASE AnswerQuestion(h) BY <1>1, <1>2, <1>9 DEF AnswerQuestion, AskNext, AskTransfer
<1>10. CASE DiagnosticReport(h) \/ ResumeSession(h) \/ Respond(h) \/ ProviderFails(h)
            \/ LoadFails(h)
  BY <1>1, <1>10 DEF DiagnosticReport, ResumeSession, Respond, ProviderFails, LoadFails
<1>11. CASE Save(h) \/ SaveFails(h) \/ ProviderRefusesJSONMode(h) \/ Finish(h)
  BY <1>11 DEF Save, SaveFails, ProviderRefusesJSONMode, Finish
<1> QED BY <1>4, <1>5, <1>6, <1>7, <1>8, <1>9, <1>10, <1>11 DEF HandlerStep, Proceed, Serve

(* So each starts where its route says, however many there are (Arrive).   *)
LEMMA NextRouted ==
  ASSUME IInv, [Next]_vars, \A h \in Handlers : Routed(h)
  PROVE  \A h \in Handlers : Routed(h)'
<1> SUFFICES ASSUME NEW h \in Handlers PROVE Routed(h)'
  OBVIOUS
<1>1. ASSUME pc'[h] = pc[h], req'[h] = req[h] PROVE Routed(h)' BY <1>1 DEF Routed
<1>2. ASSUME NEW g \in Handlers, Arrive(g) PROVE Routed(h)'
  <2>1. CASE g = h
    <3>1. PICK r \in Requests :
            /\ req' = [req EXCEPT ![h] = r]
            /\ pc' \in {[pc EXCEPT ![h] = r.kind], [pc EXCEPT ![h] = "done"]}
      BY <1>2, <2>1 DEF Arrive, Goto
    <3>2. req'[h] = r /\ pc'[h] \in {r.kind, "done"} BY <3>1 DEF IInv, TypeOK
    <3> QED BY <3>2 DEF Routed, Kinds
  <2>2. CASE g # h BY <1>1, <1>2, <2>2, ArrivalIsOwn
  <2> QED BY <2>1, <2>2
<1>3. ASSUME NEW g \in Handlers, HandlerStep(g) PROVE Routed(h)'
  <2>1. CASE g = h BY <1>3, <2>1, StepsLeaveRoute DEF Routed
  <2>2. CASE g # h BY <1>1, <1>3, <2>2, StepsAreOwn DEF Elsewhere
  <2> QED BY <2>1, <2>2
<1>4. CASE Crash
  <2>1. pc'[h] = "idle" BY <1>4 DEF Crash
  <2> QED BY <2>1 DEF Routed, Kinds
<1>5. CASE UNCHANGED vars BY <1>1, <1>5 DEF vars
<1> QED BY <1>2, <1>3, <1>4, <1>5 DEF Next

-----------------------------------------------------------------------------
(* The page and the tutor. *)

(* Every step of the page is a step of the tutor, or none (sendAnswer,     *)
(* begin, showDiagnosisReport).                                            *)
LEMMA WebStep == [WebNext]_webVars => [Next]_vars
<1> SUFFICES ASSUME [WebNext]_webVars PROVE [Next]_vars
  OBVIOUS
<1>1. ASSUME NEW h \in Handlers, Submit(h) \/ FetchReport(h) PROVE Next
  BY <1>1 DEF Submit, FetchReport, Next
<1>2. ASSUME NEW h \in Handlers, Served(h) PROVE Next
  BY <1>2 DEF Served, Next, HandlerStep, Proceed
<1>3. ASSUME NEW h \in Handlers, Receive(h) \/ Unheard(h) \/ ShowReport(h) PROVE Next
  BY <1>3 DEF Receive, Unheard, ShowReport, Next, HandlerStep, Proceed
<1>4. CASE SubmitLost \/ FetchLost BY <1>4 DEF SubmitLost, FetchLost
<1>5. CASE Reload \/ \E h \in Handlers : Disconnect(h) BY <1>5 DEF Reload, Disconnect
<1>6. CASE ServerDies BY <1>6 DEF ServerDies, Next
<1>7. CASE UNCHANGED webVars BY <1>7 DEF webVars
<1> QED BY <1>1, <1>2, <1>3, <1>4, <1>5, <1>6, <1>7 DEF WebNext

(* The page with the tutor implements the tutor, for every learner,        *)
(* patient or not, and however many connections fail.                      *)
THEOREM WebImplementsTutor == WebSpec => Spec
<1>1. WebInit => Init BY DEF WebInit
<1> QED BY <1>1, WebStep, PTL DEF WebSpec, Spec

(* Behind the page, too, every saved session can be taken up again         *)
(* (StoreSound).                                                           *)
THEOREM WebStoreSound == WebSpec => []StoreSound
  BY WebImplementsTutor, StoreAlwaysSound, PTL

-----------------------------------------------------------------------------
(* The types of the page's variables. *)

(* The page starts with its types. *)
LEMMA InitWebType == WebInit => WebTypeOK
<1>1. <<>> \in Seq(STRING) OBVIOUS
<1> QED BY <1>1 DEF WebInit, WebTypeOK, Forms, Texts

(* Every step of the page keeps its types. *)
LEMMA NextWebType ==
  ASSUME IInv, WebTypeOK, [WebNext]_webVars
  PROVE  WebTypeOK'
<1> USE DEF WebTypeOK
<1>1. <<>> \in Texts
  <2>1. <<>> \in Seq(STRING) OBVIOUS
  <2> QED BY <2>1 DEF Texts
<1>2. ASSUME NEW h \in Handlers PROVE out[h].prompt \in Texts
  <2>1. out[h] \in Reply BY DEF IInv, TypeOK
  <2> QED BY <2>1 DEF Reply, Texts
<1>3. ASSUME NEW h \in Handlers, Submit(h) PROVE WebTypeOK'
  <2>1. form' \in Forms /\ shown' \in Texts
    BY <1>1, <1>3 DEF Submit, StartPage, ChatPage, Forms
  <2>2. overlap' \in {"none", "past", "now"} BY <1>3 DEF Submit, OverlapAfter
  <2> QED BY <1>1, <1>3, <2>1, <2>2 DEF Submit
<1>4. ASSUME NEW h \in Handlers, Receive(h) PROVE WebTypeOK'
  <2>1. form' \in Forms BY <1>4 DEF Receive, FormAfterBegin, FormAfterInput, Forms
  <2>2. shown' \in Texts BY <1>2, <1>4 DEF Receive, ShownAfter
  <2>3. asked' \in [Handlers -> Texts] /\ behind' \in BOOLEAN BY <1>1, <1>4 DEF Receive
  <2>4. awaitingDiagnosis' \in BOOLEAN /\ fetching' \in BOOLEAN /\ report' \in Texts
    BY <1>1, <1>4 DEF Receive, PanelAfter
  <2>5. due' \subseteq Handlers /\ overlap' = overlap BY <1>4 DEF Receive
  <2> QED BY <2>1, <2>2, <2>3, <2>4, <2>5
<1>5. ASSUME NEW h \in Handlers, Disconnect(h) PROVE WebTypeOK'
  BY <1>1, <1>5 DEF Disconnect, panel
<1>6. ASSUME NEW h \in Handlers, FetchReport(h) PROVE WebTypeOK'
  BY <1>6 DEF FetchReport
<1>7. ASSUME NEW h \in Handlers, ShowReport(h) PROVE WebTypeOK'
  BY <1>2, <1>7 DEF ShowReport
<1>8. CASE SubmitLost BY <1>1, <1>8 DEF SubmitLost, StartPage, ChatPage, Forms
<1>9. CASE FetchLost BY <1>9 DEF FetchLost
<1>10. CASE Reload BY <1>1, <1>10 DEF Reload, Forms
<1>11. CASE ServerDies BY <1>1, <1>11 DEF ServerDies, panel
<1>12. ASSUME NEW h \in Handlers, Served(h) \/ Unheard(h) PROVE WebTypeOK'
  BY <1>12 DEF Served, Unheard, page, panel
<1>13. CASE UNCHANGED webVars BY <1>13 DEF webVars, page, panel
<1> QED BY <1>3, <1>4, <1>5, <1>6, <1>7, <1>8, <1>9, <1>10, <1>11, <1>12, <1>13 DEF WebNext

-----------------------------------------------------------------------------
(* Any page: what holds while the last request was sent with no other at   *)
(* work.                                                                   *)

(* The page sends three kinds of requests, and what it waits for is at     *)
(* work.                                                                   *)
OnPage ==
  /\ \A h \in Handlers : pc[h] # "idle" => req[h].kind \in {"begin", "input", "report"}
  /\ \A h \in due : pc[h] # "idle"

Single == \A g \in AtWork, h \in AtWork : g = h

WInv ==
  /\ IInv /\ FreeInv
  /\ WebTypeOK /\ OnPage
  /\ \A h \in Handlers : Routed(h)
  /\ overlap # "now" => Single /\ SerialInv /\ \A h \in Handlers : HandlerShows(h)

(* A handler that may save is at work for the learner.                     *)
LEMMA WriterAtWork ==
  ASSUME NEW h \in Handlers, pc[h] # "idle", Writer(h)
  PROVE  h \in AtWork
  BY DEF AtWork, Writer

(* What a submit starts (sendAnswer, begin).                               *)
LEMMA SubmitFacts ==
  ASSUME IInv, WebTypeOK, NEW h \in Handlers, Submit(h)
  PROVE  /\ pc[h] = "idle" /\ pc'[h] # "idle" /\ req'[h].kind \in {"begin", "input"}
         /\ store' = store
         /\ \A g \in Handlers \ {h} : pc'[g] = pc[g] /\ req'[g] = req[g] /\ out'[g] = out[g]
         /\ h \notin AtWork /\ AtWork' = AtWork \cup {h}
         /\ asked'[h] = shown' /\ \A g \in Handlers \ {h} : asked'[g] = asked[g]
<1>1. PICK r \in Requests :
        /\ pc[h] = "idle" /\ req' = [req EXCEPT ![h] = r]
        /\ pc' \in {[pc EXCEPT ![h] = r.kind], [pc EXCEPT ![h] = "done"]}
        /\ UNCHANGED files
  BY DEF Submit, Arrive, Goto
<1>2. req'[h] = r /\ pc'[h] \in {r.kind, "done"} /\ store' = store
  BY <1>1 DEF IInv, TypeOK, files
<1>3. r.kind \in {"begin", "input"} BY <1>2 DEF Submit, StartPage, ChatPage
<1>4. \A g \in Handlers \ {h} : pc'[g] = pc[g] /\ req'[g] = req[g] /\ out'[g] = out[g]
  BY ArrivalIsOwn DEF Submit
<1>5. pc'[h] # "idle" BY <1>2, <1>3
<1>6. h \notin AtWork /\ AtWork' = AtWork \cup {h}
  BY <1>1, <1>2, <1>3, <1>4, <1>5 DEF AtWork
<1>7. asked'[h] = shown' /\ \A g \in Handlers \ {h} : asked'[g] = asked[g]
  BY DEF Submit, WebTypeOK
<1> QED BY <1>1, <1>2, <1>3, <1>4, <1>5, <1>6, <1>7

(* No other step starts a request for the learner.                         *)
LEMMA NoneStarts ==
  ASSUME IInv, [WebNext]_webVars, \A h \in Handlers : ~Submit(h)
  PROVE  overlap' = overlap /\ AtWork' \subseteq AtWork
<1>1. ASSUME NEW g \in Handlers, HandlerStep(g) PROVE AtWork' \subseteq AtWork
  <2>1. \A h \in Handlers : pc'[h] # "idle" => pc[h] # "idle" /\ req'[h] = req[h]
    BY <1>1, StepsAreOwn DEF Elsewhere
  <2> QED BY <2>1 DEF AtWork
<1>2. ASSUME UNCHANGED vars PROVE AtWork' \subseteq AtWork BY <1>2 DEF vars, AtWork
<1>3. ASSUME NEW g \in Handlers, FetchReport(g) PROVE AtWork' \subseteq AtWork
  BY <1>3, ArrivalIsOwn DEF FetchReport, AtWork
<1>4. ASSUME ServerDies PROVE AtWork' \subseteq AtWork BY <1>4 DEF ServerDies, Crash, AtWork
<1>5. AtWork' \subseteq AtWork
  BY <1>1, <1>2, <1>3, <1>4
  DEF WebNext, Served, HandlerStep, Proceed, Receive, Unheard, ShowReport, Disconnect,
      SubmitLost, FetchLost, Reload, webVars
<1>6. overlap' = overlap
  BY DEF WebNext, Served, Receive, Unheard, FetchReport, ShowReport, Disconnect, SubmitLost,
         FetchLost, Reload, ServerDies, webVars, page
<1> QED BY <1>5, <1>6

(* A handler serves until its reply is written (Finish). *)
LEMMA ServesOn ==
  ASSUME IInv, NEW h \in Handlers, Serve(h) \/ LoadFails(h) \/ SaveFails(h)
  PROVE  pc[h] # "idle" /\ pc'[h] # "idle" /\ req' = req
<1> USE DEF Goto, IInv, TypeOK
<1>1. \A e : Fail(h, e) => pc'[h] # "idle" BY DEF Fail
<1>2. \A s, p : ThenSave(h, s, p) => pc'[h] # "idle" BY DEF ThenSave
<1>3. \A s : AskFirst(h, s) => pc'[h] # "idle" BY <1>1, <1>2 DEF AskFirst
<1>4. pc'[h] # "idle"
  <2>1. CASE BeginTopic(h) \/ ChangeGradeBand(h)
    BY <1>1, <1>2, <2>1 DEF BeginTopic, ChangeGradeBand
  <2>2. CASE ApplyInput(h) BY <1>1, <2>2 DEF ApplyInput, Route
  <2>3. CASE Stop(h) BY <1>1, <1>2, <2>3 DEF Stop
  <2>4. CASE SubmitDiagnosis(h) BY <1>1, <1>3, <2>4 DEF SubmitDiagnosis
  <2>5. CASE ProviderAnswers(h) BY <1>1, <1>3, <2>5 DEF ProviderAnswers
  <2>6. CASE AnswerQuestion(h) BY <1>1, <1>2, <2>6 DEF AnswerQuestion, AskNext, AskTransfer
  <2>7. CASE DiagnosticReport(h) \/ ResumeSession(h) \/ Respond(h) \/ ProviderFails(h)
              \/ LoadFails(h)
    BY <1>1, <2>7 DEF DiagnosticReport, ResumeSession, Respond, ProviderFails, LoadFails
  <2>8. CASE Save(h) \/ SaveFails(h) \/ ProviderRefusesJSONMode(h)
    BY <2>8 DEF Save, SaveFails, ProviderRefusesJSONMode
  <2> QED BY <2>1, <2>2, <2>3, <2>4, <2>5, <2>6, <2>7, <2>8 DEF Serve
<1>5. HandlerStep(h) /\ ~Finish(h) BY <1>4 DEF HandlerStep, Proceed, Finish
<1>6. Elsewhere(h) /\ req' = req BY <1>5, StepsAreOwn, RequestStays
<1> QED BY <1>4, <1>6 DEF Elsewhere

(* The page sends what its forms send, and waits for what is at work.      *)
LEMMA NextOnPage ==
  ASSUME IInv, WebTypeOK, OnPage, [WebNext]_webVars
  PROVE  OnPage'
<1>1. ASSUME NEW h \in Handlers, Submit(h) PROVE OnPage'
  <2>1. due' = due \cup {h} BY <1>1 DEF Submit
  <2>2. /\ pc'[h] # "idle" /\ req'[h].kind \in {"begin", "input"}
        /\ \A g \in Handlers \ {h} : pc'[g] = pc[g] /\ req'[g] = req[g]
    BY <1>1, SubmitFacts
  <2> QED BY <2>1, <2>2 DEF OnPage, WebTypeOK
<1>2. ASSUME NEW h \in Handlers, FetchReport(h) PROVE OnPage'
  <2>1. PICK r \in Requests :
          /\ req' = [req EXCEPT ![h] = r]
          /\ pc' \in {[pc EXCEPT ![h] = r.kind], [pc EXCEPT ![h] = "done"]}
    BY <1>2 DEF FetchReport, Arrive, Goto
  <2>2. req'[h] = r /\ pc'[h] \in {r.kind, "done"} BY <2>1 DEF IInv, TypeOK
  <2>3. r.kind = "report" /\ pc'[h] # "idle" BY <1>2, <2>2 DEF FetchReport
  <2>4. \A g \in Handlers \ {h} : pc'[g] = pc[g] /\ req'[g] = req[g]
    BY <1>2, ArrivalIsOwn DEF FetchReport
  <2> QED BY <1>2, <2>2, <2>3, <2>4 DEF FetchReport, OnPage, WebTypeOK
<1>3. ASSUME NEW h \in Handlers, Served(h) PROVE OnPage'
  <2>1. pc'[h] # "idle" /\ pc[h] # "idle" /\ req' = req
    BY <1>3, ServesOn DEF Served
  <2>2. \A g \in Handlers \ {h} : pc'[g] = pc[g]
    BY <1>3, StepsAreOwn DEF Served, HandlerStep, Proceed, Elsewhere
  <2> QED BY <1>3, <2>1, <2>2 DEF Served, page, OnPage, WebTypeOK
<1>4. ASSUME NEW h \in Handlers, Finish(h), due' = due \ {h} PROVE OnPage'
  BY <1>4 DEF Finish, Goto, OnPage, IInv, TypeOK, WebTypeOK
<1>5. ASSUME NEW h \in Handlers, Receive(h) \/ Unheard(h) \/ ShowReport(h) PROVE OnPage'
  <2>1. Finish(h) /\ due' = due \ {h} BY <1>5 DEF Receive, Unheard, ShowReport, page
  <2> QED BY <1>4, <2>1
<1>6. CASE ServerDies BY <1>6 DEF ServerDies, Crash, OnPage
<1>7. ASSUME UNCHANGED vars, due' \subseteq due PROVE OnPage'
  BY <1>7 DEF vars, OnPage
<1>8. ASSUME NEW h \in Handlers, Disconnect(h) PROVE OnPage' BY <1>7, <1>8 DEF Disconnect
<1>9. CASE SubmitLost \/ FetchLost \/ Reload \/ UNCHANGED webVars
  BY <1>7, <1>9 DEF SubmitLost, FetchLost, Reload, webVars, page
<1> QED BY <1>1, <1>2, <1>3, <1>5, <1>6, <1>8, <1>9 DEF WebNext

(* A request sent with none at work is the only one of the learner, so the *)
(* serial argument starts afresh with it (Arrive).                         *)
LEMMA SubmitSerial ==
  ASSUME WInv, NEW h \in Handlers, Submit(h), overlap' # "now"
  PROVE  (Single /\ SerialInv /\ \A g \in Handlers : HandlerShows(g))'
<1>1. IInv /\ FreeInv /\ WebTypeOK BY DEF WInv
<1>2. Arrive(h) /\ AtWork = {} BY DEF Submit, OverlapAfter
<1>3. /\ AtWork' = {h}
      /\ \A g \in Handlers \ {h} : pc'[g] = pc[g] /\ req'[g] = req[g]
  BY <1>1, <1>2, SubmitFacts
<1>4. Single' BY <1>3 DEF Single
<1>5. SerialInv' BY <1>1, <1>2, WriterAtWork, FirstSerial
<1>6. ASSUME NEW g \in Handlers PROVE HandlerShows(g)'
  <2>1. CASE g = h BY <1>1, <1>2, <2>1, ArriveShows
  <2>2. CASE g # h
    <3>1. pc'[g] = "idle" \/ req'[g].kind = "report"
      BY <1>2, <1>3, <2>2 DEF AtWork
    <3> QED BY <3>1 DEF HandlerShows, Posed, Chat
  <2> QED BY <2>1, <2>2
<1> QED BY <1>4, <1>5, <1>6

(* Every other step keeps a single request single (StaysAlone).            *)
LEMMA OtherSerial ==
  ASSUME WInv, [WebNext]_webVars, \A h \in Handlers : ~Submit(h), overlap' # "now"
  PROVE  (Single /\ SerialInv /\ \A g \in Handlers : HandlerShows(g))'
<1>1. IInv /\ [Next]_vars BY WebStep DEF WInv
<1>2. overlap # "now" /\ AtWork' \subseteq AtWork BY <1>1, NoneStarts
<1>3. Single /\ SerialInv /\ \A h \in Handlers : HandlerShows(h) /\ Routed(h)
  BY <1>2 DEF WInv
<1>4. Single' BY <1>2, <1>3 DEF Single
<1>5. Alone' BY <1>4 DEF Single, Alone, AtWork, Writer
<1>6. SerialInv' BY <1>1, <1>3, <1>5, NextSerial
<1>7. \A h \in Handlers : HandlerShows(h)' BY <1>1, <1>3, NextShows
<1> QED BY <1>4, <1>6, <1>7

(* So every step of the page keeps what holds of any page.                 *)
LEMMA NextWeb ==
  ASSUME WInv, [WebNext]_webVars
  PROVE  WInv'
<1>1. IInv /\ FreeInv /\ WebTypeOK /\ OnPage /\ [Next]_vars BY WebStep DEF WInv
<1>2. IInv' /\ FreeInv' BY <1>1, NextSound, NextFree
<1>3. WebTypeOK' BY <1>1, NextWebType
<1>4. OnPage' BY <1>1, NextOnPage
<1>5. \A h \in Handlers : Routed(h)' BY <1>1, NextRouted DEF WInv
<1>6. overlap' # "now" => (Single /\ SerialInv /\ \A g \in Handlers : HandlerShows(g))'
  BY SubmitSerial, OtherSerial
<1> QED BY <1>2, <1>3, <1>4, <1>5, <1>6 DEF WInv

(* The page starts with no request.                                        *)
LEMMA InitWeb == WebInit => WInv
<1> SUFFICES ASSUME WebInit PROVE WInv OBVIOUS
<1>1. IInv /\ SerialInv BY InitSound, InitSerial DEF WebInit
<1>2. \A h \in Handlers : pc[h] = "idle" BY DEF WebInit, Init
<1>3. \A h \in Handlers : HandlerShows(h) /\ Routed(h)
  BY <1>2 DEF HandlerShows, Posed, Routed, Kinds
<1>4. OnPage /\ Single BY <1>2 DEF WebInit, OnPage, Single, AtWork
<1> QED BY <1>1, <1>3, <1>4, InitWebType DEF WInv, SerialInv

(* So it holds always, of every learner on the page.                       *)
LEMMA AlwaysWeb == WebSpec => []WInv
<1>1. WInv /\ [WebNext]_webVars => WInv' BY NextWeb
<1> QED BY <1>1, InitWeb, PTL DEF WebSpec

-----------------------------------------------------------------------------
(* What the page promises every learner. *)

(* What the page shows are texts, and its forms and flags are what they    *)
(* should be, whatever the learner, the network and the server do          *)
(* (sendAnswer, begin, showDiagnosisReport).                               *)
THEOREM WebTypeCorrect == WebSpec => []WebTypeOK
<1>1. WInv => WebTypeOK BY DEF WInv
<1> QED BY <1>1, AlwaysWeb, PTL

(* A topic begun again, with no request of before still at work, is shown  *)
(* where the saved session is, whatever failed before and however many     *)
(* requests were at work together then (BeginTopic).                       *)
THEOREM BeginResumes == WebSpec => ResumesWhereLeft
<1>1. ASSUME WInv, [WebNext]_webVars, NEW h \in due,
             form = "none", form' = "chat", h \notin due', overlap # "now"
      PROVE  Last(shown') = Expects(store[req[h].learner])
  <2> USE <1>1
  <2>1. h \in Handlers /\ IInv /\ SerialInv /\ HandlerShows(h)
    BY DEF WInv, WebTypeOK
  <2>2. PICK g \in Handlers : Receive(g)
    BY DEF WebNext, Submit, StartPage, ChatPage, SubmitLost, Served, Disconnect, Unheard,
       FetchReport, ShowReport, FetchLost, Reload, ServerDies, webVars, page
  <2>3. g = h BY <2>2 DEF Receive
  <2>4. pc[h] = "done" /\ req[h].kind = "begin" /\ Good(out[h]) /\ ~Ended(out[h])
    BY <2>1, <2>2, <2>3 DEF Receive, Finish, FormAfterBegin, FormAfterInput, WInv, OnPage
  <2>5. Shows(req[h], work[h], out[h].prompt) /\ out[h].state # "no state"
    BY <2>1, <2>4 DEF HandlerShows, Chat, Posed
  <2>6. /\ Saved(req[h].learner) /\ work[h] = store[req[h].learner]
        /\ out[h].state = stateName(work[h].state)
    BY <2>1, <2>4, <2>5 DEF SerialInv, HandlerSerial, Writer
  <2>7. Sound(work[h]) BY <2>1, <2>6, SavedSound
  <2>8. work[h].state \in {"Diagnosing", "WaitForAnswer"}
    BY <2>4, <2>5, <2>6, <2>7, StateNamed DEF Sound, AtRest, Shows, Ended
  <2>9. shown' = out[h].prompt BY <2>2, <2>3, <2>4 DEF Receive, ShownAfter
  <2> QED BY <2>5, <2>6, <2>8, <2>9 DEF Shows, Agrees
<1>2. WInv /\ [WebNext]_webVars =>
        [\A h \in due :
           form = "none" /\ form' = "chat" /\ h \notin due' /\ overlap # "now" =>
             Last(shown') = Expects(store[req[h].learner])]_webVars
  BY <1>1
<1> QED BY <1>2, AlwaysWeb, PTL DEF WebSpec, ResumesWhereLeft

(* Behind the page the saved sessions run through the learning loop while  *)
(* the last request was sent with no other at work, whatever is lost, and  *)
(* though handlers that the page has given up still save (LearningLoop).   *)
THEOREM PageLoopUnlessOverlapping == WebSpec => LoopUnlessOverlapping
<1>1. WInv /\ [WebNext]_webVars =>
        [overlap # "now" /\ torn' \subseteq torn => [Loop!Next]_(Loop!vars)]_webVars
  BY WebStep, LoopSteps DEF WInv
<1> QED BY <1>1, AlwaysWeb, PTL DEF WebSpec, LoopUnlessOverlapping

-----------------------------------------------------------------------------
(* The page of one patient learner. *)

ShownRight == \A l \in DOMAIN store : Agrees(shown, store[l])

NoPanel == ~fetching /\ ~awaitingDiagnosis /\ report = <<>>

(* A report is shown or on its way. *)
PanelOpen == fetching \/ report # <<>> \/ \E h \in due : req[h].kind = "report"

(* No diagnosis is looked for. *)
Settled == \A l \in DOMAIN store : store[l].state # "Diagnosing"

(* f is the report of what is on record of every diagnosis. *)
Finds(f) ==
  \A l \in DOMAIN store : store[l].diagnosisComplete => DiagnosisReport(store[l]) = f

(* The handler has neither saved nor met an error of the server. *)
Waiting(h) ==
  \/ pc[h] \in {"input", "diagnose", "provider", "retry", "answer"}
  \/ pc[h] = "done" /\ statusForError(out[h].err) \notin {200, 500}

Sole == \A g \in ReplyDue, h \in ReplyDue : g = h

(* Every handler at work that the page waits for no more, and every        *)
(* request sent with another at work, leaves the page behind.              *)
GivenUp ==
  /\ AtWork \ due # {} => behind
  /\ overlap = "now" => behind

FreshPage == form = "start" => due = {} /\ NoPanel

Beginning ==
  \A h \in AtWork :
    overlap # "now" /\ req[h].kind = "begin" => form # "chat" /\ NoPanel /\ due \subseteq {h}

Unanswered ==
  \A h \in due :
    req[h].kind = "input" /\ Waiting(h) /\ ~behind => asked[h] = shown /\ ShownRight

ScreenRight == form = "chat" /\ ReplyDue = {} /\ ~behind => ShownRight

PanelSettled == overlap = "none" /\ PanelOpen => Settled

ReportsFind ==
  \A h \in due :
    overlap = "none" /\ req[h].kind = "report" /\ pc[h] = "done" /\ Good(out[h]) =>
      Finds(out[h].prompt)

ReportRight == overlap = "none" /\ report # <<>> => Finds(report)

PageInv ==
  /\ Sole /\ GivenUp /\ FreshPage /\ Beginning
  /\ Unanswered /\ ScreenRight
  /\ PanelSettled /\ ReportsFind /\ ReportRight

(* What the page waits for of the learner is at work, and while it is up   *)
(* to date nothing else is.                                                *)
LEMMA UpToDate ==
  ASSUME WInv, PageInv
  PROVE  /\ ReplyDue \subseteq AtWork
         /\ ~behind => overlap # "now" /\ AtWork = ReplyDue
         /\ overlap # "now" => Single
<1>1. ReplyDue \subseteq AtWork BY DEF WInv, OnPage, WebTypeOK, ReplyDue, AtWork
<1>2. ~behind => AtWork \subseteq ReplyDue BY DEF PageInv, GivenUp, AtWork, ReplyDue
<1> QED BY <1>1, <1>2 DEF PageInv, GivenUp, WInv

(* While a report is shown or on its way, no topic is being begun.         *)
LEMMA PanelNotBeginning ==
  ASSUME PageInv, PanelOpen, overlap # "now"
  PROVE  \A h \in AtWork : req[h].kind # "begin"
<1> SUFFICES ASSUME NEW h \in AtWork, req[h].kind = "begin" PROVE FALSE
  OBVIOUS
<1>1. due \subseteq {h} /\ NoPanel BY DEF PageInv, Beginning
<1> QED BY <1>1 DEF PanelOpen, NoPanel

(* What is saved may be less, and all that is left is as it was.           *)
Narrowed == \A l \in DOMAIN store' : l \in DOMAIN store /\ store'[l] = store[l]

(* Then what was right of it still is. *)
LEMMA NarrowedRight ==
  ASSUME Narrowed
  PROVE  /\ ShownRight /\ shown' = shown => ShownRight'
         /\ Settled => Settled'
         /\ \A f : Finds(f) => Finds(f)'
<1>1. ASSUME ShownRight, shown' = shown PROVE ShownRight'
  <2> SUFFICES ASSUME NEW l \in DOMAIN store' PROVE Agrees(shown, store[l])' BY DEF ShownRight
  <2>1. l \in DOMAIN store /\ store'[l] = store[l] BY DEF Narrowed
  <2>2. Agrees(shown, store[l]) BY <1>1, <2>1 DEF ShownRight
  <2> QED BY <1>1, <2>1, <2>2 DEF Agrees, Expects
<1>2. Settled => Settled' BY DEF Narrowed, Settled
<1>3. \A f : Finds(f) => Finds(f)' BY DEF Narrowed, Finds, DiagnosisReport
<1> QED BY <1>1, <1>2, <1>3

(* A learner with a request has a name of a learner. *)
LEMMA LearnerNamed ==
  ASSUME IInv, NEW h \in Handlers, pc[h] # "idle"
  PROVE  req[h].learner \in Learners
  BY DEF IInv, HandlerSound, Learners

-----------------------------------------------------------------------------
(* A step of a handler behind the page. *)

(* It keeps its request, and the others what they have. *)
LEMMA ServedFacts ==
  ASSUME WInv, NEW h \in Handlers, Served(h)
  PROVE  /\ pc[h] # "idle"
         /\ req' = req /\ due' = due /\ AtWork' = AtWork /\ ReplyDue' = ReplyDue
         /\ \A g \in Handlers \ {h} : pc'[g] = pc[g] /\ out'[g] = out[g]
         /\ form' = form /\ shown' = shown /\ asked' = asked
         /\ behind' = behind /\ overlap' = overlap
         /\ awaitingDiagnosis' = awaitingDiagnosis /\ fetching' = fetching
         /\ report' = report
<1>1. HandlerStep(h) /\ (Serve(h) \/ LoadFails(h) \/ SaveFails(h)) /\ UNCHANGED page
  BY DEF Served, HandlerStep, Proceed
<1>2. IInv BY DEF WInv
<1>3. \A g \in Handlers \ {h} : pc'[g] = pc[g] /\ out'[g] = out[g]
  BY <1>1, <1>2, StepsAreOwn DEF Elsewhere
<1>4. pc[h] # "idle" /\ pc'[h] # "idle" /\ req' = req BY <1>1, <1>2, ServesOn
<1>5. due' = due BY <1>1 DEF page
<1>6. AtWork' = AtWork /\ ReplyDue' = ReplyDue
  BY <1>3, <1>4, <1>5 DEF AtWork, ReplyDue
<1> QED BY <1>1, <1>3, <1>4, <1>6 DEF page, panel

(* It saves what it holds, loses it halfway, or leaves what is saved alone *)
(* (Save, SaveFails).                                                      *)
LEMMA ServedSaves ==
  ASSUME WInv, NEW h \in Handlers, Served(h)
  PROVE  \/ Narrowed
         \/ /\ pc[h] = "save" /\ h \in AtWork
            /\ req[h].kind \in {"begin", "input"} /\ req[h].learner \in Learners
            /\ \A l \in DOMAIN store' :
                 \/ l = req[h].learner /\ store'[l] = work[h]
                 \/ l \in DOMAIN store /\ store'[l] = store[l]
<1>1. [Next]_vars /\ IInv BY DEF Served, Next, HandlerStep, Proceed, WInv
<1>2. pc[h] # "idle" /\ \A g \in Handlers \ {h} : pc'[g] = pc[g] BY ServedFacts
<1>3. CASE UNCHANGED files BY <1>3 DEF files, Narrowed
<1>4. CASE ~UNCHANGED files
  <2>1. PICK k \in Handlers : /\ pc[k] = "save" /\ pc'[k] # "save"
                              /\ Put(work[k]) \/ Tear(work[k])
    BY <1>1, <1>4, FilesChange
  <2>2. k = h BY <1>2, <2>1
  <2>3. CASE Tear(work[h]) BY <2>3 DEF Tear, Narrowed
  <2>4. CASE Put(work[h])
    <3>1. Writer(h) BY <2>1, <2>2 DEF WInv, FreeInv, ReadersRead
    <3>2. req[h].kind \in {"begin", "input"} BY <1>2, <3>1 DEF WInv, OnPage, Writer
    <3>3. h \in AtWork BY <1>2, <3>1, WriterAtWork
    <3>4. work[h].learnerName = req[h].learner
      BY <1>1, <2>1, <2>2 DEF IInv, HandlerSound, Calling
    <3>5. req[h].learner \in Learners BY <1>1, <1>2, LearnerNamed
    <3> QED BY <2>1, <2>2, <2>4, <3>2, <3>3, <3>4, <3>5 DEF Put
  <2> QED BY <2>1, <2>2, <2>3, <2>4
<1> QED BY <1>3, <1>4

(* While a report is shown or on its way, no save starts a diagnosis or    *)
(* changes what is on record of one.                                       *)
LEMMA ServedKeepsFinding ==
  ASSUME WInv, PageInv, OneLearner, NEW h \in Handlers, Served(h), overlap = "none", PanelOpen
  PROVE  Settled' /\ \A f : Finds(f) => Finds(f)'
<1> DEFINE l == req[h].learner
<1>1. Settled BY DEF PageInv, PanelSettled
<1>2. CASE Narrowed BY <1>1, <1>2, NarrowedRight
<1>3. CASE ~Narrowed
  <2>1. /\ pc[h] = "save" /\ h \in AtWork
        /\ req[h].kind \in {"begin", "input"}
        /\ \A k \in DOMAIN store' : \/ k = l /\ store'[k] = work[h]
                                    \/ k \in DOMAIN store /\ store'[k] = store[k]
    BY <1>3, ServedSaves
  <2>2. req[h].kind = "input" BY <2>1, PanelNotBeginning
  <2>3. HandlerShows(h) BY DEF WInv
  <2>4. work[h].state # "Diagnosing" /\ Keeps(l, work[h])
    BY <2>1, <2>2, <2>3 DEF HandlerShows, Chat, Posed, Shows
  <2>5. Settled' BY <1>1, <2>1, <2>4 DEF Settled
  <2>6. ASSUME NEW f, Finds(f) PROVE Finds(f)'
    <3> SUFFICES ASSUME NEW k \in DOMAIN store', store'[k].diagnosisComplete
                 PROVE  DiagnosisReport(store'[k]) = f
      BY DEF Finds, DiagnosisReport
    <3>1. CASE k \in DOMAIN store /\ store'[k] = store[k] BY <2>6, <3>1 DEF Finds
    <3>2. CASE k = l /\ store'[k] = work[h]
      <4>1. /\ l \in DOMAIN store /\ store[l].diagnosisComplete
            /\ DiagnosisReport(store[l]) = DiagnosisReport(work[h])
        BY <1>1, <2>4, <3>2 DEF Keeps, Settled, Saved
      <4> QED BY <2>6, <3>2, <4>1 DEF Finds
    <3> QED BY <2>1, <3>1, <3>2
  <2> QED BY <2>5, <2>6
<1> QED BY <1>2, <1>3

(* A handler that waits after the step has waited before and saved nothing *)
(* (SaveFails reports an error of the server).                             *)
LEMMA ServedWaits ==
  ASSUME WInv, NEW h \in Handlers, Served(h), req[h].kind = "input", Waiting(h)'
  PROVE  Waiting(h) /\ UNCHANGED files
<1>1. IInv /\ Routed(h) BY DEF WInv
<1>2. CASE pc[h] = "save"
  <2>1. Save(h) \/ SaveFails(h)
    BY <1>2 DEF Served, Serve, BeginTopic, ApplyInput, Stop, SubmitDiagnosis,
       ProviderRefusesJSONMode, ProviderAnswers, ProviderFails, Calling, AnswerQuestion,
       ChangeGradeBand, DiagnosticReport, ResumeSession, Respond, LoadFails, Loading
  <2>2. \/ pc'[h] = "respond"
        \/ pc'[h] = "done" /\ out'[h].err = "ErrStore"
    BY <1>1, <2>1 DEF Save, SaveFails, Goto, IInv, TypeOK, NoReply
  <2>3. ~Waiting(h)' BY <2>2 DEF Waiting, statusForError, NoError
  <2> QED BY <2>3
<1>3. CASE pc[h] = "respond"
  <2>1. Respond(h) \/ LoadFails(h)
    BY <1>3 DEF Served, Serve, BeginTopic, ApplyInput, Stop, SubmitDiagnosis,
       ProviderRefusesJSONMode, ProviderAnswers, ProviderFails, Calling, AnswerQuestion,
       ChangeGradeBand, DiagnosticReport, ResumeSession, Save, SaveFails
  <2>2. pc'[h] = "done" /\ out'[h].err \in {"ErrStore", out[h].err}
    BY <1>1, <2>1 DEF Respond, LoadFails, Fail, Goto, IInv, TypeOK, NoReply, Reply
  <2>3. out[h].err = NoError BY <1>1, <1>3 DEF IInv, HandlerSound
  <2>4. ~Waiting(h)' BY <2>2, <2>3 DEF Waiting, statusForError, NoError
  <2> QED BY <2>4
<1>4. CASE pc[h] \notin {"save", "respond"}
  <2>1. pc[h] \in {"input", "diagnose", "provider", "retry", "answer"}
    BY <1>1, <1>4 DEF Served, Serve, BeginTopic, ApplyInput, Stop, SubmitDiagnosis,
       ProviderRefusesJSONMode, ProviderAnswers, ProviderFails, Calling, AnswerQuestion,
       ChangeGradeBand, DiagnosticReport, ResumeSession, Save, SaveFails, Respond,
       LoadFails, Loading, Routed, Kinds
  <2>2. [Next]_vars /\ \A g \in Handlers \ {h} : pc'[g] = pc[g]
    BY ServedFacts DEF Served, Next, HandlerStep, Proceed
  <2>3. UNCHANGED files
    <3> SUFFICES ASSUME ~UNCHANGED files PROVE FALSE OBVIOUS
    <3>1. PICK k \in Handlers : pc[k] = "save" /\ pc'[k] # "save"
      BY <1>1, <2>2, FilesChange
    <3> QED BY <1>4, <2>2, <3>1
  <2> QED BY <2>1, <2>3 DEF Waiting
<1> QED BY <1>2, <1>3, <1>4

(* A report read is what is on record (DiagnosticReport).                  *)
LEMMA ServedReads ==
  ASSUME WInv, OneLearner, NEW h \in Handlers, Served(h),
         req[h].kind = "report", pc'[h] = "done", Good(out[h])'
  PROVE  Finds(out[h].prompt)'
<1>1. IInv /\ Routed(h) /\ ReadersRead BY DEF WInv, FreeInv
<1>2. out'[h].err = NoError BY GoodReply
<1>3. pc[h] \in {"report", "resume", "done"} BY <1>1 DEF ReadersRead, Writer
<1>4. DiagnosticReport(h) \/ LoadFails(h)
  BY <1>1, <1>3 DEF Served, Serve, BeginTopic, ApplyInput, Stop, SubmitDiagnosis,
     ProviderRefusesJSONMode, ProviderAnswers, ProviderFails, Calling, AnswerQuestion,
     ChangeGradeBand, ResumeSession, Save, SaveFails, Respond, Routed, Kinds
<1>5. \A e : e # NoError => ~Fail(h, e)
  BY <1>1, <1>2 DEF Fail, IInv, TypeOK, NoReply
<1>6. DiagnosticReport(h) BY <1>4, <1>5 DEF LoadFails, NoError
<1>7. Saved(req[h].learner) BY <1>5, <1>6, LoadErrTold DEF DiagnosticReport
<1>8. /\ out'[h].prompt = DiagnosisReport(store[req[h].learner])
      /\ store' = store
  BY <1>1, <1>5, <1>6, <1>7 DEF DiagnosticReport, IInv, TypeOK, Reply, files, NoError
<1>9. req[h].learner \in Learners BY <1>1, LearnerNamed, ServedFacts
<1>10. \A l \in DOMAIN store' : l = req[h].learner
  BY <1>1, <1>8, <1>9 DEF OneLearner, IInv, TypeOK
<1> QED BY <1>8, <1>10 DEF Finds, DiagnosisReport

(* The handler's step keeps the page right.                                *)
LEMMA ServedPage ==
  ASSUME WInv, PageInv, OneLearner, NEW h \in Handlers, Served(h)
  PROVE  PageInv'
<1>1. /\ req' = req /\ due' = due /\ AtWork' = AtWork /\ ReplyDue' = ReplyDue
      /\ \A g \in Handlers \ {h} : pc'[g] = pc[g] /\ out'[g] = out[g]
      /\ form' = form /\ shown' = shown /\ asked' = asked
      /\ behind' = behind /\ overlap' = overlap
      /\ awaitingDiagnosis' = awaitingDiagnosis /\ fetching' = fetching
      /\ report' = report
  BY ServedFacts
<1>2. (Sole /\ GivenUp /\ FreshPage /\ Beginning)'
  BY <1>1 DEF PageInv, Sole, GivenUp, FreshPage, Beginning, NoPanel
<1>3. h \notin AtWork => Narrowed BY ServedSaves
<1>4. due \subseteq Handlers BY DEF WInv, WebTypeOK
<1>5. Unanswered'
  <2> SUFFICES ASSUME NEW g \in due, req[g].kind = "input", Waiting(g)', ~behind
               PROVE  asked'[g] = shown' /\ ShownRight'
    BY <1>1 DEF Unanswered
  <2>1. g \in AtWork /\ Single BY UpToDate DEF ReplyDue
  <2>2. Waiting(g) /\ Narrowed
    <3>1. CASE g = h BY <3>1, ServedWaits DEF files, Narrowed
    <3>2. CASE g # h
      <4>1. h \notin AtWork BY <2>1, <3>2 DEF Single
      <4>2. pc'[g] = pc[g] /\ out'[g] = out[g] BY <1>1, <1>4, <3>2
      <4>3. Waiting(g) BY <4>2 DEF Waiting, statusForError
      <4> QED BY <1>3, <4>1, <4>3
    <3> QED BY <3>1, <3>2
  <2>3. asked[g] = shown /\ ShownRight BY <2>2 DEF PageInv, Unanswered
  <2> QED BY <1>1, <2>2, <2>3, NarrowedRight
<1>6. ScreenRight'
  <2> SUFFICES ASSUME form = "chat", ReplyDue = {}, ~behind PROVE ShownRight'
    BY <1>1 DEF ScreenRight
  <2>1. ShownRight BY DEF PageInv, ScreenRight
  <2>2. Narrowed BY <1>3, UpToDate
  <2> QED BY <1>1, <2>1, <2>2, NarrowedRight
<1>7. PanelOpen' => PanelOpen BY <1>1 DEF PanelOpen
<1>8. PanelSettled' BY <1>1, <1>7, ServedKeepsFinding DEF PanelSettled
<1>9. ReportRight'
  <2> SUFFICES ASSUME overlap = "none", report # <<>> PROVE Finds(report)'
    BY <1>1 DEF ReportRight
  <2>1. PanelOpen /\ Finds(report) BY DEF PageInv, ReportRight, PanelOpen
  <2>2. \A f : Finds(f) => Finds(f)' BY <2>1, ServedKeepsFinding
  <2> QED BY <1>1, <2>1, <2>2 DEF Finds
<1>10. ReportsFind'
  <2> SUFFICES ASSUME NEW g \in due, overlap = "none", req[g].kind = "report",
                      pc'[g] = "done", Good(out[g])'
               PROVE  Finds(out[g].prompt)'
    BY <1>1 DEF ReportsFind
  <2>1. PanelOpen BY DEF PanelOpen
  <2>2. CASE g # h
    <3>1. pc[g] = "done" /\ out'[g] = out[g] BY <1>1, <1>4, <2>2
    <3>2. Good(out[g]) BY <3>1, GoodReply
    <3>3. Finds(out[g].prompt) BY <3>1, <3>2 DEF PageInv, ReportsFind
    <3> DEFINE f == out[g].prompt
    <3>4. f' = f BY <3>1
    <3> HIDE DEF f
    <3>5. Finds(f) => \A l \in DOMAIN store' : store'[l].diagnosisComplete =>
                         DiagnosisReport(store'[l]) = f
      BY <2>1, ServedKeepsFinding DEF Finds
    <3> QED BY <3>3, <3>4, <3>5 DEF Finds, f
  <2>3. CASE g = h BY <2>3, ServedReads
  <2> QED BY <2>2, <2>3
<1> QED BY <1>2, <1>5, <1>6, <1>8, <1>9, <1>10 DEF PageInv

-----------------------------------------------------------------------------
(* The steps of the page itself. *)

(* What is right of a store stays right of the same.                       *)
LEMMA SameStore ==
  ASSUME store' = store
  PROVE  /\ Narrowed
         /\ Settled' <=> Settled
         /\ \A f : Finds(f) <=> Finds(f)'
         /\ shown' = shown => (ShownRight <=> ShownRight')
  BY DEF Narrowed, Settled, Finds, DiagnosisReport, ShownRight, Agrees, Expects

(* A step that starts nothing of the learner's, shows nothing but a report *)
(* that was waited for, and leaves the requests still waited for as they   *)
(* were, keeps the page right.                                             *)
LEMMA QuietPage ==
  ASSUME WInv, PageInv, Narrowed,
         AtWork' \subseteq AtWork, \A g \in AtWork' : req'[g] = req[g],
         form' = form, shown' = shown, overlap' = overlap,
         awaitingDiagnosis' = awaitingDiagnosis, fetching' => fetching,
         \A g \in due' :
           \/ /\ g \in due /\ asked'[g] = asked[g]
              /\ pc'[g] = pc[g] /\ req'[g] = req[g] /\ out'[g] = out[g]
           \/ fetching /\ req'[g].kind = "report" /\ pc'[g] # "done",
         ~behind' => ~behind /\ ReplyDue' = ReplyDue,
         \/ report' = report
         \/ \E g \in due : req[g].kind = "report" /\ (overlap = "none" => Finds(report'))
  PROVE  PageInv'
<1>1. Sole' BY DEF PageInv, Sole, ReplyDue
<1>2. GivenUp'
  <2>1. behind \/ AtWork = ReplyDue BY UpToDate
  <2>2. ReplyDue' \subseteq due' BY DEF ReplyDue
  <2> QED BY <2>1, <2>2 DEF PageInv, GivenUp
<1>3. NoPanel /\ (\A g \in due : req[g].kind # "report") => NoPanel' /\ due' \subseteq due
  BY DEF NoPanel
<1>4. FreshPage' BY <1>3 DEF PageInv, FreshPage
<1>5. Beginning'
  <2> SUFFICES ASSUME NEW h \in AtWork', overlap' # "now", req'[h].kind = "begin"
               PROVE  form' # "chat" /\ NoPanel' /\ due' \subseteq {h}
    BY DEF Beginning
  <2>1. h \in AtWork /\ overlap # "now" /\ req[h].kind = "begin" OBVIOUS
  <2>2. form # "chat" /\ NoPanel /\ due \subseteq {h} BY <2>1 DEF PageInv, Beginning
  <2> QED BY <1>3, <2>1, <2>2
<1>6. Unanswered'
  <2> SUFFICES ASSUME NEW g \in due', req'[g].kind = "input", Waiting(g)', ~behind'
               PROVE  asked'[g] = shown' /\ ShownRight'
    BY DEF Unanswered
  <2>1. /\ g \in due /\ asked'[g] = asked[g]
        /\ pc'[g] = pc[g] /\ req[g].kind = "input" /\ out'[g] = out[g]
    OBVIOUS
  <2>2. Waiting(g) BY <2>1 DEF Waiting, statusForError
  <2>3. asked[g] = shown /\ ShownRight BY <2>1, <2>2 DEF PageInv, Unanswered
  <2> QED BY <2>1, <2>3, NarrowedRight
<1>7. ScreenRight' BY NarrowedRight DEF PageInv, ScreenRight
<1>8. PanelOpen' => PanelOpen BY DEF PanelOpen
<1>9. PanelSettled' BY <1>8, NarrowedRight DEF PageInv, PanelSettled
<1>10. ReportsFind'
  <2> SUFFICES ASSUME NEW g \in due', overlap' = "none", req'[g].kind = "report",
                      pc'[g] = "done", Good(out[g])'
               PROVE  Finds(out[g].prompt)'
    BY DEF ReportsFind
  <2>1. g \in due /\ pc[g] = "done" /\ req[g].kind = "report" /\ out'[g] = out[g]
    OBVIOUS
  <2>2. Good(out[g]) BY <2>1, GoodReply
  <2>3. Finds(out[g].prompt) BY <2>1, <2>2 DEF PageInv, ReportsFind
  <2> QED BY <2>1, <2>3 DEF Finds, DiagnosisReport, Narrowed
<1>11. ReportRight'
  <2> SUFFICES ASSUME overlap = "none", report' # <<>> PROVE Finds(report)'
    BY DEF ReportRight
  <2>1. CASE report' = report
    <3>1. Finds(report) BY <2>1 DEF PageInv, ReportRight
    <3> QED BY <2>1, <3>1 DEF Finds, DiagnosisReport, Narrowed
  <2>2. CASE \A l \in DOMAIN store : store[l].diagnosisComplete =>
                                       DiagnosisReport(store[l]) = report'
    BY <2>2 DEF Finds, DiagnosisReport, Narrowed
  <2> QED BY <2>1, <2>2 DEF Finds
<1> QED BY <1>1, <1>2, <1>4, <1>5, <1>6, <1>7, <1>9, <1>10, <1>11 DEF PageInv

(* A page with no form but the start form and nothing to wait for is right *)
(* (Reload, and the start form submitted in vain).                         *)
LEMMA BlankPage ==
  ASSUME WInv, PageInv, UNCHANGED vars, due' = {}, form' # "chat", NoPanel',
         overlap' = overlap, behind' = (behind \/ ReplyDue # {})
  PROVE  PageInv'
<1>1. AtWork' = AtWork /\ ReplyDue' = {} BY DEF vars, AtWork, ReplyDue
<1>2. GivenUp'
  <2>1. behind \/ AtWork = ReplyDue BY UpToDate
  <2> QED BY <1>1, <2>1 DEF PageInv, GivenUp
<1>3. ~PanelOpen' BY DEF PanelOpen, NoPanel
<1> QED BY <1>1, <1>2, <1>3
    DEF PageInv, Sole, FreshPage, Beginning, Unanswered, ScreenRight, PanelSettled, ReportsFind,
        ReportRight, NoPanel

(* The learner begins (begin). *)
LEMMA BeginPage ==
  ASSUME WInv, PageInv, NEW h \in Handlers, Submit(h), StartPage(req'[h])
  PROVE  PageInv'
<1>1. /\ pc[h] = "idle" /\ h \notin AtWork /\ AtWork' = AtWork \cup {h}
  BY SubmitFacts DEF WInv
<1>2. /\ form = "start" /\ form' = "none" /\ req'[h].kind = "begin"
      /\ due' = due \cup {h} /\ report' = <<>> /\ behind' = behind
      /\ awaitingDiagnosis' = awaitingDiagnosis /\ fetching' = fetching
      /\ overlap' = IF AtWork # {} THEN "now" ELSE "none"
  BY DEF Submit, StartPage, OverlapAfter
<1>3. due = {} /\ NoPanel BY <1>2 DEF PageInv, FreshPage
<1>4. due' = {h} /\ NoPanel' /\ ReplyDue' = {h}
  BY <1>2, <1>3 DEF NoPanel, ReplyDue
<1>5. GivenUp' BY <1>1, <1>2, <1>3, <1>4 DEF PageInv, GivenUp
<1>6. Beginning' BY <1>1, <1>2, <1>4 DEF Beginning
<1>7. ~PanelOpen' BY <1>2, <1>4 DEF PanelOpen, NoPanel
<1> QED BY <1>2, <1>4, <1>5, <1>6, <1>7
    DEF PageInv, Sole, FreshPage, Unanswered, ScreenRight, PanelSettled, ReportsFind,
        ReportRight, NoPanel

(* The learner answers, with no reply due that the page knows of           *)
(* (sendAnswer).                                                           *)
LEMMA AnswerPage ==
  ASSUME Patient, WInv, PageInv, NEW h \in Handlers, Submit(h), ChatPage(req'[h])
  PROVE  PageInv'
<1>1. /\ pc[h] = "idle" /\ store' = store
      /\ \A g \in Handlers \ {h} : pc'[g] = pc[g] /\ req'[g] = req[g] /\ out'[g] = out[g]
      /\ h \notin AtWork /\ AtWork' = AtWork \cup {h}
      /\ asked'[h] = shown'
  BY SubmitFacts DEF WInv
<1>2. /\ form = "chat" /\ form' = "chat" /\ shown' = shown /\ req'[h].kind = "input"
      /\ ReplyDue = {} /\ due' = due \cup {h} /\ report' = report /\ behind' = behind
      /\ awaitingDiagnosis' = awaitingDiagnosis /\ fetching' = fetching
      /\ overlap' = IF AtWork # {} THEN "now" ELSE IF overlap = "none" THEN "none" ELSE "past"
  BY DEF Submit, ChatPage, OverlapAfter
<1>3. h \notin due /\ due \subseteq Handlers BY <1>1 DEF WInv, OnPage, WebTypeOK
<1>4. \A g \in due : /\ g # h /\ req[g].kind = "report" /\ req'[g] = req[g]
                     /\ pc'[g] = pc[g] /\ out'[g] = out[g]
  BY <1>1, <1>2, <1>3 DEF ReplyDue
<1>5. ReplyDue' = {h} BY <1>2, <1>4 DEF ReplyDue
<1>6. Sole' /\ FreshPage' /\ ScreenRight'
  BY <1>2, <1>5 DEF Sole, FreshPage, ScreenRight
<1>7. GivenUp'
  <2>1. behind \/ AtWork = {} BY <1>2, UpToDate
  <2> QED BY <1>1, <1>2, <2>1 DEF GivenUp
<1>8. Beginning' BY <1>1, <1>2 DEF Beginning
<1>9. Unanswered'
  <2> SUFFICES ASSUME ~behind PROVE asked'[h] = shown' /\ ShownRight'
    BY <1>2, <1>4 DEF Unanswered
  <2>1. ShownRight BY <1>2 DEF PageInv, ScreenRight
  <2> QED BY <1>1, <1>2, <2>1, SameStore
<1>10. overlap' = "none" => overlap = "none" BY <1>2
<1>11. PanelSettled'
  <2>1. PanelOpen' => PanelOpen BY <1>2, <1>4 DEF PanelOpen
  <2> QED BY <1>1, <1>10, <2>1, SameStore DEF PageInv, PanelSettled
<1>12. ReportRight'
  BY <1>1, <1>2, <1>10 DEF PageInv, ReportRight, Finds, DiagnosisReport
<1>13. ReportsFind'
  <2> SUFFICES ASSUME NEW g \in due, overlap = "none", pc'[g] = "done", Good(out[g])'
               PROVE  Finds(out[g].prompt)'
    BY <1>2, <1>10 DEF ReportsFind
  <2>1. pc[g] = "done" /\ req[g].kind = "report" /\ out'[g] = out[g] BY <1>4
  <2>2. Good(out[g]) BY <2>1, GoodReply
  <2>3. Finds(out[g].prompt) BY <2>1, <2>2 DEF PageInv, ReportsFind
  <2> QED BY <1>1, <2>1, <2>3 DEF Finds, DiagnosisReport
<1> QED BY <1>6, <1>7, <1>8, <1>9, <1>11, <1>12, <1>13 DEF PageInv

(* The reply is shown: its prompt ends with what the session saved or read *)
(* for it expects, unless it tells of an error (sendAnswer, begin).        *)
LEMMA ReceivePage ==
  ASSUME WInv, PageInv, OneLearner, NEW h \in Handlers, Receive(h)
  PROVE  PageInv'
<1>1. /\ pc[h] = "done" /\ pc'[h] = "idle" /\ store' = store
      /\ \A g \in Handlers \ {h} : pc'[g] = pc[g] /\ req'[g] = req[g] /\ out'[g] = out[g]
  BY DEF Receive, Finish, Goto, WInv, IInv, TypeOK, files
<1>2. /\ h \in ReplyDue /\ req[h].kind \in {"begin", "input"}
      /\ due' = due \ {h} /\ due \subseteq Handlers /\ overlap' = overlap
      /\ h \in AtWork /\ AtWork' = AtWork \ {h}
  BY <1>1 DEF Receive, ReplyDue, AtWork, WInv, OnPage, WebTypeOK
<1>3. \A g \in due' : /\ g # h /\ g \in due /\ req[g].kind = "report"
                      /\ pc'[g] = pc[g] /\ req'[g] = req[g] /\ out'[g] = out[g]
  BY <1>1, <1>2 DEF PageInv, Sole, ReplyDue
<1>4. ReplyDue' = {} BY <1>3 DEF ReplyDue
<1>5. form # "start" /\ form' # "start"
  BY <1>2 DEF PageInv, FreshPage, Receive, FormAfterBegin, FormAfterInput
<1>6. (Sole /\ FreshPage /\ Unanswered)'
  BY <1>3, <1>4, <1>5 DEF Sole, FreshPage, Unanswered
<1>7. overlap # "now" => Single /\ AtWork' = {} /\ SerialInv /\ HandlerShows(h)
  BY <1>2 DEF WInv, Single
<1>8. behind' = IF Good(out[h]) THEN behind /\ overlap = "now"
                ELSE behind \/ statusForError(out[h].err) = 500
  <2>1. Good(out[h]) <=> statusForError(out[h].err) = 200 BY DEF Good
  <2>2. behind \in BOOLEAN BY DEF WInv, WebTypeOK
  <2>3. CASE Good(out[h])
    <3>1. statusForError(out[h].err) = 200 /\ statusForError(out[h].err) # 500
      BY <2>1, <2>3
    <3>2. behind' = (behind /\ overlap = "now") BY <3>1, Zenon DEF Receive
    <3> QED BY <2>3, <3>2
  <2>4. CASE ~Good(out[h]) BY <2>1, <2>2, <2>4 DEF Receive
  <2> QED BY <2>3, <2>4
<1>9. GivenUp'
  <2>1. overlap = "now" => behind' BY <1>8 DEF PageInv, GivenUp
  <2>2. AtWork' \ due' # {} => overlap = "now" BY <1>7
  <2> QED BY <1>2, <2>1, <2>2 DEF GivenUp
<1>10. Beginning' BY <1>2, <1>7 DEF Beginning
<1>11. Good(out[h]) /\ overlap # "now" =>
         /\ Shows(req[h], work[h], out[h].prompt)
         /\ \A l \in DOMAIN store : store[l] = work[h]
  <2> SUFFICES ASSUME Good(out[h]), overlap # "now"
               PROVE  /\ Shows(req[h], work[h], out[h].prompt)
                      /\ \A l \in DOMAIN store : store[l] = work[h]
    OBVIOUS
  <2>1. Shows(req[h], work[h], out[h].prompt) /\ out[h].state # "no state"
    BY <1>1, <1>2, <1>7 DEF HandlerShows, Chat, Posed
  <2>2. Saved(req[h].learner) /\ work[h] = store[req[h].learner]
    BY <1>1, <1>2, <1>7, <2>1 DEF SerialInv, HandlerSerial, Writer
  <2>3. \A l \in DOMAIN store : l = req[h].learner
    BY <1>1, LearnerNamed DEF OneLearner, WInv, IInv, TypeOK
  <2> QED BY <2>1, <2>2, <2>3
<1>12. req[h].kind = "begin" /\ overlap # "now" => form # "chat" /\ NoPanel /\ due' = {}
  BY <1>2 DEF PageInv, Beginning
<1>13. ScreenRight'
  <2> SUFFICES ASSUME form' = "chat", ~behind' PROVE ShownRight'
    BY DEF ScreenRight
  <2>1. CASE Good(out[h])
    <3>1. shown' = out[h].prompt BY <2>1 DEF Receive, ShownAfter
    <3>2. overlap # "now" BY <1>8, <2>1 DEF PageInv, GivenUp
    <3>3. \A l \in DOMAIN store' : store'[l] = work[h] BY <1>1, <1>11, <2>1, <3>2
    <3>4. Agrees(out[h].prompt, work[h]) BY <1>11, <2>1, <3>2 DEF Shows
    <3> QED BY <3>1, <3>3, <3>4 DEF ShownRight, Agrees, Expects
  <2>2. CASE ~Good(out[h])
    <3>1. statusForError(out[h].err) \notin {200, 500} /\ ~behind
      BY <1>8, <2>2 DEF Good
    <3>2. shown' = shown BY <2>2 DEF Receive, ShownAfter
    <3>3. CASE req[h].kind = "input"
      <4>1. Waiting(h) BY <1>1, <3>1 DEF Waiting
      <4>2. ShownRight BY <1>2, <3>1, <3>3, <4>1 DEF PageInv, Unanswered, ReplyDue
      <4> QED BY <1>1, <3>2, <4>2, SameStore
    <3>4. CASE req[h].kind = "begin"
      <4>1. form # "chat" BY <1>12, <3>1, <3>4, UpToDate
      <4>2. form' = form BY <2>2, <3>4 DEF Receive, FormAfterBegin
      <4> QED BY <4>1, <4>2
    <3> QED BY <1>2, <3>3, <3>4
  <2> QED BY <2>1, <2>2
<1>14. overlap = "none" /\ PanelOpen' => Settled
  <2> SUFFICES ASSUME overlap = "none", PanelOpen' PROVE Settled
    OBVIOUS
  <2>1. CASE req[h].kind = "begin"
    <3>1. NoPanel /\ due' = {} BY <1>12, <2>1
    <3>2. report' = <<>> /\ ~fetching' BY <2>1, <3>1 DEF Receive, PanelAfter, NoPanel
    <3> QED BY <3>1, <3>2 DEF PanelOpen
  <2>2. CASE req[h].kind = "input" /\ Good(out[h])
    BY <1>11, <2>2 DEF Shows, Settled
  <2>3. CASE req[h].kind = "input" /\ ~Good(out[h])
    <3>1. report' = report /\ (fetching' <=> fetching)
      BY <2>3 DEF Receive, PanelAfter, WInv, WebTypeOK
    <3>2. PanelOpen BY <1>3, <3>1 DEF PanelOpen
    <3> QED BY <3>2 DEF PageInv, PanelSettled
  <2> QED BY <1>2, <2>1, <2>2, <2>3
<1>15. PanelSettled' BY <1>1, <1>2, <1>14, SameStore DEF PanelSettled
<1>16. ReportRight'
  <2>1. report' \in {report, <<>>} BY DEF Receive, PanelAfter
  <2> QED BY <1>1, <1>2, <2>1 DEF PageInv, ReportRight, Finds, DiagnosisReport
<1>17. ReportsFind'
  <2> SUFFICES ASSUME NEW g \in due', overlap = "none", pc'[g] = "done", Good(out[g])'
               PROVE  Finds(out[g].prompt)'
    BY <1>2 DEF ReportsFind
  <2>1. g \in due /\ req[g].kind = "report" /\ pc[g] = "done" /\ out'[g] = out[g] BY <1>3
  <2>2. Good(out[g]) BY <2>1, GoodReply
  <2>3. Finds(out[g].prompt) BY <2>1, <2>2 DEF PageInv, ReportsFind
  <2> QED BY <1>1, <2>1, <2>3 DEF Finds, DiagnosisReport
<1> QED BY <1>6, <1>9, <1>10, <1>13, <1>15, <1>16, <1>17 DEF PageInv

(* A connection fails (Unreliable). *)
LEMMA DisconnectPage ==
  ASSUME WInv, PageInv, NEW h \in Handlers, Disconnect(h)
  PROVE  PageInv'
<1>1. /\ UNCHANGED vars /\ due' = due \ {h} /\ due \subseteq Handlers
      /\ form' = form /\ shown' = shown /\ overlap' = overlap
      /\ awaitingDiagnosis' = awaitingDiagnosis /\ fetching' = fetching /\ report' = report
      /\ \A g \in Handlers \ {h} : asked'[g] = asked[g]
      /\ ~behind' => ~behind /\ req[h].kind = "report"
  BY DEF Disconnect, panel, WInv, WebTypeOK
<1>2. pc' = pc /\ req' = req /\ out' = out /\ store' = store BY <1>1 DEF vars
<1>3. AtWork' = AtWork BY <1>2 DEF AtWork
<1>4. ~behind' => ReplyDue' = ReplyDue BY <1>1, <1>2 DEF ReplyDue
<1> QED BY <1>1, <1>2, <1>3, <1>4, SameStore, QuietPage

(* A handler ends: that of the report, which the page may show, or one     *)
(* that nobody waits for (showDiagnosisReport).                            *)
LEMMA EndPage ==
  ASSUME WInv, PageInv, NEW h \in Handlers, ShowReport(h) \/ Unheard(h)
  PROVE  PageInv'
<1>1. /\ pc[h] = "done" /\ pc'[h] = "idle" /\ store' = store
      /\ \A g \in Handlers \ {h} : pc'[g] = pc[g] /\ req'[g] = req[g] /\ out'[g] = out[g]
  BY DEF ShowReport, Unheard, Finish, Goto, WInv, IInv, TypeOK, files
<1>2. /\ form' = form /\ shown' = shown /\ asked' = asked /\ overlap' = overlap
      /\ awaitingDiagnosis' = awaitingDiagnosis /\ fetching' = fetching /\ behind' = behind
      /\ due' = due \ {h} /\ due \subseteq Handlers
      /\ h \in due => req[h].kind = "report"
  BY DEF ShowReport, Unheard, page, panel, WInv, WebTypeOK
<1>3. AtWork' \subseteq AtWork /\ \A g \in AtWork' : req'[g] = req[g]
  BY <1>1 DEF AtWork
<1>4. ReplyDue' = ReplyDue BY <1>1, <1>2 DEF ReplyDue
<1>5. \A g \in due' : /\ g \in due /\ asked'[g] = asked[g]
                      /\ pc'[g] = pc[g] /\ req'[g] = req[g] /\ out'[g] = out[g]
  BY <1>1, <1>2
<1>6. \/ report' = report
      \/ h \in due /\ req[h].kind = "report" /\ (overlap = "none" => Finds(report'))
  <2>1. CASE Unheard(h) BY <2>1 DEF Unheard, page, panel
  <2>2. CASE ShowReport(h) /\ ~Good(out[h]) BY <2>2 DEF ShowReport
  <2>3. CASE ShowReport(h) /\ Good(out[h])
    <3>1. report' = out[h].prompt /\ h \in due /\ req[h].kind = "report"
      BY <2>3 DEF ShowReport
    <3>2. overlap = "none" => Finds(out[h].prompt)
      BY <1>1, <2>3, <3>1 DEF PageInv, ReportsFind
    <3> QED BY <3>1, <3>2
  <2> QED BY <2>1, <2>2, <2>3
<1> QED BY <1>1, <1>2, <1>3, <1>4, <1>5, <1>6, SameStore, QuietPage

(* The report is fetched (showDiagnosisReport). *)
LEMMA FetchReportPage ==
  ASSUME WInv, PageInv, NEW h \in Handlers, FetchReport(h)
  PROVE  PageInv'
<1>1. /\ pc[h] = "idle" /\ req'[h].kind = "report"
      /\ pc'[h] = "report" /\ store' = store
  <2>1. PICK r \in Requests :
          /\ pc[h] = "idle" /\ req'[h] = r /\ store' = store
          /\ RequestErr(r) = NoError => pc'[h] = r.kind
    BY DEF FetchReport, Arrive, Goto, WInv, IInv, TypeOK, files
  <2>2. r.kind = "report" BY <2>1 DEF FetchReport
  <2> QED BY <2>1, <2>2 DEF RequestErr
<1>2. \A g \in Handlers \ {h} : pc'[g] = pc[g] /\ req'[g] = req[g] /\ out'[g] = out[g]
  BY ArrivalIsOwn DEF FetchReport, WInv
<1>3. /\ fetching /\ ~fetching' /\ form' = form /\ shown' = shown /\ asked' = asked
      /\ awaitingDiagnosis' = awaitingDiagnosis /\ report' = report /\ behind' = behind
      /\ overlap' = overlap /\ due' = due \cup {h} /\ due \subseteq Handlers
  BY DEF FetchReport, WInv, WebTypeOK
<1>4. h \notin due BY <1>1 DEF WInv, OnPage
<1>5. AtWork' \subseteq AtWork /\ \A g \in AtWork' : req'[g] = req[g]
  BY <1>1, <1>2 DEF AtWork
<1>6. ReplyDue' = ReplyDue BY <1>1, <1>2, <1>3, <1>4 DEF ReplyDue
<1>7. \A g \in due' :
        \/ /\ g \in due /\ asked'[g] = asked[g]
           /\ pc'[g] = pc[g] /\ req'[g] = req[g] /\ out'[g] = out[g]
        \/ fetching /\ req'[g].kind = "report" /\ pc'[g] # "done"
  BY <1>1, <1>2, <1>3, <1>4
<1> QED BY <1>1, <1>3, <1>5, <1>6, <1>7, SameStore, QuietPage

(* The server dies: no handler is left, and at most one session is lost    *)
(* (Crash).                                                                *)
LEMMA ServerDiesPage ==
  ASSUME WInv, PageInv, ServerDies
  PROVE  PageInv'
<1>1. Narrowed
  <2>1. UNCHANGED files \/ \E h \in Handlers : Tear(work[h]) BY DEF ServerDies, Crash
  <2> QED BY <2>1 DEF files, Tear, Narrowed
<1>2. AtWork' = {} /\ due' = {} /\ ReplyDue' = {}
  BY DEF ServerDies, Crash, AtWork, ReplyDue
<1>3. /\ form' = form /\ shown' = shown /\ awaitingDiagnosis' = awaitingDiagnosis
      /\ fetching' = fetching /\ report' = report /\ overlap' = overlap
      /\ ~behind' => ~behind /\ ReplyDue = {}
  BY DEF ServerDies, panel
<1> QED BY <1>1, <1>2, <1>3, QuietPage

(* A request is lost, the page is loaded again, or nothing happens         *)
(* (Unreliable, Reload).                                                   *)
LEMMA StillPage ==
  ASSUME WInv, PageInv, SubmitLost \/ FetchLost \/ Reload \/ UNCHANGED webVars
  PROVE  PageInv'
<1>1. CASE Reload BY <1>1, BlankPage DEF Reload, NoPanel
<1>2. ASSUME UNCHANGED vars, due' = due, asked' = asked, form' = form, shown' = shown,
             overlap' = overlap, awaitingDiagnosis' = awaitingDiagnosis,
             fetching' => fetching, report' = report, behind' = behind
      PROVE  PageInv'
  <2>1. pc' = pc /\ req' = req /\ out' = out /\ store' = store BY <1>2 DEF vars
  <2>2. AtWork' = AtWork /\ ReplyDue' = ReplyDue BY <1>2, <2>1 DEF AtWork, ReplyDue
  <2> QED BY <1>2, <2>1, <2>2, SameStore, QuietPage
<1>3. CASE SubmitLost
  <2>1. PICK r \in Requests :
          /\ StartPage(r) \/ ChatPage(r)
          /\ report' = IF r.kind = "begin" THEN <<>> ELSE report
          /\ UNCHANGED <<vars, due, asked, awaitingDiagnosis, fetching, overlap, behind>>
    BY <1>3 DEF SubmitLost
  <2>2. CASE StartPage(r)
    <3>1. due = {} /\ NoPanel BY <2>2 DEF StartPage, PageInv, FreshPage
    <3>2. ReplyDue = {} /\ behind \in BOOLEAN BY <3>1 DEF ReplyDue, WInv, WebTypeOK
    <3>3. form' # "chat" /\ NoPanel' BY <2>1, <2>2, <3>1 DEF StartPage, NoPanel
    <3> QED BY <2>1, <3>1, <3>2, <3>3, BlankPage
  <2>3. CASE ChatPage(r) BY <1>2, <2>1, <2>3 DEF ChatPage
  <2> QED BY <2>1, <2>2, <2>3
<1>4. CASE FetchLost BY <1>2, <1>4 DEF FetchLost
<1>5. CASE UNCHANGED webVars BY <1>2, <1>5 DEF webVars, page, panel
<1> QED BY <1>1, <1>3, <1>4, <1>5

-----------------------------------------------------------------------------
(* The invariant of the page of one patient learner. *)

(* The start form is there and nothing else. *)
LEMMA InitPage == WebInit => PageInv
<1> SUFFICES ASSUME WebInit PROVE PageInv OBVIOUS
<1>1. AtWork = {} /\ ReplyDue = {} BY DEF WebInit, Init, AtWork, ReplyDue
<1>2. due = {} /\ NoPanel /\ form = "start" /\ overlap = "none" BY DEF WebInit, NoPanel
<1> QED BY <1>1, <1>2
    DEF PageInv, Sole, GivenUp, FreshPage, Beginning, Unanswered, ScreenRight, PanelSettled,
        PanelOpen, ReportsFind, ReportRight, NoPanel

(* Every step keeps it.                                                    *)
LEMMA NextPage ==
  ASSUME Patient, OneLearner, WInv, PageInv, [WebNext]_webVars
  PROVE  PageInv'
<1>1. ASSUME NEW h \in Handlers, Submit(h) PROVE PageInv'
  BY <1>1, BeginPage, AnswerPage DEF Submit
<1> QED BY <1>1, ServedPage, ReceivePage, DisconnectPage, EndPage, FetchReportPage, StillPage,
           ServerDiesPage
        DEF WebNext

(* So it holds always.                                                     *)
LEMMA AlwaysPage == ASSUME Patient, OneLearner PROVE WebSpec => [](WInv /\ PageInv)
<1>1. WInv /\ PageInv /\ [WebNext]_webVars => PageInv' BY NextPage
<1> QED BY <1>1, InitPage, AlwaysWeb, PTL DEF WebSpec

-----------------------------------------------------------------------------
(* What the page promises a patient learner. *)

(* An open chat form stands under the text that the saved session expects  *)
(* an answer to, and does so again after the first good reply, to a        *)
(* request sent with no other at work, that follows a failure (sendAnswer, *)
(* respondAction).                                                         *)
THEOREM ScreenAlwaysAgrees ==
  ASSUME Patient, OneLearner PROVE WebSpec => []ScreenAgrees
<1>1. PageInv => ScreenAgrees
  BY DEF PageInv, ScreenRight, ShownRight, Agrees, ScreenAgrees
<1> QED BY <1>1, AlwaysPage, PTL

(* The report on the page is what is on record of the diagnosis the tutor  *)
(* goes by, whatever was answered or lost while it was fetched, unless two *)
(* requests were at work together since the topic was begun                *)
(* (showDiagnosisReport).                                                  *)
THEOREM ReportAlwaysAgrees ==
  ASSUME Patient, OneLearner PROVE WebSpec => []ReportAgrees
<1>1. PageInv => ReportAgrees
  BY DEF PageInv, ReportRight, Finds, ReportAgrees
<1> QED BY <1>1, AlwaysPage, PTL

(* A handler that takes an input for an explanation or an answer saves or  *)
(* asks the provider in the very step that checks the session              *)
(* (SubmitDiagnosis, SubmitAnswer).                                        *)
LEMMA AnsweringStep ==
  ASSUME IInv, [Next]_vars, NEW h \in Handlers,
         pc[h] \in {"diagnose", "answer"}, pc'[h] \in {"provider", "save"}
  PROVE  SubmitDiagnosis(h) \/ AnswerQuestion(h)
<1>1. ASSUME NEW g \in Handlers, Arrive(g) PROVE FALSE
  <2>1. g = h BY <1>1, ArrivalIsOwn
  <2> QED BY <1>1, <2>1 DEF Arrive
<1>2. PICK g \in Handlers : HandlerStep(g)
  <2>1. ~Crash /\ ~UNCHANGED vars BY DEF Crash, vars
  <2> QED BY <1>1, <2>1 DEF Next
<1>3. g = h BY <1>2, StepsAreOwn DEF Elsewhere
<1>4. ~LoadFails(h) BY DEF LoadFails, Fail, Goto, IInv, TypeOK
<1> QED BY <1>2, <1>3, <1>4
    DEF HandlerStep, Proceed, Serve, BeginTopic, ApplyInput, Stop, ProviderRefusesJSONMode,
        ProviderAnswers, ProviderFails, Calling, ChangeGradeBand, DiagnosticReport,
        ResumeSession, Save, SaveFails, Respond, Finish

(* What the learner says is taken for the answer to what was on the page   *)
(* when it was said (SubmitDiagnosis, SubmitAnswer), until a request fails *)
(* in a way that may have been served, and again after the first good      *)
(* reply to one sent with no other at work.                                *)
THEOREM AnswersTakenAsShown ==
  ASSUME Patient, OneLearner PROVE WebSpec => TakenAsShown
<1>1. ASSUME WInv, PageInv, [WebNext]_webVars, NEW h \in Handlers, ~behind,
             pc[h] \in {"diagnose", "answer"}, pc'[h] \in {"provider", "save"}
      PROVE  AskedLast(h) = Expects(store[req[h].learner])
  <2> DEFINE l == req[h].learner
  <2>1. [Next]_vars /\ IInv BY <1>1, WebStep DEF WInv
  <2>2. SubmitDiagnosis(h) \/ AnswerQuestion(h)
    BY <1>1, <2>1, AnsweringStep
  <2>3. req[h].kind = "input" BY <1>1, <2>1 DEF IInv, HandlerSound
  <2>4. h \in due
    <3>1. h \in AtWork BY <1>1, <2>3 DEF AtWork
    <3> QED BY <1>1, <3>1, UpToDate DEF ReplyDue
  <2>5. asked[h] = shown /\ ShownRight
    BY <1>1, <2>3, <2>4 DEF PageInv, Unanswered, Waiting
  <2>6. Saved(l) /\ store[l].state \in {"Diagnosing", "WaitForAnswer"}
    <3>1. \A e : ~Fail(h, e) BY <1>1, <2>1 DEF Fail, Goto, IInv, TypeOK
    <3>2. CASE SubmitDiagnosis(h)
      <4>1. DiagnosisErr(l) = NoError BY <3>1, <3>2 DEF SubmitDiagnosis
      <4> QED BY <4>1, LoadErrTold DEF DiagnosisErr, NoError
    <3>3. CASE AnswerQuestion(h)
      <4>1. AnswerErr(l) = NoError BY <3>1, <3>3 DEF AnswerQuestion
      <4> QED BY <4>1, LoadErrTold DEF AnswerErr, NoError
    <3> QED BY <2>2, <3>2, <3>3
  <2>7. asked[h] # <<>> /\ Last(asked[h]) = Expects(store[l])
    BY <2>5, <2>6 DEF ShownRight, Agrees, Saved
  <2> QED BY <2>7 DEF AskedLast
<1>2. WInv /\ PageInv /\ [WebNext]_webVars =>
        [\A h \in Handlers :
           ~behind /\ pc[h] \in {"diagnose", "answer"} /\ pc'[h] \in {"provider", "save"} =>
             AskedLast(h) = Expects(store[req[h].learner])]_webVars
  BY <1>1
<1> QED BY <1>2, AlwaysPage, PTL DEF WebSpec, TakenAsShown

=============================================================================
