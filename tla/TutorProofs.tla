----------------------------- MODULE TutorProofs -----------------------------
(***************************************************************************)
(* Proofs about Tutor, for any number of handlers, any requests, any       *)
(* content of the shape ContentShape asks for, with and without a          *)
(* provider, whether or not the store fails and whether or not learners    *)
(* wait for their replies.                                                 *)
(*                                                                         *)
(* The saved sessions are sound because what a handler is about to save    *)
(* is, and that is because it was computed from a sound session: whichever *)
(* session it loaded, and whatever happened to the store since.            *)
(***************************************************************************)
EXTENDS Tutor, SessionProofs

(* A handler between two steps: it works on a request that passed the      *)
(* checks of its route, what it is about to save is a sound session of its *)
(* learner, and it has no error to report before it is done.               *)
HandlerSound(h) ==
  /\ pc[h] # "idle" => req[h] \in Requests
  /\ pc[h] = "begin" => req[h].kind = "begin" /\ RequestErr(req[h]) = NoError
  /\ pc[h] \in {"input", "diagnose", "provider", "retry", "answer"} =>
       req[h].kind = "input" /\ req[h].input # NoText
  /\ pc[h] \in {"provider", "retry", "save"} =>
       work[h].learnerName = req[h].learner /\ Sound(work[h])
  /\ Calling(h) => work[h].state = "Diagnosing" /\ HasProvider
  /\ pc[h] # "done" => out[h].err = NoError

IInv ==
  /\ TypeOK
  /\ StoreSound
  /\ NoSequencingError
  /\ \A h \in Handlers : HandlerSound(h)

-----------------------------------------------------------------------------
(* The content: what the tutor asks is a question of the session's topic. *)

(* contentFor finds a bundle exactly for the supported topics. *)
LEMMA ContentFound ==
  ASSUME NEW topic, NEW band
  PROVE  /\ contentForErr(topic, band) = NoError <=> topic \in SupportedTopics
         /\ contentForErr(topic, band) \in {NoError, "ErrTopicNotYetSupported"}
         /\ topic \in SupportedTopics => BandUsed(topic, band) \in BandsOf(topic)
  BY ContentShape DEF contentForErr, BandUsed, NoError

(* firstPracticeQuestion is a practice question of the topic. *)
LEMMA FirstQuestion ==
  ASSUME NEW topic \in SupportedTopics, NEW band
  PROVE  LET q == firstPracticeQuestion(topic, band)
         IN  q \in qa /\ q \in PracticeOf(topic, BandUsed(topic, band))
<1> DEFINE b == BandUsed(topic, band)
           c == contentByTopic[topic][b]
<1>1. b \in BandsOf(topic) BY ContentFound
<1>2. c \in topicContent /\ Len(c.practice) >= 2 BY <1>1, ContentShape
<1>3. c.practice \in Seq(qa) BY <1>2 DEF topicContent
<1> HIDE DEF b, c
<1>4. 1 \in DOMAIN c.practice /\ c.practice[1] \in qa BY <1>2, <1>3
<1> QED BY <1>4 DEF firstPracticeQuestion, contentFor, PracticeOf, b, c

(* nextPracticeQuestion is a practice question of the topic other than the *)
(* last question, which may be any text.                                   *)
LEMMA NextQuestion ==
  ASSUME NEW topic \in SupportedTopics, NEW band, NEW last
  PROVE  LET q == nextPracticeQuestion(topic, band, last)
         IN  /\ q \in qa
             /\ q \in PracticeOf(topic, BandUsed(topic, band))
             /\ q.question # last
<1> DEFINE b == BandUsed(topic, band)
           p == contentByTopic[topic][b].practice
           other == {i \in DOMAIN p : p[i].question # last}
           first == CHOOSE i \in other : \A j \in other : i <= j
<1>1. b \in BandsOf(topic) BY ContentFound
<1>2. /\ contentByTopic[topic][b] \in topicContent
      /\ Len(p) >= 2
      /\ p[1].question # p[2].question
  BY <1>1, ContentShape
<1>3. p \in Seq(qa) BY <1>2 DEF topicContent
<1>4. nextPracticeQuestion(topic, band, last) = IF other = {} THEN p[1] ELSE p[first]
  BY DEF nextPracticeQuestion, contentFor
<1>5. PracticeOf(topic, b) = {p[i] : i \in DOMAIN p}
  BY DEF PracticeOf
<1> HIDE DEF p, b
<1>6. DOMAIN p = 1 .. Len(p) /\ Len(p) \in Nat BY <1>3
<1>7. \E i \in other : \A j \in other : i <= j
  <2>1. CASE p[1].question # last
    <3>1. 1 \in other BY <2>1, <1>2, <1>6
    <3>2. \A j \in other : 1 <= j BY <1>6
    <3> QED BY <3>1, <3>2
  <2>2. CASE p[1].question = last
    <3>1. 2 \in other BY <2>2, <1>2, <1>6
    <3>2. \A j \in other : 2 <= j BY <2>2, <1>6
    <3> QED BY <3>1, <3>2
  <2> QED BY <2>1, <2>2
<1>8. first \in other BY <1>7
<1> HIDE DEF first
<1>9. first \in DOMAIN p /\ p[first].question # last /\ other # {} BY <1>8
<1>10. p[first] \in qa BY <1>9, <1>3
<1> QED BY <1>4, <1>5, <1>9, <1>10 DEF b

(* transferQuestion is the transfer question of a bundle of the topic and  *)
(* differs from its practice questions in every band.                      *)
LEMMA TransferDiffers ==
  ASSUME NEW topic \in SupportedTopics, NEW band
  PROVE  LET q == transferQuestion(topic, band)
         IN  /\ q \in qa
             /\ q = contentByTopic[topic][BandUsed(topic, band)].transfer
             /\ \A b \in BandsOf(topic) : \A p \in PracticeOf(topic, b) :
                  p.question # q.question
<1>1. BandUsed(topic, band) \in BandsOf(topic) BY ContentFound
<1> QED BY <1>1, ContentShape DEF transferQuestion, contentFor, topicContent

(* The prompts are texts. *)
LEMMA TextsAreStrings ==
  ASSUME NEW topic \in SupportedTopics, NEW band
  PROVE  /\ diagnosticPrompt(topic, band) \in STRING
         /\ explanation(topic, band) \in STRING
         /\ completionMessage(topic, band) \in STRING
<1>1. BandUsed(topic, band) \in BandsOf(topic) BY ContentFound
<1> QED BY <1>1, ContentShape
        DEF diagnosticPrompt, explanation, completionMessage, contentFor, topicContent

-----------------------------------------------------------------------------
(* The methods, called as the tutor calls them, lead from sound sessions   *)
(* to sound sessions.                                                      *)

(* An abandoned or freshly selected topic, mastered or not. *)
LEMMA ResetSound ==
  ASSUME NEW s \in Session, Placed(s)
  PROVE  Sound(ResetAttempt(s))
<1> DEFINE t == ResetAttempt(s)
<1>1. /\ t.gradeBand = s.gradeBand /\ t.subject = s.subject /\ t.topic = s.topic
      /\ t.masteryBySubject = s.masteryBySubject /\ masteryKey(t) = masteryKey(s)
      /\ t.mastered <=> masteryKey(s) \in s.masteryBySubject
      /\ t.state = IF t.mastered THEN "Mastered" ELSE "Idle"
      /\ t.diagnosisComplete = FALSE /\ t.diagnosticFinding = NoText
      /\ t.diagnosticResult = NoResult /\ t.wrongStreak = 0
  BY ResetAttemptFields
<1> HIDE DEF t
<1>2. AtRest(t) /\ StreakSound(t)
  BY <1>1 DEF AtRest, StreakSound, wrongThreshold
<1>3. Placed(t)
  BY <1>1 DEF Placed
<1>4. MasterySound(t)
  BY <1>1 DEF MasterySound
<1>5. DiagnosisSound(t) /\ PendingSound(t)
  BY <1>1 DEF DiagnosisSound, PendingSound
<1> QED BY <1>2, <1>3, <1>4, <1>5 DEF Sound, t

(* A change of the grade band in the middle of a topic. *)
LEMMA SetGradeBandSound ==
  ASSUME NEW s \in Session, Sound(s), NEW band \in GradeBands
  PROVE  Sound(SetGradeBand(s, band))
<1> DEFINE t == SetGradeBand(s, band)
<1>1. t = [s EXCEPT !.gradeBand = band] /\ t \in Session
  BY SetGradeBandType DEF SetGradeBand
<1>2. AtRest(t) /\ Placed(t) /\ MasterySound(t)
  BY <1>1 DEF Sound, AtRest, Placed, MasterySound, masteryKey, Session
<1>3. DiagnosisSound(t) /\ StreakSound(t)
  BY <1>1 DEF Sound, DiagnosisSound, StreakSound, Session
<1>4. PendingSound(t)
  BY <1>1 DEF Sound, PendingSound, Pending, Session
<1> QED BY <1>2, <1>3, <1>4 DEF Sound

(* A stopped or new attempt whose diagnosis starts. *)
LEMMA BegunSound ==
  ASSUME NEW s \in Session, Sound(s)
  PROVE  Begun(s) \in Session /\ Sound(Begun(s)) /\ Begun(s).learnerName = s.learnerName
<1>1. CASE s.state # "Idle"
  BY <1>1 DEF Begun
<1>2. CASE s.state = "Idle"
  <2> DEFINE t == [s EXCEPT !.state = "Diagnosing"]
  <2>1. ~s.diagnosisComplete BY <1>2 DEF Sound, DiagnosisSound
  <2>2. Begun(s) = t /\ t \in Session
    BY <1>2, <2>1, StartDiagnosisType DEF Begun, StartDiagnosis
  <2>3. AtRest(t) /\ Placed(t) /\ MasterySound(t)
    BY <1>2, <2>2 DEF Sound, AtRest, Placed, MasterySound, masteryKey, Session
  <2>4. DiagnosisSound(t) /\ StreakSound(t) /\ PendingSound(t)
    BY <1>2, <2>1, <2>2 DEF Sound, DiagnosisSound, StreakSound, PendingSound, Session
  <2>5. t.learnerName = s.learnerName BY DEF Session
  <2> QED BY <2>2, <2>3, <2>4, <2>5 DEF Sound
<1> QED BY <1>1, <1>2

(* A practice question of the topic posed to a diagnosed learner that has  *)
(* not mastered it, with the misses counted so far short of the threshold. *)
LEMMA AskQuestionSound ==
  ASSUME NEW s \in Session, Placed(s), NEW q \in qa, NEW b \in BandsOf(s.topic),
         q \in PracticeOf(s.topic, b),
         s.diagnosisComplete, s.diagnosticFinding # NoText,
         IF HasProvider THEN ValidateDiagnosticResult(s.diagnosticResult) = NoError
                        ELSE s.diagnosticResult = NoResult,
         ~s.mastered, masteryKey(s) \notin s.masteryBySubject,
         s.wrongStreak < wrongThreshold
  PROVE  LET t == AskQuestion(s, q.question, q.expectedAnswer)
         IN  t \in Session /\ Sound(t) /\ t.learnerName = s.learnerName
<1> DEFINE t == AskQuestion(s, q.question, q.expectedAnswer)
<1>1. t \in Session BY AskQuestionType DEF qa
<1>2. /\ t.learnerName = s.learnerName /\ t.gradeBand = s.gradeBand
      /\ t.subject = s.subject /\ t.topic = s.topic
      /\ t.mastered = s.mastered /\ t.masteryBySubject = s.masteryBySubject
      /\ t.diagnosisComplete = s.diagnosisComplete
      /\ t.diagnosticFinding = s.diagnosticFinding
      /\ t.diagnosticResult = s.diagnosticResult
      /\ t.wrongStreak = s.wrongStreak
      /\ t.state = "WaitForAnswer" /\ ~t.isTransferQuestion
      /\ t.question = q.question /\ t.originalQuestion = q.question
      /\ t.expectedAnswer = q.expectedAnswer
  BY DEF AskQuestion, Session
<1> HIDE DEF t
<1>3. AtRest(t) /\ Placed(t) /\ StreakSound(t)
  BY <1>2 DEF AtRest, Placed, StreakSound
<1>4. MasterySound(t)
  BY <1>2 DEF MasterySound, masteryKey
<1>5. DiagnosisSound(t)
  BY <1>2 DEF DiagnosisSound
<1>6. Pending(t) = q
  BY <1>2 DEF Pending, qa
<1>7. PendingSound(t)
  BY <1>2, <1>6 DEF PendingSound
<1> QED BY <1>1, <1>2, <1>3, <1>4, <1>5, <1>7 DEF Sound, t

-----------------------------------------------------------------------------
(* The session after an answer was checked: what SubmitAnswer and          *)
(* CheckAnswer changed of the pending one.                                 *)
LEMMA CheckedFields ==
  ASSUME NEW s \in Session, Sound(s), s.state = "WaitForAnswer", NEW a \in STRING
  PROVE  LET t == CheckAnswer(SubmitAnswer(s, a))
         IN  /\ t \in Session
             /\ t.learnerName = s.learnerName /\ t.gradeBand = s.gradeBand
             /\ t.subject = s.subject /\ t.topic = s.topic
             /\ t.diagnosisComplete /\ t.diagnosticFinding # NoText
             /\ t.diagnosticFinding = s.diagnosticFinding
             /\ t.diagnosticResult = s.diagnosticResult
             /\ t.question = s.question /\ t.originalQuestion = s.originalQuestion
             /\ t.isTransferQuestion = s.isTransferQuestion
             /\ t.taughtSinceUncertain = s.taughtSinceUncertain
             /\ t.wrongStreak = s.wrongStreak
             /\ t.state \in {"Uncertain", "Incorrect", "AwaitingTransferCheck", "Mastered"}
             /\ IF t.state = "Mastered"
                THEN /\ t.mastered /\ s.isTransferQuestion
                     /\ t.masteryBySubject = s.masteryBySubject \cup {masteryKey(s)}
                ELSE /\ ~t.mastered /\ t.masteryBySubject = s.masteryBySubject
                     /\ masteryKey(s) \notin s.masteryBySubject
<1> DEFINE u == SubmitAnswer(s, a)
           t == CheckAnswer(u)
<1>1. u \in Session BY SubmitAnswerType
<1>2. t \in Session BY <1>1, CheckAnswerType
<1>3. /\ u.learnerName = s.learnerName /\ u.gradeBand = s.gradeBand
      /\ u.subject = s.subject /\ u.topic = s.topic
      /\ u.diagnosisComplete = s.diagnosisComplete
      /\ u.diagnosticFinding = s.diagnosticFinding
      /\ u.diagnosticResult = s.diagnosticResult
      /\ u.question = s.question /\ u.originalQuestion = s.originalQuestion
      /\ u.isTransferQuestion = s.isTransferQuestion
      /\ u.taughtSinceUncertain = s.taughtSinceUncertain
      /\ u.wrongStreak = s.wrongStreak
      /\ u.mastered = s.mastered /\ u.masteryBySubject = s.masteryBySubject
      /\ u.state = "CheckAnswer"
  BY DEF SubmitAnswer, Session
<1>4. masteryKey(u) = masteryKey(s) BY <1>3 DEF masteryKey
<1>5. /\ s.diagnosisComplete /\ s.diagnosticFinding # NoText
      /\ ~s.mastered /\ masteryKey(s) \notin s.masteryBySubject
      /\ s.subject # NoText
  BY DEF Sound, DiagnosisSound, MasterySound, Placed
<1> HIDE DEF u
<1>6. /\ t.learnerName = u.learnerName /\ t.gradeBand = u.gradeBand
      /\ t.subject = u.subject /\ t.topic = u.topic
      /\ t.diagnosisComplete = u.diagnosisComplete
      /\ t.diagnosticFinding = u.diagnosticFinding
      /\ t.diagnosticResult = u.diagnosticResult
      /\ t.question = u.question /\ t.originalQuestion = u.originalQuestion
      /\ t.isTransferQuestion = u.isTransferQuestion
      /\ t.taughtSinceUncertain = u.taughtSinceUncertain
      /\ t.wrongStreak = u.wrongStreak
  BY <1>1 DEF CheckAnswer, Session
<1>7. /\ t.state \in {"Uncertain", "Incorrect", "AwaitingTransferCheck", "Mastered"}
      /\ IF t.state = "Mastered"
         THEN /\ t.mastered /\ u.isTransferQuestion
              /\ t.masteryBySubject = u.masteryBySubject \cup {masteryKey(u)}
         ELSE t.mastered = u.mastered /\ t.masteryBySubject = u.masteryBySubject
  BY <1>1, <1>3, <1>5 DEF CheckAnswer, Session
<1> HIDE DEF t
<1> QED BY <1>2, <1>3, <1>4, <1>5, <1>6, <1>7 DEF t, u

-----------------------------------------------------------------------------
(* The two ways a handler's step ends keep the invariant. *)

(* A reply without an error yet is a reply. *)
LEMMA NoReplyType == NoReply \in Reply
<1>1. NoError \in Errors /\ "no state" \in StateNames BY DEF Errors, StateNames
<1>2. <<>> \in Seq(STRING) OBVIOUS
<1> QED BY <1>1, <1>2 DEF NoReply, Reply

(* A handler refuses with an error that no sequencing of calls is to blame *)
(* for (Fail).                                                             *)
LEMMA FailStep ==
  ASSUME IInv, NEW h \in Handlers, pc[h] # "idle",
         NEW e \in Errors, e \notin SequencingErrors,
         req[h].kind = "input" => e # "ErrTopicNotYetSupported",
         Fail(h, e)
  PROVE  IInv'
<1> USE DEF IInv
<1> DEFINE r == [NoReply EXCEPT !.err = e]
<1>1. r \in Reply /\ r.err = e
  BY NoReplyType DEF Reply, NoReply
<1>2. /\ pc' = [pc EXCEPT ![h] = "done"]
      /\ out' = [out EXCEPT ![h] = r]
      /\ store' = store /\ torn' = torn /\ req' = req /\ work' = work
  BY DEF Fail, Goto, files
<1> HIDE DEF r
<1>3. TypeOK'
  BY <1>1, <1>2 DEF TypeOK, Steps
<1>4. StoreSound'
  BY <1>2 DEF StoreSound
<1>5. NoSequencingError'
  BY <1>1, <1>2 DEF NoSequencingError, TypeOK
<1>6. ASSUME NEW g \in Handlers PROVE HandlerSound(g)'
  <2>1. HandlerSound(g) OBVIOUS
  <2>2. CASE g = h BY <1>2, <2>1, <2>2 DEF HandlerSound, Calling, TypeOK
  <2>3. CASE g # h BY <1>2, <2>1, <2>3 DEF HandlerSound, Calling, TypeOK
  <2> QED BY <2>2, <2>3
<1> QED BY <1>3, <1>4, <1>5, <1>6

(* A handler is about to save a sound session of its learner (ThenSave). *)
LEMMA ThenSaveStep ==
  ASSUME IInv, NEW h \in Handlers, pc[h] # "idle",
         NEW s \in Session, Sound(s), s.learnerName = req[h].learner,
         NEW prompt \in Seq(STRING),
         ThenSave(h, s, prompt)
  PROVE  IInv'
<1> USE DEF IInv
<1> DEFINE r == [NoReply EXCEPT !.prompt = prompt]
<1>1. r \in Reply /\ r.err = NoError
  BY NoReplyType DEF Reply, NoReply
<1>2. /\ pc' = [pc EXCEPT ![h] = "save"]
      /\ work' = [work EXCEPT ![h] = s]
      /\ out' = [out EXCEPT ![h] = r]
      /\ store' = store /\ torn' = torn /\ req' = req
  BY DEF ThenSave, Goto, files
<1> HIDE DEF r
<1>3. TypeOK'
  BY <1>1, <1>2 DEF TypeOK, Steps
<1>4. StoreSound'
  BY <1>2 DEF StoreSound
<1>5. NoSequencingError'
  BY <1>1, <1>2 DEF NoSequencingError, TypeOK, NoError, SequencingErrors
<1>6. ASSUME NEW g \in Handlers PROVE HandlerSound(g)'
  <2>1. HandlerSound(g) OBVIOUS
  <2>2. CASE g = h BY <1>1, <1>2, <2>1, <2>2 DEF HandlerSound, Calling, TypeOK
  <2>3. CASE g # h BY <1>2, <2>1, <2>3 DEF HandlerSound, Calling, TypeOK
  <2> QED BY <2>2, <2>3
<1> QED BY <1>3, <1>4, <1>5, <1>6

(* A session taken from the store is a sound session of its learner. *)
LEMMA SavedSound ==
  ASSUME IInv, NEW l, Saved(l)
  PROVE  store[l] \in Session /\ Sound(store[l]) /\ store[l].learnerName = l /\ l \in STRING
<1>1. store[l] \in Session /\ Sound(store[l]) /\ store[l].learnerName = l
  BY DEF IInv, TypeOK, StoreSound, Saved
<1> QED BY <1>1 DEF Session

(* The errors of a Load are reported as they are (statusForError). *)
LEMMA LoadErrs ==
  ASSUME NEW l
  PROVE  /\ LoadErr(l) \in Errors \ SequencingErrors
         /\ LoadErr(l) # "ErrTopicNotYetSupported"
  BY DEF LoadErr, Errors, SequencingErrors, NoError

(* What the store holds is sound, and no file is torn that it can read. *)
FilesSound ==
  /\ DOMAIN store \subseteq Learners
  /\ torn \subseteq Learners \ DOMAIN store
  /\ \A l \in DOMAIN store :
       store[l] \in Session /\ store[l].learnerName = l /\ Sound(store[l])

(* Putting a sound session of one of the learners into the store, or       *)
(* tearing its file.                                                       *)
LEMMA WriteSound ==
  ASSUME IInv, NEW s \in Session, Sound(s), s.learnerName \in Learners,
         UNCHANGED files \/ Put(s) \/ Tear(s)
  PROVE  FilesSound'
<1>1. CASE UNCHANGED files
  BY <1>1 DEF files, FilesSound, IInv, TypeOK, StoreSound
<1>2. CASE Put(s)
  BY <1>2 DEF Put, FilesSound, IInv, TypeOK, StoreSound
<1>3. CASE Tear(s)
  BY <1>3 DEF Tear, FilesSound, IInv, TypeOK, StoreSound
<1> QED BY <1>1, <1>2, <1>3

-----------------------------------------------------------------------------
(* One lemma per action. *)

(* A request arrives (Arrive). *)
LEMMA ArriveStep == ASSUME IInv, NEW h \in Handlers, Arrive(h) PROVE IInv'
<1> USE DEF IInv
<1> PICK r \in Requests :
      /\ pc[h] = "idle"
      /\ req' = [req EXCEPT ![h] = r]
      /\ IF RequestErr(r) = NoError
         THEN Goto(h, r.kind) /\ UNCHANGED out
         ELSE Goto(h, "done") /\ out' = [out EXCEPT ![h].err = RequestErr(r)]
      /\ UNCHANGED <<files, work>>
  BY DEF Arrive
<1>1. r \in Request /\ r.kind \in Kinds
  BY RequestsType DEF Request
<1>2. RequestErr(r) \in Errors /\ RequestErr(r) \notin SequencingErrors
  BY <1>1 DEF RequestErr, SetGradeBandErr, Errors, SequencingErrors, NoError, Kinds
<1>3. r.kind = "input" => RequestErr(r) # "ErrTopicNotYetSupported"
  BY DEF RequestErr, NoError
<1>4. r.kind = "input" /\ RequestErr(r) = NoError => r.input # NoText
  BY DEF RequestErr, NoError
<1>5. HandlerSound(h) /\ out[h] \in Reply /\ out[h].err = NoError
  BY DEF HandlerSound, Calling, TypeOK
<1>6. CASE RequestErr(r) = NoError
  <2>1. /\ pc' = [pc EXCEPT ![h] = r.kind]
        /\ out' = out /\ store' = store /\ torn' = torn /\ work' = work
    BY <1>6 DEF Goto, files
  <2>2. TypeOK'
    BY <1>1, <2>1 DEF TypeOK, Steps, Kinds
  <2>3. StoreSound'
    BY <2>1 DEF StoreSound
  <2>4. NoSequencingError'
    BY <1>5, <2>1 DEF NoSequencingError, TypeOK, NoError, SequencingErrors
  <2>5. ASSUME NEW g \in Handlers PROVE HandlerSound(g)'
    <3>1. HandlerSound(g) OBVIOUS
    <3>2. CASE g = h
      BY <1>1, <1>4, <1>5, <1>6, <2>1, <3>2 DEF HandlerSound, Calling, TypeOK, Kinds
    <3>3. CASE g # h BY <2>1, <3>1, <3>3 DEF HandlerSound, Calling, TypeOK
    <3> QED BY <3>2, <3>3
  <2> QED BY <2>2, <2>3, <2>4, <2>5
<1>7. CASE RequestErr(r) # NoError
  <2> DEFINE o == [out[h] EXCEPT !.err = RequestErr(r)]
  <2>1. o \in Reply /\ o.err = RequestErr(r)
    BY <1>2, <1>5 DEF Reply
  <2>2. /\ pc' = [pc EXCEPT ![h] = "done"]
        /\ out' = [out EXCEPT ![h] = o]
        /\ store' = store /\ torn' = torn /\ work' = work
    BY <1>7 DEF Goto, TypeOK, files
  <2> HIDE DEF o
  <2>3. TypeOK'
    BY <2>1, <2>2 DEF TypeOK, Steps
  <2>4. StoreSound'
    BY <2>2 DEF StoreSound
  <2>5. NoSequencingError'
    BY <1>2, <1>3, <2>1, <2>2 DEF NoSequencingError, TypeOK
  <2>6. ASSUME NEW g \in Handlers PROVE HandlerSound(g)'
    <3>1. HandlerSound(g) OBVIOUS
    <3>2. CASE g = h BY <1>1, <2>2, <3>2 DEF HandlerSound, Calling, TypeOK
    <3>3. CASE g # h BY <2>2, <3>1, <3>3 DEF HandlerSound, Calling, TypeOK
    <3> QED BY <3>2, <3>3
  <2> QED BY <2>3, <2>4, <2>5, <2>6
<1> QED BY <1>6, <1>7

(* A topic selected for a learner whose session is saved or new is sound:  *)
(* either the one in progress with the band of the request, or one reset.  *)
LEMMA SelectedSound ==
  ASSUME NEW s \in Session, NEW r \in Request,
         Sound(s) \/ s.subject = NoText,
         r.subject # NoText, r.topic # NoText, BeginErr(s, r) = NoError
  PROVE  LET t == Selected(s, r)
         IN  /\ t \in Session /\ Sound(t) /\ t.learnerName = s.learnerName
             /\ t.topic = r.topic /\ t.gradeBand = r.gradeBand
<1> DEFINE s1 == SetGradeBand(s, r.gradeBand)
           s2 == SelectSubject(s1, r.subject)
           t == SelectTopic(s2, r.topic)
           x == [s1 EXCEPT !.subject = r.subject, !.topic = NoText]
           y == [s2 EXCEPT !.topic = r.topic]
<1>1. r.gradeBand \in GradeBands /\ r.topic \in SupportedTopics
  BY ContentFound DEF BeginErr, SetGradeBandErr, NoError
<1>2. r.subject \in Subjects \cup {NoText} /\ r.topic \in Topics \cup {NoText}
  BY DEF Request
<1>3. s1 \in Session
  BY <1>1, SetGradeBandType
<1>4. /\ s1.gradeBand = r.gradeBand /\ s1.learnerName = s.learnerName
      /\ s1.subject = s.subject /\ s1.topic = s.topic
  BY DEF SetGradeBand, Session
<1>5. t = Selected(s, r)
  BY DEF Selected
<1> HIDE DEF s1
<1>6. s2 \in Session
  BY <1>2, <1>3, SelectSubjectType
<1>7. /\ s2.subject = r.subject /\ s2.gradeBand = r.gradeBand
      /\ s2.learnerName = s.learnerName
      /\ s2 = s1 \/ s2.topic = NoText
  <2>1. CASE r.subject = s1.subject
    BY <2>1, <1>4 DEF SelectSubject
  <2>2. CASE r.subject # s1.subject
    <3>1. x \in Session BY <1>2, <1>3 DEF Session
    <3>2. /\ x.subject = r.subject /\ x.topic = NoText
          /\ x.gradeBand = s1.gradeBand /\ x.learnerName = s1.learnerName
      BY <1>3 DEF Session
    <3>3. s2 = ResetAttempt(x) BY <2>2 DEF SelectSubject
    <3> HIDE DEF x, s2
    <3> QED BY <1>4, <3>1, <3>2, <3>3, ResetAttemptFields
  <2> QED BY <2>1, <2>2
<1>8. s2 = s1 => SelectSubject(s1, r.subject) = s1
  OBVIOUS
<1>9. CASE r.topic = s2.topic
  <2>1. s2 = s1 BY <1>7, <1>9
  <2>2. s.subject = r.subject BY <2>1, <1>4, <1>7
  <2>3. Sound(s1) BY <2>2, <1>1, SetGradeBandSound DEF s1
  <2> QED BY <1>3, <1>4, <1>5, <1>9, <2>1, <2>3 DEF SelectTopic
<1>10. CASE r.topic # s2.topic
  <2> HIDE DEF s2
  <2>1. y \in Session BY <1>2, <1>6 DEF Session
  <2>2. /\ y.subject = r.subject /\ y.topic = r.topic
        /\ y.gradeBand = r.gradeBand /\ y.learnerName = s.learnerName
    BY <1>6, <1>7 DEF Session
  <2>3. t = ResetAttempt(y) BY <1>10 DEF SelectTopic
  <2> HIDE DEF y, t
  <2>4. Placed(y) BY <1>1, <2>2 DEF Placed
  <2>5. t \in Session /\ Sound(t) BY <2>1, <2>3, <2>4, ResetSound, ResetAttemptType
  <2>6. t.learnerName = y.learnerName /\ t.topic = y.topic /\ t.gradeBand = y.gradeBand
    BY <2>1, <2>3, ResetAttemptFields
  <2> QED BY <1>5, <2>2, <2>5, <2>6
<1> QED BY <1>9, <1>10

(* BeginTopic refuses, or is about to save the topic begun or resumed. *)
LEMMA BeginTopicStep == ASSUME IInv, NEW h \in Handlers, BeginTopic(h) PROVE IInv'
<1> DEFINE r == req[h]
           s0 == LoadOrNew(r.learner)
           s == Selected(s0, r)
           p == <<BeginPrompt(s, r)>>
<1>1. /\ pc[h] = "begin" /\ r \in Requests /\ r \in Request
      /\ r.kind = "begin" /\ RequestErr(r) = NoError
  BY RequestsType DEF BeginTopic, IInv, HandlerSound, Calling
<1>2. r.subject # NoText /\ r.topic # NoText
  BY <1>1 DEF RequestErr, NoError
<1>3. s0 \in Session /\ s0.learnerName = r.learner /\ (Sound(s0) \/ s0.subject = NoText)
  <2>1. CASE Saved(r.learner) BY <2>1, SavedSound DEF LoadOrNew
  <2>2. CASE ~Saved(r.learner)
    <3>1. r.learner \in STRING BY <1>1 DEF Request
    <3> QED BY <2>2, <3>1, NewType DEF LoadOrNew, New
  <2> QED BY <2>1, <2>2
<1>4. \/ Fail(h, LoadErr(r.learner))
      \/ BeginErr(s0, r) # NoError /\ Fail(h, BeginErr(s0, r))
      \/ BeginErr(s0, r) = NoError /\ ThenSave(h, Begun(s), p)
  BY DEF BeginTopic
<1>5. CASE BeginErr(s0, r) # NoError /\ Fail(h, BeginErr(s0, r))
  <2>1. SelectTopicErr(SelectSubject(s0, r.subject)) = NoError
    <3>1. SelectSubject(s0, r.subject).subject # NoText
      <4>1. CASE r.subject = s0.subject BY <4>1, <1>2 DEF SelectSubject
      <4>2. CASE r.subject # s0.subject
        <5> DEFINE x == [s0 EXCEPT !.subject = r.subject, !.topic = NoText]
        <5>1. x \in Session /\ x.subject = r.subject BY <1>1, <1>3 DEF Session, Request
        <5>2. SelectSubject(s0, r.subject) = ResetAttempt(x) BY <4>2 DEF SelectSubject
        <5> HIDE DEF x
        <5> QED BY <5>1, <5>2, <1>2, ResetAttemptFields
      <4> QED BY <4>1, <4>2
    <3> QED BY <3>1 DEF SelectTopicErr
  <2>2. BeginErr(s0, r) \in {"ErrInvalidGradeBand", "ErrTopicNotYetSupported"}
    BY <1>5, <2>1, ContentFound DEF BeginErr, SetGradeBandErr
  <2>3. BeginErr(s0, r) \in Errors /\ BeginErr(s0, r) \notin SequencingErrors
    BY <2>2 DEF Errors, SequencingErrors
  <2> QED BY <1>1, <1>5, <2>3, FailStep
<1>6. CASE BeginErr(s0, r) = NoError /\ ThenSave(h, Begun(s), p)
  <2>1. s \in Session /\ Sound(s) /\ s.learnerName = r.learner
    BY <1>1, <1>2, <1>3, <1>6, SelectedSound
  <2>2. Begun(s) \in Session /\ Sound(Begun(s)) /\ Begun(s).learnerName = r.learner
    BY <2>1, BegunSound
  <2>3. r.topic \in SupportedTopics
    BY <1>6, ContentFound DEF BeginErr, SetGradeBandErr, NoError
  <2>4. BeginPrompt(s, r) \in STRING
    BY <2>1, <2>3, TextsAreStrings, MessagesType DEF BeginPrompt, Session
  <2>5. p \in Seq(STRING) BY <2>4
  <2>6. ThenSave(h, Begun(s), p) BY <1>6
  <2> HIDE DEF p, s, s0
  <2> QED BY <1>1, <2>2, <2>5, <2>6, ThenSaveStep
<1>7. CASE Fail(h, LoadErr(r.learner)) BY <1>1, <1>7, FailStep, LoadErrs
<1> QED BY <1>4, <1>5, <1>6, <1>7

(* ApplyInput refuses, or sends the input on to be a diagnosis or an answer. *)
LEMMA ApplyInputStep == ASSUME IInv, NEW h \in Handlers, ApplyInput(h) PROVE IInv'
<1> DEFINE l == req[h].learner
<1>1. pc[h] = "input" BY DEF ApplyInput
<1>2. CASE Fail(h, LoadErr(l)) \/ Fail(h, "ErrNothingAwaitingInput")
  BY <1>1, <1>2, FailStep, LoadErrs DEF Errors, SequencingErrors
<1>3. CASE /\ Route(store[l]) # "nowhere"
           /\ Goto(h, Route(store[l])) /\ UNCHANGED <<files, req, work, out>>
  <2>1. Route(store[l]) \in {"diagnose", "answer"} BY <1>3 DEF Route
  <2>2. PICK step \in {"diagnose", "answer"} : pc' = [pc EXCEPT ![h] = step]
    BY <1>3, <2>1 DEF Goto
  <2>3. store' = store /\ torn' = torn /\ req' = req /\ work' = work /\ out' = out BY <1>3 DEF files
  <2>4. TypeOK' BY <2>2, <2>3 DEF IInv, TypeOK, Steps
  <2>5. StoreSound' /\ NoSequencingError'
    BY <2>3 DEF IInv, StoreSound, NoSequencingError
  <2>6. ASSUME NEW g \in Handlers PROVE HandlerSound(g)'
    <3>1. HandlerSound(g) BY DEF IInv
    <3>2. CASE g = h BY <1>1, <2>2, <2>3, <3>1, <3>2 DEF HandlerSound, Calling, IInv, TypeOK
    <3>3. CASE g # h BY <2>2, <2>3, <3>1, <3>3 DEF HandlerSound, Calling, IInv, TypeOK
    <3> QED BY <3>2, <3>3
  <2> QED BY <2>4, <2>5, <2>6 DEF IInv
<1> QED BY <1>2, <1>3 DEF ApplyInput

(* Stop refuses, replies at once to a learner that has mastered the topic, *)
(* or is about to save the attempt abandoned.                              *)
LEMMA StopStep == ASSUME IInv, NEW h \in Handlers, Stop(h) PROVE IInv'
<1> DEFINE l == req[h].learner
<1>1. pc[h] = "input" BY DEF Stop
<1>2. CASE ~Saved(l)
  <2>1. Fail(h, LoadErr(l)) BY <1>2 DEF Stop
  <2> QED BY <1>1, <2>1, FailStep, LoadErrs
<1>3. CASE Saved(l) /\ store[l].mastered
  <2> DEFINE o == [out[h] EXCEPT !.prompt = <<alreadyFinished>>]
  <2>1. store[l] \in Session BY <1>3, SavedSound
  <2>2. out[h] \in Reply /\ out[h].err = NoError
    BY <1>1 DEF IInv, TypeOK, HandlerSound, Calling
  <2>3. <<alreadyFinished>> \in Seq(STRING) BY MessagesType
  <2>4. o \in Reply /\ o.err = NoError BY <2>2, <2>3 DEF Reply
  <2>5. /\ pc' = [pc EXCEPT ![h] = "respond"]
        /\ out' = [out EXCEPT ![h] = o]
        /\ work' = [work EXCEPT ![h] = store[l]]
        /\ store' = store /\ torn' = torn /\ req' = req
    BY <1>3 DEF Stop, Goto, IInv, TypeOK, files
  <2> HIDE DEF o
  <2>6. TypeOK' BY <2>1, <2>4, <2>5 DEF IInv, TypeOK, Steps
  <2>7. StoreSound' BY <2>5 DEF IInv, StoreSound
  <2>8. NoSequencingError'
    BY <2>4, <2>5 DEF IInv, TypeOK, NoSequencingError, NoError, SequencingErrors
  <2>9. ASSUME NEW g \in Handlers PROVE HandlerSound(g)'
    <3>1. HandlerSound(g) BY DEF IInv
    <3>2. CASE g = h BY <1>1, <2>4, <2>5, <3>1, <3>2 DEF HandlerSound, Calling, IInv, TypeOK
    <3>3. CASE g # h BY <2>5, <3>1, <3>3 DEF HandlerSound, Calling, IInv, TypeOK
    <3> QED BY <3>2, <3>3
  <2> QED BY <2>6, <2>7, <2>8, <2>9 DEF IInv
<1>4. CASE Saved(l) /\ ~store[l].mastered
  <2> DEFINE s == ResetAttempt(store[l])
             p == <<stopPrompt>>
  <2>1. store[l] \in Session /\ Sound(store[l]) /\ store[l].learnerName = l
    BY <1>4, SavedSound
  <2>2. Placed(store[l]) BY <2>1 DEF Sound
  <2>3. s \in Session /\ Sound(s) /\ s.learnerName = l
    BY <2>1, <2>2, ResetSound, ResetAttemptType, ResetAttemptFields
  <2>4. p \in Seq(STRING) BY MessagesType
  <2>5. ThenSave(h, s, p) BY <1>4 DEF Stop
  <2> HIDE DEF s, p
  <2> QED BY <1>1, <2>3, <2>4, <2>5, ThenSaveStep
<1> QED BY <1>2, <1>3, <1>4

(* The explanation recorded and the first question posed: from a session   *)
(* in diagnosis, whatever the provider proposed as long as it is valid.    *)
LEMMA AskFirstStep ==
  ASSUME IInv, NEW h \in Handlers, pc[h] \in {"diagnose", "provider", "retry"},
         NEW s \in Session, s.learnerName = req[h].learner,
         Placed(s), MasterySound(s), StreakSound(s), s.state = "Diagnosing",
         IF HasProvider THEN ValidateDiagnosticResult(s.diagnosticResult) = NoError
                        ELSE s.diagnosticResult = NoResult,
         AskFirst(h, s)
  PROVE  IInv'
<1> DEFINE t == RecordDiagnosticResponse(s, req[h].input)
           q == firstPracticeQuestion(s.topic, s.gradeBand)
           u == AskQuestion(t, q.question, q.expectedAnswer)
           p == <<q.question>>
           b == BandUsed(s.topic, s.gradeBand)
<1>1. req[h] \in Request /\ req[h].input \in STRING /\ req[h].input # NoText
  BY RequestsType DEF IInv, HandlerSound, Calling, Request
<1>2. t \in Session
  BY <1>1, RecordDiagnosticResponseType
<1>3. /\ t.learnerName = s.learnerName /\ t.gradeBand = s.gradeBand
      /\ t.subject = s.subject /\ t.topic = s.topic
      /\ t.mastered = s.mastered /\ t.masteryBySubject = s.masteryBySubject
      /\ t.diagnosticResult = s.diagnosticResult /\ t.wrongStreak = s.wrongStreak
      /\ t.state = "Diagnosing" /\ t.diagnosisComplete
      /\ t.diagnosticFinding = req[h].input
  BY DEF RecordDiagnosticResponse, Session
<1>4. s.topic \in SupportedTopics BY DEF Placed
<1>5. q \in qa /\ q \in PracticeOf(s.topic, b) /\ b \in BandsOf(s.topic)
  BY <1>4, FirstQuestion, ContentFound
<1>6. q.question \in STRING BY <1>5 DEF qa
<1>7. p \in Seq(STRING) BY <1>6
<1>8. AskQuestionErr(t) = NoError BY <1>3 DEF AskQuestionErr
<1>9. ThenSave(h, u, p) BY <1>8 DEF AskFirst
<1>10. Placed(t) /\ ~t.mastered /\ masteryKey(t) \notin t.masteryBySubject
  BY <1>3 DEF Placed, MasterySound, masteryKey
<1>11. t.wrongStreak < wrongThreshold BY <1>3 DEF StreakSound
<1> HIDE DEF t, q, p, b
<1>12. u \in Session /\ Sound(u) /\ u.learnerName = t.learnerName
  BY <1>1, <1>2, <1>3, <1>5, <1>10, <1>11, AskQuestionSound
<1> HIDE DEF u
<1> QED BY <1>3, <1>7, <1>9, <1>12, ThenSaveStep

(* SubmitDiagnosis refuses, asks the provider or poses the first question. *)
LEMMA SubmitDiagnosisStep == ASSUME IInv, NEW h \in Handlers, SubmitDiagnosis(h) PROVE IInv'
<1> DEFINE l == req[h].learner
<1>1. pc[h] = "diagnose" BY DEF SubmitDiagnosis
<1>2. CASE DiagnosisErr(l) # NoError
  <2>1. DiagnosisErr(l) \in
          {"ErrStore", "ErrSessionNotFound", "ErrSessionNotAwaitingDiagnosis"}
    <3>1. Saved(l) => store[l].topic \in SupportedTopics
      BY SavedSound DEF Sound, Placed
    <3> QED BY <1>2, <3>1, ContentFound DEF DiagnosisErr, LoadErr
  <2>2. Fail(h, DiagnosisErr(l)) BY <1>2 DEF SubmitDiagnosis
  <2> QED BY <1>1, <2>1, <2>2, FailStep DEF Errors, SequencingErrors
<1>3. CASE DiagnosisErr(l) = NoError
  <2>1. Saved(l) /\ store[l].state = "Diagnosing" /\ ~store[l].diagnosisComplete
    BY <1>3 DEF DiagnosisErr, LoadErr, NoError
  <2>2. /\ store[l] \in Session /\ Sound(store[l]) /\ store[l].learnerName = l
    BY <2>1, SavedSound
  <2>3. CASE ~HasProvider
    <3>1. AskFirst(h, store[l]) BY <1>3, <2>3 DEF SubmitDiagnosis
    <3>2. store[l].diagnosticResult = NoResult
      BY <2>1, <2>2 DEF Sound, DiagnosisSound
    <3>3. Placed(store[l]) /\ MasterySound(store[l]) /\ StreakSound(store[l])
      BY <2>2 DEF Sound
    <3> QED BY <1>1, <2>1, <2>2, <2>3, <3>1, <3>2, <3>3, AskFirstStep
  <2>4. CASE HasProvider
    <3>1. /\ pc' = [pc EXCEPT ![h] = "provider"]
          /\ work' = [work EXCEPT ![h] = store[l]]
          /\ store' = store /\ torn' = torn /\ req' = req /\ out' = out
      BY <1>3, <2>4 DEF SubmitDiagnosis, Goto, files
    <3>2. TypeOK' BY <2>2, <3>1 DEF IInv, TypeOK, Steps
    <3>3. StoreSound' /\ NoSequencingError'
      BY <3>1 DEF IInv, StoreSound, NoSequencingError
    <3>4. ASSUME NEW g \in Handlers PROVE HandlerSound(g)'
      <4>1. HandlerSound(g) BY DEF IInv
      <4>2. CASE g = h
        BY <1>1, <2>1, <2>2, <2>4, <3>1, <4>1, <4>2 DEF HandlerSound, Calling, IInv, TypeOK
      <4>3. CASE g # h BY <3>1, <4>1, <4>3 DEF HandlerSound, Calling, IInv, TypeOK
      <4> QED BY <4>2, <4>3
    <3> QED BY <3>2, <3>3, <3>4 DEF IInv
  <2> QED BY <2>3, <2>4
<1> QED BY <1>2, <1>3

(* The provider's answer is refused or recorded before the first question. *)
LEMMA ProviderAnswersStep == ASSUME IInv, NEW h \in Handlers, ProviderAnswers(h) PROVE IInv'
<1> PICK result \in ProviderResults :
      /\ pc[h] \in {"provider", "retry"}
      /\ IF RecordDiagnosticResultErr(result) # NoError
         THEN Fail(h, RecordDiagnosticResultErr(result))
         ELSE AskFirst(h, RecordDiagnosticResult(work[h], result))
  BY DEF ProviderAnswers, Calling
<1> DEFINE s == work[h]
           t == RecordDiagnosticResult(s, result)
<1>1. result \in DiagnosticResult BY ProviderType
<1>2. /\ s \in Session /\ Sound(s) /\ s.learnerName = req[h].learner
      /\ s.state = "Diagnosing" /\ HasProvider
  BY DEF IInv, TypeOK, HandlerSound, Calling
<1>3. CASE RecordDiagnosticResultErr(result) # NoError
  <2>1. RecordDiagnosticResultErr(result) \in
          {"ErrMissingConcept", "ErrMissingRecommendedAction", "ErrConfidenceOutOfRange"}
    BY <1>3 DEF RecordDiagnosticResultErr, ValidateDiagnosticResult
  <2>2. Fail(h, RecordDiagnosticResultErr(result)) BY <1>3
  <2> QED BY <2>1, <2>2, FailStep DEF Errors, SequencingErrors
<1>4. CASE RecordDiagnosticResultErr(result) = NoError
  <2>1. t \in Session BY <1>1, <1>2, RecordDiagnosticResultType
  <2>2. /\ t.learnerName = s.learnerName /\ t.gradeBand = s.gradeBand
        /\ t.subject = s.subject /\ t.topic = s.topic
        /\ t.mastered = s.mastered /\ t.masteryBySubject = s.masteryBySubject
        /\ t.wrongStreak = s.wrongStreak /\ t.state = s.state
        /\ t.isTransferQuestion = s.isTransferQuestion
        /\ t.diagnosticResult = result
    BY <1>2 DEF RecordDiagnosticResult, Session
  <2>3. AskFirst(h, t) BY <1>4
  <2> HIDE DEF t
  <2>4. Placed(t) /\ MasterySound(t) /\ StreakSound(t)
    BY <1>2, <2>2 DEF Sound, Placed, MasterySound, StreakSound, masteryKey
  <2>5. ValidateDiagnosticResult(t.diagnosticResult) = NoError
    BY <1>4, <2>2 DEF RecordDiagnosticResultErr
  <2> QED BY <1>2, <2>1, <2>2, <2>3, <2>4, <2>5, AskFirstStep
<1> QED BY <1>3, <1>4

(* The provider fails: the learner's session stays as it was saved. *)
LEMMA ProviderFailsStep == ASSUME IInv, NEW h \in Handlers, ProviderFails(h) PROVE IInv'
  BY FailStep DEF ProviderFails, Calling, Errors, SequencingErrors

(* The provider refuses its JSON mode: the handler works on the same copy. *)
LEMMA ProviderRefusesStep ==
  ASSUME IInv, NEW h \in Handlers, ProviderRefusesJSONMode(h)
  PROVE  IInv'
<1>1. /\ pc[h] = "provider" /\ pc' = [pc EXCEPT ![h] = "retry"]
      /\ store' = store /\ torn' = torn /\ req' = req /\ work' = work /\ out' = out
  BY DEF ProviderRefusesJSONMode, Goto, files
<1>2. TypeOK' BY <1>1 DEF IInv, TypeOK, Steps
<1>3. StoreSound' /\ NoSequencingError'
  BY <1>1 DEF IInv, StoreSound, NoSequencingError
<1>4. ASSUME NEW g \in Handlers PROVE HandlerSound(g)'
  <2>1. HandlerSound(g) BY DEF IInv
  <2>2. CASE g = h BY <1>1, <2>1, <2>2 DEF HandlerSound, Calling, IInv, TypeOK
  <2>3. CASE g # h BY <1>1, <2>1, <2>3 DEF HandlerSound, Calling, IInv, TypeOK
  <2> QED BY <2>2, <2>3
<1> QED BY <1>2, <1>3, <1>4 DEF IInv

(* A transfer question of the topic, posed after the original one of the   *)
(* topic was answered: it is never refused as a repeat.                    *)
LEMMA AskTransferStep ==
  ASSUME IInv, NEW h \in Handlers, pc[h] = "answer",
         NEW s \in Session, s.learnerName = req[h].learner,
         Placed(s), s.diagnosisComplete, s.diagnosticFinding # NoText,
         IF HasProvider THEN ValidateDiagnosticResult(s.diagnosticResult) = NoError
                        ELSE s.diagnosticResult = NoResult,
         ~s.mastered, masteryKey(s) \notin s.masteryBySubject,
         s.wrongStreak = 0,
         NEW b1 \in BandsOf(s.topic), NEW p1 \in PracticeOf(s.topic, b1),
         p1.question = s.originalQuestion,
         AskTransfer(h, s)
  PROVE  IInv'
<1> DEFINE q == transferQuestion(s.topic, s.gradeBand)
           t == AskTransferQuestion(s, q.question, q.expectedAnswer)
           p == <<q.question>>
           b2 == BandUsed(s.topic, s.gradeBand)
<1>1. s.topic \in SupportedTopics BY DEF Placed
<1>2. /\ q \in qa /\ b2 \in BandsOf(s.topic)
      /\ q = contentByTopic[s.topic][b2].transfer
      /\ p1.question # q.question
  BY <1>1, TransferDiffers, ContentFound
<1>3. q.question \in STRING /\ q.expectedAnswer \in STRING BY <1>2 DEF qa
<1>4. p \in Seq(STRING) BY <1>3
<1>5. AskTransferQuestionErr(s, q.question) = NoError
  BY <1>2 DEF AskTransferQuestionErr
<1>6. contentForErr(s.topic, s.gradeBand) = NoError BY <1>1, ContentFound
<1>7. ThenSave(h, t, p) BY <1>5, <1>6 DEF AskTransfer
<1>8. t \in Session BY <1>3, AskTransferQuestionType
<1> HIDE DEF q, b2, p
<1>9. /\ t.learnerName = s.learnerName /\ t.gradeBand = s.gradeBand
      /\ t.subject = s.subject /\ t.topic = s.topic
      /\ t.mastered = s.mastered /\ t.masteryBySubject = s.masteryBySubject
      /\ t.diagnosisComplete = s.diagnosisComplete
      /\ t.diagnosticFinding = s.diagnosticFinding
      /\ t.diagnosticResult = s.diagnosticResult
      /\ t.wrongStreak = s.wrongStreak
      /\ t.state = "WaitForAnswer" /\ t.isTransferQuestion
      /\ t.question = q.question /\ t.originalQuestion = s.originalQuestion
      /\ t.expectedAnswer = q.expectedAnswer
  BY DEF AskTransferQuestion, Session
<1> HIDE DEF t
<1>10. AtRest(t) /\ Placed(t) /\ StreakSound(t)
  BY <1>9 DEF AtRest, Placed, StreakSound, wrongThreshold
<1>11. MasterySound(t) BY <1>9 DEF MasterySound, masteryKey
<1>12. DiagnosisSound(t) BY <1>9 DEF DiagnosisSound
<1>13. Pending(t) = q BY <1>2, <1>9 DEF Pending, qa
<1>14. PendingSound(t) BY <1>2, <1>9, <1>13 DEF PendingSound
<1>15. Sound(t) BY <1>10, <1>11, <1>12, <1>14 DEF Sound
<1> QED BY <1>4, <1>7, <1>8, <1>9, <1>15, ThenSaveStep

(* The next practice question, after an explanation if one is due: the     *)
(* session never refuses it, and the misses counted are below the          *)
(* threshold again.                                                        *)
LEMMA AskNextStep ==
  ASSUME IInv, NEW h \in Handlers, pc[h] = "answer",
         NEW s \in Session, s.learnerName = req[h].learner,
         Placed(s), s.diagnosisComplete, s.diagnosticFinding # NoText,
         IF HasProvider THEN ValidateDiagnosticResult(s.diagnosticResult) = NoError
                        ELSE s.diagnosticResult = NoResult,
         ~s.mastered, masteryKey(s) \notin s.masteryBySubject,
         s.state # "WaitForAnswer",
         NEW explained \in BOOLEAN,
         ~explained => s.wrongStreak < wrongThreshold /\ s.state # "Uncertain",
         AskNext(h, s, explained)
  PROVE  IInv'
<1> DEFINE q == nextPracticeQuestion(s.topic, s.gradeBand, s.question)
           t == IF explained THEN ResetWrongStreak(Teach(s)) ELSE s
           u == AskQuestion(t, q.question, q.expectedAnswer)
           p == IF explained THEN <<explanation(s.topic, s.gradeBand), q.question>>
                             ELSE <<q.question>>
           b == BandUsed(s.topic, s.gradeBand)
<1>1. s.topic \in SupportedTopics BY DEF Placed
<1>2. q \in qa /\ q \in PracticeOf(s.topic, b) /\ b \in BandsOf(s.topic)
  BY <1>1, NextQuestion, ContentFound
<1>3. q.question \in STRING /\ explanation(s.topic, s.gradeBand) \in STRING
  BY <1>1, <1>2, TextsAreStrings DEF qa
<1>4. p \in Seq(STRING)
  <2>1. \A x, y \in STRING : <<x, y>> \in Seq(STRING) /\ <<y>> \in Seq(STRING) OBVIOUS
  <2> HIDE DEF q
  <2> QED BY <1>3, <2>1
<1>5. contentForErr(s.topic, s.gradeBand) = NoError BY <1>1, ContentFound
<1>6. t \in Session BY TeachType, ResetWrongStreakType
<1>7. /\ t.learnerName = s.learnerName /\ t.gradeBand = s.gradeBand
      /\ t.subject = s.subject /\ t.topic = s.topic
      /\ t.mastered = s.mastered /\ t.masteryBySubject = s.masteryBySubject
      /\ t.diagnosisComplete = s.diagnosisComplete
      /\ t.diagnosticFinding = s.diagnosticFinding
      /\ t.diagnosticResult = s.diagnosticResult
      /\ t.state = s.state
      /\ t.wrongStreak < wrongThreshold
      /\ t.state = "Uncertain" => t.taughtSinceUncertain
  <2>1. CASE ~explained BY <2>1
  <2>2. CASE explained
    <3> DEFINE v == Teach(s)
    <3>1. v \in Session BY TeachType
    <3>2. /\ v.learnerName = s.learnerName /\ v.gradeBand = s.gradeBand
          /\ v.subject = s.subject /\ v.topic = s.topic
          /\ v.mastered = s.mastered /\ v.masteryBySubject = s.masteryBySubject
          /\ v.diagnosisComplete = s.diagnosisComplete
          /\ v.diagnosticFinding = s.diagnosticFinding
          /\ v.diagnosticResult = s.diagnosticResult
          /\ v.state = s.state
          /\ s.state = "Uncertain" => v.taughtSinceUncertain
      BY DEF Teach, Session
    <3>3. t = [v EXCEPT !.wrongStreak = 0] BY <2>2 DEF ResetWrongStreak
    <3> HIDE DEF v
    <3>4. /\ t.learnerName = v.learnerName /\ t.gradeBand = v.gradeBand
          /\ t.subject = v.subject /\ t.topic = v.topic
          /\ t.mastered = v.mastered /\ t.masteryBySubject = v.masteryBySubject
          /\ t.diagnosisComplete = v.diagnosisComplete
          /\ t.diagnosticFinding = v.diagnosticFinding
          /\ t.diagnosticResult = v.diagnosticResult
          /\ t.state = v.state /\ t.wrongStreak = 0
          /\ t.taughtSinceUncertain = v.taughtSinceUncertain
      BY <3>1, <3>3 DEF Session
    <3> HIDE DEF t
    <3> QED BY <3>2, <3>4 DEF wrongThreshold
  <2> QED BY <2>1, <2>2
<1>8. AskQuestionErr(t) = NoError BY <1>7 DEF AskQuestionErr
<1>9. ThenSave(h, u, p) BY <1>5, <1>8 DEF AskNext
<1> HIDE DEF t, q, p, b
<1>10. Placed(t) /\ masteryKey(t) = masteryKey(s) BY <1>7 DEF Placed, masteryKey
<1>11. u \in Session /\ Sound(u) /\ u.learnerName = t.learnerName
  BY <1>2, <1>6, <1>7, <1>10, AskQuestionSound
<1> HIDE DEF u
<1> QED BY <1>4, <1>7, <1>9, <1>11, ThenSaveStep

(* The answer is checked; the topic is mastered, or a question follows. *)
LEMMA AnswerQuestionStep == ASSUME IInv, NEW h \in Handlers, AnswerQuestion(h) PROVE IInv'
<1> DEFINE l == req[h].learner
           a == req[h].input
           s0 == store[l]
           s == Checked(l, a)
<1>1. pc[h] = "answer" BY DEF AnswerQuestion
<1>2. CASE AnswerErr(l) # NoError
  <2>1. Fail(h, AnswerErr(l)) BY <1>2 DEF AnswerQuestion
  <2> QED BY <1>1, <1>2, <2>1, FailStep DEF AnswerErr, LoadErr, Errors, SequencingErrors
<1>3. CASE AnswerErr(l) = NoError
  <2>1. Saved(l) /\ s0.state = "WaitForAnswer" BY <1>3 DEF AnswerErr, LoadErr, NoError
  <2>2. s0 \in Session /\ Sound(s0) /\ s0.learnerName = l BY <2>1, SavedSound
  <2>3. req[h] \in Request /\ a \in STRING
    BY <1>1, RequestsType DEF IInv, HandlerSound, Calling, Request
  <2>4. s = CheckAnswer(SubmitAnswer(s0, a)) BY DEF Checked
  <2> HIDE DEF s
  <2>5. /\ s \in Session
        /\ s.learnerName = l /\ s.gradeBand = s0.gradeBand
        /\ s.subject = s0.subject /\ s.topic = s0.topic
        /\ s.diagnosisComplete /\ s.diagnosticFinding # NoText
        /\ s.diagnosticFinding = s0.diagnosticFinding
        /\ s.diagnosticResult = s0.diagnosticResult
        /\ s.originalQuestion = s0.originalQuestion
        /\ s.wrongStreak = s0.wrongStreak
        /\ s.state \in {"Uncertain", "Incorrect", "AwaitingTransferCheck", "Mastered"}
        /\ IF s.state = "Mastered"
           THEN s.mastered /\ s.masteryBySubject = s0.masteryBySubject \cup {masteryKey(s0)}
           ELSE /\ ~s.mastered /\ s.masteryBySubject = s0.masteryBySubject
                /\ masteryKey(s0) \notin s0.masteryBySubject
    BY <2>1, <2>2, <2>3, <2>4, CheckedFields
  <2>6. masteryKey(s) = masteryKey(s0) BY <2>5 DEF masteryKey
  <2>7. Placed(s) BY <2>2, <2>5 DEF Sound, Placed
  <2>8. IF HasProvider THEN ValidateDiagnosticResult(s.diagnosticResult) = NoError
                       ELSE s.diagnosticResult = NoResult
    BY <2>1, <2>2, <2>5 DEF Sound, DiagnosisSound
  <2>9. PICK b1 \in BandsOf(s.topic) :
          \E p \in PracticeOf(s.topic, b1) : p.question = s.originalQuestion
    BY <2>1, <2>2, <2>5 DEF Sound, PendingSound
  <2> DEFINE r == ResetWrongStreak(s)
             n == NoteIncorrectAttempt(s)
  <2>10. /\ r \in Session /\ r.wrongStreak = 0
         /\ r.learnerName = s.learnerName /\ r.gradeBand = s.gradeBand
         /\ r.subject = s.subject /\ r.topic = s.topic
         /\ r.diagnosisComplete = s.diagnosisComplete
         /\ r.diagnosticFinding = s.diagnosticFinding
         /\ r.diagnosticResult = s.diagnosticResult
         /\ r.originalQuestion = s.originalQuestion
         /\ r.state = s.state
         /\ r.mastered = s.mastered /\ r.masteryBySubject = s.masteryBySubject
    BY <2>5, ResetWrongStreakType DEF ResetWrongStreak, Session
  <2>11. /\ n \in Session /\ n.wrongStreak = s.wrongStreak + 1
         /\ n.learnerName = s.learnerName /\ n.gradeBand = s.gradeBand
         /\ n.subject = s.subject /\ n.topic = s.topic
         /\ n.diagnosisComplete = s.diagnosisComplete
         /\ n.diagnosticFinding = s.diagnosticFinding
         /\ n.diagnosticResult = s.diagnosticResult
         /\ n.state = s.state
         /\ n.mastered = s.mastered /\ n.masteryBySubject = s.masteryBySubject
    BY <2>5, NoteIncorrectAttemptType DEF NoteIncorrectAttempt, Session
  <2>12. \/ s.state = "Mastered"
            /\ ThenSave(h, r, <<completionMessage(s.topic, s.gradeBand)>>)
         \/ s.state = "AwaitingTransferCheck" /\ AskTransfer(h, r)
         \/ s.state = "Incorrect" /\ AskNext(h, n, NeedsExplanation(n))
         \/ s.state = "Uncertain" /\ AskNext(h, r, TRUE)
    BY <1>3 DEF AnswerQuestion, s
  <2> HIDE DEF r, n
  <2>13. Placed(r) /\ Placed(n) /\ masteryKey(r) = masteryKey(s) /\ masteryKey(n) = masteryKey(s)
    BY <2>7, <2>10, <2>11 DEF Placed, masteryKey
  <2>14. CASE s.state = "Mastered"
    <3> DEFINE p == <<completionMessage(s.topic, s.gradeBand)>>
    <3>1. ThenSave(h, r, p) BY <2>12, <2>14
    <3>2. completionMessage(s.topic, s.gradeBand) \in STRING
      BY <2>7, TextsAreStrings DEF Placed
    <3>3. p \in Seq(STRING) BY <3>2
    <3> HIDE DEF p
    <3>4. AtRest(r) /\ StreakSound(r) /\ PendingSound(r)
      BY <2>10, <2>14 DEF AtRest, StreakSound, PendingSound, wrongThreshold
    <3>5. MasterySound(r)
      BY <2>5, <2>6, <2>10, <2>13, <2>14 DEF MasterySound
    <3>6. DiagnosisSound(r)
      BY <2>5, <2>8, <2>10, <2>14 DEF DiagnosisSound
    <3>7. Sound(r) BY <2>13, <3>4, <3>5, <3>6 DEF Sound
    <3> QED BY <1>1, <2>5, <2>10, <3>1, <3>3, <3>7, ThenSaveStep
  <2>15. CASE s.state = "AwaitingTransferCheck"
    <3>1. AskTransfer(h, r) BY <2>12, <2>15
    <3>2. PICK p1 \in PracticeOf(r.topic, b1) : p1.question = r.originalQuestion
      BY <2>9, <2>10
    <3>3. b1 \in BandsOf(r.topic) BY <2>10
    <3>4. r.diagnosticFinding # NoText /\ r.diagnosisComplete /\ ~r.mastered
          /\ masteryKey(r) \notin r.masteryBySubject
          /\ r.learnerName = req[h].learner
      BY <2>5, <2>6, <2>10, <2>13, <2>15
    <3>5. IF HasProvider THEN ValidateDiagnosticResult(r.diagnosticResult) = NoError
                         ELSE r.diagnosticResult = NoResult
      BY <2>8, <2>10
    <3> QED BY <1>1, <2>10, <2>13, <3>1, <3>2, <3>3, <3>4, <3>5, AskTransferStep
  <2>16. CASE s.state = "Incorrect"
    <3>1. AskNext(h, n, NeedsExplanation(n)) BY <2>12, <2>16
    <3>2. NeedsExplanation(n) \in BOOLEAN
          /\ (~NeedsExplanation(n) => n.wrongStreak < wrongThreshold /\ n.state # "Uncertain")
      BY <2>5, <2>11, <2>16 DEF NeedsExplanation, wrongThreshold, Session
    <3>3. n.diagnosticFinding # NoText /\ n.diagnosisComplete /\ ~n.mastered
          /\ masteryKey(n) \notin n.masteryBySubject
          /\ n.learnerName = req[h].learner /\ n.state # "WaitForAnswer"
      BY <2>5, <2>6, <2>11, <2>13, <2>16
    <3>4. IF HasProvider THEN ValidateDiagnosticResult(n.diagnosticResult) = NoError
                         ELSE n.diagnosticResult = NoResult
      BY <2>8, <2>11
    <3> QED BY <1>1, <2>11, <2>13, <3>1, <3>2, <3>3, <3>4, AskNextStep
  <2>17. CASE s.state = "Uncertain"
    <3>1. AskNext(h, r, TRUE) BY <2>12, <2>17
    <3>2. r.diagnosticFinding # NoText /\ r.diagnosisComplete /\ ~r.mastered
          /\ masteryKey(r) \notin r.masteryBySubject
          /\ r.learnerName = req[h].learner /\ r.state # "WaitForAnswer"
      BY <2>5, <2>6, <2>10, <2>13, <2>17
    <3>3. IF HasProvider THEN ValidateDiagnosticResult(r.diagnosticResult) = NoError
                         ELSE r.diagnosticResult = NoResult
      BY <2>8, <2>10
    <3> QED BY <1>1, <2>10, <2>13, <3>1, <3>2, <3>3, AskNextStep
  <2> QED BY <2>5, <2>14, <2>15, <2>16, <2>17
<1> QED BY <1>2, <1>3

(* SetGradeBand refuses, or is about to save the band changed. *)
LEMMA ChangeGradeBandStep == ASSUME IInv, NEW h \in Handlers, ChangeGradeBand(h) PROVE IInv'
<1> DEFINE l == req[h].learner
           band == req[h].gradeBand
           s == SetGradeBand(store[l], band)
           p == <<>>
<1>1. pc[h] = "band" BY DEF ChangeGradeBand
<1>2. CASE Fail(h, LoadErr(l)) \/ Fail(h, "ErrInvalidGradeBand")
  BY <1>1, <1>2, FailStep, LoadErrs DEF Errors, SequencingErrors
<1>3. CASE Saved(l) /\ band \in GradeBands /\ ThenSave(h, s, p)
  <2>1. store[l] \in Session /\ Sound(store[l]) /\ store[l].learnerName = l
    BY <1>3, SavedSound
  <2>2. s \in Session /\ Sound(s) BY <1>3, <2>1, SetGradeBandType, SetGradeBandSound
  <2>3. s.learnerName = l BY <2>1 DEF SetGradeBand, Session
  <2>4. p \in Seq(STRING) OBVIOUS
  <2> HIDE DEF s, p
  <2> QED BY <1>1, <1>3, <2>2, <2>3, <2>4, ThenSaveStep
<1> QED BY <1>2, <1>3 DEF ChangeGradeBand, SetGradeBandErr, NoError

(* A handler that writes what it found into its reply and goes on without  *)
(* touching the store: the diagnosis report, and the state after a save.   *)
LEMMA ReplyStep ==
  ASSUME IInv, NEW h \in Handlers, pc[h] # "idle",
         NEW o \in Reply, o.err = out[h].err,
         NEW s \in Session,
         pc' = [pc EXCEPT ![h] = "done"], out' = [out EXCEPT ![h] = o],
         work' = [work EXCEPT ![h] = s], store' = store, torn' = torn, req' = req
  PROVE  IInv'
<1>1. TypeOK' BY DEF IInv, TypeOK, Steps
<1>2. StoreSound' BY DEF IInv, StoreSound
<1>3. NoSequencingError' BY DEF IInv, TypeOK, NoSequencingError
<1>4. ASSUME NEW g \in Handlers PROVE HandlerSound(g)'
  <2>1. HandlerSound(g) BY DEF IInv
  <2>2. CASE g = h BY <2>1, <2>2 DEF HandlerSound, Calling, IInv, TypeOK
  <2>3. CASE g # h BY <2>1, <2>3 DEF HandlerSound, Calling, IInv, TypeOK
  <2> QED BY <2>2, <2>3
<1> QED BY <1>1, <1>2, <1>3, <1>4 DEF IInv

(* DiagnosticReport refuses or reports. *)
LEMMA DiagnosticReportStep == ASSUME IInv, NEW h \in Handlers, DiagnosticReport(h) PROVE IInv'
<1> DEFINE l == req[h].learner
           p == DiagnosisReport(store[l])
           o == [out[h] EXCEPT !.prompt = p]
<1>1. pc[h] = "report" BY DEF DiagnosticReport
<1>2. CASE Fail(h, LoadErr(l)) \/ Fail(h, "ErrNoDiagnosisYet")
  BY <1>1, <1>2, FailStep, LoadErrs DEF Errors, SequencingErrors
<1>3. CASE Saved(l) /\ ~Fail(h, "ErrNoDiagnosisYet")
  <2>1. store[l] \in Session BY <1>3, SavedSound
  <2>2. /\ store[l].diagnosticFinding \in STRING
        /\ store[l].diagnosticResult.recommendedAction \in STRING
    BY <2>1 DEF Session, DiagnosticResult
  <2>3. p \in Seq(STRING) BY <2>2 DEF DiagnosisReport
  <2> HIDE DEF p
  <2>4. out[h] \in Reply BY DEF IInv, TypeOK
  <2>5. o \in Reply /\ o.err = out[h].err BY <2>3, <2>4 DEF Reply
  <2>6. /\ pc' = [pc EXCEPT ![h] = "done"] /\ out' = [out EXCEPT ![h] = o]
        /\ work' = [work EXCEPT ![h] = store[l]] /\ store' = store /\ torn' = torn /\ req' = req
    BY <1>3 DEF DiagnosticReport, Goto, IInv, TypeOK, p, files
  <2> HIDE DEF o
  <2> QED BY <1>1, <2>1, <2>5, <2>6, ReplyStep
<1> QED BY <1>2, <1>3 DEF DiagnosticReport

(* ResumeSession refuses or replies with the session it reads. *)
LEMMA ResumeSessionStep == ASSUME IInv, NEW h \in Handlers, ResumeSession(h) PROVE IInv'
<1> DEFINE l == req[h].learner
           p == <<store[l].question>>
           n == stateName(store[l].state)
           o == [out[h] EXCEPT !.prompt = p, !.state = n]
<1>1. pc[h] = "resume" BY DEF ResumeSession
<1>2. CASE Fail(h, LoadErr(l)) BY <1>1, <1>2, FailStep, LoadErrs
<1>3. CASE Saved(l)
  <2>1. store[l] \in Session BY <1>3, SavedSound
  <2>2. store[l].question \in STRING /\ store[l].state \in States BY <2>1 DEF Session
  <2>3. p \in Seq(STRING) BY <2>2
  <2>4. n \in StateNames BY <2>2 DEF stateName, States, StateNames
  <2> HIDE DEF p, n
  <2>5. out[h] \in Reply BY DEF IInv, TypeOK
  <2>6. o \in Reply /\ o.err = out[h].err BY <2>3, <2>4, <2>5 DEF Reply
  <2>7. /\ pc' = [pc EXCEPT ![h] = "done"] /\ out' = [out EXCEPT ![h] = o]
        /\ work' = [work EXCEPT ![h] = store[l]]
        /\ store' = store /\ torn' = torn /\ req' = req
    BY <1>3 DEF ResumeSession, Goto, IInv, TypeOK, p, n, files
  <2> HIDE DEF o
  <2> QED BY <1>1, <2>1, <2>6, <2>7, ReplyStep
<1> QED BY <1>2, <1>3 DEF ResumeSession

(* A handler replies with the state it finds saved, or cannot read it. *)
LEMMA RespondStep == ASSUME IInv, NEW h \in Handlers, Respond(h) PROVE IInv'
<1> DEFINE l == req[h].learner
           n == stateName(store[l].state)
           o == [out[h] EXCEPT !.state = n]
<1>1. pc[h] = "respond" BY DEF Respond
<1> SUFFICES ASSUME Saved(l) PROVE IInv'
  BY <1>1, FailStep DEF Respond, Errors, SequencingErrors
<1>2. store[l] \in Session BY <1>1, SavedSound
<1>3. store[l].state \in States BY <1>2 DEF Session
<1>4. n \in StateNames BY <1>3 DEF stateName, States, StateNames
<1> HIDE DEF n
<1>5. out[h] \in Reply /\ work[h] \in Session BY DEF IInv, TypeOK
<1>6. o \in Reply /\ o.err = out[h].err BY <1>4, <1>5 DEF Reply
<1>7. /\ pc' = [pc EXCEPT ![h] = "done"] /\ out' = [out EXCEPT ![h] = o]
      /\ work' = [work EXCEPT ![h] = work[h]] /\ store' = store /\ torn' = torn /\ req' = req
  BY DEF Respond, Goto, IInv, TypeOK, n, files
<1> HIDE DEF o
<1> QED BY <1>1, <1>5, <1>6, <1>7, ReplyStep

(* A Load that fails. *)
LEMMA LoadFailsStep == ASSUME IInv, NEW h \in Handlers, LoadFails(h) PROVE IInv'
  BY FailStep DEF LoadFails, Loading, Errors, SequencingErrors

(* A Save, whether it goes through or fails with the new state in place,   *)
(* the old one or neither.                                                 *)
LEMMA SavingStep ==
  ASSUME IInv, NEW h \in Handlers, pc[h] = "save",
         UNCHANGED files \/ Put(work[h]) \/ Tear(work[h]),
         NEW step \in {"done", "respond"}, pc' = [pc EXCEPT ![h] = step],
         NEW o \in Reply, o.err \in {NoError, "ErrStore"}, out' = [out EXCEPT ![h] = o],
         o.err # NoError => step = "done",
         req' = req, work' = work
  PROVE  IInv'
<1>1. work[h] \in Session /\ Sound(work[h]) /\ work[h].learnerName \in Learners
  BY DEF IInv, TypeOK, HandlerSound, Calling, Learners
<1>2. FilesSound' BY <1>1, WriteSound
<1>3. TypeOK' BY <1>2 DEF FilesSound, IInv, TypeOK, Steps
<1>4. StoreSound' BY <1>2 DEF FilesSound, StoreSound
<1>5. NoSequencingError'
  BY DEF IInv, TypeOK, NoSequencingError, NoError, SequencingErrors
<1>6. ASSUME NEW g \in Handlers PROVE HandlerSound(g)'
  <2>1. HandlerSound(g) BY DEF IInv
  <2>2. CASE g = h BY <2>1, <2>2 DEF HandlerSound, Calling, IInv, TypeOK
  <2>3. CASE g # h BY <2>1, <2>3 DEF HandlerSound, Calling, IInv, TypeOK
  <2> QED BY <2>2, <2>3
<1> QED BY <1>3, <1>4, <1>5, <1>6 DEF IInv

(* The computed session goes into the store. *)
LEMMA SaveStep == ASSUME IInv, NEW h \in Handlers, Save(h) PROVE IInv'
<1> DEFINE step == IF req[h].kind = "band" THEN "done" ELSE "respond"
<1>1. pc[h] = "save" /\ out[h] \in Reply /\ out[h].err = NoError
  BY DEF Save, IInv, TypeOK, HandlerSound, Calling
<1>2. /\ Put(work[h]) /\ pc' = [pc EXCEPT ![h] = step]
      /\ out' = [out EXCEPT ![h] = out[h]] /\ req' = req /\ work' = work
  BY DEF Save, Goto, IInv, TypeOK
<1>3. step \in {"done", "respond"} OBVIOUS
<1> HIDE DEF step
<1> QED BY <1>1, <1>2, <1>3, SavingStep

(* A Save that fails. *)
LEMMA SaveFailsStep == ASSUME IInv, NEW h \in Handlers, SaveFails(h) PROVE IInv'
<1> DEFINE o == [NoReply EXCEPT !.err = "ErrStore"]
<1>1. o \in Reply /\ o.err = "ErrStore" BY NoReplyType DEF Reply, NoReply, Errors
<1>2. /\ pc[h] = "save" /\ (UNCHANGED files \/ Put(work[h]) \/ Tear(work[h]))
      /\ pc' = [pc EXCEPT ![h] = "done"] /\ out' = [out EXCEPT ![h] = o]
      /\ req' = req /\ work' = work
  BY DEF SaveFails, Goto
<1> HIDE DEF o
<1> QED BY <1>1, <1>2, SavingStep

(* The goroutine ends. *)
LEMMA FinishStep == ASSUME IInv, NEW h \in Handlers, Finish(h) PROVE IInv'
<1>1. /\ pc' = [pc EXCEPT ![h] = "idle"] /\ req' = [req EXCEPT ![h] = NoRequest]
      /\ work' = [work EXCEPT ![h] = NoSession] /\ out' = [out EXCEPT ![h] = NoReply]
      /\ store' = store /\ torn' = torn
  BY DEF Finish, Goto, files
<1>2. NoSession \in Session BY NewType, NoTextType DEF NoSession
<1>3. NoReply.err = NoError BY DEF NoReply
<1>4. TypeOK' BY <1>1, <1>2, NoReplyType DEF IInv, TypeOK, Steps
<1>5. StoreSound' BY <1>1 DEF IInv, StoreSound
<1>6. NoSequencingError'
  BY <1>1, <1>3 DEF IInv, TypeOK, NoSequencingError, NoError, SequencingErrors
<1>7. ASSUME NEW g \in Handlers PROVE HandlerSound(g)'
  <2>1. HandlerSound(g) BY DEF IInv
  <2>2. CASE g = h BY <1>1, <1>3, <2>2 DEF HandlerSound, Calling, IInv, TypeOK
  <2>3. CASE g # h BY <1>1, <2>1, <2>3 DEF HandlerSound, Calling, IInv, TypeOK
  <2> QED BY <2>2, <2>3
<1> QED BY <1>4, <1>5, <1>6, <1>7 DEF IInv

(* The process is killed: no handler is left, and at most one file torn. *)
LEMMA CrashStep == ASSUME IInv, Crash PROVE IInv'
<1>1. /\ pc' = [h \in Handlers |-> "idle"] /\ req' = [h \in Handlers |-> NoRequest]
      /\ work' = [h \in Handlers |-> NoSession] /\ out' = [h \in Handlers |-> NoReply]
  BY DEF Crash
<1>2. FilesSound'
  <2>1. CASE UNCHANGED files
    BY <2>1 DEF files, FilesSound, IInv, TypeOK, StoreSound
  <2>2. ASSUME NEW h \in Handlers, pc[h] = "save", Tear(work[h]) PROVE FilesSound'
    <3>1. work[h] \in Session /\ Sound(work[h]) /\ work[h].learnerName \in Learners
      BY <2>2 DEF IInv, TypeOK, HandlerSound, Calling, Learners
    <3> QED BY <2>2, <3>1, WriteSound
  <2> QED BY <2>1, <2>2 DEF Crash
<1>3. NoSession \in Session BY NewType, NoTextType DEF NoSession
<1>4. NoReply.err = NoError BY DEF NoReply
<1>5. TypeOK' BY <1>1, <1>2, <1>3, NoReplyType DEF FilesSound, TypeOK, Steps
<1>6. StoreSound' BY <1>2 DEF FilesSound, StoreSound
<1>7. NoSequencingError'
  BY <1>1, <1>4 DEF NoSequencingError, NoError, SequencingErrors
<1>8. \A h \in Handlers : HandlerSound(h)' BY <1>1, <1>4 DEF HandlerSound, Calling
<1> QED BY <1>5, <1>6, <1>7, <1>8 DEF IInv

-----------------------------------------------------------------------------
(* The invariant holds at first, and every step keeps it. *)

LEMMA InitSound == Init => IInv
<1> SUFFICES ASSUME Init PROVE IInv OBVIOUS
<1>1. NoSession \in Session BY NewType, NoTextType DEF NoSession
<1>2. NoReply.err = NoError BY DEF NoReply
<1>3. TypeOK BY <1>1, NoReplyType DEF Init, TypeOK, Steps
<1>4. StoreSound BY DEF Init, StoreSound
<1>5. NoSequencingError
  BY <1>2 DEF Init, NoSequencingError, NoError, SequencingErrors
<1>6. \A h \in Handlers : HandlerSound(h) BY <1>2 DEF Init, HandlerSound, Calling
<1> QED BY <1>3, <1>4, <1>5, <1>6 DEF IInv

LEMMA NextSound == IInv /\ [Next]_vars => IInv'
<1> SUFFICES ASSUME IInv, [Next]_vars PROVE IInv' OBVIOUS
<1>1. CASE UNCHANGED vars
  BY <1>1 DEF vars, files, IInv, TypeOK, StoreSound, Saved, NoSequencingError, HandlerSound, Calling
<1>2. ASSUME NEW h \in Handlers, Arrive(h) PROVE IInv' BY <1>2, ArriveStep
<1>3. ASSUME NEW h \in Handlers, HandlerStep(h) PROVE IInv'
  BY <1>3, BeginTopicStep, ApplyInputStep, StopStep, SubmitDiagnosisStep,
     ProviderRefusesStep, ProviderAnswersStep, ProviderFailsStep, AnswerQuestionStep,
     ChangeGradeBandStep, DiagnosticReportStep, ResumeSessionStep, SaveStep, RespondStep,
     LoadFailsStep, SaveFailsStep, FinishStep
  DEF HandlerStep, Proceed, Serve
<1> QED BY <1>1, <1>2, <1>3, CrashStep DEF Next

LEMMA AlwaysSound == Spec => []IInv
  BY InitSound, NextSound, PTL DEF Spec

(* Every variable keeps its type, and with it every learner's saved record *)
(* its shape (session.Session).                                            *)
THEOREM TypeCorrect == Spec => []TypeOK
<1>1. IInv => TypeOK BY DEF IInv
<1> QED BY <1>1, AlwaysSound, PTL

(* Every session the store holds can be taken up again: stage, mastery     *)
(* flag and map, diagnosis, pending question and misses counted agree,     *)
(* however requests of any number of learners interleave and whatever of   *)
(* the store or the provider fails (tutor/turn.go over session/store.go).  *)
THEOREM StoreAlwaysSound == Spec => []StoreSound
<1>1. IInv => StoreSound BY DEF IInv
<1> QED BY <1>1, AlwaysSound, PTL

(* The tutor never makes a call that the session refuses for its order,    *)
(* and never loses the content of a topic that a learner has begun.        *)
THEOREM SequencingCorrect == Spec => []NoSequencingError
<1>1. IInv => NoSequencingError BY DEF IInv
<1> QED BY <1>1, AlwaysSound, PTL

-----------------------------------------------------------------------------
(* What a step may never do. *)

(* What the store holds changes only as a handler leaves its save, which   *)
(* puts its session in place or tears the file of it.                      *)
LEMMA FilesChange ==
  ASSUME IInv, [Next]_vars, ~UNCHANGED files
  PROVE  \E h \in Handlers : /\ pc[h] = "save" /\ pc'[h] # "save"
                             /\ Put(work[h]) \/ Tear(work[h])
<1>1. ASSUME NEW h \in Handlers, Save(h) \/ SaveFails(h)
      PROVE  /\ pc[h] = "save" /\ pc'[h] # "save"
             /\ UNCHANGED files \/ Put(work[h]) \/ Tear(work[h])
  BY <1>1 DEF Save, SaveFails, Goto, IInv, TypeOK
<1>2. CASE Crash BY <1>2 DEF Crash
<1>3. ASSUME NEW h \in Handlers, Arrive(h) \/ HandlerStep(h), ~Save(h), ~SaveFails(h)
      PROVE  UNCHANGED files
  BY <1>3 DEF Arrive, HandlerStep, Proceed, Serve, BeginTopic, ApplyInput, Stop, SubmitDiagnosis,
     ProviderRefusesJSONMode, ProviderAnswers, ProviderFails, AnswerQuestion, ChangeGradeBand,
     DiagnosticReport, ResumeSession, Respond, LoadFails, Finish, AskFirst, AskNext, AskTransfer,
     Fail, ThenSave
<1>4. CASE UNCHANGED vars BY <1>4 DEF vars, files
<1> QED BY <1>1, <1>2, <1>3, <1>4 DEF Next

(* So the session of a learner is left alone but by a save of its own. *)
LEMMA OwnSaves ==
  ASSUME IInv, [Next]_vars, NEW l, ~Untouched(l)
  PROVE  \E h \in Handlers : pc[h] = "save" /\ pc'[h] # "save" /\ req[h].learner = l
<1>1. ~UNCHANGED files BY DEF files, Untouched, Saved
<1>2. PICK h \in Handlers : /\ pc[h] = "save" /\ pc'[h] # "save"
                            /\ Put(work[h]) \/ Tear(work[h])
  BY <1>1, FilesChange
<1>3. work[h].learnerName = req[h].learner BY <1>2 DEF IInv, HandlerSound, Calling
<1>4. l # req[h].learner => Untouched(l)
  BY <1>2, <1>3 DEF Put, Tear, Untouched, Saved
<1> QED BY <1>2, <1>4

(* A save of a request of a learner, complete or interrupted, is the only  *)
(* thing that changes what the store holds of that learner: sessions are   *)
(* never mixed up, and no crash loses any but the one being written.       *)
THEOREM SavesAreOwn == Spec => OwnSavesOnly
<1>1. IInv /\ [Next]_vars =>
        [\A l \in Learners :
           ~Untouched(l) =>
             \E h \in Handlers : pc[h] = "save" /\ pc'[h] # "save" /\ req[h].learner = l]_vars
  BY OwnSaves
<1> QED BY <1>1, AlwaysSound, PTL DEF Spec, OwnSavesOnly

(* What a handler is about to save asks, if it asks a question. *)
LEMMA QuestionPosed ==
  ASSUME IInv, NEW h \in Handlers, NEW s \in Session,
         NEW q \in qa, NEW t \in {AskQuestion(s, q.question, q.expectedAnswer),
                                  AskTransferQuestion(s, q.question, q.expectedAnswer)},
         NEW p, ThenSave(h, t, p)
  PROVE  work'[h].question = q.question
<1>1. work'[h] = t BY DEF ThenSave, IInv, TypeOK
<1>2. CASE t = AskQuestion(s, q.question, q.expectedAnswer)
  BY <1>1, <1>2 DEF AskQuestion, Session
<1>3. CASE t = AskTransferQuestion(s, q.question, q.expectedAnswer)
  BY <1>1, <1>3 DEF AskTransferQuestion, Session
<1> QED BY <1>2, <1>3

(* The practice question that follows an answer is not the one answered. *)
LEMMA AskNextFresh ==
  ASSUME IInv, NEW h \in Handlers, NEW s \in Session, s.topic \in SupportedTopics,
         NEW explained \in BOOLEAN, AskNext(h, s, explained), pc'[h] = "save"
  PROVE  work'[h].question # s.question
<1> DEFINE q == nextPracticeQuestion(s.topic, s.gradeBand, s.question)
           t == IF explained THEN ResetWrongStreak(Teach(s)) ELSE s
           p == IF explained THEN <<explanation(s.topic, s.gradeBand), q.question>>
                             ELSE <<q.question>>
<1>1. \A e : Fail(h, e) => pc'[h] # "save" BY DEF Fail, Goto, IInv, TypeOK
<1>2. ThenSave(h, AskQuestion(t, q.question, q.expectedAnswer), p)
  BY <1>1 DEF AskNext
<1>3. t \in Session BY TeachType, ResetWrongStreakType
<1>4. q \in qa /\ q.question # s.question BY NextQuestion
<1> HIDE DEF q, t, p
<1>5. work'[h].question = q.question BY <1>2, <1>3, <1>4, QuestionPosed
<1> QED BY <1>4, <1>5

(* The transfer question is not the practice question answered. *)
LEMMA AskTransferFresh ==
  ASSUME IInv, NEW h \in Handlers, NEW s \in Session, s.topic \in SupportedTopics,
         NEW b \in BandsOf(s.topic), NEW p1 \in PracticeOf(s.topic, b),
         AskTransfer(h, s), pc'[h] = "save"
  PROVE  work'[h].question # p1.question
<1> DEFINE q == transferQuestion(s.topic, s.gradeBand)
<1>1. \A e : Fail(h, e) => pc'[h] # "save" BY DEF Fail, Goto, IInv, TypeOK
<1>2. ThenSave(h, AskTransferQuestion(s, q.question, q.expectedAnswer), <<q.question>>)
  BY <1>1 DEF AskTransfer
<1>3. q \in qa /\ q.question # p1.question BY TransferDiffers
<1> HIDE DEF q
<1>4. work'[h].question = q.question BY <1>2, <1>3, QuestionPosed
<1> QED BY <1>3, <1>4

(* So after any answer. *)
LEMMA AnswerFresh ==
  ASSUME IInv, NEW h \in Handlers, AnswerQuestion(h), pc'[h] = "save",
         work'[h].state = "WaitForAnswer"
  PROVE  work'[h].question # store[req[h].learner].question
<1> DEFINE l == req[h].learner
           a == req[h].input
           s0 == store[l]
           s == Checked(l, a)
           r == ResetWrongStreak(s)
           n == NoteIncorrectAttempt(s)
<1>1. AnswerErr(l) = NoError
  BY DEF AnswerQuestion, Fail, Goto, IInv, TypeOK
<1>2. Saved(l) /\ s0.state = "WaitForAnswer" BY <1>1 DEF AnswerErr, LoadErr, NoError
<1>3. s0 \in Session /\ Sound(s0) BY <1>2, SavedSound
<1>4. a \in STRING
  BY RequestsType DEF AnswerQuestion, IInv, HandlerSound, Calling, Request
<1>5. s = CheckAnswer(SubmitAnswer(s0, a)) BY DEF Checked
<1>6. \/ s.state = "Mastered"
         /\ ThenSave(h, r, <<completionMessage(s.topic, s.gradeBand)>>)
      \/ s.state = "AwaitingTransferCheck" /\ AskTransfer(h, r)
      \/ s.state = "Incorrect" /\ AskNext(h, n, NeedsExplanation(n))
      \/ s.state = "Uncertain" /\ AskNext(h, r, TRUE)
  BY <1>1 DEF AnswerQuestion
<1> HIDE DEF s
<1>7. /\ s \in Session /\ s.topic = s0.topic /\ s.question = s0.question
      /\ s.isTransferQuestion = s0.isTransferQuestion
  BY <1>2, <1>3, <1>4, <1>5, CheckedFields
<1>8. s.state = "AwaitingTransferCheck" => ~s.isTransferQuestion
  <2> DEFINE u == SubmitAnswer(s0, a)
  <2>1. u \in Session BY <1>3, <1>4, SubmitAnswerType
  <2>2. u.state # "AwaitingTransferCheck" BY <1>3 DEF SubmitAnswer, Session
  <2> HIDE DEF u
  <2> QED BY <1>5, <2>1, <2>2 DEF CheckAnswer, Session, u
<1>9. /\ r \in Session /\ r.topic = s.topic /\ r.question = s.question /\ r.state = s.state
      /\ n \in Session /\ n.topic = s.topic /\ n.question = s.question
  BY <1>7, ResetWrongStreakType, NoteIncorrectAttemptType
  DEF ResetWrongStreak, NoteIncorrectAttempt, Session
<1>10. s0.topic \in SupportedTopics BY <1>3 DEF Sound, Placed
<1> HIDE DEF r, n
<1>11. CASE s.state = "Mastered"
  BY <1>6, <1>9, <1>11 DEF ThenSave, IInv, TypeOK
<1>12. CASE s.state = "AwaitingTransferCheck"
  <2>1. AskTransfer(h, r) BY <1>6, <1>12
  <2>2. PICK b \in BandsOf(s0.topic) : Pending(s0) \in PracticeOf(s0.topic, b)
    BY <1>2, <1>3, <1>7, <1>8, <1>12 DEF Sound, PendingSound
  <2>3. Pending(s0).question = s0.question BY DEF Pending
  <2> QED BY <1>7, <1>9, <1>10, <2>1, <2>2, <2>3, AskTransferFresh
<1>13. CASE s.state = "Incorrect"
  <2>1. AskNext(h, n, NeedsExplanation(n)) /\ NeedsExplanation(n) \in BOOLEAN
    BY <1>6, <1>9, <1>13 DEF NeedsExplanation
  <2> QED BY <1>7, <1>9, <1>10, <2>1, AskNextFresh
<1>14. CASE s.state = "Uncertain"
  BY <1>6, <1>7, <1>9, <1>10, <1>14, AskNextFresh
<1> QED BY <1>6, <1>11, <1>12, <1>13, <1>14

(* A step moves the handler that takes it and no other. *)
LEMMA OneHandlerMoves ==
  ASSUME NEW g \in Handlers, Arrive(g) \/ HandlerStep(g)
  PROVE  \E step : Goto(g, step)
<1>1. \A e : Fail(g, e) => \E step : Goto(g, step) BY DEF Fail
<1>2. \A s, p : ThenSave(g, s, p) => \E step : Goto(g, step) BY DEF ThenSave
<1>3. CASE Arrive(g) BY <1>3 DEF Arrive
<1>4. CASE BeginTopic(g) BY <1>1, <1>2, <1>4 DEF BeginTopic
<1>5. CASE ApplyInput(g) \/ Stop(g) BY <1>1, <1>2, <1>5 DEF ApplyInput, Stop
<1>6. CASE SubmitDiagnosis(g) BY <1>1, <1>2, <1>6 DEF SubmitDiagnosis, AskFirst
<1>7. CASE ProviderAnswers(g) BY <1>1, <1>2, <1>7 DEF ProviderAnswers, AskFirst
<1>8. CASE AnswerQuestion(g)
  BY <1>1, <1>2, <1>8 DEF AnswerQuestion, AskNext, AskTransfer
<1>9. CASE ChangeGradeBand(g) \/ DiagnosticReport(g) \/ ResumeSession(g)
  BY <1>1, <1>2, <1>9 DEF ChangeGradeBand, DiagnosticReport, ResumeSession
<1>10. CASE ProviderFails(g) \/ LoadFails(g) BY <1>1, <1>10 DEF ProviderFails, LoadFails
<1>11. CASE \/ Save(g) \/ SaveFails(g) \/ Respond(g) \/ Finish(g)
            \/ ProviderRefusesJSONMode(g)
  BY <1>1, <1>11 DEF Save, SaveFails, Respond, Finish, ProviderRefusesJSONMode
<1> QED BY <1>3, <1>4, <1>5, <1>6, <1>7, <1>8, <1>9, <1>10, <1>11 DEF HandlerStep, Proceed, Serve

(* A learner is never asked at once what it has just answered, neither as  *)
(* the next practice question nor as the transfer question.                *)
THEOREM QuestionsAreFresh == Spec => FreshQuestion
<1> DEFINE Fresh == \A h \in Handlers :
       pc[h] = "answer" /\ pc'[h] = "save" /\ work'[h].state = "WaitForAnswer" =>
         work'[h].question # store[req[h].learner].question
<1>1. ASSUME IInv, [Next]_vars PROVE [Fresh]_vars
  <2>1. CASE UNCHANGED vars BY <2>1 DEF vars
  <2>2. ASSUME NEW g \in Handlers, Arrive(g) \/ HandlerStep(g),
               NEW h \in Handlers, pc[h] = "answer", pc'[h] = "save",
               work'[h].state = "WaitForAnswer"
        PROVE  work'[h].question # store[req[h].learner].question
    <3>1. \E step : Goto(g, step) BY <2>2, OneHandlerMoves
    <3>2. g = h BY <1>1, <2>2, <3>1 DEF Goto, IInv, TypeOK
    <3>3. AnswerQuestion(h)
      BY <1>1, <2>2, <3>2 DEF Goto, IInv, TypeOK, Arrive, HandlerStep, Proceed, Serve, BeginTopic, ApplyInput,
         Stop, SubmitDiagnosis, ProviderRefusesJSONMode, ProviderAnswers, ProviderFails,
         ChangeGradeBand, DiagnosticReport, ResumeSession, Save, Respond, LoadFails, SaveFails,
         Finish, Fail, Calling
    <3> QED BY <1>1, <2>2, <3>3, AnswerFresh
  <2>3. CASE Crash BY <2>3 DEF Crash
  <2> QED BY <1>1, <2>1, <2>2, <2>3 DEF Next
<1> QED BY <1>1, AlwaysSound, PTL DEF Spec, FreshQuestion

=============================================================================
