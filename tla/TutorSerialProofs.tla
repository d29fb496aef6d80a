------------------------- MODULE TutorSerialProofs -------------------------
(***************************************************************************)
(* What Tutor promises a learner that waits for each reply before sending  *)
(* again, as the web client does (OneAtATime): the reply tells the state   *)
(* saved, nothing learned is lost, a stop lasts, and the saved sessions    *)
(* run through LearningLoop.  For any number of learners, handlers and     *)
(* requests, any content and any offer, with and without a provider, and   *)
(* whether or not the store fails.                                         *)
(*                                                                         *)
(* The argument: a learner has one handler at most, only saves of its own  *)
(* requests change its session, so what the handler loaded is still what   *)
(* is saved when it writes, and what it writes is one move of the loop     *)
(* from there.                                                             *)
(***************************************************************************)
EXTENDS TutorProofs

Attempt == {"diagnose", "practice", "verify"}

(* The loop lets a learner at stage from of the topic of key at, who has   *)
(* mastered the topics of keys done, go on to session s, or s tells the    *)
(* same of the learner.                                                    *)
LoopAllows(from, at, done, s) ==
  LET to == StageOf(s)
      key == masteryKey(s)
  IN  \/ /\ s.masteryBySubject = done
         /\ \/ to = from /\ key = at
            \/ /\ ~(key = at /\ from \in Attempt)
               /\ key \in TopicKeys
               /\ to = IF key \in done THEN "mastered" ELSE "diagnose"
            \/ key = at /\ from = "diagnose" /\ to = "practice"
            \/ key = at /\ from \in {"practice", "verify"} /\ to = "practice"
            \/ key = at /\ from = "practice" /\ to = "verify"
            \/ key = at /\ from \in Attempt /\ to = "stopped"
      \/ /\ s.masteryBySubject = done \cup {at}
         /\ key = at /\ from = "verify" /\ to = "mastered"

Offered(s) == curriculumContains(s.subject, s.topic)

(* A session s saved for a request r follows from what is saved, and only  *)
(* a topic begun takes up what is stopped.                                 *)
Follows(r, s) ==
  /\ LoopAllows(StageAt(r.learner), KeyAt(r.learner), MasteredBy(r.learner), s)
  /\ Offered(s)
  /\ r.kind # "begin" =>
       /\ Saved(r.learner)
       /\ store[r.learner].state = "Idle" => s.state = "Idle"

(* A handler that may save what it worked out. *)
Writer(h) == req[h].kind \notin {"report", "resume"}

(* A handler works on what is saved of its learner, and its reply tells of *)
(* no state but the one of the session it saved or read.                   *)
HandlerSerial(h) ==
  LET l == req[h].learner
  IN  /\ Calling(h) => Saved(l) /\ work[h] = store[l]
      /\ pc[h] = "save" => Follows(req[h], work[h])
      /\ pc[h] = "respond" => Saved(l) /\ work[h] = store[l]
      /\ pc[h] # "done" => out[h].state = "no state"
      /\ pc[h] = "done" /\ out[h].state # "no state" =>
           /\ out[h].state = stateName(work[h].state)
           /\ Writer(h) => Saved(l) /\ work[h] = store[l]

(* Of the handlers of one learner's requests, at most one may save. *)
Alone ==
  \A g \in Handlers, h \in Handlers :
    /\ pc[g] # "idle" /\ Writer(g)
    /\ pc[h] # "idle" /\ Writer(h)
    /\ req[g].learner = req[h].learner
    => g = h

ReadersRead == \A h \in Handlers : ~Writer(h) => pc[h] \in {"report", "resume", "done"}

(* However many handlers a learner has, each keeps to a topic offered, and *)
(* tells of no state before its reply is done; one that only reads tells   *)
(* of the state of what it read.                                           *)
HandlerFree(h) ==
  /\ Calling(h) \/ pc[h] = "save" => Offered(work[h])
  /\ pc[h] # "done" => out[h].state = "no state"
  /\ pc[h] = "done" /\ ~Writer(h) =>
       out[h].state \in {"no state", stateName(work[h].state)}

FreeInv ==
  /\ ReadersRead
  /\ \A l \in DOMAIN store : Offered(store[l])
  /\ \A h \in Handlers : HandlerFree(h)

SerialInv ==
  /\ Alone
  /\ FreeInv
  /\ \A h \in Handlers : HandlerSerial(h)

-----------------------------------------------------------------------------
(* The loop's stages, and the moves the session's methods make. *)

(* A sound session's stage tells its state, and the other way round. *)
LEMMA StageFacts ==
  ASSUME NEW s \in Session, Sound(s)
  PROVE  /\ StageOf(s) = "mastered" <=> s.state = "Mastered"
         /\ StageOf(s) = "diagnose" <=> s.state = "Diagnosing"
         /\ StageOf(s) = "practice" <=> s.state = "WaitForAnswer" /\ ~s.isTransferQuestion
         /\ StageOf(s) = "verify" <=> s.state = "WaitForAnswer" /\ s.isTransferQuestion
         /\ StageOf(s) = "stopped" <=> s.state = "Idle"
  BY DEF StageOf, Sound, AtRest

(* The key of any session's topic is the key of a topic (masteryKey). *)
LEMMA KeyOfTopic == ASSUME NEW s \in Session PROVE masteryKey(s) \in TopicKeys
  BY DEF masteryKey, TopicKeys, Session

(* Selecting a topic changes no more than the band of one in progress, and *)
(* resets for any other (SelectSubject, SelectTopic).                      *)
LEMMA SelectedCases ==
  ASSUME NEW s \in Session, NEW r \in Request, r.topic # NoText, r.gradeBand \in GradeBands
  PROVE  IF s.subject = r.subject /\ s.topic = r.topic
         THEN Selected(s, r) = SetGradeBand(s, r.gradeBand)
         ELSE \E y \in Session :
                /\ y.subject = r.subject /\ y.topic = r.topic
                /\ y.masteryBySubject = s.masteryBySubject
                /\ Selected(s, r) = ResetAttempt(y)
<1> DEFINE s1 == SetGradeBand(s, r.gradeBand)
           s2 == SelectSubject(s1, r.subject)
           t == SelectTopic(s2, r.topic)
           x == [s1 EXCEPT !.subject = r.subject, !.topic = NoText]
           y == [s2 EXCEPT !.topic = r.topic]
<1>1. r.subject \in Subjects \cup {NoText} /\ r.topic \in Topics \cup {NoText}
  BY DEF Request
<1>2. /\ s1 \in Session
      /\ s1.subject = s.subject /\ s1.topic = s.topic
      /\ s1.masteryBySubject = s.masteryBySubject
  BY SetGradeBandType DEF SetGradeBand, Session
<1>3. t = Selected(s, r) BY DEF Selected
<1>4. s2 = IF r.subject = s1.subject THEN s1 ELSE ResetAttempt(x) BY DEF SelectSubject
<1>5. x \in Session /\ x.subject = r.subject /\ x.topic = NoText
      /\ x.masteryBySubject = s1.masteryBySubject
  <2> HIDE DEF s1
  <2> QED BY <1>1, <1>2 DEF Session
<1>6. t = IF r.topic = s2.topic THEN s2 ELSE ResetAttempt(y) BY DEF SelectTopic
<1> HIDE DEF s1, x
<1>7. /\ s2 \in Session /\ s2.subject = r.subject
      /\ s2.masteryBySubject = s.masteryBySubject
      /\ s2.topic = IF r.subject = s.subject THEN s.topic ELSE NoText
  <2> HIDE DEF s2
  <2> QED BY <1>2, <1>4, <1>5, ResetAttemptType, ResetAttemptFields
<1> HIDE DEF s2
<1>8. /\ y \in Session /\ y.subject = r.subject /\ y.topic = r.topic
      /\ y.masteryBySubject = s.masteryBySubject
  BY <1>1, <1>7 DEF Session
<1> HIDE DEF y, t
<1>9. CASE s.subject = r.subject /\ s.topic = r.topic
  BY <1>2, <1>3, <1>4, <1>6, <1>7, <1>9 DEF s1
<1>10. CASE ~(s.subject = r.subject /\ s.topic = r.topic)
  BY <1>3, <1>6, <1>7, <1>8, <1>10
<1> QED BY <1>9, <1>10

(* What Begun changes of a session that is not idle after a diagnosis. *)
LEMMA BegunFields ==
  ASSUME NEW s \in Session, s.state = "Idle" => ~s.diagnosisComplete
  PROVE  LET t == Begun(s)
         IN  /\ t.subject = s.subject /\ t.topic = s.topic
             /\ masteryKey(t) = masteryKey(s)
             /\ t.masteryBySubject = s.masteryBySubject
             /\ t.isTransferQuestion = s.isTransferQuestion
             /\ t.state = IF s.state = "Idle" THEN "Diagnosing" ELSE s.state
<1>1. /\ Begun(s).subject = s.subject /\ Begun(s).topic = s.topic
      /\ Begun(s).masteryBySubject = s.masteryBySubject
      /\ Begun(s).isTransferQuestion = s.isTransferQuestion
      /\ Begun(s).state = IF s.state = "Idle" THEN "Diagnosing" ELSE s.state
  BY DEF Begun, StartDiagnosis, Session
<1> QED BY <1>1 DEF masteryKey

(* A topic begun is a move of the loop: a topic in progress goes on, a     *)
(* stopped one is diagnosed again, and any other starts with its diagnosis *)
(* unless it is mastered.  Here the keys of the topics offered must        *)
(* differ: with one key for two topics, the loop would see practice of the *)
(* one turn into diagnosis of the same.                                    *)
LEMMA BeginMove ==
  ASSUME NEW s \in Session, NEW r \in Request, NEW from, NEW at,
         r.subject # NoText, r.topic # NoText, r.gradeBand \in GradeBands,
         curriculumContains(r.subject, r.topic),
         \/ from = "new" /\ s.subject = NoText
         \/ /\ Sound(s) /\ Offered(s)
            /\ from = StageOf(s) /\ at = masteryKey(s)
  PROVE  LET t == Begun(Selected(s, r))
         IN  LoopAllows(from, at, s.masteryBySubject, t) /\ Offered(t)
<1> DEFINE u == Selected(s, r)
           t == Begun(u)
<1>1. CASE s.subject = r.subject /\ s.topic = r.topic
  <2>1. Sound(s) /\ Offered(s) /\ from = StageOf(s) /\ at = masteryKey(s) BY <1>1
  <2>2. u = SetGradeBand(s, r.gradeBand) BY <1>1, SelectedCases
  <2>3. /\ u \in Session
        /\ u.subject = s.subject /\ u.topic = s.topic /\ u.state = s.state
        /\ u.isTransferQuestion = s.isTransferQuestion
        /\ u.masteryBySubject = s.masteryBySubject
        /\ u.diagnosisComplete = s.diagnosisComplete
    BY <2>2, SetGradeBandType DEF SetGradeBand, Session
  <2> HIDE DEF u
  <2>4. s.state = "Idle" => ~s.diagnosisComplete /\ masteryKey(s) \notin s.masteryBySubject
    BY <2>1 DEF Sound, DiagnosisSound, MasterySound
  <2>5. /\ t.subject = s.subject /\ t.topic = s.topic
        /\ masteryKey(t) = masteryKey(s)
        /\ t.masteryBySubject = s.masteryBySubject
        /\ t.isTransferQuestion = s.isTransferQuestion
        /\ t.state = IF s.state = "Idle" THEN "Diagnosing" ELSE s.state
    BY <2>3, <2>4, BegunFields DEF masteryKey
  <2> HIDE DEF t
  <2>6. Offered(t) BY <2>1, <2>5 DEF Offered
  <2>7. masteryKey(t) \in TopicKeys BY <2>5, KeyOfTopic
  <2>8. CASE s.state = "Idle"
    <3>1. StageOf(t) = "diagnose" BY <2>5, <2>8 DEF StageOf
    <3>2. from \notin Attempt BY <2>1, <2>8 DEF StageOf, Attempt
    <3> QED BY <2>1, <2>4, <2>5, <2>6, <2>7, <2>8, <3>1, <3>2 DEF LoopAllows, t, u
  <2>9. CASE s.state # "Idle"
    <3>1. StageOf(t) = StageOf(s) BY <2>5, <2>9 DEF StageOf
    <3> QED BY <2>1, <2>5, <2>6, <3>1 DEF LoopAllows, t, u
  <2> QED BY <2>8, <2>9
<1>2. CASE ~(s.subject = r.subject /\ s.topic = r.topic)
  <2>1. PICK y \in Session :
          /\ y.subject = r.subject /\ y.topic = r.topic
          /\ y.masteryBySubject = s.masteryBySubject
          /\ u = ResetAttempt(y)
    BY <1>2, SelectedCases
  <2> HIDE DEF u
  <2>2. /\ u \in Session /\ u.subject = r.subject /\ u.topic = r.topic
        /\ u.masteryBySubject = s.masteryBySubject
        /\ u.mastered <=> masteryKey(y) \in s.masteryBySubject
        /\ masteryKey(u) = masteryKey(y)
        /\ u.state = IF u.mastered THEN "Mastered" ELSE "Idle"
        /\ ~u.diagnosisComplete
    BY <2>1, ResetAttemptType, ResetAttemptFields
  <2>3. /\ t.subject = r.subject /\ t.topic = r.topic
        /\ masteryKey(t) = masteryKey(u)
        /\ t.masteryBySubject = s.masteryBySubject
        /\ t.state = IF u.mastered THEN "Mastered" ELSE "Diagnosing"
    BY <2>2, BegunFields
  <2> HIDE DEF t
  <2>4. masteryKey(t) = KeyOf(r.subject, r.topic) BY <2>3 DEF masteryKey
  <2>5. masteryKey(t) \in TopicKeys BY <2>2, <2>3, KeyOfTopic
  <2>6. Offered(t) BY <2>3 DEF Offered
  <2>7. StageOf(t) = IF masteryKey(t) \in s.masteryBySubject THEN "mastered" ELSE "diagnose"
    BY <2>2, <2>3 DEF StageOf
  <2>8. ~(masteryKey(t) = at /\ from \in Attempt)
    <3> SUFFICES ASSUME masteryKey(t) = at, from \in Attempt PROVE FALSE OBVIOUS
    <3>1. Offered(s) /\ at = KeyOf(s.subject, s.topic) BY DEF Attempt, masteryKey
    <3>2. <<s.subject, s.topic>> \in Curriculum /\ <<r.subject, r.topic>> \in Curriculum
      BY <3>1 DEF Offered, curriculumContains
    <3>3. KeyOf(s.subject, s.topic) = KeyOf(r.subject, r.topic) BY <2>4, <3>1
    <3>4. <<s.subject, s.topic>> = <<r.subject, r.topic>> BY <3>2, <3>3, KeysDistinct
    <3> QED BY <1>2, <3>4
  <2> QED BY <2>3, <2>5, <2>6, <2>7, <2>8 DEF LoopAllows, t, u
<1> QED BY <1>1, <1>2

(* A practice question posed moves to practice, the transfer question to   *)
(* verification, and neither changes the topic or what is mastered.        *)
LEMMA PracticePosed ==
  ASSUME NEW s \in Session, NEW q, NEW e
  PROVE  LET t == AskQuestion(s, q, e)
         IN  /\ StageOf(t) = "practice" /\ t.state = "WaitForAnswer"
             /\ t.subject = s.subject /\ t.topic = s.topic
             /\ masteryKey(t) = masteryKey(s)
             /\ t.masteryBySubject = s.masteryBySubject
<1> DEFINE t == AskQuestion(s, q, e)
<1>1. /\ t.state = "WaitForAnswer" /\ ~t.isTransferQuestion
      /\ t.subject = s.subject /\ t.topic = s.topic
      /\ t.masteryBySubject = s.masteryBySubject
  BY DEF AskQuestion, Session
<1> HIDE DEF t
<1> QED BY <1>1 DEF StageOf, masteryKey, t

(* The transfer question does the same for verification.                   *)
LEMMA TransferPosed ==
  ASSUME NEW s \in Session, NEW q, NEW e
  PROVE  LET t == AskTransferQuestion(s, q, e)
         IN  /\ StageOf(t) = "verify" /\ t.state = "WaitForAnswer"
             /\ t.subject = s.subject /\ t.topic = s.topic
             /\ masteryKey(t) = masteryKey(s)
             /\ t.masteryBySubject = s.masteryBySubject
<1> DEFINE t == AskTransferQuestion(s, q, e)
<1>1. /\ t.state = "WaitForAnswer" /\ t.isTransferQuestion
      /\ t.subject = s.subject /\ t.topic = s.topic
      /\ t.masteryBySubject = s.masteryBySubject
  BY DEF AskTransferQuestion, Session
<1> HIDE DEF t
<1> QED BY <1>1 DEF StageOf, masteryKey, t

(* A right answer to a practice question awaits the transfer check, one to *)
(* the transfer question does not (CheckAnswer).                           *)
LEMMA CheckedTransfer ==
  ASSUME NEW s \in Session, NEW a \in STRING
  PROVE  CheckAnswer(SubmitAnswer(s, a)).state = "AwaitingTransferCheck" => ~s.isTransferQuestion
<1> DEFINE u == SubmitAnswer(s, a)
<1>1. /\ u \in Session /\ u.state = "CheckAnswer"
      /\ u.isTransferQuestion = s.isTransferQuestion
  BY SubmitAnswerType DEF SubmitAnswer, Session
<1> HIDE DEF u
<1>2. CheckAnswer(u).state = "AwaitingTransferCheck" => ~u.isTransferQuestion
  BY <1>1 DEF CheckAnswer, Session
<1> QED BY <1>1, <1>2 DEF u

-----------------------------------------------------------------------------
(* The two ways a handler's step ends. *)

(* A refusal tells of no state (Fail). *)
LEMMA FailSerial ==
  ASSUME IInv, NEW h \in Handlers, NEW e, Fail(h, e)
  PROVE  HandlerSerial(h)'
<1>1. pc'[h] = "done" /\ out'[h].state = "no state"
  BY DEF Fail, Goto, IInv, TypeOK, NoReply
<1> QED BY <1>1 DEF HandlerSerial, Calling

(* About to save what follows (ThenSave). *)
LEMMA ThenSaveSerial ==
  ASSUME IInv, NEW h \in Handlers, NEW s, NEW p, ThenSave(h, s, p), Follows(req[h], s)
  PROVE  HandlerSerial(h)'
<1>1. /\ pc'[h] = "save" /\ work'[h] = s /\ out'[h].state = "no state"
      /\ store' = store /\ req'[h] = req[h]
  BY DEF ThenSave, Goto, IInv, TypeOK, NoReply, files
<1>2. Follows(req[h], work[h])'
  BY <1>1 DEF Follows, StageAt, KeyAt, MasteredBy, Saved
<1> QED BY <1>1, <1>2 DEF HandlerSerial, Calling

-----------------------------------------------------------------------------
(* One lemma per action: the handler that takes the step. *)

(* A request that arrives finds a fresh reply (Arrive). *)
LEMMA ArriveSerial ==
  ASSUME IInv, FreeInv, NEW h \in Handlers, Arrive(h)
  PROVE  HandlerSerial(h)'
<1>1. PICK r \in Requests :
        /\ pc[h] = "idle"
        /\ IF RequestErr(r) = NoError
           THEN Goto(h, r.kind) /\ UNCHANGED out
           ELSE Goto(h, "done") /\ out' = [out EXCEPT ![h].err = RequestErr(r)]
  BY DEF Arrive
<1>2. r.kind \in Kinds BY RequestsType DEF Request
<1>3. out[h] \in Reply /\ out[h].state = "no state"
  BY <1>1 DEF IInv, TypeOK, FreeInv, HandlerFree
<1>4. pc'[h] \in Kinds \cup {"done"} BY <1>1, <1>2 DEF Goto, IInv, TypeOK
<1>5. out'[h].state = "no state"
  <2>1. CASE UNCHANGED out BY <1>3, <2>1
  <2>2. CASE out' = [out EXCEPT ![h].err = RequestErr(r)]
    <3>1. out'[h] = [out[h] EXCEPT !.err = RequestErr(r)] BY <2>2 DEF IInv, TypeOK
    <3> QED BY <1>3, <3>1 DEF Reply
  <2> QED BY <1>1, <2>1, <2>2
<1> QED BY <1>4, <1>5 DEF HandlerSerial, Calling, Kinds

(* A topic begun or resumed (BeginTopic). *)
LEMMA BeginTopicSerial ==
  ASSUME IInv, FreeInv, NEW h \in Handlers, BeginTopic(h)
  PROVE  HandlerSerial(h)'
<1> DEFINE r == req[h]
           s0 == LoadOrNew(r.learner)
           u == Begun(Selected(s0, r))
           p == <<BeginPrompt(Selected(s0, r), r)>>
<1>1. /\ r \in Request /\ r.kind = "begin" /\ RequestErr(r) = NoError
  BY RequestsType DEF BeginTopic, IInv, HandlerSound, Calling
<1>2. \/ \E e : Fail(h, e)
      \/ BeginErr(s0, r) = NoError /\ ThenSave(h, u, p)
  BY DEF BeginTopic
<1>3. CASE BeginErr(s0, r) = NoError /\ ThenSave(h, u, p)
  <2>1. /\ r.subject # NoText /\ r.topic # NoText
        /\ curriculumContains(r.subject, r.topic) /\ r.gradeBand \in GradeBands
    BY <1>1, <1>3 DEF RequestErr, BeginErr, SetGradeBandErr, NoError
  <2>2. CASE Saved(r.learner)
    <3>1. s0 \in Session /\ Sound(s0) /\ s0 = store[r.learner]
      BY <2>2, SavedSound DEF LoadOrNew
    <3>2. Offered(s0) BY <2>2, <3>1 DEF FreeInv, Saved
    <3>3. /\ StageAt(r.learner) = StageOf(s0) /\ KeyAt(r.learner) = masteryKey(s0)
          /\ MasteredBy(r.learner) = s0.masteryBySubject
      BY <2>2, <3>1 DEF StageAt, KeyAt, MasteredBy
    <3> HIDE DEF s0
    <3>4. Follows(r, u) BY <1>1, <2>1, <3>1, <3>2, <3>3, BeginMove DEF Follows
    <3> HIDE DEF u, p
    <3> QED BY <1>3, <3>4, ThenSaveSerial
  <2>3. CASE ~Saved(r.learner)
    <3>1. r.learner \in STRING BY <1>1 DEF Request
    <3>2. s0 = New(r.learner) BY <2>3 DEF LoadOrNew
    <3> HIDE DEF s0
    <3>3. s0 \in Session /\ s0.subject = NoText /\ s0.masteryBySubject = {}
      BY <3>1, <3>2, NewType DEF New
    <3>4. StageAt(r.learner) = "new" /\ MasteredBy(r.learner) = {}
      BY <2>3 DEF StageAt, MasteredBy
    <3>5. LoopAllows(StageAt(r.learner), KeyAt(r.learner), MasteredBy(r.learner), u) /\ Offered(u)
      BY <1>1, <2>1, <3>3, <3>4, BeginMove
    <3>6. Follows(r, u) BY <1>1, <3>5 DEF Follows
    <3> HIDE DEF u, p
    <3> QED BY <1>3, <3>6, ThenSaveSerial
  <2> QED BY <2>2, <2>3
<1> QED BY <1>2, <1>3, FailSerial

(* The input is sent on (ApplyInput). *)
LEMMA ApplyInputSerial ==
  ASSUME IInv, FreeInv, NEW h \in Handlers, ApplyInput(h)
  PROVE  HandlerSerial(h)'
<1> DEFINE l == req[h].learner
<1>1. CASE \E e : Fail(h, e) BY <1>1, FailSerial
<1>2. CASE /\ Route(store[l]) # "nowhere"
           /\ Goto(h, Route(store[l])) /\ UNCHANGED <<files, req, work, out>>
  <2>1. Route(store[l]) \in {"diagnose", "answer"} BY <1>2 DEF Route
  <2>2. pc'[h] \in {"diagnose", "answer"} BY <1>2, <2>1 DEF Goto, IInv, TypeOK
  <2>3. out'[h].state = "no state" BY <1>2 DEF ApplyInput, FreeInv, HandlerFree
  <2> QED BY <2>2, <2>3 DEF HandlerSerial, Calling
<1> QED BY <1>1, <1>2 DEF ApplyInput

(* What follows from the saved session of a handler's learner, when the    *)
(* loop allows it: the premises of Follows in terms of that session.       *)
LEMMA FollowsSaved ==
  ASSUME NEW r, Saved(r.learner), NEW s,
         LoopAllows(StageOf(store[r.learner]), masteryKey(store[r.learner]),
                    store[r.learner].masteryBySubject, s),
         Offered(s),
         store[r.learner].state = "Idle" => s.state = "Idle"
  PROVE  Follows(r, s)
  BY DEF Follows, StageAt, KeyAt, MasteredBy

(* A stop abandons the attempt, or replies to who has mastered the topic   *)
(* (Stop).                                                                 *)
LEMMA StopSerial ==
  ASSUME IInv, FreeInv, NEW h \in Handlers, Stop(h)
  PROVE  HandlerSerial(h)'
<1> DEFINE l == req[h].learner
           s0 == store[l]
           s == ResetAttempt(s0)
           p == <<stopPrompt>>
<1>1. CASE ~Saved(l)
  <2>1. Fail(h, LoadErr(l)) BY <1>1 DEF Stop
  <2> QED BY <2>1, FailSerial
<1>2. CASE Saved(l) /\ s0.mastered
  <2>1. /\ pc'[h] = "respond" /\ work'[h] = store[l]
        /\ out'[h].state = out[h].state /\ store' = store /\ req'[h] = req[h]
    BY <1>2 DEF Stop, Goto, IInv, TypeOK, Reply, files
  <2>2. out[h].state = "no state" BY DEF Stop, FreeInv, HandlerFree
  <2>3. store'[l] = store[l] BY <2>1
  <2> QED BY <1>2, <2>1, <2>2, <2>3 DEF HandlerSerial, Calling, Saved
<1>3. CASE Saved(l) /\ ~s0.mastered
  <2>1. ThenSave(h, s, p) BY <1>3 DEF Stop
  <2>2. s0 \in Session /\ Sound(s0) BY <1>3, SavedSound
  <2>3. Offered(s0) BY <1>3 DEF FreeInv, Saved
  <2>4. s0.state \in {"Idle", "Diagnosing", "WaitForAnswer"}
        /\ masteryKey(s0) \notin s0.masteryBySubject
    BY <1>3, <2>2 DEF Sound, AtRest, MasterySound
  <2> HIDE DEF s0
  <2>5. /\ s.subject = s0.subject /\ s.topic = s0.topic
        /\ masteryKey(s) = masteryKey(s0)
        /\ s.masteryBySubject = s0.masteryBySubject
        /\ s.state = "Idle"
    BY <2>2, <2>4, ResetAttemptFields
  <2> HIDE DEF s, p
  <2>6. StageOf(s) = "stopped" BY <2>5 DEF StageOf
  <2>7. StageOf(s0) = "stopped" \/ StageOf(s0) \in Attempt
    BY <2>4 DEF StageOf, Attempt
  <2>8. LoopAllows(StageOf(s0), masteryKey(s0), s0.masteryBySubject, s)
    BY <2>5, <2>6, <2>7 DEF LoopAllows
  <2>9. Offered(s) BY <2>3, <2>5 DEF Offered
  <2>10. Follows(req[h], s) BY <1>3, <2>5, <2>8, <2>9, FollowsSaved DEF s0
  <2> QED BY <2>1, <2>10, ThenSaveSerial
<1> QED BY <1>1, <1>2, <1>3

(* The explanation recorded and the first question posed, for a session    *)
(* that tells the same of the loop as the saved one (AskFirst).            *)
LEMMA AskFirstSerial ==
  ASSUME IInv, FreeInv, NEW h \in Handlers, pc[h] \in {"diagnose", "provider", "retry"},
         Saved(req[h].learner), store[req[h].learner].state = "Diagnosing",
         NEW s \in Session,
         s.subject = store[req[h].learner].subject, s.topic = store[req[h].learner].topic,
         s.masteryBySubject = store[req[h].learner].masteryBySubject,
         AskFirst(h, s)
  PROVE  HandlerSerial(h)'
<1> DEFINE l == req[h].learner
           s0 == store[l]
           t == RecordDiagnosticResponse(s, req[h].input)
           q == firstPracticeQuestion(s.topic, s.gradeBand)
           u == AskQuestion(t, q.question, q.expectedAnswer)
           p == <<q.question>>
<1>1. (\E e : Fail(h, e)) \/ ThenSave(h, u, p) BY DEF AskFirst
<1>2. CASE ThenSave(h, u, p)
  <2>1. req[h].input \in STRING BY RequestsType DEF IInv, HandlerSound, Calling, Request
  <2>2. /\ t \in Session /\ t.subject = s.subject /\ t.topic = s.topic
        /\ t.masteryBySubject = s.masteryBySubject
    BY <2>1, RecordDiagnosticResponseType DEF RecordDiagnosticResponse, Session
  <2> HIDE DEF t, q
  <2>3. /\ StageOf(u) = "practice" /\ u.state = "WaitForAnswer"
        /\ u.subject = s.subject /\ u.topic = s.topic
        /\ u.masteryBySubject = s.masteryBySubject
    BY <2>2, PracticePosed
  <2> HIDE DEF u, p
  <2>4. Offered(s0) BY DEF FreeInv, Saved
  <2>5. Offered(u) BY <2>3, <2>4 DEF Offered
  <2>6. masteryKey(u) = masteryKey(s0) BY <2>3 DEF masteryKey
  <2>7. StageOf(s0) = "diagnose" BY DEF StageOf
  <2>8. LoopAllows(StageOf(s0), masteryKey(s0), s0.masteryBySubject, u)
    BY <2>3, <2>6, <2>7 DEF LoopAllows
  <2>9. Follows(req[h], u) BY <2>5, <2>8, FollowsSaved
  <2> QED BY <1>2, <2>9, ThenSaveSerial
<1> QED BY <1>1, <1>2, FailSerial

(* The diagnosis, with or without a provider (SubmitDiagnosis). *)
LEMMA SubmitDiagnosisSerial ==
  ASSUME IInv, FreeInv, NEW h \in Handlers, SubmitDiagnosis(h)
  PROVE  HandlerSerial(h)'
<1> DEFINE l == req[h].learner
<1>1. CASE DiagnosisErr(l) # NoError
  <2>1. Fail(h, DiagnosisErr(l)) BY <1>1 DEF SubmitDiagnosis
  <2> QED BY <2>1, FailSerial
<1>2. CASE DiagnosisErr(l) = NoError
  <2>1. Saved(l) /\ store[l].state = "Diagnosing"
    BY <1>2 DEF DiagnosisErr, LoadErr, NoError
  <2>2. store[l] \in Session BY <2>1, SavedSound
  <2>3. CASE ~HasProvider
    <3>1. AskFirst(h, store[l]) BY <1>2, <2>3 DEF SubmitDiagnosis
    <3> QED BY <2>1, <2>2, <3>1, AskFirstSerial DEF SubmitDiagnosis
  <2>4. CASE HasProvider
    <3>1. /\ pc'[h] = "provider" /\ work'[h] = store[l]
          /\ out'[h] = out[h] /\ store' = store /\ req'[h] = req[h]
      BY <1>2, <2>4 DEF SubmitDiagnosis, Goto, IInv, TypeOK, files
    <3>2. out[h].state = "no state" BY DEF SubmitDiagnosis, FreeInv, HandlerFree
    <3> QED BY <2>1, <3>1, <3>2 DEF HandlerSerial, Calling, Saved
  <2> QED BY <2>3, <2>4
<1> QED BY <1>1, <1>2

(* The provider answers: the session it was asked about is still the one   *)
(* saved (ProviderAnswers).                                                *)
LEMMA ProviderAnswersSerial ==
  ASSUME IInv, SerialInv, NEW h \in Handlers, ProviderAnswers(h)
  PROVE  HandlerSerial(h)'
<1> DEFINE l == req[h].learner
<1>1. PICK result \in ProviderResults :
        (\E e : Fail(h, e)) \/ AskFirst(h, RecordDiagnosticResult(work[h], result))
  BY DEF ProviderAnswers
<1>2. /\ pc[h] \in {"provider", "retry"} /\ Calling(h) BY DEF ProviderAnswers, Calling
<1>3. /\ Saved(l) /\ work[h] = store[l] /\ work[h].state = "Diagnosing"
      /\ work[h] \in Session
  BY <1>2 DEF SerialInv, HandlerSerial, IInv, HandlerSound, TypeOK
<1> DEFINE s == RecordDiagnosticResult(work[h], result)
<1>4. s \in Session BY <1>3, ProviderType, RecordDiagnosticResultType
<1>5. /\ s.subject = store[l].subject /\ s.topic = store[l].topic
      /\ s.masteryBySubject = store[l].masteryBySubject
  BY <1>3 DEF RecordDiagnosticResult, Session
<1> HIDE DEF s
<1>6. FreeInv BY DEF SerialInv
<1>7. CASE AskFirst(h, s) BY <1>2, <1>3, <1>4, <1>5, <1>6, <1>7, AskFirstSerial
<1> QED BY <1>1, <1>7, FailSerial DEF s

(* The provider refuses its JSON mode: the handler works on the same copy. *)
LEMMA ProviderRefusesSerial ==
  ASSUME IInv, SerialInv, NEW h \in Handlers, ProviderRefusesJSONMode(h)
  PROVE  HandlerSerial(h)'
<1>1. /\ pc'[h] = "retry" /\ pc[h] = "provider" /\ store' = store
      /\ req' = req /\ work' = work /\ out' = out
  BY DEF ProviderRefusesJSONMode, Goto, IInv, TypeOK, files
<1> QED BY <1>1 DEF SerialInv, HandlerSerial, Calling, Saved

(* A question that follows an answer, for a session that tells the same of *)
(* the loop as the saved one: back to practice (AskNext).                  *)
LEMMA AskNextSerial ==
  ASSUME IInv, FreeInv, NEW h \in Handlers,
         Saved(req[h].learner), store[req[h].learner].state = "WaitForAnswer",
         NEW s \in Session,
         s.subject = store[req[h].learner].subject, s.topic = store[req[h].learner].topic,
         s.masteryBySubject = store[req[h].learner].masteryBySubject,
         NEW explained \in BOOLEAN, AskNext(h, s, explained)
  PROVE  HandlerSerial(h)'
<1> DEFINE l == req[h].learner
           s0 == store[l]
           v == Teach(s)
           t == IF explained THEN ResetWrongStreak(v) ELSE s
           q == nextPracticeQuestion(s.topic, s.gradeBand, s.question)
           u == AskQuestion(t, q.question, q.expectedAnswer)
           p == IF explained THEN <<explanation(s.topic, s.gradeBand), q.question>>
                             ELSE <<q.question>>
<1>1. (\E e : Fail(h, e)) \/ ThenSave(h, u, p) BY DEF AskNext
<1>2. CASE ThenSave(h, u, p)
  <2>1. /\ v \in Session /\ v.subject = s.subject /\ v.topic = s.topic
        /\ v.masteryBySubject = s.masteryBySubject
    BY TeachType DEF Teach, Session
  <2> HIDE DEF v
  <2>2. /\ t \in Session /\ t.subject = s.subject /\ t.topic = s.topic
        /\ t.masteryBySubject = s.masteryBySubject
    BY <2>1, ResetWrongStreakType DEF ResetWrongStreak, Session
  <2> HIDE DEF t, q
  <2>3. /\ StageOf(u) = "practice" /\ u.state = "WaitForAnswer"
        /\ u.subject = s.subject /\ u.topic = s.topic
        /\ u.masteryBySubject = s.masteryBySubject
    BY <2>2, PracticePosed
  <2> HIDE DEF u, p
  <2>4. Offered(s0) BY DEF FreeInv, Saved
  <2>5. Offered(u) BY <2>3, <2>4 DEF Offered
  <2>6. masteryKey(u) = masteryKey(s0) BY <2>3 DEF masteryKey
  <2>7. StageOf(s0) \in {"practice", "verify"} BY DEF StageOf
  <2>8. LoopAllows(StageOf(s0), masteryKey(s0), s0.masteryBySubject, u)
    BY <2>3, <2>6, <2>7 DEF LoopAllows
  <2>9. Follows(req[h], u) BY <2>5, <2>8, FollowsSaved
  <2> QED BY <1>2, <2>9, ThenSaveSerial
<1> QED BY <1>1, <1>2, FailSerial

(* On to the verification of a topic practised (AskTransfer). *)
LEMMA AskTransferSerial ==
  ASSUME IInv, FreeInv, NEW h \in Handlers,
         Saved(req[h].learner), StageOf(store[req[h].learner]) = "practice",
         store[req[h].learner].state = "WaitForAnswer",
         NEW s \in Session,
         s.subject = store[req[h].learner].subject, s.topic = store[req[h].learner].topic,
         s.masteryBySubject = store[req[h].learner].masteryBySubject,
         AskTransfer(h, s)
  PROVE  HandlerSerial(h)'
<1> DEFINE l == req[h].learner
           s0 == store[l]
           q == transferQuestion(s.topic, s.gradeBand)
           u == AskTransferQuestion(s, q.question, q.expectedAnswer)
           p == <<q.question>>
<1>1. (\E e : Fail(h, e)) \/ ThenSave(h, u, p) BY DEF AskTransfer
<1>2. CASE ThenSave(h, u, p)
  <2> HIDE DEF q
  <2>1. /\ StageOf(u) = "verify" /\ u.state = "WaitForAnswer"
        /\ u.subject = s.subject /\ u.topic = s.topic
        /\ u.masteryBySubject = s.masteryBySubject
    BY TransferPosed
  <2> HIDE DEF u, p
  <2>2. Offered(s0) BY DEF FreeInv, Saved
  <2>3. Offered(u) BY <2>1, <2>2 DEF Offered
  <2>4. masteryKey(u) = masteryKey(s0) BY <2>1 DEF masteryKey
  <2>5. LoopAllows(StageOf(s0), masteryKey(s0), s0.masteryBySubject, u)
    BY <2>1, <2>4 DEF LoopAllows
  <2>6. Follows(req[h], u) BY <2>3, <2>5, FollowsSaved
  <2> QED BY <1>2, <2>6, ThenSaveSerial
<1> QED BY <1>1, <1>2, FailSerial

(* The answer is checked: mastery comes from a verified one only, whatever *)
(* else goes back to practice or on to the verification (SubmitAnswer).    *)
LEMMA AnswerQuestionSerial ==
  ASSUME IInv, FreeInv, NEW h \in Handlers, AnswerQuestion(h)
  PROVE  HandlerSerial(h)'
<1> DEFINE l == req[h].learner
           a == req[h].input
           s0 == store[l]
           s == Checked(l, a)
           r == ResetWrongStreak(s)
           n == NoteIncorrectAttempt(s)
           p == <<completionMessage(s.topic, s.gradeBand)>>
<1>1. CASE AnswerErr(l) # NoError
  <2>1. Fail(h, AnswerErr(l)) BY <1>1 DEF AnswerQuestion
  <2> QED BY <2>1, FailSerial
<1>2. CASE AnswerErr(l) = NoError
  <2>1. Saved(l) /\ s0.state = "WaitForAnswer" BY <1>2 DEF AnswerErr, LoadErr, NoError
  <2>2. s0 \in Session /\ Sound(s0) BY <2>1, SavedSound
  <2>3. a \in STRING
    BY RequestsType DEF AnswerQuestion, IInv, HandlerSound, Calling, Request
  <2>4. \/ s.state = "Mastered" /\ ThenSave(h, r, p)
        \/ s.state = "AwaitingTransferCheck" /\ AskTransfer(h, r)
        \/ s.state = "Incorrect" /\ AskNext(h, n, NeedsExplanation(n))
        \/ s.state = "Uncertain" /\ AskNext(h, r, TRUE)
    BY <1>2 DEF AnswerQuestion
  <2>5. s = CheckAnswer(SubmitAnswer(s0, a)) BY DEF Checked
  <2> HIDE DEF s
  <2>6. /\ s \in Session /\ s.subject = s0.subject /\ s.topic = s0.topic
        /\ IF s.state = "Mastered"
           THEN /\ s0.isTransferQuestion
                /\ s.masteryBySubject = s0.masteryBySubject \cup {masteryKey(s0)}
           ELSE s.masteryBySubject = s0.masteryBySubject
    BY <2>1, <2>2, <2>3, <2>5, CheckedFields
  <2>7. s.state = "AwaitingTransferCheck" => ~s0.isTransferQuestion
    BY <2>2, <2>3, <2>5, CheckedTransfer
  <2>8. /\ r \in Session /\ r.subject = s.subject /\ r.topic = s.topic
        /\ r.masteryBySubject = s.masteryBySubject /\ r.state = s.state
        /\ n \in Session /\ n.subject = s.subject /\ n.topic = s.topic
        /\ n.masteryBySubject = s.masteryBySubject
    BY <2>6, ResetWrongStreakType, NoteIncorrectAttemptType
    DEF ResetWrongStreak, NoteIncorrectAttempt, Session
  <2>9. NeedsExplanation(n) \in BOOLEAN BY DEF NeedsExplanation
  <2> HIDE DEF r, n, p
  <2>10. CASE s.state = "Mastered"
    <3>1. ThenSave(h, r, p) BY <2>4, <2>10
    <3>2. StageOf(s0) = "verify" BY <2>1, <2>6, <2>10 DEF StageOf
    <3>3. StageOf(r) = "mastered" BY <2>8, <2>10 DEF StageOf
    <3>4. masteryKey(r) = masteryKey(s0) BY <2>6, <2>8 DEF masteryKey
    <3>5. r.masteryBySubject = s0.masteryBySubject \cup {masteryKey(s0)}
      BY <2>6, <2>8, <2>10
    <3>6. Offered(s0) BY <2>1 DEF FreeInv, Saved
    <3>7. Offered(r) BY <2>6, <2>8, <3>6 DEF Offered
    <3> HIDE DEF s0
    <3>8. LoopAllows(StageOf(s0), masteryKey(s0), s0.masteryBySubject, r)
      BY <3>2, <3>3, <3>4, <3>5 DEF LoopAllows
    <3>9. Follows(req[h], r) BY <2>1, <3>7, <3>8, FollowsSaved DEF s0
    <3> QED BY <3>1, <3>9, ThenSaveSerial
  <2>11. CASE s.state = "AwaitingTransferCheck"
    <3>1. AskTransfer(h, r) BY <2>4, <2>11
    <3>2. StageOf(s0) = "practice" BY <2>1, <2>7, <2>11 DEF StageOf
    <3> QED BY <2>1, <2>6, <2>8, <2>11, <3>1, <3>2, AskTransferSerial
  <2>12. CASE s.state = "Incorrect"
    BY <2>1, <2>4, <2>6, <2>8, <2>9, <2>12, AskNextSerial
  <2>13. CASE s.state = "Uncertain"
    BY <2>1, <2>4, <2>6, <2>8, <2>13, AskNextSerial
  <2> QED BY <2>4, <2>10, <2>11, <2>12, <2>13
<1> QED BY <1>1, <1>2

(* A change of the grade band leaves the learner where it is               *)
(* (SetGradeBand).                                                         *)
LEMMA ChangeGradeBandSerial ==
  ASSUME IInv, FreeInv, NEW h \in Handlers, ChangeGradeBand(h)
  PROVE  HandlerSerial(h)'
<1> DEFINE l == req[h].learner
           s0 == store[l]
           s == SetGradeBand(s0, req[h].gradeBand)
           p == <<>>
<1>1. (\E e : Fail(h, e)) \/ (Saved(l) /\ ThenSave(h, s, p)) BY DEF ChangeGradeBand
<1>2. CASE Saved(l) /\ ThenSave(h, s, p)
  <2>1. s0 \in Session BY <1>2, SavedSound
  <2>2. Offered(s0) BY <1>2 DEF FreeInv, Saved
  <2>3. /\ s.subject = s0.subject /\ s.topic = s0.topic /\ s.state = s0.state
        /\ s.masteryBySubject = s0.masteryBySubject
        /\ s.isTransferQuestion = s0.isTransferQuestion
    BY <2>1 DEF SetGradeBand, Session
  <2> HIDE DEF s, p
  <2>4. Offered(s) BY <2>2, <2>3 DEF Offered
  <2>5. StageOf(s) = StageOf(s0) /\ masteryKey(s) = masteryKey(s0)
    BY <2>3 DEF StageOf, masteryKey
  <2>6. LoopAllows(StageOf(s0), masteryKey(s0), s0.masteryBySubject, s)
    BY <2>3, <2>5 DEF LoopAllows
  <2>7. Follows(req[h], s) BY <1>2, <2>3, <2>4, <2>6, FollowsSaved
  <2> QED BY <1>2, <2>7, ThenSaveSerial
<1> QED BY <1>1, <1>2, FailSerial

(* The report tells of no state (DiagnosticReport). *)
LEMMA DiagnosticReportSerial ==
  ASSUME IInv, FreeInv, NEW h \in Handlers, DiagnosticReport(h)
  PROVE  HandlerSerial(h)'
<1>1. CASE \E e : Fail(h, e) BY <1>1, FailSerial
<1>2. CASE ~\E e : Fail(h, e)
  <2>1. pc'[h] = "done" /\ out'[h].state = out[h].state
    BY <1>2 DEF DiagnosticReport, Goto, IInv, TypeOK, Reply
  <2>2. out[h].state = "no state" BY DEF DiagnosticReport, FreeInv, HandlerFree
  <2> QED BY <2>1, <2>2 DEF HandlerSerial, Calling
<1> QED BY <1>1, <1>2

(* The session resumed tells of the state read (ResumeSession). *)
LEMMA ResumeSessionSerial ==
  ASSUME IInv, FreeInv, NEW h \in Handlers, ResumeSession(h)
  PROVE  HandlerSerial(h)'
<1> DEFINE l == req[h].learner
<1>1. CASE \E e : Fail(h, e) BY <1>1, FailSerial
<1>2. CASE ~\E e : Fail(h, e)
  <2>1. /\ Saved(l) /\ pc'[h] = "done" /\ work'[h] = store[l]
        /\ out'[h].state = stateName(store[l].state)
        /\ store' = store /\ req'[h] = req[h]
    BY <1>2 DEF ResumeSession, Goto, IInv, TypeOK, Reply, files
  <2> QED BY <2>1 DEF HandlerSerial, Calling, Saved
<1> QED BY <1>1, <1>2

(* A Save that goes through leaves in the store what the handler holds.    *)
LEMMA SaveSerial ==
  ASSUME IInv, FreeInv, NEW h \in Handlers, Save(h)
  PROVE  HandlerSerial(h)'
<1> DEFINE l == req[h].learner
<1>1. /\ pc'[h] \in {"done", "respond"} /\ work'[h] = work[h] /\ req'[h] = req[h]
      /\ out'[h] = out[h]
  BY DEF Save, Goto, IInv, TypeOK
<1>2. out[h].state = "no state" BY DEF Save, FreeInv, HandlerFree
<1>3. work[h].learnerName = l BY DEF Save, IInv, HandlerSound, Calling
<1>4. l \in DOMAIN store' /\ store'[l] = work[h] BY <1>3 DEF Save, Put
<1> QED BY <1>1, <1>2, <1>4 DEF HandlerSerial, Calling, Saved

(* The reply tells the state found saved: the one the handler saved or     *)
(* read (respondAction).                                                   *)
LEMMA RespondSerial ==
  ASSUME IInv, SerialInv, NEW h \in Handlers, Respond(h)
  PROVE  HandlerSerial(h)'
<1> DEFINE l == req[h].learner
<1>1. Saved(l) /\ work[h] = store[l]
  BY DEF Respond, SerialInv, HandlerSerial
<1>2. /\ pc'[h] = "done" /\ work'[h] = work[h] /\ req'[h] = req[h] /\ store' = store
      /\ out'[h].state = stateName(store[l].state)
  BY <1>1 DEF Respond, Goto, IInv, TypeOK, Reply, files
<1> QED BY <1>1, <1>2 DEF HandlerSerial, Calling, Saved

(* The steps that end in an error, and the end of the goroutine. *)
LEMMA EndSerial ==
  ASSUME IInv, FreeInv, NEW h \in Handlers,
         ProviderFails(h) \/ LoadFails(h) \/ SaveFails(h) \/ Finish(h)
  PROVE  HandlerSerial(h)'
<1>1. CASE ProviderFails(h) \/ LoadFails(h)
  BY <1>1, FailSerial DEF ProviderFails, LoadFails
<1>2. CASE SaveFails(h)
  <2>1. pc'[h] = "done" /\ out'[h].state = "no state"
    BY <1>2 DEF SaveFails, Goto, IInv, TypeOK, NoReply
  <2> QED BY <2>1 DEF HandlerSerial, Calling
<1>3. CASE Finish(h)
  <2>1. pc'[h] = "idle" /\ out'[h].state = "no state"
    BY <1>3 DEF Finish, Goto, IInv, TypeOK, NoReply
  <2> QED BY <2>1 DEF HandlerSerial, Calling
<1> QED BY <1>1, <1>2, <1>3

-----------------------------------------------------------------------------
(* The other handlers. *)

(* What a step of g leaves of the other handlers, and of g's request.      *)
Elsewhere(g) ==
  /\ \A h \in Handlers \ {g} :
       pc'[h] = pc[h] /\ req'[h] = req[h] /\ work'[h] = work[h] /\ out'[h] = out[h]
  /\ pc[g] # "idle" /\ (pc'[g] = "idle" \/ req'[g] = req[g])

(* A handler's step is its own. *)
LEMMA StepsAreOwn ==
  ASSUME IInv, NEW g \in Handlers, HandlerStep(g)
  PROVE  Elsewhere(g)
<1> USE DEF Goto, IInv, TypeOK
<1>1. \A e : pc[g] # "idle" /\ Fail(g, e) => Elsewhere(g) BY DEF Fail, Elsewhere
<1>2. \A s, p : pc[g] # "idle" /\ ThenSave(g, s, p) => Elsewhere(g)
  BY DEF ThenSave, Elsewhere
<1>3. CASE BeginTopic(g) BY <1>1, <1>2, <1>3 DEF BeginTopic
<1>4. CASE ApplyInput(g) BY <1>1, <1>4 DEF ApplyInput, Elsewhere
<1>5. CASE Stop(g) BY <1>1, <1>2, <1>5 DEF Stop, Elsewhere
<1>6. \A s : pc[g] # "idle" /\ AskFirst(g, s) => Elsewhere(g) BY <1>1, <1>2 DEF AskFirst
<1>7. CASE SubmitDiagnosis(g) BY <1>1, <1>6, <1>7 DEF SubmitDiagnosis, Elsewhere
<1>8. CASE ProviderAnswers(g) BY <1>1, <1>6, <1>8 DEF ProviderAnswers, Calling
<1>9. CASE AnswerQuestion(g) BY <1>1, <1>2, <1>9 DEF AnswerQuestion, AskNext, AskTransfer
<1>10. CASE ChangeGradeBand(g) BY <1>1, <1>2, <1>10 DEF ChangeGradeBand
<1>11. CASE DiagnosticReport(g) \/ ResumeSession(g) \/ Respond(g)
  BY <1>1, <1>11 DEF DiagnosticReport, ResumeSession, Respond, Elsewhere
<1>12. CASE ProviderFails(g) \/ LoadFails(g)
  BY <1>1, <1>12 DEF ProviderFails, LoadFails, Calling, Loading
<1>13. CASE Save(g) \/ SaveFails(g) \/ Finish(g) \/ ProviderRefusesJSONMode(g)
  BY <1>13 DEF Save, SaveFails, Finish, ProviderRefusesJSONMode, Elsewhere
<1> QED BY <1>3, <1>4, <1>5, <1>7, <1>8, <1>9, <1>10, <1>11, <1>12, <1>13
        DEF HandlerStep, Proceed, Serve

(* Until its reply is written a handler keeps its request. *)
LEMMA RequestStays ==
  ASSUME NEW g \in Handlers, HandlerStep(g), ~Finish(g)
  PROVE  req' = req
<1>1. \A e : Fail(g, e) => req' = req BY DEF Fail
<1>2. \A s, p : ThenSave(g, s, p) => req' = req BY DEF ThenSave
<1>3. \A s : AskFirst(g, s) => req' = req BY <1>1, <1>2 DEF AskFirst
<1>4. CASE BeginTopic(g) \/ ApplyInput(g) \/ Stop(g) \/ ChangeGradeBand(g)
  BY <1>1, <1>2, <1>4 DEF BeginTopic, ApplyInput, Stop, ChangeGradeBand
<1>5. CASE SubmitDiagnosis(g) \/ ProviderAnswers(g)
  BY <1>1, <1>3, <1>5 DEF SubmitDiagnosis, ProviderAnswers
<1>6. CASE AnswerQuestion(g) BY <1>1, <1>2, <1>6 DEF AnswerQuestion, AskNext, AskTransfer
<1>7. CASE DiagnosticReport(g) \/ ResumeSession(g) \/ Respond(g) \/ ProviderFails(g)
           \/ LoadFails(g)
  BY <1>1, <1>7 DEF DiagnosticReport, ResumeSession, Respond, ProviderFails, LoadFails
<1>8. CASE Save(g) \/ SaveFails(g) \/ ProviderRefusesJSONMode(g)
  BY <1>8 DEF Save, SaveFails, ProviderRefusesJSONMode
<1> QED BY <1>4, <1>5, <1>6, <1>7, <1>8 DEF HandlerStep, Proceed, Serve

(* A request that arrives gets a handler that had none (Arrive). *)
LEMMA ArrivalIsOwn ==
  ASSUME IInv, NEW g \in Handlers, Arrive(g)
  PROVE  \A h \in Handlers \ {g} :
           pc'[h] = pc[h] /\ req'[h] = req[h] /\ work'[h] = work[h] /\ out'[h] = out[h]
  BY DEF Arrive, Goto, IInv, TypeOK

(* The step leaves alone what is saved of another busy handler's learner:  *)
(* no handler but that one could have written it.                          *)
LEMMA BusyUntouched ==
  ASSUME IInv, SerialInv, [Next]_vars, NEW h \in Handlers,
         pc[h] # "idle", pc'[h] = pc[h], Writer(h)
  PROVE  Untouched(req[h].learner)
<1> SUFFICES ASSUME ~Untouched(req[h].learner) PROVE FALSE OBVIOUS
<1>1. PICK k \in Handlers :
        pc[k] = "save" /\ pc'[k] # "save" /\ req[k].learner = req[h].learner
  BY OwnSaves
<1>2. Writer(k) BY <1>1 DEF SerialInv, FreeInv, ReadersRead
<1>3. k = h BY <1>1, <1>2 DEF SerialInv, Alone
<1> QED BY <1>1, <1>3

(* So the handlers that do not move still work on what is saved. *)
LEMMA OthersSerial ==
  ASSUME IInv, SerialInv, [Next]_vars, NEW h \in Handlers,
         pc'[h] = pc[h], req'[h] = req[h], work'[h] = work[h], out'[h] = out[h]
  PROVE  HandlerSerial(h)'
<1>1. HandlerSerial(h) BY DEF SerialInv
<1>2. CASE pc[h] = "idle" BY <1>1, <1>2 DEF HandlerSerial, Calling
<1>3. CASE pc[h] # "idle" /\ Writer(h)
  <2>1. Untouched(req[h].learner) BY <1>3, BusyUntouched
  <2>2. Follows(req[h], work[h]) => Follows(req[h], work[h])'
    BY <2>1 DEF Untouched, Follows, StageAt, KeyAt, MasteredBy, Saved
  <2> QED BY <1>1, <2>1, <2>2 DEF HandlerSerial, Calling, Untouched, Writer
<1>4. CASE ~Writer(h)
  <2>1. pc[h] \in {"report", "resume", "done"} BY <1>4 DEF SerialInv, FreeInv, ReadersRead
  <2>2. ~Writer(h)' BY <1>4 DEF Writer
  <2> QED BY <1>1, <2>1, <2>2 DEF HandlerSerial, Calling
<1> QED BY <1>2, <1>3, <1>4

-----------------------------------------------------------------------------
(* The invariant holds at first, and every step keeps it. *)

(* No handler works at first. *)
LEMMA InitSerial == Init => SerialInv
<1> SUFFICES ASSUME Init PROVE SerialInv OBVIOUS
<1>1. Alone /\ ReadersRead BY DEF Init, Alone, ReadersRead, Writer, NoRequest
<1>2. DOMAIN store = {} BY DEF Init
<1>3. ASSUME NEW h \in Handlers PROVE HandlerSerial(h) /\ HandlerFree(h)
  <2>1. pc[h] = "idle" /\ out[h].state = "no state" BY DEF Init, NoReply
  <2> QED BY <2>1 DEF HandlerSerial, HandlerFree, Calling
<1>4. FreeInv BY <1>1, <1>2, <1>3 DEF FreeInv
<1> QED BY <1>1, <1>3, <1>4 DEF SerialInv

(* A learner gets a handler only when it has none (OneAtATime). *)
LEMMA StaysAlone ==
  ASSUME OneAtATime, IInv, Alone, [Next]_vars
  PROVE  Alone'
<1>1. ASSUME NEW g \in Handlers, Arrive(g) PROVE Alone'
  <2>1. PICK r \in Requests : /\ pc[g] = "idle" /\ ~Busy(r.learner)
                             /\ req' = [req EXCEPT ![g] = r]
    BY <1>1 DEF Arrive
  <2>2. req'[g] = r BY <2>1 DEF IInv, TypeOK
  <2>3. \A h \in Handlers \ {g} : pc'[h] = pc[h] /\ req'[h] = req[h]
    BY <1>1, ArrivalIsOwn
  <2>4. \A h \in Handlers \ {g} : pc'[h] # "idle" => req'[h].learner # r.learner
    BY <2>1, <2>3 DEF Busy
  <2> QED BY <2>2, <2>3, <2>4 DEF Alone, Writer
<1>2. ASSUME NEW g \in Handlers, HandlerStep(g) PROVE Alone'
  <2>1. Elsewhere(g) BY <1>2, StepsAreOwn
  <2>2. \A h \in Handlers : pc'[h] # "idle" => pc[h] # "idle" /\ req'[h] = req[h]
    BY <2>1 DEF Elsewhere
  <2> QED BY <2>2 DEF Alone, Writer
<1>3. CASE Crash BY <1>3 DEF Crash, Alone
<1>4. CASE UNCHANGED vars BY <1>4 DEF vars, Alone, Writer
<1> QED BY <1>1, <1>2, <1>3, <1>4 DEF Next

(* A request to read only is never about to save (DiagnosticReport,        *)
(* ResumeSession).                                                         *)
LEMMA ReadersStay ==
  ASSUME IInv, ReadersRead, [Next]_vars
  PROVE  ReadersRead'
<1> USE DEF Goto, IInv, TypeOK
<1>1. ASSUME NEW g \in Handlers, Arrive(g) PROVE ReadersRead'
  <2>1. PICK r \in Requests :
          /\ req' = [req EXCEPT ![g] = r]
          /\ pc' \in {[pc EXCEPT ![g] = r.kind], [pc EXCEPT ![g] = "done"]}
    BY <1>1 DEF Arrive
  <2>2. req'[g] = r /\ pc'[g] \in {r.kind, "done"} BY <2>1
  <2>3. r.kind \in Kinds BY RequestsType DEF Request
  <2>4. \A h \in Handlers \ {g} : pc'[h] = pc[h] /\ req'[h] = req[h]
    BY <1>1, ArrivalIsOwn
  <2> QED BY <2>2, <2>3, <2>4 DEF ReadersRead, Writer, Kinds
<1>2. ASSUME NEW g \in Handlers, HandlerStep(g) PROVE ReadersRead'
  <2>1. Elsewhere(g) BY <1>2, StepsAreOwn
  <2>2. CASE Writer(g)
    <3>1. Writer(g)'
      <4>1. CASE Finish(g)
        <5>1. req'[g] = NoRequest BY <4>1 DEF Finish
        <5> QED BY <5>1 DEF Writer, NoRequest
      <4>2. CASE ~Finish(g)
        <5>1. req'[g] = req[g] BY <1>2, <4>2, RequestStays
        <5> QED BY <2>2, <5>1 DEF Writer
      <4> QED BY <4>1, <4>2
    <3> QED BY <2>1, <3>1 DEF ReadersRead, Elsewhere, Writer
  <2>3. CASE ~Writer(g)
    <3>1. pc[g] \in {"report", "resume", "done"} BY <2>3 DEF ReadersRead
    <3>2. CASE Finish(g)
      <4>1. req'[g] = NoRequest BY <3>2 DEF Finish
      <4>2. Writer(g)' BY <4>1 DEF Writer, NoRequest
      <4> QED BY <2>1, <4>2 DEF ReadersRead, Elsewhere, Writer
    <3>3. CASE DiagnosticReport(g) \/ ResumeSession(g) \/ LoadFails(g)
      <4>1. pc'[g] = "done" BY <3>3 DEF DiagnosticReport, ResumeSession, LoadFails, Fail
      <4> QED BY <2>1, <4>1 DEF ReadersRead, Elsewhere, Writer
    <3> QED BY <1>2, <3>1, <3>2, <3>3
        DEF HandlerStep, Proceed, Serve, BeginTopic, ApplyInput, Stop, SubmitDiagnosis,
            ProviderRefusesJSONMode, ProviderAnswers, ProviderFails, Calling, AnswerQuestion,
            ChangeGradeBand, Save, Respond, SaveFails
  <2> QED BY <2>2, <2>3
<1>3. CASE Crash BY <1>3 DEF Crash, ReadersRead, Writer, NoRequest
<1>4. CASE UNCHANGED vars BY <1>4 DEF vars, ReadersRead, Writer
<1> QED BY <1>1, <1>2, <1>3, <1>4 DEF Next

(* What is saved is a topic offered. *)
LEMMA SavedOffered ==
  ASSUME IInv, FreeInv, [Next]_vars, NEW l \in DOMAIN store'
  PROVE  Offered(store[l])'
<1>1. CASE UNCHANGED files BY <1>1 DEF files, FreeInv, Offered
<1>2. CASE ~UNCHANGED files
  <2>1. PICK h \in Handlers : /\ pc[h] = "save" /\ pc'[h] # "save"
                              /\ Put(work[h]) \/ Tear(work[h])
    BY <1>2, FilesChange
  <2>2. Offered(work[h]) BY <2>1 DEF FreeInv, HandlerFree
  <2>3. store'[l] = work[h] \/ (l \in DOMAIN store /\ store'[l] = store[l])
    BY <2>1 DEF Put, Tear
  <2> QED BY <2>2, <2>3 DEF FreeInv, Offered
<1> QED BY <1>1, <1>2

(* A handler that works on what is saved keeps to a topic offered.         *)
LEMMA SerialIsFree ==
  ASSUME NEW h \in Handlers, HandlerSerial(h)',
         \A l \in DOMAIN store' : Offered(store[l])'
  PROVE  HandlerFree(h)'
<1>1. Calling(h)' => Offered(work[h])'
  BY DEF HandlerSerial, Saved, Offered
<1>2. pc'[h] = "save" => Offered(work[h])' BY DEF HandlerSerial, Follows
<1> QED BY <1>1, <1>2 DEF HandlerSerial, HandlerFree

(* The provider answers about a session that may have been replaced since  *)
(* (ProviderAnswers).                                                      *)
LEMMA ProviderAnswersFree ==
  ASSUME IInv, FreeInv, NEW h \in Handlers, ProviderAnswers(h)
  PROVE  HandlerFree(h)'
<1>1. PICK result \in ProviderResults :
        (\E e : Fail(h, e)) \/ AskFirst(h, RecordDiagnosticResult(work[h], result))
  BY DEF ProviderAnswers
<1> DEFINE s == RecordDiagnosticResult(work[h], result)
           t == RecordDiagnosticResponse(s, req[h].input)
           q == firstPracticeQuestion(s.topic, s.gradeBand)
           u == AskQuestion(t, q.question, q.expectedAnswer)
           p == <<q.question>>
<1>2. work[h] \in Session /\ Offered(work[h]) /\ req[h].input \in STRING
  BY RequestsType
  DEF ProviderAnswers, IInv, TypeOK, HandlerSound, Calling, FreeInv, HandlerFree, Request
<1>3. s \in Session /\ s.subject = work[h].subject /\ s.topic = work[h].topic
  BY <1>2, ProviderType, RecordDiagnosticResultType DEF RecordDiagnosticResult, Session
<1>4. (\E e : Fail(h, e)) \/ ThenSave(h, u, p) BY <1>1 DEF AskFirst
<1>5. t \in Session /\ t.subject = work[h].subject /\ t.topic = work[h].topic
  <2> HIDE DEF s
  <2> QED BY <1>2, <1>3, RecordDiagnosticResponseType DEF RecordDiagnosticResponse, Session
<1> HIDE DEF s, t, q
<1>6. u.subject = work[h].subject /\ u.topic = work[h].topic
  BY <1>5, PracticePosed
<1> HIDE DEF u, p
<1>7. CASE \E e : Fail(h, e)
  <2>1. pc'[h] = "done" /\ out'[h].state = "no state"
    BY <1>7 DEF Fail, Goto, IInv, TypeOK, NoReply
  <2> QED BY <2>1 DEF HandlerFree, Calling
<1>8. CASE ThenSave(h, u, p)
  <2>1. pc'[h] = "save" /\ work'[h] = u /\ out'[h].state = "no state"
    BY <1>8 DEF ThenSave, Goto, IInv, TypeOK, NoReply
  <2>2. Offered(work[h])' BY <1>2, <1>6, <2>1 DEF Offered
  <2> QED BY <2>1, <2>2 DEF HandlerFree, Calling
<1> QED BY <1>4, <1>7, <1>8

(* It refuses its JSON mode, and a handler replies after its save          *)
(* (ProviderRefusesJSONMode, Respond).                                     *)
LEMMA OtherStepsFree ==
  ASSUME IInv, FreeInv, NEW h \in Handlers, ProviderRefusesJSONMode(h) \/ Respond(h)
  PROVE  HandlerFree(h)'
<1>1. HandlerFree(h) BY DEF FreeInv
<1>2. CASE ProviderRefusesJSONMode(h)
  <2>1. pc[h] = "provider" /\ pc'[h] = "retry" /\ work' = work /\ out' = out
    BY <1>2 DEF ProviderRefusesJSONMode, Goto, IInv, TypeOK
  <2> QED BY <1>1, <2>1 DEF HandlerFree, Calling, Offered
<1>3. CASE Respond(h)
  <2>1. Writer(h) BY <1>3 DEF Respond, FreeInv, ReadersRead
  <2>2. pc'[h] = "done" /\ req' = req
    BY <1>3 DEF Respond, Fail, Goto, IInv, TypeOK
  <2> QED BY <2>1, <2>2 DEF HandlerFree, Calling, Writer
<1> QED BY <1>2, <1>3

(* The step of a handler, however many others there are. *)
LEMMA StepFree ==
  ASSUME IInv, FreeInv, [Next]_vars, NEW h \in Handlers, Arrive(h) \/ HandlerStep(h)
  PROVE  HandlerFree(h)'
<1>1. CASE ProviderAnswers(h) \/ ProviderRefusesJSONMode(h) \/ Respond(h)
  BY <1>1, ProviderAnswersFree, OtherStepsFree
<1>2. CASE ~(ProviderAnswers(h) \/ ProviderRefusesJSONMode(h) \/ Respond(h))
  <2>1. HandlerSerial(h)'
    BY <1>2, ArriveSerial, BeginTopicSerial, ApplyInputSerial, StopSerial,
       SubmitDiagnosisSerial, AnswerQuestionSerial, ChangeGradeBandSerial,
       DiagnosticReportSerial, ResumeSessionSerial, SaveSerial, EndSerial
    DEF HandlerStep, Proceed, Serve
  <2> QED BY <2>1, SavedOffered, SerialIsFree
<1> QED BY <1>1, <1>2

(* Every step keeps to the topics offered, whoever sends what when.        *)
LEMMA NextFree ==
  ASSUME IInv, FreeInv, [Next]_vars
  PROVE  FreeInv'
<1>1. ReadersRead' BY ReadersStay DEF FreeInv
<1>2. \A l \in DOMAIN store' : Offered(store[l])' BY SavedOffered
<1>3. ASSUME NEW h \in Handlers PROVE HandlerFree(h)'
  <2>1. ASSUME pc'[h] = pc[h], req'[h] = req[h], work'[h] = work[h], out'[h] = out[h]
        PROVE  HandlerFree(h)'
    <3>1. HandlerFree(h) BY DEF FreeInv
    <3> QED BY <2>1, <3>1 DEF HandlerFree, Calling, Offered, Writer
  <2>2. ASSUME NEW g \in Handlers, Arrive(g) PROVE HandlerFree(h)'
    BY <2>1, <2>2, StepFree, ArrivalIsOwn
  <2>3. ASSUME NEW g \in Handlers, HandlerStep(g) PROVE HandlerFree(h)'
    BY <2>1, <2>3, StepFree, StepsAreOwn DEF Elsewhere
  <2>4. CASE Crash
    <3>1. pc'[h] = "idle" /\ out'[h].state = "no state" BY <2>4 DEF Crash, NoReply
    <3> QED BY <3>1 DEF HandlerFree, Calling
  <2>5. CASE UNCHANGED vars BY <2>1, <2>5 DEF vars
  <2> QED BY <2>2, <2>3, <2>4, <2>5 DEF Next
<1> QED BY <1>1, <1>2, <1>3 DEF FreeInv

(* As long as no learner gets a second handler that may save, each works   *)
(* on what is saved of its learner.                                        *)
LEMMA NextSerial ==
  ASSUME IInv, SerialInv, [Next]_vars, Alone'
  PROVE  SerialInv'
<1>1. FreeInv /\ FreeInv' BY NextFree DEF SerialInv
<1>2. ASSUME NEW h \in Handlers PROVE HandlerSerial(h)'
  <2>1. ASSUME NEW g \in Handlers, Arrive(g) PROVE HandlerSerial(h)'
    <3>1. CASE g = h BY <1>1, <2>1, <3>1, ArriveSerial
    <3>2. CASE g # h BY <2>1, <3>2, ArrivalIsOwn, OthersSerial
    <3> QED BY <3>1, <3>2
  <2>2. ASSUME NEW g \in Handlers, HandlerStep(g) PROVE HandlerSerial(h)'
    <3>1. CASE g = h
      BY <1>1, <2>2, <3>1, BeginTopicSerial, ApplyInputSerial, StopSerial,
         SubmitDiagnosisSerial, ProviderRefusesSerial, ProviderAnswersSerial,
         AnswerQuestionSerial, ChangeGradeBandSerial, DiagnosticReportSerial,
         ResumeSessionSerial, SaveSerial, RespondSerial, EndSerial
      DEF HandlerStep, Proceed, Serve
    <3>2. CASE g # h
      <4>1. Elsewhere(g) BY <2>2, StepsAreOwn
      <4> QED BY <3>2, <4>1, OthersSerial DEF Elsewhere
    <3> QED BY <3>1, <3>2
  <2>3. CASE Crash
    <3>1. pc'[h] = "idle" /\ out'[h].state = "no state" BY <2>3 DEF Crash, NoReply
    <3> QED BY <3>1 DEF HandlerSerial, Calling
  <2>4. CASE UNCHANGED vars BY <2>4, OthersSerial DEF vars
  <2> QED BY <2>1, <2>2, <2>3, <2>4 DEF Next
<1> QED BY <1>1, <1>2 DEF SerialInv

(* A request that arrives when no handler may save finds the store at      *)
(* rest, whatever the handlers before it did to one another (Arrive).      *)
LEMMA FirstSerial ==
  ASSUME IInv, FreeInv, NEW h \in Handlers, Arrive(h),
         \A g \in Handlers : pc[g] # "idle" => ~Writer(g)
  PROVE  SerialInv'
<1>1. FreeInv' BY NextFree DEF Next
<1>2. \A g \in Handlers \ {h} :
        pc'[g] = pc[g] /\ req'[g] = req[g] /\ work'[g] = work[g] /\ out'[g] = out[g]
  BY ArrivalIsOwn
<1>3. Alone' BY <1>2 DEF Alone, Writer
<1>4. HandlerSerial(h)' BY ArriveSerial
<1>5. ASSUME NEW g \in Handlers \ {h} PROVE HandlerSerial(g)'
  <2>1. HandlerFree(g)' BY <1>1 DEF FreeInv
  <2>2. CASE pc'[g] = "idle" BY <2>1, <2>2 DEF HandlerSerial, HandlerFree, Calling
  <2>3. CASE pc'[g] # "idle"
    <3>1. ~Writer(g)' BY <1>2, <2>3 DEF Writer
    <3>2. pc'[g] \in {"report", "resume", "done"} BY <1>1, <3>1 DEF FreeInv, ReadersRead
    <3> QED BY <2>1, <3>1, <3>2 DEF HandlerSerial, HandlerFree, Calling
  <2> QED BY <2>2, <2>3
<1> QED BY <1>1, <1>3, <1>4, <1>5 DEF SerialInv

(* Learners that wait for each reply keep the invariant (Arrive).          *)
LEMMA AlwaysSerial == ASSUME OneAtATime PROVE Spec => [](IInv /\ SerialInv)
<1>1. IInv /\ SerialInv /\ [Next]_vars => SerialInv'
  BY StaysAlone, NextSerial DEF SerialInv
<1> QED BY <1>1, AlwaysSound, InitSerial, PTL DEF Spec

-----------------------------------------------------------------------------
(* What a learner that waits for its replies is promised. *)

(* The state a reply carries is the state of the session it saved or read, *)
(* though it is loaded once more before the reply is written               *)
(* (respondAction).                                                        *)
THEOREM RepliesAgree == ASSUME OneAtATime PROVE Spec => []ReplyAgrees
<1>1. IInv /\ SerialInv => ReplyAgrees BY DEF SerialInv, HandlerSerial, ReplyAgrees
<1> QED BY <1>1, AlwaysSerial, PTL

(* What changes the files, unless a write is interrupted and tears one.    *)
LEMMA SavesFollow ==
  ASSUME IInv, SerialInv, [Next]_vars, ~UNCHANGED files,
         \A h \in Handlers : ~Tear(work[h])
  PROVE  \E h \in Handlers : /\ pc[h] = "save" /\ pc'[h] # "save"
                             /\ req[h].learner \in Learners
                             /\ work[h] \in Session /\ Sound(work[h])
                             /\ Follows(req[h], work[h])
                             /\ store' = [l \in DOMAIN store \cup {req[h].learner} |->
                                            IF l = req[h].learner THEN work[h] ELSE store[l]]
<1>1. PICK h \in Handlers : /\ pc[h] = "save" /\ pc'[h] # "save"
                            /\ Put(work[h]) \/ Tear(work[h])
  BY FilesChange
<1>2. Put(work[h]) BY <1>1
<1>3. /\ work[h] \in Session /\ Sound(work[h])
      /\ work[h].learnerName = req[h].learner /\ req[h].learner \in Learners
  BY <1>1 DEF IInv, TypeOK, HandlerSound, Calling, Learners
<1>4. Follows(req[h], work[h]) BY <1>1 DEF SerialInv, HandlerSerial
<1>5. store' = [l \in DOMAIN store \cup {req[h].learner} |->
                  IF l = req[h].learner THEN work[h] ELSE store[l]]
  BY <1>2, <1>3 DEF Put
<1> QED BY <1>1, <1>3, <1>4, <1>5

(* No mastery on record is lost (masteryBySubject, Stop, BeginTopic). *)
THEOREM MasteryIsKept == ASSUME OneAtATime, ~WritesTear PROVE Spec => MasteryKept
<1>0. \A h \in Handlers : ~Tear(work[h]) BY DEF Tear
<1>1. ASSUME IInv, SerialInv, [Next]_vars, NEW l \in DOMAIN store
      PROVE  /\ l \in DOMAIN store'
             /\ store[l].masteryBySubject \subseteq store'[l].masteryBySubject
  <2>1. CASE UNCHANGED files BY <1>1, <2>1 DEF files
  <2>2. CASE ~UNCHANGED files
    <3>1. PICK h \in Handlers :
            /\ Follows(req[h], work[h])
            /\ store' = [k \in DOMAIN store \cup {req[h].learner} |->
                           IF k = req[h].learner THEN work[h] ELSE store[k]]
      BY <1>0, <1>1, <2>2, SavesFollow
    <3>2. l = req[h].learner =>
            store[l].masteryBySubject \subseteq work[h].masteryBySubject
      BY <1>1, <3>1 DEF Follows, LoopAllows, MasteredBy, Saved
    <3> QED BY <1>1, <3>1, <3>2
  <2> QED BY <2>1, <2>2
<1>2. IInv /\ SerialInv /\ [Next]_vars =>
        [\A l \in DOMAIN store :
           l \in DOMAIN store'
             /\ store[l].masteryBySubject \subseteq store'[l].masteryBySubject]_vars
  BY <1>1
<1> QED BY <1>2, AlwaysSerial, PTL DEF Spec, MasteryKept

(* A stop lasts until the learner begins a topic again (Stop). *)
THEOREM StopLasts == ASSUME OneAtATime, ~WritesTear PROVE Spec => StoppedStaysStopped
<1>0. \A h \in Handlers : ~Tear(work[h]) BY DEF Tear
<1>1. ASSUME IInv, SerialInv, [Next]_vars, NEW l \in DOMAIN store,
             store[l].state = "Idle", store'[l].state # "Idle"
      PROVE  \E h \in Handlers : pc[h] = "save" /\ pc'[h] # "save" /\ req[h].kind = "begin"
  <2>1. ~UNCHANGED files BY <1>1 DEF files
  <2>2. PICK h \in Handlers :
          /\ pc[h] = "save" /\ pc'[h] # "save"
          /\ Follows(req[h], work[h])
          /\ store' = [k \in DOMAIN store \cup {req[h].learner} |->
                         IF k = req[h].learner THEN work[h] ELSE store[k]]
    BY <1>0, <1>1, <2>1, SavesFollow
  <2>3. l = req[h].learner /\ store'[l] = work[h] BY <1>1, <2>2
  <2>4. req[h].kind = "begin" BY <1>1, <2>2, <2>3 DEF Follows
  <2> QED BY <2>2, <2>4
<1>2. IInv /\ SerialInv /\ [Next]_vars =>
        [\A l \in DOMAIN store :
           store[l].state = "Idle" /\ store'[l].state # "Idle" =>
             \E h \in Handlers : pc[h] = "save" /\ pc'[h] # "save" /\ req[h].kind = "begin"]_vars
  BY <1>1
<1> QED BY <1>2, AlwaysSerial, PTL DEF Spec, StoppedStaysStopped

-----------------------------------------------------------------------------
(* The saved sessions implement LearningLoop. *)

(* Nothing is saved at first. *)
LEMMA LoopStarts == Init => Loop!Init
  BY DEF Init, Loop!Init, StageAt, KeyAt, MasteredBy, Saved

(* A save moves its learner, and no other, through the loop. *)
LEMMA LoopMoves ==
  ASSUME IInv, NEW l \in Learners, NEW s,
         LoopAllows(StageAt(l), KeyAt(l), MasteredBy(l), s),
         store' = [k \in DOMAIN store \cup {l} |-> IF k = l THEN s ELSE store[k]]
  PROVE  [Loop!Next]_(Loop!vars)
<1> DEFINE stage == [k \in Learners |-> StageAt(k)]
           at == [k \in Learners |-> KeyAt(k)]
           mastered == [k \in Learners |-> MasteredBy(k)]
           to == StageOf(s)
           key == masteryKey(s)
<1>1. \A k \in Learners :
        /\ StageAt(k)' = IF k = l THEN to ELSE StageAt(k)
        /\ KeyAt(k)' = IF k = l THEN key ELSE KeyAt(k)
        /\ MasteredBy(k)' = IF k = l THEN s.masteryBySubject ELSE MasteredBy(k)
  BY DEF StageAt, KeyAt, MasteredBy, Saved
<1>2. /\ stage' = [stage EXCEPT ![l] = to]
      /\ at' = [at EXCEPT ![l] = key]
      /\ mastered' = [mastered EXCEPT ![l] = s.masteryBySubject]
  BY <1>1
<1>3. stage[l] = StageAt(l) /\ at[l] = KeyAt(l) /\ mastered[l] = MasteredBy(l)
  OBVIOUS
<1>4. /\ stage = [k \in Learners |-> stage[k]]
      /\ at = [k \in Learners |-> at[k]]
      /\ mastered = [k \in Learners |-> mastered[k]]
  OBVIOUS
<1> HIDE DEF stage, at, mastered, to, key
<1>5. key = at[l] => at' = at BY <1>2, <1>4
<1>6. s.masteryBySubject = mastered[l] => mastered' = mastered BY <1>2, <1>4
<1>7. /\ Loop!Begin(l) <=>
           \E topic \in TopicKeys :
             /\ ~(topic = at[l] /\ stage[l] \in Attempt)
             /\ at' = [at EXCEPT ![l] = topic]
             /\ stage' = [stage EXCEPT ![l] = IF topic \in mastered[l] THEN "mastered"
                                              ELSE "diagnose"]
             /\ mastered' = mastered
      /\ Loop!Diagnose(l) <=>
           /\ stage[l] = "diagnose" /\ stage' = [stage EXCEPT ![l] = "practice"]
           /\ at' = at /\ mastered' = mastered
      /\ Loop!Retry(l) <=>
           /\ stage[l] \in {"practice", "verify"}
           /\ stage' = [stage EXCEPT ![l] = "practice"]
           /\ at' = at /\ mastered' = mastered
      /\ Loop!Verify(l) <=>
           /\ stage[l] = "practice" /\ stage' = [stage EXCEPT ![l] = "verify"]
           /\ at' = at /\ mastered' = mastered
      /\ Loop!Master(l) <=>
           /\ stage[l] = "verify" /\ stage' = [stage EXCEPT ![l] = "mastered"]
           /\ mastered' = [mastered EXCEPT ![l] = mastered[l] \cup {at[l]}]
           /\ at' = at
      /\ Loop!Stop(l) <=>
           /\ stage[l] \in Attempt /\ stage' = [stage EXCEPT ![l] = "stopped"]
           /\ at' = at /\ mastered' = mastered
      /\ UNCHANGED Loop!vars <=> stage' = stage /\ at' = at /\ mastered' = mastered
  BY DEF Loop!Begin, Loop!Diagnose, Loop!Retry, Loop!Verify, Loop!Master, Loop!Stop,
     Loop!InAttempt, Loop!Move, Loop!vars, Attempt, stage, at, mastered
<1>8. \/ s.masteryBySubject = mastered[l] /\ to = stage[l] /\ key = at[l]
      \/ /\ s.masteryBySubject = mastered[l] /\ key \in TopicKeys
         /\ ~(key = at[l] /\ stage[l] \in Attempt)
         /\ to = IF key \in mastered[l] THEN "mastered" ELSE "diagnose"
      \/ /\ s.masteryBySubject = mastered[l] /\ key = at[l]
         /\ \/ stage[l] = "diagnose" /\ to = "practice"
            \/ stage[l] \in {"practice", "verify"} /\ to = "practice"
            \/ stage[l] = "practice" /\ to = "verify"
            \/ stage[l] \in Attempt /\ to = "stopped"
      \/ /\ s.masteryBySubject = mastered[l] \cup {at[l]} /\ key = at[l]
         /\ stage[l] = "verify" /\ to = "mastered"
  BY <1>3 DEF LoopAllows, to, key
<1>9. \/ stage' = stage /\ at' = at /\ mastered' = mastered
      \/ Loop!Begin(l) \/ Loop!Diagnose(l) \/ Loop!Retry(l)
      \/ Loop!Verify(l) \/ Loop!Master(l) \/ Loop!Stop(l)
  BY <1>2, <1>4, <1>5, <1>6, <1>7, <1>8
<1> QED BY <1>7, <1>9 DEF Loop!Next

(* So every step of the tutor is a step of the loop, or none, unless it    *)
(* makes a session unreadable.                                             *)
LEMMA LoopSteps ==
  ASSUME IInv, SerialInv, [Next]_vars, ~WritesTear \/ torn' \subseteq torn
  PROVE  [Loop!Next]_(Loop!vars)
<1>1. CASE UNCHANGED files
  BY <1>1 DEF files, Loop!vars, StageAt, KeyAt, MasteredBy, Saved
<1>2. ASSUME NEW h \in Handlers, Tear(work[h]) PROVE UNCHANGED Loop!vars
  <2>1. work[h].learnerName \in torn BY <1>2 DEF Tear
  <2>2. work[h].learnerName \notin DOMAIN store BY <2>1 DEF IInv, TypeOK
  <2>3. \A l : (Saved(l)' <=> Saved(l)) /\ (Saved(l) => store'[l] = store[l])
    BY <1>2, <2>2 DEF Tear, Saved
  <2>4. \A l : /\ StageAt(l)' = StageAt(l) /\ KeyAt(l)' = KeyAt(l)
              /\ MasteredBy(l)' = MasteredBy(l)
    BY <2>3 DEF StageAt, KeyAt, MasteredBy
  <2> QED BY <2>4 DEF Loop!vars
<1>3. CASE ~UNCHANGED files /\ \A h \in Handlers : ~Tear(work[h])
  <2>1. PICK h \in Handlers :
          /\ req[h].learner \in Learners
          /\ Follows(req[h], work[h])
          /\ store' = [k \in DOMAIN store \cup {req[h].learner} |->
                         IF k = req[h].learner THEN work[h] ELSE store[k]]
    BY <1>3, SavesFollow
  <2> QED BY <2>1, LoopMoves DEF Follows
<1> QED BY <1>1, <1>2, <1>3

(* With the mapping of Loop, every behaviour of the tutor and its store is *)
(* one of the learning loop (README.md section 2): no request, provider,   *)
(* failure or crash skips a stage, and mastery comes from a verified       *)
(* answer only.                                                            *)
THEOREM LoopImplemented == ASSUME OneAtATime, ~WritesTear PROVE Spec => FollowsLoop
<1>1. IInv /\ SerialInv /\ [Next]_vars => [Loop!Next]_(Loop!vars) BY LoopSteps
<1> QED BY <1>1, AlwaysSerial, LoopStarts, PTL DEF Spec, FollowsLoop, Loop!Spec

=============================================================================
