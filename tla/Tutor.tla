-------------------------------- MODULE Tutor --------------------------------
(***************************************************************************)
(* The tutor behind its HTTP API (tutor/turn.go, api/session.go) over the  *)
(* session store (session/store.go).  net/http runs every request on a     *)
(* goroutine of its own, so each handler is a process; it works on its own *)
(* copy of the learner's session, and one Load or one Save of the store is *)
(* one step.  The store's lock makes each of those atomic and nothing ties *)
(* a Load to the Save that follows it.  The process may be killed and      *)
(* started again: what the store holds stays, every handler is gone, and a *)
(* file that was being written is left torn.                               *)
(***************************************************************************)
EXTENDS Session, Content

CONSTANTS
  Handlers,         \* requests the server works on at the same time
  Requests,         \* the requests clients send
  HasProvider,      \* TRUE for NewAITutor with a provider, FALSE for NewTutor
  ProviderResults,  \* what the provider's Diagnose may return
  StoreFails,       \* TRUE for a store that may report an error (file, postgres)
  WritesTear,       \* TRUE when an interrupted Save leaves a torn file (file)
  Crashes,          \* TRUE when the process may be killed; the store outlives it
  OneAtATime        \* TRUE when each learner waits for one reply before sending again

Kinds == {"begin", "input", "band", "report", "resume"}

Request ==
  [kind : Kinds, learner : STRING, subject : Subjects \cup {NoText}, topic : Topics \cup {NoText},
   gradeBand : STRING, input : STRING]

ASSUME RequestsType == Requests \subseteq Request
ASSUME ProviderType == ProviderResults \subseteq DiagnosticResult
ASSUME ModesType ==
  {HasProvider, StoreFails, WritesTear, Crashes, OneAtATime} \subseteq BOOLEAN

(* No two topics offered share a key: their names hold no "|".  *)
ASSUME KeysDistinct ==
  \A p, q \in Curriculum : KeyOf(p[1], p[2]) = KeyOf(q[1], q[2]) => p = q

Learners == {r.learner : r \in Requests}

(* The key of every topic a client may begin. *)
TopicKeys == {KeyOf(u, t) : u \in Subjects \cup {NoText}, t \in Topics \cup {NoText}}

VARIABLES
  store,  \* the saved session of every learner that has a readable one
  torn,   \* the learners whose session file is there and cannot be decoded
  pc,     \* where each handler is
  req,    \* the request it works on
  work,   \* its copy of the learner's session
  out     \* its reply so far

files == <<store, torn>>
vars == <<store, torn, pc, req, work, out>>

wrongThreshold == 2

(* What a client is shown is a sequence of texts: one text, or an          *)
(* explanation followed by a question.                                     *)
Errors ==
  {NoError, "ErrBadRequest", "ErrSessionNotFound", "ErrStore", "ErrProvider",
   "ErrInvalidGradeBand", "ErrTopicNotYetSupported", "ErrSubjectNotSelected",
   "ErrSessionNotAwaitingDiagnosis", "ErrNoDiagnosisYet", "ErrMissingConcept",
   "ErrMissingRecommendedAction", "ErrConfidenceOutOfRange", "ErrNoQuestionPending",
   "ErrNothingAwaitingInput", "ErrDiagnosisIncomplete", "ErrQuestionAlreadyPending",
   "ErrReteachingRequired", "ErrTransferQuestionNotDistinct"}

StateNames ==
  {"no state", "idle", "diagnosing", "wait_for_answer", "check_answer",
   "awaiting_transfer_check", "incorrect", "uncertain", "mastered"}

Reply == [err : Errors, prompt : Seq(STRING), state : StateNames]

NoReply == [err |-> NoError, prompt |-> <<>>, state |-> "no state"]
NoRequest == [kind |-> "input", learner |-> NoText, subject |-> NoText, topic |-> NoText,
              gradeBand |-> NoText, input |-> NoText]
NoSession == New(NoText)

alreadyMastered == "You have already mastered this topic."
alreadyFinished == "You have already finished this topic."
stopPrompt == "Okay, let's stop here."

ASSUME MessagesType == {alreadyMastered, alreadyFinished, stopPrompt} \subseteq STRING

stopWords == {"stop", "quit", "exit", "enough"}

isStopRequest(input) == Fold(input) \in stopWords

Steps == {"idle", "begin", "input", "band", "report", "resume", "diagnose", "provider",
          "retry", "answer", "save", "respond", "done"}

Loading == {"begin", "input", "band", "report", "resume", "diagnose", "answer", "respond"}

stateName(state) ==
  CASE state = "Idle" -> "idle"
    [] state = "Diagnosing" -> "diagnosing"
    [] state = "WaitForAnswer" -> "wait_for_answer"
    [] state = "CheckAnswer" -> "check_answer"
    [] state = "AwaitingTransferCheck" -> "awaiting_transfer_check"
    [] state = "Incorrect" -> "incorrect"
    [] state = "Uncertain" -> "uncertain"
    [] state = "Mastered" -> "mastered"

statusForError(err) ==
  CASE err = NoError -> 200
    [] err = "ErrBadRequest" -> 400
    [] err = "ErrSessionNotFound" -> 404
    [] err \in {"ErrNoQuestionPending", "ErrNothingAwaitingInput",
                "ErrSessionNotAwaitingDiagnosis", "ErrNoDiagnosisYet"} -> 409
    [] err \in {"ErrTopicNotYetSupported", "ErrInvalidGradeBand"} -> 422
    [] OTHER -> 500

TypeOK ==
  /\ DOMAIN store \subseteq Learners
  /\ \A l \in DOMAIN store : store[l] \in Session
  /\ torn \subseteq Learners \ DOMAIN store
  /\ pc \in [Handlers -> Steps]
  /\ req \in [Handlers -> Requests \cup {NoRequest}]
  /\ work \in [Handlers -> Session]
  /\ out \in [Handlers -> Reply]

Init ==
  /\ store = [l \in {} |-> NoSession]
  /\ torn = {}
  /\ pc = [h \in Handlers |-> "idle"]
  /\ req = [h \in Handlers |-> NoRequest]
  /\ work = [h \in Handlers |-> NoSession]
  /\ out = [h \in Handlers |-> NoReply]

-----------------------------------------------------------------------------
(* The store. *)

Saved(learner) == learner \in DOMAIN store

LoadErr(learner) ==
  IF learner \in torn THEN "ErrStore"
  ELSE IF Saved(learner) THEN NoError ELSE "ErrSessionNotFound"

(* Mutant: a save writes a store of the one session. *)
PutAlone(s) ==
  /\ store' = [l \in {s.learnerName} |-> s]
  /\ torn' = torn \ {s.learnerName}

(* The session's row or file is replaced, a torn one too. *)
Put(s) ==
  /\ store' = [l \in DOMAIN store \cup {s.learnerName} |->
                 IF l = s.learnerName THEN s ELSE store[l]]
  /\ torn' = torn \ {s.learnerName}

(* The file of s is truncated and not written in full. *)
Tear(s) ==
  /\ WritesTear
  /\ store' = [l \in DOMAIN store \ {s.learnerName} |-> store[l]]
  /\ torn' = torn \cup {s.learnerName}

(* What a handler does next: refuse with an error, or go on to save a      *)
(* session and reply with a prompt.                                        *)

Goto(h, step) == pc' = [pc EXCEPT ![h] = step]

Fail(h, err) ==
  /\ Goto(h, "done")
  /\ out' = [out EXCEPT ![h] = [NoReply EXCEPT !.err = err]]
  /\ UNCHANGED <<files, req, work>>

ThenSave(h, s, prompt) ==
  /\ Goto(h, "save")
  /\ work' = [work EXCEPT ![h] = s]
  /\ out' = [out EXCEPT ![h] = [NoReply EXCEPT !.prompt = prompt]]
  /\ UNCHANGED <<files, req>>

-----------------------------------------------------------------------------
(* A request arrives and its handler checks the body (beginSession,        *)
(* submitInput) before it calls the tutor.                                 *)

RequestErr(r) ==
  CASE r.kind = "begin" ->
         IF r.subject = NoText \/ r.topic = NoText \/ r.gradeBand = NoText THEN "ErrBadRequest"
         ELSE IF ~curriculumContains(r.subject, r.topic) THEN "ErrTopicNotYetSupported"
         ELSE SetGradeBandErr(r.gradeBand)
    [] r.kind = "input" -> IF r.input = NoText THEN "ErrBadRequest" ELSE NoError
    [] OTHER -> NoError

Busy(learner) == \E h \in Handlers : pc[h] # "idle" /\ req[h].learner = learner

Arrive(h) == \E r \in Requests :
  /\ pc[h] = "idle"
  /\ OneAtATime => ~Busy(r.learner)
  /\ req' = [req EXCEPT ![h] = r]
  /\ IF RequestErr(r) = NoError
     THEN Goto(h, r.kind) /\ UNCHANGED out
     ELSE Goto(h, "done") /\ out' = [out EXCEPT ![h].err = RequestErr(r)]
  /\ UNCHANGED <<files, work>>

-----------------------------------------------------------------------------
(* BeginTopic: start a topic, or resume it where the learner left it. *)

LoadOrNew(learner) == IF Saved(learner) THEN store[learner] ELSE New(learner)

Selected(s, r) == SelectTopic(SelectSubject(SetGradeBand(s, r.gradeBand), r.subject), r.topic)

BeginErr(s, r) ==
  IF SetGradeBandErr(r.gradeBand) # NoError THEN SetGradeBandErr(r.gradeBand)
  ELSE IF contentForErr(r.topic, r.gradeBand) # NoError
       THEN contentForErr(r.topic, r.gradeBand)
  ELSE SelectTopicErr(SelectSubject(s, r.subject))

(* Mutant: a topic begun again starts over with its diagnosis. *)
BegunFromStart(s) == IF s.state = "Mastered" THEN s ELSE [s EXCEPT !.state = "Diagnosing"]

Begun(s) == IF s.state = "Idle" THEN StartDiagnosis(s) ELSE s

(* Mutant: a topic begun again asks the diagnostic question again. *)
BeginPromptFromStart(s, r) ==
  IF s.state = "Mastered" THEN alreadyMastered ELSE diagnosticPrompt(r.topic, r.gradeBand)

BeginPrompt(s, r) ==
  IF s.state = "Mastered" THEN alreadyMastered
  ELSE IF s.state = "Idle" \/ ~s.diagnosisComplete
       THEN diagnosticPrompt(r.topic, r.gradeBand)
  ELSE s.question

BeginTopic(h) ==
  LET r == req[h]
      s0 == LoadOrNew(r.learner)
      s == Selected(s0, r)
  IN  /\ pc[h] = "begin"
      /\ IF r.learner \in torn
         THEN Fail(h, LoadErr(r.learner))
         ELSE IF BeginErr(s0, r) # NoError
         THEN Fail(h, BeginErr(s0, r))
         ELSE ThenSave(h, Begun(s), <<BeginPrompt(s, r)>>)

-----------------------------------------------------------------------------
(* ApplyInput: a stop word stops; any other input is a diagnostic          *)
(* explanation or an answer, by the state of the session as loaded here.   *)

Route(s) ==
  IF s.state = "Diagnosing" /\ ~s.diagnosisComplete THEN "diagnose"
  ELSE IF s.state = "WaitForAnswer" THEN "answer"
  ELSE "nowhere"

ApplyInput(h) ==
  LET l == req[h].learner
  IN  /\ pc[h] = "input"
      /\ ~isStopRequest(req[h].input)
      /\ IF ~Saved(l) THEN Fail(h, LoadErr(l))
         ELSE IF Route(store[l]) = "nowhere" THEN Fail(h, "ErrNothingAwaitingInput")
         ELSE Goto(h, Route(store[l])) /\ UNCHANGED <<files, req, work, out>>

(* Mutant: the attempt abandoned is not saved. *)
StopUnsaved(h) ==
  LET l == req[h].learner
  IN  /\ pc[h] = "input"
      /\ isStopRequest(req[h].input)
      /\ IF ~Saved(l) THEN Fail(h, LoadErr(l))
         ELSE /\ Goto(h, "respond")
              /\ out' = [out EXCEPT ![h].prompt = <<stopPrompt>>]
              /\ work' = [work EXCEPT ![h] = ResetAttempt(store[l])]
              /\ UNCHANGED <<files, req>>

Stop(h) ==
  LET l == req[h].learner
  IN  /\ pc[h] = "input"
      /\ isStopRequest(req[h].input)
      /\ IF ~Saved(l) THEN Fail(h, LoadErr(l))
         ELSE IF store[l].mastered
              THEN /\ Goto(h, "respond")
                   /\ out' = [out EXCEPT ![h].prompt = <<alreadyFinished>>]
                   /\ work' = [work EXCEPT ![h] = store[l]]
                   /\ UNCHANGED <<files, req>>
         ELSE ThenSave(h, ResetAttempt(store[l]), <<stopPrompt>>)

-----------------------------------------------------------------------------
(* SubmitDiagnosis loads the session again, lets the provider evaluate the *)
(* explanation if there is one, records it and poses the first question.   *)

DiagnosisErr(learner) ==
  IF ~Saved(learner) THEN LoadErr(learner)
  ELSE IF store[learner].state # "Diagnosing" \/ store[learner].diagnosisComplete
       THEN "ErrSessionNotAwaitingDiagnosis"
  ELSE contentForErr(store[learner].topic, store[learner].gradeBand)

(* The explanation recorded in s, and the first practice question posed. *)
AskFirst(h, s) ==
  LET t == RecordDiagnosticResponse(s, req[h].input)
      q == firstPracticeQuestion(s.topic, s.gradeBand)
  IN  IF AskQuestionErr(t) # NoError
      THEN Fail(h, AskQuestionErr(t))
      ELSE ThenSave(h, AskQuestion(t, q.question, q.expectedAnswer), <<q.question>>)

SubmitDiagnosis(h) ==
  LET l == req[h].learner
  IN  /\ pc[h] = "diagnose"
      /\ IF DiagnosisErr(l) # NoError THEN Fail(h, DiagnosisErr(l))
         ELSE IF ~HasProvider THEN AskFirst(h, store[l])
         ELSE /\ Goto(h, "provider")
              /\ work' = [work EXCEPT ![h] = store[l]]
              /\ UNCHANGED <<files, req, out>>

(* The provider's call ends within its client's timeout: in a result, which *)
(* the session validates, in a refusal of its JSON mode, after which the    *)
(* same question is sent once more in plain text, or in an error.           *)
Calling(h) == pc[h] \in {"provider", "retry"}

ProviderRefusesJSONMode(h) ==
  /\ pc[h] = "provider"
  /\ Goto(h, "retry")
  /\ UNCHANGED <<files, req, work, out>>

ProviderAnswers(h) == \E result \in ProviderResults :
  /\ Calling(h)
  /\ IF RecordDiagnosticResultErr(result) # NoError
     THEN Fail(h, RecordDiagnosticResultErr(result))
     ELSE AskFirst(h, RecordDiagnosticResult(work[h], result))

(* Mutant: a call that failed is made again, without a limit. *)
ProviderFailsAgain(h) ==
  /\ Calling(h)
  /\ Goto(h, "diagnose")
  /\ UNCHANGED <<files, req, work, out>>

ProviderFails(h) ==
  /\ Calling(h)
  /\ Fail(h, "ErrProvider")

-----------------------------------------------------------------------------
(* SubmitAnswer loads the session again, checks the answer and poses what  *)
(* follows from it.                                                        *)

AnswerErr(learner) ==
  IF ~Saved(learner) THEN LoadErr(learner)
  ELSE IF store[learner].state # "WaitForAnswer" THEN "ErrNoQuestionPending"
  ELSE NoError

Checked(learner, answer) == CheckAnswer(SubmitAnswer(store[learner], answer))

AskTransfer(h, s) ==
  LET q == transferQuestion(s.topic, s.gradeBand)
  IN  IF contentForErr(s.topic, s.gradeBand) # NoError
      THEN Fail(h, contentForErr(s.topic, s.gradeBand))
      ELSE IF AskTransferQuestionErr(s, q.question) # NoError
      THEN Fail(h, AskTransferQuestionErr(s, q.question))
      ELSE ThenSave(h, AskTransferQuestion(s, q.question, q.expectedAnswer), <<q.question>>)

(* Mutant: the explanation given does not settle the misses counted. *)
AskNextCountingOn(h, s, explained) ==
  LET q == nextPracticeQuestion(s.topic, s.gradeBand, s.question)
      t == IF explained THEN Teach(s) ELSE s
  IN  ThenSave(h, AskQuestion(t, q.question, q.expectedAnswer), <<q.question>>)

(* Mutant: the explanation is shown and the session not told of it. *)
AskNextUntaught(h, s, explained) ==
  LET q == nextPracticeQuestion(s.topic, s.gradeBand, s.question)
      t == IF explained THEN ResetWrongStreak(s) ELSE s
  IN  IF AskQuestionErr(t) # NoError
      THEN Fail(h, AskQuestionErr(t))
      ELSE ThenSave(h, AskQuestion(t, q.question, q.expectedAnswer), <<q.question>>)

(* A fresh practice question, after an explanation if one is due. *)
AskNext(h, s, explained) ==
  LET q == nextPracticeQuestion(s.topic, s.gradeBand, s.question)
      t == IF explained THEN ResetWrongStreak(Teach(s)) ELSE s
  IN  IF contentForErr(s.topic, s.gradeBand) # NoError
      THEN Fail(h, contentForErr(s.topic, s.gradeBand))
      ELSE IF AskQuestionErr(t) # NoError
      THEN Fail(h, AskQuestionErr(t))
      ELSE ThenSave(h, AskQuestion(t, q.question, q.expectedAnswer),
                    IF explained THEN <<explanation(s.topic, s.gradeBand), q.question>>
                                 ELSE <<q.question>>)

NeedsExplanation(s) == s.wrongStreak >= wrongThreshold

(* CheckAnswer leaves one of four states; turn.go's default case, which    *)
(* reports ErrUnexpectedAnswerState, has none left to take.                *)
AnswerQuestion(h) ==
  LET l == req[h].learner
      s == Checked(l, req[h].input)
      missed == NoteIncorrectAttempt(s)
  IN  /\ pc[h] = "answer"
      /\ IF AnswerErr(l) # NoError THEN Fail(h, AnswerErr(l))
         ELSE \/ /\ s.state = "Mastered"
                 /\ ThenSave(h, ResetWrongStreak(s),
                             <<completionMessage(s.topic, s.gradeBand)>>)
              \/ /\ s.state = "AwaitingTransferCheck"
                 /\ AskTransfer(h, ResetWrongStreak(s))
              \/ /\ s.state = "Incorrect"
                 /\ AskNext(h, missed, NeedsExplanation(missed))
              \/ /\ s.state = "Uncertain"
                 /\ AskNext(h, ResetWrongStreak(s), TRUE)

-----------------------------------------------------------------------------
(* The other operations: SetGradeBand, which no route reaches, and the two *)
(* that read only, the diagnosis report and the session to resume.         *)

(* Mutant: a new grade band starts the diagnosis of a stopped topic again. *)
ChangeGradeBandRestarting(h) ==
  LET l == req[h].learner
      band == req[h].gradeBand
  IN  /\ pc[h] = "band"
      /\ IF ~Saved(l) THEN Fail(h, LoadErr(l))
         ELSE IF SetGradeBandErr(band) # NoError THEN Fail(h, SetGradeBandErr(band))
         ELSE ThenSave(h, Begun(SetGradeBand(store[l], band)), <<>>)

ChangeGradeBand(h) ==
  LET l == req[h].learner
      band == req[h].gradeBand
  IN  /\ pc[h] = "band"
      /\ IF ~Saved(l) THEN Fail(h, LoadErr(l))
         ELSE IF SetGradeBandErr(band) # NoError THEN Fail(h, SetGradeBandErr(band))
         ELSE ThenSave(h, SetGradeBand(store[l], band), <<>>)

(* What the page shows of a DiagnosisReport: the learner's own words, and, *)
(* with a provider, what its evaluation recommends.                        *)
DiagnosisReport(s) == <<s.diagnosticFinding, s.diagnosticResult.recommendedAction>>

DiagnosticReport(h) ==
  LET l == req[h].learner
  IN  /\ pc[h] = "report"
      /\ IF ~Saved(l) THEN Fail(h, LoadErr(l))
         ELSE IF ~store[l].diagnosisComplete THEN Fail(h, "ErrNoDiagnosisYet")
         ELSE /\ Goto(h, "done")
              /\ out' = [out EXCEPT ![h].prompt = DiagnosisReport(store[l])]
              /\ work' = [work EXCEPT ![h] = store[l]]
              /\ UNCHANGED <<files, req>>

ResumeSession(h) ==
  LET l == req[h].learner
  IN  /\ pc[h] = "resume"
      /\ IF ~Saved(l) THEN Fail(h, LoadErr(l))
         ELSE /\ Goto(h, "done")
              /\ out' = [out EXCEPT ![h].prompt = <<store[l].question>>,
                                    ![h].state = stateName(store[l].state)]
              /\ work' = [work EXCEPT ![h] = store[l]]
              /\ UNCHANGED <<files, req>>

-----------------------------------------------------------------------------
(* Saving, and replying with the state the store holds by then             *)
(* (respondAction); SetGradeBand has no reply to write.                    *)

Save(h) ==
  /\ pc[h] = "save"
  /\ Put(work[h])
  /\ Goto(h, IF req[h].kind = "band" THEN "done" ELSE "respond")
  /\ UNCHANGED <<req, work, out>>

Respond(h) ==
  LET l == req[h].learner
  IN  /\ pc[h] = "respond"
      /\ IF ~Saved(l) THEN Fail(h, "ErrStore")
         ELSE /\ Goto(h, "done")
              /\ out' = [out EXCEPT ![h].state = stateName(store[l].state)]
              /\ UNCHANGED <<files, req, work>>

(* A store that reports an error: a Load that fails, and a Save that fails *)
(* before or after the new state took effect, or halfway.                  *)
LoadFails(h) ==
  /\ StoreFails
  /\ pc[h] \in Loading
  /\ Fail(h, "ErrStore")

SaveFails(h) ==
  /\ StoreFails
  /\ pc[h] = "save"
  /\ Goto(h, "done")
  /\ out' = [out EXCEPT ![h] = [NoReply EXCEPT !.err = "ErrStore"]]
  /\ UNCHANGED files \/ Put(work[h]) \/ Tear(work[h])
  /\ UNCHANGED <<req, work>>

(* The reply is written and the goroutine ends. *)
Finish(h) ==
  /\ pc[h] = "done"
  /\ Goto(h, "idle")
  /\ req' = [req EXCEPT ![h] = NoRequest]
  /\ work' = [work EXCEPT ![h] = NoSession]
  /\ out' = [out EXCEPT ![h] = NoReply]
  /\ UNCHANGED files

(* The process is killed and started again over the same store.  The lock  *)
(* lets one handler write at a time, so at most one file is torn.          *)
Crash ==
  /\ Crashes
  /\ UNCHANGED files \/ \E h \in Handlers : pc[h] = "save" /\ Tear(work[h])
  /\ pc' = [h \in Handlers |-> "idle"]
  /\ req' = [h \in Handlers |-> NoRequest]
  /\ work' = [h \in Handlers |-> NoSession]
  /\ out' = [h \in Handlers |-> NoReply]

(* A step of the handler up to its reply, the store working. *)
Serve(h) ==
  \/ BeginTopic(h)
  \/ ApplyInput(h)
  \/ Stop(h)
  \/ SubmitDiagnosis(h)
  \/ ProviderRefusesJSONMode(h)
  \/ ProviderAnswers(h)
  \/ ProviderFails(h)
  \/ AnswerQuestion(h)
  \/ ChangeGradeBand(h)
  \/ DiagnosticReport(h)
  \/ ResumeSession(h)
  \/ Save(h)
  \/ Respond(h)

Proceed(h) == Serve(h) \/ Finish(h)

HandlerStep(h) == Proceed(h) \/ LoadFails(h) \/ SaveFails(h)

Next == (\E h \in Handlers : Arrive(h) \/ HandlerStep(h)) \/ Crash

Spec == Init /\ [][Next]_vars

(* A goroutine that can go on does, the provider's HTTP client times out,  *)
(* and the answer never hangs on an error of the store to come: no handler *)
(* stays at a step forever.  Nothing makes clients send.                   *)
FairSpec == Spec /\ \A h \in Handlers : WF_vars(Proceed(h))

-----------------------------------------------------------------------------
(* What a session is like whenever the store holds it. *)

AtRest(s) == s.state \in {"Idle", "Diagnosing", "WaitForAnswer", "Mastered"}

Placed(s) == s.subject # NoText /\ s.topic \in SupportedTopics /\ s.gradeBand \in GradeBands

MasterySound(s) ==
  /\ s.mastered <=> s.state = "Mastered"
  /\ s.mastered <=> masteryKey(s) \in s.masteryBySubject

DiagnosisSound(s) ==
  IF s.diagnosisComplete
  THEN /\ s.state \in {"WaitForAnswer", "Mastered"}
       /\ s.diagnosticFinding # NoText
       /\ IF HasProvider THEN ValidateDiagnosticResult(s.diagnosticResult) = NoError
                         ELSE s.diagnosticResult = NoResult
  ELSE /\ s.state # "WaitForAnswer"
       /\ s.diagnosticFinding = NoText
       /\ s.diagnosticResult = NoResult

Pending(s) == [question |-> s.question, expectedAnswer |-> s.expectedAnswer]

PendingSound(s) ==
  s.state = "WaitForAnswer" =>
    \E b1 \in BandsOf(s.topic), b2 \in BandsOf(s.topic) :
      /\ \E p \in PracticeOf(s.topic, b1) : p.question = s.originalQuestion
      /\ IF s.isTransferQuestion
         THEN Pending(s) = contentByTopic[s.topic][b2].transfer
         ELSE Pending(s) \in PracticeOf(s.topic, b2) /\ s.question = s.originalQuestion

StreakSound(s) ==
  /\ s.wrongStreak < wrongThreshold
  /\ s.wrongStreak > 0 => s.state = "WaitForAnswer" /\ ~s.isTransferQuestion

Sound(s) ==
  /\ AtRest(s)
  /\ Placed(s)
  /\ MasterySound(s)
  /\ DiagnosisSound(s)
  /\ PendingSound(s)
  /\ StreakSound(s)

(* However requests interleave and whatever of the store or the provider   *)
(* fails, every saved session can be taken up again: it rests at a stage   *)
(* that expects a request, its mastery flag, state and map agree, its      *)
(* diagnosis is there exactly when practice has begun, its pending         *)
(* question with its expected answer is one of its topic, and the learner  *)
(* is less than wrongThreshold misses from an explanation.                 *)
StoreSound ==
  \A l \in DOMAIN store : store[l].learnerName = l /\ Sound(store[l])

(* The errors that tell of a call the session refuses, or of a topic       *)
(* without content for a session begun on it: the tutor's sequencing is to *)
(* keep them from ever happening, and a client that got one would see 500  *)
(* (statusForError) or a topic it was offered called unsupported.          *)
SequencingErrors ==
  {"ErrDiagnosisIncomplete", "ErrQuestionAlreadyPending", "ErrReteachingRequired",
   "ErrTransferQuestionNotDistinct", "ErrSubjectNotSelected"}

NoSequencingError == \A h \in Handlers :
  /\ out[h].err \notin SequencingErrors
  /\ req[h].kind = "input" => out[h].err # "ErrTopicNotYetSupported"

(* Nothing the store holds of a learner changed. *)
Untouched(l) ==
  /\ Saved(l)' <=> Saved(l)
  /\ Saved(l) => store'[l] = store[l]
  /\ l \in torn' <=> l \in torn

(* What the store holds of a learner changes only by a save, complete or   *)
(* interrupted, made for a request of that learner ("never merge or        *)
(* confuse their state"): no crash and no failed write takes the session   *)
(* of a learner who had none under way, nor makes it unreadable.           *)
OwnSavesOnly ==
  [][\A l \in Learners :
       ~Untouched(l) =>
         \E h \in Handlers : pc[h] = "save" /\ pc'[h] # "save" /\ req[h].learner = l]_vars

(* No mastery on record is ever lost ("any demonstrated mastery are kept": *)
(* Stop, BeginTopic).                                                      *)
MasteryKept ==
  [][\A l \in DOMAIN store :
       l \in DOMAIN store' /\ store[l].masteryBySubject \subseteq store'[l].masteryBySubject]_vars

(* After a stop the session stays stopped until the learner begins a topic *)
(* again (Stop: "abandons the current attempt").                           *)
StoppedStaysStopped ==
  [][\A l \in DOMAIN store :
       store[l].state = "Idle" /\ store'[l].state # "Idle" =>
         \E h \in Handlers : pc[h] = "save" /\ pc'[h] # "save" /\ req[h].kind = "begin"]_vars

(* The question posed after an answer is never the one just answered       *)
(* (nextPracticeQuestion, transferQuestion), whatever the grade band was   *)
(* changed to in between.                                                  *)
FreshQuestion ==
  [][\A h \in Handlers :
       pc[h] = "answer" /\ pc'[h] = "save" /\ work'[h].state = "WaitForAnswer" =>
         work'[h].question # store[req[h].learner].question]_vars

(* A reply carries "the authoritative state token that follows" its prompt *)
(* (actionResponse): the state the action left the session in.             *)
ReplyAgrees == \A h \in Handlers :
  pc[h] = "done" /\ out[h].state # "no state" => out[h].state = stateName(work[h].state)

(* Every request that arrived is replied to and its handler ends.          *)
RequestsAnswered == \A h \in Handlers : pc[h] # "idle" ~> pc[h] = "idle"

-----------------------------------------------------------------------------
(* Seen from a learner that sends one request at a time, the sessions the  *)
(* store holds run through the learning loop.                              *)

StageOf(s) ==
  CASE s.state = "Mastered" -> "mastered"
    [] s.state = "Diagnosing" -> "diagnose"
    [] s.state = "WaitForAnswer" -> IF s.isTransferQuestion THEN "verify" ELSE "practice"
    [] OTHER -> "stopped"

StageAt(l) == IF Saved(l) THEN StageOf(store[l]) ELSE "new"
KeyAt(l) == IF Saved(l) THEN masteryKey(store[l]) ELSE "none"
MasteredBy(l) == IF Saved(l) THEN store[l].masteryBySubject ELSE {}

Loop == INSTANCE LearningLoop WITH
  Topics <- TopicKeys,
  stage <- [l \in Learners |-> StageAt(l)],
  at <- [l \in Learners |-> KeyAt(l)],
  mastered <- [l \in Learners |-> MasteredBy(l)]

(* The saved sessions implement LearningLoop: no stage is skipped and      *)
(* mastery comes from a verified answer only (README.md section 2).        *)
FollowsLoop == Loop!Spec

=============================================================================
