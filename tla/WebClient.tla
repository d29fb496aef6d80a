------------------------------ MODULE WebClient ------------------------------
(***************************************************************************)
(* The learner's page (web/app.js) in front of the tutor.  The page shows  *)
(* one form at a time, sends a request per submit and shows the prompt of  *)
(* each reply; after the reply to the learner's explanation it fetches the *)
(* report of the diagnosis and shows that too, while the chat goes on.     *)
(* Sending is the request's arrival at the server.  A connection may fail  *)
(* and the page may be loaded again at any moment: the page waits no more, *)
(* and the handler, which knows nothing of it, works on and saves.         *)
(***************************************************************************)
EXTENDS Tutor, SequencesExt

CONSTANTS
  Patient,    \* TRUE: the learner submits nothing while the page waits for a reply
  Unreliable  \* TRUE: connections may fail

ASSUME PatienceType == Patient \in BOOLEAN /\ Unreliable \in BOOLEAN

VARIABLES
  form,   \* what the page offers: the start form, the chat form, or neither
  shown,  \* the texts of the last prompt on the page
  due,    \* the handlers whose replies the page still waits for
  asked,  \* what was shown when each request waited for was sent
  awaitingDiagnosis,  \* the next good reply is taken for that to the explanation
  fetching,           \* the report is to be fetched
  report,  \* the texts of the report shown, none while it is hidden
  overlap, \* history: the last request was sent with another at work ("now"),
           \*   one before it was since the topic was begun ("past"), or "none"
  behind   \* history: a request may have been served unknown to the page

panel == <<awaitingDiagnosis, fetching, report>>
page == <<form, shown, due, asked, panel, overlap, behind>>
webVars == <<vars, page>>

Forms == {"start", "none", "chat"}

Texts == Seq(STRING)

WebTypeOK ==
  /\ form \in Forms
  /\ shown \in Texts
  /\ due \subseteq Handlers
  /\ asked \in [Handlers -> Texts]
  /\ awaitingDiagnosis \in BOOLEAN /\ fetching \in BOOLEAN
  /\ report \in Texts
  /\ overlap \in {"none", "past", "now"}
  /\ behind \in BOOLEAN

WebInit ==
  /\ Init
  /\ form = "start"
  /\ shown = <<>>
  /\ due = {}
  /\ asked = [h \in Handlers |-> <<>>]
  /\ awaitingDiagnosis = FALSE /\ fetching = FALSE
  /\ report = <<>>
  /\ overlap = "none"
  /\ behind = FALSE

(* The replies to the learner that the page waits for. *)
ReplyDue == {h \in due : req[h].kind # "report"}

(* The handlers of the learner's requests, waited for or not. *)
AtWork == {h \in Handlers : pc[h] # "idle" /\ req[h].kind # "report"}

(* The start form hides itself when it is submitted, and clears the page. *)
StartPage(r) ==
  /\ form = "start"
  /\ r.kind = "begin"
  /\ form' = "none"
  /\ shown' = <<>>

(* Mutant: the chat form is there for a learner that has not begun. *)
ChatPageAnyForm(r) ==
  /\ r.kind = "input"
  /\ UNCHANGED <<form, shown>>

(* The chat form stays as it is; only its text is cleared. *)
ChatPage(r) ==
  /\ form = "chat"
  /\ r.kind = "input"
  /\ Patient => ReplyDue = {}
  /\ UNCHANGED <<form, shown>>

OverlapAfter(r) ==
  IF AtWork # {} THEN "now"
  ELSE IF r.kind = "begin" \/ overlap = "none" THEN "none" ELSE "past"

Submit(h) ==
  /\ Arrive(h)
  /\ StartPage(req'[h]) \/ ChatPage(req'[h])
  /\ due' = due \cup {h}
  /\ asked' = [asked EXCEPT ![h] = shown']
  /\ report' = IF req'[h].kind = "begin" THEN <<>> ELSE report
  /\ overlap' = OverlapAfter(req'[h])
  /\ UNCHANGED <<awaitingDiagnosis, fetching, behind>>

(* The request does not reach the server. *)
SubmitLost == \E r \in Requests :
  /\ Unreliable
  /\ StartPage(r) \/ ChatPage(r)
  /\ report' = IF r.kind = "begin" THEN <<>> ELSE report
  /\ UNCHANGED <<vars, due, asked, awaitingDiagnosis, fetching, overlap, behind>>

(* begin and sendAnswer: what the page makes of a reply. *)

Good(reply) == statusForError(reply.err) = 200

Ended(reply) == reply.state = "mastered"

(* Mutant: the reply that has the report fetched is not shown itself. *)
ShownAfterReport(reply) ==
  IF Good(reply) /\ ~awaitingDiagnosis THEN reply.prompt ELSE shown

ShownAfter(reply) == IF Good(reply) THEN reply.prompt ELSE shown

(* Mutant: a begin that failed brings up a form to retry. *)
FormAfterBeginRetry(reply) ==
  IF ~Good(reply) THEN "retry" ELSE IF Ended(reply) THEN "none" ELSE "chat"

FormAfterBegin(reply) ==
  IF ~Good(reply) THEN form
  ELSE IF Ended(reply) THEN "none" ELSE "chat"

FormAfterInput(reply) ==
  CASE Good(reply) -> IF Ended(reply) THEN "none" ELSE form
    [] statusForError(reply.err) = 409 -> "none"
    [] OTHER -> form

(* The good reply to a begin hides the report and tells whether the chat   *)
(* starts with the explanation; the next good reply has it fetched.        *)
PanelAfter(r, reply) ==
  IF Good(reply) /\ r.kind = "begin"
  THEN /\ report' = <<>>
       /\ awaitingDiagnosis' = (reply.state = "diagnosing")
       /\ UNCHANGED fetching
  ELSE /\ awaitingDiagnosis' = (awaitingDiagnosis /\ ~Good(reply))
       /\ fetching' = (fetching \/ (awaitingDiagnosis /\ Good(reply)))
       /\ UNCHANGED report

(* A good reply brings the page up to date, unless a request that was at   *)
(* work before may save after it.                                          *)
Receive(h) ==
  /\ h \in due
  /\ req[h].kind # "report"
  /\ Finish(h)
  /\ due' = due \ {h}
  /\ PanelAfter(req[h], out[h])
  /\ shown' = ShownAfter(out[h])
  /\ form' = IF req[h].kind = "begin" THEN FormAfterBegin(out[h]) ELSE FormAfterInput(out[h])
  /\ asked' = [asked EXCEPT ![h] = <<>>]
  /\ behind' = CASE statusForError(out[h].err) = 200 -> behind /\ overlap = "now"
                 [] statusForError(out[h].err) = 500 -> TRUE
                 [] OTHER -> behind
  /\ UNCHANGED overlap

(* The connection of a request fails, whatever its handler is doing, and   *)
(* the page only says so (the catch of begin, sendAnswer and               *)
(* showDiagnosisReport).  No handler looks at the request's context.       *)
Disconnect(h) ==
  /\ Unreliable
  /\ h \in due
  /\ due' = due \ {h}
  /\ asked' = [asked EXCEPT ![h] = <<>>]
  /\ behind' = (behind \/ req[h].kind # "report")
  /\ UNCHANGED <<vars, form, shown, panel, overlap>>

(* The handler of a request the page waits for no more ends. *)
Unheard(h) ==
  /\ h \notin due
  /\ Finish(h)
  /\ UNCHANGED page

(* showDiagnosisReport: the report is fetched, and a failure ignored. *)
FetchReport(h) ==
  /\ fetching
  /\ Arrive(h)
  /\ req'[h].kind = "report"
  /\ due' = due \cup {h}
  /\ fetching' = FALSE
  /\ UNCHANGED <<form, shown, asked, awaitingDiagnosis, report, overlap, behind>>

FetchLost ==
  /\ Unreliable
  /\ fetching
  /\ fetching' = FALSE
  /\ UNCHANGED <<vars, form, shown, due, asked, awaitingDiagnosis, report, overlap, behind>>

ShowReport(h) ==
  /\ h \in due
  /\ req[h].kind = "report"
  /\ Finish(h)
  /\ due' = due \ {h}
  /\ report' = IF Good(out[h]) THEN out[h].prompt ELSE report
  /\ UNCHANGED <<form, shown, asked, awaitingDiagnosis, fetching, overlap, behind>>

(* The learner loads the page again, which leaves its requests to the      *)
(* server.                                                                 *)
Reload ==
  /\ form # "start"
  /\ form' = "start"
  /\ shown' = <<>>
  /\ due' = {} /\ asked' = [h \in Handlers |-> <<>>]
  /\ awaitingDiagnosis' = FALSE /\ fetching' = FALSE
  /\ report' = <<>>
  /\ behind' = (behind \/ ReplyDue # {})
  /\ UNCHANGED <<vars, overlap>>

(* The server is killed, and every connection with it. *)
ServerDies ==
  /\ Crash
  /\ due' = {} /\ asked' = [h \in Handlers |-> <<>>]
  /\ behind' = (behind \/ ReplyDue # {})
  /\ UNCHANGED <<form, shown, panel, overlap>>

Served(h) == (Serve(h) \/ LoadFails(h) \/ SaveFails(h)) /\ UNCHANGED page

WebNext ==
  \/ \E h \in Handlers : Submit(h) \/ Served(h) \/ Receive(h) \/ Disconnect(h) \/ Unheard(h)
  \/ \E h \in Handlers : FetchReport(h) \/ ShowReport(h)
  \/ SubmitLost
  \/ FetchLost
  \/ Reload
  \/ ServerDies

WebSpec == WebInit /\ [][WebNext]_webVars

-----------------------------------------------------------------------------
(* What the learner was asked last, when the request of h was sent. *)
AskedLast(h) == IF asked[h] = <<>> THEN NoText ELSE Last(asked[h])

(* What the session expects an input to answer. *)
Expects(s) ==
  IF s.state = "Diagnosing" THEN diagnosticPrompt(s.topic, s.gradeBand) ELSE s.question

(* What a learner says is taken for the answer to what was on the page     *)
(* when the learner said it, and to nothing else (SubmitDiagnosis,         *)
(* SubmitAnswer, sendAnswer), until a request fails in a way that may have *)
(* been served all the same; and again after the first good reply to a     *)
(* request sent with no other at work.                                     *)
TakenAsShown ==
  [][\A h \in Handlers :
       ~behind /\ pc[h] \in {"diagnose", "answer"} /\ pc'[h] \in {"provider", "save"} =>
         AskedLast(h) = Expects(store[req[h].learner])]_webVars

(* With no reply due, an open chat form stands under the very text that    *)
(* the saved session expects an answer to (handleTurn), and does so again  *)
(* after the first good reply, sent for with no other request at work,     *)
(* that follows a failure.                                                 *)
ScreenAgrees ==
  form = "chat" /\ ReplyDue = {} /\ ~behind =>
    \A l \in DOMAIN store :
      store[l].state \in {"Diagnosing", "WaitForAnswer"} =>
        shown # <<>> /\ Last(shown) = Expects(store[l])

(* The report shown is what is on record of the diagnosis in progress:     *)
(* what it says the learner told is what the tutor goes by, whatever was   *)
(* answered, lost or sent again while it was fetched (showDiagnosisReport),*)
(* unless a request was sent with another at work since the topic was      *)
(* begun: of two explanations the one not reported may be saved last.      *)
ReportAgrees ==
  report # <<>> /\ overlap = "none" =>
    \A l \in DOMAIN store :
      store[l].diagnosisComplete => DiagnosisReport(store[l]) = report

(* "Require a transfer question ... before treating a concept as mastered" *)
(* (README.md section 3): the answer that masters a topic was given with   *)
(* the transfer question on the page that waits for its reply.             *)
MasteryWitnessed ==
  [][\A h \in due :
       pc[h] = "answer" /\ pc'[h] = "save" /\ work'[h].mastered =>
         AskedLast(h) = work'[h].question]_webVars

(* Whatever failed before, a learner who loads the page and begins again,  *)
(* with no request of before still at work, is shown what the saved        *)
(* session expects, and not asked over again ("resumes it at the correct   *)
(* state rather than repeating diagnosis": BeginTopic).                    *)
ResumesWhereLeft ==
  [][\A h \in due :
       form = "none" /\ form' = "chat" /\ h \notin due' /\ overlap # "now" =>
         Last(shown') = Expects(store[req[h].learner])]_webVars

(* The saved sessions move as LearningLoop does behind a page that sends   *)
(* at any moment, loses connections and is loaded again, while the last    *)
(* request was sent with no other at work (README.md section 2): a handler *)
(* left at work is no harm by itself.  A step that tears a file makes a    *)
(* session unreadable, of which the loop knows nothing.                    *)
LoopUnlessOverlapping ==
  [][overlap # "now" /\ torn' \subseteq torn => [Loop!Next]_(Loop!vars)]_webVars

=============================================================================
