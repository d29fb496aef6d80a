------------------------------- MODULE Roster -------------------------------
(***************************************************************************)
(* Several learners in one tutoring context (session/roster.go): a session *)
(* per learner and whose turn it is.  The caller poses questions and       *)
(* checks answers on the sessions themselves (Roster.Session); answers     *)
(* come in by SubmitAnswerFor.  No code but the tests uses a roster.       *)
(***************************************************************************)
EXTENDS Session

CONSTANTS
  order,      \* the names passed to NewRoster
  Strangers,  \* other names an answer may come for
  Questions,  \* questions the caller poses, with the one expected answer
  Answers     \* what learners may say

ASSUME OrderType == order \in Seq(STRING)

ASSUME TextType ==
  Questions \subseteq [question : STRING, expectedAnswer : STRING] /\ Answers \subseteq STRING

Position == 1 .. Len(order)

Names == {order[i] : i \in Position}

(* No learner is listed twice. *)
Distinct == \A i, j \in Position : order[i] = order[j] => i = j

VARIABLES
  sessions,  \* the session of each learner
  active,    \* whose turn it is
  err,       \* what the last SubmitAnswerFor returned
  waited     \* history: how often the turn moved since each learner had it

vars == <<sessions, active, err, waited>>

RosterErrors == {NoError, "ErrLearnerNotFound", "ErrLearnerNotActive"}

TypeOK ==
  /\ sessions \in [Names -> Session]
  /\ active \in IF order = <<>> THEN {NoText} ELSE Names
  /\ err \in RosterErrors
  /\ waited \in [Names -> Nat]

Init ==
  /\ sessions = [l \in Names |-> New(l)]
  /\ active = IF order = <<>> THEN NoText ELSE order[1]
  /\ err = NoError
  /\ waited = [l \in Names |-> 0]

(* Mutant: the turn wraps around one learner early. *)
NextAfterWrappingEarly(i) == order[((i + 1) % (Len(order) - 1)) + 1]

(* Mutant: after the last learner it is nobody's turn. *)
NextAfterOrNobody(i) == IF i = Len(order) THEN NoText ELSE order[i + 1]

(* The learner after position i, or the first after the last. *)
NextAfter(i) == order[(i % Len(order)) + 1]

(* The turn passes from the first place the active name has in the order. *)
AdvanceTurn ==
  /\ Len(order) >= 2
  /\ \E i \in Position :
       /\ order[i] = active
       /\ \A j \in Position : order[j] = active => i <= j
       /\ active' = NextAfter(i)
  /\ waited' = [l \in Names |-> IF l = active' THEN 0 ELSE waited[l] + 1]
  /\ UNCHANGED <<sessions, err>>

(* Mutant: any learner of the roster may answer. *)
SubmitErrAnyLearner(name) == IF name \notin Names THEN "ErrLearnerNotFound" ELSE NoError

SubmitErr(name) ==
  IF name \notin Names THEN "ErrLearnerNotFound"
  ELSE IF name # active THEN "ErrLearnerNotActive"
  ELSE NoError

SubmitAnswerFor(name, a) ==
  /\ err' = SubmitErr(name)
  /\ sessions' = IF SubmitErr(name) = NoError
                 THEN [sessions EXCEPT ![name] = SubmitAnswer(@, a)]
                 ELSE sessions
  /\ UNCHANGED <<active, waited>>

(* The caller's own calls of a learner's session. *)
Direct(name) ==
  LET s == sessions[name]
  IN  \E t \in {CheckAnswer(s)}
               \cup {RecordDiagnosticResponse(s, a) : a \in Answers}
               \cup {AskQuestion(s, q.question, q.expectedAnswer) :
                       q \in {p \in Questions : AskQuestionErr(s) = NoError}}
               \cup {AskTransferQuestion(s, q.question, q.expectedAnswer) :
                       q \in {p \in Questions : AskTransferQuestionErr(s, p.question) = NoError}} :
        /\ sessions' = [sessions EXCEPT ![name] = t]
        /\ UNCHANGED <<active, err, waited>>

Next ==
  \/ AdvanceTurn
  \/ \E name \in Names \cup Strangers, a \in Answers : SubmitAnswerFor(name, a)
  \/ \E name \in Names : Direct(name)

Spec == Init /\ [][Next]_vars

-----------------------------------------------------------------------------
Given(s) == IF s.hasAnswer THEN {s.answer} ELSE {}

(* Whoever an answer is submitted for, it reaches no session but that of   *)
(* the learner whose turn it is ("must never accidentally be attributed to *)
(* another learner": SubmitAnswerFor).                                     *)
AnswersInTurn ==
  [][\A l \in Names :
       Given(sessions'[l]) # Given(sessions[l]) /\ sessions'[l].hasAnswer => l = active]_vars

(* The turn "moves to the next learner in roster order, wrapping around to *)
(* the first learner after the last" (AdvanceTurn): every learner has had  *)
(* it within one round of the roster.                                      *)
EveryoneGetsTurn == \A l \in Names : waited[l] < Len(order)

=============================================================================
