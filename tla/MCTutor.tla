------------------------------- MODULE MCTutor -------------------------------
(***************************************************************************)
(* Tutor on the shipped catalog, with the requests that make the           *)
(* interesting cases: every kind of answer to every question a learner can *)
(* meet in a topic, two topics, two grade bands, stop words and rejects.   *)
(***************************************************************************)
EXTENDS Tutor, TLC

LOCAL INSTANCE Catalog

MCSubjects == {"Mathematics", "English Language"}
MCTopics == DOMAIN FullCatalog \cup {"Fractions"}
MCContent == FullCatalog
MCCurriculum == FullCurriculum
MCFold(x) == CASE x = " Stop" -> "stop" [] x = "IDK" -> "idk" [] x = " 4 " -> "4" [] OTHER -> x

Begin(l, u, t, b) ==
  [NoRequest EXCEPT !.kind = "begin", !.learner = l, !.subject = u, !.topic = t, !.gradeBand = b]
Input(l, x) == [NoRequest EXCEPT !.learner = l, !.input = x]
Band(l, b) == [NoRequest EXCEPT !.kind = "band", !.learner = l, !.gradeBand = b]
Report(l) == [NoRequest EXCEPT !.kind = "report", !.learner = l]
Resume(l) == [NoRequest EXCEPT !.kind = "resume", !.learner = l]

(* Evaluations: one that is usable and three that are not. *)
GoodResult == [concept |-> "division", recommendedAction |-> "practice", confidence |-> 80]
MCResults == {GoodResult, [GoodResult EXCEPT !.concept = ""],
              [GoodResult EXCEPT !.recommendedAction = ""], [GoodResult EXCEPT !.confidence = 101]}
TwoResults == {GoodResult, [GoodResult EXCEPT !.confidence = 101]}

(* Division: 4 and 5 answer the practice questions of the lowest band, 5   *)
(* its transfer question too; 9 and 8 belong to the middle band.           *)
DivisionInputs == {" 4 ", "5", "9", "8", "IDK", " Stop", ""}

(* Addition, in every band. *)
AdditionInputs == {"10", "11"}

SerialRequests ==
  {Begin("Ada", "Mathematics", "Division", b) : b \in {"Primary 4-6", "JSS1-3"}}
  \cup {Begin("Ada", "Mathematics", "Addition", "JSS1-3"),
        Begin("Ada", "Mathematics", "Fractions", "JSS1-3"),
        Begin("Ada", "Mathematics", "Division", "JSS9"),
        Begin("Ada", "Mathematics", "", "JSS1-3")}
  \cup {Input("Ada", x) : x \in DivisionInputs \cup AdditionInputs}
  \cup {Band("Ada", "JSS1-3"), Band("Ada", "JSS9"), Report("Ada"), Resume("Ada")}

(* Two handlers at work for one learner, or for two. *)
ConcurrentRequests ==
  {Begin("Ada", "Mathematics", "Division", "Primary 4-6"),
   Begin("Bayo", "Mathematics", "Addition", "JSS1-3")}
  \cup {Input("Ada", x) : x \in {"4", "5", "IDK", " Stop"}}

(* "Never reveal or supply an answer while waiting for a response"         *)
(* (README.md section 3): no reply poses a question together with an       *)
(* explanation that states its answer (SubmitAnswer).                      *)
NeverRevealsAnswer == \A h \in Handlers : out[h].prompt \notin WorkedOut

CONSTANTS h1, h2

MCHandlers == {h1, h2}
MCSymmetry == Permutations(MCHandlers)

=============================================================================
