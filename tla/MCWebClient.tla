---------------------------- MODULE MCWebClient ----------------------------
(***************************************************************************)
(* The page with the Division topic of the shipped catalog in its lowest   *)
(* band, where the second practice question and the transfer question have *)
(* the same answer.                                                        *)
(***************************************************************************)
EXTENDS WebClient, TLC

LOCAL INSTANCE Catalog

MCSubjects == {"Mathematics"}
MCTopics == {"Division", "Addition"}
MCContent == FullCatalog
MCCurriculum == FullCurriculum
MCFold(x) == x

Begin(t, b) == [NoRequest EXCEPT !.kind = "begin", !.learner = "Ada", !.subject = "Mathematics",
                                 !.topic = t, !.gradeBand = b]
Input(x) == [NoRequest EXCEPT !.learner = "Ada", !.input = x]
Report == [NoRequest EXCEPT !.kind = "report", !.learner = "Ada"]

(* 5 is wrong for the first practice question and right for the second and *)
(* for the transfer question.  A diagnosis differs from another by what    *)
(* the provider recommends.                                                *)
MCRequests ==
  {Begin("Division", "Primary 4-6"), Report} \cup {Input(x) : x \in {"5", "stop"}}
DoubleRequests == {Begin("Division", "Primary 4-6")} \cup {Input(x) : x \in {"4", "5", "stop"}}

GoodResult == [concept |-> "division", recommendedAction |-> "practice", confidence |-> 80]
MCResults == {GoodResult, [GoodResult EXCEPT !.recommendedAction = "revise"],
              [GoodResult EXCEPT !.confidence = 101]}

CONSTANTS h1, h2

MCHandlers == {h1, h2}
MCSymmetry == Permutations(MCHandlers)

=============================================================================
