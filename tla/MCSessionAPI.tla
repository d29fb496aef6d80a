---------------------------- MODULE MCSessionAPI ----------------------------
(* SessionAPI on two topics of one subject, two questions and three kinds  *)
(* of answers: right, wrong and uncertain.                                 *)
EXTENDS SessionAPI

MCSubjects == {"Mathematics"}
MCTopics == {"Addition", "Division"}
MCQuestions == {"q1", "q2"}
MCBands == {"JSS1-3", "SSS9"}
MCExpected == {"10"}
MCAnswers == {"10", "9", "IDK "}
MCResponses == {"I can count"}
MCFold(x) == CASE x = "IDK " -> "idk" [] OTHER -> x
MCResults == {[concept |-> "addition", recommendedAction |-> "practice", confidence |-> 100],
              [concept |-> "addition", recommendedAction |-> "practice", confidence |-> 101]}
=============================================================================
