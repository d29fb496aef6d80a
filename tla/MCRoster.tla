------------------------------ MODULE MCRoster ------------------------------
(* Three learners, and a name that is none of theirs. *)
EXTENDS Roster

MCFold(x) == x
ThreeLearners == <<"Amaka", "Bello", "Chidi">>
MCStrangers == {"Precious"}
MCQuestions == {[question |-> "7 + 3", expectedAnswer |-> "10"]}
MCAnswers == {"10"}
NoSubjects == {}

=============================================================================
