---------------------------- MODULE LearningLoop ----------------------------
(***************************************************************************)
(* The learning loop the product promises each learner (README.md section  *)
(* 2): a topic is diagnosed before it is practised, practised before it is *)
(* verified, and mastered only from a verification; a miss goes back to    *)
(* practice, a stop abandons the attempt and nothing takes mastery back.   *)
(***************************************************************************)
CONSTANTS Learners, Topics

VARIABLES
  stage,     \* where each learner stands
  at,        \* the topic each learner works on
  mastered   \* the topics each learner has mastered

vars == <<stage, at, mastered>>

Stages == {"new", "stopped", "diagnose", "practice", "verify", "mastered"}

InAttempt(l) == stage[l] \in {"diagnose", "practice", "verify"}

Move(l, to) == stage' = [stage EXCEPT ![l] = to]

Init ==
  /\ stage = [l \in Learners |-> "new"]
  /\ at = [l \in Learners |-> "none"]
  /\ mastered = [l \in Learners |-> {}]

(* A topic begun afresh: diagnosis first, unless it is mastered already. *)
Begin(l) == \E topic \in Topics :
  /\ ~(topic = at[l] /\ InAttempt(l))
  /\ at' = [at EXCEPT ![l] = topic]
  /\ Move(l, IF topic \in mastered[l] THEN "mastered" ELSE "diagnose")
  /\ UNCHANGED mastered

Diagnose(l) ==
  /\ stage[l] = "diagnose"
  /\ Move(l, "practice")
  /\ UNCHANGED <<at, mastered>>

Retry(l) ==
  /\ stage[l] \in {"practice", "verify"}
  /\ Move(l, "practice")
  /\ UNCHANGED <<at, mastered>>

Verify(l) ==
  /\ stage[l] = "practice"
  /\ Move(l, "verify")
  /\ UNCHANGED <<at, mastered>>

Master(l) ==
  /\ stage[l] = "verify"
  /\ Move(l, "mastered")
  /\ mastered' = [mastered EXCEPT ![l] = @ \cup {at[l]}]
  /\ UNCHANGED at

Stop(l) ==
  /\ InAttempt(l)
  /\ Move(l, "stopped")
  /\ UNCHANGED <<at, mastered>>

Next == \E l \in Learners :
  \/ Begin(l)
  \/ Diagnose(l)
  \/ Retry(l)
  \/ Verify(l)
  \/ Master(l)
  \/ Stop(l)

Spec == Init /\ [][Next]_vars

=============================================================================
