--------------------------- MODULE MCGuardianPage ---------------------------
(***************************************************************************)
(* The page with two guardians who sign in and out of it, one learner both *)
(* may consent for, and one plan.                                          *)
(***************************************************************************)
EXTENDS GuardianPage, TLC

MCNormalize(x) == x
MCShort == {}
MCPlans == {"family-monthly"}

Password == [e \in {"ngozi@x", "bola@x"} |-> "password 1"]
MCStored ==
  [NoData EXCEPT !.guardians = [e \in DOMAIN Password |->
                                  [passwordHash |-> Password[e], activePlanID |-> NoText]]]

MCRequests ==
  {[NoRequest EXCEPT !.email = e, !.password = Password[e]] : e \in DOMAIN Password}
  \cup {[NoRequest EXCEPT !.kind = "consent", !.learner = "Ada"],
        [NoRequest EXCEPT !.kind = "plan", !.planID = "family-monthly"],
        [NoRequest EXCEPT !.kind = "me"]}

CONSTANTS h1, h2

MCHandlers == {h1, h2}
MCSymmetry == Permutations(MCHandlers)

=============================================================================
