----------------------------- MODULE MCAccounts -----------------------------
(***************************************************************************)
(* Accounts with a guardian under two spellings of her e-mail and with two *)
(* passwords, one learner, one plan, and a reject of every kind.           *)
(***************************************************************************)
EXTENDS Accounts

MCNormalize(x) == CASE x = "Ngozi@x" -> "ngozi@x" [] x = " Ada" -> "Ada" [] OTHER -> x
MCShort == {"short"}
MCLong == {"longer than 72 bytes"}
MCPlans == {"family-monthly"}

Register1(e, p) == [NoRequest EXCEPT !.kind = "register", !.email = e, !.password = p]
Login1(e, p) == [NoRequest EXCEPT !.email = e, !.password = p]
Consent1(l) == [NoRequest EXCEPT !.kind = "consent", !.learner = l]
Plan1(p) == [NoRequest EXCEPT !.kind = "plan", !.planID = p]
Me1 == [NoRequest EXCEPT !.kind = "me"]

MCRequests ==
  {Register1("ngozi@x", "password 1"), Register1("Ngozi@x", "password 2"),
   Register1("", "password 1"), Register1("ngozi@x", "short"),
   Register1("ngozi@x", "longer than 72 bytes"), Login1("ngozi@x", "password 1"),
   Consent1(" Ada"), Consent1(""), Plan1("family-monthly"), Plan1("free"), Me1}

CONSTANTS h1, h2

MCHandlers == {h1, h2}

=============================================================================
