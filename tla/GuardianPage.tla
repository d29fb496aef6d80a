---------------------------- MODULE GuardianPage ----------------------------
(***************************************************************************)
(* The guardians' page (web/guardian.js) in front of the accounts.  It     *)
(* keeps the token and the e-mail of one guardian in localStorage, offers  *)
(* the forms of a guardian signed in or signed out, and loads the account  *)
(* again after everything it was told is recorded.  Nothing keeps it from  *)
(* sending a request while it waits for the reply to another: replies come *)
(* in any order.  Sending is the request's arrival at the server; requests *)
(* and replies may be lost on the way, and all are when the server dies.   *)
(***************************************************************************)
EXTENDS Accounts

VARIABLES
  tok,    \* the token in localStorage, NoToken while signed out
  who,    \* the e-mail in localStorage
  shown,  \* the children and the active plan on the page, listed once loaded
  loads,  \* loadAccount has been called and has not sent its request yet
  out,    \* the sign-out button is there
  asked,  \* the requests whose replies the page still takes
  last,   \* history: the newest load due, unless something it may not tell came after
  behind  \* history: the account may not be as the page shows it

session == <<tok, who>>
page == <<session, shown, loads, out, asked, last, behind>>
pageVars == <<vars, page>>

Blank == [listed |-> FALSE, learners |-> {}, planID |-> NoText]

GuardianTypeOK ==
  /\ tok \in Nat
  /\ who \in STRING
  /\ shown \in [listed : BOOLEAN, learners : SUBSET STRING, planID : PlanIDs \cup {NoText}]
  /\ loads \in BOOLEAN
  /\ out \in BOOLEAN
  /\ asked \subseteq Handlers
  /\ last \in Handlers \cup {Nobody}
  /\ behind \in BOOLEAN

PageInit ==
  /\ Init
  /\ tok = NoToken
  /\ who = NoText
  /\ shown = Blank
  /\ loads = FALSE
  /\ out = FALSE
  /\ asked = {}
  /\ last = Nobody
  /\ behind = FALSE

signedIn == tok # NoToken

(* Nothing happens on the page between a reply and the load it calls for.  *)
Idle == ~loads

(* The account may change, or has changed, unknown to the page. *)
FallsBehind == behind' = TRUE /\ last' = Nobody

KeepsUp == UNCHANGED <<behind, last>>

(* A request the account may look different after, a second registration   *)
(* of the same e-mail among them.                                          *)
Changes(h) == req[h].kind \in {"register", "consent", "plan"}

-----------------------------------------------------------------------------
(* What the forms and the plan cards send.                                 *)

Offered(r) ==
  \/ r.kind \in {"register", "login"} /\ ~signedIn
  \/ r.kind = "consent" /\ signedIn /\ r.learner # NoText
  \/ r.kind = "plan" /\ signedIn /\ shown.listed /\ r.planID \in PlanIDs \ {shown.planID}

Send(h) ==
  /\ Idle
  /\ Arrive(h)
  /\ Offered(req'[h])
  /\ token'[h] = IF req'[h].kind \in Authenticated THEN tok ELSE NoToken
  /\ asked' = asked \cup {h}
  /\ UNCHANGED <<session, shown, loads, out, last, behind>>

(* A plan that does not reach the server: only this one leaves a message.  *)
SendLost ==
  /\ Idle
  /\ \E r \in Requests : r.kind = "plan" /\ Offered(r)
  /\ out' = FALSE
  /\ UNCHANGED <<vars, session, shown, loads, asked, last, behind>>

(* loadAccount asks for the account and for the plans, which never change: *)
(* the one request stands for both.                                        *)
LoadAccount(h) ==
  /\ loads
  /\ Arrive(h)
  /\ req'[h].kind = "me"
  /\ token'[h] = tok
  /\ loads' = FALSE
  /\ asked' = asked \cup {h}
  /\ last' = h
  /\ UNCHANGED <<session, shown, out, behind>>

LoadLost ==
  /\ loads
  /\ loads' = FALSE
  /\ out' = FALSE
  /\ FallsBehind
  /\ UNCHANGED <<vars, session, shown, asked>>

-----------------------------------------------------------------------------
(* What the page makes of a reply.                                         *)

Receive(h) ==
  /\ Idle
  /\ h \in asked
  /\ Finish(h)
  /\ asked' = asked \ {h}

Replies(h, kinds, e) == req[h].kind \in kinds /\ err[h] = e

(* Mutant: the e-mail is kept only if there is none. *)
SignedInAsTokenAlone(h) ==
  /\ Replies(h, {"login"}, NoError)
  /\ tok' = work[h].time
  /\ who' = IF who = NoText THEN work[h].email ELSE who
  /\ loads' = signedIn'
  /\ out' = FALSE
  /\ UNCHANGED shown /\ KeepsUp

signedInAs(h) ==
  /\ Replies(h, {"login"}, NoError)
  /\ tok' = work[h].time
  /\ who' = work[h].email
  /\ loads' = signedIn'
  /\ out' = FALSE
  /\ UNCHANGED shown /\ KeepsUp

(* Mutant: only a consent has the account loaded again. *)
RecordedConsentAlone(h) ==
  /\ Replies(h, {"consent", "plan"}, NoError)
  /\ loads' = (signedIn /\ req[h].kind = "consent")
  /\ out' = FALSE
  /\ UNCHANGED <<session, shown>> /\ KeepsUp

(* Without a token there is no account to load. *)
Recorded(h) ==
  /\ Replies(h, {"consent", "plan"}, NoError)
  /\ loads' = signedIn
  /\ out' = FALSE
  /\ UNCHANGED <<session, shown>> /\ KeepsUp

(* Mutant: without a plan there is one of the name "none". *)
AccountLoadedNone(h) ==
  /\ Replies(h, {"me"}, NoError)
  /\ shown' = [listed |-> TRUE, learners |-> work[h].learners,
               planID |-> IF work[h].planID = NoText THEN "none" ELSE work[h].planID]
  /\ behind' = (h # last)
  /\ last' = IF h = last THEN Nobody ELSE last
  /\ UNCHANGED <<session, loads, out>>

AccountLoaded(h) ==
  /\ Replies(h, {"me"}, NoError)
  /\ shown' = [listed |-> TRUE, learners |-> work[h].learners, planID |-> work[h].planID]
  /\ behind' = (h # last)
  /\ last' = IF h = last THEN Nobody ELSE last
  /\ UNCHANGED <<session, loads, out>>

signedOut(h) ==
  /\ Replies(h, {"plan", "me"}, "ErrUnauthorized")
  /\ tok' = NoToken
  /\ who' = NoText
  /\ out' = FALSE
  /\ FallsBehind
  /\ UNCHANGED <<shown, loads>>

(* A message, and nothing else: an error, or an account to log in to. *)
Told(h) ==
  /\ \/ req[h].kind = "register"
     \/ req[h].kind \in {"login", "consent"} /\ err[h] # NoError
     \/ req[h].kind = "plan" /\ err[h] \notin {NoError, "ErrUnauthorized"}
  /\ out' = FALSE
  /\ IF Changes(h) THEN FallsBehind ELSE KeepsUp
  /\ UNCHANGED <<session, shown, loads>>

Reply(h) ==
  /\ Receive(h)
  /\ signedInAs(h) \/ Recorded(h) \/ AccountLoaded(h) \/ signedOut(h) \/ Told(h)

(* A reply that is lost, or that comes to a page loaded again since. *)
Unheard(h) ==
  /\ Finish(h)
  /\ asked' = asked \ {h}
  /\ out' = (out /\ ~(h \in asked /\ req[h].kind \in {"plan", "me"}))
  /\ IF h = last \/ Changes(h) THEN FallsBehind ELSE KeepsUp
  /\ UNCHANGED <<session, shown, loads>>

-----------------------------------------------------------------------------
(* The guardian signs out, with a button that only a page loaded while     *)
(* signed in has, until its next message; the token stays valid.           *)
SignOut ==
  /\ Idle
  /\ out
  /\ tok' = NoToken
  /\ who' = NoText
  /\ out' = FALSE
  /\ UNCHANGED <<vars, shown, loads, asked, last, behind>>

Reload ==
  /\ Idle
  /\ shown' = Blank
  /\ loads' = signedIn
  /\ out' = signedIn
  /\ asked' = {}
  /\ last' = Nobody
  /\ behind' = FALSE
  /\ UNCHANGED <<vars, session>>

(* The server at work on what it has, killed and started again. *)
Served(h) == pc[h] # "done" /\ HandlerStep(h) /\ UNCHANGED page

ServerDies ==
  /\ Crash
  /\ asked' = {}
  /\ out' = (out /\ \A h \in asked : req[h].kind \notin {"plan", "me"})
  /\ FallsBehind
  /\ UNCHANGED <<session, shown, loads>>

ServerStarts == Restart /\ UNCHANGED page

PageNext ==
  \/ \E h \in Handlers : Send(h) \/ LoadAccount(h) \/ Served(h) \/ Reply(h) \/ Unheard(h)
  \/ SendLost
  \/ LoadLost
  \/ SignOut
  \/ Reload
  \/ ServerDies
  \/ ServerStarts

PageSpec == PageInit /\ [][PageNext]_pageVars

-----------------------------------------------------------------------------
(* While the server runs, the token the page keeps is on record, for the   *)
(* e-mail the page shows, however often either was started again (Login,   *)
(* signedInAs: token and e-mail are two entries of localStorage).          *)
TokenGood ==
  up /\ signedIn => tok \in DOMAIN mem.tokens /\ mem.tokens[tok] = who

(* Once signed in, a guardian stays so until she signs out: "token kept in *)
(* localStorage so a page reload keeps you signed in", and no session ever *)
(* expires, over restarts of the server and failed writes (signedOut).     *)
StaysSignedIn == [][signedIn /\ tok' = NoToken => SignOut]_pageVars

(* With nothing under way, and no failure since it was last loaded, the    *)
(* account on the page is the account on record of the guardian signed in: *)
(* her children and her plan, whoever was signed in before and in whatever *)
(* order replies came, as long as the newest load was answered last        *)
(* (loadAccount, me).                                                      *)
AccountShown ==
  up /\ signedIn /\ shown.listed /\ ~behind /\ Idle /\ AtWork = {} =>
    /\ shown.learners = {l \in DOMAIN mem.consents : mem.consents[l].guardianEmail = who}
    /\ shown.planID = mem.guardians[who].activePlanID

=============================================================================
