--------------------------- MODULE GuardianProofs ---------------------------
(***************************************************************************)
(* Behind the guardians' page there are the accounts, so what is proved of *)
(* them holds there; and a guardian signed in on it is never told that her *)
(* session has expired.                                                    *)
(***************************************************************************)
EXTENDS GuardianPage, AccountsProofs

(* Every step of the page is a step of the accounts, or none.              *)
LEMMA PageStep == [PageNext]_pageVars => [Next]_vars
<1> SUFFICES ASSUME [PageNext]_pageVars PROVE [Next]_vars
  OBVIOUS
<1>1. ASSUME NEW h \in Handlers, Send(h) \/ LoadAccount(h) PROVE Next
  BY <1>1 DEF Send, LoadAccount, Next
<1>2. ASSUME NEW h \in Handlers, Served(h) PROVE Next
  BY <1>2 DEF Served, Next
<1>3. ASSUME NEW h \in Handlers, Reply(h) \/ Unheard(h) PROVE Next
  BY <1>3 DEF Reply, Receive, Unheard, Next, HandlerStep, Proceed
<1>4. CASE SendLost \/ LoadLost BY <1>4 DEF SendLost, LoadLost
<1>5. CASE SignOut \/ Reload BY <1>5 DEF SignOut, Reload
<1>6. CASE ServerDies \/ ServerStarts BY <1>6 DEF ServerDies, ServerStarts, Next
<1>7. CASE UNCHANGED pageVars BY <1>7 DEF pageVars
<1> QED BY <1>1, <1>2, <1>3, <1>4, <1>5, <1>6, <1>7 DEF PageNext

(* The page with the server implements the accounts.                       *)
THEOREM PageImplementsAccounts == PageSpec => Spec
<1>1. PageInit => Init BY DEF PageInit
<1> QED BY <1>1, PageStep, PTL DEF PageSpec, Spec

-----------------------------------------------------------------------------
(* The token t is that of e in the file, and in the memory of a server     *)
(* that runs.                                                              *)
OnRecord(t, e) == disk.tokens[t] = e /\ (up => mem.tokens[t] = e)

(* A request carries a token its client was told, or none, and only        *)
(* without one it is refused.                                              *)
Presented(h) ==
  /\ token[h] \in told.tokens \cup {NoToken}
  /\ pc[h] # "done" => err[h] = NoError
  /\ err[h] = "ErrUnauthorized" => token[h] = NoToken

(* A login has a token of its own, and once answered it is on record.      *)
Issued(h) ==
  /\ /\ req[h].kind = "login"
     /\ pc[h] \in {"saveToken", "write"} \/ (pc[h] = "done" /\ err[h] = NoError)
     => work[h].time # NoToken
  /\ req[h].kind = "login" /\ pc[h] = "write" => mem.tokens[work[h].time] = work[h].email
  /\ req[h].kind = "login" /\ pc[h] = "done" /\ err[h] = NoError =>
       OnRecord(work[h].time, work[h].email)

PInv ==
  /\ IInv
  /\ \A h \in Handlers : Presented(h) /\ Issued(h)
  /\ GuardianTypeOK
  /\ signedIn => tok \in told.tokens /\ OnRecord(tok, who)
  /\ loads => signedIn
  /\ \A h \in asked : req[h].kind \in {"plan", "me"} => token[h] # NoToken

(* A token in the file stays that of its guardian, in file and memory.     *)
LEMMA RecordStays ==
  ASSUME IInv, [Next]_vars, NEW t \in DOMAIN disk.tokens, NEW e, OnRecord(t, e)
  PROVE  t \in DOMAIN disk'.tokens /\ OnRecord(t, e)'
<1>1. ASSUME NEW h \in Handlers, Save(h) \/ SaveFails(h)
      PROVE  t \in DOMAIN disk'.tokens /\ OnRecord(t, e)'
  <2>1. Saving(h) /\ mem' = Changed(h) /\ UNCHANGED <<up, disk>>
    BY <1>1 DEF Save, SaveFails
  <2>2. up BY <2>1 DEF IInv, Entitled, OnItsWay, Saving
  <2>3. t \in DOMAIN mem.tokens BY <2>2 DEF IInv, Within
  <2>4. Changed(h).tokens[t] = mem.tokens[t] BY <2>1, <2>3, ChangedSound
  <2> QED BY <2>1, <2>2, <2>4 DEF OnRecord
<1>2. ASSUME NEW h \in Handlers, Written(h)
      PROVE  t \in DOMAIN disk'.tokens /\ OnRecord(t, e)'
  <2>1. up BY <1>2 DEF Written, IInv, Entitled, OnItsWay
  <2> QED BY <1>2, <2>1 DEF Written, OnRecord, IInv, Within
<1>3. CASE Crash BY <1>3 DEF Crash, OnRecord
<1>4. CASE Restart BY <1>4 DEF Restart, OnRecord
<1>5. CASE UNCHANGED <<up, mem, disk>> BY <1>5 DEF OnRecord
<1>6. ASSUME NEW h \in Handlers, Arrive(h) \/ HandlerStep(h),
             ~(Save(h) \/ SaveFails(h) \/ Written(h))
      PROVE  UNCHANGED <<up, mem, disk>>
  BY <1>6 DEF Arrive, HandlerStep, Proceed, Register, Login, Authenticate, Consent, Subscribe,
              Me, MePlan, Local, WriteFails, Finish
<1> QED BY <1>1, <1>2, <1>3, <1>4, <1>5, <1>6 DEF Next, vars

(* Clients forget nothing they were told. *)
LEMMA ToldStays == ASSUME IInv, [Next]_vars PROVE told.tokens \subseteq told'.tokens
<1>1. ASSUME NEW h \in Handlers, Finish(h) PROVE told.tokens \subseteq told'.tokens
  BY <1>1 DEF Finish, Learned, IInv, TypeOK
<1>2. ASSUME NEW h \in Handlers, Arrive(h) \/ HandlerStep(h), ~Finish(h) PROVE told' = told
  BY <1>2 DEF Arrive, HandlerStep, Proceed, Register, Login, Authenticate, Consent, Subscribe,
              Me, MePlan, Local, Save, Written, SaveFails, WriteFails
<1>3. CASE Crash \/ Restart \/ UNCHANGED vars BY <1>3 DEF Crash, Restart, vars
<1> QED BY <1>1, <1>2, <1>3 DEF Next

(* What a handler that does not step holds of its request stays.           *)
LEMMA OthersKeep ==
  ASSUME IInv, [Next]_vars, NEW k \in Handlers, Presented(k), Issued(k),
         \/ req'[k] = NoRequest /\ token'[k] = NoToken /\ err'[k] = NoError /\ pc'[k] = "idle"
         \/ /\ pc'[k] = pc[k] /\ req'[k] = req[k] /\ token'[k] = token[k]
            /\ work'[k] = work[k] /\ err'[k] = err[k]
  PROVE  Presented(k)' /\ Issued(k)'
<1>1. CASE req'[k] = NoRequest /\ token'[k] = NoToken /\ err'[k] = NoError /\ pc'[k] = "idle"
  BY <1>1 DEF Presented, Issued, NoError
<1>2. CASE /\ pc'[k] = pc[k] /\ req'[k] = req[k] /\ token'[k] = token[k]
           /\ work'[k] = work[k] /\ err'[k] = err[k]
  <2>1. Presented(k)' BY <1>2, ToldStays DEF Presented
  <2>2. ASSUME req[k].kind = "login", pc[k] = "done", err[k] = NoError
        PROVE  OnRecord(work[k].time, work[k].email)'
    <3>1. work[k].time \in DOMAIN disk.tokens /\ OnRecord(work[k].time, work[k].email)
      BY <2>2 DEF Issued, IInv, Entitled, Done
    <3>2. OnRecord(work[k].time, work[k].email)' <=> 
            disk'.tokens[work[k].time] = work[k].email
              /\ (up' => mem'.tokens[work[k].time] = work[k].email)
      BY <1>2 DEF OnRecord
    <3> QED BY <3>1, <3>2, RecordStays DEF OnRecord
  <2>3. ASSUME req[k].kind = "login", pc[k] = "write"
        PROVE  mem'.tokens[work[k].time] = work[k].email
    <3>1. /\ up
          /\ work[k].time \in DOMAIN mem.tokens
          /\ mem.tokens[work[k].time] = work[k].email
      BY <2>3 DEF Issued, IInv, Entitled, OnItsWay, Done
    <3>2. ASSUME NEW h \in Handlers, Save(h) \/ SaveFails(h)
          PROVE  mem'.tokens[work[k].time] = work[k].email
      <4>1. Saving(h) /\ mem' = Changed(h) BY <3>2 DEF Save, SaveFails
      <4> QED BY <3>1, <4>1, ChangedSound
    <3>3. ASSUME ~(\E h \in Handlers : Save(h) \/ SaveFails(h)), ~Crash PROVE mem' = mem
      BY <3>1, <3>3 DEF Next, vars, Restart, Arrive, HandlerStep, Proceed, Register, Login,
              Authenticate, Consent, Subscribe, Me, MePlan, Local, Written, WriteFails, Finish
    <3>4. ~Crash BY <1>2, <2>3 DEF Crash
    <3> QED BY <3>1, <3>2, <3>3, <3>4
  <2>4. Issued(k)' BY <1>2, <2>2, <2>3 DEF Issued
  <2> QED BY <2>1, <2>4
<1> QED BY <1>1, <1>2

(* Presented and Issued hold for a handler after each of its own steps.    *)
LEMMA OwnKeeps ==
  ASSUME IInv, NEW h \in Handlers, Presented(h), Issued(h), Arrive(h) \/ HandlerStep(h)
  PROVE  Presented(h)' /\ Issued(h)'
<1> USE DEF Presented, Issued
<1>0. IInv /\ TypeOK /\ Entitled(h) BY DEF IInv
<1>1. CASE Arrive(h)
  <2>1. PICK r \in Requests, t \in told.tokens \cup {NoToken} :
          /\ req' = [req EXCEPT ![h] = r]
          /\ token' = [token EXCEPT ![h] = t]
          /\ \/ Goto(h, FirstStep(r)) /\ err' = err
             \/ RequestErr(r) # NoError /\ Refuse(h, RequestErr(r))
          /\ pc[h] = "idle"
          /\ told' = told
    BY <1>1 DEF Arrive
  <2>2. r \in Request BY RequestsType
  <2>3. RequestErr(r) # "ErrUnauthorized" BY DEF RequestErr, NoError
  <2>4. FirstStep(r) \in {"register", "login", "authenticate"}
    BY <2>2 DEF FirstStep, Request, Kinds, Authenticated
  <2> QED BY <1>0, <2>1, <2>3, <2>4 DEF TypeOK, Goto, Refuse, NoError
<1>2. CASE Register(h) \/ Login(h) \/ Consent(h) \/ Subscribe(h) \/ Me(h) \/ MePlan(h)
  <2>1. /\ UNCHANGED <<up, mem, disk, torn, lock, req, token, told>>
        /\ pc[h] \notin {"idle", "done", "write"}
    BY <1>2 DEF Register, Login, Consent, Subscribe, Me, MePlan, Local, Reads
  <2>2. \/ err' = err /\ pc'[h] \notin {"done", "write"}
        \/ err' = err /\ pc'[h] = "done" /\ pc[h] = "mePlan"
        \/ pc'[h] = "done" /\ err'[h] \notin {NoError, "ErrUnauthorized"}
    <3>1. CASE Register(h) \/ Login(h) \/ Consent(h)
      BY <1>0, <3>1 DEF Register, Login, Consent, Goto, Refuse, TypeOK, NoError
    <3>2. CASE Subscribe(h)
      <4>1. SubscribeErr(work[h].email, req[h].planID) # "ErrUnauthorized"
        BY DEF SubscribeErr, NoError
      <4> QED BY <1>0, <3>2, <4>1 DEF Subscribe, Goto, Refuse, TypeOK, NoError
    <3>3. CASE Me(h) \/ MePlan(h)
      BY <1>0, <3>3 DEF Me, MePlan, Reads, Goto, TypeOK
    <3> QED BY <1>2, <3>1, <3>2, <3>3
  <2>3. pc'[h] = "saveToken" => work'[h].time # NoToken
    <3>1. CASE Login(h)
      <4>1. now \in Nat BY <1>0 DEF TypeOK
      <4>2. \/ pc' = [pc EXCEPT ![h] = "done"]
            \/ work' = [work EXCEPT ![h] = [work[h] EXCEPT !.time = now + 1]]
        BY <1>0, <3>1 DEF Login, Refuse, Goto, TypeOK
      <4>3. work[h] \in Draft BY <1>0 DEF TypeOK
      <4>4. [work[h] EXCEPT !.time = now + 1].time = now + 1 BY <4>3 DEF Draft
      <4>5. now + 1 # NoToken BY <4>1 DEF NoToken
      <4> QED BY <1>0, <4>2, <4>4, <4>5 DEF TypeOK
    <3>2. CASE ~Login(h)
      BY <1>0, <1>2, <3>2 DEF Register, Consent, Subscribe, Me, MePlan, Goto, Refuse, TypeOK
    <3> QED BY <3>1, <3>2
  <2> QED BY <1>0, <2>1, <2>2, <2>3 DEF Entitled, OnItsWay, NoError
<1>3. CASE Authenticate(h)
  <2>1. up /\ req[h].kind \in Authenticated
    BY <1>0, <1>3 DEF Authenticate, Reads, Entitled, OnItsWay
  <2>2. told.tokens \subseteq DOMAIN mem.tokens
    BY <1>0, <2>1 DEF IInv, ToldKept, Within
  <2> QED BY <1>0, <1>3, <2>1, <2>2
          DEF Authenticate, Authenticated, Reads, Local, Goto, Refuse, TypeOK, NoError
<1>4. CASE Save(h)
  <2>1. /\ Saving(h)
        /\ mem' = Changed(h)
        /\ pc' = [pc EXCEPT ![h] = "write"]
        /\ UNCHANGED <<up, disk, req, token, work, err, told>>
    BY <1>4 DEF Save, Goto
  <2>2. ASSUME req[h].kind = "login" PROVE mem'.tokens[work[h].time] = work[h].email
    <3>1. pc[h] = "saveToken" BY <1>0, <2>1, <2>2 DEF Saving, Entitled, OnItsWay
    <3>2. mem' = [mem EXCEPT !.tokens = Put(mem.tokens, work[h].time, work[h].email)]
      BY <2>1, <3>1 DEF Changed
    <3>3. mem'.tokens = Put(mem.tokens, work[h].time, work[h].email)
      BY <1>0, <3>2 DEF TypeOK, IsData
    <3> QED BY <3>3 DEF Put
  <2> QED BY <1>0, <2>1, <2>2 DEF TypeOK, Saving, Entitled, OnItsWay, NoError
<1>5. CASE Written(h)
  BY <1>0, <1>5 DEF Written, Goto, TypeOK, OnRecord, NoError
<1>6. CASE SaveFails(h) \/ WriteFails(h)
  BY <1>0, <1>6 DEF SaveFails, WriteFails, Refuse, Goto, TypeOK, NoError
<1>7. CASE Finish(h)
  BY <1>0, <1>7 DEF Finish, Goto, TypeOK, NoError
<1> QED BY <1>1, <1>2, <1>3, <1>4, <1>5, <1>6, <1>7 DEF HandlerStep, Proceed

(* So they hold for every handler after every step.                        *)
LEMMA HandlersKeep ==
  ASSUME IInv, [Next]_vars, \A h \in Handlers : Presented(h) /\ Issued(h)
  PROVE  \A k \in Handlers : Presented(k)' /\ Issued(k)'
<1> SUFFICES ASSUME NEW k \in Handlers PROVE Presented(k)' /\ Issued(k)'
  OBVIOUS
<1>0. TypeOK BY DEF IInv
<1>1. CASE Crash BY <1>1, OthersKeep DEF Crash
<1>2. CASE Restart BY <1>2, OthersKeep DEF Restart
<1>3. CASE UNCHANGED vars BY <1>3, OthersKeep DEF vars
<1>4. ASSUME NEW h \in Handlers, Arrive(h) \/ HandlerStep(h)
      PROVE  Presented(k)' /\ Issued(k)'
  <2>1. CASE k = h BY <1>4, <2>1, OwnKeeps
  <2>2. CASE k # h
    <3>1. /\ pc'[k] = pc[k] /\ req'[k] = req[k] /\ token'[k] = token[k]
          /\ work'[k] = work[k] /\ err'[k] = err[k]
      BY <1>0, <1>4, <2>2
         DEF TypeOK, Arrive, HandlerStep, Proceed, Register, Login, Authenticate, Consent,
             Subscribe, Me, MePlan, Local, Save, Written, SaveFails, WriteFails, Finish,
             Goto, Refuse
    <3> QED BY <3>1, OthersKeep
  <2> QED BY <2>1, <2>2
<1> QED BY <1>1, <1>2, <1>3, <1>4 DEF Next

-----------------------------------------------------------------------------
(* PInv holds at the start. *)
LEMMA PageInitSound == PageInit => PInv
<1> SUFFICES ASSUME PageInit PROVE PInv
  OBVIOUS
<1>1. IInv BY InitSound DEF PageInit
<1>2. \A h \in Handlers : Presented(h) /\ Issued(h)
  BY DEF PageInit, Init, Presented, Issued, NoError
<1>3. GuardianTypeOK
  BY TextType DEF PageInit, GuardianTypeOK, Blank, NoToken
<1> QED BY <1>1, <1>2, <1>3 DEF PageInit, PInv, signedIn

(* A step of the page alone, or of the server alone, that leaves the       *)
(* session as it is, or ends it, keeps the session good.                   *)
LEMMA SessionStays ==
  ASSUME PInv, [Next]_vars, session' = session \/ tok' = NoToken
  PROVE  signedIn' => tok' \in told'.tokens /\ OnRecord(tok, who)'
<1> SUFFICES ASSUME tok' # NoToken PROVE tok' \in told'.tokens /\ OnRecord(tok, who)'
  BY DEF signedIn
<1>1. tok' = tok /\ who' = who /\ signedIn BY DEF session, signedIn
<1>2. tok \in told.tokens /\ OnRecord(tok, who) /\ tok \in DOMAIN disk.tokens
  BY <1>1 DEF PInv, IInv, ToldKept
<1>3. tok \in told'.tokens BY <1>2, ToldStays DEF PInv
<1>4. disk'.tokens[tok] = who /\ (up' => mem'.tokens[tok] = who)
  BY <1>2, RecordStays DEF PInv, OnRecord
<1> QED BY <1>1, <1>3, <1>4 DEF OnRecord

(* No reply tells a guardian that her session has expired.                 *)
LEMMA NeverExpired == ASSUME PInv, NEW h \in Handlers, Receive(h) PROVE ~signedOut(h)
  BY DEF PInv, Receive, signedOut, Replies, Presented

(* Replies that change the session, and those that do not, keep it good.   *)
LEMMA ReplyKeeps ==
  ASSUME PInv, [Next]_vars, NEW h \in Handlers, Reply(h)
  PROVE  /\ GuardianTypeOK'
         /\ signedIn' => tok' \in told'.tokens /\ OnRecord(tok, who)'
         /\ loads' => signedIn'
<1>1. /\ Receive(h) /\ Finish(h) /\ ~loads /\ asked' = asked \ {h} /\ pc[h] = "done"
      /\ GuardianTypeOK /\ IInv /\ Issued(h) /\ work[h] \in Draft
  BY DEF Reply, Receive, Idle, Finish, PInv, IInv, TypeOK
<1>2. CASE signedInAs(h)
  <2>1. /\ tok' = work[h].time /\ who' = work[h].email
        /\ loads' = signedIn' /\ out' = FALSE
        /\ UNCHANGED <<shown, behind, last>>
        /\ req[h].kind = "login" /\ err[h] = NoError
    BY <1>2 DEF signedInAs, Replies, KeepsUp
  <2>2. UNCHANGED <<up, mem, disk>> /\ told' = Learned(h) BY <1>1 DEF Finish
  <2>3. tok' \in told'.tokens
    BY <1>1, <2>1, <2>2 DEF Learned, IInv, TypeOK
  <2>4. disk.tokens[work[h].time] = work[h].email /\ (up => mem.tokens[work[h].time] = work[h].email)
    BY <1>1, <2>1 DEF Issued, OnRecord
  <2>5. OnRecord(tok, who)' BY <2>1, <2>2, <2>4 DEF OnRecord
  <2>6. GuardianTypeOK'
    BY <1>1, <2>1 DEF GuardianTypeOK, Draft, signedIn
  <2> QED BY <2>1, <2>3, <2>5, <2>6
<1>3. CASE Recorded(h) \/ AccountLoaded(h) \/ Told(h)
  <2>1. session' = session
    BY <1>3 DEF Recorded, AccountLoaded, Told
  <2>2. loads' => signedIn'
    BY <1>1, <1>3 DEF Recorded, AccountLoaded, Told, signedIn, session
  <2>3. GuardianTypeOK'
    <3>1. CASE Recorded(h)
      BY <1>1, <3>1 DEF Recorded, GuardianTypeOK, session, signedIn, KeepsUp
    <3>2. CASE AccountLoaded(h)
      <4>1. shown' \in [listed : BOOLEAN, learners : SUBSET STRING, planID : PlanIDs \cup {NoText}]
        BY <1>1, <3>2 DEF AccountLoaded, Draft
      <4> QED BY <1>1, <3>2, <4>1 DEF AccountLoaded, GuardianTypeOK, session
    <3>3. CASE Told(h)
      BY <1>1, <3>3 DEF Told, GuardianTypeOK, session, KeepsUp, FallsBehind
    <3> QED BY <1>3, <3>1, <3>2, <3>3
  <2> QED BY <2>1, <2>2, <2>3, SessionStays
<1> QED BY <1>1, <1>2, <1>3, NeverExpired DEF Reply

(* Every step of the page keeps PInv.                                      *)
LEMMA PageStepSound == PInv /\ [PageNext]_pageVars => PInv'
<1> SUFFICES ASSUME PInv, [PageNext]_pageVars PROVE PInv'
  OBVIOUS
<1>0. [Next]_vars /\ IInv /\ TypeOK /\ GuardianTypeOK BY PageStep DEF PInv, IInv
<1>1. IInv' BY <1>0, StepSound
<1>2. \A k \in Handlers : Presented(k)' /\ Issued(k)' BY <1>0, HandlersKeep DEF PInv
<1> DEFINE Sent == \A k \in asked : req[k].kind \in {"plan", "me"} => token[k] # NoToken
           Held == signedIn => tok \in told.tokens /\ OnRecord(tok, who)
           Rest == GuardianTypeOK /\ Held /\ (loads => signedIn) /\ Sent
<1> SUFFICES Rest' BY <1>1, <1>2 DEF PInv
<1>3. ASSUME NEW h \in Handlers, Send(h) \/ LoadAccount(h) PROVE Rest'
  <2>1. session' = session /\ asked' = asked \cup {h} /\ (loads' => loads)
    BY <1>3 DEF Send, LoadAccount
  <2>2. Held' BY <1>0, <2>1, SessionStays
  <2>3. GuardianTypeOK'
    BY <1>0, <1>3 DEF Send, LoadAccount, GuardianTypeOK, session
  <2>4. /\ \A k \in Handlers : k # h => req'[k] = req[k] /\ token'[k] = token[k]
        /\ req'[h].kind \in {"plan", "me"} => token'[h] = tok /\ signedIn
    BY <1>0, <1>3 DEF Send, LoadAccount, Arrive, Offered, Authenticated, TypeOK, PInv
  <2>5. Sent' BY <1>0, <2>1, <2>4 DEF PInv, GuardianTypeOK, signedIn
  <2> QED BY <2>1, <2>2, <2>3, <2>5 DEF PInv, signedIn, session
<1>4. ASSUME NEW h \in Handlers, Served(h) PROVE Rest'
  <2>1. UNCHANGED <<page, session, req, token>>
    BY <1>4 DEF Served, HandlerStep, Proceed, Register, Login, Authenticate, Consent, Subscribe,
                Me, MePlan, Local, Save, Written, SaveFails, WriteFails, Finish, page
  <2>2. Held' BY <1>0, <2>1, SessionStays
  <2> QED BY <1>0, <2>1, <2>2 DEF PInv, GuardianTypeOK, page, session, signedIn
<1>5. ASSUME NEW h \in Handlers, Reply(h) \/ Unheard(h) PROVE Rest'
  <2>1. /\ asked' = asked \ {h}
        /\ \A k \in Handlers : k # h => req'[k] = req[k] /\ token'[k] = token[k]
    BY <1>0, <1>5 DEF Reply, Receive, Unheard, Finish, TypeOK
  <2>2. Sent' BY <1>0, <2>1 DEF PInv, GuardianTypeOK
  <2>3. CASE Reply(h) BY <1>0, <2>2, <2>3, ReplyKeeps
  <2>4. CASE Unheard(h)
    <3>1. session' = session /\ loads' = loads BY <2>4 DEF Unheard
    <3>2. Held' BY <1>0, <3>1, SessionStays
    <3>3. GuardianTypeOK'
      BY <1>0, <2>4 DEF Unheard, GuardianTypeOK, session, KeepsUp, FallsBehind
    <3> QED BY <2>2, <3>1, <3>2, <3>3 DEF PInv, signedIn, session
  <2> QED BY <1>5, <2>3, <2>4
<1>6. CASE SendLost \/ LoadLost \/ Reload \/ ServerStarts \/ UNCHANGED pageVars
  <2>1. UNCHANGED <<session, req, token>> /\ asked' \subseteq asked /\ (loads' => loads \/ signedIn)
    BY <1>6 DEF SendLost, LoadLost, Reload, ServerStarts, Restart, pageVars, vars, page
  <2>2. Held' BY <1>0, <2>1, SessionStays
  <2>3. GuardianTypeOK'
    <3>1. CASE SendLost \/ LoadLost
      BY <1>0, <3>1 DEF SendLost, LoadLost, GuardianTypeOK, session, FallsBehind
    <3>2. CASE Reload
      <4>1. Blank \in [listed : BOOLEAN, learners : SUBSET STRING, planID : PlanIDs \cup {NoText}]
        BY DEF Blank
      <4> QED BY <1>0, <3>2, <4>1 DEF Reload, GuardianTypeOK, session, signedIn
    <3>3. CASE ServerStarts \/ UNCHANGED pageVars
      BY <1>0, <3>3 DEF ServerStarts, pageVars, page, GuardianTypeOK, session
    <3> QED BY <1>6, <3>1, <3>2, <3>3
  <2> QED BY <2>1, <2>2, <2>3 DEF PInv, signedIn, session
<1>7. CASE SignOut
  <2>1. tok' = NoToken /\ UNCHANGED <<req, token, asked, loads>> /\ ~loads
    BY <1>7 DEF SignOut, vars, Idle
  <2>2. GuardianTypeOK'
    BY <1>0, <1>7, TextType DEF SignOut, GuardianTypeOK, NoToken
  <2> QED BY <2>1, <2>2 DEF PInv, signedIn
<1>8. CASE ServerDies
  <2>1. UNCHANGED <<session, loads>> /\ asked' = {} BY <1>8 DEF ServerDies
  <2>2. Held' BY <1>0, <2>1, SessionStays
  <2>3. GuardianTypeOK'
    BY <1>0, <1>8 DEF ServerDies, GuardianTypeOK, session, FallsBehind
  <2> QED BY <2>1, <2>2, <2>3 DEF PInv, signedIn, session
<1> QED BY <1>3, <1>4, <1>5, <1>6, <1>7, <1>8 DEF PageNext

LEMMA PageInvariance == PageSpec => []PInv
  BY PageInitSound, PageStepSound, PTL DEF PageSpec

(* What the page keeps has its types, whatever is lost or comes late.      *)
THEOREM PageTypeCorrect == PageSpec => []GuardianTypeOK
<1>1. PInv => GuardianTypeOK BY DEF PInv
<1> QED BY <1>1, PageInvariance, PTL

(* The token the page keeps is good, and of the e-mail the page shows,     *)
(* after any number of crashes, failed writes and logins out of order      *)
(* (signedInAs, Login).                                                    *)
THEOREM TokenAlwaysGood == PageSpec => []TokenGood
<1>1. PInv => TokenGood
  BY DEF PInv, TokenGood, OnRecord, IInv, ToldKept, Within
<1> QED BY <1>1, PageInvariance, PTL

(* A guardian once signed in is signed out by her own click alone          *)
(* (signedOut, Authenticate).                                              *)
THEOREM StaysSignedInAlways == PageSpec => StaysSignedIn
<1>1. PInv /\ [PageNext]_pageVars => [signedIn /\ tok' = NoToken => SignOut]_pageVars
  <2> SUFFICES ASSUME PInv, PageNext, signedIn, tok' = NoToken PROVE SignOut
    OBVIOUS
  <2>1. tok' # tok BY DEF signedIn
  <2>2. ASSUME NEW h \in Handlers, Reply(h) PROVE FALSE
    <3>1. ~signedOut(h) BY <2>2, NeverExpired DEF Reply
    <3>2. signedInAs(h)
      BY <2>1, <2>2, <3>1 DEF Reply, Recorded, AccountLoaded, Told, session
    <3>3. work[h].time = NoToken /\ req[h].kind = "login" /\ err[h] = NoError
      BY <3>2 DEF signedInAs, Replies
    <3>4. Issued(h) /\ pc[h] = "done" BY <2>2 DEF PInv, Reply, Receive, Finish
    <3> QED BY <3>3, <3>4 DEF Issued
  <2> QED BY <2>1, <2>2 DEF PageNext, Send, LoadAccount, Served, Unheard, SendLost, LoadLost,
                            Reload, ServerDies, ServerStarts, page, session
<1> QED BY <1>1, PageInvariance, PTL DEF PageSpec, StaysSignedIn

-----------------------------------------------------------------------------
(* The account on the page, and what the newest load has read of it so     *)
(* far.                                                                    *)

ShowsAccount == shown.learners = Learners(who) /\ shown.planID = ActivePlan(who)

LoadTrue(h) ==
  /\ token[h] = tok
  /\ pc[h] \in {"me", "mePlan"} => work[h].email = who
  /\ pc[h] \in {"mePlan", "done"} => work[h].learners = Learners(who)
  /\ pc[h] = "done" => work[h].planID = ActivePlan(who)

(* Nothing that may change the account is under way. *)
Quiet ==
  /\ up /\ signedIn /\ Idle
  /\ \A k \in Handlers : pc[k] # "idle" => ~Changes(k)

Newest ==
  last # Nobody => pc[last] \in {"authenticate", "me", "mePlan", "done"} /\ req[last].kind = "me"

LInv ==
  /\ Newest
  /\ ~up => last = Nobody /\ (behind \/ ~shown.listed)
  /\ Quiet => IF last = Nobody THEN shown.listed /\ ~behind => ShowsAccount
              ELSE LoadTrue(last)

(* A request that changes no account leaves the accounts and the consents  *)
(* on record alone, whatever it saves.                                     *)
LEMMA AccountsStay ==
  ASSUME IInv, NEW h \in Handlers, Arrive(h) \/ HandlerStep(h), pc[h] # "idle" => ~Changes(h)
  PROVE  /\ mem'.guardians = mem.guardians /\ mem'.consents = mem.consents
         /\ \A e : Learners(e)' = Learners(e) /\ ActivePlan(e)' = ActivePlan(e)
<1>1. mem'.guardians = mem.guardians /\ mem'.consents = mem.consents
  <2>1. CASE Save(h) \/ SaveFails(h)
    <3>1. Saving(h) /\ mem' = Changed(h) BY <2>1 DEF Save, SaveFails
    <3>2. pc[h] = "saveToken"
      BY <3>1 DEF Changes, Saving, IInv, Entitled, OnItsWay
    <3>3. mem' = [mem EXCEPT !.tokens = Put(mem.tokens, work[h].time, work[h].email)]
      BY <3>1, <3>2 DEF Changed
    <3> QED BY <3>3 DEF IInv, TypeOK, IsData
  <2>2. CASE ~(Save(h) \/ SaveFails(h))
    BY <2>2 DEF Arrive, HandlerStep, Proceed, Register, Login, Authenticate, Consent, Subscribe,
                Me, MePlan, Local, Written, WriteFails, Finish
  <2> QED BY <2>1, <2>2
<1> QED BY <1>1 DEF Learners, ActivePlan

(* The steps of the server keep LInv: what the newest load reads is true.  *)
LEMMA ServedKeeps == ASSUME PInv, LInv, NEW h \in Handlers, Served(h) PROVE LInv'
<1>0. /\ IInv /\ TypeOK /\ GuardianTypeOK /\ Entitled(h)
      /\ HandlerStep(h) /\ ~Finish(h) /\ UNCHANGED page
  BY DEF PInv, IInv, Served, Finish
<1>1. /\ UNCHANGED <<up, req, token>>
      /\ pc[h] # "idle" /\ pc'[h] # "idle" /\ up
      /\ \A k \in Handlers : k # h => pc'[k] = pc[k] /\ work'[k] = work[k]
  <2>1. pc[h] # "idle"
    BY <1>0 DEF HandlerStep, Proceed, Register, Login, Authenticate, Consent, Subscribe, Me,
                MePlan, Reads, Save, Written, SaveFails, WriteFails, Saving
  <2>2. UNCHANGED <<up, req, token>>
    BY <1>0 DEF HandlerStep, Proceed, Register, Login, Authenticate, Consent, Subscribe, Me,
                MePlan, Local, Save, Written, SaveFails, WriteFails
  <2>3. \A k \in Handlers : k # h => pc'[k] = pc[k] /\ work'[k] = work[k]
    BY <1>0 DEF HandlerStep, Proceed, Register, Login, Authenticate, Consent, Subscribe, Me,
                MePlan, Save, Written, SaveFails, WriteFails, Goto, Refuse, TypeOK
  <2>4. CASE Authenticate(h)
    <3>1. req[h].kind \in {"consent", "plan", "me"}
      BY <1>0, <2>4 DEF Authenticate, Reads, Entitled, OnItsWay, Authenticated
    <3>2. pc'[h] # "idle"
      BY <1>0, <2>4, <3>1 DEF Authenticate, Goto, Refuse, TypeOK
    <3> QED BY <1>0, <2>1, <2>2, <2>3, <3>2 DEF Entitled, OnItsWay
  <2>5. CASE ~Authenticate(h)
    <3>1. pc'[h] # "idle"
      BY <1>0, <2>5 DEF HandlerStep, Proceed, Register, Login, Consent, Subscribe, Me, MePlan,
                        Save, Written, SaveFails, WriteFails, Goto, Refuse, TypeOK
    <3> QED BY <1>0, <2>1, <2>2, <2>3, <3>1 DEF Entitled, OnItsWay
  <2> QED BY <2>4, <2>5
<1>2. CASE h # last
  <2>1. Newest' BY <1>0, <1>1, <1>2 DEF LInv, Newest, page, GuardianTypeOK
  <2>2. ASSUME Quiet' PROVE Quiet
    BY <1>0, <1>1, <2>2 DEF Quiet, Changes, page, session, signedIn, Idle
  <2>3. ASSUME Quiet'
        PROVE  IF last' = Nobody THEN shown'.listed /\ ~behind' => ShowsAccount'
               ELSE LoadTrue(last)'
    <3>1. Quiet /\ ~Changes(h) BY <1>1, <2>2, <2>3 DEF Quiet
    <3>2. Learners(who) = Learners(who)' /\ ActivePlan(who) = ActivePlan(who)'
      BY <1>0, <3>1, AccountsStay DEF page, session, Learners, ActivePlan
    <3> QED BY <1>0, <1>1, <1>2, <3>1, <3>2
            DEF LInv, page, session, ShowsAccount, LoadTrue, GuardianTypeOK
  <2> QED BY <1>0, <1>1, <2>1, <2>3 DEF LInv, page
<1>3. CASE h = last
  <2>0. h # Nobody BY HandlersType
  <2>1. pc[h] \in {"authenticate", "me", "mePlan", "done"} /\ req[h].kind = "me"
    BY <1>3, <2>0 DEF LInv, Newest
  <2>2. Authenticate(h) \/ Me(h) \/ MePlan(h)
    BY <1>0, <2>1 DEF HandlerStep, Proceed, Register, Login, Consent, Subscribe, Reads, Save,
                      Written, SaveFails, WriteFails, Saving
  <2>3. pc'[h] \in {"me", "mePlan", "done"} /\ UNCHANGED <<mem, disk>>
    BY <1>0, <2>1, <2>2 DEF Authenticate, Me, MePlan, Goto, Refuse, Local, TypeOK
  <2>4. Newest' BY <1>0, <1>1, <1>3, <2>1, <2>3 DEF Newest, page
  <2>5. ASSUME Quiet' PROVE LoadTrue(h)'
    <3>1. Quiet
      BY <1>0, <1>1, <2>5 DEF Quiet, Changes, page, session, signedIn, Idle
    <3>2. LoadTrue(h) /\ OnRecord(tok, who) /\ tok \in told.tokens /\ tok # NoToken
      BY <1>3, <2>0, <3>1 DEF LInv, Quiet, PInv, signedIn
    <3>3. mem.tokens[tok] = who /\ tok \in DOMAIN mem.tokens
      BY <1>0, <1>1, <3>2 DEF OnRecord, IInv, ToldKept, Within
    <3>4. /\ work[h] \in Draft /\ who' = who /\ tok' = tok /\ token'[h] = tok
          /\ Learners(who)' = Learners(who) /\ ActivePlan(who)' = ActivePlan(who)
      BY <1>0, <1>1, <2>3, <3>2 DEF page, session, TypeOK, LoadTrue, Learners, ActivePlan
    <3>5. CASE Authenticate(h)
      <4>1. pc'[h] = "me" /\ work'[h] = [work[h] EXCEPT !.email = who]
        BY <1>0, <2>1, <3>2, <3>3, <3>5 DEF Authenticate, Goto, LoadTrue, TypeOK
      <4>2. work'[h].email = who BY <3>4, <4>1 DEF Draft
      <4> QED BY <3>4, <4>1, <4>2 DEF LoadTrue
    <3>6. CASE Me(h)
      <4>1. /\ pc[h] = "me" /\ pc'[h] = "mePlan"
            /\ work'[h] = [work[h] EXCEPT !.learners = Learners(work[h].email)]
        BY <1>0, <3>6 DEF Me, Reads, Goto, TypeOK
      <4>2. work'[h].email = who /\ work'[h].learners = Learners(who)
        BY <3>2, <3>4, <4>1 DEF Draft, LoadTrue
      <4> QED BY <3>4, <4>1, <4>2 DEF LoadTrue
    <3>7. CASE MePlan(h)
      <4>1. /\ pc[h] = "mePlan" /\ pc'[h] = "done"
            /\ work'[h] = [work[h] EXCEPT !.planID = ActivePlan(work[h].email)]
        BY <1>0, <3>7 DEF MePlan, Reads, Goto, TypeOK
      <4>2. work'[h].learners = Learners(who) /\ work'[h].planID = ActivePlan(who)
        BY <3>2, <3>4, <4>1 DEF Draft, LoadTrue
      <4> QED BY <3>4, <4>1, <4>2 DEF LoadTrue
    <3> QED BY <2>2, <3>5, <3>6, <3>7
  <2> QED BY <1>0, <1>1, <1>3, <2>0, <2>4, <2>5 DEF LInv, page
<1> QED BY <1>2, <1>3

(* A request that is sent leaves the account alone; a load becomes the     *)
(* newest.                                                                 *)
LEMMA SentKeeps ==
  ASSUME PInv, LInv, NEW h \in Handlers, Send(h) \/ LoadAccount(h)
  PROVE  LInv'
<1>0. /\ IInv /\ TypeOK /\ Arrive(h) /\ pc[h] = "idle" /\ up /\ GuardianTypeOK
      /\ UNCHANGED <<up, mem, session, shown, behind>>
      /\ \A k \in Handlers : k # h =>
           /\ pc'[k] = pc[k] /\ work'[k] = work[k] /\ req'[k] = req[k] /\ token'[k] = token[k]
  BY DEF PInv, IInv, Send, LoadAccount, Arrive, Goto, Refuse, TypeOK
<1>1. Learners(who)' = Learners(who) /\ ActivePlan(who)' = ActivePlan(who)
  BY <1>0 DEF Learners, ActivePlan, session
<1>2. CASE Send(h)
  <2>1. UNCHANGED <<loads, last>> BY <1>2 DEF Send
  <2>2. last # h BY <1>0, HandlersType DEF LInv, Newest
  <2>3. Newest' BY <1>0, <2>1, <2>2 DEF LInv, Newest, GuardianTypeOK
  <2>4. Quiet' => Quiet BY <1>0, <2>1 DEF Quiet, Changes, session, signedIn, Idle
  <2>5. Quiet' => IF last' = Nobody THEN shown'.listed /\ ~behind' => ShowsAccount'
                 ELSE LoadTrue(last)'
    BY <1>0, <1>1, <2>1, <2>2, <2>4
       DEF LInv, ShowsAccount, LoadTrue, session, GuardianTypeOK
  <2> QED BY <1>0, <2>3, <2>5 DEF LInv
<1>3. CASE LoadAccount(h)
  <2>1. last' = h /\ h # Nobody /\ req'[h].kind = "me" /\ token'[h] = tok
    BY <1>3, HandlersType DEF LoadAccount
  <2>2. RequestErr(req'[h]) = NoError /\ FirstStep(req'[h]) = "authenticate"
    BY <2>1 DEF RequestErr, FirstStep, Authenticated
  <2>3. pc'[h] = "authenticate"
    <3>1. PICK r \in Requests :
            /\ req' = [req EXCEPT ![h] = r]
            /\ IF RequestErr(r) = NoError THEN Goto(h, FirstStep(r))
               ELSE Refuse(h, RequestErr(r))
      BY <1>0 DEF Arrive
    <3>2. req'[h] = r BY <1>0, <3>1 DEF TypeOK
    <3> QED BY <1>0, <2>2, <3>1, <3>2 DEF Goto, TypeOK
  <2> QED BY <1>0, <2>1, <2>3 DEF LInv, Newest, LoadTrue, session
<1> QED BY <1>2, <1>3

(* A request that is answered, or whose answer is lost, either changed     *)
(* nothing, or has the account loaded, or the page knows it fell behind.   *)
LEMMA AnsweredKeeps ==
  ASSUME PInv, LInv, NEW h \in Handlers, Reply(h) \/ Unheard(h)
  PROVE  LInv'
<1>0. /\ IInv /\ TypeOK /\ GuardianTypeOK /\ Finish(h) /\ pc[h] = "done" /\ up
      /\ UNCHANGED <<up, mem>> /\ pc'[h] = "idle"
      /\ \A k \in Handlers : k # h =>
           /\ pc'[k] = pc[k] /\ work'[k] = work[k] /\ req'[k] = req[k] /\ token'[k] = token[k]
  <2>1. Finish(h) /\ pc[h] = "done" /\ Entitled(h)
    BY DEF Reply, Receive, Unheard, Finish, PInv, IInv
  <2> QED BY <2>1 DEF PInv, IInv, Finish, Goto, TypeOK, Entitled, OnItsWay
<1>1. CASE FallsBehind
  BY <1>0, <1>1 DEF FallsBehind, LInv, Newest
<1>2. CASE ~Quiet' /\ last' = last /\ req[h].kind # "me"
  <2>1. last # h BY <1>2, HandlersType DEF LInv, Newest
  <2> QED BY <1>0, <1>2, <2>1 DEF LInv, Newest, GuardianTypeOK
<1>3. ASSUME session' = session, Quiet', ~Changes(h), ~loads PROVE Quiet
  BY <1>0, <1>3 DEF Quiet, Changes, session, signedIn, Idle
<1>4. ASSUME session' = session
      PROVE  Learners(who)' = Learners(who) /\ ActivePlan(who)' = ActivePlan(who)
  BY <1>0, <1>4 DEF Learners, ActivePlan, session
<1>5. ASSUME ~Changes(h), KeepsUp, session' = session, shown' = shown, last # h, loads' = loads
      PROVE  LInv'
  <2>1. Newest' BY <1>0, <1>5 DEF LInv, Newest, GuardianTypeOK, KeepsUp
  <2>2. Quiet' => Quiet
    BY <1>0, <1>5 DEF Quiet, Changes, session, signedIn, Idle
  <2>3. Quiet' => IF last' = Nobody THEN shown'.listed /\ ~behind' => ShowsAccount'
                 ELSE LoadTrue(last)'
    BY <1>0, <1>4, <1>5, <2>2
       DEF LInv, ShowsAccount, LoadTrue, session, GuardianTypeOK, KeepsUp
  <2> QED BY <1>0, <2>1, <2>3 DEF LInv
<1>6. CASE Reply(h) /\ (signedInAs(h) \/ Recorded(h))
  <2>1. loads' = signedIn' /\ last' = last /\ req[h].kind # "me"
    BY <1>6 DEF signedInAs, Recorded, Replies, KeepsUp, signedIn, session
  <2> QED BY <1>2, <2>1 DEF Quiet, Idle
<1>7. CASE Reply(h) /\ signedOut(h)
  BY <1>1, <1>7 DEF signedOut
<1>8. CASE Reply(h) /\ Told(h)
  <2>1. session' = session /\ shown' = shown /\ loads' = loads
    BY <1>8 DEF Told
  <2>2. req[h].kind # "me" BY <1>8 DEF Told
  <2>3. last # h BY <2>2, HandlersType DEF LInv, Newest
  <2>4. FallsBehind \/ (KeepsUp /\ ~Changes(h)) BY <1>8 DEF Told
  <2> QED BY <1>1, <1>5, <2>1, <2>3, <2>4
<1>9. CASE Unheard(h)
  <2>1. session' = session /\ shown' = shown /\ loads' = loads
    BY <1>9 DEF Unheard
  <2>2. FallsBehind \/ (KeepsUp /\ ~Changes(h) /\ last # h) BY <1>9 DEF Unheard
  <2> QED BY <1>1, <1>5, <2>1, <2>2
<1>10. CASE Reply(h) /\ AccountLoaded(h)
  <2>1. /\ session' = session /\ loads' = loads /\ ~loads
        /\ shown' = [listed |-> TRUE, learners |-> work[h].learners, planID |-> work[h].planID]
        /\ behind' = (h # last)
        /\ last' = IF h = last THEN Nobody ELSE last
        /\ req[h].kind = "me" /\ ~Changes(h)
    BY <1>10 DEF AccountLoaded, Replies, Reply, Receive, Idle, Changes
  <2>2. CASE h = last
    <3>1. ASSUME Quiet' PROVE ShowsAccount'
      <4>1. LoadTrue(h)
        BY <1>3, <2>1, <2>2, <3>1, HandlersType DEF LInv
      <4> QED BY <1>0, <1>4, <2>1, <4>1 DEF LoadTrue, ShowsAccount
    <3> QED BY <1>0, <2>1, <2>2, <3>1 DEF LInv, Newest
  <2>3. CASE h # last
    <3>1. last' = last /\ behind' BY <2>1, <2>3
    <3>2. Newest' BY <1>0, <2>3, <3>1 DEF LInv, Newest, GuardianTypeOK
    <3>3. Quiet' /\ last # Nobody => LoadTrue(last)'
      BY <1>0, <1>3, <1>4, <2>1, <2>3, <3>1 DEF LInv, LoadTrue, session, GuardianTypeOK
    <3> QED BY <1>0, <3>1, <3>2, <3>3 DEF LInv
  <2> QED BY <2>2, <2>3
<1> QED BY <1>6, <1>7, <1>8, <1>9, <1>10 DEF Reply

(* Every step keeps LInv. *)
LEMMA LoadsSound == PInv /\ LInv /\ [PageNext]_pageVars => LInv'
<1> SUFFICES ASSUME PInv, LInv, [PageNext]_pageVars PROVE LInv'
  OBVIOUS
<1>1. ASSUME UNCHANGED <<vars, session, shown, loads, last, behind>> PROVE LInv'
  <2>1. Newest' BY <1>1 DEF LInv, Newest, vars
  <2>2. Quiet' <=> Quiet
    BY <1>1 DEF Quiet, Changes, vars, session, signedIn, Idle
  <2>3. ShowsAccount' <=> ShowsAccount
    BY <1>1 DEF ShowsAccount, Learners, ActivePlan, vars, session
  <2>4. LoadTrue(last)' <=> LoadTrue(last)
    BY <1>1 DEF LoadTrue, Learners, ActivePlan, vars, session
  <2>5. UNCHANGED <<up, last, behind, shown>> BY <1>1 DEF vars
  <2> QED BY <2>1, <2>2, <2>3, <2>4, <2>5 DEF LInv
<1>2. CASE LoadLost BY <1>2 DEF LoadLost, FallsBehind, LInv, Newest
<1>3. CASE SignOut
  <2>1. ~signedIn' BY <1>3 DEF SignOut, signedIn
  <2> QED BY <1>3, <2>1 DEF SignOut, LInv, Newest, Quiet, vars
<1>4. CASE Reload BY <1>4 DEF Reload, Blank, LInv, Newest, vars
<1>5. CASE ServerDies BY <1>5 DEF ServerDies, FallsBehind, LInv, Newest
<1>6. CASE ServerStarts
  BY <1>6 DEF ServerStarts, Restart, page, LInv, Newest
<1>7. ASSUME NEW h \in Handlers, Send(h) \/ LoadAccount(h) \/ Served(h) \/ Reply(h) \/ Unheard(h)
      PROVE  LInv'
  BY <1>7, SentKeeps, ServedKeeps, AnsweredKeeps
<1>8. CASE SendLost BY <1>1, <1>8 DEF SendLost
<1>9. CASE UNCHANGED pageVars BY <1>1, <1>9 DEF pageVars, page
<1> QED BY <1>2, <1>3, <1>4, <1>5, <1>6, <1>7, <1>8, <1>9 DEF PageNext

(* With nothing under way and no failure since the last load, the page     *)
(* shows the account on record of the guardian signed in, for any number   *)
(* of requests in flight before and replies in any order (loadAccount,     *)
(* me).                                                                    *)
THEOREM AccountAlwaysShown == PageSpec => []AccountShown
<1>1. PageInit => LInv
  BY DEF PageInit, Init, LInv, Newest, Quiet, signedIn, Blank
<1>2. PInv /\ LInv => AccountShown
  <2> SUFFICES ASSUME PInv, LInv, up, signedIn, shown.listed, ~behind, Idle, AtWork = {}
               PROVE  /\ shown.learners = Learners(who)
                      /\ shown.planID = mem.guardians[who].activePlanID
    BY DEF AccountShown, Learners
  <2>1. Quiet BY DEF Quiet, AtWork
  <2>2. last = Nobody BY DEF LInv, Newest, AtWork, PInv, GuardianTypeOK
  <2>3. ShowsAccount BY <2>1, <2>2 DEF LInv
  <2>4. tok \in DOMAIN mem.tokens /\ mem.tokens[tok] = who
    BY DEF PInv, OnRecord, IInv, ToldKept, Within
  <2>5. who \in DOMAIN mem.guardians
    BY <2>4 DEF PInv, IInv, RecordsSound, Referential
  <2> QED BY <2>3, <2>5 DEF ShowsAccount, ActivePlan
<1> QED BY <1>1, <1>2, PageInvariance, LoadsSound, PTL DEF PageSpec

=============================================================================
