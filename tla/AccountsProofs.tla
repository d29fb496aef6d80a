--------------------------- MODULE AccountsProofs ---------------------------
(***************************************************************************)
(* Accounts for any number of requests at work, crashes and failures: what *)
(* is on record is sound, what clients were told is done stays, and a      *)
(* consent is its guardian's.                                              *)
(***************************************************************************)
EXTENDS Accounts, TLAPS

(* What the request of h asked for is in d. *)
Done(h, d) ==
  /\ req[h].kind = "register" => work[h].email \in DOMAIN d.guardians
  /\ req[h].kind = "login" => work[h].time \in DOMAIN d.tokens
  /\ req[h].kind = "consent" => work[h].learner \in DOMAIN d.consents

(* A handler is at a step of its request. *)
OnItsWay(h) ==
  /\ pc[h] # "idle" => up /\ req[h] \in Requests
  /\ pc[h] \in Kinds => req[h].kind = pc[h]
  /\ pc[h] = "authenticate" => req[h].kind \in Authenticated
  /\ pc[h] = "mePlan" => req[h].kind = "me"
  /\ pc[h] = "saveGuardian" => req[h].kind \in {"register", "plan"}
  /\ pc[h] = "saveToken" => req[h].kind = "login"
  /\ pc[h] = "saveConsent" => req[h].kind = "consent"

(* What a handler's step entitles it to. *)
Entitled(h) ==
  /\ OnItsWay(h)
  /\ pc[h] \in {"saveToken", "consent", "plan", "saveConsent"} =>
       work[h].email \in DOMAIN mem.guardians
  /\ pc[h] \in {"consent", "plan", "saveConsent"} =>
       token[h] \in DOMAIN mem.tokens /\ mem.tokens[token[h]] = work[h].email
  /\ pc[h] = "saveToken" => work[h].time \notin DOMAIN mem.tokens /\ work[h].time <= now
  /\ pc[h] = "write" => Done(h, mem)
  /\ pc[h] = "done" /\ err[h] = NoError => Done(h, disk)

Within(c, d) ==
  /\ DOMAIN c.guardians \subseteq DOMAIN d.guardians
  /\ DOMAIN c.tokens \subseteq DOMAIN d.tokens
  /\ DOMAIN c.consents \subseteq DOMAIN d.consents

(* Clients were told of nothing that is not in the file. *)
ToldKept ==
  /\ told.guardians \subseteq DOMAIN disk.guardians
  /\ told.tokens \subseteq DOMAIN disk.tokens
  /\ told.learners \subseteq DOMAIN disk.consents

(* Tokens are as old as the clock says, and two to come are not the same. *)
TokensFresh ==
  /\ \A t \in DOMAIN mem.tokens \cup DOMAIN disk.tokens : t <= now
  /\ \A h, k \in Handlers :
       h # k /\ pc[h] = "saveToken" /\ pc[k] = "saveToken" => work[h].time # work[k].time

IInv ==
  /\ TypeOK
  /\ RecordsSound
  /\ \A h \in Handlers : Entitled(h)
  /\ ToldKept
  /\ up => Within(disk, mem)
  /\ TokensFresh

-----------------------------------------------------------------------------
(* A store without accounts is sound (NewFileStore). *)
LEMMA NoDataSound == IsData(NoData) /\ Referential(NoData)
  BY DEF IsData, Referential, NoData

(* The empty draft of an idle handler is one. *)
LEMMA NoDraftType == NoDraft \in Draft
  BY TextType DEF NoDraft, Draft

(* What a save puts into the memory: sound data, with everything that was  *)
(* there, every token as it was, and what the request asked for            *)
(* (SaveGuardian, SaveSessionToken, SaveConsent).                          *)
LEMMA ChangedSound ==
  ASSUME IInv, NEW h \in Handlers, Saving(h)
  PROVE  LET d == Changed(h)
         IN  /\ IsData(d)
             /\ Referential(d)
             /\ Within(mem, d)
             /\ \A t \in DOMAIN mem.tokens : d.tokens[t] = mem.tokens[t]
             /\ \A t \in DOMAIN d.tokens : \/ t \in DOMAIN mem.tokens
                                           \/ pc[h] = "saveToken" /\ t = work[h].time
             /\ Done(h, d)
             /\ \A l \in DOMAIN d.consents :
                  \/ l \in DOMAIN mem.consents /\ d.consents[l] = mem.consents[l]
                  \/ pc[h] = "saveConsent" /\ d.consents[l].guardianEmail = work[h].email
<1> DEFINE w == work[h]
           d == Changed(h)
<1>1. /\ w \in Draft
      /\ IsData(mem)
      /\ Referential(mem)
      /\ Entitled(h)
  BY DEF IInv, TypeOK, RecordsSound
<1>2. CASE pc[h] = "saveGuardian"
  <2> DEFINE g == [passwordHash |-> w.passwordHash, activePlanID |-> w.planID]
  <2>1. g \in Guardian BY <1>1 DEF Draft, Guardian
  <2>2. d = [mem EXCEPT !.guardians = Put(mem.guardians, w.email, g)]
    BY <1>2 DEF Changed
  <2>3. req[h].kind \in {"register", "plan"} BY <1>1, <1>2 DEF Entitled, OnItsWay
  <2>4. w.email \in STRING BY <1>1 DEF Draft
  <2> HIDE DEF d, g, w
  <2>5. /\ DOMAIN d = DOMAIN mem
        /\ d.guardians = Put(mem.guardians, w.email, g)
        /\ d.tokens = mem.tokens
        /\ d.consents = mem.consents
    BY <2>2, <1>1 DEF IsData
  <2>6. /\ IsData(d)
        /\ Referential(d)
        /\ Within(mem, d)
    BY <2>1, <2>4, <2>5, <1>1 DEF IsData, Put, Referential, Within
  <2>7. w.email \in DOMAIN d.guardians BY <2>5 DEF Put
  <2> QED BY <2>3, <2>5, <2>6, <2>7 DEF d, w, Done
<1>3. CASE pc[h] = "saveToken"
  <2>1. d = [mem EXCEPT !.tokens = Put(mem.tokens, w.time, w.email)]
    BY <1>3 DEF Changed
  <2>2. /\ w.time \in Nat
        /\ w.email \in STRING
        /\ req[h].kind = "login"
        /\ w.email \in DOMAIN mem.guardians
        /\ w.time \notin DOMAIN mem.tokens
    BY <1>1, <1>3 DEF Draft, Entitled, OnItsWay
  <2> HIDE DEF d, w
  <2>3. /\ DOMAIN d = DOMAIN mem
        /\ d.guardians = mem.guardians
        /\ d.tokens = Put(mem.tokens, w.time, w.email)
        /\ d.consents = mem.consents
    BY <2>1, <1>1 DEF IsData
  <2>4. /\ IsData(d)
        /\ Referential(d)
        /\ Within(mem, d)
    BY <2>2, <2>3, <1>1 DEF IsData, Put, Referential, Within
  <2>5. /\ \A t \in DOMAIN mem.tokens : d.tokens[t] = mem.tokens[t]
        /\ \A t \in DOMAIN d.tokens : t \in DOMAIN mem.tokens \/ t = w.time
        /\ w.time \in DOMAIN d.tokens
    BY <2>2, <2>3 DEF Put
  <2> QED BY <1>3, <2>2, <2>3, <2>4, <2>5 DEF d, w, Done
<1>4. CASE pc[h] = "saveConsent"
  <2> DEFINE c == [guardianEmail |-> w.email, consentedAt |-> w.time]
  <2>1. c \in Consented /\ c.guardianEmail = w.email BY <1>1 DEF Draft, Consented
  <2>2. d = [mem EXCEPT !.consents = Put(mem.consents, w.learner, c)]
    BY <1>4 DEF Changed
  <2>3. /\ w.learner \in STRING
        /\ req[h].kind = "consent"
        /\ w.email \in DOMAIN mem.guardians
    BY <1>1, <1>4 DEF Draft, Entitled, OnItsWay
  <2> HIDE DEF d, c, w
  <2>4. /\ DOMAIN d = DOMAIN mem
        /\ d.guardians = mem.guardians
        /\ d.tokens = mem.tokens
        /\ d.consents = Put(mem.consents, w.learner, c)
    BY <2>2, <1>1 DEF IsData
  <2>5. /\ IsData(d)
        /\ Referential(d)
        /\ Within(mem, d)
    BY <2>1, <2>3, <2>4, <1>1 DEF IsData, Put, Referential, Within
  <2>6. /\ w.learner \in DOMAIN d.consents
        /\ \A l \in DOMAIN d.consents :
             \/ l \in DOMAIN mem.consents /\ d.consents[l] = mem.consents[l]
             \/ d.consents[l] = c
    BY <2>4 DEF Put
  <2> QED BY <1>4, <2>1, <2>3, <2>4, <2>5, <2>6 DEF d, w, Done
<1> QED BY <1>2, <1>3, <1>4 DEF Saving

-----------------------------------------------------------------------------
(* What IInv says of the other handlers is untouched by a step of one that *)
(* leaves the store alone.                                                 *)
LEMMA LocalKeeps ==
  ASSUME IInv, NEW h \in Handlers, pc[h] # "idle",
         UNCHANGED <<up, mem, disk, torn, lock, req, token, told>>,
         pc' \in [Handlers -> Steps], work' \in [Handlers -> Draft],
         err' \in [Handlers -> Outcomes], now' \in Nat, now <= now',
         \A k \in Handlers : k # h => pc'[k] = pc[k] /\ work'[k] = work[k] /\ err'[k] = err[k],
         Entitled(h)',
         pc'[h] = "saveToken" => now < work'[h].time
  PROVE  IInv'
<1>1. TypeOK' BY DEF IInv, TypeOK
<1>2. RecordsSound' BY DEF IInv, RecordsSound
<1>3. ASSUME NEW k \in Handlers, k # h PROVE Entitled(k)'
  <2>1. /\ Entitled(k)
        /\ pc'[k] = pc[k] /\ work'[k] = work[k] /\ err'[k] = err[k]
        /\ work[k].time \in Nat
    BY <1>3 DEF IInv, TypeOK, Draft
  <2>2. now \in Nat BY DEF IInv, TypeOK
  <2> QED BY <2>1, <2>2 DEF Entitled, OnItsWay, Done
<1>4. ToldKept' /\ (up => Within(disk, mem))' BY DEF IInv, ToldKept, Within
<1>5. TokensFresh'
  <2>1. \A t \in DOMAIN mem.tokens \cup DOMAIN disk.tokens : t \in Nat /\ t <= now
    BY DEF IInv, TypeOK, IsData, TokensFresh
  <2>2. \A k \in Handlers : pc[k] = "saveToken" => work[k].time \in Nat /\ work[k].time <= now
    BY DEF IInv, TypeOK, Draft, Entitled
  <2>3. now \in Nat /\ work'[h].time \in Nat BY DEF IInv, TypeOK, Draft
  <2>4. \A t \in DOMAIN mem'.tokens \cup DOMAIN disk'.tokens : t <= now'
    BY <2>1, <2>3
  <2>5. ASSUME NEW j \in Handlers, NEW k \in Handlers, j # k,
               pc'[j] = "saveToken", pc'[k] = "saveToken"
        PROVE  work'[j].time # work'[k].time
    <3>1. CASE j = h BY <2>2, <2>3, <2>5, <3>1
    <3>2. CASE k = h BY <2>2, <2>3, <2>5, <3>2
    <3>3. CASE j # h /\ k # h BY <2>5, <3>3 DEF IInv, TokensFresh
    <3> QED BY <3>1, <3>2, <3>3
  <2> QED BY <2>4, <2>5 DEF TokensFresh
<1> QED BY <1>1, <1>2, <1>3, <1>4, <1>5 DEF IInv

(* What a handler that has not saved yet holds. *)
LEMMA AtWorkFacts ==
  ASSUME IInv, NEW h \in Handlers, pc[h] \notin {"idle", "done", "write"}
  PROVE  /\ up
         /\ req[h] \in Requests
         /\ req[h] \in Request
         /\ work[h] \in Draft
         /\ now \in Nat
         /\ IsData(mem)
         /\ Referential(mem)
         /\ Entitled(h)
<1>1. Entitled(h) /\ work[h] \in Draft /\ now \in Nat /\ IsData(mem) /\ Referential(mem)
  BY DEF IInv, TypeOK, RecordsSound
<1> QED BY <1>1, RequestsType DEF Entitled, OnItsWay

(* Register, up to the save, keeps IInv. *)
LEMMA RegisterKeeps == ASSUME IInv, NEW h \in Handlers, Register(h) PROVE IInv'
<1>1. pc[h] = "register" BY DEF Register, Reads
<1>2. /\ up /\ req[h] \in Requests /\ req[h] \in Request /\ work[h] \in Draft
      /\ now \in Nat /\ Entitled(h) /\ req[h].kind = "register"
  BY <1>1, AtWorkFacts DEF Entitled, OnItsWay, Kinds
<1>3. /\ pc' \in [Handlers -> Steps]
      /\ work' \in [Handlers -> Draft]
      /\ err' \in [Handlers -> Outcomes]
      /\ now' = now
      /\ \A k \in Handlers : k # h => pc'[k] = pc[k] /\ work'[k] = work[k] /\ err'[k] = err[k]
      /\ \/ pc'[h] = "done" /\ err'[h] # NoError
         \/ pc'[h] = "saveGuardian"
  <2>1. [work[h] EXCEPT !.passwordHash = req[h].password] \in Draft
    BY <1>2 DEF Draft, Request
  <2> QED BY <1>2, <2>1
          DEF Register, Refuse, Goto, IInv, TypeOK, Steps, Outcomes, NoError
<1>4. UNCHANGED <<up, mem, disk, torn, lock, req, token, told>>
  BY DEF Register, Local
<1>5. Entitled(h)' BY <1>2, <1>3, <1>4 DEF Entitled, OnItsWay, Kinds
<1> QED BY <1>1, <1>2, <1>3, <1>4, <1>5, LocalKeeps

(* Login, up to the save, keeps IInv: its token is a new one. *)
LEMMA LoginKeeps == ASSUME IInv, NEW h \in Handlers, Login(h) PROVE IInv'
<1>1. pc[h] = "login" BY DEF Login, Reads
<1>2. /\ up /\ req[h] \in Requests /\ work[h] \in Draft
      /\ now \in Nat /\ req[h].kind = "login"
  BY <1>1, AtWorkFacts DEF Entitled, OnItsWay, Kinds
<1>3. /\ pc' \in [Handlers -> Steps]
      /\ work' \in [Handlers -> Draft]
      /\ err' \in [Handlers -> Outcomes]
      /\ now' \in Nat
      /\ now <= now'
      /\ \A k \in Handlers : k # h => pc'[k] = pc[k] /\ work'[k] = work[k] /\ err'[k] = err[k]
      /\ \/ pc'[h] = "done" /\ err'[h] # NoError
         \/ /\ pc'[h] = "saveToken"
            /\ work[h].email \in DOMAIN mem.guardians
            /\ work'[h].email = work[h].email
            /\ work'[h].time = now + 1
            /\ now' = now + 1
  <2> DEFINE w == [work[h] EXCEPT !.time = now + 1]
  <2>1. w \in Draft /\ w.email = work[h].email /\ w.time = now + 1
    BY <1>2 DEF Draft
  <2>2. CASE Wrong(work[h].email, req[h].password)
    BY <1>2, <2>2 DEF Login, Refuse, Goto, IInv, TypeOK, Steps, Outcomes, NoError
  <2>3. CASE ~Wrong(work[h].email, req[h].password)
    <3>1. /\ pc' = [pc EXCEPT ![h] = "saveToken"]
          /\ work' = [work EXCEPT ![h] = w]
          /\ now' = now + 1
          /\ err' = err
      BY <2>3 DEF Login, Goto
    <3> HIDE DEF w
    <3> QED BY <1>2, <2>1, <2>3, <3>1 DEF IInv, TypeOK, Steps, Wrong
  <2> QED BY <2>2, <2>3
<1>4. UNCHANGED <<up, mem, disk, torn, lock, req, token, told>>
  BY DEF Login, Local
<1>5. pc'[h] = "saveToken" => work'[h].time = now + 1 /\ work'[h].time <= now'
  BY <1>2, <1>3
<1>6. \A t \in DOMAIN mem.tokens : t \in Nat /\ t <= now
  BY DEF IInv, TypeOK, IsData, TokensFresh
<1>7. pc'[h] = "saveToken" => work'[h].time \notin DOMAIN mem.tokens
  BY <1>2, <1>5, <1>6
<1>8. Entitled(h)' BY <1>2, <1>3, <1>4, <1>5, <1>7 DEF Entitled, OnItsWay, Kinds
<1>9. pc'[h] = "saveToken" => now < work'[h].time BY <1>2, <1>5
<1> QED BY <1>1, <1>3, <1>4, <1>8, <1>9, LocalKeeps

(* Authenticate keeps IInv: the account behind a token exists. *)
LEMMA AuthenticateKeeps == ASSUME IInv, NEW h \in Handlers, Authenticate(h) PROVE IInv'
<1>1. pc[h] = "authenticate" BY DEF Authenticate, Reads
<1>2. /\ up /\ req[h] \in Requests /\ work[h] \in Draft /\ now \in Nat
      /\ req[h].kind \in {"consent", "plan", "me"}
      /\ IsData(mem) /\ Referential(mem)
  BY <1>1, AtWorkFacts DEF Entitled, OnItsWay, Authenticated
<1>3. /\ pc' \in [Handlers -> Steps]
      /\ work' \in [Handlers -> Draft]
      /\ err' \in [Handlers -> Outcomes]
      /\ now' = now
      /\ \A k \in Handlers : k # h => pc'[k] = pc[k] /\ work'[k] = work[k] /\ err'[k] = err[k]
      /\ \/ pc'[h] = "done" /\ err'[h] # NoError
         \/ /\ pc'[h] = req[h].kind
            /\ token[h] \in DOMAIN mem.tokens
            /\ work'[h].email = mem.tokens[token[h]]
  <2>1. CASE token[h] \notin DOMAIN mem.tokens
    BY <1>2, <2>1 DEF Authenticate, Refuse, Goto, IInv, TypeOK, Steps, Outcomes, NoError
  <2>2. CASE token[h] \in DOMAIN mem.tokens
    <3> DEFINE w == [work[h] EXCEPT !.email = mem.tokens[token[h]]]
    <3>1. w \in Draft /\ w.email = mem.tokens[token[h]]
      BY <1>2, <2>2 DEF Draft, IsData
    <3>2. /\ pc' = [pc EXCEPT ![h] = req[h].kind]
          /\ work' = [work EXCEPT ![h] = w]
          /\ now' = now
          /\ err' = err
      BY <2>2 DEF Authenticate, Goto
    <3> HIDE DEF w
    <3> QED BY <1>2, <2>2, <3>1, <3>2 DEF IInv, TypeOK, Steps
  <2> QED BY <2>1, <2>2
<1>4. UNCHANGED <<up, mem, disk, torn, lock, req, token, told>>
  BY DEF Authenticate, Local
<1>5. token[h] \in DOMAIN mem.tokens => mem.tokens[token[h]] \in DOMAIN mem.guardians
  BY <1>2 DEF Referential
<1>6. Entitled(h)' BY <1>2, <1>3, <1>4, <1>5 DEF Entitled, OnItsWay, Kinds
<1> QED BY <1>1, <1>2, <1>3, <1>4, <1>6, LocalKeeps

(* Consent, up to the save, keeps IInv. *)
LEMMA ConsentKeeps == ASSUME IInv, NEW h \in Handlers, Consent(h) PROVE IInv'
<1>1. pc[h] = "consent" BY DEF Consent
<1>2. /\ up /\ req[h] \in Requests /\ work[h] \in Draft /\ now \in Nat
      /\ req[h].kind = "consent"
      /\ Entitled(h)
  BY <1>1, AtWorkFacts DEF Entitled, OnItsWay, Kinds
<1>3. /\ pc' \in [Handlers -> Steps]
      /\ work' \in [Handlers -> Draft]
      /\ err' \in [Handlers -> Outcomes]
      /\ now' \in Nat
      /\ now <= now'
      /\ \A k \in Handlers : k # h => pc'[k] = pc[k] /\ work'[k] = work[k] /\ err'[k] = err[k]
      /\ \/ pc'[h] = "done" /\ err'[h] # NoError
         \/ pc'[h] = "saveConsent" /\ work'[h].email = work[h].email
  <2>1. Normalize(req[h].learner) \in STRING BY <1>2, TextType
  <2>2. [work[h] EXCEPT !.learner = Normalize(req[h].learner), !.time = now + 1] \in Draft
    <3>1. now + 1 \in Nat BY <1>2
    <3>2. ASSUME NEW l \in STRING, NEW t \in Nat
          PROVE  [work[h] EXCEPT !.learner = l, !.time = t] \in Draft
      BY <1>2 DEF Draft
    <3> QED BY <2>1, <3>1, <3>2
  <2>3. CASE Normalize(req[h].learner) = NoText
    BY <1>2, <2>3 DEF Consent, Refuse, Goto, IInv, TypeOK, Steps, Outcomes, NoError
  <2>4. CASE Normalize(req[h].learner) # NoText
    <3>1. /\ pc' = [pc EXCEPT ![h] = "saveConsent"]
          /\ now' = now + 1
          /\ err' = err
          /\ work' = [work EXCEPT ![h] = [work[h] EXCEPT !.learner = Normalize(req[h].learner),
                                                         !.time = now + 1]]
      BY <2>4, <1>2 DEF Consent, Goto, IInv, TypeOK
    <3> QED BY <1>2, <2>2, <3>1 DEF IInv, TypeOK, Steps, Draft
  <2> QED BY <2>3, <2>4
<1>4. UNCHANGED <<up, mem, disk, torn, lock, req, token, told>>
  BY DEF Consent, Local
<1>5. Entitled(h)' BY <1>1, <1>2, <1>3, <1>4 DEF Entitled, OnItsWay, Kinds
<1> QED BY <1>1, <1>2, <1>3, <1>4, <1>5, LocalKeeps

(* Subscribe, up to the save, keeps IInv. *)
LEMMA SubscribeKeeps == ASSUME IInv, NEW h \in Handlers, Subscribe(h) PROVE IInv'
<1> DEFINE e == work[h].email
<1>1. pc[h] = "plan" BY DEF Subscribe, Reads
<1>2. /\ up /\ req[h] \in Requests /\ work[h] \in Draft /\ now \in Nat
      /\ req[h].kind = "plan"
      /\ IsData(mem)
      /\ e \in DOMAIN mem.guardians
  BY <1>1, AtWorkFacts DEF Entitled, OnItsWay, Kinds
<1>3. /\ pc' \in [Handlers -> Steps]
      /\ work' \in [Handlers -> Draft]
      /\ err' \in [Handlers -> Outcomes]
      /\ now' = now
      /\ \A k \in Handlers : k # h => pc'[k] = pc[k] /\ work'[k] = work[k] /\ err'[k] = err[k]
      /\ \/ pc'[h] = "done" /\ err'[h] # NoError
         \/ pc'[h] = "saveGuardian"
  <2>1. SubscribeErr(e, req[h].planID) \in Outcomes
    BY DEF SubscribeErr, Outcomes, NoError
  <2>2. CASE SubscribeErr(e, req[h].planID) # NoError
    BY <1>2, <2>1, <2>2 DEF Subscribe, Refuse, Goto, IInv, TypeOK, Steps
  <2>3. CASE SubscribeErr(e, req[h].planID) = NoError
    <3>1. req[h].planID \in PlanIDs
      BY <2>3 DEF SubscribeErr, NoError
    <3>2. mem.guardians[e].passwordHash \in STRING
      BY <1>2 DEF IsData, Guardian
    <3>3. /\ pc' = [pc EXCEPT ![h] = "saveGuardian"]
          /\ now' = now
          /\ err' = err
          /\ work' = [work EXCEPT ![h] = [work[h] EXCEPT
                                            !.passwordHash = mem.guardians[e].passwordHash,
                                            !.planID = req[h].planID]]
      BY <2>3, <1>2 DEF Subscribe, Goto, IInv, TypeOK
    <3>4. [work[h] EXCEPT !.passwordHash = mem.guardians[e].passwordHash,
                          !.planID = req[h].planID] \in Draft
      BY <1>2, <3>1, <3>2 DEF Draft
    <3> QED BY <1>2, <3>3, <3>4 DEF IInv, TypeOK, Steps
  <2> QED BY <2>2, <2>3
<1>4. UNCHANGED <<up, mem, disk, torn, lock, req, token, told>>
  BY DEF Subscribe, Local
<1>5. Entitled(h)' BY <1>1, <1>2, <1>3, <1>4 DEF Entitled, OnItsWay, Kinds
<1> QED BY <1>1, <1>2, <1>3, <1>4, <1>5, LocalKeeps

(* Both reads of me keep IInv: they fill the draft of their own reply.     *)
LEMMA MeKeeps == ASSUME IInv, NEW h \in Handlers, Me(h) \/ MePlan(h) PROVE IInv'
<1>1. pc[h] \in {"me", "mePlan"} BY DEF Me, MePlan, Reads
<1>2. /\ up /\ req[h] \in Requests /\ work[h] \in Draft /\ now \in Nat
      /\ req[h].kind = "me"
      /\ IsData(mem)
  BY <1>1, AtWorkFacts DEF Entitled, OnItsWay, Kinds
<1>3. /\ pc' \in [Handlers -> Steps]
      /\ work' \in [Handlers -> Draft]
      /\ err' = err
      /\ now' = now
      /\ \A k \in Handlers : k # h => pc'[k] = pc[k] /\ work'[k] = work[k]
      /\ pc'[h] \in {"mePlan", "done"}
  <2>1. Learners(work[h].email) \in SUBSET STRING
    BY <1>2 DEF Learners, IsData
  <2>2. [work[h] EXCEPT !.learners = Learners(work[h].email)] \in Draft
    BY <1>2, <2>1 DEF Draft
  <2>3. ActivePlan(work[h].email) \in PlanIDs \cup {NoText}
    BY <1>2 DEF ActivePlan, IsData, Guardian
  <2>4. [work[h] EXCEPT !.planID = ActivePlan(work[h].email)] \in Draft
    BY <1>2, <2>3 DEF Draft
  <2>5. CASE Me(h) BY <1>2, <2>2, <2>5 DEF Me, Goto, IInv, TypeOK, Steps
  <2>6. CASE MePlan(h) BY <1>2, <2>4, <2>6 DEF MePlan, Goto, IInv, TypeOK, Steps
  <2> QED BY <2>5, <2>6
<1>4. UNCHANGED <<up, mem, disk, torn, lock, req, token, told>>
  BY DEF Me, MePlan, Local
<1>5. err' \in [Handlers -> Outcomes] BY <1>3 DEF IInv, TypeOK
<1>6. Entitled(h)' BY <1>2, <1>3, <1>4 DEF Entitled, OnItsWay, Done, Kinds
<1> QED BY <1>1, <1>2, <1>3, <1>4, <1>5, <1>6, LocalKeeps

-----------------------------------------------------------------------------
(* A save that changes the memory, and reports an error or goes on to the  *)
(* file, keeps IInv (persistLocked).                                       *)
LEMMA SaveKeeps ==
  ASSUME IInv, NEW h \in Handlers, Save(h) \/ SaveFails(h)
  PROVE  IInv'
<1> DEFINE d == Changed(h)
<1>1. Saving(h) /\ mem' = d BY DEF Save, SaveFails
<1>2. /\ IsData(d)
      /\ Referential(d)
      /\ Within(mem, d)
      /\ \A t \in DOMAIN mem.tokens : d.tokens[t] = mem.tokens[t]
      /\ \A t \in DOMAIN d.tokens : \/ t \in DOMAIN mem.tokens
                                    \/ pc[h] = "saveToken" /\ t = work[h].time
      /\ Done(h, d)
  BY <1>1, ChangedSound
<1> HIDE DEF d
<1>3. UNCHANGED <<up, disk, req, token, work, now, told>> BY DEF Save, SaveFails
<1>4. /\ pc' \in [Handlers -> Steps]
      /\ err' \in [Handlers -> Outcomes]
      /\ lock' \in Handlers \cup {Nobody}
      /\ torn' \in BOOLEAN
      /\ \A k \in Handlers : k # h => pc'[k] = pc[k] /\ err'[k] = err[k]
      /\ \/ pc'[h] = "write"
         \/ pc'[h] = "done" /\ err'[h] # NoError
  BY DEF Save, SaveFails, Refuse, Goto, IInv, TypeOK, Steps, Outcomes, NoError
<1>5. TypeOK' BY <1>1, <1>2, <1>3, <1>4 DEF IInv, TypeOK
<1>6. RecordsSound' BY <1>1, <1>2, <1>3 DEF IInv, RecordsSound
<1>7. Entitled(h) /\ pc[h] # "idle" BY <1>1 DEF IInv, Saving
<1>8. Entitled(h)'
  BY <1>1, <1>2, <1>3, <1>4, <1>7 DEF Entitled, OnItsWay, Done, Kinds
<1>9. ASSUME NEW k \in Handlers, k # h PROVE Entitled(k)'
  <2>1. Entitled(k) BY DEF IInv
  <2>2. pc'[k] = pc[k] /\ err'[k] = err[k] /\ work'[k] = work[k] /\ req'[k] = req[k]
        /\ token'[k] = token[k]
    BY <1>3, <1>4, <1>9
  <2>3. OnItsWay(k)' BY <1>3, <2>1, <2>2 DEF Entitled, OnItsWay
  <2>4. /\ pc[k] \in {"saveToken", "consent", "plan", "saveConsent"} =>
             work[k].email \in DOMAIN d.guardians
        /\ pc[k] \in {"consent", "plan", "saveConsent"} =>
             token[k] \in DOMAIN d.tokens /\ d.tokens[token[k]] = work[k].email
        /\ pc[k] = "write" => Done(k, d)
        /\ pc[k] = "done" /\ err[k] = NoError => Done(k, disk)
    BY <1>2, <2>1 DEF Entitled, Within, Done
  <2>5. pc[k] = "saveToken" => work[k].time \notin DOMAIN d.tokens /\ work[k].time <= now
    BY <1>2, <1>9, <2>1 DEF Entitled, IInv, TokensFresh
  <2> QED BY <1>1, <1>3, <2>2, <2>3, <2>4, <2>5 DEF Entitled, Done
<1>10. ToldKept' BY <1>3 DEF IInv, ToldKept
<1>11. (up => Within(disk, mem))' BY <1>1, <1>2, <1>3 DEF IInv, Within
<1>12. TokensFresh'
  <2>1. \A t \in DOMAIN d.tokens \cup DOMAIN disk.tokens : t <= now
    BY <1>2, <1>7 DEF IInv, TokensFresh, Entitled
  <2>2. \A k \in Handlers : pc'[k] = "saveToken" => pc[k] = "saveToken" /\ k # h
    BY <1>4
  <2> QED BY <1>1, <1>3, <2>1, <2>2 DEF IInv, TokensFresh
<1> QED BY <1>5, <1>6, <1>8, <1>9, <1>10, <1>11, <1>12 DEF IInv

(* A write that completes the file makes it the memory, and one that fails *)
(* leaves memory and file as they were; either keeps IInv.                 *)
LEMMA WriteKeeps ==
  ASSUME IInv, NEW h \in Handlers, Written(h) \/ WriteFails(h)
  PROVE  IInv'
<1>1. /\ pc[h] = "write"
      /\ UNCHANGED <<up, mem, req, token, work, now, told>>
      /\ Entitled(h)
  BY DEF Written, WriteFails, IInv
<1>2. up /\ IsData(mem) /\ Referential(mem) /\ Within(disk, mem)
  BY <1>1 DEF IInv, TypeOK, RecordsSound, Entitled, OnItsWay
<1>3. /\ pc' = [pc EXCEPT ![h] = "done"]
      /\ torn' \in BOOLEAN
      /\ lock' = Nobody
      /\ err' \in [Handlers -> Outcomes]
      /\ \A k \in Handlers : k # h => err'[k] = err[k]
      /\ \/ disk' = mem
         \/ disk' = disk /\ err'[h] # NoError
  BY DEF Written, WriteFails, Refuse, Goto, IInv, TypeOK, Outcomes, NoError
<1>4. TypeOK' BY <1>1, <1>2, <1>3 DEF IInv, TypeOK, Steps
<1>5. RecordsSound' BY <1>1, <1>3 DEF IInv, RecordsSound
<1>6. ASSUME NEW k \in Handlers PROVE Entitled(k)'
  <2>1. Entitled(k) BY DEF IInv
  <2>2. CASE k = h
    BY <1>1, <1>3, <2>2 DEF IInv, TypeOK, Entitled, OnItsWay, Done, Kinds
  <2>3. CASE k # h
    <3>1. pc'[k] = pc[k] /\ err'[k] = err[k] BY <1>3, <2>3 DEF IInv, TypeOK
    <3>2. Done(k, disk) => Done(k, disk)' BY <1>1, <1>2, <1>3 DEF Done, Within
    <3> QED BY <1>1, <2>1, <3>1, <3>2 DEF Entitled, OnItsWay, Done
  <2> QED BY <2>2, <2>3
<1>7. ToldKept' BY <1>1, <1>2, <1>3 DEF IInv, ToldKept, Within
<1>8. (up => Within(disk, mem))' BY <1>1, <1>2, <1>3 DEF Within
<1>9. TokensFresh'
  <2>1. \A k \in Handlers : pc'[k] = "saveToken" => pc[k] = "saveToken"
    BY <1>3 DEF IInv, TypeOK
  <2> QED BY <1>1, <1>3, <2>1 DEF IInv, TokensFresh
<1> QED BY <1>4, <1>5, <1>6, <1>7, <1>8, <1>9 DEF IInv

(* A request that arrives keeps IInv. *)
LEMMA ArriveKeeps == ASSUME IInv, NEW h \in Handlers, Arrive(h) PROVE IInv'
<1>1. PICK r \in Requests, t \in told.tokens \cup {NoToken} :
        /\ up
        /\ pc[h] = "idle"
        /\ req' = [req EXCEPT ![h] = r]
        /\ token' = [token EXCEPT ![h] = t]
        /\ work' = [work EXCEPT ![h] = [NoDraft EXCEPT !.email = Normalize(r.email)]]
        /\ IF RequestErr(r) = NoError
           THEN Goto(h, FirstStep(r)) /\ UNCHANGED err
           ELSE Refuse(h, RequestErr(r))
        /\ UNCHANGED <<up, mem, disk, torn, lock, now, told>>
  BY DEF Arrive
<1>2. r \in Request /\ Normalize(r.email) \in STRING
  BY RequestsType, TextType
<1>3. [NoDraft EXCEPT !.email = Normalize(r.email)] \in Draft
  BY <1>2, NoDraftType DEF Draft
<1>4. t \in Nat BY DEF IInv, TypeOK, NoToken
<1>5. RequestErr(r) \in Outcomes BY DEF RequestErr, Outcomes, NoError
<1>6. /\ FirstStep(r) \in Steps
      /\ FirstStep(r) \in {"register", "login", "authenticate"}
      /\ FirstStep(r) \in {"register", "login"} => r.kind = FirstStep(r)
      /\ FirstStep(r) = "authenticate" => r.kind \in Authenticated
  BY <1>2 DEF FirstStep, Steps, Request, Kinds, Authenticated
<1>7. /\ pc' \in [Handlers -> Steps]
      /\ err' \in [Handlers -> Outcomes]
      /\ \A k \in Handlers : k # h => pc'[k] = pc[k] /\ err'[k] = err[k]
      /\ \/ pc'[h] = "done" /\ err'[h] # NoError
         \/ pc'[h] = FirstStep(r)
  BY <1>1, <1>5, <1>6 DEF Goto, Refuse, IInv, TypeOK, Steps
<1>8. TypeOK' BY <1>1, <1>3, <1>4, <1>7 DEF IInv, TypeOK
<1>9. ASSUME NEW k \in Handlers PROVE Entitled(k)'
  <2>1. CASE k = h
    <3>1. req'[h] = r BY <1>1 DEF IInv, TypeOK
    <3> QED BY <1>1, <1>6, <1>7, <2>1, <3>1 DEF Entitled, OnItsWay, Kinds
  <2>2. CASE k # h
    <3>1. Entitled(k) BY DEF IInv
    <3>2. /\ req'[k] = req[k] /\ token'[k] = token[k] /\ work'[k] = work[k]
          /\ pc'[k] = pc[k] /\ err'[k] = err[k]
      BY <1>1, <1>7, <2>2 DEF IInv, TypeOK
    <3> QED BY <1>1, <3>1, <3>2 DEF Entitled, OnItsWay, Done
  <2> QED BY <2>1, <2>2
<1>10. RecordsSound' /\ ToldKept' /\ (up => Within(disk, mem))'
  BY <1>1 DEF IInv, RecordsSound, ToldKept, Within
<1>11. TokensFresh'
  <2>1. \A k \in Handlers : pc'[k] = "saveToken" =>
          k # h /\ pc[k] = "saveToken" /\ work'[k] = work[k]
    BY <1>1, <1>6, <1>7 DEF IInv, TypeOK
  <2> QED BY <1>1, <2>1 DEF IInv, TokensFresh
<1> QED BY <1>8, <1>9, <1>10, <1>11 DEF IInv

(* A client is told only of what is in the file, so Finish keeps IInv. *)
LEMMA FinishKeeps == ASSUME IInv, NEW h \in Handlers, Finish(h) PROVE IInv'
<1>1. /\ pc[h] = "done"
      /\ told' = Learned(h)
      /\ pc' = [pc EXCEPT ![h] = "idle"]
      /\ UNCHANGED <<up, mem, disk, torn, lock, now>>
      /\ Entitled(h)
  BY DEF Finish, Goto, IInv
<1>2. work[h] \in Draft /\ req[h] \in Request /\ NoRequest \in {NoRequest}
  BY <1>1, RequestsType DEF IInv, TypeOK, Entitled, OnItsWay
<1>3. /\ told' \in [guardians : SUBSET STRING, tokens : SUBSET Nat, learners : SUBSET STRING]
      /\ ToldKept'
  <2>1. told \in [guardians : SUBSET STRING, tokens : SUBSET Nat, learners : SUBSET STRING]
    BY DEF IInv, TypeOK
  <2>2. CASE err[h] # NoError
    BY <1>1, <2>1, <2>2 DEF Learned, IInv, ToldKept
  <2>3. CASE err[h] = NoError
    <3>1. Done(h, disk) BY <1>1, <2>3 DEF Entitled
    <3>2. CASE req[h].kind = "register"
      <4>1. told' = [told EXCEPT !.guardians = told.guardians \cup {work[h].email}]
        BY <1>1, <2>3, <3>2 DEF Learned
      <4> QED BY <1>1, <1>2, <2>1, <3>1, <3>2, <4>1 DEF Done, IInv, ToldKept, Draft
    <3>3. CASE req[h].kind = "login"
      <4>1. told' = [told EXCEPT !.tokens = told.tokens \cup {work[h].time}]
        BY <1>1, <2>3, <3>3 DEF Learned
      <4> QED BY <1>1, <1>2, <2>1, <3>1, <3>3, <4>1 DEF Done, IInv, ToldKept, Draft
    <3>4. CASE req[h].kind = "consent"
      <4>1. told' = [told EXCEPT !.learners = told.learners \cup {work[h].learner}]
        BY <1>1, <2>3, <3>4 DEF Learned
      <4> QED BY <1>1, <1>2, <2>1, <3>1, <3>4, <4>1 DEF Done, IInv, ToldKept, Draft
    <3>5. CASE req[h].kind \in {"plan", "me"}
      <4>1. told' = told BY <1>1, <2>3, <3>5 DEF Learned
      <4> QED BY <1>1, <2>1, <4>1 DEF IInv, ToldKept
    <3> QED BY <1>2, <3>2, <3>3, <3>4, <3>5 DEF Request, Kinds
  <2> QED BY <2>2, <2>3
<1>4. /\ req' = [req EXCEPT ![h] = NoRequest]
      /\ token' = [token EXCEPT ![h] = NoToken]
      /\ work' = [work EXCEPT ![h] = NoDraft]
      /\ err' = [err EXCEPT ![h] = NoError]
  BY DEF Finish
<1>5. NoToken \in Nat /\ NoError \in Outcomes /\ "idle" \in Steps
  BY DEF NoToken, NoError, Outcomes, Steps
<1>6. TypeOK' BY <1>1, <1>3, <1>4, <1>5, NoDraftType DEF IInv, TypeOK
<1>7. ASSUME NEW k \in Handlers PROVE Entitled(k)'
  <2>1. CASE k = h
    BY <1>1, <2>1 DEF IInv, TypeOK, Entitled, OnItsWay, Kinds
  <2>2. CASE k # h
    <3>1. Entitled(k) BY DEF IInv
    <3>2. /\ req'[k] = req[k] /\ token'[k] = token[k] /\ work'[k] = work[k]
          /\ pc'[k] = pc[k] /\ err'[k] = err[k]
      BY <1>1, <1>4, <2>2 DEF IInv, TypeOK
    <3> QED BY <1>1, <3>1, <3>2 DEF Entitled, OnItsWay, Done
  <2> QED BY <2>1, <2>2
<1>8. RecordsSound' /\ (up => Within(disk, mem))'
  BY <1>1 DEF IInv, RecordsSound, Within
<1>9. TokensFresh'
  <2>1. \A k \in Handlers : pc'[k] = "saveToken" =>
          pc[k] = "saveToken" /\ work'[k] = work[k]
    BY <1>1, <1>4 DEF IInv, TypeOK
  <2> QED BY <1>1, <2>1 DEF IInv, TokensFresh
<1> QED BY <1>3, <1>6, <1>7, <1>8, <1>9 DEF IInv

(* A crash forgets the memory and every request; a restart takes up the    *)
(* file; either keeps IInv (NewFileStore).                                 *)
LEMMA CrashKeeps == ASSUME IInv, Crash PROVE IInv'
<1>1. /\ NoToken \in Nat /\ NoError \in Outcomes /\ "idle" \in Steps
      /\ Nobody \in Handlers \cup {Nobody}
  BY DEF NoToken, NoError, Outcomes, Steps
<1>2. TypeOK' BY <1>1, NoDataSound, NoDraftType DEF Crash, IInv, TypeOK
<1>3. RecordsSound' BY NoDataSound DEF Crash, IInv, RecordsSound
<1>4. \A k \in Handlers : Entitled(k)'
  BY DEF Crash, Entitled, OnItsWay, Kinds
<1>5. ToldKept' /\ (up => Within(disk, mem))'
  BY DEF Crash, IInv, ToldKept
<1>6. TokensFresh'
  BY DEF Crash, IInv, TokensFresh, NoData
<1> QED BY <1>2, <1>3, <1>4, <1>5, <1>6 DEF IInv

LEMMA RestartKeeps == ASSUME IInv, Restart PROVE IInv'
<1>1. /\ ~up /\ up' /\ mem' = disk
      /\ UNCHANGED <<disk, torn, lock, pc, req, token, work, err, now, told>>
  BY DEF Restart
<1>2. TypeOK' BY <1>1 DEF IInv, TypeOK
<1>3. RecordsSound' BY <1>1 DEF IInv, RecordsSound
<1>4. ASSUME NEW k \in Handlers PROVE Entitled(k)'
  <2>1. pc[k] = "idle" BY <1>1 DEF IInv, Entitled, OnItsWay
  <2> QED BY <1>1, <2>1 DEF Entitled, OnItsWay, Kinds
<1>5. ToldKept' /\ (up => Within(disk, mem))' BY <1>1 DEF IInv, ToldKept, Within
<1>6. TokensFresh' BY <1>1 DEF IInv, TokensFresh
<1> QED BY <1>2, <1>3, <1>4, <1>5, <1>6 DEF IInv

-----------------------------------------------------------------------------
(* IInv holds at the start. *)
LEMMA InitSound == Init => IInv
<1> SUFFICES ASSUME Init PROVE IInv OBVIOUS
<1>1. NoToken \in Nat /\ NoError \in Outcomes /\ "idle" \in Steps
  BY DEF NoToken, NoError, Outcomes, Steps
<1>2. TypeOK BY <1>1, StoredType, NoDraftType DEF Init, TypeOK
<1>3. RecordsSound BY StoredType DEF Init, RecordsSound
<1>4. \A h \in Handlers : Entitled(h) BY DEF Init, Entitled, OnItsWay, Kinds
<1>5. ToldKept /\ (up => Within(disk, mem)) BY DEF Init, ToldKept, Within
<1>6. TokensFresh BY StoredType DEF Init, TokensFresh
<1> QED BY <1>2, <1>3, <1>4, <1>5, <1>6 DEF IInv

(* Every step keeps IInv. *)
LEMMA StepSound == IInv /\ [Next]_vars => IInv'
<1> SUFFICES ASSUME IInv, [Next]_vars PROVE IInv' OBVIOUS
<1>1. ASSUME NEW h \in Handlers, Arrive(h) PROVE IInv'
  BY <1>1, ArriveKeeps
<1>2. ASSUME NEW h \in Handlers, HandlerStep(h) PROVE IInv'
  BY <1>2, RegisterKeeps, LoginKeeps, AuthenticateKeeps, ConsentKeeps, SubscribeKeeps,
     MeKeeps, SaveKeeps, WriteKeeps, FinishKeeps DEF HandlerStep, Proceed
<1>3. CASE Crash BY <1>3, CrashKeeps
<1>4. CASE Restart BY <1>4, RestartKeeps
<1>5. CASE UNCHANGED vars
  <2>1. TypeOK' BY <1>5 DEF vars, IInv, TypeOK
  <2>2. RecordsSound' BY <1>5 DEF vars, IInv, RecordsSound
  <2>3. \A h \in Handlers : Entitled(h)' BY <1>5 DEF vars, IInv, Entitled, OnItsWay, Done
  <2>4. ToldKept' /\ (up => Within(disk, mem))' BY <1>5 DEF vars, IInv, ToldKept, Within
  <2>5. TokensFresh' BY <1>5 DEF vars, IInv, TokensFresh
  <2> QED BY <2>1, <2>2, <2>3, <2>4, <2>5 DEF IInv
<1> QED BY <1>1, <1>2, <1>3, <1>4, <1>5 DEF Next

(* IInv holds throughout. *)
LEMMA Invariance == Spec => []IInv
  BY InitSound, StepSound, PTL DEF Spec

(* The store, the file and the handlers have their types, however many     *)
(* requests, failures and crashes there are (accounts, api/guardian.go).   *)
THEOREM TypeCorrect == Spec => []TypeOK
<1>1. IInv => TypeOK BY DEF IInv
<1> QED BY <1>1, Invariance, PTL

(* No token and no consent is ever on record without its account, in       *)
(* memory and in the file (Login, Consent).                                *)
THEOREM RecordsAlwaysSound == Spec => []RecordsSound
<1>1. IInv => RecordsSound BY DEF IInv
<1> QED BY <1>1, Invariance, PTL

(* Whatever a client was told is done is there whenever the server runs,   *)
(* after any number of crashes and failed writes (FileStore).              *)
THEOREM AcknowledgedIsKept == Spec => []AcknowledgedKept
<1>1. IInv => AcknowledgedKept
  BY DEF IInv, ToldKept, Within, AcknowledgedKept
<1> QED BY <1>1, Invariance, PTL

(* A consent is recorded or replaced only for the guardian of the token    *)
(* that was sent with the request (Authenticate, Consent).                 *)
THEOREM ConsentIsItsGuardians == Spec => ConsentByItsGuardian
<1>1. IInv /\ [Next]_vars =>
        [\A l \in DOMAIN mem'.consents :
           up /\ up' /\ (l \in DOMAIN mem.consents => mem.consents[l] # mem'.consents[l]) =>
             \E h \in Handlers :
               /\ Saving(h) /\ pc'[h] # pc[h]
               /\ token[h] \in DOMAIN mem.tokens
               /\ mem.tokens[token[h]] = mem'.consents[l].guardianEmail]_vars
  <2> SUFFICES ASSUME IInv, Next, NEW l \in DOMAIN mem'.consents, up, up',
                      l \in DOMAIN mem.consents => mem.consents[l] # mem'.consents[l]
               PROVE  \E h \in Handlers :
                        /\ Saving(h) /\ pc'[h] # pc[h]
                        /\ token[h] \in DOMAIN mem.tokens
                        /\ mem.tokens[token[h]] = mem'.consents[l].guardianEmail
    OBVIOUS
  <2>1. mem' # mem OBVIOUS
  <2>2. PICK h \in Handlers : Save(h) \/ SaveFails(h)
    BY <2>1 DEF Next, Arrive, HandlerStep, Proceed, Register, Login, Authenticate, Consent,
                Subscribe, Me, MePlan, Local, Written, WriteFails, Finish, Crash, Restart
  <2>3. Saving(h) /\ mem' = Changed(h) /\ pc'[h] # pc[h]
    BY <2>2 DEF Save, SaveFails, Saving, Goto, Refuse, IInv, TypeOK
  <2>4. pc[h] = "saveConsent" /\ mem'.consents[l].guardianEmail = work[h].email
    BY <2>3, ChangedSound
  <2>5. token[h] \in DOMAIN mem.tokens /\ mem.tokens[token[h]] = work[h].email
    BY <2>4 DEF IInv, Entitled
  <2> QED BY <2>3, <2>4, <2>5
<1> QED BY <1>1, Invariance, PTL DEF Spec, ConsentByItsGuardian

=============================================================================
