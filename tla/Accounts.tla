------------------------------ MODULE Accounts ------------------------------
(***************************************************************************)
(* Guardian accounts (accounts/accounts.go, plans.go) behind their HTTP    *)
(* API (api/guardian.go), over the store of one JSON file (accounts/       *)
(* file.go) that the server opens at start-up.  Every request is handled   *)
(* on a goroutine of its own.  The store keeps everything in memory under  *)
(* one mutex; a save changes the memory, then writes the whole file with   *)
(* os.WriteFile, which truncates it first.  The server may be killed at    *)
(* any step and started again.                                             *)
(*                                                                         *)
(* A password stands for its hash: bcrypt tells two passwords apart by it. *)
(* A time is a number that grows with every use of the clock; a random     *)
(* token, different from all others, is named by the time it was made at.  *)
(***************************************************************************)
EXTENDS Integers, FiniteSets

CONSTANTS
  Handlers,        \* requests the server works on at the same time
  Nobody,          \* the holder of a free mutex
  Requests,        \* the requests clients send, but for their tokens
  NoText,          \* the empty string
  Normalize(_),    \* strings.TrimSpace, and strings.ToLower for an email
  ShortPasswords,  \* passwords below minPasswordLength
  LongPasswords,   \* passwords bcrypt refuses to hash
  PlanIDs,         \* the plans of the catalog
  Stored,          \* what the file holds when the server is first started
  StoreFails,      \* TRUE if a write of the file may fail
  MaxTime          \* bound on the uses of the clock

Kinds == {"register", "login", "consent", "plan", "me"}

Stamping == {"login", "consent"}

Authenticated == {"consent", "plan", "me"}

NoToken == 0

Request == [kind : Kinds, email : STRING, password : STRING, learner : STRING, planID : STRING]

ASSUME RequestsType == Requests \subseteq Request
ASSUME TextType ==
  /\ NoText \in STRING
  /\ \A r \in Requests : Normalize(r.email) \in STRING /\ Normalize(r.learner) \in STRING
ASSUME HandlersType == Nobody \notin Handlers /\ StoreFails \in BOOLEAN
ASSUME PlansType == PlanIDs \subseteq STRING /\ NoText \notin PlanIDs

Guardian == [passwordHash : STRING, activePlanID : PlanIDs \cup {NoText}]

Consented == [guardianEmail : STRING, consentedAt : Nat]

(* What one handler has put together for its save or for its reply. *)
Draft == [email : STRING, passwordHash : STRING, planID : PlanIDs \cup {NoText},
          learner : STRING, time : Nat, learners : SUBSET STRING]

NoDraft == [email |-> NoText, passwordHash |-> NoText, planID |-> NoText,
            learner |-> NoText, time |-> 0, learners |-> {}]

NoData == [guardians |-> [e \in {} |-> NoText], consents |-> [l \in {} |-> NoText],
           tokens |-> [t \in {} |-> NoText]]

NoError == "none"

Outcomes ==
  {NoError, "ErrEmailTaken", "ErrEmailRequired", "ErrPasswordTooShort", "ErrInvalidCredentials",
   "ErrUnauthorized", "ErrLearnerRequired", "ErrUnknownPlan", "ErrNotFound", "ErrHash", "ErrStore"}

Steps == {"idle", "register", "login", "authenticate", "consent", "plan", "me", "mePlan",
          "saveGuardian", "saveToken", "saveConsent", "write", "done"}

VARIABLES
  up,     \* the server runs
  mem,    \* the store's data in memory
  disk,   \* the file's content when last complete
  torn,   \* the file is truncated and does not decode
  lock,   \* the handler that holds the store's mutex across its write
  pc,     \* where each handler is
  req,    \* the request it works on
  token,  \* the token sent with it
  work,   \* what it has put together
  err,    \* the error it replies with
  now,    \* the last use of the clock
  told    \* what clients were told is done: accounts, tokens, consents

handling == <<pc, req, token, work, err>>
vars == <<up, mem, disk, torn, lock, pc, req, token, work, err, now, told>>

IsData(d) ==
  /\ DOMAIN d = {"guardians", "consents", "tokens"}
  /\ DOMAIN d.guardians \subseteq STRING
  /\ \A e \in DOMAIN d.guardians : d.guardians[e] \in Guardian
  /\ DOMAIN d.consents \subseteq STRING
  /\ \A l \in DOMAIN d.consents : d.consents[l] \in Consented
  /\ DOMAIN d.tokens \subseteq Nat
  /\ \A t \in DOMAIN d.tokens : d.tokens[t] \in STRING

(* Every token and every consent is of an account that exists. *)
Referential(d) ==
  /\ \A t \in DOMAIN d.tokens : d.tokens[t] \in DOMAIN d.guardians
  /\ \A l \in DOMAIN d.consents : d.consents[l].guardianEmail \in DOMAIN d.guardians

(* The clock starts with the server: the tokens are those given out since. *)
ASSUME StoredType == IsData(Stored) /\ Referential(Stored) /\ DOMAIN Stored.tokens = {}

NoRequest == [kind |-> "login", email |-> NoText, password |-> NoText,
              learner |-> NoText, planID |-> NoText]

TypeOK ==
  /\ up \in BOOLEAN
  /\ torn \in BOOLEAN
  /\ IsData(mem)
  /\ IsData(disk)
  /\ lock \in Handlers \cup {Nobody}
  /\ pc \in [Handlers -> Steps]
  /\ req \in [Handlers -> Requests \cup {NoRequest}]
  /\ token \in [Handlers -> Nat]
  /\ work \in [Handlers -> Draft]
  /\ err \in [Handlers -> Outcomes]
  /\ now \in Nat
  /\ told \in [guardians : SUBSET STRING, tokens : SUBSET Nat, learners : SUBSET STRING]

Init ==
  /\ up = TRUE
  /\ mem = Stored
  /\ disk = Stored
  /\ torn = FALSE
  /\ lock = Nobody
  /\ pc = [h \in Handlers |-> "idle"]
  /\ req = [h \in Handlers |-> NoRequest]
  /\ token = [h \in Handlers |-> NoToken]
  /\ work = [h \in Handlers |-> NoDraft]
  /\ err = [h \in Handlers |-> NoError]
  /\ now = 0
  /\ told = [guardians |-> {}, tokens |-> {}, learners |-> {}]

Goto(h, step) == pc' = [pc EXCEPT ![h] = step]

Refuse(h, e) == Goto(h, "done") /\ err' = [err EXCEPT ![h] = e]

(* A read of the store, which waits for the mutex. *)
Reads(h, step) == pc[h] = step /\ lock = Nobody

(* A step that changes nothing but its own handler. *)
Local == UNCHANGED <<up, mem, disk, torn, lock, req, token, told>>

-----------------------------------------------------------------------------
(* A request arrives, with a token its client was given or none. *)

RequestErr(r) ==
  IF r.kind = "register" /\ Normalize(r.email) = NoText THEN "ErrEmailRequired"
  ELSE IF r.kind = "register" /\ r.password \in ShortPasswords THEN "ErrPasswordTooShort"
  ELSE NoError

FirstStep(r) == IF r.kind \in Authenticated THEN "authenticate" ELSE r.kind

AtWork == {h \in Handlers : pc[h] # "idle"}

Arrive(h) == \E r \in Requests, t \in told.tokens \cup {NoToken} :
  /\ up
  /\ pc[h] = "idle"
  /\ r.kind \in Authenticated \/ t = NoToken
  /\ r.kind \in Stamping => now + Cardinality(AtWork) < MaxTime
  /\ req' = [req EXCEPT ![h] = r]
  /\ token' = [token EXCEPT ![h] = t]
  /\ work' = [work EXCEPT ![h] = [NoDraft EXCEPT !.email = Normalize(r.email)]]
  /\ IF RequestErr(r) = NoError
     THEN Goto(h, FirstStep(r)) /\ UNCHANGED err
     ELSE Refuse(h, RequestErr(r))
  /\ UNCHANGED <<up, mem, disk, torn, lock, now, told>>

-----------------------------------------------------------------------------
(* The service, up to its save. *)

Register(h) ==
  /\ Reads(h, "register")
  /\ IF work[h].email \in DOMAIN mem.guardians THEN Refuse(h, "ErrEmailTaken") /\ UNCHANGED work
     ELSE IF req[h].password \in LongPasswords THEN Refuse(h, "ErrHash") /\ UNCHANGED work
     ELSE /\ Goto(h, "saveGuardian")
          /\ work' = [work EXCEPT ![h].passwordHash = req[h].password]
          /\ UNCHANGED err
  /\ UNCHANGED now /\ Local

(* Mutant: only the password of an account that exists is compared. *)
WrongIfKnown(email, password) ==
  email \in DOMAIN mem.guardians /\ mem.guardians[email].passwordHash # password

Wrong(email, password) ==
  email \notin DOMAIN mem.guardians \/ mem.guardians[email].passwordHash # password

Login(h) ==
  /\ Reads(h, "login")
  /\ IF Wrong(work[h].email, req[h].password)
     THEN Refuse(h, "ErrInvalidCredentials") /\ UNCHANGED <<work, now>>
     ELSE /\ Goto(h, "saveToken")
          /\ now' = now + 1
          /\ work' = [work EXCEPT ![h].time = now + 1]
          /\ UNCHANGED err
  /\ Local

(* Mutant: any token is good for the account signed in to last. *)
AuthenticateAsLast(h) ==
  /\ Reads(h, "authenticate")
  /\ IF token[h] \notin DOMAIN mem.tokens THEN Refuse(h, "ErrUnauthorized") /\ UNCHANGED work
     ELSE /\ Goto(h, req[h].kind)
          /\ \E t \in DOMAIN mem.tokens :
               /\ \A u \in DOMAIN mem.tokens : u <= t
               /\ work' = [work EXCEPT ![h].email = mem.tokens[t]]
          /\ UNCHANGED err
  /\ UNCHANGED now /\ Local

(* authenticatedEmail: the token tells whose account it is. *)
Authenticate(h) ==
  /\ Reads(h, "authenticate")
  /\ IF token[h] \notin DOMAIN mem.tokens THEN Refuse(h, "ErrUnauthorized") /\ UNCHANGED work
     ELSE /\ Goto(h, req[h].kind)
          /\ work' = [work EXCEPT ![h].email = mem.tokens[token[h]]]
          /\ UNCHANGED err
  /\ UNCHANGED now /\ Local

Consent(h) ==
  /\ pc[h] = "consent"
  /\ IF Normalize(req[h].learner) = NoText
     THEN Refuse(h, "ErrLearnerRequired") /\ UNCHANGED <<work, now>>
     ELSE /\ Goto(h, "saveConsent")
          /\ now' = now + 1
          /\ work' = [work EXCEPT ![h].learner = Normalize(req[h].learner), ![h].time = now + 1]
          /\ UNCHANGED err
  /\ Local

(* Mutant: any plan goes. *)
SubscribeErrAnyPlan(email, planID) ==
  IF email \notin DOMAIN mem.guardians THEN "ErrNotFound" ELSE NoError

SubscribeErr(email, planID) ==
  IF email \notin DOMAIN mem.guardians THEN "ErrNotFound"
  ELSE IF planID \notin PlanIDs THEN "ErrUnknownPlan"
  ELSE NoError

Subscribe(h) ==
  LET e == work[h].email
  IN  /\ Reads(h, "plan")
      /\ IF SubscribeErr(e, req[h].planID) # NoError
         THEN Refuse(h, SubscribeErr(e, req[h].planID)) /\ UNCHANGED work
         ELSE /\ Goto(h, "saveGuardian")
              /\ work' = [work EXCEPT ![h].passwordHash = mem.guardians[e].passwordHash,
                                      ![h].planID = req[h].planID]
              /\ UNCHANGED err
      /\ UNCHANGED now /\ Local

Learners(email) == {l \in DOMAIN mem.consents : mem.consents[l].guardianEmail = email}

ActivePlan(email) ==
  IF email \in DOMAIN mem.guardians THEN mem.guardians[email].activePlanID ELSE NoText

(* me reads the store twice: the children first, then the plan. *)
Me(h) ==
  /\ Reads(h, "me")
  /\ work' = [work EXCEPT ![h].learners = Learners(work[h].email)]
  /\ Goto(h, "mePlan")
  /\ UNCHANGED <<err, now>> /\ Local

MePlan(h) ==
  /\ Reads(h, "mePlan")
  /\ work' = [work EXCEPT ![h].planID = ActivePlan(work[h].email)]
  /\ Goto(h, "done")
  /\ UNCHANGED <<err, now>> /\ Local

-----------------------------------------------------------------------------
(* The store: a save changes the memory and truncates the file, or reports *)
(* an error before it got to the file; the write completes the file, or    *)
(* fails and leaves it torn.                                               *)

Put(f, key, value) == [k \in DOMAIN f \cup {key} |-> IF k = key THEN value ELSE f[k]]

Changed(h) ==
  LET w == work[h]
  IN  CASE pc[h] = "saveGuardian" ->
             [mem EXCEPT !.guardians = Put(@, w.email, [passwordHash |-> w.passwordHash,
                                                        activePlanID |-> w.planID])]
        [] pc[h] = "saveToken" -> [mem EXCEPT !.tokens = Put(@, w.time, w.email)]
        [] pc[h] = "saveConsent" ->
             [mem EXCEPT !.consents = Put(@, w.learner, [guardianEmail |-> w.email,
                                                         consentedAt |-> w.time])]

Saving(h) == pc[h] \in {"saveGuardian", "saveToken", "saveConsent"}

(* Mutant: a new token is kept in memory alone. *)
SaveButTokens(h) ==
  /\ Saving(h)
  /\ lock = Nobody
  /\ mem' = Changed(h)
  /\ IF pc[h] = "saveToken"
     THEN Goto(h, "done") /\ UNCHANGED <<lock, torn>>
     ELSE Goto(h, "write") /\ lock' = h /\ torn' = TRUE
  /\ UNCHANGED <<up, disk, req, token, work, err, now, told>>

Save(h) ==
  /\ Saving(h)
  /\ lock = Nobody
  /\ mem' = Changed(h)
  /\ Goto(h, "write")
  /\ lock' = h
  /\ torn' = TRUE
  /\ UNCHANGED <<up, disk, req, token, work, err, now, told>>

Written(h) ==
  /\ pc[h] = "write"
  /\ disk' = mem
  /\ torn' = FALSE
  /\ lock' = Nobody
  /\ Goto(h, "done")
  /\ UNCHANGED <<up, mem, req, token, work, err, now, told>>

SaveFails(h) ==
  /\ StoreFails
  /\ Saving(h)
  /\ lock = Nobody
  /\ mem' = Changed(h)
  /\ Refuse(h, "ErrStore")
  /\ UNCHANGED <<up, disk, torn, lock, req, token, work, now, told>>

(* Mutant: the error path forgets the mutex. *)
WriteFailsLocked(h) ==
  /\ StoreFails
  /\ pc[h] = "write"
  /\ Refuse(h, "ErrStore")
  /\ UNCHANGED <<up, mem, disk, torn, lock, req, token, work, now, told>>

WriteFails(h) ==
  /\ StoreFails
  /\ pc[h] = "write"
  /\ lock' = Nobody
  /\ Refuse(h, "ErrStore")
  /\ UNCHANGED <<up, mem, disk, torn, req, token, work, now, told>>

(* The client is told, and the goroutine ends. *)
Learned(h) ==
  LET w == work[h]
  IN  IF err[h] # NoError THEN told
      ELSE CASE req[h].kind = "register" -> [told EXCEPT !.guardians = @ \cup {w.email}]
             [] req[h].kind = "login" -> [told EXCEPT !.tokens = @ \cup {w.time}]
             [] req[h].kind = "consent" -> [told EXCEPT !.learners = @ \cup {w.learner}]
             [] OTHER -> told

Finish(h) ==
  /\ pc[h] = "done"
  /\ told' = Learned(h)
  /\ Goto(h, "idle")
  /\ req' = [req EXCEPT ![h] = NoRequest]
  /\ token' = [token EXCEPT ![h] = NoToken]
  /\ work' = [work EXCEPT ![h] = NoDraft]
  /\ err' = [err EXCEPT ![h] = NoError]
  /\ UNCHANGED <<up, mem, disk, torn, lock, now>>

-----------------------------------------------------------------------------
(* The process is killed; NewFileStore reads the file when it is started   *)
(* again, and the server does not start over one that does not decode.     *)

Crash ==
  /\ up
  /\ up' = FALSE
  /\ mem' = NoData
  /\ lock' = Nobody
  /\ pc' = [h \in Handlers |-> "idle"]
  /\ req' = [h \in Handlers |-> NoRequest]
  /\ token' = [h \in Handlers |-> NoToken]
  /\ work' = [h \in Handlers |-> NoDraft]
  /\ err' = [h \in Handlers |-> NoError]
  /\ UNCHANGED <<disk, torn, now, told>>

Restart ==
  /\ ~up
  /\ ~torn
  /\ up' = TRUE
  /\ mem' = disk
  /\ UNCHANGED <<disk, torn, lock, pc, req, token, work, err, now, told>>

Proceed(h) ==
  \/ Register(h)
  \/ Login(h)
  \/ Authenticate(h)
  \/ Consent(h)
  \/ Subscribe(h)
  \/ Me(h)
  \/ MePlan(h)
  \/ Save(h)
  \/ Written(h)
  \/ Finish(h)

HandlerStep(h) == Proceed(h) \/ SaveFails(h) \/ WriteFails(h)

Next ==
  \/ \E h \in Handlers : Arrive(h) \/ HandlerStep(h)
  \/ Crash
  \/ Restart

Spec == Init /\ [][Next]_vars

(* Go's mutex hands itself to the goroutine that waits longest, so one     *)
(* that can take it again and again does in the end.                       *)
FairSpec == Spec /\ \A h \in Handlers : SF_vars(Proceed(h))

-----------------------------------------------------------------------------
(* Whatever requests interleave, and whatever write fails or is cut off by *)
(* a crash, a token or a consent is never on record without the account it *)
(* belongs to, in memory and in the file (Login, Consent).                 *)
RecordsSound == Referential(mem) /\ Referential(disk)

(* A server that runs has everything it ever told a client was done: the   *)
(* account, the token and the consent are there after any number of        *)
(* restarts ("so accounts survive a server restart": FileStore).           *)
AcknowledgedKept ==
  up => /\ told.guardians \subseteq DOMAIN mem.guardians
        /\ told.tokens \subseteq DOMAIN mem.tokens
        /\ told.learners \subseteq DOMAIN mem.consents

(* A consent changes only by a save for a client whose token is of the     *)
(* guardian it names ("who consented, for which learner").                 *)
ConsentByItsGuardian ==
  [][\A l \in DOMAIN mem'.consents :
       up /\ up' /\ (l \in DOMAIN mem.consents => mem.consents[l] # mem'.consents[l]) =>
         \E h \in Handlers :
           /\ Saving(h) /\ pc'[h] # pc[h]
           /\ token[h] \in DOMAIN mem.tokens
           /\ mem.tokens[token[h]] = mem'.consents[l].guardianEmail]_vars

(* An account once made keeps its password, and its plan changes only by a *)
(* request of that guardian for a plan ("must be unique": Register;        *)
(* "leaving the guardian unchanged": Subscribe).                           *)
AccountKept ==
  [][\A e \in DOMAIN mem.guardians : up /\ up' =>
       /\ e \in DOMAIN mem'.guardians
       /\ mem'.guardians[e].passwordHash = mem.guardians[e].passwordHash
       /\ mem'.guardians[e].activePlanID # mem.guardians[e].activePlanID =>
            \E h \in Handlers : Saving(h) /\ pc'[h] # pc[h] /\ req[h].kind = "plan"]_vars

(* "so accounts survive a server restart" (FileStore): after a crash the   *)
(* server can be started again.                                            *)
StartsAgain == ~up => ~torn

(* Every request is answered, unless the server is killed over it.         *)
RequestsAnswered == \A h \in Handlers : pc[h] # "idle" ~> pc[h] = "idle"

=============================================================================
