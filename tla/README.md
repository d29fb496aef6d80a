# A TLA+ verification of SoTeach

This directory holds TLA+ models of the SoTeach tutoring server, the TLC
configurations that check them on small instances, and TLAPS proofs about them
for every value of the constants. Everything is translated from the Go code and
the pages' JavaScript (paths below are relative to the repository); the
`README.md` and the comments of the code are used only as statements of what it
promises.

## 1. The system

| Component | Code | State it keeps | Operations | What makes it correct |
|---|---|---|---|---|
| Session engine | `session/session.go` | one learner's attempt: selection, stage, pending question, answer, mastery map, counters | the methods of `Session` | the mastered flag agrees with the mastery map; a pending question has no answer; diagnosis before practice; mastery by a transfer question only |
| Tutor | `tutor/turn.go`, `tutor/tutor.go` | none; loads and saves sessions | `BeginTopic`, `ApplyInput`, `Stop`, `SubmitDiagnosis`, `SubmitAnswer`, `SetGradeBand`, `DiagnosticReport` | every saved session can be taken up again; the session never refuses it; the learning loop is followed |
| Content catalog | `tutor/content.go`, `tutor/turn.go` | constant tables | choice of bundle and question | the next question is a different one, in every band |
| Tutoring API | `api/session.go` | none | begin, input, diagnosis, resume, curriculum | the reply's state is the one its prompt belongs to |
| Session store | `session/store.go`, `session/pg.go` | a snapshot per learner | `Save`, `Load` | a Load returns what the last Save wrote, and a write cut off spoils one learner's file only |
| Roster | `session/roster.go` | learners in order, the active one | `AdvanceTurn`, `SubmitAnswerFor` | only the active learner's answer is taken, everyone gets a turn |
| AI boundary, Groq adapter | `ai/` | none | `Diagnose` | an unusable evaluation never reaches a session |
| Accounts | `accounts/accounts.go`, `plans.go` | none; loads and saves guardians, tokens, consents | `Register`, `Login`, `Consent`, `Subscribe` | one account per e-mail; a consent is of the guardian whose token was sent |
| Accounts store | `accounts/file.go`, `store.go` | guardians, consents, tokens: in memory under a mutex, and in one file | reads, saves, opening | what was acknowledged survives a restart |
| Guardian API | `api/guardian.go` | none | HTTP over accounts, bearer tokens | every request is answered |
| Learner's page | `web/app.js` | the form offered, the prompt shown | begin, send an answer, fetch the report, reload | the page shows the question its next input answers, and the report of the diagnosis in progress |
| Guardian's page | `web/guardian.js` | token and e-mail in localStorage, the account shown | sign-in, consent, plan, load the account, sign-out, reload | the token is good and of the e-mail shown; nobody is signed out unasked; the account shown is the one on record |
| Server | `cmd/server/main.go` | none | start-up | |

**How they interact.** `net/http` runs each request on a goroutine of its own.
A handler of the tutoring API checks the body and calls the tutor, which *loads*
a private copy of the learner's session from the store, works on it through the
session engine's methods with content from the catalog, possibly calls the AI
provider over HTTP, and *saves* the copy. The handler then loads the session
once more for the state token of the reply. The store's mutex (or the database)
makes one Load or one Save atomic; nothing connects a Load with the Save after
it. A handler of the guardian API resolves the bearer token in one read of the
accounts store, then works as the tutor does: read, decide, save. The file
store of the accounts holds its mutex while it writes its one file. The
learner's page talks to the tutoring API only, one request per submitted form,
and fetches the report of the diagnosis on the side. The guardian's page talks
to the guardian API only; nothing keeps it from having several requests in
flight, and after everything it is told was recorded it loads the account again.

**What is hard.** Requests of one learner interleave between loads and saves
(the page does not disable its form, and a second tab or a retry sends at any
time); the route chosen from one Load is executed on another; the provider's
call opens a window of up to its client's timeout; saves and loads fail, a
failed save possibly after it took effect; a process killed while it writes
leaves a torn file; connections fail, and pages are loaded again, while the handler
works on and saves later; replies arrive in another order than their requests;
sequences of
topic switches, stops, band changes, misses and uncertain answers must leave no
residue of one question in the next. `PROJECT.json` lists these hazards with
their lines and the properties that cover them.

## 2. Modules

| Module | Models | Kind |
|---|---|---|
| `Session` | the session record and every method that changes it, as operators from a session to a session; `<Method>Err` is the error a method returns, `"none"` if it goes through | operators |
| `SessionAPI` | one session under *every* order of calls | state machine, one action per method |
| `Content` | the choice of content, over a catalog given as a constant, with the assumption `ContentShape` on it | operators |
| `Catalog` | the catalog and curriculum the server ships | constants for TLC |
| `Tutor` | API handlers, tutor, provider calls and store: processes that load, work and save, and are killed | state machine, composes `Session` and `Content` |
| `LearningLoop` | the loop of `README.md` section 2 | abstract specification, implemented by `Tutor` |
| `WebClient` | the learner's page with its report panel in front of the tutor, over connections that fail | state machine, composes `Tutor` |
| `Accounts` | the guardian API, the accounts service and its file store, with crashes | state machine |
| `GuardianPage` | the guardian's page in front of the accounts, with several requests in flight | state machine, composes `Accounts` |
| `Roster` | learners in turn, each with a session | state machine, composes `Session` |
| `SessionProofs` | types and fields of what the session's methods return | lemmas |
| `SessionAPIProofs`, `TutorProofs`, `AccountsProofs`, `GuardianProofs`, `RosterProofs` | theorems of the module named | proofs |
| `TutorSerialProofs` | theorems of `Tutor` for learners who wait for their replies, the refinement of `LearningLoop` among them | proofs |
| `WebProofs` | theorems of `WebClient`, from those of the tutor | proofs |
| `MCSessionAPI`, `MCTutor`, `MCWebClient`, `MCAccounts`, `MCGuardianPage`, `MCRoster` | instances for TLC | model checking |

### State and actions against the code

*Session.* The record has the fields of `Session` in `session.go` but for
`diagnosticPrompt` and `lastTeaching`, which are written and never read. The
mastery map, whose values are only ever `true`, is the set of its keys. Text is
compared and never taken apart, so it is a string; `Fold` stands for
`strings.ToLower(strings.TrimSpace(x))`, given per instance. `NoText` is the
empty string: a constant, because the proof backends treat string literals as
opaque. Confidence is in percent rather than a float in [0, 1]. Each mapped
method is one operator, including everything it calls: `SelectTopic` is the
reset and the restore of mastery; `CheckAnswer` writes state, flag and map.

*Tutor.* `store` is what the store holds, and `torn` the learners whose file is
there and does not decode (`FileStore` only); for each handler `pc` is its next
step, `req` its request, `work` its copy of the session, `out` its reply. One step
is one access to the store or one outcome of a call of the provider:

| Step | Code |
|---|---|
| `Arrive` | a route is called; `beginSession`, `submitInput` check the body |
| `BeginTopic`, `Stop`, `ChangeGradeBand` | the load and everything up to the save |
| `ApplyInput` | the load that chooses the route; `SubmitDiagnosis` and `AnswerQuestion` load again |
| `SubmitDiagnosis`, `ProviderAnswers`, `ProviderFails` | the load before the provider's call, and its outcome up to the save |
| `ProviderRefusesJSONMode` | the first call of the Groq adapter fails with the error that has it ask once more in plain text |
| `AnswerQuestion` | `SubmitAnswer` with its four cases up to the save |
| `Save`, `SaveFails`, `LoadFails` | the store; a failed save leaves the old session, the new one, or a torn file |
| `DiagnosticReport`, `ResumeSession` | the two routes that read a session |
| `Crash` | the process is killed and started again: every handler is gone, what is stored stays, and one write under way may leave its file torn |
| `Respond`, `Finish` | `respondAction`'s load for the state token; the reply is out |

A prompt is a sequence of texts: one text, or an explanation and a question
(the code joins them with a blank). `ChangeGradeBand` models `Tutor.SetGradeBand`,
an exported operation no route calls yet. One constant each tells the stores
apart: `StoreFails` is FALSE for the memory store, `WritesTear` TRUE for
`FileStore`, whose `os.WriteFile` truncates before it writes, and `Crashes`
FALSE for a store that does not outlive its process. A session whose file is
torn is neither found nor missing: every Load of it fails (`LoadErr`), `BeginTopic`
does not replace it, and only a handler that had loaded it before can still
write it anew. The `default` case of `SubmitAnswer`
(`ErrUnexpectedAnswerState`) cannot be taken, since `CheckAnswer` leaves one of
the four states.

*LearningLoop* has, per learner, a stage, the topic worked on and the topics
mastered. The refinement mapping in `Tutor` (`Loop`) reads them off the *saved*
sessions. It says nothing of how a stage is reached: diagnosis before practice,
practice before verification, mastery only from a verification, and nothing
takes mastery away.

*WebClient.* `form` is the form the page offers (`start`, `chat` or `none`: the
two `hidden` attributes), `shown` the last prompt on it, `due` the requests the page
waits for, `asked` what was shown when each of them was sent, `awaitingDiagnosis`
the page's flag of that name, `fetching` that the report is to be fetched,
`report` what the panel shows of it (the learner's own words and what the
provider's evaluation recommends). `Submit` is a form's submit handler up to
`fetch`, `Receive` what `begin` or `sendAnswer` makes of the reply's status and
state token, `FetchReport` and `ShowReport` are `showDiagnosisReport`, whose
failures the page ignores. What the page waits for and what the server works on
are two things: `Disconnect` is the `catch` of a fetch, at any moment from the
request's arrival to its reply, and `Reload` the page loaded again, at any moment
too; both leave the handler at work, since no handler and no provider call uses
the request's context (`turn.go:85-118`, `groq.go:129`), and it loads, saves and
ends unheard (`Unheard`). A request that never arrives is `SubmitLost` or
`FetchLost`; one that arrives after its fetch has failed is a handler given up
before its first step. `ServerDies` is the tutor's crash as the page sees it. The
tutor's own steps leave the page alone.

Two history variables say when a page can be expected to be right. `behind` is
TRUE from the moment a request may have been served unknown to the page (its
connection failed, the page was loaded again, the server was killed or answered
500) until the first good reply to a request that was sent with no other at work.
`overlap` tells of the learner's requests whether the last was sent while another
was at work (`now`), an earlier one since the topic was begun was (`past`), or
none (`none`).

*GuardianPage.* `tok` and `who` are the token and the e-mail in localStorage,
`shown` the children and the active plan once they are listed, `loads` that
`loadAccount` was called and has not sent its requests, `out` whether the
sign-out button is there, `asked` the requests whose replies the page still
takes (a page loaded again takes none of the ones before). `Send` submits a form
or a plan card, `LoadAccount` sends for the account; the plans it also asks for
never change, so one request stands for both. `signedInAs`, `Recorded`,
`AccountLoaded`, `signedOut` and `Told` are what the page makes of a reply;
`Unheard` is a reply that never comes. Requests and replies may overtake each
other in any number. Two history variables say when the page can be expected to
be right: `last` is the newest load still due, and `behind` is TRUE from the
moment the account may have changed without the page being told (a request that
changes it was answered with an error or not at all, a load failed, an older load
was answered after the newest, the server was killed) until a newest load is
answered.

*Accounts.* `mem` is the file store's data, `disk` the file's content when it
was last complete, `torn` whether it is truncated now, `lock` the holder of the
mutex. A request resolves its token (`Authenticate`), reads and decides
(`Register`, `Login`, `Consent`, `Subscribe`), or reads twice and replies (`Me`,
`MePlan`), and saves: `Save` changes the
memory and truncates the file under the mutex, `Written` completes the file,
`WriteFails` and `SaveFails` are the error paths (a failed write leaves the
change in memory). `Crash` kills the process at any step, `Restart` is
`NewFileStore`, which refuses a file that does not decode. `now` counts uses of
the clock and names the random tokens; `told` is a history variable: what
clients were answered with success. `Stored` is what the file holds when the
server is first started: nothing, or guardians who registered before. A password
stands for its hash.

*Roster.* `sessions`, `active` and the error of `SubmitAnswerFor`; `Direct` is
what a caller does with `Roster.Session`. `waited` is a history variable: how
often the turn has moved since a learner had it.

Operators marked `Mutant:` are deliberately wrong variants of the definition
that follows them. No specification uses them; they stand for bugs that the
properties were seen to catch when substituted for the right definition.

## 3. Runs

All with `tlc -config <cfg> <module>`.

| Run | cfg | Question | Result |
|---|---|---|---|
| session_calls | `MCSessionAPI.cfg` | what holds of a session whoever calls it, in any order | holds |
| tutor_serial | `MCTutorSerial.cfg` | one learner, one request at a time; provider and store may fail, the server may be killed; band changes, rejects, stops; is everything answered | holds |
| tutor_concurrent | `MCTutorConcurrent.cfg` | two requests at work at once, of one learner or of two, over files a failed write or a crash may tear | holds |
| web_page | `MCWebPage.cfg` | a learner who sends nothing while the page waits, with connections that fail and pages loaded again over handlers that work on, torn files, crashes, and the report fetched meanwhile | holds |
| guardian_page | `MCGuardianPage.cfg` | two guardians on one page, two requests in flight, replies lost or out of order, failing writes, crashes and restarts; whose consent is recorded | holds |
| accounts_requests | `MCAccounts.cfg` | two guardian requests at once, with failing writes, crashes and restarts | holds |
| roster_turns | `MCRoster.cfg` | three distinct learners in turn | holds |
| tutor_mastery | `MCTutorMastery.cfg` | "any demonstrated mastery are kept", with two requests of one learner | violated |
| tutor_reveals | `MCTutorReveals.cfg` | "Never reveal or supply an answer" against the shipped catalog | violated |
| web_double | `MCWebDouble.cfg` | "Require a transfer question", with an answer submitted twice | violated |
| accounts_register | `MCAccountsRegister.cfg` | an e-mail "must be unique", with two registrations at once | violated |
| accounts_restart | `MCAccountsRestart.cfg` | "so accounts survive a server restart", with a crash inside a write | violated |

### What they show

*The session engine.* Whatever the order of calls, the mastered flag and the
mastery map agree, a pending question is unanswered and its place in the loop
is right, no answer gets a third confirmation, mastery comes from a transfer
question or from the record, and the record only grows.

*The tutor with one request at a time per learner.* The saved session is always
`Sound`: at rest in one of four stages, with flag, state and mastery map in
agreement, a diagnosis recorded exactly when practice has begun, a pending
question that is the topic's own with its own answer, and fewer misses than call
for an explanation. The sessions implement `LearningLoop`, also when saves,
loads, and provider calls fail and the server is killed at any step, the state in
a reply is the one its prompt belongs to, and every request is answered.

*The tutor with several requests at once.* `StoreSound`, `NoSequencingError`,
`FreshQuestion` and `OwnSavesOnly` still hold: an interleaving never leaves a
session that nobody can continue, never makes the session engine refuse the
tutor, and never touches another learner's session. No failed write and no crash
takes the session of a learner who had no save under way, nor makes it
unreadable. What is lost is the *other*
request's work of the same learner: a save overwrites what was saved since the
load, mastery included (`MasteryKept`).

*The page.* What a learner says who sends nothing while the page waits is taken
for the answer to what the page shows (`TakenAsShown`), and an open chat form
stands under the text the session expects an answer to (`ScreenAgrees`), until a
request fails in a way that may have been served all the same; both hold again
after the first good reply to a request that was sent with no other at work. In
between nothing is claimed of the screen, and rightly: the form is usable as soon
as the connection has failed, so the learner's next request can be at work beside
the old handler, and of the two the one that saves last wins whatever its reply
said. The report on the page is that of the diagnosis in progress, although it is
fetched while the chat goes on and the server may be killed in between
(`ReportAgrees`): what it tells changes only by a diagnosis that follows a begin,
which hides the panel. An explanation sent again while the first is still with the
provider is the exception, since two diagnoses are then saved in either order;
nothing is claimed after such an overlap until the topic is begun again. The
way back is always the same: a topic begun on the page loaded again, with no
request of before still at work, shows what the saved session expects
(`ResumesWhereLeft`). Behind the page the sessions are those of the learning loop
unless requests overlap (`LoopUnlessOverlapping`): a handler left at work by a
failed connection is no harm to them by itself. A learner who submits one
answer twice before the reply arrives can have the second one taken for a
transfer question never shown (`MasteryWitnessed`).

*Accounts.* No token or consent is ever on record without its account; what a
client was told is there whenever the server runs; every request is answered
unless the server is killed over it. Two registrations of one e-mail at once both succeed and the
second replaces the password of the first; a crash inside a write leaves a file
the server does not start over.

*The guardians' page.* Whatever is lost, killed or overtaken, the token the page
keeps is on record for the e-mail it shows (`TokenGood`), and only her own click
signs a guardian out: "Session expired" is never shown to one who was signed in
(`StaysSignedIn`), because a token is given out only after the file with it is
complete and nothing removes one. With both guardians on record and a token of
each in use, a consent is recorded for the guardian whose token was sent
(`ConsentByItsGuardian`), whatever logins and saves come between the token's
resolution and the save. At rest the page shows the children and plan on
record (`AccountShown`), with these exceptions, each a state of the history
variables: after a failed or lost reply, after a crash, after two loads answered
out of order, and after another registration of the same e-mail, which replaces
the account and its plan (`accounts_register`), until the account is loaded again.

*The roster.* With distinct names each learner has the turn within one round,
and an answer reaches only the learner whose turn it is.

*Content.* The practice question after an explanation can be the very example
the explanation works out; `WorkedOut` in `Catalog` lists the bundles of the
shipped catalog where this happens.

### Bounds

- `SessionAPI`: one subject with two topics (switching away and back), two
  questions (a transfer question equal to and different from the original),
  answers right, wrong and uncertain (the uncertain one spelled differently),
  one valid and one invalid grade band and evaluation. `MaxStreak = 1` bounds
  the counter `wrongStreak`, which no session method reads. One expected answer
  is enough: expected answers are only compared with the answer.
- `Tutor`, serial: the real content of Division and Addition; Division in two
  bands whose bundles share answers, so that an answer can be right for one
  question and wrong for another and a pending question can outlive its band;
  an unsupported topic, an invalid band, a missing field, a blank input; three
  evaluations the validation rejects.
- `Tutor`, concurrent: two handlers, Division for one learner and a second
  learner who begins Addition; files tear, saves fail and crashes are not
  bounded. Every race found is between one handler's load
  and save and the steps of one other; a third handler adds overwrites of the
  same kind. The proofs cover any number.
- `WebClient`: one page. The two handlers serve the learner's request and a report
  fetched meanwhile, or a request whose connection failed and the one sent after
  it. Division in its lowest band, where 5 is wrong for the first practice question
  and right for the second and for the transfer question; an evaluation to
  practise, one to revise (two diagnoses can be told apart), and an unusable one.
  Explanations, the change of band and other topics are in the runs of the tutor. A
  given-up handler, a newer request and a report all at once need a third handler:
  that is left to the proofs, which cover any number. The double submit has two
  answers at work.
- `GuardianPage`: two handlers, so a load overlaps a change, another load or a
  login; two guardians who registered before, one learner both may consent for,
  one plan, `MaxTime = 3` (a token each and a consent by either, or a token twice). No
  registration from the page: it changes nothing on it but the message.
- `Accounts`: two handlers, `MaxTime = 2` uses of the clock (two tokens, or a
  token and a consent), one guardian under two spellings and two passwords,
  one learner, one plan, and a reject of each kind. Crashes and restarts are
  not bounded.
- `Roster`: three learners, the least number with a first, a middle and a last.
- Symmetry: in `MCTutorConcurrent.cfg`, `MCWebPage.cfg` and `MCGuardianPage.cfg`,
  whose two handlers are interchangeable and which have no liveness property.
- Tearing: in the serial run a torn file would end the only learner's story, so
  `WritesTear` is FALSE there and the runs with several learners or a page have it.
- Nothing else is bounded: `wrongStreak` stays below `wrongThreshold` by itself.

Runs check deadlock, except for those of `Accounts` and `GuardianPage`, where a
server killed in the middle of a write really does not start again.

### Fairness

`Tutor`: `FairSpec` asks weak fairness of each handler's own steps (`Proceed`),
never of an error of the store: no answer hangs on a failure to come. A
goroutine that can run is run by Go's scheduler; a store operation returns,
with an error if need be; the Groq client is built with a timeout of 30 s, and a
refused JSON mode has it called once more and no more, so a diagnosis ends. A
crash ends a request too; its client gets no answer then.

`Accounts`: a handler's step may be disabled again and again while others take
the mutex, so weak fairness would not do; `sync.Mutex` hands itself to a waiter
that has waited for more than a millisecond, first come first served, which is
strong fairness of `Proceed`. Nothing is asked of `Restart` or of failures.

Nothing is assumed of clients (`Arrive` is not fair) and nothing says *which*
outcome a step has, so the answer may be an error.

## 4. Proofs

`tlapm <module>.tla` checks each of the eight proof modules.

| Theorem | Module | States |
|---|---|---|
| `TypeCorrect` | `SessionAPIProofs` | `Spec => []TypeOK` |
| `MasteryRecordCorrect` | `SessionAPIProofs` | `Spec => []MasteryRecordAgrees` |
| `PendingIsUnanswered` | `SessionAPIProofs` | `Spec => []PendingUnanswered` |
| `StagesAreInOrder` | `SessionAPIProofs` | `Spec => []StagesInOrder` |
| `ConfirmationsBounded` | `SessionAPIProofs` | `Spec => []NoThirdConfirmation` |
| `MasteryIsVerified` | `SessionAPIProofs` | `Spec => MasteredByTransferOnly` |
| `MasteryNeverForgotten` | `SessionAPIProofs` | `Spec => RecordedMasteryKept` |
| `TypeCorrect` | `TutorProofs` | `Spec => []TypeOK` |
| `StoreAlwaysSound` | `TutorProofs` | `Spec => []StoreSound` |
| `SequencingCorrect` | `TutorProofs` | `Spec => []NoSequencingError` |
| `SavesAreOwn` | `TutorProofs` | `Spec => OwnSavesOnly` |
| `QuestionsAreFresh` | `TutorProofs` | `Spec => FreshQuestion` |
| `RepliesAgree` | `TutorSerialProofs` | `OneAtATime` implies `Spec => []ReplyAgrees` |
| `MasteryIsKept` | `TutorSerialProofs` | `OneAtATime`, `~WritesTear` imply `Spec => MasteryKept` |
| `StopLasts` | `TutorSerialProofs` | `OneAtATime`, `~WritesTear` imply `Spec => StoppedStaysStopped` |
| `LoopImplemented` | `TutorSerialProofs` | `OneAtATime`, `~WritesTear` imply `Spec => FollowsLoop` |
| `WebImplementsTutor` | `WebProofs` | `WebSpec => Spec` of the tutor |
| `WebStoreSound` | `WebProofs` | `WebSpec => []StoreSound` |
| `WebTypeCorrect` | `WebProofs` | `WebSpec => []WebTypeOK` |
| `ScreenAlwaysAgrees` | `WebProofs` | `Patient`, `OneLearner` imply `WebSpec => []ScreenAgrees` |
| `ReportAlwaysAgrees` | `WebProofs` | `Patient`, `OneLearner` imply `WebSpec => []ReportAgrees` |
| `AnswersTakenAsShown` | `WebProofs` | `Patient`, `OneLearner` imply `WebSpec => TakenAsShown` |
| `BeginResumes` | `WebProofs` | `WebSpec => ResumesWhereLeft` |
| `PageLoopUnlessOverlapping` | `WebProofs` | `WebSpec => LoopUnlessOverlapping` |
| `TypeCorrect` | `AccountsProofs` | `Spec => []TypeOK` |
| `RecordsAlwaysSound` | `AccountsProofs` | `Spec => []RecordsSound` |
| `AcknowledgedIsKept` | `AccountsProofs` | `Spec => []AcknowledgedKept` |
| `ConsentIsItsGuardians` | `AccountsProofs` | `Spec => ConsentByItsGuardian` |
| `PageImplementsAccounts` | `GuardianProofs` | `PageSpec => Spec` of the accounts |
| `PageTypeCorrect` | `GuardianProofs` | `PageSpec => []GuardianTypeOK` |
| `TokenAlwaysGood` | `GuardianProofs` | `PageSpec => []TokenGood` |
| `StaysSignedInAlways` | `GuardianProofs` | `PageSpec => StaysSignedIn` |
| `AccountAlwaysShown` | `GuardianProofs` | `PageSpec => []AccountShown` |
| `TypeCorrect` | `RosterProofs` | `Spec => []TypeOK` |
| `AnswersAreInTurn` | `RosterProofs` | `Spec => AnswersInTurn` |
| `TurnsGoRound` | `RosterProofs` | `Distinct` implies `Spec => []EveryoneGetsTurn` |

### The session engine

For any subjects, topics, texts and evaluations, and any number of misses in a
row, from `CallsType` (the texts are strings, the evaluations records of an
evaluation's fields). A caller may call any method at any time, so the invariant
can only be one that every method keeps on its own: `RightSession` says of *any*
session what the three invariants say of the one in the state, and there is one
lemma per method (`SelectTopicRight`, `CheckAnswerRight`, ...) that takes a right
session to a right one. `NoThirdConfirmation` speaks of the calls since the last
`SubmitAnswer` and is not inductive: `SubmitAnswer` does not clear the session's
count of confirmations, so what bounds the history is `confirmed <=
confirmationCount`, and the count is bounded by `RequestConfirmation`.

### The tutor

The theorems of `TutorProofs` hold for every set of handlers, requests, subjects, topics and
provider results, with or without a provider, a failing store, torn files and
crashes, whether or not a learner waits for replies, for every catalog with `ContentShape`.

**Assumptions.** `NoTextType`, `KeyType` (texts and keys are strings),
`MessagesType`, `RequestsType`, `ProviderType`, `ModesType`, and `ContentShape`:
each topic has the default band, each bundle at least two practice questions of
which the first two differ, and no practice question of a topic is one of its
transfer questions in any band. TLC evaluates all of them on the shipped
catalog in every run.

**Argument.** `StoreSound` is not inductive: a handler's copy becomes the stored
session at its save, long after its load. The inductive invariant `IInv` is
`TypeOK`, `StoreSound` and `HandlerSound`, which says of each handler what its
step entitles it to: a copy waiting to be saved is itself `Sound` and its
request's learner's, a copy waiting for the provider is a sound session in
diagnosis, a handler past its load works for a learner who has a session, and
no reply holds an error of sequencing. Whatever other handlers store meanwhile
is sound as well, so the *order* of saves does not matter: that is why these
properties survive the races that break the others. There is one lemma per
action (`BeginTopicStep`, `AnswerQuestionStep`, ...), resting on
`SessionProofs`, which says of each session method what type and fields it
leaves. That a question is fresh rests on `ContentShape` across bands: the band
can change while a question is pending, so the transfer question of one band is
compared with the practice question of another.

### Learners who wait for their replies, and the learning loop

`TutorSerialProofs` is about what the races break. `SerialInv` says that of the
handlers at work for one learner at most one may save (`Alone`); that a handler
with the provider or past its save holds what is saved of its learner; and that
what a handler is about to save `Follows` from what is saved *now*: it is one
move of the loop from there, or the same place in it, and only a begin takes up
a stopped attempt (`HandlerSerial`). Its part `FreeInv` needs no such learner:
what is saved and what is about to be is work on a topic offered, and no handler
tells of a state before its reply is done (`HandlerFree`), so that a single request
can be taken up where several were before (`FirstSerial`). `SerialInv` is kept because a learner's session changes by
a save of its own requests only (`OwnSavesOnly`, proved in `TutorProofs`), so
with one writer nothing comes between a load and the save after it. From
`Follows`, the save itself is a step of `LearningLoop` and any other step a
stutter (`LoopSteps`); the initial store maps to the loop's initial state
(`LoopStarts`).

`OneAtATime` is a constant of the model, TRUE when every learner waits; without
it all four are false (`tutor_mastery` shows it of `MasteryKept`).
Handlers that only read (the report, the resumed session) may run beside a
writer in the invariant, which is what the learner's page does with its report.
`~WritesTear` is the memory store and the database: a file torn by a crash or a
failed write holds no mastery, and the loop has no move for that.
`KeysDistinct` is an assumption on the curriculum: two topics offered
never share a mastery key. `masteryKey` joins subject and topic with `"|"`
(`session.go:225`), and no name of the curriculum has one; if two topics
shared a key, work on one would look like work on the other. TLC evaluates it on the shipped
curriculum.

### The page

Every step of `WebClient` is a step of `Tutor` or leaves its variables alone
(`WebStep`), so `WebSpec => Spec` and everything proved of the tutor holds
behind the page, patient or not, however many connections fail.

The argument has two parts. The first is about *any* page (`WInv`). A request sent
while no other is at work is the only one of the learner that may save
(`SubmitSerial`), and stays the only one, whether the page waits for it or has given
it up, until the next is sent (`OtherSerial`). So while `overlap` is not `now`, at
most one handler of the forms is at work (`Single`), the serial argument holds
(`SerialInv`), although `OneAtATime` is FALSE, and a prompt on its way ends with what
the session saved with it expects (`HandlerShows`). Of requests that overlap only
`IInv` and `FreeInv` are kept, and that is enough to take the rest up again with
the first request sent alone. `WebTypeCorrect`, `BeginResumes` and
`PageLoopUnlessOverlapping` follow, for any learners, patient or not.

The second part is about the page of *one* learner (`OneLearner`: the page
shows one chat, and what it shows is compared with the saved session of every
learner it may send requests for) who sends nothing while the page waits for a
reply (`Patient`). `PageInv` says that

- one reply is waited for at most (`Sole`), and every handler that was given up, and
  every request sent over one, has left the page `behind` (`GivenUp`): while it is
  not, what the page waits for is all that is at work (`UpToDate`);
- while the page is not behind, what was shown when a request was sent is what is
  shown (`Unanswered`), and with no reply due what is shown agrees with what is
  saved (`ScreenRight`);
- with no overlap since the topic was begun, the report panel opens only when no
  diagnosis is open, and none can start before the page is loaded again
  (`PanelSettled`, `Beginning`), so the report that is shown or on its way is
  that of what is on record (`ReportsFind`, `ReportRight`).

`behind` is what makes `ScreenRight` inductive: a request that failed may or may not
have been saved or may still be, and the next good reply to a request sent alone,
whose prompt is that of what it saved, mends it.

### Accounts

For any number of handlers, requests, crashes and failures, from `RequestsType`,
`TextType`, `HandlersType` and `PlansType`. The inductive invariant says of each
handler (`Entitled`) that the account it works for is in memory before it saves
a token or a consent, that a handler with the mutex has its change in memory and
one that is about to answer with success has it in the file; that what clients
were told is in the file (`ToldKept`); that while the server runs the file's
keys are among the memory's (`Within`), so a restart loses nothing that was
acknowledged; and that two tokens are never the same (`TokensFresh`). That no
operation removes an entry is what makes the early read of the token and the
late save of a consent sound.

### The guardians' page

Every step of the page is a step of the accounts or leaves their variables alone
(`PageStep`), so `PageSpec => Spec`. On top of the accounts' invariant, `PInv` says
that a token the page keeps was told to a client and is in the file, for the
e-mail the page keeps (`OnRecord`); that a login on its way to an answer has put
its token there (`Issued`); and that every request carries a token that was told,
or none, and only one without is refused (`Presented`), so that no reply can sign
the guardian out. `LInv` is about the account: while nothing that may change it
is under way (`Quiet`), the account on the page is the one on record unless
something was missed, or the newest load has read what is still true (`LoadTrue`).
It is not enough to say so of a load when it is answered: a load that started
before a change was acknowledged may have read either account, and what saves the
page is that the acknowledgement itself starts a newer load.

### Roster

`TurnInv` names the place `i` the turn is at and says that the learner at `j`
has waited no longer than since the turn was there, `Ago(i, j)`. It rests on
`Distinct`: with a name listed twice `AdvanceTurn` goes on from the first place
of the name, and learners after the second place never have the turn.

**Model-checked only.** `RequestsAnswered` of both servers: liveness under
fairness is out of the prover's reach. Everything else the passing runs check is
a theorem above, with the conditions its run sets as its hypotheses. That the shipped
catalog and curriculum have `ContentShape` and `KeysDistinct` is evaluated by
TLC, not proved. The five violations are runs only.

## 5. Not modelled

- `/curriculum`, `/healthz`, the plan catalog and the consent status: each reads
  once, or nothing, and replies.
- JSON, status text, logging, layout, and the lists of skills, gaps and
  misconceptions of an evaluation, which are displayed only.
- How the Groq adapter cuts an object out of the model's text, and which errors of
  the provider it takes for a refusal of JSON mode: any call may end in any result,
  in an error, or in such a refusal.
- The memory store of accounts (`MemoryStore`), which is the file store without
  its file and which only tests open; sessions over PostgreSQL other than as an
  atomic Load and Save.
- The curriculum menus of the learner's page: a request may name any topic.
- Start-up (`cmd/server`) other than the opening of the accounts file.
- Two tabs of the learner's page, and two tabs of the guardians' page over one
  localStorage. Requests a browser sends again by itself.

Observations made on the way that have no run of their own:

- An answer or a diagnosis in work when the learner stops saves its session
  after the stop and takes the attempt up again (`StoppedStaysStopped` holds
  for one request at a time only), and a reply may then carry the state another
  request's save left (`ReplyAgrees` likewise).
- A learner whose connection fails while a handler works on and who sends again
  has two requests at work: the late save of the old one can leave the page under
  a question, or with a report, that the session no longer has, and the session
  behind the loop, though every reply was good. Neither page nor server notices;
  beginning the topic again, when both are done, shows what is saved.
- The session engine alone allows a transfer question before any right answer,
  and a second answer to a question keeps the confirmations counted for the
  first. The tutor does neither.
- Of two consents for one learner the one saved last counts, though it may be
  stamped earlier.
- The reply to a stop says "You can begin again any time", but the start form
  stays hidden: the page must be loaded again. The chat form stays open, and the
  next input gets a 409 that closes it. After a begin that failed there is no form
  at all.
- `AskQuestion` refuses only when the state is `Uncertain` and
  `taughtSinceUncertain` is FALSE, and a transfer question leaves that flag set
  (`session.go:332`): after teaching for one uncertain answer, a transfer question
  and a second uncertain answer, a question can be posed with nothing taught,
  although `session.go:47-49` says `ErrReteachingRequired` is returned then. The
  tutor always teaches first.
- A learner whose session file is torn gets 500 from every route from then on:
  nothing removes or replaces the file.
- `NewGroq` turns JSON mode on whatever the configuration says ("defaults to true
  when unset": an unset flag and a FALSE one are the same).
- The sign-out button of the guardians' page is appended to the status area of a
  page that is loaded while signed in; the next message replaces the area's text
  and the button with it, and a guardian who has just logged in has none.
- Signing out leaves the plan cards and children on the hidden panel; the next
  sign-in shows them until its own account is loaded.
- `RequestConfirmation` is never called by the tutor, although `README.md`
  section 3 asks for exactly two confirmations; consent is recorded and not
  required by any tutoring route; the roster is not used by the tutor; after
  two misses `nextPracticeQuestion` alternates between the first two questions
  of a bundle, so the third is never asked.

## 6. Plan

Done: session engine, content, tutor with API, provider calls and store under
crashes, the abstract loop, both pages, accounts with their API and file store,
the roster; proofs of every safety property the passing runs check, and of the
refinement of the loop. Next, in this order:

1. With torn files: mastery is lost only by the learner whose save was
   interrupted, and only with its file (`MasteryKept` without `~WritesTear`, as a
   property of the readable sessions).
2. An abstract specification of the accounts (what a client was told is true of
   one map from e-mails to accounts) that the file store with its crashes
   implements.
3. `TakenAsShown` for a learner with two tabs, each of them patient: what remains
   true of it.
