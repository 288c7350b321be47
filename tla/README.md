# Fixiyi, verified

TLA+ models of Fixiyi, a marketplace that finds a home-services provider for a
client's request. TLC checks the models on small instances; TLAPS proves their
safety and action properties for every value of their constants. Paths
below are relative to `src/`, and `api`, `web` and `admin` stand for
`apps/api/src`, `apps/web/src` and `apps/admin/src`.

Run a check with `tlc -config <run>.cfg <MC module>` and a proof with
`tlapm <module>_proofs.tla`. `PROJECT.json` lists the runs, the lines of code
each definition models, the mutants that show that each property can fail, the
hazards and the theorems.

## 1. The system

A TypeScript monorepo: a NestJS API (`apps/api`, several replicas) on MongoDB,
Redis, BullMQ and an S3 store, two Next.js applications (`apps/web`,
`apps/admin`), a worker with a single diagnostic queue, and shared packages. All
shared state is in the database, in Redis, in the bucket and in browser tabs.
**No operation of the API runs in a transaction**: a handler loads documents,
computes, and saves them several awaits later. Mongoose's `save()` writes only
the paths that changed, and every schema sets `versionKey: false`, so nothing
detects a concurrent write. What holds the system together is unique indexes,
atomic updates (`$inc`, `$max`, conditional `findOneAndUpdate`), the order in
which handlers write, and what the browser does with an answer that comes late
or not at all. That is what the models are about.

| Component | State | Operations | Hard behaviour | What makes it correct |
|---|---|---|---|---|
| Dispatch (`api/matching`) | match, candidates, batches, BullMQ jobs | start (AUTO/DIRECT), expandRadius, batch job, view, decline | overlapping batches, stale saves, jobs run again or lost, crashes | nobody contacted twice; batches in order, small, recorded; a closed match stays closed; a search ends |
| Ranking and eligibility (`api/matching`) | configuration, availability, past dispatches | search, score, select | counts read before a batch of another search is written | newcomers get their reserved seat; nobody loses a seat to one who deserves it less |
| Requests and media (`api/requests`, `api/media`, `web/app/requests/new`) | request, its media, the form of each tab | draft, edit, attach, submit, cancel | two tabs, lost answers, retries, a file that lies about its type | one draft per tab; a consistent chain; what is shown as attached is; nothing changes after submission |
| Chat server (`api/chat`) | conversation, messages | send, edit, remove, react, receipts, unlock | repeated sends, two changes at once, stale policy | one message per client id, marks monotone, no contact detail before the unlock |
| Chat client (`web/lib/use-chat-thread`) | messages shown, cursor, acknowledged marks | first page, push, catch-up, answers, receipts | lost and reordered pushes, reconnects | everything stored is shown, never an older version |
| Opening a conversation (`api/chat/conversation.service`, `web/app`) | candidacies, conversations, pages of each tab | open, decline, write, the lists | both sides opening at once, a candidacy expiring meanwhile, failed calls | one conversation; who opened is not cut off; a failed send loses no text |
| Contact detection (`api/chat/contact-detection`) | none | normalise, parse number words, detect, mask | disguised and dictated numbers | what means a number is masked, and nothing else of the text |
| Sessions (`api/auth/session`, `web/lib/api-client`) | sessions, token pair per tab, sockets | issue, rotate, revoke, refresh, sweep | two tabs rotating one token; theft against a race | one rotation per token; reuse revokes; a dead session's socket is cut |
| Accounts (`api/auth/otp`, `rate-limit`, `auth.service`) | codes and counters in Redis, accounts | request and verify codes, attach an email | get-compare-write, INCR then EXPIRE | one owner per email, counters expire unless a request died at the wrong point |
| Onboarding (`api/companies`, `providers`, `verification`) | companies, members, profiles, cases, documents, decisions | invite, accept, remove, open, upload, submit, decide | read-check-save, crash between two writes | an owner remains; decisions recorded; a badge is earned |
| Catalogue and seed lock (`api/catalog`, `api/common/seed`, `admin/app/catalog`) | nodes, lock document, a tree per tab | seed, add, edit, deactivate | instances racing at boot and dying; old trees | seeded before anybody serves; a tree; no inherited value frozen |
| Reads (`api` lists and views, `web` search and navigation) | none of their own | lists, pages, inboxes, views | lists and single reads that disagree | what is listed opens, pages miss nothing |
| Geo and transport pricing (`api/geo`) | none | quote, blur | rounding, the cap, the free radius | monotone, capped, free inside the radius |

Interaction: `ChatModule` asks `MatchingService` whether a candidacy is live and
marks it viewed; `MatchingService` asks `RequestService` for the request and
moves it to `MATCHING`; a batch reads the request's status back before it
contacts anybody; `RequestService` asks the catalogue for the chain and
`MediaService` for uploads; ranking reads which targets `VerificationService`
calls verified, which configuration is stored and who is available; gateways ask
`SessionService` which sessions live; the seed lock runs at boot under catalogue
and configuration; every browser tab holds copies of all of it.

## 2. Modules

| Module | What it is |
|---|---|
| `Documents` | Mongoose's partial save, shared by every component |
| `Dispatch` | one request's progressive dispatch, one action per database or queue call |
| `ProgressiveDispatch` | the abstract promise: an append-only list of small, disjoint waves; `Dispatch` implements it |
| `Ranking`, `Exposure` | the scores and the choice of a batch; many searches over one pool, with configuration and availability changing |
| `Media`, `Requests` | media documents and the bucket; requests and the form of each tab on top |
| `ChatServer`, `ChatThread` | one conversation on the server; tabs and the socket on top |
| `Conversations` | how both sides reach a conversation: dispatch list, inbox, opening, declining, composer |
| `NumberWords`, `ContactDetection`, `ContactChecks` | the detector as functions, and what it must do to dictated and disguised numbers |
| `MessageViews`, `MessageChecks` | what each side sees of a message and may do to it |
| `Sessions`, `SessionTabs` | the session table, guard and gateway; the tabs of a browser on top |
| `Accounts` | one-time codes, counters and the email of accounts, one Redis command at a time |
| `Companies`, `Providers`, `Verification`, `Onboarding` | the collections, and the handlers that write them |
| `SeedLock`, `SeededOnce`, `Catalog` | the lock, its abstract promise, the catalogue and its editors; `Catalog` implements `SeededOnce` |
| `CatalogViews` | search, links to the form and navigation over a tree, with what they promise |
| `Reads`, `ReadChecks` | ownership rules, lists and views, compared with each other |
| `Transport` | the price of a trip and the blur of a point |
| `MC*` | constants and symmetry for TLC |
| `*_proofs` | the proofs about the modules they extend (`Auth_proofs`: `SessionTabs` and `Accounts`; `Chat_proofs`: `ChatThread` and `NumberWords`; `Exposure_proofs`: `Exposure` and `Transport`) |

### How the code becomes actions

A *process* (handler, queue worker, booting instance or call of a tab) has a
step, which names the next call it will make, and local copies of what it has
loaded. One action covers one await and the synchronous code after it, with its
early returns and thrown errors. Actions of different processes interleave
freely. `SetIfModified(old, new, current)` of `Documents` is what a partial save
leaves of a path, and every stale save goes through it. A unique index is a
guard of the insertion: an insertion it refuses fails with the request.

**Dispatch.** `request`, `match`, `candidates`, `batches` are the documents and
collections; `jobs[n]` is the BullMQ job with id `<match>-batch-<n>`; `base[p]`
and `doc[p]` are the match as `p` loaded it and as it has changed it, from which
`Saved` computes what the partial save leaves. `StartAuto`/`StartDirect`,
`CreateMatch`, `MarkMatchingLoad`/`Save`, `DirectInsert`/`Save` are
`MatchingService.start`; `ExpandLoad`/`Save` are `expandRadius`; `LoadMatch` to
`ScheduleNextBatch` are `DispatchService.runBatch`, `persistBatch` and
`scheduleNext`; `TakeJob`, `SettleJob`, `JobDue` are the queue; `AnswerLoad`/
`Save` are view and decline; `CancelLoad`/`Save` are `RequestService.cancel`.
The unique indexes are `Refused` (match, provider) and `Recorded` (match,
index); an unordered `insertMany` inserts what is not refused and then throws.
`Fault` is a process that dies between two calls, or a call that throws: the job
of a dead worker is run again by BullMQ, one that throws is failed (one
attempt). Ranking is abstracted to "any set of at most `BatchSize` providers in
the radius not contacted yet"; time is abstracted to the order of `JobDue` and
`Lapse`.

**Ranking and Exposure.** Scores are numerators of fractions with one common
denominator, so comparing them is exact. A search reads the configuration
(`BeginSearch`), the eligible providers (`FindEligible`), their past dispatches
(`CountPast`) and writes its batch (`InsertBatch`) in four calls; several run at
once, while providers change their availability and an administrator updates one
configuration field at a time, writing all of what he read. `waited[p]` counts
the batches in which an uncontacted provider was eligible and passed over.

**Requests.** A tab awaits one call at a time, so the server's calls for it are
steps of the tab: `LookUpDraft`, `Create` (`initializeDraft`), `PatchLoad`/`Save`
(the cascade), `MediaCheck` to `RejectDelete` (the upload session, the PUT,
finalize and its scan), `SubmitLoad`/`Save`. `Answer` is an answer that arrives
or is lost; the retry starts from what the form still holds. `Disguised` uploads
have bytes of another type than declared.

**Chat.** `chat` is the conversation document together with what `canSend`
reads elsewhere (is the request closed, is the candidacy live). `Send`,
`Replay`, `Check`, `AllocateSeq`, `InsertOnce`, `Publish`, `Answer` are
`MessageService.send`; `Change`, `LoadMessage`, `CheckSave`, `SaveMessage`,
`Publish` are edit, remove and setReaction; `Acknowledge`, `AdvanceWatermarks`,
`Announce` are the receipts. A text is `"plain"` or has one contact detail,
`"phone"` or `"email"`, and is then stored as `"masked"` while contact is
protected, with its kind added to the list `redactions` of the message. A save
writes that list whole, as it was built from the copy that was loaded. A push goes
to the sockets connected when it is emitted, in order, and is lost otherwise. A
tab asks for a page (`AskFirstPage`, `Connect`), the server reads it later
(`ReadPage`), the tab merges it later still (`TakePage`): pushes may arrive in
between. `AcknowledgeHeld` is `useReadReceipts`, `TakeAnswer` the merge of the
answer to the tab's own call.

**Conversations.** A tab has a page, with the rows or the conversation it last
read. `PressChat`, `ResolveCandidacy`, `LoadViewed`, `SaveViewed`, `FindTalk`,
`CreateTalk`, `FindWinner`, `ShowTalk` are `ConversationService.open` and the
navigation that follows; `PressDecline`, `SaveDeclined`, `Refresh` the refusal;
`Type`, `PressSend`, `StoreMessage`, `Sent` the composer, whose box is empty, holds
what the user typed, or holds it edited since the press: it stays editable during a
send. `RunBatch` (a whole batch), `Lapse` and `Cancel` are what happens meanwhile.

**Sessions.** A pair of tokens is its session and version. `RotateVersion` is the
conditional update of `rotate`; `RefreshExplain` and `RefreshRevoke` are what a
failed rotation leads to; `flight[t]` is the single refresh in flight of a tab,
`disk` the copy in localStorage that a reload or a new tab adopts. `shared` is a
history variable: the sessions that two tabs have held at once, or of which an
answer was lost. `SweepQuery` and `SweepDisconnect` are the gateway's timer.

**Accounts.** `code`, `cooldown` and `window` are Redis keys, `h[p]` a handler
between two commands. `Consume` is INCR and `ExpireWindow` the EXPIRE that only
the first hit makes; a replica that dies between them leaves the subject in
`orphaned`.

**Onboarding.** `Companies`, `Providers` and `Verification` hold the
collections as sequences in the order of insertion and what each service reads
and writes of them; `Onboarding` has the handlers, named after the calls:
a request loads, tests, and writes in a later step what it saw then. `PutObject`
is the browser's PUT, which reaches storage at any moment after the announcement.

**Catalogue.** `boot` and `lock` are the instances and the lock document of
`SeedLockService.runOnce`; rows are seeded one insertion at a time. Each editor
tab has a tree it fetched, a dialog prefilled from it and one mutation in
progress; `LoadNode` and `SaveNode` are the two calls of an update. `picked` is a
history variable: the colours somebody gave to a node.

**Functions.** `NumberWords`, `ContactDetection`, `CatalogViews`, `MessageViews`,
`Reads` and `Transport` have no state, nor has `Ranking`, which `Exposure` uses.
What they must satisfy is stated as named assumptions over every small input,
which TLC evaluates at the start of the runs whose MC module extends them
(section 3).

## 3. Runs

| Run | Instance | Shows |
|---|---|---|
| `dispatch_concurrent` | 2 handlers, 1 worker, 2 providers, 2 batches of 1, 1 fault; auto, expand, cancel | each provider contacted once, counted batches recorded, closed is final, the audit trail refines `ProgressiveDispatch` |
| `dispatch_chain` | 2 handlers, 1 worker, 2 providers, 2 batches of 1, no fault; auto, direct, cancel, view, decline, lapse | small batches, every contact recorded, a waiting match has its job, a cancel stops a search that runs, a search ends |
| `exposure` | 4 providers (2 newcomers whom every other signal puts last), 8 searches, 2 at a time, batches of 2 or 3 with 1 or 2 reserved seats, 1 change of availability or configuration | a newcomer is passed over a bounded number of times; every batch is full, and whoever is left out ranks below the seats of merit and was contacted no less often than those in the reserved seats |
| `requests` | 2 tabs (one submits, twice), 1 file, 3 requests, 1 lost call or answer; cancels | one draft per tab, consistent chain, what is shown as attached is stored and scanned, a submitted request is frozen under one writer, the button comes back |
| `chat_writes` | 2 requests on one message, plain or with either contact detail, 2 seqs, versions to 2; edit, remove, unlock, close, lapse, crash | one message per client id, no contact detail before the unlock, no stale save undoing a removal, clearing the detections or dropping one its handler read |
| `chat_receipts` | 2 requests, any seq acknowledged, one tab whose first page may fail once | marks ordered and clamped, never back |
| `chat_reconnect` | 1 request at a time, 2 messages, pages of 1, a reading tab that drops once; react | nothing missed after the catch-up, versions only forward |
| `conversations` | a tab of the client, one of the provider, 2 presses each, 1 failed call or query | one conversation, an open lands in it, who opened is not cut off, a failed send keeps the text and what was typed meanwhile |
| `sessions` | 1 session, 2 tabs, 2 calls (one a sign-out), 2 rotations, 1 fault, every operation | one successor per token, no honest tab taken for a thief, a revoked session final, its socket cut |
| `accounts` | 2 users, 1 email, 2 handlers, crashes | an email has one owner, a counter expires unless the request that began it died |
| `onboarding` | 2 users and an agent, 2 handlers, 1 company, 1 document, 2 decisions, crashes | one row each, an owner remains, decisions recorded, a badge earned |
| `catalog` | 2 instances, 2 editor tabs, 4 nodes, 2 edits | a sound tree, no inherited colour frozen, refinement of `SeededOnce` |

Evaluated with them, over every input of a small size:

| Where | Statements |
|---|---|
| `ContactChecks` (chat runs) | every number written or dictated in pairs reads back (`PairsReadBack`, but for the exceptions of section 5); dictated and disguised numbers are masked; the kinds of contact are ranked; the mask covers exactly what was found |
| `MessageChecks` (`conversations`) | a removed message shows nothing; what is offered is accepted; both sides see the same but for contact details; a reaction toggles; which arrivals count as news |
| `CatalogViews` (`catalog`) | the search misses nothing and repeats nothing; a path tells nodes apart; a result fills the form; navigation covers every screen |
| `ReadChecks` (`exposure`) | pages miss and repeat nothing; what a list shows opens; what is attached is shown; the three readings of a candidacy agree; the inbox can be answered; public views hold less; travel time grows with distance |

**The three dispatch and chat splits.** Guarantees differ under overlap. With
`expandRadius` concurrent to a batch, the small-batch, audit and liveness
promises fail (section 5); `dispatch_chain` shows that they hold as soon as only
`start`, the jobs, cancels, answers and DIRECT dispatches overlap. Its two handlers
put a cancel between any two awaits of `start`. `CancelStopsMatch` is about a search
that runs (`SearchRunning`: a batch is under way or was counted), because a cancel
saved before the first batch leaves the match ACTIVE (section 5). Likewise
`chat_reconnect` serves one request at a time, because two at once publish out of
order.

**Bounds.** Every race of the dispatch is between two runs of `runBatch` (or a
cancel) on one match; two handlers and a worker give three at once, and two
batches give a first, a last and the exhausted case. `MaxFaults = 1` puts one
crash or error at every point. Radii 1, 2, 3 with step 1 cover below, at and
beyond `MaxRadius`; the provider `far` is reached by expansion only. In the
other runs two actors exhibit every pairwise race between handlers or tabs, and
every read-check-save here is pairwise. `MaxSeq = 2` is the least that gives a
gap; `PageSize = 1` forces the catch-up to page; `MaxVersion` bounds the
rotations and changes (two concurrent ones may end one above it). Eight searches
are more than enough for the bound on a newcomer's wait to be reached exactly;
batches of three make the number of reserved seats matter, which is one for a batch
of two however many are configured. Two kinds of detail let two edits add different
detections. Four
catalogue nodes on a seed of two leave room for two additions that collide.
Symmetry is used only in runs without liveness, over handlers, near providers,
searches, instances and tabs that nothing distinguishes. `CHECK_DEADLOCK FALSE`
is everywhere, because the system may really stop: all jobs done, nobody writing.

**Fairness.** `Dispatch.FairSpec`: weak fairness of each process's next await
(Node's event loop resumes it), of a worker taking a due job, and of delays
elapsing. `SessionTabs.FairSpec`: the sweep's timer fires and its query is
answered. `Requests.FairSpec`: a call in progress is answered or fails, since the
browser ends one that is not. No client is obliged to call anything, no fairness
is given to faults, and the other specifications have none. `dispatch_chain` has
`MaxFaults = 0`: the code has no recovery for a job lost between `match.save()`
and `queue.add`, so no liveness could survive that crash.

## 4. Proofs

Eight modules, each for every value of the constants under the assumptions its
model names (`ConfigAssumption`, `OnboardingAssumption`, ...): natural bounds,
non-empty sets. Each proves type correctness and an inductive invariant that
implies the properties below; the properties are seldom inductive alone, because
a handler acts later on what it read earlier, so the invariant says what each
step of a request knows. Every invariant and every action property of the runs
has a theorem. Six of these theorems have a hypothesis on the constants, given
with the theorem, because the code does not keep the property without it.

`Dispatch_proofs`, for every number of processes, providers, batches, radii and
faults:

- `TypeCorrect`: not inductive alone, because the bound on `batchCount` must
  survive `SaveMatch`, which adds one to a copy. `Control` says what each process
  knows at each label, in particular that between the check of the limit and the
  save the copy is below `MaxBatches`.
- `ClosedStaysClosed`: by `Control` the only saves that write `status` write a
  terminal one, and `SetIfModified` leaves the stored status alone otherwise: the
  partial save is what makes stale copies harmless here.
- `CountedAreRecorded`, `BatchesExclude`, `CountGrows`: they hold only together,
  with `Ordered`: every index below a copy's count is recorded, and a process
  about to save has itself recorded the index it counts. The unique index on
  (match, index) acts as a lock between recording and saving.
- `NobodyTwice`: inductive once every operation on the stored dispatches is known
  to keep the (request, provider) pairs it finds.
- `RecordsAreTrue`, with `Truthful`: what a process has inserted and not yet
  recorded is stored.
- `TrailIsProgressive`: the refinement. The mapping reads the records in the order
  of their index; `Lined` says this order has no gap and no repetition, and the
  only step that changes it appends a batch that fits and names nobody recorded
  before.
- `TheTimerRuns`, `ContactsAreRecorded`, `BatchesStaySmall`, if nobody widens the
  search and no call fails (`Undisturbed`): an overlapping `expandRadius` contacts
  outside the record and beyond the size, and a crash before `queue.add` leaves no
  job. All three follow from `Chain`. At any moment one process drives the match
  or one job waits for it, never both (`OneDriver`, `Line`), so what the driver
  holds is the stored match but for its own edits (`CopyOK`) and the candidates of
  a batch are those of its record or of the driver (`Contents`). Cancels, views,
  declines and lapses go on meanwhile: they write no path the driver reads again.

`Chat_proofs`, for every set of messages, handlers and tabs, every page size, any
mix of operations and any number of faults:

- `ChatTyped`, from `Sound`: no view held, pushed or on a page is ahead of
  `lastSeq`, and the highest seq a tab acknowledges exists.
- `OneMessagePerSend`, `SeqIsCursor` (with `Reserved`: a handler about to insert
  holds a seq that nobody else has), `MarksStayOrdered`, `MarksOnlyAdvance` (the
  clamp uses an old conversation, which is not ahead of the stored one).
- `ContactStaysHidden`, with `Shielded`: a conversation loaded before is at most
  stricter than the stored one.
- `ModerationSurvives`, with `Careful`: the copy a save starts from was not
  deleted, and the list it writes is the one it read or that list and one more. So a
  stored list is extended by one, left alone, or replaced by an edit that had read
  another (`StaleSave`); the last is how a detection is lost (section 5).
- `NeverAnOlderView`, once the first page is shown (`Loaded`; the first page
  replaces what came before it). A tab and a page hold one view of each message
  (`Merging`, which needs `SentOnce`), and the merge keeps the newer.
- `NothingIsMissed`: a tab that is connected and waits for nothing shows every
  message. `Followed` accounts for each stored message: it is shown, or an earlier
  call for a page will bring it, or it is above the cursor and a push or a
  reconnect will (`Accounted`). The cursor never passes a message that is missing,
  because messages are stored and pushed in order of seq (`Latest`) and a page
  starts at or below the cursor (`Behind`). `OneReader` asks for a first page, one
  handler, no failed call, no crashed handler and a tab that only reads. Two
  handlers may publish out of order, a crash loses the push, a failed catch-up is
  not repeated, and the answer to a tab's own message moves its cursor past what it
  has not received.
- `ParseOneAdvances`: a step of `parseNumberWords` takes a word and never reads
  past the last, so that its loop ends.

`Conversations_proofs`: a page or a call never names more than the server held
when it was read, and a dispatch only moves forward (`Forward`). From this
`OneConversation`, `EngagedNotCutOff` (who opened was marked as a viewer first),
and the action properties `FailedSendKeepsText` and `OpensLand` (the loser of the
race to create has a winner to find). `FailedSendKeepsText` is about sends that are
refused, fail or go unanswered, for text typed before or during them; the success of
a send and an unmounted composer do lose text (section 5).

`Auth_proofs`, sessions: a session that was never shared is held by one tab, in its
store, in the refresh it has in flight or in the answer of its login page, and what
that tab presents is the current version (`Unshared`, `TabGood`). From this
`OneGrant`, `NoFalseAlarm` and `EndedForGood`. Accounts: `EmailBelongsToOne` and
`OnlyADeathOrphans`. A counter is created by `INCR` and gets its expiry in a later
call, so between the two it is the handler's step that answers for it; a death at
that step makes the counter an orphan, which stays for ever. `Informed` says what a
request knows of the code it is about to write back and of the address it attaches.

`Requests_proofs`: `TabOK` says what a form and the call it has in progress know,
by parts: what is shown as ready is attached (`Shown`), a file still to be uploaded
was not stored by this press already (`Fresh`), an upload goes to the request the
form is about (`Aimed`), a tab past the check of its edit holds a draft unless
another tab has submitted it (`Backed`), and the chain it loaded is still stored
if it writes alone (`Alone`). From this `ChainsAreKept`, `ReadyIsAttached`
and `SubmissionFreezes`. `OneDraftEach` counts: a tab creates only after a lookup
that found no draft, so the requests newer than a draft are no more than the tabs
that could not see it (`Reachable`). It assumes that the tabs are no more than the
rows of a page; beyond that a draft falls off the page, a lookup misses it and the
tab makes another.

`Catalog_proofs`: rows are only added, and the level, parent and name of a row
never change, so that a parent found stays one. What a tree, a dialog or a
mutation holds was true of the collection once (`TabsInv`). From this
`AlwaysATree`, `NothingFrozen` and the refinement `SeedComesFirst`.

`Onboarding_proofs`: nothing these services test is ever taken back (`Grows`),
but the status of a case and of a membership; `Known` says what a request at each
step has established, and `KnownStays` that growth preserves it. From the
invariant follow `NoTwin`, `OwnerStands` (the count of the active owners never
exceeds one, so no two removals can pass together), `NothingUnexplained` and
`BadgeStands`.

`Exposure_proofs`: `NewcomersAreReached` bounds how often a provider nobody has
contacted is passed over, by searches times providers but two. Each time, the
reserved seat went to somebody else who was new when that search counted, which
happens once for each search and provider (`Spent`).
`BatchesAreDeserved` says of both orders what each seat means to whoever is left out;
it rests on two facts about any finite set in a strict order, that its front has as
many members as it may (`FrontSize`) and that whoever is behind it comes after all
of it (`BehindFront`). Scores are exact fractions. Of prices: the fee is
capped, zero inside the free radius and monotone across rounding and cap; blurring
a point moves it by at most half a cell and is idempotent; the two places that
estimate a trip agree.

Checked by TLC only:

- liveness: `SearchEnds`, `CancelStopsMatch`, `SubmitReturns`, `EndedSocketIsCut`.
  Their proofs need `ENABLED`, which is out of reach of these provers.
- nothing is claimed outside the hypotheses named above, by a proof or a run.
- the statements over small inputs of `ContactChecks`, `MessageChecks` and
  `ReadChecks`, many of which are about recursive functions over data and would
  need induction over it.

## 5. Disagreements and surprises met while modelling

None of these is a property of a run: the properties say what does hold. Each can
be seen by changing the constants of a run or by following the actions named.

**Dispatch**
- `start`'s own batch and one of `expandRadius` overlap and contact more than
  `batchSize` providers under one index (`dispatch.service.ts:160`), against "the
  batch is genuinely capped" (`:20`). Some of them are then in no batch record:
  `DispatchConcurrent.cfg` with the providers q1, q2 and far breaks `SmallBatches`
  and `ContactsRecorded`.
- The overlapping run contacts a provider the only pending job picked too; the
  job's insert throws, the job fails for good and the match is never advanced
  again, against `:18`. `DispatchChain.cfg` with the operations auto and expand and
  three batches breaks `SearchEnds`.
- A cancel saved between the creation of the match (`matching.service.ts:61`) and
  `markMatching` makes the latter throw (`request.service.ts:110`): the AUTO match of
  a cancelled request stays ACTIVE without a job, against "the dispatch loop notices
  and stops" (`:23`). `DispatchChain.cfg` with `CancelStopsMatch` without
  `SearchRunning`.
- `markMatching` saves `MATCHING` over a `CANCELLED` written since its read
  (`request.service.ts:117` against `:23`).
- Viewing an expired dispatch before a batch marks it makes it live
  (`matching.service.ts:318`): the first press is refused and yet marks it
  VIEWED, the second works. A view and a decline at once may undo the decline.
- A DIRECT match whose provider was refused stays ACTIVE; a cancel cannot close it
  and an expansion dispatches it to ranked providers.
- A crash between `match.save()` and `queue.add` leaves a match that waits for no
  job; `nextBatchAt` is read nowhere, and an expansion makes the next batch early.
  `expandRadius` may shrink a radius that was already wider than the limit.

**Chat**
- A tab's own message, merged from its HTTP answer, raises the highest seq it holds
  above one whose push was lost; the catch-up starts there and skips it
  (`use-chat-thread.ts:263` against `chat-events.publisher.ts:19`, "A failed or
  missed push loses nothing"). `ChatReconnect.cfg` with `Ids = {c1, p1}` and no
  operations: `NothingMissed`.
- Two changes of one message that load the same version publish the same next one
  (`message.service.ts:189`): the tab keeps the last to arrive, not what is stored.
- Two edits of one message that load the same copy, one with a phone number and one
  with an address, each save the whole list of detections: only the later one's stays,
  against "Keep earlier detections" (`message.service.ts:186`). `ChatWrites.cfg` with
  `ModerationKept` without `StaleSave`.
- The first page replaces what pushes brought while it was loading (`Loaded =
  FALSE`: `NothingMissed` and `VersionsForward`). An edit made while a tab is
  offline is never fetched; the removal of a message does not republish the
  replies that quote it.
- With two sends at once a higher seq may be stored and pushed before a lower one;
  a tab that reconnects in between never asks for the lower one. `canSend` is
  computed before the insertion: one message may follow a cancel.

**Conversations**
- A refetch that fails replaces the conversation by an error page, which unmounts
  the composer and loses the draft (`conversations/[id]/page.tsx:44` against
  `composer.tsx:18`, "a network error never costs the user what they typed").
  `DraftKept` is about a composer that stays on the screen.
- The box stays editable while a send is in progress, and its success empties it
  (`composer.tsx:37`): what was typed meanwhile is lost and never stored. `DraftKept`
  with `tab[t].draft # "edited"` added to its conclusion.
- Pressing send again after a lost answer uses a new `clientMessageId`: the message
  is stored twice.
- A provider who reaches the conversation through "Messages" is not marked as a
  viewer and is cut off by the expiry in mid-discussion (`matching.service.ts:305`).
- A failed query of the candidates is shown as "nobody contacted"; two tabs that
  decline end in an error in one.

**Contact detection**
- 61 and 71 dictated with "et" are read as 60 1 and 60 11 (`takeSixtyOrEightyTail`
  has no "et", against `number-words.ts:14`). Pairs that end in 20 to 60 or 80
  before one of 80 to 99, 60 or 80 before 10 to 19, and 04 before 20 to 29 are read
  as sums. `normalize.ts:42` gives as its example "O6 12 34 56 78", which is not
  unmasked: the word with a letter has one digit. A phone number that overlaps an
  address is dropped whole, so its part outside stays. `PairsReadBack` and the
  statements about masks exclude exactly these.

**Catalogue and reads**
- A seed winner that dies leaves the lock for ever; later boots time out after
  30 s (`seed-lock.service.ts:58`) and do not serve.
- Deactivating a category or a domain promotes its services to roots of the tree:
  the search offers them and links to the form, which does not preselect them; two
  may show the same name and path (`services/page.tsx:99`); the home grid shows
  them among the domains, without the colour they inherited.
- `countExisting` ignores `active`, where `provider.service.ts` says "existing,
  active catalog nodes".

**Requests and onboarding**
- Two tabs may un-cancel by a stale submit, edit after a submit, mix two chains
  (`request.service.ts:208`) and attach a file twice after a lost finalize answer.
  With more tabs than rows on a page a tab may miss a draft and make another.
  No web page cancels a request. `ChainKept` and `SubmittedIsFrozen` are therefore
  about requests one tab wrote.
- Two agents, or an agent and a stale submit, revert VERIFIED or SUSPENDED; a
  document may be confirmed after the submission; an acceptance overtaken by a
  removal makes the member active again; a birth date changed later is not checked
  against the role it gave; a company whose creation died half way never has an
  owner; EXPIRED is never written.

**Accounts and sessions**
- `rate-limit.service.ts:12` claims that a counter that lost its EXPIRE "gets
  overwritten by the next INCR cycle"; INCR never does, and the subject is refused
  for ever (`CountersExpire` without `orphaned`).
- Parallel guesses may use one code twice and exceed the attempts
  (`otp.service.ts:69`).
- `setTokens` keeps the user of the store: a refresh that answers after another
  user signed in leaves tokens beside a user they do not belong to, and a retry may
  run with them. A sign-in whose answer is lost leaves a session nobody holds.
  `device.schema.ts:31` says `lastSeenAt` is bumped on every refresh; it is not.

**Exposure**
- A batch of one has no reserved seat, so `configuration.ts:55`, "so ranking cannot
  permanently lock them out", is not true of it; the assumption of `Exposure`
  leaves such a configuration out. Concurrent updates of the configuration lose one another's
  fields (`configuration.service.ts:75`).

## 6. What is left

- Attachments between the composer and a message, typing indicators, and paging
  back through a thread.
- Theorems under weaker hypotheses: what remains of `SmallBatches` when a search
  is widened, and of `NothingMissed` with several handlers or a tab that writes.
- One composition of `Dispatch` with `Exposure`, where ranking chooses the batch of
  the detailed model; each is too large for TLC to be checked inside the other.

## 7. Not modelled

Health probes, exception filters, pipes, email and SMS providers, the CSRF check
and cookies are stateless guards around the framework, or input and output only:
what `RolesGuard` and `ResourceOwnerGuard` decide is a guard of the actions behind
them. The worker has one ping queue without domain state. Shared packages are
schemas, translations and presentational components; the contracts are the types
of the models. Great-circle distance is trigonometry; scores and prices are exact
fractions in place of floating point. Regular expressions for addresses, links and
handles are given as what they match, and libphonenumber is external. Signatures of
tokens, the contents of profiles, descriptions and display order of the catalogue,
thumbnails, and what pages render are data no property here depends on. Edit and
delete windows are left open in the chat runs: a change may be refused by simply
not being asked for.
