# A verification model of the dating app backend

TLA+ modules, TLC configurations and TLAPS proofs about the Go backend in
`src/`: a REST and WebSocket API (`cmd/api`), a task worker (`cmd/worker`) and
an admin tool (`cmd/admin`) over PostgreSQL, Redis and object storage.

The backend keeps almost no state in memory. Its hard part is many handlers, in
many processes, that run multi-statement transactions over the same tables at
READ COMMITTED, plus what they do after the commit. So the unit of concurrency
in the models is a *handler*, and the unit of atomicity a *statement other
handlers can come between*.

## Inventory

| Component | State | Operations | Talks to | What is hard, and what makes it correct |
|---|---|---|---|---|
| discovery actions (`internal/discovery/action.go`) | `discovery_actions`, `matches`, `conversations` | `CreateAction` | quotas in its transaction; notifications after the commit | crossing likes, retries with the same and other keys; a match exists exactly when both like each other |
| quotas (`subscription.ConsumeActionUsageTx`) | `user_feature_usage` | consume one like | called by `CreateAction` | lost updates, the last like of a day; the counter is the number of actions |
| matches (`internal/match`) | `matches`, `conversations` | `Unmatch`, `MarkSeen`, lists | locks what chat locks, in the other order | an unmatched pair stays so; lock order |
| blocks (`discovery/block.go`, `internal/safety`) | `user_blocks` | `BlockUser`, `UnblockUser` | read by every other component | a standing block is respected although no lock protects it |
| manual payments (`internal/subscription`) | `manual_payment_requests`, `user_subscriptions`, `payment_review_actions` | create, approve, reject | admin audit | two admins at once; a payment buys one period, next to the last one |
| chat (`internal/chat/service.go`) | `messages`, `message_receipts`, `conversations`, `conversation_participants` | `SendMessage`, `MarkRead`, `MarkDelivered`, `DeleteMessage`, `Typing` | sockets and notifications after the commit | ids against commit order, several devices, closing while sending |
| chat hub (`chat/hub.go`, `chat/handler.go`) | clients, send buffers, typing throttle | `Register`, `Unregister`, `SendToUser`, `WritePump`, read loop | chat service | full buffers, a read loop blocked behind a dead writer |
| notifications (`internal/notification`) | notifications, delivery logs, devices, tasks | `createOrGetNotification`, `enqueuePush`, `ProcessSendPush` | called after commits; asynq; FCM | retries, partial failure, stale device tokens |
| media (`internal/media`) | `user_media`, variants, tasks | upload, process, delete, set primary | eligibility | deletion during processing, the primary photo, the photo limit |
| profile and eligibility (`internal/profile`) | `profiles` and answers | updates, `RefreshDiscoveryEligibility` | media, location, discovery, auth | a flag read in one statement and written in another |
| one-time passwords (`internal/otp`) | `otp_codes`, Redis counters, tasks | request, deliver, verify | auth | code used twice, attempts lost, delivery status overwritten |
| user sessions (`internal/auth`) | `users`, `user_sessions`, `devices` | verify, refresh, logout, delete account | otp, profile | rotation against logout and deletion |
| safety reports (`internal/safety`) | `reports`, `moderation_cases`, settings | `CreateReport` | blocks | two reports that open one case |
| admin (`internal/admin`) | `admin_users`, `admin_sessions`, `admin_audit_logs` | login, refresh, password, audit | payments | revocation against refresh |
| feed, preferences, impressions (`internal/discovery`) | one row per user, impressions | reads and upserts | everything | little: single statements |
| location (`internal/location`) | `user_locations` | update | eligibility | its age and its source decide about the flag |
| storage, middleware, router, config, clients, programs | files, none | I/O, wiring | - | not modelled |

Every hazard found in this code stands in `PROJECT.json`, at its line, with the
properties that cover it or the reason why none does.

## Modules

| Module | What it is |
|---|---|
| `PairMatch` | abstract: users decide once about each other, the second like makes the match |
| `Matching` | `CreateAction` with quotas, `Unmatch`, blocks, plan changes, midnight; implements `PairMatch` |
| `MatchingProofs` | theorems about `Matching` |
| `MCMatching` | instances of `Matching` |
| `PaidTime` | abstract: a payment is decided once and moves the end of the paid time by what was on offer |
| `Subscription` | create, approve and reject a manual payment; implements `PaidTime` |
| `SubscriptionProofs` | theorems about `Subscription` |
| `MCSubscription` | an instance of `Subscription` |
| `ChatLog` | abstract: a conversation is a log that grows at its end while open, read from its beginning |
| `Chat` | `SendMessage`, `MarkRead`, `MarkDelivered`, `DeleteMessage`, `Unmatch`, blocks; implements `ChatLog` |
| `ChatProofs` | theorems about `Chat` |
| `MCChat` | instances of `Chat` |
| `Media` | uploads, their tasks with retries and dying processes, deletion, choice and promotion of the primary photo |
| `Discoverability` | extends `Media` by profiles, preferences, location, `RefreshDiscoveryEligibility`, account deletion, and everything that shows a user to another |
| `DiscoverabilityProofs` | theorems about `Media` and `Discoverability` |
| `MCDiscoverability` | instances of `Discoverability` |
| `Otp` | request, delivery task and verification of one-time passwords |
| `SessionLife` | abstract: a session begins once, exchanges tokens while it is open, and is shut for good |
| `Accounts` | sign in, rotation of refresh tokens, logout, account deletion; implements `SessionLife` |
| `AdminSessions` | login, rotation, logout and password change of an admin; implements `SessionLife` |
| `Sockets` | the hub: register, unregister, bounded channels, readers and WritePumps, the typing throttle |
| `Push` | notification rows, the push task with its retries, devices and their tokens |
| `Reports` | `CreateReport` with its case and block, `BlockUser`, `UnblockUser` |
| `OtpProofs`, `SessionProofs`, `PushProofs`, `ReportsProofs` | theorems about them; `SessionProofs` is about `Accounts`, `AdminSessions` and `Sockets` |
| `MCServices` | instances of `Otp`, `Accounts`, `AdminSessions`, `Sockets`, `Push`, `Reports` |

`Discoverability` is a composition: its `MediaStep` is the steps of `Media` with the
profiles left alone, and the step `"refresh"` that ends the operations of `Media` is
taken by `RefreshRead` and `RefreshWrite`. The six services of `MCServices` share no
rows, so they are checked next to each other and not interleaved.

### How state and steps correspond to the code

* A handler is a member of a constant set (`Requests`, `Reviewers`, `Senders`,
  `Readers`) that serves one request after another. `pc` names its next
  statement, and its locals are the Go variables it will still use.
* Rows a transaction has not committed live in its locals and become visible in
  one `Commit` action, as READ COMMITTED shows them. A failure (`Fail`) is a
  process that dies or a statement the database refuses, anywhere: the locals
  go, the committed state stays.
* A lock is held from the statement that takes it to the end of the
  transaction. It follows from `pc` and is an operator
  (`HoldsPairLock`, `HoldsPayment`, `HoldsConversation`), not a variable.
  `LockPair` is `pg_advisory_xact_lock`; `LockPayment`, `Consume`, `Lock`,
  `LockRead`, `LockMatch` are `SELECT ... FOR UPDATE`.
* A unique index makes an insert wait for a colliding row that is not committed
  and fail on one that is (`Insert` in `Matching` and `Chat`, `InsertPayment`).
* `SELECT ... FOR UPDATE` with joins takes its snapshot, waits, and re-evaluates
  the locked row only. `Access` and `Lock` in `Chat` are these two halves: after
  the wait a closed conversation is noticed and a new block is not.
* The foreign key `messages.match_id` makes the insert of a message share the
  match row, which `Unmatch` has locked exclusively: `LockMatch`,
  `CloseConversation`, `Insert` and `DeadlockDetected` in `Chat`. The two really
  deadlock, since a send takes conversation, then match, and an unmatching takes
  match, then conversation. PostgreSQL ends one of them, whose client gets an
  internal error; no message is lost or stored after the end.
* Names, notes, prices, distances, message bodies and UUIDs are model values.
  Whether a target is discoverable, or a member of a conversation suspended, is a
  free choice (`Check`, `Access` may refuse anything).
* Time in `Subscription` counts days; a plan's duration is one of `Terms`. The
  statuses `UNDER_REVIEW` and `CANCELED` are declared by the migration and
  written by no code, so they do not occur.
* Observers (`announced`, `told`, `open`, `faults`) record history for
  properties and guard nothing but the number of faults.
* In `Media` every API handler *and* the task of every medium is an actor with a
  step in `at`. A transaction that only writes what it has locked is one step; one
  that decides on what it read before is two, `rows` naming what it has locked in
  between. A file, its rows and its task are three steps, in the code's order.
  A task may run twice (`MaxAttempts`): `Return` is what asynq does after a run.
* Calls fail where the code answers it differently. In the first transaction of a run
  that is twice: once the row is read, `markFailed` follows (`BeginFails`); before, the
  ID is still 0 and `markFailed` returns at once, so the queue runs the task again or
  archives it, with the medium as it was and no refresh (`BeginLost`). The transaction
  of an upload may fail for any reason (`TransactionFails`).
* Who deletes or fails a photo locks it, chooses an heir without locking it, and commits
  later (`LockAndChoose`, `CommitRetire`). The commit may be refused (`RetireRefused`): by
  the unique index, if another photo has become primary (`Taken`), or because an upload
  that has locked the heir waits for the photo (`Deadlocked`), which ends either of
  the two. A refused upload takes its file back (`UndoUpload`).
* `Discoverability` separates the facts (`filled`, `active`, `show`, `location`,
  `closed`, `media`) from `flag`, which is `profiles.discovery_eligible`.
  `Discoverable` is the one query behind feed, detail, impressions and actions.
  Feed, impressions and the photo check are a query each; `ProfileDetail` reads the
  profile once more after its check (`ProfileRow`).
* `Otp` runs in no transaction at all, so each statement is a step; `looked` is what
  a verification has read and still uses. A delivery task can be run again after any
  failing call. The UPDATE that counts a wrong guess may fail, and the guess is answered
  all the same (`CountFails`); the one that consumes a code may fail before or after
  it took effect, and the verification with it (`ConsumeFails`).
* `Accounts` and `AdminSessions` keep a session as the generation of its refresh
  token; an access token is a record of what it was signed with. Admin time counts
  half seconds, because tokens are issued in whole seconds and passwords are not
  changed in them.
* `Push` runs through the devices it listed one by one: `send`, then `log`. The reply
  of the provider is a free choice of SENT, INVALID, BUSY and REFUSED.
* `Reports` splits `CreateReport` where others can come between: the look at the target,
  `BEGIN`, the search for an open report, the case it locks or inserts, the rows.
  An insert waits for an index entry that is not committed.
* `Sockets` has a reader and a WritePump for each socket; a channel is the number of
  events in it, and the hub's mutex makes `Register`, `Unregister` and `SendToUser`
  one step each.

Simplifications: the two lookups of `Lookup` and `Recheck` in `Matching` are one
step although they are two statements; `Reciprocal` and the statements of
`ensureMatchTx` are one step, which the pair lock justifies (nobody else writes
rows of the pair); the answer of `CreateAction` is computed at its commit; in
`Matching` an unmatching is one step, its two row locks are in `Chat`. In `Media` the
`sort_order` of photos is left out, so promotion may pick any usable photo, whatever
`Reorder` did, and `SetPrimary` is one step: what it does in two statements is under the
locks of all photos, and where the index or a deadlock refuses it nothing changes. The feed in `Discoverability` is who the query admits: it leaves out
that those already acted on are excluded, the order and the cursor.

## Runs

| Run | Instance | What it shows |
|---|---|---|
| `crossing` | 3 handlers, 2 users, LIKE/SUPER_LIKE/PASS, one blocker, one fault | a match exists exactly when two users like each other, appears with the second like, is never revived, and is announced at most once; a standing block is respected; refines `PairMatch` |
| `quota` | 2 handlers, 3 users, 2 keys, 2 plans, 2 days, one fault | the counter equals the stored actions, the best plan's limit holds, an accepted action is stored |
| `liveness` | 2 handlers, 3 users, no fault, fair | every request is answered, every match announced |
| `keyreuse` | as `quota` | violation, see Findings |
| `ledger` | 2 users, 2 payments, 2 admins, 2 references, plans of 1 or 2 days, 3 moments, one fault | an approved payment has exactly one subscription of the length shown when it was submitted, no overlap and no gap; an "ok" stays true; refines `PaidTime` |
| `talk` | 2 messages, 2 senders; in one part both members send from one conversation, 2 readers, unmatching, deletion; in the other one member uses a key in 2 conversations, a block, one fault | nothing unread falls behind a cursor, the last message is the newest; a message answered as sent is stored exactly once as sent; a standing block is respected; refines `ChatLog`, where a closed conversation gets no message and cursors only advance |
| `answers` | the inputs of one key, no block or fault, fair | every send and every unmatching ends, deadlock or not; a stored message is told, as long as no handler dies |
| `conflict` | the inputs of one key, a block, a reader, no fault | violation, see Findings |
| `visibility` | 4 users, 9 media, 3 handlers in seven scenarios, tasks of 2 runs, one fault and in one scenario two | what is READY has its variants and files; no upload is left half way unless its process died, its failure could not be recorded or its last run failed before it read the row; the flag of a quiet user is right unless a refresh was overtaken or lost, or a new photo given up before a run read it; nobody is shown who should not be |
| `photos` | 1 user, 5 photos, 4 handlers in two scenarios, limit 4, one fault | one primary photo, and not only because the index says so; the photo limit; no file in storage without a row |
| `services` | `Otp`, `Accounts`, `AdminSessions`, `Push`, `Reports`, `Sockets` | guesses are counted, but for one with each failing call, and codes accepted once and delivered once and once more per failure; a refresh token is exchanged once; admin tokens follow the password that `ChangePassword` has set; sessions of users and of admins refine `SessionLife`, so a dead one stays dead; a device gets a push once per failure and one more; a push that ended well has answers of all its devices; one case per target counts its reports; nobody sends on a closed channel; a reader waits for ever on a lost connection only |
| `adminpassword` | the admins of `services` | violation, see Findings |

Bounds. Two handlers of each kind show every conflict of two transactions; the
third in `crossing` lets one handler retry while the likes of both users are in
flight. Two users suffice inside a pair; a third gives one actor two targets or
two conversations for a key or a quota. Limits of 0, 1 and 2 put every quota at
its edge. `MaxFaults = 1` lets a handler die anywhere. `MaxTime = 2` with periods
of 1 and 2 days has a period expire before, on and after an extension.
`MaxMessages` bounds ids, not calls: handlers repeat requests for ever, so no run
is cut off. Symmetry is used in safety runs only, over handlers, over
users, payments and references in `ledger`, over media in `visibility` and `photos`,
and over phones and tokens in `services`, none of which the modules order.

`visibility` (about 360 thousand states) gives each of three handlers one request out
of a scenario: `Hiding` (an upload while the owner hides and the feed is read),
`Choosing` (the primary photo chosen, deleted and replaced from two sides), `Looking`
(a stranger or a match looks while the owner takes away what he looks at),
`Completing` (a draft is completed while its location comes and goes), `Filming` (two
intro videos at once), `Starting` (the first two photos at once) and `Failing` (one
upload, with as many failures as its task has runs, so that all of them can fail before
they have read the row). The constraint `FewFaults` leaves the other scenarios one fault. The two videos, the first two photos, and the
two handlers that upload them, are symmetric (`Twins`).
Together they take every action. `MaxAttempts = 2` has a task retried and given up,
`MaxProfilePhotos = 3` is reached by the owner, and the draft's location ages.

`photos` (about 660 thousand states) is one user with three published photos and two to
come, at a limit of 4: in `Crowding` two uploads race a deletion at the limit, in
`Following` a photo is uploaded, chosen and given up while two others are deleted. Photos
nobody has seen yet, and published ones that are not primary, are symmetric: nothing
orders them. The action constraint `RefreshFirst` takes a refresh before anything
else. It loses nothing the invariants are about: a refresh reads them and changes only
the flag, and a handler that is at it holds no lock.

`services` (about 480 thousand states) chooses its service at the start. Otp: 2 guesses,
a limit of 1 per hour, 2 runs of a delivery, and either two codes without a fault, or
one code with two verifications at once and one fault, or one code with one
verification after the other and two faults. Accounts: 2 sign-ins,
3 requests, 2 accounts, 2 exchanges. Admins: 2 logins, 3 requests, 1 tick, 1 change of
the password, 1 refresh of each session. Push: one chat message and 2 callers, 3 devices,
2 tokens, 2 runs, one fault. Reports: 2 filings, 2 users, 2 targets, 2 reasons. Sockets:
2 sockets with channels of 2. The constraint `InOrder` takes up handlers that do the same
in one order, which loses no behaviour but renamings; the phones of the user who is
pushed to, and the push tokens, are symmetric. `TokensFollowPassword`
counts calls of `ChangePassword` only: `CreateSuperAdmin`, the operator's tool, replaces
a password too, but leaves version and date alone and so ends no token.

`talk` (about 1.1 million states) chooses its part at the start. Where both members talk
and read there is no block and no fault, and the other conversation rests; delivery
without reading is left to the proofs. Where one member uses her key in two conversations
nobody reads. Together the two take every action.

Deadlock is checked in the runs of `Matching`, `Subscription` and `Chat`, whose
handlers serve for ever. `visibility`, `photos`, `services` and `adminpassword` say
`CHECK_DEADLOCK FALSE`: their handlers serve one request each and then rest.

Fairness. `Matching` and `Chat` assume that a handler that can run runs (weak
fairness of its statements), as the Go scheduler and the HTTP server provide, and
that one that waits for a lock gets it if it is free infinitely often (strong
fairness of the locking statements), as PostgreSQL queues waiters. `Chat` counts
the deadlock detector among the steps of a send. Clients, blocks, plan changes
and the clock are not fair: nothing has to be submitted. Safety runs assume no
fairness. For uploads and deliveries, `UploadsSettle`, `DeliveredOnce` and
`EndedPushIsAnswered` state as invariants of the states at rest what would otherwise
be left undone; with that no fairness is needed.

## Proofs

`MatchingProofs` proves with TLAPS, for any sets of users, handlers, inputs,
plans and days and for any limits and number of faults:

| Theorem | States |
|---|---|
| `TypeCorrect` | `Spec => []TypeOK` |
| `PairLockIsExclusive` | no two transactions are about one pair |
| `MutualLikesAlwaysMatch` | a match exists exactly when both users like each other |
| `ClientIdsAreUnique` | a client id names one action of its actor |
| `UsageAlwaysCounts` | the usage counter is the number of positive actions |
| `DailyLimitAlwaysHolds` | no day exceeds the best plan's limit |
| `AlwaysAnnouncedOnce` | a match is announced at most once, never before it exists |
| `StandingBlocksAlwaysHold` | a request that was blocked all the time since it came never writes |
| `AcceptedIsAlwaysStored` | an accepted action is in the database |
| `MatchingImplementsPairMatch` | `Spec => ImplementsPairMatch` |

They assume the named ASSUMEs of `Matching` (an input names two different users;
the initial plan is a plan; limits are naturals; day 1 exists), which TLC
evaluates on each run.

The properties are not inductive by themselves. That crossing likes match needs
that a handler between `Reciprocal` and `Commit` holds the pair lock, that its row
does not exist yet, and that `created` still says what `Reciprocated` would say
now; the last holds because only holders of the pair lock add rows of the pair.
The counter needs that `seen` of a handler that has the usage row is still the
value stored, which is the exclusion of `UsageRowFree`, and that the set of a
day's actions is finite. A match is announced once because `created` is true of
at most one handler, which finds no match, and a match row never goes away. A request
that has found no moment without a block still faces one (`StillBlocked`), and so
cannot have passed `Check` (`PastCheckOpen`). The refinement follows: `Commit` is `Decide`, `Unmatch` is `Undo`, and every other step
leaves `actions` and `matches` alone.

`SubscriptionProofs` proves for any users, calls, reviewers, references, terms and
length of time:

| Theorem | States |
|---|---|
| `TypeCorrect` | `Spec => []TypeOK` |
| `ApprovalAlwaysSellsOnce` | an approved request has one subscription, of the length bought, no other has one |
| `AlwaysReviewedOnce` | a decided request has one review, with the verdict that stands |
| `AnswersAlwaysHold` | an "ok" agrees with the status of the request |
| `PeriodsAlwaysDisjoint` | no day is sold twice to a user |
| `PremiumAsLongAsPaid` | paid time ahead means a period that runs now |
| `SubscriptionImplementsPaidTime` | `Spec => ImplementsPaidTime` |

The invariant (`ReviewInv`, then `StartInv`) says that a held request is pending and
has one holder, that a user has one pending request, and that an approval which
has computed `startsAt` still starts no earlier than any period of its user ends:
whoever could add a period would hold another pending request of the same user.
The lock on the subscription rows, `SubscriptionsFree`, is used in no step, so the
unique index on open requests alone keeps periods apart. `PremiumWhilePaid` is
not inductive; `NoGapAhead`, that each day from now to the end of a period is
covered, is. For the refinement the invariant carries that the periods of a user
have a last end, so `PaidThrough` chooses one.

`ChatProofs` proves for any users, conversations, handlers, inputs, blocks and
bounds:

| Theorem | States |
|---|---|
| `TypeCorrect` | `Spec => []TypeOK` |
| `LastMessageIsAlwaysNewest` | `last_message_id` is the newest message |
| `ClosedStaysFinal` | no message joins a closed conversation |
| `SentIsAlwaysOnce` | "sent" means one message under the client id, as it was sent |
| `StandingBlocksHold` | no message of a sender who was blocked all the time |
| `NeverUnreadBehindCursor` | nothing unread is behind a cursor |
| `CursorsOnlyAdvance` | a cursor never moves back |
| `ChatImplementsChatLog` | `Spec => ImplementsChatLog` |

`StoreInv` says that a held conversation is open and has one holder, and that a
row which is inserted but not committed has a larger id than every message of its
conversation and a client id of its own: ids are taken under the lock of the
conversation, so they commit in order there, though not in the table. `ReadInv`
adds that a cursor stands on a stored message, so each later one is beyond it,
and that `current` of a reader who holds the cursor's row is still the value
stored. Steps that neither grant a lock nor insert nor commit are `Quiet`, and
one lemma covers them all.

These two use the ASSUMEs of their modules: plan terms are positive, the bounds are
naturals, a conversation has two members, a sender is one of them, no handler
serves sends and reads at once (an identity, not a restriction).

`DiscoverabilityProofs` proves for any users, media, handlers, scenarios, limits and
numbers of runs and faults:

| Theorem | States |
|---|---|
| `DiscoverabilityTypes` | `Spec => []TypeOK` |
| `WhatIsReadyIsAlwaysServed` | a READY medium has its variants, and each variant its file |
| `UploadsAlwaysSettle` | with nobody at work, no upload is left half way, unless its process died, its failure could not be recorded, or its last run failed before it read the row |
| `AlwaysOnePrimary` | a user has one primary photo at most, and who gives up a photo that is there finds no other |
| `PhotoLimitAlwaysHolds` | as long as one photo from the start is there, no number of uploads passes the limit |
| `OrphansAreAlwaysRemoved` | with nobody at work, each file has a row, unless its process died or could not remove it |
| `FlagIsAlwaysRight` | the flag of a quiet user is right unless a refresh was overtaken or lost, or a new photo of his was given up before any run read its row |
| `OnlyDiscoverableAreShown` | whatever shows somebody has asked for the facts in that query |

`MediaInv` says of each upload (`Uploads`) that it has its medium for itself until it
has enqueued the task, so that the file, the rows and the task come in this order,
and that nobody else removes the file; and of each task (`Tasks`) that what it is
about to publish is in storage, and that a medium which is neither READY, FAILED nor
deleted has its task under way or a handler that will enqueue it or give it up
(`Carries`). Media and handlers that a step does not move are covered by one lemma
(`StepKeepsMediaInv`).

`PhotosInv` is about the locks. What an actor holds is held by nobody else (`Locks`); who
gives up a primary photo holds its row, and it stays primary until the commit
(`Giving`), so the heir becomes the only one in the same transaction. A published
photo is a row that every upload of its user locks before it counts, so the uploads
count one after the other and each sees what the one before has inserted: in `Limits`,
who is about to insert holds that row, and there is room for one more. `FilesInv` says that a file without a row is the original of an upload that
still goes on, which every way to end it takes back, publishes as a row, or reports.

`FlagInv` is the strengthening of `FlagIsRight` for users who
are not quiet: the flag is right, or known to be out of date (`torn`), or some actor
is `Due`, on its way to a refresh of that user: a handler that has changed a fact,
an upload that has its rows, the task it has enqueued as long as its medium is UPLOADED.
When the last run of such a task fails before it has read the row, nobody is due any
more, and the owner is `torn`. Whoever is due stays so until
it writes the flag or hands the duty on, which is why a task that finds its
medium deleted may end: the handler that deleted it has a refresh of its own. The
assumption about the start is that whoever has published photos has one primary photo,
and no more photos than the limit.

The smaller services:

| Theorem | States |
|---|---|
| `GuessesAreAlwaysCounted` | a code whose verifications do not overlap is accepted once at most and has each wrong guess counted, but for one at most with each call that failed |
| `CodesGoOutOnce` | a code goes out once, once more per failure at most, and does go out without one |
| `TokensAreExchangedOnce`, `OutStaysOut` | a refresh token is exchanged once; a session that is out stays out |
| `TokensAlwaysFollowPassword` | no access token is let in that was issued on a check before the last `ChangePassword` |
| `UsersAlwaysImplementSessionLife`, `AdminsAlwaysImplementSessionLife` | the sessions of users, and of an admin, are those of `SessionLife` |
| `NeverOnClosedChannels` | nobody sends on a closed channel |
| `ReadersAreAlwaysServed` | a reader that waits for room has a running pump, unless its connection was lost |
| `PushesGoOutOnce`, `EndedPushesAreAnswered` | a device gets a push once per failure and one more; a push that ended well is answered |
| `CasesAlwaysCountReports` | one case per target, which counts its reports |

* Otp: as long as nobody else has looked at a code meanwhile (`Alone`), what its
  verification has read is still stored; the wrong guesses are between `attempt_count`
  and that plus the number of failures. `Delivered` counts messages against failures
  along the steps of the task.
* Accounts: whoever has locked a session has what is stored (`HeldIsStored`), and each
  exchanged token is below the current one (`ExchangedAreOld`). For the refinement the
  account of a held session lives (`HeldIsOpen`), because `DeleteAccount` waits for the
  lock on the session before the account is gone.
* Admins: the version that a login, a refresh or a token carries is one more than the
  number of changes when the password was checked (`Counts`). A refresh between its
  check and its update has the session locked, and it is open (`AdminRefreshInv`).
* Sockets: closing a channel and leaving the map are one step under the mutex, and
  only the reader, which is the one that closes, sends outside it. A pump stops for a
  closed channel or a lost connection only (`PumpsInv`).
* Push: a device without a log of its send has been sent to by failed runs only
  (`SentOrFailed`); a listed device is still to come, being sent to, answered, or
  makes the run end with an error (`ListedIsAccounted`).
* Reports: whoever is about to file holds the one open case of its target, or its own
  new one when there is none, and two of them hold different cases
  (`CasesAreHeldOnce`): an index entry that is not committed excludes as a row lock does.

`PairLockIsExclusive`, `ClientIdsAreUnique`, `AlwaysReviewedOnce` and the `TypeCorrect` of
`Matching`, `Subscription` and `Chat` are theorems that no run checks any more: others
rest on them. Nor does a run check `ClosedStaysFinal`, `CursorsOnlyAdvance` and
`OutStaysOut`, which the refinements of `ChatLog` and `SessionLife` imply.

Only model-checked: liveness (`HandlersEnd`, `MessagesAreTold` and the properties of
the `liveness` run), which needs fairness and ENABLED and is outside what TLAPS
proves here, and the violations.

## Findings

* `keyreuse`: `docs/API_MOBILE.md:294` promises `IDEMPOTENCY_KEY_CONFLICT` for a
  key that is used again with another target or action. An action on a pair that
  is already decided is answered from the pair's row
  (`discovery/action.go:70` and `:113`) and its new key stored nowhere, so the
  key is accepted a second time for another target.
* `conflict`: `docs/API_MOBILE.md:614` tells clients that the conflict is their
  bug. `SendMessage` compares the body with the stored one
  (`chat/service.go:186`), which `DeleteMessage` has set to NULL, so a word for
  word repetition of a deleted message gets it too.
* `adminpassword`: `docs/API_MOBILE.md:537` says that changing the password revokes
  the admin's sessions. `ChangePassword` revokes those there are; a login that has
  compared the old password before the change (`admin/service.go:50`) creates its
  session after it, and that session can be refreshed. Its access token carries the
  old version and is refused, which `TokensFollowPassword` shows.

Not contradicted by any doc, and therefore no run:

* the lock order of `SendMessage` and `Unmatch` described above;
* guesses at a code that overlap count as one, and two overlapping right ones are
  both accepted (`otp/service.go:195`, `:206`); the property exempts them;
* a wrong guess whose UPDATE of `attempt_count` fails is answered and not counted
  (`otp/service.go:196`): the error is dropped. `GuessesAreCounted` allows one more guess
  with each failure;
* a photo or video all runs of which fail before they have read the row stays UPLOADED
  for good: `markFailed` does nothing for the ID 0 (`media/processor.go:99`, `:416`), and
  no refresh follows. If its upload took the primary flag from an approved photo, its
  owner stays discoverable without an approved primary photo. `UploadsSettle` and
  `FlagIsRight` exempt it;
* a match or a message whose handler dies after the commit is never announced
  (`discovery/action.go:183`, `chat/service.go:286`): `MatchesAreAnnounced` and
  `MessagesAreTold` are checked where no handler dies;
* a block that comes while a send waits for its conversation does not stop that message
  (`chat/service.go:513`): `StandingBlockHolds` is about the blocks that stood before;
* a logout with a refresh token that has been exchanged already succeeds and revokes
  nothing (`auth/service.go:272`);
* the operator's tool replaces the password of an admin who exists without ending his
  sessions (`CreateSuperAdmin`, `admin/service.go:344`);
* an admin token issued within the second of a password change is refused
  (`admin/service.go:407`);
* a push may go to a device list read before a device registered anew, and the token
  it then clears may be the new one (`notification/service.go:743`);
* the reader of a socket whose connection was lost may block for ever on a full channel,
  because its WritePump has ended (`chat/handler.go:159`); `ReadersAreServed` says that
  no other reader does;
* the promotion that follows a failed photo may be refused by the index or ended as a
  deadlock (`media/service.go:380` against `:533`); `markFailed` and
  `failMediaAfterCommit` are called with their error dropped, so the medium may stay
  UPLOADED or PROCESSING for good;
* the first photos of a user can pass the photo limit together, because there is no row
  to lock (`media/service.go:380`);
* a photo that is published in its second run, after its first has failed, may be a
  user's only READY photo and not primary: nothing promotes it, so he is not
  discoverable until he chooses it;
* `GetMe` computes `completion_percentage` from what it has read and writes it without
  a lock (`profile/service.go:100`), so it can store one that is out of date.

## Not modelled, and what could follow

Modelled by what they mean to the modelled state, not by their values: profile fields,
discovery preferences, feed ranking, prices, texts. Not modelled:

* `Reorder` of photos, the exclusion from the feed of those acted on,
  `completion_percentage`;
* what `ProfileDetail` returns after its check: `ShownIsDiscoverable` exempts the row;
* the hour limit per address and the development bypass of `Otp`;
* the device comparison in a refresh of `Accounts`, admin permissions and the admin
  audit log beyond the rows of `Subscription`;
* safety settings, lists, `MarkSeen` and the other reads of matches, lists of plans:
  single statements nobody races with;
* storage, HTTP plumbing, configuration, clients of database, queue and redis, and the
  programs: pure I/O and wiring. What they promise (isolation, locks, retries) is
  what the steps of the models assume.

What would add most next: liveness of uploads and pushes under the fairness of the
queue, `Matching` composed with `Push` so that an announced match reaches both phones,
and `Accounts` composed with `Otp`.
