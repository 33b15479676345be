# content-plan: specifications of planning, approval, publishing and what surrounds them

content-plan plans social-media posts, has them reviewed, gives them a time and
publishes them. It is a Django application (`src/backend`) with a Next.js
client (`src/frontend`), gunicorn web workers and one background worker
(`manage.py process_tasks`, restarted by pm2: `src/ecosystem.config.js`).
All parts communicate through the database; there is no message bus. What is
hard about it comes from that: web requests, publishing threads and background
tasks read rows, decide, and write them back later, mostly without a lock, and
`ATOMIC_REQUESTS` is off, so a request is a sequence of statements.

Paths below are relative to `src/backend/apps` unless they start with `src/`.

## The system

A **Post** has one **PlatformPost** ("child") per selected account. The status
lives on the children (`composer/models.py:382-422`); the parent only mirrors
times (`scheduled_at`, the earliest child; `published_at`, the latest).

| Component | State | Operations | Interacts with | Hard because | Correct when |
|---|---|---|---|---|---|
| Publishing engine `publisher/engine.py` | child rows, retry_count, next_retry_at, logs | poll, claim a group, publish in threads, retry, log, first comment | platforms; every writer of a child | lost replies, crashes, stale copies, two processes | published means live, once per order, retries bounded, nothing stuck unnoticed |
| Providers `src/backend/providers` | objects on the platform, media in temporary files | stage parts, wait, publish, clean up | engine | several exchanges per post, each may fail or lose its reply | they look like one call |
| Social accounts `social_accounts` | OAuth tokens, connection status | health check, refresh, connect, disconnect | engine, composer, web | rotated refresh tokens, copies saved whole | the stored token is one the platform accepts |
| Connecting `social_accounts/views.py`, `onboarding` | browser session, signed states, links | authorize, call back, choose an account | platforms, clients with a link | two requests of a browser overwrite each other's session | an authorization ends where it began |
| Scheduling requests `composer/services.py`, `api`, `calendar/views.py` | child status and time | schedule, cancel, move, hold | engine, approval | read, decide, write without lock | a published row stays published |
| Composer `composer/views.py` | content, children, session, media | autosave, save, pick media, upload | approval, queue, media | content written before statuses are reverted; session written back whole | one draft per page, media kept in order |
| Ideas, feeds, CSV import `composer/views.py` | board, caches, imported rows | move, edit, convert; fetch; preview, confirm | composer, sessions | stale rows, caches per process, no transaction | edits do not mix, only what was previewed is imported |
| Approval `approvals/services.py`, portal views | child status, ApprovalAction | submit, approve, reject, request changes, hold, resume, bulk | composer, portal, notifications | bundled decisions, stale reads, two stages | what says approved was approved as it is |
| Queue slots `calendar/services.py` | QueueEntry, child time | next available, prioritize, reorder, remove, delete | composer, engine | concurrent operations on queues of one channel | one post per slot, order kept, "full" only when full |
| Calendar pages `calendar/views.py` | none of its own | grids, tabs, drops, repair | composer, queue | three time zones | what is due is shown, on its day |
| Dashboard `api/routers/frontend` | posts, sessions | edit, approve, move, delete; shooting sessions | engine, members | edits replace the children | nothing is posted twice |
| Agent API and MCP `api`, `mcp`, `api_keys` | IdempotencyRecord, quota counts, keys and their cache | claim, create, finalize, sweep; verify, revoke | composer services, media | retries, kills between two steps, caches | one effect per key; a revoked key dies |
| Media library `media_library` | assets, files, versions, folders, pending uploads | upload, finalize, process, edit, delete, sweep, move | composer, API, worker | objects outside the database | an asset keeps its file |
| Inbox `inbox` | messages, watermark, replies | poll, webhook, backfill, SLA, reply | platforms, notifications | out of order, twice | every message arrives, told once |
| Analytics `analytics` | snapshots, totals | daily sync, backfill; series of the page | platforms, accounts | failures, outages, days | a gap has a reason, figures add up |
| Notifications `notifications/engine.py` | NotificationDelivery | dispatch, retry | everything | attempt counted before its result | every delivery ends |
| Intelligence `intelligence` | checkout attempts, PendingActivation, key | reserve, pay, claim, commit, reconcile | billing service | worker and web race; answers lost | paid means activated, with a live key |
| Approval reminders `approvals/tasks.py` | ApprovalReminder | remind, escalate | clock | stall measured on another row | bounded, then escalated |
| Members, organizations, workspaces | memberships, invitations, workspaces | invite, accept, assign, remove, archive, delete | portal, middleware | row by row, no transaction | access stands on a membership |
| Client portal links `client_portal` | MagicLink, session | send, consume, revoke | members | used and revoked at once | a link opens once, for a client |
| Recurrence, comments, accounts, OAuth server, settings, templates, client | rows of their own | one request, one write | | no protocol, or no caller | |

`PROJECT.json` lists each component with what of it is modelled, and 40
hazards at their lines with the properties about them.

## Modules

Three groups stand alone, because their actors write the same rows; four more
modules gather parts that do not share state.

| Module | Models | Checked through |
|---|---|---|
| `PublishEngine` | the engine and the requests that write the same rows | `MCPublishEngine` |
| `Publication` | what the engine promises: taken, shown once, reported | refined by `PublishEngine` |
| `ApprovalWorkflow` | one post's review, saves in flight, decisions in flight | directly |
| `QueueSlots` | the slots of one channel and the operations on its queues | `MCQueueSlots` |
| `PlatformPublish` | the exchanges of `publish_post` of every provider, and `_dispatch_to_provider` around them | `MCPlatforms`, part publishing |
| `ProviderCall` | what the engine counts on: one call, one answer, one effect | refined by `PlatformPublish` |
| `SocialAccounts` | tokens and status of one account | part accounts |
| `ConnectFlow` | authorizations of browsers and links | part connecting |
| `AgentApi`, `AgentUploads` | an agent's calls under an idempotency key, and its uploads | `MCWorkspace`, api and files |
| `ApiKeys` | one key and the workers' caches of it | access |
| `MediaLibrary` | assets, objects, finalization, deletions, sweeps | media |
| `Analytics` | the daily figures of an account and its posts | analytics |
| `Members`, `MagicLinks`, `Workspaces` | who may be where | people, portal, places |
| `Dashboard`, `ShootingSessions` | the dashboard's posts and sessions | posts, shooting |
| `Inbox` | messages of one account | `MCWorkspace` inbox (replies) and `MCBackground` inbox (kills) |
| `Activation`, `Checkout` | from a payment to a stored key | `MCBackground` activation, checkout |
| `ApprovalReminders`, `NotificationDelivery`, `OrgDeletion` | reminders, deliveries, the grace period | reminders, deliveries, deletion |
| `MediaVersions` | processing of an asset, its edits and versions | versions |
| `Drafts`, `Ideas`, `Feeds`, `CsvImport` | the composer's pages | `MCStudio` writing, board, news, import |
| `Calendar`, `Insights` | what pages compute of what is stored | dates, figures |
| `MediaFolders` | the tree of folders | tree |

`Drafts`, `Ideas`, `Feeds` and `CsvImport` keep what their pages hold in the
browser session or a cache of one worker as part of each request's record. The
proofs about a group are in the module of its name: `PublishEngineProofs`,
`SingleWorkerProofs`, `ApprovalProofs`, `QueueProofs`, `PlatformsProofs`,
`WorkspaceProofs`, `BackgroundProofs` and `StudioProofs`.

`MCPlatforms`, `MCWorkspace`, `MCBackground` and `MCStudio` instantiate their
modules over disjoint variables, renamed where two modules use one name, and
let each behaviour work on one part (`Only`): the parts share no row, so
interleaving them would multiply states and show nothing. `MCPublishEngine`
and `MCQueueSlots` only hold model values, symmetry sets
and the functions a .cfg cannot write. Operators named `X_Something` with a
comment "Mutant" before a definition `X` are wrong variants of `X`; no
specification uses them. They record which mistake each property catches.

In every module a step is one statement or transaction, or one exchange with
an outside service. A request or task that reads, decides and writes is a
record of what it read and how far it is; its later steps use the copy. The
head of each module says what it abstracts. The notes below are what a reader
of the code needs besides.

### PublishEngine

- `Poll`, `ClaimGroup`, `FinishGroup`, `StartRetries`, `RetryCheck`,
  `RetryClaim`, `EndCycle` are `poll_and_publish` (`engine.py:102-206`,
  `:561-588`). `ClaimGroup` is the transaction with `select_for_update`;
  `copy[e][p]` is the in-memory row a thread keeps from there on, and every
  later write of the thread writes that copy back whole, as `Model.save()` does.
- `Dispatch`, `SaveSuccess`, `LogSuccess`, `LogSuccessFails`, `ScheduleRetry`,
  `FailPermanently` are one publishing thread (`engine.py:208-309`).
- `OpenRequest` is a request's read of a row and its Post, by one of `Users`;
  `Schedule`, `Cancel`, `Reschedule`, `RequestHold`, `ResumeHold` and
  `ChipTransition` are the writes decided on it. `AtomicRequests = TRUE` makes
  the read and the write one step.
- A composer save writes more than it decides: `post.save()` and, in
  `_sync_platform_posts`, `pp.save()` put every column back as it was read
  (`composer/views.py:931`, `:226`; `WriteBack`). `SaveDraft` ends there;
  "schedule" and "publish now" go on to spread the time (`ComposeSpread`, an
  UPDATE), read the children again (`ComposeRead`) and move them
  (`ComposeMove`). `ComposeAtOnce` is the same save when nobody overtakes it.
- `live` (external) counts what is visible on the platform. History: `tries`,
  `commented`; `orders` counts the times a user who saw the row off the schedule
  put it there, `reopened` the times a request put it back from what it had read
  before (a stale `scheduled` over `published` is one), `erased` the counted
  retries such a write took off `retry_count`; `marked` are rows a user called
  published through the chip, `abandoned` rows in `publishing` that have lost
  their thread, or never had one, without a crash.
- Faults: `crash` (a process dies at any point; pm2 restarts it,
  `src/ecosystem.config.js:26-38`), `lostReply`, and `logError`, with two
  effects: the insert of the success log fails once and the attempt counts as
  failed (`LogSuccessFails`), or the insert of the error's own log fails, in the
  except branch and before an outcome is saved (`engine.py:298`,
  `ErrorLogFails`). The exception is then swallowed (`:190`, `:587`) and the
  row stays in `publishing`: nothing ever takes it back.

Abstractions: five threads per group are as many as the group has rows; the
rate-limit branch never fires, because only `_update_rate_limit` writes
`RateLimitState`, from keys no dispatch result carries. A composer save is
followed for one account at a time; the deselection of accounts and new rows
are in `ApprovalWorkflow`. Columns other than status, times and counters are
not told apart.

### ApprovalWorkflow and QueueSlots

`OpenDecision` reads the children a service may move (`_resolve_targets`),
`Decide` writes them in one transaction without reading them again. A save is
as many steps as it has statements that matter: `StartSave` writes the content
and deletes what was deselected, `SyncRead` and `SyncWrite` are
`get_or_create` and `pp.save()` of one chosen row after the other, and
`FinishSave`, `FinishQueue` or `FinishSubmit` the branch of the chosen action,
of which the first alone reverts what was approved. `Autosave` and
`FinishAutosave` are the two halves of an autosave of an existing draft
(`undoing`: between them), `ApiEdit` the REST PATCH, `Chip` the per-account
endpoint. The MCP server has no tool that changes a post's content, so it has
no edit here. `SaveFails` is a request that ends half-way.

`signed` is history: who approved a child since the content last changed and
since it last (re)entered review. `loose` names the children that a step of the
code left approved although nobody approved what they now say: an edit that
does not know it is one ("unaware": two saves that started from the same
content, an autosave posted with its post in the form), the queue and submit
branches, the PATCH, a save or autosave that died before its revert, and a row
written back as `approved` over another request's revert or decision.
`ApprovedIsReviewed` says that nothing else leaves one.

`QueueSlots`'s operations take the channel's lock (`Begin`), plan from what
they read under it, and commit later; the publisher, cancels, hand moves, the
composer's forms and the chip write in between, without the lock. `Ladder` is
the set of plans its loop may end with, stated by what each mover gets rather
than by the loop. A request without the lock checks no occupancy: a drag or a
form may put a post on a slot that is taken, a form (`OpenForm`, `SaveForm`,
`ScheduleForm`) writes the row back as it was read, and the chip takes a
publishing post back onto its slot. The code promises nothing there. `picked`
records those instants, and `NoDoubleBooking` speaks of all others: no
operation books one of them twice, nor carries a double booking elsewhere.
`untimed` records the posts that the chip scheduled without a time
(`composer/views.py:1079-1087`; the comment at `composer/services.py:43-46`
says the publisher then falls back to the parent's); `ScheduledHasTime` says
that no slot operation, removal, cancel or drag makes another.

### Platforms

A provider is a *recipe*: the sequence of its exchanges (look up, stage, put
bytes, wait, publish, best effort, delete), read off its `publish_post`. The
actions say what each kind of exchange can do to the caller and to the
platform, so that twelve providers are data and one state machine.
`SocialAccounts` has a job of the worker, publishing threads, and web requests,
each with its copy of the account; `honoured` is the set of refresh tokens the
platform still accepts. `ConnectFlow` keeps a browser's session as two
overwriting copies and the signed tickets that are out.

### The other parts

`kills` and its like count killed processes and are bounded; `apart`, `alone`,
`together`, `crossed`, `overlaps` are history variables that say whether two
actors met in a way the code is known not to survive. A property that begins
with one of them (`apart => ...`) is a statement about the other histories; the
list under "Seen while modelling" says what happens otherwise.

- `ApprovalReminders`: a round begins by a submission, which resets the stage's
  row (`Enter`), or quietly (`EnterQuietly`): an edit that takes an approval
  back (`composer/views.py:673-687`) and the chip (`:1078-1082`) leave the row
  of the earlier round. `mute` marks a round whose row was escalated already
  when it began: the check skips it for good (`approvals/tasks.py:62-75`), so
  `StalledIsEscalated` excuses it and promises the escalation to the others.
- `AgentApi`: a request that schedules a draft checks the status of the row it
  read before its quota check and saves whatever became of it since
  (`ClearDraft`, `Schedule`, `ScheduleRefused`).
- `Analytics`: Facebook and Instagram accounts fetch the day they are synced
  on again while they have no follower count (`MayBeEmpty`, `Wanted`); the count
  itself is not kept, so the model lets it be empty at any hour. The batch of a
  video platform may flag the account (`Batch`).
- `Dashboard` is the client's own page and the publisher: the save of a
  publication whose row an edit deleted meanwhile inserts the row again, unless
  the account has a new one (`Saves`). The composer's chip, which leaves a
  scheduled child without a time, is in `QueueSlots` and `PublishEngine`.

### The studio

- `Drafts`: `session` is the list of media picked before a draft exists, which
  each request loads, changes in its copy and writes back whole. An entry says
  when and on which page it was picked (`at`, `by`, history); what is attached
  keeps that, so that the order of the positions can be compared with the
  order of the clicks of one page.
- `Ideas`: columns and media in order are functions to their positions
  (`Orders`, `Numbered`), as the rows have them. `sent` and `wrote` say which
  edits there were and which came last.
- `Feeds`: a request fetches its feeds one by one, in any order (`left`), and
  the worker that serves it keeps the result for `TTL` ticks.
- `MediaFolders`: `folder_delete` moves what is in the folder to the parent it
  read first (`media_library/views.py:612-622`). If that parent has moved or
  gone meanwhile, the tree may become deeper than three levels or lose what a
  cascade takes: `astray` says that a deletion wrote to a parent that was no
  longer its own, and `late` what came after the deletion had looked.
- `Calendar`: the model begins with the first hour of day 0 in UTC, which is
  day -1 on some clocks: the windows begin there. A drop is one step: what
  overlapping requests do to a row is in the engine's model.

## What the runs check

| Run | Specification and bounds | Shows |
|---|---|---|
| `engine_single` | one worker, one post with two children, no faults, atomic requests, 2 edits, clock 0..2, one retry | `TypeOK`, `AtMostOnce`, `PublishingIsOwned`, `RetryBudget`, `ParentReflectsChildren`, `CommentFollowsFirstTry` |
| `engine_faults` | one worker that may die, one child, two requests in flight at a time that write from stale reads, 2 in all: cancel, drag, composer save, chip, mark by hand; one retry without backoff, one instant | `PublishedIsLive`, `OncePerOrder` |
| `engine_pair` | two workers that may die, stale hold and resume requests, backoffs beyond the clock | `ImplementsPublication`, `TakesNothingHeld` |
| `engine_liveness` | two posts, a poll limited to one row, lost replies, failing inserts of the success log and of the error log, one atomic request, `FairSpec` | `Settles`, `PublishingEnds` |
| `approval_review` | two accounts; a save, an autosave and a decision (approve, hold) in flight at once, the chip to four statuses, every kind of edit, approval optional | `TypeOK`, `ApprovedIsReviewed` |
| `queue_slots` | three posts, two queues, two operations, three slots, one form; one drag onto a slot, save or chip | `NoDoubleBooking`, `ScheduledHasTime`, `FullMeansFull`, `LadderKeepsOrder` |
| `platforms` | every recipe with 3 calls; 3 token grants, 2 threads, 2 page visits; 2 browsers, 2 requests, 2 flows | `TypeOK`, `IsOneCall`, `NothingLeftBehind`, `CommitsWhatIsReady`, `TokensAreKept`, `FailedRefreshIsShown` |
| `workspace` | two or three requests per part, 3 links, 3 workspaces, 2 uploads and 2 assets; quota and daily limit reached; 3 days, 2 messages | `TypeOK`, `CreatesAreCounted`, `FilesAreKept`, `WhatIsShownIsTrue`, `AccessIsAccountedFor`, `DashboardIsTrue` |
| `background` | 2 attempts, 1 kill, 2 reminders in 2 rounds, 2 deliveries, 2 editors, 2 messages, 2 requests to delete; fairness | `TypeOK`, `ActiveKeyWorks`, `TellsAreBounded`, `CancelledIsKept`, `WorkIsFinished`, `WhatLastsIsSeen` |
| `studio` | 2 or 3 requests per part, 3 posts, 3 columns, 2 caches, 2 files, 4 folders, 3 zones, 5 days | `TypeOK`, `WorkIsKept`, `FiguresAddUp`, `ViewsAreTrue` |
| `finding_*` | smallest instance that shows it | a disagreement, below |

Why the bounds are enough. Engine properties relate at most two siblings (one
held, one due), so two children of one post show them, and two posts are needed
only where a poll's LIMIT leaves somebody behind. `MaxRetries = 1` (the code
has 3) already has a first try, a retry and an exhausted budget; two edits let
a row be cancelled and ordered again within one cycle. Three posts are what a
ladder needs: one prioritized, one pushed, one in the way; three slots leave one
to push to once the first is past. `engine_faults` has one instant only, and a
backoff of none: due times decide when a row is due and nothing else there, so
that with every row due at once each interleaving of the worker's steps with
two requests remains, and the theorems hold for every clock. Of the approval
modes the run takes the one that forbids least; the theorem has them all. A race of two requests needs two requests; a third one where a
retry follows a race (`AgentApi`). Two grants of a token make an old and a new
one, the third one an old one that two may hold. Limits (quota, storage, daily
limit, batch, attempts) are set so low that they are reached. For the parts
whose safety is proved, the theorems say the same for every bound.

The deadlock check is on for the engine, the approval and the queue. It is off
for the four joined modules: their counters (calls, edits, kills, messages,
days) run out, and a history that has used them up ends.

### Fairness

- Engine (`FairSpec`): the clock runs, the worker keeps cycling (`CycleStep`)
  and each thread keeps going (`ThreadStep`): `process_tasks` polls again and
  again, and provider calls have HTTP timeouts. Weak fairness of `ThreadStep`
  as a whole does not choose between success and failure. Users owe nothing.
  The liveness run has no crash: a crash does leave a row in `publishing` for
  good (no query takes it back), and no assumption hides that. A failing error
  log does so too; such rows are `abandoned`, and the two properties say so.
- Background parts: time passes and the worker makes its steps (weak); the
  tasks that wait get their turn though others come in between, and the
  billing service answers a question asked again and again (strong): the
  worker takes due tasks oldest first. In `Checkout` the strong fairness is an
  assumption about the customer: who paid comes back, or asks for recovery,
  until it works. Kills are bounded.
- `MCBackground` joins these: `Step` and `Time` are the weak conditions of all
  parts, `Turn(i)` the i-th strong one of each. A behaviour is one of one part,
  where all other disjuncts are disabled, so that the joined condition is
  exactly the part's own.

## Disagreements found

Each has a run that TLC ends with a counterexample.

- `finding_published_reopened`: a cancel that read `scheduled` writes `draft`
  over a row published since (`composer/services.py:280`), though `published`
  is documented as terminal (`composer/models.py:421`). A composer save does
  the same with every column (`composer/views.py:226`).
- `finding_edit_queued_unreviewed`: "add to queue" saves an edit and schedules
  approved children without the revert (`composer/views.py:830`) that `:676`
  promises.

## Seen while modelling

Not runs of their own; the properties are stated so that they hold next to
these, and say so.

*Engine and scheduling.* A failed row is due again at the next poll, before its
`next_retry_at` (`engine.py:138`, unlike the comment at `:548`). A PublishLog
insert that fails after a success schedules a retry, which publishes again
(`:266`); one that fails in the except branch leaves the row in `publishing`
(`:298`). A composer save that read a row before its claim writes `scheduled`
and the old `retry_count` back over `published`, and the row is published again
without an order (`composer/views.py:226`); over another save's revert it
writes `approved`, and the edit is published unreviewed. The chip schedules
without a time (`composer/views.py:1079-1087`) and may call a row published or
publishing by hand. The retry path writes `publishing` over a row that was cancelled or
moved after its query (`:582`), looks at a hold before that write only (`:579`),
may run in two processes for one row (`:583`) and starts no first comment
(`:585`). The claim re-checks the status but not the time (`:173`). A crash
strands rows in `publishing`. `retry_count` is never reset. The client's
bundled approval takes a sibling still in internal review along
(`approvals/services.py:154`); resuming a hold approves an edit made while it
was on (`:305`). `prioritize` moves the post it is called for even when it is
published (`calendar/services.py:267`); a child scheduled without a time of its
own does not occupy its slot (`:106-124`).

*Accounts and providers.* The last save of a health check overwrites a
reconnect (`social_accounts/tasks.py:110`); a check queued before a disconnect
revives the row's status (`:46-60`); a worker killed between refresh and save
loses a rotated token. Two sessions of one browser overwrite each other's flow.
A page of LinkedIn is stored without the token's expiry (`views.py:521`). The
list of manual accounts may delete one that a post has come to use
(`api/routers/frontend/accounts.py:183`).

*API, media, keys.* A failure after the post is committed releases the claim,
so the retry creates a second one (`api/routers/posts.py:285`); an upload that
fails after its asset leaves the claim until the sweep. A key's update empties
the cache before its transaction commits, so the old row may be cached again.
A finalization that fails its inspection deletes an object another one may
have registered (`media_library/services.py:222`). An upload killed between row
and task stays pending. A folder's deletion may stop half-way.

*Background.* A round of an approval that begins without a submission, on a
stage that was escalated in an earlier round, is neither reminded of nor
escalated (`approvals/tasks.py:62-75`). Two activations that finish at once may store a revoked key
(`intelligence/views.py:835`); a web process killed between row and task leaves
a PENDING activation without one (`:813`); discarding may overwrite an attempt
activated meanwhile. A first delivery attempt that is killed is never taken by
the retry query. The inclusive `since` of the inbox poll upserts the newest
message again and wipes its SLA mark (`inbox/tasks.py:121`); a webhook during a
cycle may move the watermark past older messages. A day's figures are not
fetched again once a row exists. An organization cancelled between the task's
re-read and its delete is lost.

*Pages.* The `FOR UPDATE` of the count that guards the last workspace is
dropped by the ORM (`workspaces/views.py:75`), so two requests leave none; the
settings page writes a stale row back. A composer page that saves and then
autosaves makes a second draft (nothing handles `postSaved`); an upload that
ends after the save leaves its file in the session. An import schedules rows
directly, and its preview accepts what the import rejects. An idea's move
writes the whole stale row; two first loads of the board seed its columns
twice. The dashboard's edit replaces children that are published, and a session
updated after its deletion is inserted again. A calendar query is widened by
one day, too little for zones more than a day apart.

## What is proved

TLAPS checks these for every value of the constants that satisfies the named
assumptions. "Module" means the ASSUMEs of the specification only.

| Theorem | Statement | Assumes |
|---|---|---|
| `PublishEngineProofs!TypeCorrect` | `Spec => []TypeOK` | module |
| `!PublicationsAreReal` | `Spec => []PublishedIsLive` | module |
| `!PublishingHasAnOwner` | `Spec => []PublishingIsOwned` (a thread, or `abandoned`) | no crash |
| `!DuePathImplementsPublication` | `Spec => ImplementsPublication` | `LockedPath` |
| `!AppearsOnce` | `Spec => []AtMostOnce` | `LockedPath` |
| `!HoldsAreHonoured` | `Spec => TakesNothingHeld` | `LockedPath` |
| `SingleWorkerProofs!RetriesAreCounted` | `Spec => []RetryBudget` | `Solo` |
| `!AppearsOncePerOrder` | `Spec => []OncePerOrder` | `Solo`, `AnswersArrive` |
| `!FirstTriesAreCommented` | `Spec => []CommentFollowsFirstTry` | `Solo`, no crash, `NoRowIsPutBack` |
| `!PostsReflectTheirChildren` | `Spec => []ParentReflectsChildren` | `Solo`, atomic requests, nothing marked by hand, at most lost replies |
| `ApprovalProofs!TypeCorrect`, `!ApprovalsAreFresh` | `[]TypeOK`, `[]ApprovedIsReviewed` (but for `loose`) | module |
| `QueueProofs!TypeCorrect`, `!NoSlotIsBookedTwice`, `!OnlyTheChipLeavesNoTime`, `!FullQueuesAreFull` | `[]TypeOK`, `[]NoDoubleBooking` (but for `picked`), `[]ScheduledHasTime` (but for `untimed`), `[]FullMeansFull` | module |
| `!LadderIsInOrder` | `Spec => LadderKeepsOrder` | module |
| `PlatformsProofs!PlatformTypes`, `!CallsCleanUp`, `!TokensStayGood` | `[]TypeOK`, `[]NothingLeftBehind`, `[]TokensAreKept` | module |
| `!ExchangesAreOneCall`, `!ReadyBeforePublished`, `!FailedRefreshWarns` | `IsOneCall`, `CommitsWhatIsReady`, `FailedRefreshIsShown` | module |
| `BackgroundProofs!BackgroundTypes`, `!KeysStayLive`, `!TellsStayBounded`, `!CancelsAreKept` | `[]TypeOK`, `[]ActiveKeyWorks`, `[]TellsAreBounded`, `[]CancelledIsKept` | module |
| `WorkspaceProofs!WorkspaceTypes`, `!DashboardStaysTrue`, `!AccessStaysAccountedFor` | `[]TypeOK`, `[]DashboardIsTrue`, `[]AccessIsAccountedFor` | module |
| `!FilesStayKept`, `!CreatesStayCounted`, `!WhatIsShownStaysTrue` | `[]FilesAreKept`, `[]CreatesAreCounted`, `[]WhatIsShownIsTrue` | module |
| `StudioProofs!StudioTypes`, `!WorkStaysKept`, `!ViewsStayTrue` | `[]TypeOK`, `[]WorkIsKept`, `ViewsAreTrue` | module |

`Solo` is the deployment the repository ships: one process_tasks worker.
`AnswersArrive` excludes lost replies and failing log inserts, each of which
does publish a row again. `LockedPath` is the due path alone: backoffs that do
not elapse, every reply arriving, users who only hold and resume. Without it
the three theorems that assume it are false, since the retry path claims
without the lock (`engine.py:583`). `NoRowIsPutBack` rules out the two requests
after which a published row has the retry count of a first attempt and was not
published by one: a composer save from a stale read, and a mark by hand.
`PublicationsAreReal`, `PublishingHasAnOwner`, `RetriesAreCounted` and
`AppearsOncePerOrder` hold with stale whole-row saves, the chip and marks
included.

The inductive invariants. Where a proof needed one that is not a property of
its run, TLC checked it on that run's instance first.

- *Published is live.* The engine writes `published` one step after the
  platform took the post, so `LiveInv` adds that a thread that was accepted, or
  has saved and not yet logged, is live (`ConfirmedIsLive`). A request writes
  `published` by the chip, which marks the row, or by writing back a row that
  it read as `published`: the invariant says the same of what requests hold.
- *Publishing is owned.* `PublishingIsOwned` is inductive with `TypeOK` once
  crashes are excluded: whoever ends a thread writes the row, or is the failing
  error log; whoever else writes `publishing` finds a thread at work or strands
  the row.
- *Publication.* `KeptInv` says of each thread state whether its post has
  appeared, that the thread is the only one on its row and the row says
  `publishing` meanwhile, and that no retry is ever due. Every step of the
  engine then is `Take` of the rows of a claim, `Appear`, `Report`, `GiveBack`
  of one, or a stutter; a stale hold writes only what the row's stage does not
  distinguish. `AtMostOnce` is the type of `shown` in `Publication`, and a
  claim reads under the lock that no sibling is on hold.
- *Retry budget and orders.* `RetryBudget` is not inductive. `BudgetInv` counts
  the calls still owed: a row that is scheduled or waits in the retry snapshot
  owes one, a claimed thread owes one more (`Owed`), and bounds them by what
  was allowed (`Allowed`: orders, reopenings, erased retries) and the counter,
  both the row's and the one in the copy of the thread or snapshot that will
  write it (`Holding`, `Budgeted`): a stale save may take a retry off the row
  while the copy still carries it, and the copy is written back whole. It also
  needs where a process's rows are in each phase (`Place`). `OrderInv` counts
  appearances in the same way: a scheduled or waiting row may appear once more,
  and so may one whose thread has claimed it or was refused; what is granted
  (`Granted`) pays for one appearance, a retry for none.
- *First comments.* `CommentInv`: a row published at its first attempt has its
  comment or is in a group not yet finished; the retry path only has rows with
  a counted failure.
- *Mirrors.* `MirrorInv`: a parent's `published_at` is the latest of its
  children's unless a thread has yet to reflect a child onto it (`Pending`), and
  the copies of the threads have the rows' times, which no web request writes
  (`CopyTimes`).
- *Approvals are fresh.* `ApprovedIsReviewed` is inductive with `TypeOK` and
  the fact that only the kind of save that reverts is ever waiting to
  (`OnlySavesRevert`). Every step that writes a status keeps the signatures of
  what stays approved, signs it or lists it in `loose`; an edit that will revert
  opens the window in which the property demands nothing, and closes it by the
  revert of every approved child. An approval counts when it is written, even
  if the request read the child before the edit: the code compares no version
  of the content.
- *Slots.* At most one operation per channel holds a plan (`OneAtATime`), and
  every plan is injective (`Apart`) and avoids the future instants of the posts
  it does not move (`Clear`). `Clear` has to survive the publisher and the
  cancels, which only free instants, and the requests without the lock, which
  only take instants that are `picked` from then on.
  The order of the ladder and the completeness of the candidate list are proved
  about the plans themselves.
- *One call.* The recipes are finitely many, so what the proof uses of them is
  stated once (`Shaped`, `Waits`) and checked of each. `PublishInv` keeps the
  balance between what is visible, what the calls have told and what is
  unheard (`Balance`); where in a recipe the publishing exchange lies
  (`Course`: before it nothing is visible and a failure may raise, after it
  nothing raises any more); and that a part to be published was waited for
  (`Waited`).
- *Tokens.* `AccountInv` says whose copy is good: as long as no two actors that
  hold the account have met (`clean`), either the row's refresh token is
  honoured or the one actor at work owns the token that is (`RowOwns`,
  `ThreadOwns`, `CheckOwns`, `WebOwns`); a copy marked "disconnected" holds no
  token (`AllClear`), and a check whose refresh failed carries a warning
  (`Warned`). `ConnectInv`: tickets are numbered, and a session holds only what
  was begun in its browser, also in the copies of requests at work.
- *Keys.* `KeyInv`: an actor holds a key only between the commit's answer and
  its storing; while no two have stored at once (`apart`) one actor stores and
  no key held is dead; a subscription that was read exists.
- *Tells.* `RemindInv`: what a round was reminded of is at most the row's
  count, one for the notice being sent and one per kill, and the count a check
  carries is the row's. `DeliverInv`: attempts are counted before they are
  made. `InboxInv`: notices are counted against created messages, SLA notices
  against marks and kills, records of replies against replies delivered.
- *Deletions.* `DeletionInv`: a task that has re-read the organization found
  the deletion requested, or the cancel crossed it.
- *Dashboard.* `DashInv`: a post that is out and counts belongs to a published
  child, one in flight to a publishing child nobody has published (`Once`); a
  child that was there when the post was last moved has its time (`Together`);
  an approval at work has read a time the post still has, unless an edit
  crossed it (`Timed`). `ShootInv`: what is saved was compared.
- *Access.* `AccessInv` adds the age of a cached key to what is left of it: at
  most the TTL. `PeopleInv` says who is on the way in or out of a workspace
  (`Entering`), that a user who joined by an invitation left it accepted or
  still in the hands of that request (`Joining`), and that a sign-up ends in an
  organization (`Signing`). `PortalInv`: whoever took a link is the only one
  (`Taken`); once the removal has begun no link opens (`Closed`). `PlacesInv`:
  a request that worked alone finds what it read (`Fresh`), so the count it made
  still leaves another active workspace.
- *Files.* `MediaInv`: an asset that has the object of a presigned upload is the
  one that upload was finalized into (`Finalized`), and a request that has
  vetted a file of its own is alone with it (`Located`). While no operations
  overlapped, who inspects an upload is alone with it and its object is still
  there (`Single`), and a living asset that no deletion has emptied has its file
  (`Filed`). Of the finalization the row lock alone gives one living asset per
  object; the file needs that nothing overlapped.
- *Creates.* `ApiInv` says who holds a key: a request from its claim to its
  answer, and then its post until the key is swept, unless it ended with an
  error (`Keeps`); no two requests keep one key (`Keeping`), and the answer that
  a record bears is that of a request that created a post for the same body
  (`Recorded`). Sweeps are numbered (`epoch`, `born`), since a swept key may be
  claimed again. `FilesInv` says the same of uploads. `CountInv`: posts
  scheduled and requests that are past their count are together fewer than the
  limit and the largest number that were past it at once.
- *Figures.* `Covered`: each day before today is synced, which is that every day
  its window reaches has figures or was excused on it; a task has come as far as
  its offset; and in the last hour of a day today is synced too, unless a task
  that began in the hour before is still at the account. `Clocked`: a task
  outlives the day it began on by one hour. `Aged`: how old the snapshot of the
  post may be, by whether the task of the hour ran, runs or is late.
- *Writing.* `DraftInv`: what a page or a request knows of is there (`Tied`),
  and nobody knows an asset before its file is uploaded (`Fresh`); a page that
  did not save twice at once has created one post, or has one request that
  will (`Once`); what was picked waits in the session, in the copy of a request
  that will write it back, on a post, or was lost to a copy that overwrote it
  (`Guarded`). While no two requests overlapped there is one copy of the
  session, and what waits is younger than what is attached (`InTurn`): without
  that last part the order of the positions is not inductive, since an old
  entry could still be appended behind a younger one.
- *Ideas.* `BoardInv`: an edit that has saved its text holds the row lock, and
  once it has read the media they change by the deletion of assets only
  (`Editing`), so what it writes is what it was sent, cut to the assets that
  are left. That cut may be made twice, by the edit and by a deletion, in
  either order; the proof rests on `Valid` and a deletion commuting. `Begun`
  says what a request has read of the idea it is about, `Sole` that an idea not
  yet made is one request's, `Apart` that places differ.
- *Imports.* `CsvInv`: an import works on what its request loaded (`Works`);
  one that met no other request is alone with its file and has made posts of
  the rows before its own only (`Alone`), and when it has ended nobody has the
  file in hand (`Over`), so no row comes twice; as long as one answer followed
  another, the session is what the user saw of it (`Shown`).
- *Folders.* `TreeInv`: rows are numbered as they are inserted, and a folder
  lies in an older one (`Hangs`), which is why no deletion can close a cycle;
  no folder is too deep while none went astray (`Shallow`); what is still in a
  folder that was emptied came late (`Came`).
- *Feeds.* `NewsInv` bounds what a cache may lack by its age: of the feeds it
  was made for, nothing but what came, or could not be fetched, in the ticks
  since (`Lately`); a request that fetches lacks nothing of the feeds it is
  through with (`Reader`).
- *Calendar.* The grids, the queue and the tabs are facts about each state with
  the right types, proved from the division of an instant into a day and an
  hour: two zones less than a day apart put an instant on the same day or on
  neighbours (`DateMoves`), so a query one day wider misses nothing, and an
  instant is its cell (`SameCell`), so only the account's own child hides a
  slot. The queue's search stops one candidate after the occupied ones; the
  first open slot is among those since only the child's own slot may come
  before it. The repair needs that a post has a time whenever one of its
  children has (`Follows`).
- `PlatformsInv`, `BackgroundInv`, `WorkspaceInv` and, in `StudioProofs`,
  `KeptInv` and `SeenInv` join the parts; `StepsOfParts` and `EachPart` show
  that a step of the joined specification is a step of each part or leaves it
  alone, so each part's proof is about that part's `Next` only.

Some of these proofs count: the candidates of a search, the clicks that are
still to come, the requests past a limit. Where one needs an induction it is
made by a least counterexample (`LeastNatural`, from the well-foundedness of
the natural numbers), since the induction rules take an operator that the
provers cannot be given.

Only model-checked, and why:

- liveness: `Settles`, `PublishingEnds`, `WorkIsFinished`, `WhatLastsIsSeen`
  (TLAPS has no `ENABLED`, on which fairness rests);
- `FiguresAddUp`: it is about sums over a series, computed by recursion over
  the data, and it is not true of every value of the constants: the model
  counts in twelfths of a unit, so that a value spread over up to four days
  stays whole, and longer periods would need finer parts. The code uses
  floating point.

## Not modelled, and the plan

Every safety and action property the runs check is proved, but for
`FiguresAddUp`. What would come next is more of the system rather than more
about these parts: the computation of slot instants from weekdays and daylight
saving, and the retry path once it claims its rows under the lock, when
`LockedPath` could be dropped from the theorems that assume it.

Left out:

- generation of recurring posts (`calendar/tasks.py`) and daily digests: no
  caller; holidays, custom events, comments, templates, tags, categories, saved
  replies, renames, preferences: one request writes one row;
- rate limits, failed logins, the OAuth server (a library with hooks),
  settings and credentials, e-mail contents;
- expiry dates of keys, billing contacts, the MCP transport;
- the computation of slot instants from weekdays and daylight saving, media
  formats, the contents of a post: abstracted to sets and numbers;
- templates, static files and the Next.js client: presentation.
